SPECIFICATION FairSpec
CONSTANTS
  None = None
  Procs = {"gateway", "cli"}
  Ops <- Writes
  Select <- Row
  Update <- Written
  InitialDb <- Empty
  RetryMax = 2
  MeshToken = None
  ApiTokens <- MCTokens
  Posts = {"alice", "bob", "mixed"}
  Headers <- MCHeaders
  Job <- MCJob
  Malformed = {}
  JobOwner <- MCJobOwner
  Served <- MCServed
  WindowN = 1
  MaxJobs = 1
  MaxTime = 1
INVARIANTS
  TypeOK
  AcknowledgedIsHeard
  OwnJobsRated
PROPERTIES
  ImplementsAtomicStore
  PostIsAnswered
