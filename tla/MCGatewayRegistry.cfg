SPECIFICATION Spec
CONSTANTS
  None = None
  Nodes = {"near", "far", "guest"}
  Configured = {"far"}
  LocalNode = None
  Position <- MCPosition
  Inventories <- MCInventories
  Config <- MCConfig
  Endpoints <- MCEndpoints
  Host <- MCHost
  Offers <- MCOffers
  MaxJobs <- MCMaxJobs
  TTL = 1
  Users = {"keith", "alice"}
  Quota <- NoQuota
  MaxCost = 0
  Requests = {"k1"}
  Owner <- MCOwner
  Streaming = {}
  Blocked = {}
  Eligible <- OneEach
  Loops = {"loop"}
  Probers = {"post"}
  Beats <- MCBeats
  Postings <- GuestPostings
  Faults = {"store", "cli"}
  MaxTime = 2
  PerMinute <- NoLimits
  DefaultLimit = 0
  Window = 2
INVARIANTS
  TypeOK
PROPERTIES
  SilentNodesNotRouted
