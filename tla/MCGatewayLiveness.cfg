SPECIFICATION FairSpec
CONSTANTS
  None = None
  Nodes = {"near", "far", "guest"}
  Configured = {"near", "far"}
  LocalNode = "near"
  Position <- MCPosition
  Inventories <- MCInventories
  Config <- MCConfig
  Endpoints <- MCEndpoints
  Host <- MCHost
  Offers <- MCOffers
  MaxJobs <- MCMaxJobs
  TTL = 0
  Users = {"keith", "alice"}
  Quota <- NoQuota
  MaxCost = 0
  Requests = {"k1", "s1", "a1", "a2"}
  Owner <- MCOwner
  Streaming = {"s1"}
  Blocked = {"a2"}
  Eligible <- MCEligible
  Loops = {}
  Probers = {}
  Beats = {}
  Postings = {}
  Faults = {}
  MaxTime = 1
  PerMinute <- KeithLimit
  DefaultLimit = 0
  Window = 0
INVARIANTS
  CompletedIsBilled
  NothingLeftBehind
PROPERTIES
  RoutedIsAnswered
  ComesToRest
