SPECIFICATION Spec
CONSTANTS
  None = None
  Nodes = {"near", "far", "guest"}
  Configured = {"near", "far"}
  LocalNode = "near"
  Position <- MCPosition
  Inventories <- MCInventories
  Config <- MCConfig
  Endpoints <- MCEndpoints
  Host <- MCHost
  Offers <- MCOffers
  MaxJobs <- MCMaxJobs
  TTL = 0
  Users = {"keith", "alice"}
  Quota <- NoQuota
  MaxCost = 0
  Requests = {"k1", "k2", "s1"}
  Owner <- MCOwner
  Streaming = {"s1"}
  Blocked = {}
  Eligible <- MCEligible
  Loops = {}
  Probers = {}
  Beats = {}
  Postings = {}
  Faults = {}
  MaxTime = 0
  PerMinute <- NoLimits
  DefaultLimit = 0
  Window = 2
INVARIANT
  RequestIdNamesServingJob
