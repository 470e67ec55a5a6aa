SPECIFICATION FairSpec
CONSTANTS
  None = None
  Calls = {"c1", "c2", "c3"}
  Refused = {"c3"}
  Initial = None
  Inventories <- MCInventories
  Posted <- MCPosted
  Faults = {"lost", "late"}
  MaxFailures = 1
INVARIANTS
  InFlightExact
PROPERTIES
  AdmittedWithinLimit
  DrainReachesGateway
  ShutdownEnds
