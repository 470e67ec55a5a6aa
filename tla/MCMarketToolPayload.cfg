SPECIFICATION Spec
CONSTANTS
  None = None
  Inventories <- MCInventories
  Payloads <- MCPayloads
  Asks <- MCAsks
  Beats <- MCBeats
  Nudges <- MCNudges
  MaxTime = 2
  LocalNodeId = "home"
  NodeTtl = 1
INVARIANT
  ToolPayloadsStayLocal
