SPECIFICATION Spec
CONSTANTS
  Crates = TRUE
  Runs = {r1, r2}
  Hosts = {h1}
  Copies = {1}
  Agents = {h1}
  Requests <- MCRequests
  AgentOf <- MCAgentOf
  LongLogs = TRUE
  MaxRestarts = 2
  MaxDeaths = 1
CHECK_DEADLOCK FALSE
SYMMETRY RunSymmetry
INVARIANTS
  TypeOK
  RunsCanEnd
  OneScriptPerAgent
  SuccessMeansInstalled
  FlagHeldByHandler
PROPERTIES
  SlotKept
