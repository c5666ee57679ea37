SPECIFICATION Spec
CONSTANTS
  Crates = FALSE
  Runs = {r1}
  Hosts = {h1}
  Copies = {1}
  Agents = {h1}
  Requests <- MCRequests
  AgentOf <- MCAgentOf
  LongLogs = FALSE
  MaxRestarts = 0
  MaxDeaths = 0
CHECK_DEADLOCK FALSE
INVARIANTS
  SuccessMeansInstalled
