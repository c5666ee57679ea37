SPECIFICATION FairSpec
CONSTANTS
  Commands <- MCCommands
  Panels = {"a", "b"}
  PanelOf <- MCPanelOf
  Buttons <- MCButtons
  Loads = {l1, l2}
  MaxOutside = 1
INVARIANTS OkMeansDone StopNeverConfirmed PanelWaitsForOne
PROPERTIES CommandsAnswered 
CHECK_DEADLOCK FALSE
