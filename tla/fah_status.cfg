SPECIFICATION Spec
CONSTANTS
  Crates = FALSE
  None = None
  Projects = {1, 2}
  Units <- MCUnits
  MaxUnits = 3
  LogStates <- MCLogStates
  WorkStates <- MCWorkStates
INVARIANTS
  MergeFaithful
PROPERTIES
  PicksBest
  RunningUnitFound
