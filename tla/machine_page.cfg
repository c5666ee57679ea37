SPECIFICATION FairSpec
CONSTANTS
  Ranges = {"h2", "h8"}
  Projects = {"p1", "p2"}
  Loads = {l1, l2}
  MaxChanges = 3
INVARIANTS InfoOfShownProject
PROPERTIES PageConverges
CHECK_DEADLOCK FALSE
