SPECIFICATION StateSpec
CONSTANTS
  root = root
  a = a
  b = b
  g = g
  Families = {a, b, g}
  Root = root
  Parent <- MCParent
  MaxRevision = 2
INVARIANTS
  CommittedStatesAreRecent
PROPERTIES
  MostRecentNeverRegresses
CHECK_DEADLOCK FALSE
