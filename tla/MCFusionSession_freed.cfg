SPECIFICATION SessionSpec
CONSTANTS
  c = c
  p1 = p1
  p2 = p2
  o1 = o1
  o2 = o2
  o3 = o3
  o4 = o4
  Parties = {c, p1, p2}
  Leader = c
  Outputs = {o1, o2, o3, o4}
  mixOrder <- MCmixOrder
  owner <- MCowner
  Patience = {FALSE}
INVARIANT FreedWhenFateIsKnown
CHECK_DEADLOCK FALSE
