SPECIFICATION Spec
CONSTANTS
  w1 = w1
  w2 = w2
  w3 = w3
  o1 = o1
  o2 = o2
  Window <- ThreeWindows
  Output <- OneOutput
  Adjacent = {}
  Workspace = {s1, s2}
  FirstWorkspace = s1
  Column = {c1, c2, c3, c4, c5, c6}
  Root = Root
  None = None
  Inputs = {}
SYMMETRY WindowSymmetry
VIEW Structure
INVARIANTS TreeTypeOK PlacedOnce ActivePathIsValid   FullscreenIsListed
PROPERTIES UnmapKeepsFocus
CHECK_DEADLOCK FALSE
