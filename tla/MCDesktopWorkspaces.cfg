SPECIFICATION MCSpec
CONSTANTS
  Parts = {"workspaces"}
  a = a
  b = b
  k1 = k1
  k2 = k2
  Window <- TwoWindows
  Column <- TwoColumns
  StartColumns <- OneColumn
  StartChildren <- BothInIt
  Stacked <- SecondStacked
  Edges <- EdgeAndCorner
  MouseBindings <- OneMouseBinding
  MaxButtons = 1
  XSurface = {"x1", "x2"}
  Menus = {"x2"}
  Changeable = {"x1"}
  Geometry = {"g"}
  Manager = {"m1", "m2"}
  Workspace = {"1", "2"}
SYMMETRY SameWindows
INVARIANT FocusIsExclusive
CHECK_DEADLOCK FALSE
