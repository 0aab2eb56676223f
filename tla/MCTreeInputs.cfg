SPECIFICATION Spec
CONSTANTS
  w1 = w1
  w2 = w2
  w3 = w3
  o1 = o1
  o2 = o2
  Window <- OneWindow
  Output <- TwoOutputs
  Adjacent <- SideBySide
  Workspace = {s1, s2}
  FirstWorkspace = s1
  Column = {c1, c2, c3}
  Root = Root
  None = None
  Inputs = {"touch", "hover", "mouse binding", "other output"}
SYMMETRY WindowSymmetry
VIEW Structure
INVARIANT StructureIsSound
CHECK_DEADLOCK FALSE
