SPECIFICATION Spec
CONSTANTS
  Procs = {p1, p2}
  Trees <- MCTrees
  Space = 2
  Features = {"external", "unbind", "fail"}
  MaxBinds = 2
  MaxAllocs = 2
  MaxPend = 1
INVARIANT TypeOK
 
 
 
SYMMETRY ProcSymmetry
CHECK_DEADLOCK FALSE
