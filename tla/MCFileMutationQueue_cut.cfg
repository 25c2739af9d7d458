SPECIFICATION Spec
CONSTANTS
  target = target
  alias = alias
  other = other
  NoOp = NoOp
  Op = {o1, o2}
  Tools = {"edit"}
  Path = {target}
  RealOf <- Plain
  Existing <- Targets
  Aborts = TRUE
SYMMETRY Calls
INVARIANTS
  NoLostEdit
CHECK_DEADLOCK FALSE
