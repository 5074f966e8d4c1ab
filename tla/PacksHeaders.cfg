\* Untouched files, some with an incomplete header.
SPECIFICATION Spec
CONSTANTS
  File = {f1, f2}
  Uuid = {u1, u2}
  Kind <- AllKinds
  NoPack = nil
  Removable = {}
INVARIANTS
  BadPackIsSkipped
CHECK_DEADLOCK FALSE
