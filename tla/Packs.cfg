\* Three files of any kinds and ids, one of which may be removed at any time.
SPECIFICATION Spec
CONSTANTS
  File = {f1, f2, f3}
  Uuid = {u1, u2}
  Kind <- AllKinds
  NoPack = nil
  Removable = {f1}
INVARIANTS
  TypeOK
  GoodFilesServed
  ListedIdsResolve
CHECK_DEADLOCK FALSE
