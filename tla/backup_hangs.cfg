SPECIFICATION BackupSpec
CONSTANTS
  Callers = {c1, c2}
  Ids = {1}
  Kinds = {"profile", "draft", "inventory"}
  Names = {n1}
  MaxRows = 3
  OwnKey = OwnKey
  OtherKey = OtherKey
  NoKey = NoKey
PROPERTY
  LockReleased
