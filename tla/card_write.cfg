SPECIFICATION Spec
CONSTANTS
  Plain = {"spn", "ki", "impi"}
  Values = {v1, v2}
  v1 = v1
  v2 = v2
  keyA = keyA
  keyB = keyB
  KeysA = {keyA}
  KeysB = {keyB}
  Entered <- SmallEntered
  Requested <- SmallRequested
  Lackable = {"ust", "services", "calc_usim", "auth2g", "impi", "routing"}
  MaxRevision = 3
  NullScheme = NullScheme
  Unset = Unset
  Blank = Blank
  NoDraft = NoDraft
INVARIANTS
  CardWriteTypeOK
  WriteCanBeRepeated
  DraftNamesOnlyChanges
PROPERTIES
  ImplementsCardChanges
  ComparisonConfirmsWrite
  NoPartialWriteWithoutFile
  SwitchesToCompleteFile
  AdoptionSettles
CHECK_DEADLOCK FALSE
