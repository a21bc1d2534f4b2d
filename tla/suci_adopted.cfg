SPECIFICATION Spec
CONSTANTS
  Plain = {"spn", "ki"}
  Values = {v1, v2}
  v1 = v1
  v2 = v2
  keyA = keyA
  keyB = keyB
  KeysA = {keyA}
  KeysB = {keyB}
  Entered <- SmallEntered
  Requested <- SmallRequested
  Lackable = {"ust", "services", "calc_usim", "auth2g", "saip_read"}
  MaxRevision = 3
  NullScheme = NullScheme
  Unset = Unset
  Blank = Blank
  NoDraft = NoDraft
PROPERTY AdoptionIsComplete
CHECK_DEADLOCK FALSE
