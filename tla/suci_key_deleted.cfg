SPECIFICATION Spec
CONSTANTS
  Callers = {c1}
  MaxProfileId = 1
  MaxRevision = 1
  MaxImport = 1
  LegacyIds = {}
  Iccids = {iccid1}
  Imsis = {imsi1}
  Infos = {info1}
  KeySets = {keys1}
  OtherForms = {}
  Statuses = {}
  SuciKeys <- OneSuciKey
  UsedKeys <- OneUsed
  PreferredKey <- NoneNamed
  NoSuciKey = noSuciKey
  MaxSuciKeyId = 1
PROPERTY UsedKeyStays
CHECK_DEADLOCK FALSE
