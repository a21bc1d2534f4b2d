SPECIFICATION SystemSpec
CONSTANTS
  Callers = {c1, c2}
  MaxProfileId = 1
  MaxRevision = 2
  MaxImport = 1
  LegacyIds = {}
  Iccids = {iccid1}
  Imsis = {imsi1, imsi2}
  Infos = {info1}
  KeySets = {keys1}
  OtherForms = {"info"}
  Statuses = {}
  SuciKeys = {}
  UsedKeys <- NoneUsed
  PreferredKey <- NoneNamed
  NoSuciKey = noSuciKey
  MaxSuciKeyId = 0
  NoCard = NoCard
  NoCaller = NoCaller
INVARIANTS
  SystemTypeOK
  OneWriter
PROPERTY AdapterReleased
