SPECIFICATION Spec
CONSTANTS
  Callers = {c1, c2}
  MaxProfileId = 1
  MaxRevision = 3
  MaxImport = 1
  LegacyIds = {1}
  Iccids = {iccid1, iccid2}
  Imsis = {imsi1, imsi2}
  Infos = {info1, info2}
  KeySets = {keys1}
  OtherForms = {"info"}
  Statuses = {issued}
  SuciKeys <- OneSuciKey
  UsedKeys <- OneUsed
  PreferredKey <- OneNamed
  NoSuciKey = noSuciKey
  MaxSuciKeyId = 1
SYMMETRY Symmetry
INVARIANTS
  TypeOK
  NoOrphanRows
  HistoryEndsInActive
  DraftBaseIsActive
PROPERTY ImplementsVersionedStore
CHECK_DEADLOCK FALSE
