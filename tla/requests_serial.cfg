SPECIFICATION SystemSpec
CONSTANTS
  Callers = {c1}
  MaxProfileId = 1
  MaxRevision = 3
  MaxImport = 1
  LegacyIds = {}
  Iccids = {iccid1, iccid2}
  Imsis = {imsi1, imsi2}
  Infos = {info1, info2}
  KeySets = {keys1}
  OtherForms = {}
  Statuses = {}
  SuciKeys = {}
  UsedKeys <- NoneUsed
  PreferredKey <- NoneNamed
  NoSuciKey = noSuciKey
  MaxSuciKeyId = 0
  NoCard = NoCard
  NoCaller = NoCaller
INVARIANTS
  VerifiedWasInReader
  NotesNameEveryChange
PROPERTIES
  IccidImmutable
  DeletionConfirmed
  WritesComeFromDraft
  RequestAnswered
  ImplementsCardChanges
