SPECIFICATION FirstUseSpec
CONSTANTS
  Callers = {c1, c2}
  Keys = {k1, k2, k3}
  NoKey = NoKey
INVARIANTS
  EnabledIsComplete
  KeyOpensRows
PROPERTY InstallationKept
