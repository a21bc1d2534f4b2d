SPECIFICATION LoginSpec
CONSTANTS
  Callers = {c1, c2}
  Clients = {client1}
  Passwords = {old, new}
  Limit = 3
  Window = 2
  NoPassword = NoPassword
INVARIANTS
  LoginTypeOK
  GuessesBounded
PROPERTY
  LockoutEnds
