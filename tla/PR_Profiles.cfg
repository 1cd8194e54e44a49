\* Two overlapping requests of a user, in each group of operations.
SPECIFICATION MCSpec
CONSTANTS
  Users = {u1}
  Phones = {n1, n2}
  Names = {m1}
  Emails = {a1}
  Clients = {c1, c2}
  MaxAttempts = 1
  MaxIat = 2
  MaxCodes = 2
  MaxOps = 4
  None = None
SYMMETRY Symmetry
CHECK_DEADLOCK FALSE
INVARIANTS
  TypeOK
  VerifiedIsProved
  GuessesAreBounded
  SettingsAreChosen
PROPERTIES
  OnlyItsUploadRemovesAnAvatar
