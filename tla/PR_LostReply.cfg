\* One upload whose answer is lost, and one more request.
SPECIFICATION MCSpec
CONSTANTS
  Users = {u1}
  Phones = {n1, n2}
  Names = {m1}
  Emails = {a1}
  Clients = {c1, c2}
  MaxAttempts = 1
  MaxIat = 2
  MaxCodes = 2
  MaxOps = 4
  None = None
SYMMETRY Symmetry
CHECK_DEADLOCK FALSE
INVARIANTS
  AvatarIsStored
