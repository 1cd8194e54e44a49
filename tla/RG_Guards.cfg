\* Every kind of route, good and bad credentials, and a Redis that fails.
SPECIFICATION MCSpec
CONSTANTS
  Subjects = {s1, s2}
  Inactive = {s2}
  Addresses = {a1}
  Clients = {c1, c2}
  Exercised = {"live", "getStatus", "getEventById", "getMapEvents", "createComment"}
  UserLimit = 1
  IpLimit = 2
  Window = 4
  Second = 2
  MaxCount = 1
  Author = s1
SYMMETRY Symmetry
CHECK_DEADLOCK FALSE
INVARIANTS
  HandledAreAdmitted
  RollingBound
  RetryAfterIsHonest
