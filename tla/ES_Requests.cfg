\* Overlapping requests of users, and the erasure of the account; one projector.
SPECIFICATION FairSpec
CONSTANTS
  Users = {u1, u2}
  Events = {e1}
  Comments = {m1}
  Clients = {c1, c2}
  Projectors = {p1}
  Kinds = {"likes", "attending", "comments"}
  CandidateLimit = 4
  BatchLimit = 4
  MaxTx = 3
  MaxFaults = 1
  None = None
CHECK_DEADLOCK FALSE
PROPERTIES
  CountersCatchUp
