\* Two projectors and batches of several rows; requests one after the other.
SPECIFICATION Spec
CONSTANTS
  Users = {u1}
  Events = {e1, e2}
  Comments = {}
  Clients = {c1}
  Projectors = {p1, p2}
  Kinds = {"likes"}
  CandidateLimit = 4
  BatchLimit = 2
  MaxTx = 4
  MaxFaults = 1
  None = None
SYMMETRY Symmetry
CHECK_DEADLOCK FALSE
INVARIANTS
  TypeOK
  ClaimedOnce
  CountersCover
PROPERTIES
  DriftNeedsAnEarlyLoss
  OldestGoesFirst
