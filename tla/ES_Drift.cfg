\* Requests one after the other; two projectors whose batches interlock.
SPECIFICATION Spec
CONSTANTS
  Users = {u1}
  Events = {e1}
  Comments = {}
  Clients = {c1}
  Projectors = {p1, p2}
  Kinds = {"likes"}
  CandidateLimit = 4
  BatchLimit = 4
  MaxTx = 4
  MaxFaults = 0
  None = None
CHECK_DEADLOCK FALSE
INVARIANTS
  CountersSettle
