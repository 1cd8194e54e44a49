\* Two racing requests of one subject, and two workers whose attempts may
\* outlast their leases.
SPECIFICATION Spec
CONSTANTS
  Subjects = {s1}
  Profiles = {r1, r2}
  Deletions = {d1, d2}
  Handlers = {h1, h2}
  Workers = {w1, w2}
  Guards = {}
  Commands = {"status", "deactivate", "reactivate", "delete", "cancel"}
  Referenced = {}
  LongAttempts = TRUE
  CacheFaults = TRUE
  None = None
SYMMETRY Symmetry
CHECK_DEADLOCK FALSE
INVARIANTS
  TypeOK
  IdentityGoesLast
  CancelledIsKept
  OnlyDeletedAreErased
