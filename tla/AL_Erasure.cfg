\* One account's requests, two deletion workers whose attempts fail, and a
\* guard check that may be late.
SPECIFICATION FairSpec
CONSTANTS
  Subjects = {s1}
  Profiles = {r1, r2}
  Deletions = {d1}
  Handlers = {h1}
  Workers = {w1, w2}
  Guards = {g1}
  Commands = {"status", "deactivate", "reactivate", "delete", "cancel"}
  Referenced = {}
  LongAttempts = FALSE
  CacheFaults = TRUE
  None = None
CHECK_DEADLOCK FALSE
PROPERTIES
  DeletionsMoveOn
  ErasureCompletes
  BlockingSettles
