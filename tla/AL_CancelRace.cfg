\* A cancellation that has found its deletion REQUESTED meets the worker.
SPECIFICATION Spec
CONSTANTS
  Subjects = {s1}
  Profiles = {r1}
  Deletions = {d1}
  Handlers = {h1}
  Workers = {w1}
  Guards = {}
  Commands = {"delete", "cancel"}
  Referenced = {}
  LongAttempts = FALSE
  CacheFaults = FALSE
  None = None
CHECK_DEADLOCK FALSE
INVARIANT
  StatusFollowsDeletion
