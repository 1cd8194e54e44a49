\* An account whose subject is still named by a follow, a comment like or a
\* mention.
SPECIFICATION FairSpec
CONSTANTS
  Subjects = {s1}
  Profiles = {r1}
  Deletions = {d1}
  Handlers = {h1}
  Workers = {w1}
  Guards = {}
  Commands = {"delete", "cancel"}
  Referenced = {s1}
  LongAttempts = FALSE
  CacheFaults = FALSE
  None = None
CHECK_DEADLOCK FALSE
PROPERTY
  ErasureCompletes
