\* Submission, resubmission, two dispatchers, retries: reviews come to an end.
SPECIFICATION FairSpec
CONSTANTS
  Events = {e1}
  Photos = {p1}
  Organizers = {o1}
  Handlers = {h1}
  Workers = {w1}
  Dispatchers = {d1, d2}
  Commands = {"create", "update", "resubmit"}
  MaxPhotos = 1
  MaxVersion = 2
  MaxAttempts = 2
  BatchLimit = 1
  Erasable = {}
  CacheFaults = FALSE
  None = None
CHECK_DEADLOCK FALSE
INVARIANTS
  SubmissionIsPending
PROPERTIES
  ReviewEnds
