\* One event, its owner's requests on two replicas, one pipeline worker, and
\* the erasure of the owner's account.
SPECIFICATION Spec
CONSTANTS
  Events = {e1}
  Photos = {p1}
  Organizers = {o1}
  Handlers = {h1, h2}
  Workers = {w1}
  Dispatchers = {d1}
  Commands = {"create", "update", "resubmit", "publish", "cancel", "archive"}
  MaxPhotos = 1
  MaxVersion = 3
  MaxAttempts = 1
  BatchLimit = 1
  Erasable = {o1}
  CacheFaults = FALSE
  None = None
SYMMETRY Symmetry
CONSTRAINT FailedJobsStay
CHECK_DEADLOCK FALSE
INVARIANTS
  ReleasedIsReviewed
  MapChangeIsAnnounced
PROPERTIES
  ImplementsReview
  ArchiveIsFinal
