\* Creations and concurrent revisions that race for photos, redelivered jobs and
\* the erasure of the owner's account.
SPECIFICATION Spec
CONSTANTS
  Events = {e1, e2}
  Photos = {p1, p2, p3}
  Organizers = {o1}
  Handlers = {h1, h2}
  Workers = {w1, w2}
  Dispatchers = {d1}
  Commands = {"create", "update", "cancel"}
  MaxPhotos = 2
  MaxVersion = 1
  MaxAttempts = 2
  BatchLimit = 1
  Erasable = {o1}
  CacheFaults = TRUE
  None = None
SYMMETRY Symmetry
CONSTRAINTS FailedJobsStay OneRacesThePipeline
CHECK_DEADLOCK FALSE
INVARIANTS
  ReviewInv
  PhotosAreItsOwn
  ReleasedMediaIsServable
PROPERTIES
  OnlyCreationsStrip
