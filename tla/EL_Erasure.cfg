\* A job in progress while its owner's account is erased.
SPECIFICATION Spec
CONSTANTS
  Events = {e1}
  Photos = {p1}
  Organizers = {o1}
  Handlers = {h1}
  Workers = {w1}
  Dispatchers = {d1}
  Commands = {"create"}
  MaxPhotos = 1
  MaxVersion = 0
  MaxAttempts = 1
  BatchLimit = 1
  Erasable = {o1}
  CacheFaults = FALSE
  None = None
CHECK_DEADLOCK FALSE
INVARIANTS
  ErasedEventsStayArchived
