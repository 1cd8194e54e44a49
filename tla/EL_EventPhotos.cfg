\* Two creations that name the same photo.
SPECIFICATION Spec
CONSTANTS
  Events = {e1, e2}
  Photos = {p1, p2}
  Organizers = {o1}
  Handlers = {h1, h2}
  Workers = {}
  Dispatchers = {}
  Commands = {"create"}
  MaxPhotos = 1
  MaxVersion = 0
  MaxAttempts = 1
  BatchLimit = 1
  Erasable = {}
  CacheFaults = FALSE
  None = None
CHECK_DEADLOCK FALSE
PROPERTIES
  LinkedPhotosAreRejected
