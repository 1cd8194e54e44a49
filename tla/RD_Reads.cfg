\* Two map, detail or search requests against a command and a lagging read
\* replica; one client scrolling through each of the lists.
SPECIFICATION MCSpec
CONSTANTS
  Apis = {a1}
  Requests = {r1, r2}
  Kinds = {"map", "detail", "search"}
  Writers = {w1}
  MaxCommits = 2
  FewCommits = 1
  DetailTtl = 1
  SearchTtl = 1
  CountTtl = 1
  TileTtl = 1
  LoadLimit = 1
  None = None
  Users = {u1, u2, u3}
  Third = u3
  Events = {e1, e2}
  Readers = {c1}
  Lists = {"my_created", "my_liked", "my_saved", "my_attending", "profile_created", "profile_attending", "comments", "likes", "participants", "following", "followers", "blocks", "search"}
  Limit = 1
  MaxChanges = 3
  MaxClock = 2
  MaxId = 4
  Points = {10, 18}
  Places = {7, 12}
  Reach = 6
  Visitor = Visitor
SYMMETRY Symmetry
CHECK_DEADLOCK FALSE
INVARIANTS
  MapFollowsAnnouncement
  BlockIsImmediate
  FreshEnough
  PagesCoverWhatStays
