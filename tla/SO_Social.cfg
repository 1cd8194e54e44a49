\* Two requests about follows and blocks and two about comments, of two users
\* under an event of one of them.
SPECIFICATION SocialSpec
CONSTANTS
  Users = {u1, u2}
  Creators = {u1, u2}
  Clients = {c1, c2}
  Commands = {"follow", "unfollow", "block", "unblock", "deactivate", "reactivate", "erase"}
  MaxOps = 4
  Organizer = u1
  Ids = {m1, m2}
  Writers = {w1, w2}
  Bodies = {{}, {u1, u2}}
  None = None
SYMMETRY Symmetry
CHECK_DEADLOCK FALSE
INVARIANTS
  CountersAgree
  BlockHolds
  LikesAgree
PROPERTIES
  MentionsAreAnnouncedOnce
  RepliesJoinLiveThreads
