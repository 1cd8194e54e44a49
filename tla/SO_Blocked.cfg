\* A block that has stood since before a reply to the blocked user's comment.
SPECIFICATION SocialSpec
CONSTANTS
  Users = {u1, u2, u3}
  Creators = {}
  Clients = {c1}
  Commands = {"block"}
  MaxOps = 3
  Organizer = u1
  Ids = {m1, m2}
  Writers = {w1}
  Bodies = {{}}
  None = None
CHECK_DEADLOCK FALSE
INVARIANT
  BlockedStayUnheard
