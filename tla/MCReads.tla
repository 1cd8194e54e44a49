------------------------------- MODULE MCReads -------------------------------
(***************************************************************************)
(* Instances of ReadCache and Listings for TLC.  The reads that go through  *)
(* the cache and the lists that clients page through share no state: each   *)
(* behaviour explores one of them, its scope, and the other stands still.   *)
(***************************************************************************)
EXTENDS ReadCache, Listings, TLC

CONSTANT
  FewCommits,   \* bound: commits while blocks change, and in the other reads
  MaxChanges,   \* bound: changes to what the lists show
  Third         \* a user who is only there in the lists of people
VARIABLES scope, changes

-----------------------------------------------------------------------------
(* Cached reads: the map of one reader at a time over two commits, that of   *)
(* two visitors at once, its cached count apart from its tiles, the details, *)
(* the search.                                                             *)

CachedReads == {"map", "two maps", "count", "detail", "search of one"}

Uses(kind, keys) ==
  \A r \in Requests :
    reqs[r].pc # "idle" => reqs[r].kind = kind /\ reqs[r].key[1] \in keys
MapOnly == \A w \in Writers : writers[w].todo \in {<<>>, <<"detail", "map">>, <<"map">>}
NoBlocks == (\A i \in DOMAIN log : ~log[i].blocked) /\ \A r \in Requests : ~reqs[r].viewer
(* The details and the search leave the cache alone for a viewer.          *)
ViewersAlone ==
  \A r \in Requests : reqs[r].viewer /\ reqs[r].pc # "idle" =>
    \A s \in Requests \ {r} : reqs[s].pc \in {"idle", "done"}
CacheScope ==
  /\ scope # "map" => Len(log) <= FewCommits + 1
  /\ CASE scope = "map" ->
         /\ Uses("map", {"tile"}) /\ MapOnly
         /\ \A r, s \in Requests : "idle" \in {reqs[r].pc, reqs[s].pc} \/ r = s
       [] scope = "two maps" ->
         /\ Uses("map", {"tile"}) /\ MapOnly /\ NoBlocks
         /\ \A r \in Requests : ~reqs[r].misread
       [] scope = "count" ->
         /\ Uses("map", {"tile", "count"}) /\ NoBlocks
         /\ Len(log) = 1 /\ \A v \in Versions : store[<<"tile", v>>] = Absent
       [] scope = "detail" -> Uses("detail", {"detail"}) /\ ViewersAlone
       [] scope = "search of one" -> Uses("search", {"search"}) /\ ViewersAlone

-----------------------------------------------------------------------------
(* Lists: each with the tables it reads.                                   *)

Tables(list) ==
  CASE list \in {"my_created", "search"} -> {"event"}
    [] list = "my_liked" -> {"event", "like", "block"}
    [] list = "my_saved" -> {"event", "save"}
    [] list \in {"my_attending", "profile_attending", "participants"} -> {"event", "rsvp"}
    [] list = "profile_created" -> {"event", "block"}
    [] list = "comments" -> {"event", "comment"}
    [] list = "likes" -> {"event", "like"}
    [] list = "following" -> {"event", "follow"}
    [] list = "followers" -> {"event", "follow", "block"}
    [] list = "blocks" -> {"block"}

(* What else changes: the accounts a list looks at, the answers it tells    *)
(* apart, and the places of events in the search.                          *)
Accounts(list) ==
  CASE list = "profile_attending" -> {"open", "private"}
    [] list \in {"comments", "profile_created", "following", "followers"} -> {"open", "inactive"}
    [] OTHER -> {"open"}
Ignored(list) == IF list = "participants" THEN "declined" ELSE "maybe"

People == {"following", "followers", "blocks"}
Involved ==
  UNION {{x.by, x.on} : x \in rows} \cup {u \in Users : account[u] # "open"}
    \cup UNION {{readers[c].viewer, readers[c].subject} : c \in Readers}

(* Changes after the last page has been read make no difference, and only   *)
(* pages of the search are there for who comes later.                      *)
Scrolling ==
  \E c \in Readers : readers[c].pc \in {"idle", "asserting", "paging"} /\ ~readers[c].moved
(* Users are alike: who owns the first event, or reads a list of their own   *)
(* from an empty database, is the same in all behaviours.                   *)
FirstUser == CHOOSE u \in Users \ {Third} : TRUE
MostChanges == IF scope = "search" THEN 2 ELSE MaxChanges
ListScope ==
  /\ \A x \in rows : x.table \in Tables(scope)
  /\ \A c \in Readers : readers[c].pc # "idle" => readers[c].list = scope
  /\ \A u \in Users : account[u] \in Accounts(scope)
  /\ \A c \in Readers :
       scope \in {"my_created", "blocks"} => readers[c].viewer \in {FirstUser, Visitor}
  /\ scope \notin People => Third \notin Involved
  /\ \A x \in rows :
       /\ x.status # Ignored(scope)
       /\ scope \in {"likes", "participants"} /\ x.table = "event" => x.status = "public"
       /\ scope # "search" => \A place \in Places : x.place <= place
  /\ scope = "search" => clock = 1

-----------------------------------------------------------------------------
Starts(list) ==
  /\ rows = {} => list \in {"my_created", "blocks"}
  /\ \A x \in rows : x.id = 1 \/ list \notin {"my_liked", "following"} => x.by = FirstUser
  /\ list = "following" => \E x \in rows : x.by # FirstUser

MCInit ==
  /\ Init /\ ListInit /\ changes = 0
  /\ \/ /\ scope \in CachedReads
        /\ rows = {}
     \/ /\ scope \in Lists
        /\ log = <<[listed |-> TRUE, blocked |-> FALSE]>>
        /\ ListScope /\ Starts(scope)
  /\ scope \in {"map", "count"} => log[1].listed

MCNext ==
  /\ UNCHANGED scope
  /\ \/ /\ scope \in CachedReads
        /\ CacheNext /\ CacheScope' /\ UNCHANGED <<listVars, changes>>
     \/ /\ scope \in Lists
        /\ \/ Scrolling /\ changes < MostChanges /\ Change /\ changes' = changes + 1
           \/ Scrolling /\ Tick /\ UNCHANGED changes
           \/ (Scrolling \/ scope = "search") /\ Scroll /\ UNCHANGED changes
           \/ Expire /\ UNCHANGED changes
        /\ ListScope' /\ UNCHANGED vars

MCSpec == MCInit /\ [][MCNext]_<<vars, listVars, scope, changes>>

(* Requests and API replicas are interchangeable.                          *)
Symmetry == Permutations(Requests) \cup Permutations(Apis)
=============================================================================
