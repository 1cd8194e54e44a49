------------------------------ MODULE Listings ------------------------------
(***************************************************************************)
(* Infinite scroll: the lists of EventReadService, EventSocialReadService,  *)
(* CreatorFollowService and DrizzleUserBlockRepository, and the search      *)
(* around a point, paged by opaque cursors (cursor-pagination.ts) while     *)
(* rows come, change and go.                                               *)
(*                                                                         *)
(* A page is one query: the rows a list admits after the cursor, ordered by *)
(* (time, id) descending or, in the search, by (distance, id) ascending, and *)
(* one row more than the limit to know whether there are others.  Ids are   *)
(* numbers in an order unrelated to that of the insertions (random UUIDs);  *)
(* the time of a row is that of the beginning of its transaction.  Places   *)
(* are points of a line in units of 0.00001 degrees.                        *)
(***************************************************************************)
EXTENDS Integers, Sequences, FiniteSets, Functions

CONSTANTS
  Users, Events,
  Readers,     \* clients scrolling through a list
  Lists,       \* the lists they ask for
  Limit,       \* query.limit
  MaxClock,    \* bound: distinct milliseconds
  MaxId,       \* bound: rows inserted over a run
  Points,      \* points searched around
  Places,      \* points of events
  Reach,       \* how far an event is visible
  Visitor      \* a reader without a session

ListNames ==
  {"my_created", "my_liked", "my_saved", "my_attending", "profile_created",
   "profile_attending", "comments", "likes", "participants", "following",
   "followers", "blocks", "search"}

ASSUME ListingsAssumption ==
  /\ Visitor \notin Users
  /\ Lists \subseteq ListNames
  /\ Limit \in Nat \ {0}
  /\ {MaxClock, MaxId, Reach} \subseteq Nat
  /\ IsFiniteSet(Events) /\ Cardinality(Events) <= MaxId
  /\ Points \cup Places \subseteq Nat

VARIABLES
  rows,     \* the rows of every table
  used,     \* history: the ids given so far
  clock,    \* the time of the database
  account,  \* what a profile says of its account: open, private or inactive
  pages,    \* cached first and later pages of the anonymous search
  readers   \* the clients

listVars == <<rows, used, clock, account, pages, readers>>

-----------------------------------------------------------------------------
(* Rows.  `by` is the organizer, the user who engages, the author, the      *)
(* follower or the blocker; `on` the event, or the user followed or blocked. *)

Statuses ==
  [event |-> {"draft", "public", "archived"}, like |-> {"set"}, save |-> {"set"},
   rsvp |-> {"maybe", "confirmed", "declined"}, comment |-> {"live", "deleted"},
   follow |-> {"set"}, block |-> {"set"}]
Is(x, table, by, on) == x.table = table /\ x.by = by /\ x.on = on
Held(table, by, on) == \E x \in rows : Is(x, table, by, on)

PublicRow(x) == x.table = "event" /\ x.status = "public"
EventRow(e) == CHOOSE x \in rows : x.table = "event" /\ x.on = e
Known(e) == \E x \in rows : x.table = "event" /\ x.on = e
IsPublic(e) == Known(e) /\ PublicRow(EventRow(e))
Organizer(e) == EventRow(e).by

NotBlocked(viewer, user) ==
  viewer = Visitor \/ (~Held("block", viewer, user) /\ ~Held("block", user, viewer))
Active(u) == account[u] # "inactive"
Creator(u) == \E x \in rows : x.table = "event" /\ x.by = u /\ x.status # "archived"

-----------------------------------------------------------------------------
(* The lists: what each admits, of which subject, for which viewer.        *)

Subjects(list) ==
  CASE list \in {"profile_created", "profile_attending"} -> Users
    [] list \in {"comments", "likes", "participants"} -> {e \in Events : Known(e)}
    [] list = "search" -> Points
    [] OTHER -> {Visitor}
Viewers(list) ==
  IF list \in {"profile_created", "profile_attending", "comments", "likes",
               "participants", "search"}
  THEN Users \cup {Visitor} ELSE Users

(* publiclyAvailable and notBlocked for the event of an engagement.        *)
Engaged(x, table, user, viewer) ==
  /\ x.table = table /\ x.by = user /\ x.status # "declined"
  /\ IsPublic(x.on) /\ NotBlocked(viewer, Organizer(x.on))

(* People on the lists of an event: assertPublicEvent is a step of its own. *)
Shown(x, table, e, viewer) ==
  /\ x.table = table /\ x.on = e
  /\ account[x.by] = "open" /\ NotBlocked(viewer, x.by)

DistanceTo(x, point) == IF x.place < point THEN point - x.place ELSE x.place - point

Admits(x, list, subject, viewer) ==
  CASE list = "my_created" -> x.table = "event" /\ x.by = viewer /\ x.status # "archived"
    [] list = "my_liked" -> Engaged(x, "like", viewer, viewer)
    [] list = "my_saved" -> Engaged(x, "save", viewer, viewer)
    [] list = "my_attending" -> Engaged(x, "rsvp", viewer, viewer)
    [] list = "profile_created" ->
         /\ PublicRow(x) /\ x.by = subject
         /\ Active(subject) /\ NotBlocked(viewer, subject)
    [] list = "profile_attending" ->
         /\ Engaged(x, "rsvp", subject, viewer)
         /\ account[subject] = "open" \/ (account[subject] = "private" /\ viewer = subject)
         /\ NotBlocked(viewer, subject)
    [] list = "comments" ->
         /\ x.table = "comment" /\ x.on = subject /\ x.status = "live"
         /\ Active(x.by) /\ NotBlocked(viewer, x.by)
    [] list = "likes" -> Shown(x, "like", subject, viewer)
    [] list = "participants" -> Shown(x, "rsvp", subject, viewer) /\ x.status = "confirmed"
    [] list = "following" -> x.table = "follow" /\ x.by = viewer /\ Active(x.on)
    [] list = "followers" -> x.table = "follow" /\ x.on = viewer /\ Active(x.by)
    [] list = "blocks" -> x.table = "block" /\ x.by = viewer
    [] list = "search" ->
         /\ PublicRow(x) /\ Active(x.by) /\ NotBlocked(viewer, x.by)
         /\ DistanceTo(x, subject) <= Reach

(* How a list sorts, where a row is in it, and the key its cursor carries.  *)
Rank(x, list, subject) == IF list = "search" THEN DistanceTo(x, subject) ELSE -x.at
Ids(x, list) == IF list = "search" THEN x.id ELSE -x.id
NoCursor == [list |-> "none", subject |-> Visitor, rank |-> 0, id |-> 0]
CursorOf(x, list, subject) ==
  [list |-> list, subject |-> subject, rank |-> Rank(x, list, subject), id |-> Ids(x, list)]
Position(x, list, subject) == [rank |-> Rank(x, list, subject), id |-> Ids(x, list)]
Past(p, c) == p.rank > c.rank \/ (p.rank = c.rank /\ p.id > c.id)
AfterRank(x, list, subject, c) == Rank(x, list, subject) > c.rank
After(x, list, subject, c) == Past(Position(x, list, subject), c)

(* The order of a list, and the row that has i - 1 of the others before it. *)
Before(x, y, list, subject) == Past(Position(y, list, subject), Position(x, list, subject))
Nth(i, set, list, subject) ==
  CHOOSE x \in set : Cardinality({y \in set : Before(y, x, list, subject)}) = i - 1

(* One page: a row more than the limit is fetched, to know whether there are *)
(* others, and cut off.                                                    *)
PageOf(list, subject, viewer, cursor) ==
  LET all == {x \in rows : Admits(x, list, subject, viewer)}
      rest == {x \in all : cursor = NoCursor \/ After(x, list, subject, cursor)}
      more == Cardinality(rest) > Limit
      items == [i \in 1..(IF more THEN Limit ELSE Cardinality(rest)) |->
                  Nth(i, rest, list, subject)]
  IN [items |-> [i \in DOMAIN items |-> Position(items[i], list, subject)],
      next |-> IF more THEN CursorOf(items[Limit], list, subject) ELSE NoCursor,
      all |-> {Position(x, list, subject) : x \in all}]

-----------------------------------------------------------------------------
(* The database.  Events there are at the start are public.                *)

EventIds == CHOOSE f \in [Events -> 1..MaxId] : \A d, e \in Events : d # e => f[d] # f[e]
NoReader ==
  [pc |-> "idle", list |-> "my_created", subject |-> Visitor, viewer |-> Visitor,
   cursor |-> NoCursor, first |-> TRUE, got |-> <<>>, kept |-> {}, moved |-> FALSE]

ListInit ==
  /\ \E start \in {{}, Events}, by \in [Events -> Users], place \in [Events -> Places] :
       /\ rows = {[table |-> "event", id |-> EventIds[e], at |-> 1, by |-> by[e], on |-> e,
                   status |-> "public", place |-> place[e]] : e \in start}
       /\ used = {EventIds[e] : e \in start}
  /\ clock = 1
  /\ account = [u \in Users |-> "open"]
  /\ pages = {}
  /\ readers = [c \in Readers |-> NoReader]

Insert(table, by, on, status, place, gone) ==
  /\ \E id \in (1..MaxId) \ used, at \in 1..clock :
       /\ rows' = (rows \ gone) \cup
                    {[table |-> table, id |-> id, at |-> at, by |-> by, on |-> on,
                      status |-> status, place |-> place]}
       /\ used' = used \cup {id}
  /\ UNCHANGED <<clock, account, pages, readers>>
Replace(x, y) ==
  /\ rows' = (rows \ {x}) \cup {y}
  /\ UNCHANGED <<used, clock, account, pages, readers>>
Become(x, status) == Replace(x, [x EXCEPT !.status = status])
Delete(x) ==
  /\ rows' = rows \ {x}
  /\ UNCHANGED <<used, clock, account, pages, readers>>

CreateEvent(u, e) ==
  /\ ~Known(e)
  /\ \E place \in Places : Insert("event", u, e, "draft", place, {})

(* The owner and the pipeline release, withdraw and archive it.            *)
ChangeEvent(x) ==
  /\ x.table = "event" /\ x.status # "archived"
  /\ \E status \in Statuses.event \ {x.status} : Become(x, status)

(* A revision makes a draft of it, and may move it to another place.       *)
ReviseEvent(x) ==
  /\ x.table = "event" /\ x.status # "archived"
  /\ \E place \in Places : Replace(x, [x EXCEPT !.status = "draft", !.place = place])

(* Likes, saves and RSVPs: one row per user and event.                     *)
Engage(table, u, e) ==
  /\ IsPublic(e) /\ Active(Organizer(e)) /\ NotBlocked(u, Organizer(e))
  /\ ~Held(table, u, e)
  /\ \E status \in Statuses[table] : Insert(table, u, e, status, 0, {})
Disengage(x) == x.table \in {"like", "save", "rsvp"} /\ Delete(x)
ChangeRsvp(x) ==
  /\ x.table = "rsvp"
  /\ \E status \in Statuses.rsvp \ {x.status} : Become(x, status)

AddComment(u, e) ==
  /\ IsPublic(e) /\ NotBlocked(u, Organizer(e))
  /\ Insert("comment", u, e, "live", 0, {})
DeleteComment(x) == x.table = "comment" /\ x.status = "live" /\ Become(x, "deleted")

FollowUser(u, v) ==
  /\ u # v /\ Active(v) /\ Creator(v) /\ NotBlocked(u, v)
  /\ ~Held("follow", u, v)
  /\ Insert("follow", u, v, "set", 0, {})
UnfollowUser(x) == x.table = "follow" /\ Delete(x)

(* A block ends the follows between the two.                               *)
BlockUser(u, v) ==
  /\ u # v /\ Active(v) /\ ~Held("block", u, v)
  /\ Insert("block", u, v, "set", 0,
            {x \in rows : Is(x, "follow", u, v) \/ Is(x, "follow", v, u)})
UnblockUser(x) == x.table = "block" /\ Delete(x)

ChangeAccount(u) ==
  /\ \E a \in {"open", "private", "inactive"} \ {account[u]} :
       account' = [account EXCEPT ![u] = a]
  /\ UNCHANGED <<rows, used, clock, pages, readers>>

Tick ==
  /\ clock < MaxClock
  /\ clock' = clock + 1
  /\ UNCHANGED <<rows, used, account, pages, readers>>

-----------------------------------------------------------------------------
(* Readers.                                                                *)

OfEvent == {"comments", "likes", "participants"}
Ready(list) == IF list \in OfEvent \cup {"followers"} THEN "asserting" ELSE "paging"

Open(c) ==
  /\ readers[c].pc \in {"idle", "done", "not_found", "invalid"}
  /\ \E list \in Lists : \E subject \in Subjects(list), viewer \in Viewers(list) :
       readers' = [readers EXCEPT ![c] = [NoReader EXCEPT
                     !.pc = Ready(list), !.list = list, !.subject = subject, !.viewer = viewer]]
  /\ UNCHANGED <<rows, used, clock, account, pages>>

(* assertPublicEvent, ensureCreator: a statement before that of the page.  *)
CheckSubject(c) ==
  LET q == readers[c] IN
  /\ q.pc = "asserting"
  /\ readers' = [readers EXCEPT ![c].pc =
                   IF IF q.list = "followers" THEN Creator(q.viewer)
                      ELSE IsPublic(q.subject) /\ NotBlocked(q.viewer, Organizer(q.subject))
                   THEN "paging" ELSE "not_found"]
  /\ UNCHANGED <<rows, used, clock, account, pages>>

(* A cursor belongs to a list and to its subject.                          *)
Accepts(cursor, list, subject) ==
  cursor = NoCursor \/ (cursor.list = list /\ cursor.subject = subject)

Turned(c, page) ==
  LET q == readers[c]
  IN readers' = [readers EXCEPT ![c] = [q EXCEPT
       !.pc = IF page.next = NoCursor THEN "done" ELSE Ready(q.list),
       !.cursor = page.next, !.first = FALSE, !.got = @ \o page.items,
       !.kept = IF q.first THEN page.all ELSE @ \cap page.all]]

(* Anonymous pages of the search are shared for a while by those who search *)
(* around the same point to four decimals (toFixed(4)).                    *)
Cell(point) == (point + 5) \div 10
Key(q) == <<Cell(q.subject), q.cursor>>
Shared(q) == q.list = "search" /\ q.viewer = Visitor

ReadPage(c) ==
  LET q == readers[c]
      page == PageOf(q.list, q.subject, q.viewer, q.cursor)
  IN /\ q.pc = "paging"
     /\ Accepts(q.cursor, q.list, q.subject)
     /\ Turned(c, page)
     /\ \/ UNCHANGED pages   \* not shared, or the write failed
        \/ /\ Shared(q)
           /\ pages' = {p \in pages : p.key # Key(q)} \cup {[key |-> Key(q), page |-> page]}
     /\ UNCHANGED <<rows, used, clock, account>>

ReadCachedPage(c) ==
  LET q == readers[c] IN
  /\ q.pc = "paging" /\ Shared(q)
  /\ \E p \in pages : p.key = Key(q) /\ Turned(c, p.page)
  /\ UNCHANGED <<rows, used, clock, account, pages>>

Reject(c) ==
  LET q == readers[c] IN
  /\ q.pc = "paging"
  /\ ~Accepts(q.cursor, q.list, q.subject)
  /\ readers' = [readers EXCEPT ![c].pc = "invalid"]
  /\ UNCHANGED <<rows, used, clock, account, pages>>

(* A client uses its cursor for another subject, or another list.          *)
Wander(c) ==
  LET q == readers[c] IN
  /\ q.pc = "paging" /\ q.cursor # NoCursor
  /\ \E list \in Lists : \E subject \in Subjects(list) :
       /\ <<list, subject>> # <<q.list, q.subject>>
       /\ q.viewer \in Viewers(list)
       /\ readers' = [readers EXCEPT ![c] = [q EXCEPT
                        !.pc = Ready(list), !.list = list, !.subject = subject, !.moved = TRUE]]
  /\ UNCHANGED <<rows, used, clock, account, pages>>

(* Entries expire, or the namespace is cleared.                            *)
Expire ==
  /\ \E p \in pages : pages' = pages \ {p}
  /\ UNCHANGED <<rows, used, clock, account, readers>>

Change ==
  \/ \E u \in Users, e \in Events :
       \/ CreateEvent(u, e) \/ AddComment(u, e)
       \/ \E table \in {"like", "save", "rsvp"} : Engage(table, u, e)
  \/ \E u, v \in Users : FollowUser(u, v) \/ BlockUser(u, v)
  \/ \E u \in Users : ChangeAccount(u)
  \/ \E x \in rows :
       \/ ChangeEvent(x) \/ ReviseEvent(x) \/ Disengage(x) \/ ChangeRsvp(x) \/ DeleteComment(x)
       \/ UnfollowUser(x) \/ UnblockUser(x)

Scroll ==
  \E c \in Readers :
    Open(c) \/ CheckSubject(c) \/ ReadPage(c) \/ ReadCachedPage(c) \/ Reject(c) \/ Wander(c)

ListNext == Change \/ Scroll \/ Tick \/ Expire

ListSpec == ListInit /\ [][ListNext]_listVars

-----------------------------------------------------------------------------
(* Properties.                                                             *)

(* Who scrolls through a list is given rows in the order of the list, so    *)
(* none twice where it was, and has at the end been given every row that it *)
(* admitted, in the same position, from the first page to the last, whatever *)
(* was inserted with the same time, changed, moved or deleted meanwhile.   *)
(* (A row keeps its time, but an event its organizer moves has another     *)
(* position in the search by distance, and may be given there as well.)    *)
PagesCoverWhatStays ==
  \A c \in Readers :
    LET q == readers[c]
    IN ~q.moved =>
         /\ q.pc = "done" => q.kept \subseteq Range(q.got)
         /\ \A i, j \in DOMAIN q.got : i < j => Past(q.got[j], q.got[i])

(* A cursor is refused only when it is used in another context than the    *)
(* one it was returned in.                                                 *)
CursorsAreAccepted == \A c \in Readers : readers[c].pc = "invalid" => readers[c].moved
=============================================================================
