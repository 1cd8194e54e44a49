------------------------------ MODULE ReadCache ------------------------------
(***************************************************************************)
(* The public reads of one event, as a visitor or a signed-in viewer sees  *)
(* them: the map (GetMapEventsHandler over versioned tiles), the details   *)
(* (GetEventByIdHandler over getOrSet), the search                         *)
(* (SearchEventsByLocationHandler over getOrSet) and RedisCacheService     *)
(* itself, with one set of in-flight loads per API replica.                *)
(*                                                                         *)
(* What a read depends on is the row of the event (is it listed?) and the  *)
(* block between viewer and organizer.  The database is the sequence of    *)
(* its committed states: the primary holds the last one, the read replica  *)
(* the one it has replayed.  A command commits, and then deletes keys and  *)
(* bumps the version of the map; each Redis call may fail and is then      *)
(* swallowed.  Coordinates, weeks, pins and cursors are left out: one tile *)
(* and one page of the search stand for all.                               *)
(***************************************************************************)
EXTENDS Integers, Sequences, FiniteSets

CONSTANTS
  Apis,         \* API replicas (each has its own inFlight map)
  Requests,     \* requests being served
  Kinds,        \* the reads asked for: "map", "detail", "search"
  Writers,      \* commands that change what is listed
  MaxCommits,   \* bound: commits after the initial state
  DetailTtl, SearchTtl, CountTtl, TileTtl,
  LoadLimit,    \* a load and its write end within this time
  None

ASSUME ReadCacheAssumption ==
  /\ Apis # {} /\ None \notin Requests
  /\ Kinds \subseteq {"map", "detail", "search"}
  /\ MaxCommits \in Nat
  /\ {DetailTtl, SearchTtl, CountTtl, TileTtl, LoadLimit} \subseteq Nat \ {0}

VARIABLES
  log,       \* committed states of the database, oldest first
  applied,   \* how many of them the read replica has replayed
  writers,   \* the invalidations a command still has to do
  version,   \* bezoom:version:event_map
  store,     \* the other keys of the cache
  inFlight,  \* RedisCacheService.inFlight of each API replica
  reqs,      \* the requests
  announced  \* history: the last commit whose bump reached Redis when the
             \* read replica had it

vars == <<log, applied, writers, version, store, inFlight, reqs, announced>>

State == [listed: BOOLEAN, blocked: BOOLEAN]
Versions == 0..MaxCommits
Keys == {<<"detail", 0>>, <<"search", 0>>} \cup ({"tile", "count"} \X Versions)

(* A cached value, the time since it was loaded, and the time it has left. *)
Entry == [value: BOOLEAN, age: Nat, left: Nat]
Absent == [value |-> FALSE, age |-> 0, left |-> 0]
Targets == {"detail", "search", "map"}

(* The time an entry lives: the TTL and a random tenth of it (write).      *)
Ttl(key) ==
  CASE key[1] = "detail" -> DetailTtl
    [] key[1] = "search" -> SearchTtl
    [] key[1] = "count" -> CountTtl
    [] key[1] = "tile" -> TileTtl
Jitter(ttl) == IF ttl < 20 THEN {0} ELSE 0..((ttl \div 10) - 1)
Forever(ttl) == {2 * ttl + LoadLimit}
Lifetimes(ttl) == {ttl + j : j \in Jitter(ttl)}

Primary == log[Len(log)]
Replica == log[applied]

Request ==
  [pc: {"idle", "version", "tiles", "load", "fill", "blocks", "get", "miss",
        "loading", "write", "joined", "gate", "query", "done"},
   kind: {"map", "detail", "search"}, viewer: BOOLEAN, api: Apis, key: Keys,
   version: Versions, misread: BOOLEAN, shown: BOOLEAN, value: BOOLEAN,
   age: Nat, waited: Nat, begun: Nat, since: Nat]

Fresh(kind, viewer, api) ==
  [pc |-> "idle", kind |-> kind, viewer |-> viewer, api |-> api, key |-> <<"detail", 0>>,
   version |-> 0, misread |-> FALSE, shown |-> FALSE, value |-> FALSE,
   age |-> 0, waited |-> 0, begun |-> Len(log), since |-> 0]

Init ==
  /\ log \in {<<s>> : s \in State}
  /\ applied = 1
  /\ writers = [w \in Writers |-> [todo |-> <<>>, commit |-> 0]]
  /\ version = 0
  /\ store = [k \in Keys |-> Absent]
  /\ inFlight = [a \in Apis |-> [k \in Keys |-> None]]
  /\ reqs = [r \in Requests |-> [Fresh("detail", FALSE, CHOOSE a \in Apis : TRUE)
                                   EXCEPT !.begun = 0]]
  /\ announced = 1

-----------------------------------------------------------------------------
(* Commands.  Owners' commands delete the details and bump the map, publish *)
(* does both at once, account commands and the erasure worker clear the     *)
(* search as well.  A command that finds its bump unnecessary commits       *)
(* nothing a read depends on and is left out.                               *)

Purges == {<<"detail", "map">>, <<"map", "detail">>, <<"detail", "search", "map">>}

ChangeListing(w) ==
  /\ writers[w].todo = <<>>
  /\ Len(log) <= MaxCommits
  /\ log' = Append(log, [Primary EXCEPT !.listed = ~@])
  /\ \E purge \in Purges :
       writers' = [writers EXCEPT ![w] = [todo |-> purge, commit |-> Len(log) + 1]]
  /\ UNCHANGED <<applied, version, store, inFlight, reqs, announced>>

(* The viewer and the organizer block or unblock each other.               *)
ChangeBlock ==
  /\ Len(log) <= MaxCommits
  /\ log' = Append(log, [Primary EXCEPT !.blocked = ~@])
  /\ UNCHANGED <<applied, writers, version, store, inFlight, reqs, announced>>

(* The read replica replays the next commit.                               *)
Replay ==
  /\ applied < Len(log)
  /\ applied' = applied + 1
  /\ UNCHANGED <<log, writers, version, store, inFlight, reqs, announced>>

Deleted(key) == store' = [store EXCEPT ![key] = Absent]

(* One invalidation, carried out or lost to an error of Redis.             *)
Invalidate(w) ==
  /\ writers[w].todo # <<>>
  /\ writers' = [writers EXCEPT ![w].todo = Tail(@)]
  /\ \/ /\ Head(writers[w].todo) \in {"detail", "search"}
        /\ Deleted(<<Head(writers[w].todo), 0>>)
        /\ UNCHANGED <<version, announced>>
     \/ /\ Head(writers[w].todo) = "map"
        /\ version' = version + 1
        /\ announced' = IF announced < writers[w].commit /\ writers[w].commit <= applied
                        THEN writers[w].commit ELSE announced
        /\ UNCHANGED store
     \/ UNCHANGED <<version, store, announced>>
  /\ UNCHANGED <<log, applied, inFlight, reqs>>

(* The process dies with its invalidations still to do.                    *)
Die(w) ==
  /\ writers[w].todo # <<>>
  /\ writers' = [writers EXCEPT ![w].todo = <<>>]
  /\ UNCHANGED <<log, applied, version, store, inFlight, reqs, announced>>

-----------------------------------------------------------------------------
(* RedisCacheService.  A lookup is a hit, a miss, or an error read as a    *)
(* miss; a write is dropped when it fails.                                 *)

Present(key) == store[key].left > 0

Written(r, key) ==
  \/ \E life \in Lifetimes(Ttl(key)) :
       store' = [store EXCEPT ![key] =
                   [value |-> reqs[r].value, age |-> reqs[r].age, left |-> life]]
  \/ UNCHANGED store

Moves(r, change) == reqs' = [reqs EXCEPT ![r] = change]
To(r, pc) == [reqs[r] EXCEPT !.pc = pc]
Frame == UNCHANGED <<log, applied, writers, version, announced>>

Ask(r) ==
  /\ reqs[r].pc \in {"idle", "done"}
  /\ \E kind \in Kinds, viewer \in BOOLEAN, api \in Apis :
       Moves(r, [Fresh(kind, viewer, api) EXCEPT
                   !.pc = CASE kind = "map" -> "version"
                            [] kind = "detail" -> IF viewer THEN "gate" ELSE "get"
                            [] kind = "search" -> IF viewer THEN "query" ELSE "get",
                   !.key = IF kind = "map" THEN <<"tile", 0>> ELSE <<kind, 0>>])
  /\ Frame /\ UNCHANGED <<store, inFlight>>

(* getOrSet: the cached value, ...                                         *)
Get(r) ==
  /\ reqs[r].pc = "get"
  /\ LET q == reqs[r]
         e == store[q.key]
     IN \/ /\ Present(q.key)
           /\ Moves(r, [q EXCEPT !.pc = "done", !.age = e.age,
                                 !.shown = IF q.kind = "map" THEN @ ELSE e.value])
        \/ Moves(r, To(r, "miss"))
  /\ Frame /\ UNCHANGED <<store, inFlight>>

(* ... or the load another request of this replica has in flight, ...      *)
Current(r) == inFlight[reqs[r].api][reqs[r].key]
Join(r) ==
  /\ reqs[r].pc = "miss"
  /\ Current(r) # None
  /\ Moves(r, To(r, "joined"))
  /\ Frame /\ UNCHANGED <<store, inFlight>>

(* ... or a load of its own.                                               *)
Start(r) ==
  /\ reqs[r].pc = "miss"
  /\ Current(r) = None
  /\ inFlight' = [inFlight EXCEPT ![reqs[r].api][reqs[r].key] = r]
  /\ Moves(r, To(r, "loading"))
  /\ Frame /\ UNCHANGED store

(* The promise settles: its owner and all who joined it are answered, and  *)
(* the owner removes it from the map.                                      *)
Shares(r, s) ==
  s = r \/ (reqs[s].pc = "joined" /\ reqs[s].api = reqs[r].api /\ reqs[s].key = reqs[r].key)
Settled(r, value) ==
  /\ reqs' = [s \in Requests |->
                IF Shares(r, s)
                THEN [reqs[s] EXCEPT !.pc = "done", !.value = FALSE, !.age = reqs[r].age, !.waited = 0,
                        !.shown = IF reqs[s].kind = "map" THEN @ ELSE value]
                ELSE reqs[s]]
  /\ inFlight' = [inFlight EXCEPT ![reqs[r].api][reqs[r].key] = None]

(* The loader reads the replica; the details of an event that is not       *)
(* listed are NotFound, which rejects the promise and stores nothing.      *)
Load(r) ==
  /\ reqs[r].pc = "loading"
  /\ IF reqs[r].kind = "detail" /\ ~Replica.listed
     THEN Settled(r, FALSE)
     ELSE /\ Moves(r, [To(r, "write") EXCEPT !.value = Replica.listed, !.age = 0])
          /\ UNCHANGED inFlight
  /\ Frame /\ UNCHANGED store

Write(r) ==
  /\ reqs[r].pc = "write"
  /\ Written(r, reqs[r].key)
  /\ Settled(r, reqs[r].value)
  /\ Frame

-----------------------------------------------------------------------------
(* The details and the search of a signed-in viewer bypass the cache.      *)

BlockSeenByReplica == Replica.blocked
BlockSeen == Primary.blocked

(* isEventOrganizerBlocked on the primary.                                 *)
Gate(r) ==
  /\ reqs[r].pc = "gate"
  /\ Moves(r, To(r, IF BlockSeen THEN "done" ELSE "query"))
  /\ Frame /\ UNCHANGED <<store, inFlight>>

(* findDetailById on the read replica; search with a viewer on the primary. *)
Query(r) ==
  /\ reqs[r].pc = "query"
  /\ LET state == IF reqs[r].kind = "search" THEN Primary ELSE Replica
     IN Moves(r, [To(r, "done") EXCEPT !.shown = state.listed /\ ~state.blocked])
  /\ Frame /\ UNCHANGED <<store, inFlight>>

-----------------------------------------------------------------------------
(* The map.                                                                *)

(* getVersion: an error counts as version 0.                               *)
ReadVersion(r) ==
  /\ reqs[r].pc = "version"
  /\ \E v \in {version, 0} :
       Moves(r, [To(r, "tiles") EXCEPT
                   !.version = v, !.misread = (v # version), !.since = announced,
                   !.key = <<"tile", v>>])
  /\ Frame /\ UNCHANGED <<store, inFlight>>

ReadTiles(r) ==
  /\ reqs[r].pc = "tiles"
  /\ LET q == reqs[r]
         e == store[q.key]
     IN \/ /\ Present(q.key)
           /\ Moves(r, [q EXCEPT !.pc = "blocks", !.value = e.value, !.age = e.age])
        \/ Moves(r, To(r, "load"))
  /\ Frame /\ UNCHANGED <<store, inFlight>>

(* loadMissingSectors: no single flight here.                              *)
LoadTiles(r) ==
  /\ reqs[r].pc = "load"
  /\ Moves(r, [To(r, "fill") EXCEPT !.value = Replica.listed])
  /\ Frame /\ UNCHANGED <<store, inFlight>>

(* The tiles are stored under the version read before the load.            *)
KeyNow(r) == <<"tile", version>>
FillKey(r) == <<"tile", reqs[r].version>>
FillTiles(r) ==
  /\ reqs[r].pc = "fill"
  /\ Written(r, FillKey(r))
  /\ Moves(r, [To(r, "blocks") EXCEPT !.waited = 0])
  /\ Frame /\ UNCHANGED inFlight

(* Whoever the viewer blocks, or is blocked by, is taken off the map.  The  *)
(* count is derived from the pins or taken from the database for a viewer  *)
(* with blocks, which ends the request, or cached under the version read.  *)
ReadBlocks(r) ==
  /\ reqs[r].pc = "blocks"
  /\ LET q == [reqs[r] EXCEPT !.shown = reqs[r].value /\ ~(reqs[r].viewer /\ BlockSeen),
                 !.value = FALSE, !.age = 0]
     IN \/ Moves(r, [q EXCEPT !.pc = "done"])
        \/ /\ ~(reqs[r].viewer /\ BlockSeen)
           /\ Moves(r, [q EXCEPT !.pc = "get", !.key = <<"count", reqs[r].version>>])
  /\ Frame /\ UNCHANGED <<store, inFlight>>

(* Time passes: loads and their writes end within LoadLimit (the pool's     *)
(* query_timeout and Redis' limits).                                       *)
Pending == {r \in Requests : reqs[r].pc \in {"loading", "write", "load", "fill"}}
Elapse ==
  /\ \A r \in Pending : reqs[r].waited < LoadLimit
  /\ reqs' = [r \in Requests |->
                IF r \notin Pending THEN reqs[r]
                ELSE [reqs[r] EXCEPT !.waited = @ + 1,
                        !.age = IF reqs[r].pc \in {"write", "fill"} THEN @ + 1 ELSE @]]
  /\ store' = [k \in Keys |->
                 IF store[k].left <= 1 THEN Absent
                 ELSE [store[k] EXCEPT !.age = @ + 1, !.left = @ - 1]]
  /\ UNCHANGED <<log, applied, writers, version, inFlight, announced>>

CacheNext ==
  \/ \E w \in Writers : ChangeListing(w) \/ Invalidate(w) \/ Die(w)
  \/ ChangeBlock
  \/ Replay
  \/ Elapse
  \/ \E r \in Requests :
       \/ Ask(r) \/ Get(r) \/ Join(r) \/ Start(r) \/ Load(r) \/ Write(r)
       \/ Gate(r) \/ Query(r)
       \/ ReadVersion(r) \/ ReadTiles(r) \/ LoadTiles(r) \/ FillTiles(r)
       \/ ReadBlocks(r)

CacheSpec == Init /\ [][CacheNext]_vars

-----------------------------------------------------------------------------
(* Properties.                                                             *)

CacheTypeOK ==
  /\ log \in Seq(State)
  /\ applied \in 1..Len(log)
  /\ version \in Versions
  /\ store \in [Keys -> Entry]
  /\ inFlight \in [Apis -> [Keys -> Requests \cup {None}]]
  /\ reqs \in [Requests -> Request]
  /\ announced \in 1..Len(log)

(* A map request that has read the version shows the event only if it was  *)
(* listed at or after the last commit whose bump Redis had taken by then,  *)
(* with a read replica that had replayed it: no tile of an earlier version *)
(* and none that a slow load brings under the new one.  An error read as   *)
(* version 0 is excepted.                                                  *)
MapFollowsAnnouncement ==
  \A r \in Requests :
    LET q == reqs[r]
    IN q.kind = "map" /\ q.shown /\ ~q.misread
         => \E i \in q.since..Len(log) : log[i].listed

(* A read that a viewer begins after a block has been committed never shows *)
(* the event of the blocked organizer, whatever the replica and the cache  *)
(* hold ("must reflect a new block immediately").                          *)
BlockIsImmediate ==
  \A r \in Requests :
    LET q == reqs[r]
    IN q.viewer /\ q.pc = "done" /\ q.shown
         => \E i \in q.begun..Len(log) : ~log[i].blocked

(* No answer from the cache or from another's load is older than the load  *)
(* limit and the lifetime of its key: deletions that lose a race, or are   *)
(* lost, cost no more than that.                                           *)
FreshEnough ==
  \A r \in Requests :
    LET ttl == Ttl(reqs[r].key) IN reqs[r].age < LoadLimit + ttl + (ttl \div 10)
=============================================================================
