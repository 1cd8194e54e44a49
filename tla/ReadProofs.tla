------------------------------ MODULE ReadProofs -----------------------------
(***************************************************************************)
(* Proofs about ReadCache and Listings.  For any number of requests, API    *)
(* replicas and commits and any times to live: the map shows nothing that a *)
(* command whose bump arrived had taken away, a new block is respected at   *)
(* once, and what the cache answers is no older than its time to live and   *)
(* the load limit.  For any lists, limit, clock and changes: who scrolls to *)
(* the end of a list has been given, in its order, each row that stayed.   *)
(***************************************************************************)
EXTENDS ReadCache, Listings, FiniteSetTheorems, TLAPS

-----------------------------------------------------------------------------
(* What every step keeps.                                                  *)

(* Requests that getOrSet serves, and those that read tiles.               *)
Served == {"get", "miss", "loading", "write", "joined"}
OnMap == {"version", "tiles", "load", "fill", "blocks"}

(* At some time from the i-th commit on the event was listed, or nobody    *)
(* blocked.                                                                *)
ListedSince(i) == \E j \in i..Len(log) : log[j].listed
OpenSince(i) == \E j \in i..Len(log) : ~log[j].blocked

DatabaseOK ==
  /\ log \in Seq(State) /\ Len(log) \in 1..(MaxCommits + 1)
  /\ applied \in 1..Len(log)
  /\ announced \in 1..applied
  /\ version \in Nat

(* The invalidations that may be left of a command's; a bump of the map is *)
(* owed for a commit of its own.                                           *)
Todos == {<<>>, <<"detail", "map">>, <<"map", "detail">>, <<"detail", "search", "map">>,
          <<"map">>, <<"detail">>, <<"search", "map">>}
Bumps(todo) == todo \notin {<<>>, <<"detail">>}
Owed == {w \in Writers : Bumps(writers[w].todo)}
Due == {writers[w].commit : w \in Owed}

WritersOK ==
  /\ writers \in [Writers -> [todo: Todos, commit: Nat]]
  /\ \A w \in Owed : writers[w].commit \in 2..Len(log)
  /\ \A w, v \in Owed : w # v => writers[w].commit # writers[v].commit
  /\ version + Cardinality(Due) < Len(log)

Oldest(key) == LoadLimit + Ttl(key) + (Ttl(key) \div 10)

StoreOK ==
  /\ store \in [Keys -> Entry]
  /\ \A k \in Keys : store[k].left > 0 => store[k].age + store[k].left <= Oldest(k)

RequestOK(q) ==
  /\ q \in Request
  /\ q.pc = "idle" => ~q.shown
  /\ q.pc # "idle" => q.begun \in 1..Len(log)
  /\ q.pc \in OnMap => q.kind = "map"
  /\ q.pc \in {"gate", "query"} => q.kind # "map"
  /\ q.pc \in Served => q.key[1] # "tile"
  /\ q.pc = "tiles" => q.key = <<"tile", q.version>>

(* FreshEnough: what is carried to the cache is as old as its load at most. *)
AgeOK(q) ==
  /\ q.waited <= LoadLimit
  /\ q.pc \in {"version", "tiles", "load"} => q.age = 0
  /\ q.pc \in {"write", "fill"} => q.age <= q.waited
  /\ q.age < Oldest(q.key)

(* BlockIsImmediate: the primary has been asked, or is still to be.        *)
BlockOK(q) ==
  /\ q.viewer /\ q.pc \in Served => q.kind = "map"
  /\ q.viewer /\ (q.shown \/ (q.kind = "detail" /\ q.pc = "query")) => OpenSince(q.begun)

(* MapFollowsAnnouncement.  A request that has the version for its tiles   *)
(* has read the current one since the last announcement, or an older one;  *)
(* an error read as 0 is older than the current one.                       *)
OfMap(q) == q.kind = "map" /\ q.pc \notin {"idle", "version"}
Correct(q) == OfMap(q) /\ ~q.misread

VersionOK(q) ==
  /\ q.kind = "map" /\ ~OfMap(q) => ~q.shown
  /\ OfMap(q) =>
       /\ q.version <= version /\ q.since \in 1..announced
       /\ q.misread => q.version < version
       /\ ~q.misread /\ q.version = version => q.since = announced

(* What is stored, or about to be, under a version was listed at a time    *)
(* that all who read this version can be shown.                            *)
ListedUnder(v) ==
  /\ v = version => ListedSince(announced)
  /\ \A r \in Requests : Correct(reqs[r]) /\ reqs[r].version = v => ListedSince(reqs[r].since)

TileOK(v, e) == e.left > 0 => v <= version /\ (e.value => ListedUnder(v))
TilesOK == \A v \in Versions : TileOK(v, store[<<"tile", v>>])

AnswerOK(q) ==
  /\ q.pc = "fill" /\ q.value => ListedUnder(q.version)
  /\ Correct(q) /\ (q.shown \/ (q.pc = "blocks" /\ q.value)) => ListedSince(q.since)

Good(q) == RequestOK(q) /\ AgeOK(q) /\ BlockOK(q) /\ VersionOK(q) /\ AnswerOK(q)
RequestsOK == reqs = [r \in Requests |-> reqs[r]] /\ \A r \in Requests : Good(reqs[r])

CacheInv == DatabaseOK /\ WritersOK /\ StoreOK /\ RequestsOK /\ TilesOK

-----------------------------------------------------------------------------
(* Lemmas about the operators.                                             *)

LEMMA TodoFacts ==
  ASSUME NEW t \in Todos, t # <<>>
  PROVE  /\ Head(t) \in Targets /\ Tail(t) \in Todos
         /\ Head(t) = "map" => Bumps(t) /\ ~Bumps(Tail(t))
         /\ Head(t) # "map" => (Bumps(t) <=> Bumps(Tail(t)))
<1>1. CASE t = <<"detail", "map">>
  BY <1>1 DEF Todos, Bumps, Targets
<1>2. CASE t = <<"map", "detail">>
  BY <1>2 DEF Todos, Bumps, Targets
<1>3. CASE t = <<"detail", "search", "map">>
  BY <1>3 DEF Todos, Bumps, Targets
<1>4. CASE t = <<"map">>
  BY <1>4 DEF Todos, Bumps, Targets
<1>5. CASE t = <<"detail">>
  BY <1>5 DEF Todos, Bumps, Targets
<1>6. CASE t = <<"search", "map">>
  BY <1>6 DEF Todos, Bumps, Targets
<1>7. QED
  BY <1>1, <1>2, <1>3, <1>4, <1>5, <1>6 DEF Todos

LEMMA TtlFacts ==
  ASSUME ReadCacheAssumption, NEW k \in Keys
  PROVE  /\ Ttl(k) \in Nat /\ Ttl(k) > 0 /\ (Ttl(k) \div 10) \in Nat
         /\ LoadLimit \in Nat /\ Oldest(k) \in Nat /\ LoadLimit < Oldest(k)
<1>1. k[1] \in {"detail", "search", "tile", "count"}
  BY DEF Keys
<1>2. Ttl(k) \in {DetailTtl, SearchTtl, CountTtl, TileTtl}
  BY <1>1 DEF Ttl
<1>3. Ttl(k) \in Nat /\ Ttl(k) > 0 /\ LoadLimit \in Nat
  BY <1>2 DEF ReadCacheAssumption
<1>4. (Ttl(k) \div 10) \in Nat
  BY <1>3
<1>5. QED
  BY <1>3, <1>4 DEF Oldest

LEMMA LifetimeFacts ==
  ASSUME ReadCacheAssumption, NEW k \in Keys, NEW life \in Lifetimes(Ttl(k))
  PROVE  life \in Nat /\ life <= Ttl(k) + (Ttl(k) \div 10)
<1>1. Ttl(k) \in Nat /\ Ttl(k) > 0 /\ (Ttl(k) \div 10) \in Nat
  BY TtlFacts
<1>2. PICK j \in Jitter(Ttl(k)) : life = Ttl(k) + j
  BY DEF Lifetimes
<1>3. j \in Nat /\ j <= (Ttl(k) \div 10)
  BY <1>1, <1>2 DEF Jitter
<1>4. QED
  BY <1>1, <1>2, <1>3

LEMMA KeyFacts ==
  /\ <<"detail", 0>> \in Keys /\ <<"search", 0>> \in Keys
  /\ \A v \in Versions : <<"tile", v>> \in Keys /\ <<"count", v>> \in Keys
  /\ \A k \in Keys : k[1] = "tile" => \E v \in Versions : k = <<"tile", v>>
BY DEF Keys

-----------------------------------------------------------------------------
(* The database and the commands.                                          *)

LEMMA DueFinite ==
  ASSUME DatabaseOK, WritersOK
  PROVE  IsFiniteSet(Due) /\ Cardinality(Due) \in Nat /\ Due \subseteq 2..Len(log)
<1>1. Due \subseteq 2..Len(log)
  BY DEF WritersOK, Due
<1>2. IsFiniteSet(2..Len(log))
  <2>1. 2 \in Int /\ Len(log) \in Int
    BY DEF DatabaseOK
  <2>2. QED
    BY <2>1, FS_Interval
<1>3. QED
  BY <1>1, <1>2, FS_Subset, FS_CardinalityType

(* The version is never ahead of the commits.                              *)
LEMMA VersionBound ==
  ASSUME ReadCacheAssumption, DatabaseOK, WritersOK
  PROVE  version < Len(log) /\ version \in Versions /\ 0 \in Versions
BY DueFinite DEF WritersOK, DatabaseOK, Versions, ReadCacheAssumption

(* A command's invalidations change: the commit of a bump that it no longer *)
(* owes is not due.                                                        *)
LEMMA OweLess ==
  ASSUME DatabaseOK, WritersOK, NEW w \in Writers, NEW todo \in Todos,
         writers' = [writers EXCEPT ![w].todo = todo], log' = log, version' \in Nat,
         Bumps(todo) => Bumps(writers[w].todo) /\ version' = version,
         version' = version \/ (version' = version + 1 /\ w \in Owed /\ ~Bumps(todo))
  PROVE  WritersOK'
<1>1. writers \in [Writers -> [todo: Todos, commit: Nat]] /\ version \in Nat /\ Len(log) \in Nat
  BY DEF WritersOK, DatabaseOK
<1>2. /\ writers' \in [Writers -> [todo: Todos, commit: Nat]]
      /\ \A v \in Writers : writers'[v].commit = writers[v].commit
      /\ \A v \in Writers \ {w} : writers'[v].todo = writers[v].todo
      /\ writers'[w].todo = todo
  BY <1>1
<1>3. Owed' \subseteq Owed /\ Owed \ {w} \subseteq Owed' /\ (w \in Owed' <=> Bumps(todo))
  BY <1>2 DEF Owed
<1>4. /\ \A v \in Owed' : writers'[v].commit \in 2..Len(log')
      /\ \A u, v \in Owed' : u # v => writers'[u].commit # writers'[v].commit
  BY <1>2, <1>3 DEF WritersOK, Owed
<1>5. Due' \subseteq Due
  BY <1>2, <1>3 DEF Due, Owed
<1>6. IsFiniteSet(Due) /\ Cardinality(Due) \in Nat
  BY DueFinite
<1>7. Cardinality(Due') \in Nat /\ Cardinality(Due') <= Cardinality(Due)
  BY <1>5, <1>6, FS_Subset, FS_CardinalityType
<1>8. version' + Cardinality(Due') < Len(log')
  <2>1. CASE version' = version
    BY <1>1, <1>6, <1>7, <2>1 DEF WritersOK
  <2>2. CASE version' = version + 1 /\ w \in Owed /\ ~Bumps(todo)
    <3> DEFINE c == writers[w].commit
    <3>1. c \in Due /\ c \notin Due'
      BY <1>2, <1>3, <2>2 DEF Due, Owed, WritersOK
    <3>2. Due' \subseteq Due \ {c}
      BY <1>5, <3>1
    <3>3. IsFiniteSet(Due \ {c}) /\ Cardinality(Due \ {c}) = Cardinality(Due) - 1
      BY <1>6, <3>1, FS_RemoveElement
    <3>4. Cardinality(Due') <= Cardinality(Due) - 1
      BY <3>2, <3>3, FS_Subset
    <3>5. QED
      BY <1>1, <1>6, <1>7, <2>2, <3>4 DEF WritersOK
  <2>3. QED
    BY <2>1, <2>2
<1>9. QED
  BY <1>2, <1>4, <1>8 DEF WritersOK

(* A commit owes one bump more, if any.                                    *)
LEMMA OweMore ==
  ASSUME DatabaseOK, WritersOK, NEW w \in Writers, writers[w].todo = <<>>, NEW todo \in Todos,
         NEW s \in State, log' = Append(log, s), version' = version,
         writers' = [writers EXCEPT ![w] = [todo |-> todo, commit |-> Len(log) + 1]]
  PROVE  WritersOK'
<1> DEFINE c == Len(log) + 1
<1>1. /\ writers \in [Writers -> [todo: Todos, commit: Nat]] /\ version \in Nat
      /\ log \in Seq(State) /\ Len(log) \in Nat /\ Len(log) >= 1
  BY DEF WritersOK, DatabaseOK
<1>2. Len(log') = c /\ c \in Nat /\ c >= 2
  BY <1>1
<1>3. /\ writers' \in [Writers -> [todo: Todos, commit: Nat]]
      /\ \A v \in Writers \ {w} : writers'[v] = writers[v]
      /\ writers'[w].commit = c /\ writers'[w].todo = todo
  BY <1>1, <1>2
<1>4. w \notin Owed /\ Owed' \subseteq Owed \cup {w} /\ \A v \in Owed' \ {w} : writers'[v] = writers[v]
  BY <1>3 DEF Owed, Bumps
<1>5. /\ \A v \in Owed' : writers'[v].commit \in 2..Len(log')
      /\ \A u, v \in Owed' : u # v => writers'[u].commit # writers'[v].commit
  BY <1>1, <1>2, <1>3, <1>4 DEF WritersOK
<1>6. Due' \subseteq Due \cup {c}
  BY <1>3, <1>4 DEF Due
<1>7. IsFiniteSet(Due) /\ Cardinality(Due) \in Nat /\ c \notin Due
  BY <1>1, DueFinite
<1>8. IsFiniteSet(Due \cup {c}) /\ Cardinality(Due \cup {c}) = Cardinality(Due) + 1
  BY <1>7, FS_AddElement
<1>9. Cardinality(Due') \in Nat /\ Cardinality(Due') <= Cardinality(Due) + 1
  BY <1>6, <1>8, FS_Subset, FS_CardinalityType
<1>10. version' + Cardinality(Due') < Len(log')
  BY <1>1, <1>2, <1>7, <1>9 DEF WritersOK
<1>11. QED
  BY <1>3, <1>5, <1>10 DEF WritersOK

(* What was since, is since, when commits are added.                       *)
LEMMA Since ==
  ASSUME DatabaseOK, Len(log') \in Nat, Len(log') >= Len(log),
         \A i \in 1..Len(log) : log'[i] = log[i], NEW i \in Nat, i >= 1
  PROVE  (ListedSince(i) => ListedSince(i)') /\ (OpenSince(i) => OpenSince(i)')
<1>1. Len(log) \in Nat
  BY DEF DatabaseOK
<1>2. \A j \in i..Len(log) : j \in i..Len(log') /\ log'[j] = log[j]
  BY <1>1
<1>3. QED
  BY <1>2 DEF ListedSince, OpenSince

(* The database, the version and the store move on, the requests stand.    *)
LEMMA WorldMoves ==
  ASSUME CacheInv, DatabaseOK', WritersOK', reqs' = reqs,
         store' \in [Keys -> Entry],
         \A k \in Keys : store'[k] = store[k] \/ store'[k].left = 0,
         Len(log') >= Len(log), \A i \in 1..Len(log) : log'[i] = log[i],
         \/ version' = version /\ announced' = announced
         \/ version' = version + 1 /\ announced' >= announced
  PROVE  CacheInv'
<1>1. /\ Len(log) \in Nat /\ Len(log') \in Nat /\ version \in Nat /\ announced \in Nat
      /\ announced' \in Nat /\ announced >= 1
  BY DEF CacheInv, DatabaseOK
<1>2. ASSUME NEW i \in Nat, i >= 1
      PROVE  (ListedSince(i) => ListedSince(i)') /\ (OpenSince(i) => OpenSince(i)')
  BY <1>1, <1>2, Since DEF CacheInv
<1>3. StoreOK'
  <2>1. \A k \in Keys : store'[k].left > 0 => store'[k].age + store'[k].left <= Oldest(k)
    BY DEF CacheInv, StoreOK
  <2>2. QED
    BY <2>1 DEF StoreOK, Oldest, Ttl
<1>4. ASSUME NEW r \in Requests PROVE RequestOK(reqs[r])' /\ VersionOK(reqs[r])'
  <2>1. RequestOK(reqs[r]) /\ VersionOK(reqs[r])
    BY DEF CacheInv, RequestsOK, Good
  <2>2. RequestOK(reqs[r])'
    BY <1>1, <2>1 DEF RequestOK
  <2>3. reqs[r].version \in Nat /\ reqs[r].since \in Nat
    BY <2>1 DEF RequestOK, Request, Versions
  <2>4. VersionOK(reqs[r])'
    BY <1>1, <2>1, <2>3 DEF VersionOK, OfMap
  <2>5. QED
    BY <2>2, <2>4
<1>5. ASSUME NEW r \in Requests, Correct(reqs[r]), ListedSince(reqs[r].since)
      PROVE  ListedSince(reqs[r].since)'
  <2>1. VersionOK(reqs[r]) /\ OfMap(reqs[r])
    BY <1>5 DEF CacheInv, RequestsOK, Good, Correct
  <2>2. reqs[r].since \in 1..announced
    BY <2>1 DEF VersionOK
  <2>3. QED
    BY <1>1, <1>2, <1>5, <2>2 DEF ListedSince

<1>6. ASSUME NEW v \in Nat, v <= version, ListedUnder(v) PROVE ListedUnder(v)'
  <2>1. v = version' => ListedSince(announced)'
    <3>1. SUFFICES ASSUME v = version' PROVE ListedSince(announced)'
      OBVIOUS
    <3>2. version' = version /\ announced' = announced /\ ListedSince(announced)
      BY <1>1, <1>6, <3>1 DEF ListedUnder
    <3>3. QED
      BY <1>1, <1>2, <3>2 DEF ListedSince
  <2>2. \A r \in Requests : Correct(reqs'[r]) /\ reqs'[r].version = v => ListedSince(reqs[r].since)'
    BY <1>5, <1>6 DEF ListedUnder
  <2>3. QED
    BY <2>1, <2>2 DEF ListedUnder, Correct, OfMap
<1>7. TilesOK'
  <2> SUFFICES ASSUME NEW v \in Versions, store'[<<"tile", v>>].left > 0
               PROVE  /\ v <= version' /\ (store'[<<"tile", v>>].value => ListedUnder(v)')
    BY DEF TilesOK, TileOK
  <2>1. <<"tile", v>> \in Keys /\ v \in Nat
    <3>1. v \in Nat
      BY DEF Versions
    <3>2. QED
      BY <3>1, KeyFacts
  <2>2. store'[<<"tile", v>>] = store[<<"tile", v>>]
    BY <2>1
  <2>3. v <= version /\ (store[<<"tile", v>>].value => ListedUnder(v))
    BY <2>2 DEF CacheInv, TilesOK, TileOK
  <2>4. QED
    BY <1>1, <1>6, <2>1, <2>2, <2>3
<1>8. ASSUME NEW r \in Requests PROVE AgeOK(reqs[r])' /\ BlockOK(reqs[r])' /\ AnswerOK(reqs[r])'
  <2>1. Good(reqs[r])
    BY DEF CacheInv, RequestsOK
  <2>2. reqs'[r] = reqs[r]
    OBVIOUS
  <2>3. AgeOK(reqs[r])'
    BY <2>1, <2>2 DEF Good, AgeOK, Oldest, Ttl
  <2>4. BlockOK(reqs[r])'
    <3>1. reqs[r].shown \/ (reqs[r].kind = "detail" /\ reqs[r].pc = "query")
            => reqs[r].begun \in 1..Len(log)
      BY <2>1 DEF Good, RequestOK
    <3>2. reqs[r].begun \in 1..Len(log) /\ OpenSince(reqs[r].begun) => OpenSince(reqs[r].begun)'
      BY <1>1, <1>2 DEF OpenSince
    <3>3. QED
      BY <2>1, <2>2, <3>1, <3>2 DEF Good, BlockOK
  <2>5. AnswerOK(reqs[r])'
    <3>1. ASSUME reqs[r].pc = "fill", reqs[r].value PROVE ListedUnder(reqs[r].version)'
      <4>1. /\ ListedUnder(reqs[r].version) /\ reqs[r].version \in Nat
            /\ reqs[r].version <= version
        BY <2>1, <3>1 DEF Good, AnswerOK, VersionOK, RequestOK, OfMap, OnMap, Request, Versions
      <4>2. PICK v \in Nat : v = reqs[r].version
        BY <4>1
      <4>3. ListedUnder(v)'
        BY <1>6, <4>1, <4>2
      <4>4. QED
        BY <4>2, <4>3 DEF ListedUnder
    <3>2. ASSUME Correct(reqs[r]), reqs[r].shown \/ (reqs[r].pc = "blocks" /\ reqs[r].value)
          PROVE  ListedSince(reqs[r].since)'
      BY <1>5, <2>1, <3>2 DEF Good, AnswerOK
    <3>3. QED
      BY <2>2, <3>1, <3>2 DEF AnswerOK, Correct, OfMap
  <2>6. QED
    BY <2>3, <2>4, <2>5
<1>9. RequestsOK'
  <2>1. reqs' = [r \in Requests |-> reqs'[r]]
    BY DEF CacheInv, RequestsOK
  <2>2. \A r \in Requests : Good(reqs[r])'
    BY <1>4, <1>8 DEF Good
  <2>3. QED
    BY <2>1, <2>2 DEF RequestsOK
<1>10. QED
  BY <1>3, <1>7, <1>9 DEF CacheInv


LEMMA Appended ==
  ASSUME DatabaseOK, Len(log) <= MaxCommits, NEW s \in State, log' = Append(log, s)
  PROVE  /\ log' \in Seq(State) /\ Len(log') = Len(log) + 1 /\ Len(log') \in 1..(MaxCommits + 1)
         /\ \A i \in 1..Len(log) : log'[i] = log[i]
BY ReadCacheAssumption DEF DatabaseOK, ReadCacheAssumption

LEMMA PrimaryFacts ==
  ASSUME DatabaseOK
  PROVE  Primary \in State /\ Replica \in State /\ Len(log) \in Nat /\ Len(log) >= 1
BY DEF DatabaseOK, Primary, Replica

LEMMA NoCommitOwes ==
  ASSUME DatabaseOK, WritersOK, Len(log') \in Nat, Len(log') >= Len(log), writers' = writers,
         version' = version
  PROVE  WritersOK'
<1>1. Len(log) \in Nat /\ version \in Nat /\ Cardinality(Due) \in Nat
  BY DueFinite DEF DatabaseOK
<1>2. Owed' = Owed /\ Due' = Due
  BY DEF Owed, Due
<1>3. QED
  BY <1>1, <1>2 DEF WritersOK

LEMMA ChangeListingGoes ==
  ASSUME CacheInv, NEW w \in Writers, ChangeListing(w) PROVE CacheInv'
<1> DEFINE s == [Primary EXCEPT !.listed = ~@]
<1>1. /\ writers[w].todo = <<>> /\ Len(log) <= MaxCommits /\ log' = Append(log, s)
      /\ applied' = applied /\ version' = version /\ store' = store /\ reqs' = reqs
      /\ announced' = announced
  BY DEF ChangeListing
<1>2. PICK purge \in Purges :
        writers' = [writers EXCEPT ![w] = [todo |-> purge, commit |-> Len(log) + 1]]
  BY DEF ChangeListing
<1>3. purge \in Todos
  BY DEF Purges, Todos
<1>4. s \in State
  BY PrimaryFacts DEF State, CacheInv
<1> HIDE DEF s
<1>5. /\ log' \in Seq(State) /\ Len(log') = Len(log) + 1 /\ Len(log') \in 1..(MaxCommits + 1)
      /\ \A i \in 1..Len(log) : log'[i] = log[i]
  BY <1>1, <1>4, Appended DEF CacheInv
<1>6. DatabaseOK'
  BY <1>1, <1>5 DEF CacheInv, DatabaseOK
<1>7. WritersOK'
  BY <1>1, <1>2, <1>3, <1>4, OweMore DEF CacheInv
<1>8. store' \in [Keys -> Entry] /\ Len(log) \in Nat
  BY <1>1 DEF CacheInv, StoreOK, DatabaseOK
<1>9. QED
  BY <1>1, <1>5, <1>6, <1>7, <1>8, WorldMoves

LEMMA CommitAlone == ASSUME CacheInv, ChangeBlock PROVE CacheInv'
<1> DEFINE s == [Primary EXCEPT !.blocked = ~@]
<1>1. /\ Len(log) <= MaxCommits /\ log' = Append(log, s)
      /\ applied' = applied /\ version' = version /\ store' = store /\ reqs' = reqs
      /\ announced' = announced /\ writers' = writers
  BY DEF ChangeBlock
<1>2. s \in State
  BY PrimaryFacts DEF State, CacheInv
<1> HIDE DEF s
<1>3. /\ log' \in Seq(State) /\ Len(log') = Len(log) + 1 /\ Len(log') \in 1..(MaxCommits + 1)
      /\ \A i \in 1..Len(log) : log'[i] = log[i]
  BY <1>1, <1>2, Appended DEF CacheInv
<1>4. DatabaseOK' /\ Len(log') \in Nat /\ Len(log') >= Len(log)
  BY <1>1, <1>3 DEF CacheInv, DatabaseOK
<1>5. WritersOK'
  BY <1>1, <1>4, NoCommitOwes DEF CacheInv
<1>6. store' \in [Keys -> Entry]
  BY <1>1 DEF CacheInv, StoreOK
<1>7. QED
  BY <1>1, <1>3, <1>4, <1>5, <1>6, WorldMoves

LEMMA ReplayGoes == ASSUME CacheInv, Replay PROVE CacheInv'
<1>1. /\ applied < Len(log) /\ applied' = applied + 1 /\ log' = log /\ version' = version
      /\ store' = store /\ reqs' = reqs /\ announced' = announced /\ writers' = writers
  BY DEF Replay
<1>2. DatabaseOK' /\ Len(log') \in Nat /\ Len(log') >= Len(log)
  BY <1>1 DEF CacheInv, DatabaseOK
<1>3. WritersOK'
  BY <1>1, <1>2, NoCommitOwes DEF CacheInv
<1>4. store' \in [Keys -> Entry]
  BY <1>1 DEF CacheInv, StoreOK
<1>5. QED
  BY <1>1, <1>2, <1>3, <1>4, WorldMoves

LEMMA InvalidateGoes ==
  ASSUME CacheInv, NEW w \in Writers, Invalidate(w) \/ Die(w) PROVE CacheInv'
<1> DEFINE todo == writers[w].todo
<1>1. /\ todo # <<>> /\ log' = log /\ applied' = applied /\ reqs' = reqs
      /\ writers \in [Writers -> [todo: Todos, commit: Nat]] /\ todo \in Todos
  BY DEF Invalidate, Die, CacheInv, WritersOK
<1>2. /\ Head(todo) \in Targets /\ Tail(todo) \in Todos /\ <<>> \in Todos /\ ~Bumps(<<>>)
      /\ Head(todo) = "map" => Bumps(todo) /\ ~Bumps(Tail(todo))
      /\ Head(todo) # "map" => (Bumps(todo) <=> Bumps(Tail(todo)))
  BY <1>1, TodoFacts DEF Todos, Bumps
<1>3. PICK left \in {Tail(todo), <<>>} :
        /\ writers' = [writers EXCEPT ![w].todo = left]
        /\ \/ version' = version /\ announced' = announced
           \/ /\ version' = version + 1 /\ Bumps(todo) /\ ~Bumps(left)
              /\ announced' = announced
                 \/ (announced < writers[w].commit /\ writers[w].commit <= applied
                     /\ announced' = writers[w].commit)
  BY <1>2 DEF Invalidate, Die
<1>4. Bumps(left) => Bumps(todo)
  BY <1>2
<1>5. store' \in [Keys -> Entry] /\ \A k \in Keys : store'[k] = store[k] \/ store'[k].left = 0
  <2>1. store \in [Keys -> Entry] /\ Absent \in Entry /\ Absent.left = 0
    BY DEF CacheInv, StoreOK, Absent, Entry
  <2>2. store' = store \/ \E k \in Keys : store' = [store EXCEPT ![k] = Absent]
    BY KeyFacts DEF Invalidate, Die, Deleted
  <2>3. QED
    BY <2>1, <2>2
<1>6. DatabaseOK' /\ Len(log') >= Len(log) /\ announced' >= announced
  BY <1>1, <1>3 DEF CacheInv, DatabaseOK, WritersOK, Owed
<1>7. WritersOK'
  <2>1. left \in Todos /\ version' \in Nat /\ version \in Nat
    BY <1>2, <1>6 DEF CacheInv, DatabaseOK
  <2>2. version' = version \/ (version' = version + 1 /\ w \in Owed /\ ~Bumps(left))
    BY <1>3 DEF Owed
  <2>3. Bumps(left) => Bumps(writers[w].todo) /\ version' = version
    BY <1>3, <1>4
  <2>4. QED
    BY <1>1, <1>3, <2>1, <2>2, <2>3, OweLess DEF CacheInv
<1>8. \A i \in 1..Len(log) : log'[i] = log[i]
  BY <1>1
<1>9. QED
  BY <1>1, <1>3, <1>5, <1>6, <1>7, <1>8, WorldMoves


-----------------------------------------------------------------------------
(* The requests.                                                           *)

(* Whoever has a version of the map now had it before, or reads the        *)
(* current one now.                                                        *)
Keeps(q, p) ==
  Correct(p) => \/ Correct(q) /\ p.version = q.version /\ p.since = q.since
                \/ p.version = version /\ p.since = announced

LEMMA RequestsMove ==
  ASSUME CacheInv, Frame, StoreOK', \A v \in Versions : TileOK(v, store'[<<"tile", v>>]),
         reqs' = [s \in Requests |-> reqs'[s]],
         \A s \in Requests : Good(reqs'[s]) /\ Keeps(reqs[s], reqs'[s])
  PROVE  CacheInv'
<1>1. /\ log' = log /\ applied' = applied /\ writers' = writers /\ version' = version
      /\ announced' = announced
  BY DEF Frame
<1>2. DatabaseOK' /\ WritersOK'
  BY <1>1 DEF CacheInv, DatabaseOK, WritersOK, Owed, Due
<1>3. ASSUME NEW i PROVE (ListedSince(i)' <=> ListedSince(i)) /\ (OpenSince(i)' <=> OpenSince(i))
  BY <1>1 DEF ListedSince, OpenSince
<1>4. ListedSince(announced)' <=> ListedSince(announced)
  BY <1>1 DEF ListedSince
<1>5. ASSUME NEW v, ListedUnder(v) PROVE ListedUnder(v)'
  <2>1. ASSUME NEW r \in Requests, Correct(reqs'[r]), reqs'[r].version = v
        PROVE  \E j \in reqs'[r].since..Len(log') : log'[j].listed
    <3>1. PICK i : i = reqs'[r].since
      OBVIOUS
    <3>2. CASE Correct(reqs[r]) /\ reqs'[r].version = reqs[r].version /\ i = reqs[r].since
      BY <1>1, <1>5, <2>1, <3>1, <3>2 DEF ListedUnder, ListedSince
    <3>3. CASE reqs'[r].version = version /\ i = announced
      BY <1>1, <1>5, <2>1, <3>1, <3>3 DEF ListedUnder, ListedSince
    <3>4. QED
      BY <2>1, <3>1, <3>2, <3>3 DEF Keeps
  <2>2. v = version' => ListedSince(announced)'
    BY <1>1, <1>4, <1>5 DEF ListedUnder
  <2>3. QED
    BY <2>1, <2>2 DEF ListedUnder, Correct, OfMap, ListedSince
<1>6. TilesOK'
  BY <1>1, <1>5 DEF TilesOK, TileOK
<1>7. ASSUME NEW s \in Requests PROVE Good(reqs[s])'
  <2>1. PICK q : q = reqs'[s]
    OBVIOUS
  <2>2. Good(q)
    BY <2>1
  <2>3. Good(q)'
    BY <1>1, <1>3, <1>5, <2>2
       DEF Good, RequestOK, AgeOK, BlockOK, VersionOK, AnswerOK, Correct, OfMap, Oldest, Ttl
  <2>4. QED
    BY <2>1, <2>3 DEF Good, RequestOK, AgeOK, BlockOK, VersionOK, AnswerOK, Correct, OfMap,
                      ListedUnder, ListedSince, OpenSince
<1>8. QED
  BY <1>2, <1>6, <1>7 DEF CacheInv, RequestsOK

LEMMA RequestMoves ==
  ASSUME CacheInv, Frame, NEW r \in Requests, NEW p, Moves(r, p), Good(p), Keeps(reqs[r], p),
         StoreOK', \A v \in Versions : TileOK(v, store'[<<"tile", v>>])
  PROVE  CacheInv'
<1>1. reqs = [s \in Requests |-> reqs[s]] /\ \A s \in Requests : Good(reqs[s])
  BY DEF CacheInv, RequestsOK
<1>2. /\ reqs' = [s \in Requests |-> reqs'[s]] /\ reqs'[r] = p
      /\ \A s \in Requests \ {r} : reqs'[s] = reqs[s]
  BY <1>1 DEF Moves
<1>3. \A s \in Requests \ {r} : Keeps(reqs[s], reqs'[s])
  BY <1>2 DEF Keeps
<1>4. \A s \in Requests : Good(reqs'[s]) /\ Keeps(reqs[s], reqs'[s])
  BY <1>1, <1>2, <1>3
<1>5. QED
  BY <1>2, <1>4, RequestsMove

LEMMA StoreStands ==
  ASSUME CacheInv, store' = store
  PROVE  StoreOK' /\ \A v \in Versions : TileOK(v, store'[<<"tile", v>>])
BY DEF CacheInv, StoreOK, TilesOK, Oldest, Ttl

(* A request moves and leaves the store alone.                             *)
LEMMA RequestGoes ==
  ASSUME CacheInv, Frame, store' = store, NEW r \in Requests, NEW p, Moves(r, p), Good(p),
         Keeps(reqs[r], p)
  PROVE  CacheInv'
BY StoreStands, RequestMoves


LEMMA RequestFacts ==
  ASSUME CacheInv, NEW r \in Requests
  PROVE  /\ Good(reqs[r]) /\ reqs[r] \in Request /\ reqs[r].key \in Keys
         /\ reqs[r].age \in Nat /\ reqs[r].waited \in Nat /\ LoadLimit \in Nat
         /\ Oldest(reqs[r].key) \in Nat /\ LoadLimit < Oldest(reqs[r].key)
         /\ version \in Versions /\ 0 \in Versions /\ version \in Nat
         /\ announced \in Nat /\ announced >= 1 /\ Len(log) \in Nat /\ Len(log) >= 1
<1>1. Good(reqs[r]) /\ reqs[r] \in Request
  BY DEF CacheInv, RequestsOK, Good, RequestOK
<1>2. reqs[r].key \in Keys /\ reqs[r].age \in Nat /\ reqs[r].waited \in Nat
  BY <1>1 DEF Request
<1>3. LoadLimit \in Nat /\ Oldest(reqs[r].key) \in Nat /\ LoadLimit < Oldest(reqs[r].key)
  BY <1>2, ReadCacheAssumption, TtlFacts
<1>4. version \in Versions /\ 0 \in Versions
  BY ReadCacheAssumption, VersionBound DEF CacheInv
<1>5. announced \in Nat /\ announced >= 1 /\ Len(log) \in Nat /\ Len(log) >= 1 /\ version \in Nat
  BY DEF CacheInv, DatabaseOK
<1>6. QED
  BY <1>1, <1>2, <1>3, <1>4, <1>5

LEMMA AskGoes == ASSUME CacheInv, NEW r \in Requests, Ask(r) PROVE CacheInv'
<1>1. PICK kind \in Kinds, viewer \in BOOLEAN, api \in Apis :
        Moves(r, [Fresh(kind, viewer, api) EXCEPT
                    !.pc = CASE kind = "map" -> "version"
                             [] kind = "detail" -> IF viewer THEN "gate" ELSE "get"
                             [] kind = "search" -> IF viewer THEN "query" ELSE "get",
                    !.key = IF kind = "map" THEN <<"tile", 0>> ELSE <<kind, 0>>])
  BY DEF Ask
<1>2. kind \in {"map", "detail", "search"}
  BY ReadCacheAssumption DEF ReadCacheAssumption
<1>3. PICK pc : pc = CASE kind = "map" -> "version"
                       [] kind = "detail" -> IF viewer THEN "gate" ELSE "get"
                       [] kind = "search" -> IF viewer THEN "query" ELSE "get"
  OBVIOUS
<1>4. PICK key : key = IF kind = "map" THEN <<"tile", 0>> ELSE <<kind, 0>>
  OBVIOUS
<1>5. /\ kind = "map" => pc = "version" /\ key = <<"tile", 0>>
      /\ kind # "map" => /\ key = <<kind, 0>> /\ key[1] = kind
                         /\ pc \in {"gate", "get", "query"}
                         /\ viewer => pc # "get"
                         /\ viewer /\ kind = "detail" => pc = "gate"
  BY <1>2, <1>3, <1>4
<1>6. PICK p : p = [Fresh(kind, viewer, api) EXCEPT !.pc = pc, !.key = key]
  OBVIOUS
<1>7. Moves(r, p)
  BY <1>1, <1>3, <1>4, <1>6
<1>8. key \in Keys
  BY <1>2, <1>5, RequestFacts, KeyFacts
<1>9. /\ p.pc = pc /\ p.kind = kind /\ p.viewer = viewer /\ p.key = key /\ p.misread = FALSE
      /\ p.shown = FALSE /\ p.value = FALSE /\ p.age = 0 /\ p.waited = 0 /\ p.begun = Len(log)
      /\ p \in Request
  BY <1>2, <1>5, <1>6, <1>8, RequestFacts DEF Fresh, Request
<1>10. Oldest(key) \in Nat /\ LoadLimit < Oldest(key) /\ LoadLimit \in Nat
  BY <1>8, ReadCacheAssumption, TtlFacts
<1>11. RequestOK(p)
  <2>1. p.begun \in 1..Len(log)
    BY <1>9, RequestFacts
  <2>2. QED
    BY <1>2, <1>5, <1>9, <2>1 DEF RequestOK, OnMap, Served
<1>12. AgeOK(p)
  BY <1>9, <1>10 DEF AgeOK
<1>13. BlockOK(p)
  BY <1>5, <1>9 DEF BlockOK, Served
<1>14. ~Correct(p) /\ VersionOK(p) /\ AnswerOK(p)
  BY <1>5, <1>9 DEF Correct, OfMap, VersionOK, AnswerOK
<1>15. store' = store /\ Frame /\ Keeps(reqs[r], p)
  BY <1>14 DEF Ask, Keeps
<1>16. QED
  BY <1>7, <1>11, <1>12, <1>13, <1>14, <1>15, RequestGoes DEF Good

(* A request changes its place in getOrSet only: what is known of it there *)
(* is what was known of it before.                                         *)
LEMMA PlaceGoes ==
  ASSUME CacheInv, NEW r \in Requests, reqs[r].pc \in {"get", "miss"},
         NEW pc \in {"miss", "joined", "loading"}, Moves(r, To(r, pc)), Frame, store' = store
  PROVE  CacheInv'
<1> DEFINE q == reqs[r]
<1>1. Good(q) /\ q \in Request
  BY RequestFacts
<1>2. PICK p : p = [q EXCEPT !.pc = pc]
  OBVIOUS
<1>3. /\ p \in Request /\ p.pc = pc /\ p.kind = q.kind /\ p.viewer = q.viewer
      /\ p.key = q.key /\ p.version = q.version /\ p.misread = q.misread /\ p.shown = q.shown
      /\ p.age = q.age /\ p.waited = q.waited /\ p.begun = q.begun /\ p.since = q.since
  BY <1>1, <1>2 DEF Request
<1>4. Good(p) /\ Keeps(q, p)
  BY <1>1, <1>3 DEF Good, RequestOK, AgeOK, BlockOK, VersionOK, AnswerOK, OnMap, Served,
                    Correct, OfMap, Keeps
<1>5. Moves(r, p)
  BY <1>2 DEF To
<1>6. QED
  BY <1>4, <1>5, RequestGoes

LEMMA GetGoes == ASSUME CacheInv, NEW r \in Requests, Get(r) PROVE CacheInv'
<1> DEFINE q == reqs[r]
           e == store[q.key]
<1>1. /\ Good(q) /\ q \in Request /\ q.key \in Keys /\ LoadLimit \in Nat
      /\ Oldest(q.key) \in Nat /\ LoadLimit < Oldest(q.key) /\ q.pc = "get"
      /\ Frame /\ store' = store
  BY RequestFacts DEF Get
<1>2. CASE Moves(r, To(r, "miss"))
  BY <1>1, <1>2, PlaceGoes
<1>3. CASE /\ Present(q.key)
           /\ Moves(r, [q EXCEPT !.pc = "done", !.age = e.age,
                                 !.shown = IF q.kind = "map" THEN @ ELSE e.value])
  <2>1. e \in Entry /\ e.age + e.left <= Oldest(q.key) /\ e.left > 0
    BY <1>1, <1>3 DEF CacheInv, StoreOK, Present
  <2>2. e.age \in Nat /\ e.left \in Nat /\ e.value \in BOOLEAN /\ e.age < Oldest(q.key)
    BY <1>1, <2>1 DEF Entry
  <2>3. PICK shown \in BOOLEAN : shown = IF q.kind = "map" THEN q.shown ELSE e.value
    BY <1>1, <2>2 DEF Request
  <2>4. PICK p : p = [q EXCEPT !.pc = "done", !.age = e.age, !.shown = shown]
    OBVIOUS
  <2>5. Moves(r, p)
    BY <1>1, <1>3, <2>3, <2>4
  <2> HIDE DEF e
  <2>6. /\ p \in Request /\ p.pc = "done" /\ p.kind = q.kind /\ p.viewer = q.viewer
        /\ p.key = q.key /\ p.version = q.version /\ p.misread = q.misread /\ p.shown = shown
        /\ p.age = e.age /\ p.waited = q.waited /\ p.begun = q.begun /\ p.since = q.since
    BY <1>1, <2>2, <2>4 DEF Request
  <2>7. q.viewer => q.kind = "map"
    BY <1>1 DEF Good, BlockOK, Served
  <2>8. Good(p) /\ Keeps(q, p)
    BY <1>1, <2>2, <2>3, <2>6, <2>7
       DEF Good, RequestOK, AgeOK, BlockOK, VersionOK, AnswerOK, OnMap, Served, Correct, OfMap,
           Keeps
  <2>9. QED
    BY <1>1, <2>5, <2>8, RequestGoes
<1>4. QED
  BY <1>2, <1>3 DEF Get


LEMMA JoinGoes == ASSUME CacheInv, NEW r \in Requests, Join(r) \/ Start(r) PROVE CacheInv'
<1>1. reqs[r].pc = "miss" /\ Frame /\ store' = store
  BY DEF Join, Start
<1>2. Moves(r, To(r, "joined")) \/ Moves(r, To(r, "loading"))
  BY DEF Join, Start
<1>3. QED
  BY <1>1, <1>2, PlaceGoes

(* What a request writes is as old as its load at most, and lives for its  *)
(* time to live and a tenth.                                               *)
LEMMA WrittenFacts ==
  ASSUME CacheInv, NEW r \in Requests, reqs[r].pc \in {"write", "fill"}, NEW k \in Keys,
         Written(r, k)
  PROVE  /\ StoreOK' /\ \A l \in Keys \ {k} : store'[l] = store[l]
         /\ store'[k] = store[k] \/ store'[k].value = reqs[r].value
<1>1. /\ Good(reqs[r]) /\ reqs[r].age \in Nat /\ reqs[r].age <= LoadLimit
      /\ reqs[r].value \in BOOLEAN /\ LoadLimit \in Nat
  BY RequestFacts DEF Good, AgeOK, Request
<1>2. store \in [Keys -> Entry] /\ \A l \in Keys : store[l].left > 0 =>
                                      store[l].age + store[l].left <= Oldest(l)
  BY DEF CacheInv, StoreOK
<1>3. CASE store' = store
  BY <1>2, <1>3 DEF StoreOK, Oldest, Ttl
<1>4. CASE \E life \in Lifetimes(Ttl(k)) :
             store' = [store EXCEPT ![k] =
                         [value |-> reqs[r].value, age |-> reqs[r].age, left |-> life]]
  <2>1. PICK life \in Lifetimes(Ttl(k)) :
          store' = [store EXCEPT ![k] =
                      [value |-> reqs[r].value, age |-> reqs[r].age, left |-> life]]
    BY <1>4
  <2>2. PICK e : e = [value |-> reqs[r].value, age |-> reqs[r].age, left |-> life]
    OBVIOUS
  <2>3. life \in Nat /\ life <= Ttl(k) + (Ttl(k) \div 10)
    BY ReadCacheAssumption, LifetimeFacts
  <2>4. e \in Entry /\ e.value = reqs[r].value /\ e.age = reqs[r].age /\ e.left = life
    BY <1>1, <2>2, <2>3 DEF Entry
  <2>5. e.age + e.left <= Oldest(k)
    <3>1. Ttl(k) \in Nat /\ (Ttl(k) \div 10) \in Nat
      BY ReadCacheAssumption, TtlFacts
    <3>2. QED
      BY <1>1, <2>3, <2>4, <3>1 DEF Oldest
  <2>6. store' = [store EXCEPT ![k] = e]
    BY <2>1, <2>2
  <2>7. /\ store' \in [Keys -> Entry] /\ store'[k] = e
        /\ \A l \in Keys \ {k} : store'[l] = store[l]
    BY <1>2, <2>4, <2>6
  <2>8. \A l \in Keys : store'[l].left > 0 => store'[l].age + store'[l].left <= Oldest(l)
    BY <1>2, <2>5, <2>7
  <2>9. StoreOK'
    BY <2>7, <2>8 DEF StoreOK, Oldest, Ttl
  <2>10. QED
    BY <2>4, <2>7, <2>9
<1>5. QED
  BY <1>3, <1>4 DEF Written

(* A load is over: its owner and all who joined it are answered.           *)
LEMMA SettledGoes ==
  ASSUME CacheInv, Frame, NEW r \in Requests, reqs[r].pc \in {"loading", "write"},
         NEW value \in BOOLEAN, Settled(r, value),
         StoreOK', \A v \in Versions : TileOK(v, store'[<<"tile", v>>])
  PROVE  CacheInv'
<1>1. reqs' = [s \in Requests |->
                 IF Shares(r, s)
                 THEN [reqs[s] EXCEPT !.pc = "done", !.value = FALSE, !.age = reqs[r].age,
                         !.waited = 0, !.shown = IF reqs[s].kind = "map" THEN @ ELSE value]
                 ELSE reqs[s]]
  BY DEF Settled
<1>2. ASSUME NEW s \in Requests PROVE Good(reqs'[s]) /\ Keeps(reqs[s], reqs'[s])
  <2> DEFINE q == reqs[s]
  <2>1. CASE ~Shares(r, s)
    <3>1. reqs'[s] = q
      BY <1>1, <2>1
    <3>2. QED
      BY <3>1, RequestFacts DEF Keeps
  <2>2. CASE Shares(r, s)
    <3>1. /\ Good(q) /\ q \in Request /\ q.pc \in Served /\ q.key = reqs[r].key
          /\ reqs[r].age \in Nat /\ reqs[r].age < Oldest(q.key) /\ LoadLimit \in Nat
      BY <2>2, RequestFacts DEF Shares, Served, Good, AgeOK
    <3>2. PICK shown \in BOOLEAN : shown = IF q.kind = "map" THEN q.shown ELSE value
      BY <3>1 DEF Request
    <3>3. PICK age \in Nat : age = reqs[r].age
      BY <3>1
    <3>4. PICK p : p = [q EXCEPT !.pc = "done", !.value = FALSE, !.age = age, !.waited = 0,
                                 !.shown = shown]
      OBVIOUS
    <3>5. reqs'[s] = p
      BY <1>1, <2>2, <3>2, <3>3, <3>4
    <3>6. /\ p \in Request /\ p.pc = "done" /\ p.kind = q.kind /\ p.viewer = q.viewer
          /\ p.key = q.key /\ p.version = q.version /\ p.misread = q.misread /\ p.shown = shown
          /\ p.age = age /\ p.waited = 0 /\ p.begun = q.begun /\ p.since = q.since
      BY <3>1, <3>4 DEF Request
    <3>7. q.viewer => q.kind = "map"
      BY <3>1 DEF Good, BlockOK
    <3>8. age < Oldest(q.key)
      BY <3>1, <3>3
    <3>9. Good(p) /\ Keeps(q, p)
      BY <3>1, <3>2, <3>6, <3>7, <3>8
         DEF Good, RequestOK, AgeOK, BlockOK, VersionOK, AnswerOK, OnMap, Served, Correct, OfMap,
             Keeps
    <3>10. QED
      BY <3>5, <3>9
  <2>3. QED
    BY <2>1, <2>2
<1>3. reqs' = [s \in Requests |-> reqs'[s]]
  BY <1>1
<1>4. QED
  BY <1>2, <1>3, RequestsMove

LEMMA LoadGoes == ASSUME CacheInv, NEW r \in Requests, Load(r) PROVE CacheInv'
<1> DEFINE q == reqs[r]
<1>1. /\ Good(q) /\ q \in Request /\ LoadLimit \in Nat /\ Oldest(q.key) \in Nat
      /\ LoadLimit < Oldest(q.key) /\ q.pc = "loading" /\ Frame /\ store' = store
  BY RequestFacts DEF Load
<1>2. CASE Settled(r, FALSE)
  BY <1>1, <1>2, SettledGoes, StoreStands
<1>3. CASE Moves(r, [To(r, "write") EXCEPT !.value = Replica.listed, !.age = 0])
  <2>1. PICK value \in BOOLEAN : value = Replica.listed
    BY PrimaryFacts DEF CacheInv, State
  <2>2. PICK p : p = [q EXCEPT !.pc = "write", !.value = value, !.age = 0]
    OBVIOUS
  <2>3. Moves(r, p)
    BY <1>1, <1>3, <2>1, <2>2 DEF To, Request
  <2>4. /\ p \in Request /\ p.pc = "write" /\ p.kind = q.kind /\ p.viewer = q.viewer
        /\ p.key = q.key /\ p.version = q.version /\ p.misread = q.misread /\ p.shown = q.shown
        /\ p.age = 0 /\ p.waited = q.waited /\ p.begun = q.begun /\ p.since = q.since
        /\ p.waited \in Nat
    BY <1>1, <2>2 DEF Request
  <2>5. Good(p) /\ Keeps(q, p)
    BY <1>1, <2>4 DEF Good, RequestOK, AgeOK, BlockOK, VersionOK, AnswerOK, OnMap, Served,
                      Correct, OfMap, Keeps
  <2>6. QED
    BY <1>1, <2>3, <2>5, RequestGoes
<1>4. QED
  BY <1>2, <1>3 DEF Load

LEMMA WriteGoes == ASSUME CacheInv, NEW r \in Requests, Write(r) PROVE CacheInv'
<1> DEFINE q == reqs[r]
<1>1. /\ Good(q) /\ q \in Request /\ q.key \in Keys /\ q.pc = "write" /\ Frame
      /\ Written(r, q.key) /\ Settled(r, q.value)
  BY RequestFacts DEF Write
<1>2. q.key[1] # "tile" /\ q.value \in BOOLEAN
  BY <1>1 DEF Good, RequestOK, Served, Request
<1>3. StoreOK' /\ \A l \in Keys \ {q.key} : store'[l] = store[l]
  BY <1>1, WrittenFacts
<1>4. \A v \in Versions : TileOK(v, store'[<<"tile", v>>])
  <2>1. ASSUME NEW v \in Versions PROVE <<"tile", v>> \in Keys /\ <<"tile", v>> # q.key
    <3>1. <<"tile", v>>[1] = "tile"
      OBVIOUS
    <3>2. QED
      BY <1>2, <3>1, KeyFacts
  <2>2. QED
    BY <1>3, <2>1 DEF CacheInv, TilesOK
<1>5. PICK value \in BOOLEAN : value = q.value
  BY <1>2
<1>6. QED
  BY <1>1, <1>3, <1>4, <1>5, SettledGoes


LEMMA GateGoes == ASSUME CacheInv, NEW r \in Requests, Gate(r) PROVE CacheInv'
<1> DEFINE q == reqs[r]
<1>1. /\ Good(q) /\ q \in Request /\ q.pc = "gate" /\ Frame /\ store' = store
      /\ Len(log) \in Nat /\ Len(log) >= 1
  BY RequestFacts DEF Gate
<1>2. PICK pc \in {"done", "query"} : pc = IF BlockSeen THEN "done" ELSE "query"
  OBVIOUS
<1>3. PICK p : p = [q EXCEPT !.pc = pc]
  OBVIOUS
<1>4. Moves(r, p)
  BY <1>2, <1>3 DEF Gate, To
<1>5. /\ p \in Request /\ p.pc = pc /\ p.kind = q.kind /\ p.viewer = q.viewer
      /\ p.key = q.key /\ p.version = q.version /\ p.misread = q.misread /\ p.shown = q.shown
      /\ p.age = q.age /\ p.waited = q.waited /\ p.begun = q.begun /\ p.since = q.since
  BY <1>1, <1>3 DEF Request
<1>6. pc = "query" => OpenSince(q.begun)
  BY <1>1, <1>2 DEF OpenSince, BlockSeen, Primary, Good, RequestOK
<1>7. Good(p) /\ Keeps(q, p)
  BY <1>1, <1>5, <1>6 DEF Good, RequestOK, AgeOK, BlockOK, VersionOK, AnswerOK, OnMap, Served,
                          Correct, OfMap, Keeps
<1>8. QED
  BY <1>1, <1>4, <1>7, RequestGoes

LEMMA QueryGoes == ASSUME CacheInv, NEW r \in Requests, Query(r) PROVE CacheInv'
<1> DEFINE q == reqs[r]
           state == IF q.kind = "search" THEN Primary ELSE Replica
<1>1. /\ Good(q) /\ q \in Request /\ q.pc = "query" /\ Frame /\ store' = store
      /\ Len(log) \in Nat /\ Len(log) >= 1 /\ Primary \in State /\ Replica \in State
  BY RequestFacts, PrimaryFacts DEF Query, CacheInv
<1>2. state.listed \in BOOLEAN /\ state.blocked \in BOOLEAN
  BY <1>1 DEF State
<1>3. PICK shown \in BOOLEAN : shown = (state.listed /\ ~state.blocked)
  BY <1>2
<1>4. PICK p : p = [q EXCEPT !.pc = "done", !.shown = shown]
  OBVIOUS
<1>5. Moves(r, p)
  BY <1>1, <1>3, <1>4 DEF Query, To, Request
<1>6. /\ p \in Request /\ p.pc = "done" /\ p.kind = q.kind /\ p.viewer = q.viewer
      /\ p.key = q.key /\ p.version = q.version /\ p.misread = q.misread /\ p.shown = shown
      /\ p.age = q.age /\ p.waited = q.waited /\ p.begun = q.begun /\ p.since = q.since
  BY <1>1, <1>4 DEF Request
<1>7. q.kind # "map" /\ q.kind \in {"map", "detail", "search"} /\ q.begun \in 1..Len(log)
  BY <1>1 DEF Good, RequestOK, Request
<1>8. q.viewer /\ shown => OpenSince(q.begun)
  <2>1. CASE q.kind = "search"
    <3>1. shown => ~log[Len(log)].blocked
      BY <1>3, <2>1 DEF Primary
    <3>2. Len(log) \in q.begun..Len(log)
      BY <1>1, <1>7
    <3>3. QED
      BY <3>1, <3>2 DEF OpenSince
  <2>2. CASE q.kind = "detail"
    BY <1>1, <2>2 DEF Good, BlockOK
  <2>3. QED
    BY <1>7, <2>1, <2>2
<1>9. Good(p) /\ Keeps(q, p)
  BY <1>1, <1>6, <1>7, <1>8
     DEF Good, RequestOK, AgeOK, BlockOK, VersionOK, AnswerOK, OnMap, Served, Correct, OfMap, Keeps
<1>10. QED
  BY <1>1, <1>5, <1>9, RequestGoes

(* The version is read, or an error is read as version 0.                  *)
LEMMA ReadVersionGoes == ASSUME CacheInv, NEW r \in Requests, ReadVersion(r) PROVE CacheInv'
<1> DEFINE q == reqs[r]
<1>1. /\ Good(q) /\ q \in Request /\ q.pc = "version" /\ q.kind = "map" /\ Frame /\ store' = store
      /\ version \in Versions /\ 0 \in Versions /\ version \in Nat /\ announced \in Nat
      /\ announced >= 1
  BY RequestFacts DEF ReadVersion, Good, RequestOK, OnMap
<1>2. PICK v \in {version, 0} :
        Moves(r, [To(r, "tiles") EXCEPT
                    !.version = v, !.misread = (v # version), !.since = announced,
                    !.key = <<"tile", v>>])
  BY DEF ReadVersion
<1>3. PICK misread \in BOOLEAN : misread = (v # version)
  OBVIOUS
<1>4. PICK key \in Keys : key = <<"tile", v>>
  BY <1>1, KeyFacts
<1>5. PICK p : p = [q EXCEPT !.pc = "tiles", !.version = v, !.misread = misread,
                             !.since = announced, !.key = key]
  OBVIOUS
<1>6. Moves(r, p)
  BY <1>1, <1>2, <1>3, <1>4, <1>5 DEF To, Request
<1>7. /\ p \in Request /\ p.pc = "tiles" /\ p.kind = q.kind /\ p.viewer = q.viewer
      /\ p.key = key /\ p.version = v /\ p.misread = misread /\ p.shown = q.shown
      /\ p.age = q.age /\ p.waited = q.waited /\ p.begun = q.begun /\ p.since = announced
  BY <1>1, <1>5 DEF Request
<1>8. q.age = 0 /\ ~q.shown
  BY <1>1 DEF Good, AgeOK, VersionOK, OfMap
<1>9. LoadLimit \in Nat /\ Oldest(key) \in Nat /\ LoadLimit < Oldest(key)
  BY ReadCacheAssumption, TtlFacts
<1>10. AgeOK(p)
  BY <1>1, <1>7, <1>8, <1>9 DEF Good, AgeOK
<1>11. VersionOK(p)
  <2>1. misread <=> v # version
    BY <1>3
  <2>2. v <= version /\ (v # version => v < version) /\ announced \in 1..announced
    BY <1>1
  <2>3. QED
    BY <1>1, <1>7, <2>1, <2>2 DEF VersionOK, OfMap
<1>12. RequestOK(p) /\ BlockOK(p) /\ AnswerOK(p)
  BY <1>1, <1>4, <1>7, <1>8 DEF Good, RequestOK, BlockOK, AnswerOK, OnMap, Served
<1>13. Keeps(q, p)
  BY <1>3, <1>7 DEF Keeps, Correct
<1>14. QED
  BY <1>1, <1>6, <1>10, <1>11, <1>12, <1>13, RequestGoes DEF Good

LEMMA ReadTilesGoes == ASSUME CacheInv, NEW r \in Requests, ReadTiles(r) PROVE CacheInv'
<1> DEFINE q == reqs[r]
           e == store[q.key]
<1>1. /\ Good(q) /\ q \in Request /\ q.key \in Keys /\ q.pc = "tiles" /\ Frame /\ store' = store
      /\ LoadLimit \in Nat /\ Oldest(q.key) \in Nat /\ LoadLimit < Oldest(q.key)
  BY RequestFacts DEF ReadTiles
<1>2. q.kind = "map" /\ q.key = <<"tile", q.version>> /\ q.version \in Versions
  BY <1>1 DEF Good, RequestOK, OnMap, Request
<1>3. CASE Moves(r, To(r, "load"))
  <2>1. PICK p : p = [q EXCEPT !.pc = "load"]
    OBVIOUS
  <2>2. /\ p \in Request /\ p.pc = "load" /\ p.kind = q.kind /\ p.viewer = q.viewer
        /\ p.key = q.key /\ p.version = q.version /\ p.misread = q.misread /\ p.shown = q.shown
        /\ p.age = q.age /\ p.waited = q.waited /\ p.begun = q.begun /\ p.since = q.since
    BY <1>1, <2>1 DEF Request
  <2>3. Good(p) /\ Keeps(q, p)
    BY <1>1, <1>2, <2>2 DEF Good, RequestOK, AgeOK, BlockOK, VersionOK, AnswerOK, OnMap, Served,
                            Correct, OfMap, Keeps
  <2>4. Moves(r, p)
    BY <1>3, <2>1 DEF To
  <2>5. QED
    BY <1>1, <2>3, <2>4, RequestGoes
<1>4. CASE /\ Present(q.key)
           /\ Moves(r, [q EXCEPT !.pc = "blocks", !.value = e.value, !.age = e.age])
  <2>1. e \in Entry /\ e.age + e.left <= Oldest(q.key) /\ e.left > 0
    BY <1>1, <1>4 DEF CacheInv, StoreOK, Present
  <2>2. PICK value \in BOOLEAN, age \in Nat : value = e.value /\ age = e.age
    BY <2>1 DEF Entry
  <2>3. age < Oldest(q.key)
    BY <1>1, <2>1, <2>2 DEF Entry
  <2>4. value => ListedUnder(q.version)
    BY <1>2, <2>1, <2>2 DEF CacheInv, TilesOK, TileOK
  <2>5. PICK p : p = [q EXCEPT !.pc = "blocks", !.value = value, !.age = age]
    OBVIOUS
  <2>6. Moves(r, p)
    BY <1>4, <2>2, <2>5
  <2> HIDE DEF e
  <2>7. /\ p \in Request /\ p.pc = "blocks" /\ p.kind = q.kind /\ p.viewer = q.viewer
        /\ p.key = q.key /\ p.version = q.version /\ p.misread = q.misread /\ p.shown = q.shown
        /\ p.age = age /\ p.waited = q.waited /\ p.begun = q.begun /\ p.since = q.since
        /\ p.value = value
    BY <1>1, <2>5 DEF Request
  <2>8. Correct(p) /\ value => ListedSince(q.since)
    BY <1>1, <1>2, <2>4, <2>7 DEF ListedUnder, Correct, OfMap
  <2>9. Good(p) /\ Keeps(q, p)
    BY <1>1, <1>2, <2>3, <2>7, <2>8
       DEF Good, RequestOK, AgeOK, BlockOK, VersionOK, AnswerOK, OnMap, Served, Correct, OfMap,
           Keeps
  <2>10. QED
    BY <1>1, <2>6, <2>9, RequestGoes
<1>5. QED
  BY <1>3, <1>4 DEF ReadTiles

(* What the replica shows now has been listed since the last announcement. *)
LEMMA LoadedNow ==
  ASSUME CacheInv, Replica.listed, NEW v PROVE ListedUnder(v)
<1>1. /\ applied \in announced..Len(log) /\ log[applied].listed /\ announced \in Nat
      /\ Len(log) \in Nat
  BY DEF Replica, CacheInv, DatabaseOK
<1>2. ListedSince(announced)
  BY <1>1 DEF ListedSince
<1>3. ASSUME NEW r \in Requests, Correct(reqs[r]) PROVE ListedSince(reqs[r].since)
  <2>1. reqs[r].since \in 1..announced
    BY <1>3 DEF CacheInv, RequestsOK, Good, VersionOK, Correct
  <2>2. QED
    BY <1>1, <2>1 DEF ListedSince
<1>4. QED
  BY <1>2, <1>3 DEF ListedUnder

LEMMA LoadTilesGoes == ASSUME CacheInv, NEW r \in Requests, LoadTiles(r) PROVE CacheInv'
<1> DEFINE q == reqs[r]
<1>1. /\ Good(q) /\ q \in Request /\ q.pc = "load" /\ Frame /\ store' = store
      /\ Replica \in State
  BY RequestFacts, PrimaryFacts DEF LoadTiles, CacheInv
<1>2. PICK value \in BOOLEAN : value = Replica.listed
  BY <1>1 DEF State
<1>3. value => ListedUnder(q.version)
  BY <1>2, LoadedNow
<1>4. PICK p : p = [q EXCEPT !.pc = "fill", !.value = value]
  OBVIOUS
<1>5. Moves(r, p)
  BY <1>1, <1>2, <1>4 DEF LoadTiles, To, Request
<1>6. /\ p \in Request /\ p.pc = "fill" /\ p.kind = q.kind /\ p.viewer = q.viewer
      /\ p.key = q.key /\ p.version = q.version /\ p.misread = q.misread /\ p.shown = q.shown
      /\ p.age = q.age /\ p.waited = q.waited /\ p.begun = q.begun /\ p.since = q.since
      /\ p.value = value /\ q.waited \in Nat
  BY <1>1, <1>4 DEF Request
<1>7. Good(p) /\ Keeps(q, p)
  BY <1>1, <1>3, <1>6 DEF Good, RequestOK, AgeOK, BlockOK, VersionOK, AnswerOK, OnMap, Served,
                          Correct, OfMap, Keeps
<1>8. QED
  BY <1>1, <1>5, <1>7, RequestGoes

(* Tiles are stored under the version that was read before they were loaded. *)
LEMMA FillTilesGoes == ASSUME CacheInv, NEW r \in Requests, FillTiles(r) PROVE CacheInv'
<1> DEFINE q == reqs[r]
<1>1. /\ Good(q) /\ q \in Request /\ q.pc = "fill" /\ Frame /\ Written(r, <<"tile", q.version>>)
      /\ LoadLimit \in Nat
  BY RequestFacts DEF FillTiles, FillKey
<1>2. /\ q.kind = "map" /\ q.version \in Versions /\ <<"tile", q.version>> \in Keys
      /\ q.version <= version /\ (q.value => ListedUnder(q.version))
  BY <1>1, KeyFacts DEF Good, RequestOK, OnMap, Request, VersionOK, OfMap, AnswerOK
<1>3. /\ StoreOK' /\ \A l \in Keys \ {<<"tile", q.version>>} : store'[l] = store[l]
      /\ \/ store'[<<"tile", q.version>>] = store[<<"tile", q.version>>]
         \/ store'[<<"tile", q.version>>].value = q.value
  BY <1>1, <1>2, WrittenFacts
<1>4. ASSUME NEW v \in Versions PROVE TileOK(v, store'[<<"tile", v>>])
  <2>1. CASE v = q.version /\ store'[<<"tile", v>>].value = q.value
    BY <1>2, <2>1 DEF TileOK
  <2>2. CASE store'[<<"tile", v>>] = store[<<"tile", v>>]
    BY <2>2 DEF CacheInv, TilesOK
  <2>3. v # q.version => store'[<<"tile", v>>] = store[<<"tile", v>>]
    BY <1>3, KeyFacts
  <2>4. QED
    BY <1>3, <2>1, <2>2, <2>3
<1>5. PICK p : p = [q EXCEPT !.pc = "blocks", !.waited = 0]
  OBVIOUS
<1>6. Moves(r, p)
  BY <1>1, <1>5 DEF FillTiles, To, Request
<1>7. /\ p \in Request /\ p.pc = "blocks" /\ p.kind = q.kind /\ p.viewer = q.viewer
      /\ p.key = q.key /\ p.version = q.version /\ p.misread = q.misread /\ p.shown = q.shown
      /\ p.age = q.age /\ p.waited = 0 /\ p.begun = q.begun /\ p.since = q.since
      /\ p.value = q.value
  BY <1>1, <1>5 DEF Request
<1>8. Correct(p) /\ q.value => ListedSince(q.since)
  BY <1>1, <1>2, <1>7 DEF ListedUnder, Correct, OfMap
<1>9. Good(p) /\ Keeps(q, p)
  BY <1>1, <1>2, <1>7, <1>8 DEF Good, RequestOK, AgeOK, BlockOK, VersionOK, AnswerOK, OnMap,
                                Served, Correct, OfMap, Keeps
<1>10. QED
  BY <1>1, <1>3, <1>4, <1>6, <1>9, RequestMoves


(* The pins are shown to a viewer whom the primary finds not blocked.      *)
LEMMA ReadBlocksGoes == ASSUME CacheInv, NEW r \in Requests, ReadBlocks(r) PROVE CacheInv'
<1> DEFINE q == reqs[r]
           seen == q.value /\ ~(q.viewer /\ BlockSeen)
<1>1. /\ Good(q) /\ q \in Request /\ q.pc = "blocks" /\ q.kind = "map" /\ Frame /\ store' = store
      /\ Len(log) \in Nat /\ Len(log) >= 1 /\ q.begun \in 1..Len(log)
      /\ q.key \in Keys /\ q.version \in Versions
  BY RequestFacts DEF ReadBlocks, Good, RequestOK, OnMap, Request
<1>2. PICK shown \in BOOLEAN : shown = seen
  OBVIOUS
<1>3. PICK pc \in {"done", "get"}, key \in {q.key, <<"count", q.version>>} :
        /\ pc = "get" => key = <<"count", q.version>>
        /\ Moves(r, [q EXCEPT !.pc = pc, !.shown = seen, !.value = FALSE, !.age = 0, !.key = key])
  <2>1. CASE Moves(r, [[q EXCEPT !.shown = seen, !.value = FALSE, !.age = 0] EXCEPT !.pc = "done"])
    <3>1. [[q EXCEPT !.shown = seen, !.value = FALSE, !.age = 0] EXCEPT !.pc = "done"]
          = [q EXCEPT !.pc = "done", !.shown = seen, !.value = FALSE, !.age = 0, !.key = q.key]
      BY <1>1 DEF Request
    <3>2. QED
      BY <2>1, <3>1
  <2>2. CASE Moves(r, [[q EXCEPT !.shown = seen, !.value = FALSE, !.age = 0]
                         EXCEPT !.pc = "get", !.key = <<"count", q.version>>])
    <3>1. [[q EXCEPT !.shown = seen, !.value = FALSE, !.age = 0]
             EXCEPT !.pc = "get", !.key = <<"count", q.version>>]
          = [q EXCEPT !.pc = "get", !.shown = seen, !.value = FALSE, !.age = 0,
                      !.key = <<"count", q.version>>]
      BY <1>1 DEF Request
    <3>2. QED
      BY <2>2, <3>1
  <2>3. QED
    BY <2>1, <2>2 DEF ReadBlocks
<1>4. key \in Keys /\ (pc = "get" => key[1] # "tile")
  BY <1>1, <1>3, KeyFacts
<1>5. PICK p : p = [q EXCEPT !.pc = pc, !.shown = shown, !.value = FALSE, !.age = 0, !.key = key]
  OBVIOUS
<1>6. Moves(r, p)
  BY <1>2, <1>3, <1>5
<1>7. /\ p \in Request /\ p.pc = pc /\ p.kind = q.kind /\ p.viewer = q.viewer
      /\ p.key = key /\ p.version = q.version /\ p.misread = q.misread /\ p.shown = shown
      /\ p.age = 0 /\ p.waited = q.waited /\ p.begun = q.begun /\ p.since = q.since
      /\ p.value = FALSE
  BY <1>1, <1>4, <1>5 DEF Request
<1>8. LoadLimit \in Nat /\ Oldest(key) \in Nat /\ LoadLimit < Oldest(key)
  BY <1>4, ReadCacheAssumption, TtlFacts
<1>9. Correct(p) /\ shown => ListedSince(q.since)
  BY <1>1, <1>2, <1>7 DEF Good, AnswerOK, Correct, OfMap
<1>10. q.viewer /\ shown => OpenSince(q.begun)
  <2>1. q.viewer /\ shown => ~log[Len(log)].blocked
    BY <1>2 DEF BlockSeen, Primary
  <2>2. Len(log) \in q.begun..Len(log)
    BY <1>1
  <2>3. QED
    BY <2>1, <2>2 DEF OpenSince
<1>11. Good(p) /\ Keeps(q, p)
  BY <1>1, <1>4, <1>7, <1>8, <1>9, <1>10
     DEF Good, RequestOK, AgeOK, BlockOK, VersionOK, AnswerOK, OnMap, Served, Correct, OfMap, Keeps
<1>12. QED
  BY <1>1, <1>6, <1>11, RequestGoes

LEMMA ElapseGoes == ASSUME CacheInv, Elapse PROVE CacheInv'
<1>1. /\ \A r \in Pending : reqs[r].waited < LoadLimit
      /\ reqs' = [r \in Requests |->
                    IF r \notin Pending THEN reqs[r]
                    ELSE [reqs[r] EXCEPT !.waited = @ + 1,
                            !.age = IF reqs[r].pc \in {"write", "fill"} THEN @ + 1 ELSE @]]
      /\ store' = [k \in Keys |->
                     IF store[k].left <= 1 THEN Absent
                     ELSE [store[k] EXCEPT !.age = @ + 1, !.left = @ - 1]]
  BY DEF Elapse
<1>2. Frame
  BY DEF Elapse, Frame
<1>3. ASSUME NEW k \in Keys
      PROVE  /\ store'[k] \in Entry
             /\ store'[k].left > 0 => /\ store'[k].age + store'[k].left <= Oldest(k)
                                      /\ store[k].left > 0 /\ store'[k].value = store[k].value
  <2>1. /\ store[k] \in Entry /\ store[k].age \in Nat /\ store[k].left \in Nat
        /\ store[k].left > 0 => store[k].age + store[k].left <= Oldest(k)
    BY DEF CacheInv, StoreOK, Entry
  <2>2. CASE store[k].left <= 1
    <3>1. store'[k] = Absent
      BY <1>1, <2>2
    <3>2. QED
      BY <3>1 DEF Absent, Entry
  <2>3. CASE ~(store[k].left <= 1)
    <3>1. PICK age \in Nat, left \in Nat : age = store[k].age + 1 /\ left = store[k].left - 1
      <4>1. store[k].age + 1 \in Nat /\ store[k].left - 1 \in Nat
        BY <2>1, <2>3
      <4>2. QED
        BY <4>1
    <3>2. PICK e : e = [store[k] EXCEPT !.age = age, !.left = left]
      OBVIOUS
    <3>3. store'[k] = e
      BY <1>1, <2>3, <3>1, <3>2
    <3>4. e \in Entry /\ e.age = age /\ e.left = left /\ e.value = store[k].value
      BY <2>1, <3>2 DEF Entry
    <3>5. Oldest(k) \in Nat
      BY ReadCacheAssumption, TtlFacts
    <3>6. QED
      BY <2>1, <2>3, <3>1, <3>3, <3>4, <3>5
  <2>4. QED
    BY <2>2, <2>3
<1>4. StoreOK'
  <2>1. store' \in [Keys -> Entry]
    BY <1>1, <1>3
  <2>2. \A k \in Keys : store'[k].left > 0 => store'[k].age + store'[k].left <= Oldest(k)
    BY <1>3
  <2>3. QED
    BY <2>1, <2>2 DEF StoreOK, Oldest, Ttl
<1>5. \A v \in Versions : TileOK(v, store'[<<"tile", v>>])
  BY <1>3, KeyFacts DEF CacheInv, TilesOK, TileOK
<1>6. ASSUME NEW s \in Requests PROVE Good(reqs'[s]) /\ Keeps(reqs[s], reqs'[s])
  <2> DEFINE q == reqs[s]
  <2>1. /\ Good(q) /\ q \in Request /\ q.age \in Nat /\ q.waited \in Nat /\ LoadLimit \in Nat
        /\ Oldest(q.key) \in Nat /\ LoadLimit < Oldest(q.key)
    BY RequestFacts
  <2>2. CASE s \notin Pending
    <3>1. reqs'[s] = q
      BY <1>1, <2>2
    <3>2. QED
      BY <2>1, <3>1 DEF Keeps
  <2>3. CASE s \in Pending
    <3>1. PICK waited \in Nat, age \in Nat :
            /\ waited = q.waited + 1
            /\ age = IF q.pc \in {"write", "fill"} THEN q.age + 1 ELSE q.age
      BY <2>1
    <3>2. PICK p : p = [q EXCEPT !.waited = waited, !.age = age]
      OBVIOUS
    <3>3. reqs'[s] = p /\ q.waited < LoadLimit
      BY <1>1, <2>3, <3>1, <3>2
    <3>4. /\ p \in Request /\ p.pc = q.pc /\ p.kind = q.kind /\ p.viewer = q.viewer
          /\ p.key = q.key /\ p.version = q.version /\ p.misread = q.misread
          /\ p.shown = q.shown /\ p.age = age /\ p.waited = waited /\ p.begun = q.begun
          /\ p.since = q.since /\ p.value = q.value
      BY <2>1, <3>2 DEF Request
    <3>5. AgeOK(p)
      BY <2>1, <3>1, <3>3, <3>4 DEF Good, AgeOK
    <3>6. RequestOK(p) /\ BlockOK(p) /\ VersionOK(p) /\ AnswerOK(p) /\ Keeps(q, p)
      BY <2>1, <3>4 DEF Good, RequestOK, BlockOK, VersionOK, AnswerOK, OnMap, Served, Correct,
                        OfMap, Keeps
    <3>7. QED
      BY <3>3, <3>5, <3>6 DEF Good
  <2>4. QED
    BY <2>2, <2>3
<1>7. reqs' = [s \in Requests |-> reqs'[s]]
  BY <1>1
<1>8. QED
  BY <1>2, <1>4, <1>5, <1>6, <1>7, RequestsMove

-----------------------------------------------------------------------------
(* Every step.                                                             *)

LEMMA CacheBegins == ASSUME ReadCacheAssumption, Init PROVE CacheInv
<1> DEFINE q == [Fresh("detail", FALSE, CHOOSE a \in Apis : TRUE) EXCEPT !.begun = 0]
<1>1. PICK s \in State : log = <<s>>
  BY DEF Init
<1>2. DatabaseOK
  BY <1>1 DEF Init, DatabaseOK, ReadCacheAssumption
<1>3. WritersOK
  <2>1. /\ writers = [w \in Writers |-> [todo |-> <<>>, commit |-> 0]] /\ version = 0
        /\ Len(log) \in Nat /\ Len(log) > 0
    BY <1>1 DEF Init
  <2>2. Owed = {}
    BY <2>1 DEF Owed, Bumps
  <2>3. Due = {} /\ Cardinality(Due) = 0
    BY <2>2, FS_EmptySet DEF Due
  <2>4. QED
    BY <2>1, <2>2, <2>3 DEF WritersOK, Todos
<1>4. StoreOK /\ TilesOK
  <2>1. store = [k \in Keys |-> Absent] /\ Absent \in Entry /\ Absent.left = 0
    BY DEF Init, Absent, Entry
  <2>2. \A v \in Versions : store[<<"tile", v>>].left = 0
    BY <2>1, KeyFacts
  <2>3. ASSUME NEW v \in Versions PROVE TileOK(v, store[<<"tile", v>>])
    BY <2>2 DEF TileOK
  <2>4. StoreOK
    BY <2>1 DEF StoreOK
  <2>5. QED
    BY <2>3, <2>4 DEF TilesOK
<1>5. RequestsOK
  <2>1. (CHOOSE a \in Apis : TRUE) \in Apis
    BY DEF ReadCacheAssumption
  <2>2. 0 \in Versions /\ <<"detail", 0>> \in Keys
    BY KeyFacts DEF Versions, ReadCacheAssumption
  <2>3. PICK api \in Apis : api = CHOOSE a \in Apis : TRUE
    BY <2>1
  <2>4. PICK p : p = [Fresh("detail", FALSE, api) EXCEPT !.begun = 0]
    OBVIOUS
  <2>5. /\ p \in Request /\ p.pc = "idle" /\ p.kind = "detail" /\ p.viewer = FALSE
        /\ p.key = <<"detail", 0>> /\ p.shown = FALSE /\ p.age = 0 /\ p.waited = 0
    BY <1>1, <2>2, <2>4 DEF Fresh, Request
  <2>6. LoadLimit \in Nat /\ LoadLimit < Oldest(p.key) /\ Oldest(p.key) \in Nat
    BY <2>2, <2>5, TtlFacts
  <2>7. Good(p)
    BY <2>5, <2>6 DEF Good, RequestOK, AgeOK, BlockOK, VersionOK, AnswerOK, OnMap, Served,
                      Correct, OfMap
  <2>8. reqs = [r \in Requests |-> p]
    BY <2>3, <2>4 DEF Init
  <2>9. QED
    BY <2>7, <2>8 DEF RequestsOK
<1>6. QED
  BY <1>2, <1>3, <1>4, <1>5 DEF CacheInv

LEMMA CacheStep == ASSUME CacheInv, CacheNext PROVE CacheInv'
<1>1. ASSUME NEW r \in Requests,
             \/ Ask(r) \/ Get(r) \/ Join(r) \/ Start(r) \/ Load(r) \/ Write(r)
             \/ Gate(r) \/ Query(r)
             \/ ReadVersion(r) \/ ReadTiles(r) \/ LoadTiles(r) \/ FillTiles(r)
             \/ ReadBlocks(r)
      PROVE  CacheInv'
  BY <1>1, AskGoes, GetGoes, JoinGoes, LoadGoes, WriteGoes, GateGoes, QueryGoes, ReadVersionGoes,
     ReadTilesGoes, LoadTilesGoes, FillTilesGoes, ReadBlocksGoes
<1>2. QED
  BY <1>1, ChangeListingGoes, InvalidateGoes, CommitAlone, ReplayGoes, ElapseGoes DEF CacheNext

LEMMA CacheStutter == ASSUME CacheInv, UNCHANGED vars PROVE CacheInv'
<1>1. Frame /\ store' = store /\ reqs' = reqs
  BY DEF vars, Frame
<1>2. \A s \in Requests : Good(reqs'[s]) /\ Keeps(reqs[s], reqs'[s])
  BY <1>1 DEF CacheInv, RequestsOK, Keeps
<1>3. reqs' = [s \in Requests |-> reqs'[s]]
  BY <1>1 DEF CacheInv, RequestsOK
<1>4. QED
  BY <1>1, <1>2, <1>3, StoreStands, RequestsMove

LEMMA CacheAlways == CacheSpec => []CacheInv
<1>1. Init => CacheInv
  BY ReadCacheAssumption, CacheBegins
<1>2. CacheInv /\ [CacheNext]_vars => CacheInv'
  BY CacheStep, CacheStutter
<1>3. QED
  BY <1>1, <1>2, PTL DEF CacheSpec

LEMMA LoadsInFlight == CacheSpec => [](inFlight \in [Apis -> [Keys -> Requests \cup {None}]])
<1> DEFINE FlightOK == inFlight \in [Apis -> [Keys -> Requests \cup {None}]]
<1>1. Init => FlightOK
  BY DEF Init
<1>2. CacheInv /\ FlightOK /\ [CacheNext]_vars => FlightOK'
  <2> SUFFICES ASSUME CacheInv, FlightOK, [CacheNext]_vars PROVE FlightOK'
    OBVIOUS
  <2>1. ASSUME NEW r \in Requests, NEW x \in Requests \cup {None},
               inFlight' = [inFlight EXCEPT ![reqs[r].api][reqs[r].key] = x]
        PROVE  FlightOK'
    <3>1. reqs[r].api \in Apis /\ reqs[r].key \in Keys
      BY RequestFacts DEF Request
    <3>2. QED
      BY <2>1, <3>1
  <2>2. ASSUME NEW r \in Requests, Start(r) \/ Load(r) \/ Write(r) PROVE FlightOK'
    <3>1. inFlight' = inFlight \/ \E x \in Requests \cup {None} :
                         inFlight' = [inFlight EXCEPT ![reqs[r].api][reqs[r].key] = x]
      BY <2>2 DEF Start, Load, Write, Settled
    <3>2. QED
      BY <2>1, <3>1
  <2>3. ASSUME NEW r \in Requests,
               \/ Ask(r) \/ Get(r) \/ Join(r) \/ Gate(r) \/ Query(r) \/ ReadVersion(r)
               \/ ReadTiles(r) \/ LoadTiles(r) \/ FillTiles(r) \/ ReadBlocks(r)
        PROVE  FlightOK'
    <3>1. inFlight' = inFlight
      BY <2>3 DEF Ask, Get, Join, Gate, Query, ReadVersion, ReadTiles, LoadTiles, FillTiles,
                  ReadBlocks
    <3>2. QED
      BY <3>1
  <2>4. CASE \/ \E w \in Writers : ChangeListing(w) \/ Invalidate(w) \/ Die(w)
             \/ ChangeBlock \/ Replay \/ Elapse \/ UNCHANGED vars
    <3>1. inFlight' = inFlight
      BY <2>4 DEF ChangeListing, Invalidate, Die, ChangeBlock, Replay, Elapse, vars
    <3>2. QED
      BY <3>1
  <2>5. QED
    BY <2>2, <2>3, <2>4 DEF CacheNext
<1>3. QED
  BY <1>1, <1>2, CacheAlways, PTL DEF CacheSpec

-----------------------------------------------------------------------------
(* Every variable keeps its shape: the version stays within the commits,   *)
(* for each bump of it is owed to a commit of its own.                     *)
THEOREM CacheTypes == CacheSpec => []CacheTypeOK
<1>1. CacheInv /\ inFlight \in [Apis -> [Keys -> Requests \cup {None}]] => CacheTypeOK
  <2> SUFFICES ASSUME CacheInv, inFlight \in [Apis -> [Keys -> Requests \cup {None}]]
               PROVE  CacheTypeOK
    OBVIOUS
  <2>1. /\ log \in Seq(State) /\ applied \in 1..Len(log) /\ announced \in 1..Len(log)
        /\ store \in [Keys -> Entry]
    BY DEF CacheInv, DatabaseOK, StoreOK
  <2>2. version \in Versions
    BY ReadCacheAssumption, VersionBound DEF CacheInv
  <2>3. reqs \in [Requests -> Request]
    BY DEF CacheInv, RequestsOK, Good, RequestOK
  <2>4. QED
    BY <2>1, <2>2, <2>3 DEF CacheTypeOK
<1>2. QED
  BY <1>1, CacheAlways, LoadsInFlight, PTL

(* A map request that has read the version correctly shows the event only if *)
(* it was listed at or after the last commit whose bump Redis had then     *)
(* taken: tiles are stored under the version that was read before they were *)
(* loaded, and what commits before a bump is there to be loaded after it.  *)
THEOREM MapFollows == CacheSpec => []MapFollowsAnnouncement
<1>1. CacheInv => MapFollowsAnnouncement
  <2> SUFFICES ASSUME CacheInv, NEW r \in Requests, reqs[r].kind = "map", reqs[r].shown,
                      ~reqs[r].misread
               PROVE  \E i \in reqs[r].since..Len(log) : log[i].listed
    BY DEF MapFollowsAnnouncement
  <2>1. Good(reqs[r])
    BY DEF CacheInv, RequestsOK
  <2>2. Correct(reqs[r])
    BY <2>1 DEF Good, VersionOK, Correct
  <2>3. QED
    BY <2>1, <2>2 DEF Good, AnswerOK, ListedSince
<1>2. QED
  BY <1>1, CacheAlways, PTL

(* A read that a viewer begins after a block has been committed does not   *)
(* show the event of the blocked organizer: the primary is asked, by the   *)
(* gate of the details, by the search of a viewer and for the map's pins.  *)
THEOREM BlocksAreImmediate == CacheSpec => []BlockIsImmediate
<1>1. CacheInv => BlockIsImmediate
  BY DEF CacheInv, RequestsOK, Good, BlockOK, OpenSince, BlockIsImmediate
<1>2. QED
  BY <1>1, CacheAlways, PTL

(* No answer is older than the load limit, the time to live and its jitter, *)
(* whatever deletions are lost or come too late: what a load brings is as  *)
(* old as the load at most when it is written.                             *)
THEOREM AnswersAreFresh == CacheSpec => []FreshEnough
<1>1. CacheInv => FreshEnough
  BY DEF CacheInv, RequestsOK, Good, AgeOK, Oldest, FreshEnough
<1>2. QED
  BY <1>1, CacheAlways, PTL

-----------------------------------------------------------------------------
(* Listings: what every step keeps.                                        *)

Row ==
  [table : DOMAIN Statuses, id : Nat, at : Nat, by : Users, on : Users \cup Events,
   status : UNION {Statuses[t] : t \in DOMAIN Statuses}, place : Nat]

RowsOK ==
  /\ rows \subseteq Row /\ IsFiniteSet(rows)
  /\ \A x \in rows : x.id \in used
  /\ \A x, y \in rows : x.id = y.id => x = y
  /\ used \subseteq Nat /\ clock \in Nat

(* A position in a list, positions in the order of the list, a cursor.     *)
Spot == [rank : Int, id : Int]
Ascending(s) == \A i, j \in DOMAIN s : i < j => Past(s[j], s[i])
AnySubject == Points \cup Users \cup Events \cup {Visitor}
Cursors == [list : ListNames \cup {"none"}, subject : AnySubject, rank : Int, id : Int]

(* A page that was read from cursor c on: it begins after c, ends before the *)
(* next cursor, and leaves out nothing between the two.                    *)
PageOK(page, c) ==
  /\ page.all \subseteq Spot /\ page.items \in Seq(page.all) /\ Ascending(page.items)
  /\ page.next \in Cursors
  /\ c # NoCursor /\ page.next # NoCursor => Past(page.next, c)
  /\ \A p \in Range(page.items) :
       /\ c # NoCursor => Past(p, c)
       /\ page.next # NoCursor => ~Past(p, page.next)
  /\ \A p \in page.all \ Range(page.items) :
       \/ c # NoCursor /\ ~Past(p, c)
       \/ page.next # NoCursor /\ Past(p, page.next)

StoredOK(p) == p.key[2] \in Cursors /\ PageOK(p.page, p.key[2])

(* Where a reader is in the list: what it was given is behind its cursor,   *)
(* and what it has yet to be given is ahead.                               *)
PlaceOK(q) ==
  /\ Ascending(q.got)
  /\ q.pc = "done" => q.kept \subseteq Range(q.got)
  /\ q.cursor = NoCursor /\ q.pc # "done" => q.got = <<>> /\ q.first
  /\ q.cursor # NoCursor =>
       /\ ~q.first
       /\ \A p \in Range(q.got) : ~Past(p, q.cursor)
       /\ \A p \in q.kept \ Range(q.got) : Past(p, q.cursor)

Reading ==
  [pc : {"idle", "asserting", "paging", "done", "not_found", "invalid"}, list : ListNames,
   subject : AnySubject, viewer : Users \cup {Visitor}, cursor : Cursors,
   first : BOOLEAN, got : Seq(Spot), kept : SUBSET Spot, moved : BOOLEAN]
ReaderOK(q) ==
  /\ q \in Reading
  /\ q.list = "search" => q.subject \in Points
  /\ ~q.moved => PlaceOK(q)

ListInv ==
  /\ RowsOK
  /\ \A p \in pages : StoredOK(p)
  /\ DOMAIN readers = Readers /\ \A c \in Readers : ReaderOK(readers[c])

-----------------------------------------------------------------------------
(* The order of a list.                                                    *)

LEMMA RanksAreIntegers ==
  ASSUME NEW x \in Row, NEW list, NEW subject, list = "search" => subject \in Points
  PROVE  Rank(x, list, subject) \in Int /\ Ids(x, list) \in Int
BY ListingsAssumption DEF ListingsAssumption, Rank, Ids, DistanceTo, Row

LEMMA OrderIsTotal ==
  ASSUME NEW list, NEW subject, NEW x, NEW y, NEW z,
         Rank(x, list, subject) \in Int, Ids(x, list) \in Int,
         Rank(y, list, subject) \in Int, Ids(y, list) \in Int,
         Rank(z, list, subject) \in Int, Ids(z, list) \in Int
  PROVE  /\ ~Before(x, x, list, subject)
         /\ Before(x, y, list, subject) => ~Before(y, x, list, subject)
         /\ Before(x, y, list, subject) /\ Before(y, z, list, subject) =>
              Before(x, z, list, subject)
         /\ Ids(x, list) # Ids(y, list) =>
              Before(x, y, list, subject) \/ Before(y, x, list, subject)
BY DEF Before, Past, Position

(* Every row of a finite list has a number, and they follow its order.     *)
LEMMA RowsAreNumbered ==
  ASSUME NEW S, IsFiniteSet(S), NEW list, NEW subject,
         \A x \in S : Rank(x, list, subject) \in Int /\ Ids(x, list) \in Int,
         \A x, y \in S : Ids(x, list) = Ids(y, list) => x = y
  PROVE  /\ Cardinality(S) \in Nat
         /\ \A i \in 1..Cardinality(S) : Nth(i, S, list, subject) \in S
         /\ \A x \in S : \E i \in 1..Cardinality(S) : x = Nth(i, S, list, subject)
         /\ \A i, j \in 1..Cardinality(S) :
              i < j <=> Before(Nth(i, S, list, subject), Nth(j, S, list, subject), list, subject)
<1> DEFINE n == Cardinality(S)
           Less(x) == {y \in S : Before(y, x, list, subject)}
           f == [x \in S |-> Cardinality(Less(x)) + 1]
<1>1. n \in Nat
  BY FS_CardinalityType
<1>0. ASSUME NEW x \in S
      PROVE  IsFiniteSet(Less(x)) /\ Cardinality(Less(x)) \in 0..(n - 1)
  <2>1. IsFiniteSet(S \ {x}) /\ Cardinality(S \ {x}) = n - 1
    BY FS_RemoveElement
  <2>2. Less(x) \subseteq S \ {x}
    BY OrderIsTotal
  <2> HIDE DEF Less, n
  <2>3. IsFiniteSet(Less(x)) /\ Cardinality(Less(x)) <= n - 1
    BY <2>1, <2>2, FS_Subset
  <2>4. Cardinality(Less(x)) \in Nat
    BY <2>3, FS_CardinalityType
  <2> QED
    BY <1>1, <2>3, <2>4
<1>2. \A x \in S : f[x] \in 1..n
  <2> TAKE x \in S
  <2>1. Cardinality(Less(x)) \in 0..(n - 1)
    BY <1>0
  <2> HIDE DEF Less, n
  <2> QED
    BY <1>1, <2>1
<1>3. ASSUME NEW x \in S, NEW y \in S, Before(x, y, list, subject)
      PROVE  f[x] < f[y]
  <2>1. x \notin Less(x)
    BY OrderIsTotal
  <2>2. Less(x) \cup {x} \subseteq Less(y)
    BY <1>3, OrderIsTotal
  <2>3. IsFiniteSet(Less(x)) /\ IsFiniteSet(Less(y))
    BY <1>0
  <2>4. f[x] = Cardinality(Less(x)) + 1 /\ f[y] = Cardinality(Less(y)) + 1
    OBVIOUS
  <2> HIDE DEF Less, f, n
  <2>5. IsFiniteSet(Less(x) \cup {x}) /\ Cardinality(Less(x) \cup {x}) = Cardinality(Less(x)) + 1
    BY <2>1, <2>3, FS_AddElement
  <2>6. Cardinality(Less(x) \cup {x}) <= Cardinality(Less(y))
    BY <2>2, <2>3, FS_Subset
  <2>7. Cardinality(Less(x)) \in Nat /\ Cardinality(Less(y)) \in Nat
    BY <2>3, FS_CardinalityType
  <2> QED
    BY <2>4, <2>5, <2>6, <2>7
<1>4. ASSUME NEW x \in S, NEW y \in S, f[x] = f[y]
      PROVE  x = y
  <2> SUFFICES ASSUME x # y PROVE FALSE
    OBVIOUS
  <2>1. Before(x, y, list, subject) \/ Before(y, x, list, subject)
    BY OrderIsTotal
  <2>2. f[x] \in Int /\ f[y] \in Int
    BY <1>1, <1>2
  <2>3. f[x] < f[y] \/ f[y] < f[x]
    BY <1>3, <2>1
  <2> HIDE DEF f
  <2> QED
    BY <1>4, <2>2, <2>3
<1>5. f \in Injection(S, 1..n)
  <2>1. f \in [S -> 1..n]
    BY <1>2
  <2> QED
    BY <1>4, <2>1 DEF Injection, IsInjective
<1>6. IsFiniteSet(1..n) /\ Cardinality(1..n) = n
  BY <1>1, FS_Interval
<1>7. f \in Surjection(S, 1..n)
  BY <1>5, <1>6, FS_Injection
<1>8. \A i \in 1..n : \E x \in S : f[x] = i
  BY <1>7 DEF Surjection
<1>9. \A i \in 1..n : Nth(i, S, list, subject) \in S /\ f[Nth(i, S, list, subject)] = i
  <2> TAKE i \in 1..n
  <2>1. PICK x \in S : f[x] = i
    BY <1>8
  <2>2. Cardinality(Less(x)) = i - 1
    <3>1. f[x] = Cardinality(Less(x)) + 1 /\ Cardinality(Less(x)) \in 0..(n - 1)
      BY <1>0
    <3> HIDE DEF Less, f, n
    <3> QED
      BY <1>1, <2>1, <3>1
  <2>3. /\ Nth(i, S, list, subject) \in S
        /\ Cardinality(Less(Nth(i, S, list, subject))) = i - 1
    BY <2>2 DEF Nth
  <2> QED
    BY <1>1, <2>3
<1>10. \A x \in S : \E i \in 1..n : x = Nth(i, S, list, subject)
  <2> TAKE x \in S
  <2>1. f[x] \in 1..n
    BY <1>2
  <2>2. Nth(f[x], S, list, subject) \in S /\ f[Nth(f[x], S, list, subject)] = f[x]
    BY <1>9, <2>1
  <2> QED
    BY <1>4, <2>1, <2>2
<1>11. ASSUME NEW i \in 1..n, NEW j \in 1..n
       PROVE  i < j <=> Before(Nth(i, S, list, subject), Nth(j, S, list, subject), list, subject)
  <2> DEFINE x == Nth(i, S, list, subject)
             y == Nth(j, S, list, subject)
  <2>1. x \in S /\ y \in S /\ f[x] = i /\ f[y] = j
    BY <1>9
  <2> HIDE DEF x, y, f
  <2>2. i < j => Before(x, y, list, subject)
    <3> SUFFICES ASSUME i < j, ~Before(x, y, list, subject) PROVE FALSE
      OBVIOUS
    <3>1. x # y
      BY <1>1, <2>1
    <3>2. Before(y, x, list, subject)
      BY <2>1, <3>1, OrderIsTotal
    <3> QED
      BY <1>1, <1>3, <2>1, <3>2
  <2>3. Before(x, y, list, subject) => i < j
    BY <1>3, <2>1
  <2> QED
    BY <2>2, <2>3 DEF x, y
<1> QED
  BY <1>1, <1>9, <1>10, <1>11
(* Positions follow each other.                                            *)
LEMMA PastIsTransitive ==
  ASSUME NEW p, NEW q, NEW r, p.rank \in Int, p.id \in Int, q.rank \in Int, q.id \in Int,
         r.rank \in Int, r.id \in Int
  PROVE  /\ Past(p, q) /\ Past(q, r) => Past(p, r)
         /\ Past(p, q) /\ ~Past(r, q) => Past(p, r)
BY DEF Past

(* A page that is read now is as a page should be.                         *)
LEMMA PagesAreReadWell ==
  ASSUME RowsOK, NEW list \in ListNames, NEW subject \in AnySubject, NEW viewer,
         list = "search" => subject \in Points, NEW c \in Cursors
  PROVE  PageOK(PageOf(list, subject, viewer, c), c)
<1> DEFINE page == PageOf(list, subject, viewer, c)
           all == {x \in rows : Admits(x, list, subject, viewer)}
           rest == {x \in all : c = NoCursor \/ After(x, list, subject, c)}
           n == Cardinality(rest)
           more == n > Limit
           k == IF more THEN Limit ELSE n
           At(i) == Nth(i, rest, list, subject)
           last == At(Limit)
           pos(x) == Position(x, list, subject)
<1>1. \A x \in rows : Rank(x, list, subject) \in Int /\ Ids(x, list) \in Int
  BY RanksAreIntegers DEF RowsOK
<1>2. \A x, y \in rows : Ids(x, list) = Ids(y, list) => x = y
  BY DEF RowsOK, Row, Ids
<1>3. IsFiniteSet(rest)
  BY FS_Subset DEF RowsOK
<1>4. /\ n \in Nat
      /\ \A i \in 1..n : At(i) \in rest
      /\ \A x \in rest : \E i \in 1..n : x = At(i)
      /\ \A i, j \in 1..n : i < j <=> Past(pos(At(j)), pos(At(i)))
  <2>1. \A x \in rest : Rank(x, list, subject) \in Int /\ Ids(x, list) \in Int
    BY <1>1
  <2>2. \A x, y \in rest : Ids(x, list) = Ids(y, list) => x = y
    BY <1>2
  <2> HIDE DEF rest
  <2> QED
    BY <1>3, <2>1, <2>2, RowsAreNumbered DEF Before
<1>5. Limit \in Nat \ {0}
  BY ListingsAssumption DEF ListingsAssumption
<1>6. k \in 0..n /\ (more => k = Limit /\ Limit \in 1..n /\ last \in rest)
  <2> HIDE DEF n, At, rest
  <2> QED
    BY <1>4, <1>5
<1>7. /\ page.items = [i \in 1..k |-> pos(At(i))]
      /\ page.next = IF more THEN CursorOf(last, list, subject) ELSE NoCursor
      /\ page.all = {pos(x) : x \in all}
  <2> DEFINE items == [i \in 1..k |-> At(i)]
  <2>1. page = [items |-> [i \in DOMAIN items |-> pos(items[i])],
                next |-> IF more THEN CursorOf(items[Limit], list, subject) ELSE NoCursor,
                all |-> {pos(x) : x \in all}]
    BY Zenon DEF PageOf
  <2>2. DOMAIN items = 1..k /\ \A i \in 1..k : items[i] = At(i)
    OBVIOUS
  <2>3. more => Limit \in 1..k
    BY <1>5, <1>6
  <2> HIDE DEF At, rest, n, all, items, page, k, more, pos
  <2>4. [i \in DOMAIN items |-> pos(items[i])] = [i \in 1..k |-> pos(At(i))]
    BY <2>2
  <2>5. more => items[Limit] = last
    BY <2>2, <2>3 DEF last
  <2> QED
    BY <2>1, <2>4, <2>5
<1>8. \A x \in rest : x \in rows /\ x \in all /\ (c # NoCursor => Past(pos(x), c))
  BY DEF After
<1>9. \A x \in all : x \notin rest => c # NoCursor /\ ~Past(pos(x), c)
  BY DEF After
<1>10. \A x \in rows : /\ pos(x) \in Spot /\ pos(x).rank \in Int /\ pos(x).id \in Int
  BY <1>1 DEF Position, Spot
<1>11. more => /\ page.next \in Cursors /\ page.next # NoCursor
               /\ \A p : Past(p, page.next) <=> Past(p, pos(last))
               /\ \A p : Past(page.next, p) <=> Past(pos(last), p)
  <2> HIDE DEF all, rest, At, n, more, page
  <2> QED
    BY <1>1, <1>6, <1>7, <1>8 DEF CursorOf, Cursors, NoCursor, ListNames, Position, Past
<1> HIDE DEF page, all, rest, n, more, k, At, pos
<1>12. c # NoCursor /\ more => Past(page.next, c)
  BY <1>6, <1>8, <1>11
<1>13. \A i \in 1..k : more => ~Past(pos(At(i)), page.next)
  <2> SUFFICES ASSUME NEW i \in 1..k, more PROVE ~Past(pos(At(i)), page.next)
    OBVIOUS
  <2>1. i \in 1..n /\ Limit \in 1..n /\ ~(Limit < i)
    BY <1>4, <1>6
  <2>2. ~Past(pos(At(i)), pos(At(Limit)))
    BY <1>4, <2>1
  <2> QED
    BY <1>11, <2>2 DEF last
<1>14. \A x \in rest : pos(x) \notin Range(page.items) => more /\ Past(pos(x), page.next)
  <2> SUFFICES ASSUME NEW x \in rest, pos(x) \notin Range(page.items)
               PROVE  more /\ Past(pos(x), page.next)
    OBVIOUS
  <2>1. PICK i \in 1..n : x = At(i)
    BY <1>4
  <2>2. i \notin 1..k
    BY <1>7, <2>1 DEF Range
  <2>3. more /\ Limit < i
    BY <1>4, <1>6, <2>2 DEF k
  <2>4. Past(pos(x), pos(At(Limit)))
    BY <1>4, <1>6, <2>1, <2>3
  <2> QED
    BY <1>11, <2>3, <2>4 DEF last
<1>15. \A i \in 1..k : At(i) \in rest /\ pos(At(i)) \in page.all /\ pos(At(i)) \in Spot
  BY <1>4, <1>6, <1>7, <1>8, <1>10
<1>16. /\ DOMAIN page.items = 1..k /\ \A i \in 1..k : page.items[i] = pos(At(i))
       /\ Range(page.items) = {pos(At(i)) : i \in 1..k}
  BY <1>7 DEF Range
<1>17. /\ page.all \subseteq Spot /\ page.items \in Seq(page.all)
  <2>1. k \in Nat
    BY <1>4, <1>6
  <2>2. page.items \in [1..k -> page.all]
    BY <1>7, <1>15
  <2>3. page.all \subseteq Spot
    BY <1>7, <1>10 DEF all
  <2> QED
    BY <2>1, <2>2, <2>3
<1>18. Ascending(page.items)
  <2> SUFFICES ASSUME NEW i \in 1..k, NEW j \in 1..k, i < j
               PROVE  Past(page.items[j], page.items[i])
    BY <1>16 DEF Ascending
  <2>1. i \in 1..n /\ j \in 1..n
    BY <1>4, <1>6
  <2> QED
    BY <1>4, <1>16, <2>1
<1>19. ~more => page.next = NoCursor /\ NoCursor \in Cursors
  BY <1>7 DEF Cursors, NoCursor, AnySubject
<1>20. ASSUME NEW p \in Range(page.items)
       PROVE  /\ c # NoCursor => Past(p, c)
              /\ page.next # NoCursor => ~Past(p, page.next)
  <2>1. PICK i \in 1..k : p = pos(At(i))
    BY <1>16, <1>20
  <2> QED
    BY <1>8, <1>13, <1>15, <1>19, <2>1
<1>21. ASSUME NEW p \in page.all \ Range(page.items)
       PROVE  \/ c # NoCursor /\ ~Past(p, c)
              \/ page.next # NoCursor /\ Past(p, page.next)
  <2>1. PICK x \in all : p = pos(x)
    BY <1>7, <1>21
  <2> QED
    BY <1>9, <1>11, <1>14, <1>21, <2>1
<1>22. page.next \in Cursors /\ (c # NoCursor /\ page.next # NoCursor => Past(page.next, c))
  BY <1>11, <1>12, <1>19
<1>23. PageOK(page, c)
  BY <1>17, <1>18, <1>20, <1>21, <1>22 DEF PageOK
<1> QED
  BY <1>23 DEF page

-----------------------------------------------------------------------------
(* Rows that come, change and go.                                          *)

LEMMA InsertMoves ==
  ASSUME ListInv, NEW table \in DOMAIN Statuses, NEW by \in Users, NEW on \in Users \cup Events,
         NEW status \in Statuses[table], NEW place \in Nat, NEW gone \in SUBSET rows,
         Insert(table, by, on, status, place, gone)
  PROVE  RowsOK' /\ UNCHANGED <<pages, readers>>
<1>1. PICK id \in (1..MaxId) \ used, at \in 1..clock :
        /\ rows' = (rows \ gone) \cup
                     {[table |-> table, id |-> id, at |-> at, by |-> by, on |-> on,
                       status |-> status, place |-> place]}
        /\ used' = used \cup {id}
  BY DEF Insert
<1>2. UNCHANGED <<clock, pages, readers>>
  BY DEF Insert
<1> DEFINE new == [table |-> table, id |-> id, at |-> at, by |-> by, on |-> on,
                   status |-> status, place |-> place]
<1>3. new \in Row /\ new.id = id
  BY ListingsAssumption DEF Row, ListInv, RowsOK, ListingsAssumption
<1> HIDE DEF new
<1>4. rows' = (rows \ gone) \cup {new}
  BY <1>1 DEF new
<1>5. IsFiniteSet(rows \ gone)
  BY FS_Subset DEF ListInv, RowsOK
<1>6. IsFiniteSet(rows')
  BY <1>4, <1>5, FS_AddElement
<1> QED
  BY <1>1, <1>2, <1>3, <1>4, <1>6, ListingsAssumption DEF ListInv, RowsOK, ListingsAssumption

LEMMA ReplaceMoves ==
  ASSUME ListInv, NEW x \in rows, NEW y \in Row, y.id = x.id, Replace(x, y)
  PROVE  RowsOK' /\ UNCHANGED <<pages, readers>>
<1>1. rows' = (rows \ {x}) \cup {y} /\ UNCHANGED <<used, clock, pages, readers>>
  BY DEF Replace
<1>2. IsFiniteSet(rows \ {x})
  BY FS_RemoveElement DEF ListInv, RowsOK
<1>3. IsFiniteSet(rows')
  BY <1>1, <1>2, FS_AddElement
<1> QED
  BY <1>1, <1>3 DEF ListInv, RowsOK

LEMMA BecomeMoves ==
  ASSUME ListInv, NEW x \in rows, NEW status, Become(x, status),
         status \in UNION {Statuses[t] : t \in DOMAIN Statuses}
  PROVE  RowsOK' /\ UNCHANGED <<pages, readers>>
<1> DEFINE y == [x EXCEPT !.status = status]
<1>1. y \in Row /\ y.id = x.id /\ Replace(x, y)
  BY DEF Row, ListInv, RowsOK, Become
<1> HIDE DEF y
<1> QED
  BY <1>1, ReplaceMoves

LEMMA DeleteMoves ==
  ASSUME ListInv, NEW x \in rows, Delete(x)
  PROVE  RowsOK' /\ UNCHANGED <<pages, readers>>
<1>1. IsFiniteSet(rows')
  BY FS_RemoveElement DEF ListInv, RowsOK, Delete
<1> QED
  BY <1>1 DEF ListInv, RowsOK, Delete

LEMMA ChangesMove ==
  ASSUME ListInv, Change
  PROVE  RowsOK' /\ UNCHANGED <<pages, readers>>
<1> DEFINE Goal == RowsOK' /\ UNCHANGED <<pages, readers>>
<1> HIDE DEF Goal
<1>0. Places \subseteq Nat
  BY ListingsAssumption DEF ListingsAssumption
<1>1. ASSUME RowsOK' /\ UNCHANGED <<pages, readers>> PROVE Goal
  BY <1>1 DEF Goal
<1>2. ASSUME NEW u \in Users, NEW e \in Events, CreateEvent(u, e) PROVE Goal
  <2>1. PICK place \in Places : Insert("event", u, e, "draft", place, {})
    BY <1>2 DEF CreateEvent
  <2> QED
    BY <1>0, <1>1, <2>1, InsertMoves DEF Statuses
<1>3. ASSUME NEW u \in Users, NEW e \in Events, AddComment(u, e) PROVE Goal
  <2>1. Insert("comment", u, e, "live", 0, {})
    BY <1>3 DEF AddComment
  <2> QED
    BY <1>1, <2>1, InsertMoves DEF Statuses
<1>4. ASSUME NEW u \in Users, NEW e \in Events, NEW table \in {"like", "save", "rsvp"},
             Engage(table, u, e)
      PROVE  Goal
  <2>1. PICK status \in Statuses[table] : Insert(table, u, e, status, 0, {})
    BY <1>4 DEF Engage
  <2> QED
    BY <1>1, <2>1, InsertMoves DEF Statuses
<1>5. ASSUME NEW u \in Users, NEW v \in Users, FollowUser(u, v) PROVE Goal
  <2>1. Insert("follow", u, v, "set", 0, {})
    BY <1>5 DEF FollowUser
  <2> QED
    BY <1>1, <2>1, InsertMoves DEF Statuses
<1>6. ASSUME NEW u \in Users, NEW v \in Users, BlockUser(u, v) PROVE Goal
  <2> DEFINE gone == {x \in rows : Is(x, "follow", u, v) \/ Is(x, "follow", v, u)}
  <2>1. Insert("block", u, v, "set", 0, gone)
    BY <1>6 DEF BlockUser
  <2>2. gone \in SUBSET rows
    OBVIOUS
  <2> HIDE DEF gone
  <2> QED
    BY <1>1, <2>1, <2>2, InsertMoves DEF Statuses
<1>7. ASSUME NEW u \in Users, ChangeAccount(u) PROVE Goal
  BY <1>1, <1>7 DEF ChangeAccount, ListInv, RowsOK
<1>8. ASSUME NEW x \in rows, ChangeEvent(x) PROVE Goal
  <2>1. PICK status \in Statuses.event : Become(x, status)
    BY <1>8 DEF ChangeEvent
  <2> QED
    BY <1>1, <2>1, BecomeMoves DEF Statuses
<1>9. ASSUME NEW x \in rows, ChangeRsvp(x) PROVE Goal
  <2>1. PICK status \in Statuses.rsvp : Become(x, status)
    BY <1>9 DEF ChangeRsvp
  <2> QED
    BY <1>1, <2>1, BecomeMoves DEF Statuses
<1>10. ASSUME NEW x \in rows, DeleteComment(x) PROVE Goal
  <2>1. "deleted" \in Statuses.comment /\ Become(x, "deleted")
    BY <1>10 DEF DeleteComment, Statuses
  <2> QED
    BY <1>1, <2>1, BecomeMoves DEF Statuses
<1>11. ASSUME NEW x \in rows, Disengage(x) \/ UnfollowUser(x) \/ UnblockUser(x) PROVE Goal
  <2>1. Delete(x)
    BY <1>11 DEF Disengage, UnfollowUser, UnblockUser
  <2> QED
    BY <1>1, <2>1, DeleteMoves
<1>12. ASSUME NEW x \in rows, ReviseEvent(x) PROVE Goal
  <2>1. PICK place \in Places : Replace(x, [x EXCEPT !.status = "draft", !.place = place])
    BY <1>12 DEF ReviseEvent
  <2> DEFINE y == [x EXCEPT !.status = "draft", !.place = place]
  <2>2. x \in Row /\ "draft" \in UNION {Statuses[t] : t \in DOMAIN Statuses}
    BY DEF ListInv, RowsOK, Statuses
  <2>3. y \in Row /\ y.id = x.id
    BY <1>0, <2>2 DEF Row
  <2> HIDE DEF y
  <2> QED
    BY <1>1, <2>1, <2>3, ReplaceMoves DEF y
<1> QED
  BY <1>2, <1>3, <1>4, <1>5, <1>6, <1>7, <1>8, <1>9, <1>10, <1>11, <1>12 DEF Change, Goal

-----------------------------------------------------------------------------
(* Readers.                                                                *)

(* What two sequences give together, when the second goes on from the first. *)
LEMMA TurnedPages ==
  ASSUME NEW s \in Seq(Spot), NEW t \in Seq(Spot), Ascending(s), Ascending(t),
         \A p \in Range(s), r \in Range(t) : Past(r, p)
  PROVE  /\ s \o t \in Seq(Spot)
         /\ Range(s \o t) = Range(s) \cup Range(t)
         /\ Ascending(s \o t)
<1> DEFINE w == s \o t
           m == Len(s)
           n == Len(t)
<1>1. m \in Nat /\ n \in Nat /\ w \in Seq(Spot) /\ Len(w) = m + n
  OBVIOUS
<1>2. /\ \A i \in 1..m : w[i] = s[i]
      /\ \A i \in 1..n : w[m + i] = t[i]
      /\ \A i \in 1..(m + n) : i \in 1..m \/ (i - m \in 1..n /\ w[i] = t[i - m])
  OBVIOUS
<1>3. DOMAIN s = 1..m /\ DOMAIN t = 1..n /\ DOMAIN w = 1..(m + n)
  BY <1>1
<1> HIDE DEF w, m, n
<1>4. Range(w) = Range(s) \cup Range(t)
  <2>1. ASSUME NEW i \in 1..(m + n) PROVE w[i] \in Range(s) \cup Range(t)
    <3>1. i \in 1..m \/ (i - m \in 1..n /\ w[i] = t[i - m])
      BY <1>2
    <3>2. i \in 1..m => w[i] = s[i]
      BY <1>2
    <3> QED
      BY <1>3, <3>1, <3>2 DEF Range
  <2>2. \A i \in 1..m : i \in 1..(m + n)
    BY <1>1
  <2>3. \A i \in 1..n : m + i \in 1..(m + n)
    BY <1>1
  <2>4. Range(s) \subseteq Range(w)
    BY <1>2, <1>3, <2>2 DEF Range
  <2>5. Range(t) \subseteq Range(w)
    BY <1>2, <1>3, <2>3 DEF Range
  <2>6. Range(w) \subseteq Range(s) \cup Range(t)
    <3>1. Range(w) = {w[i] : i \in 1..(m + n)}
      BY <1>3 DEF Range
    <3> HIDE DEF Range
    <3> QED
      BY <2>1, <3>1
  <2> QED
    BY <2>4, <2>5, <2>6
<1>5. ASSUME NEW i \in 1..(m + n), NEW j \in 1..(m + n), i < j PROVE Past(w[j], w[i])
  <2>1. CASE j \in 1..m
    <3>1. i \in 1..m /\ w[i] = s[i] /\ w[j] = s[j]
      BY <1>1, <1>2, <1>5, <2>1
    <3> QED
      BY <1>3, <1>5, <2>1, <3>1 DEF Ascending
  <2>2. CASE i \in 1..m /\ j \notin 1..m
    <3>1. w[i] = s[i] /\ j - m \in 1..n /\ w[j] = t[j - m]
      BY <1>2, <2>2
    <3>2. s[i] \in Range(s) /\ t[j - m] \in Range(t)
      BY <1>3, <2>2, <3>1 DEF Range
    <3> QED
      BY <3>1, <3>2
  <2>3. CASE i \notin 1..m /\ j \notin 1..m
    <3>1. /\ i - m \in 1..n /\ w[i] = t[i - m]
          /\ j - m \in 1..n /\ w[j] = t[j - m]
      BY <1>2, <2>3
    <3>2. i - m < j - m
      BY <1>1, <1>5
    <3> QED
      BY <1>3, <3>1, <3>2 DEF Ascending
  <2>4. j \in 1..m \/ i \in 1..m \/ i \notin 1..m
    OBVIOUS
  <2> QED
    BY <2>1, <2>2, <2>3
<1> QED
  BY <1>1, <1>3, <1>4, <1>5 DEF w, Ascending

(* A reader that turns to a page read at its cursor.                       *)
LEMMA TurningKeepsPlace ==
  ASSUME ListInv, NEW c \in Readers, NEW page, ~readers[c].moved,
         readers[c].pc = "paging", PageOK(page, readers[c].cursor), Turned(c, page)
  PROVE  PlaceOK(readers'[c])
<1> DEFINE q == readers[c]
           r == readers'[c]
<1>1. /\ PlaceOK(q) /\ q \in Reading /\ q.pc = "paging"
      /\ PageOK(page, q.cursor) /\ q.cursor \in Cursors
  BY DEF ListInv, ReaderOK, Reading
<1>2. /\ r.pc = IF page.next = NoCursor THEN "done" ELSE Ready(q.list)
      /\ r.cursor = page.next /\ ~r.first /\ r.got = q.got \o page.items
      /\ r.kept = IF q.first THEN page.all ELSE q.kept \cap page.all
  BY <1>1 DEF Turned, ListInv, Reading
<1> HIDE DEF q, r
<1>3. /\ q.got \in Seq(Spot) /\ page.items \in Seq(Spot)
      /\ Range(page.items) \subseteq page.all /\ page.all \subseteq Spot /\ Range(q.got) \subseteq Spot
  <2>1. q.got \in Seq(Spot) /\ page.items \in Seq(page.all) /\ page.all \subseteq Spot
    BY <1>1 DEF Reading, PageOK
  <2>2. Range(q.got) \subseteq Spot /\ Range(page.items) \subseteq page.all
    BY <2>1 DEF Range
  <2> QED
    BY <2>1, <2>2
<1>4. \A p \in Range(q.got), z \in Range(page.items) : Past(z, p)
  <2> SUFFICES ASSUME NEW p \in Range(q.got), NEW z \in Range(page.items) PROVE Past(z, p)
    OBVIOUS
  <2>1. q.cursor # NoCursor
    BY <1>1 DEF PlaceOK, Range
  <2>2. ~Past(p, q.cursor) /\ Past(z, q.cursor)
    BY <1>1, <2>1 DEF PlaceOK, PageOK
  <2>3. p \in Spot /\ z \in Spot
    BY <1>3
  <2> QED
    BY <1>1, <2>2, <2>3, PastIsTransitive DEF Spot, Cursors
<1>5. Range(r.got) = Range(q.got) \cup Range(page.items) /\ Ascending(r.got)
  <2> DEFINE s == q.got
             t == page.items
  <2>1. s \in Seq(Spot) /\ t \in Seq(Spot) /\ Ascending(s) /\ Ascending(t)
    BY <1>1, <1>3 DEF PlaceOK, PageOK
  <2>2. \A p \in Range(s), z \in Range(t) : Past(z, p)
    BY <1>4
  <2> HIDE DEF s, t
  <2>3. Range(s \o t) = Range(s) \cup Range(t) /\ Ascending(s \o t)
    BY <2>1, <2>2, TurnedPages
  <2> QED
    BY <1>2, <2>3 DEF s, t
<1>6. ASSUME NEW p \in r.kept \ Range(r.got)
      PROVE  page.next # NoCursor /\ Past(p, page.next)
  <2>1. p \in page.all \ Range(page.items) /\ p \notin Range(q.got)
    BY <1>2, <1>5, <1>6
  <2>2. ~(q.cursor # NoCursor /\ ~Past(p, q.cursor))
    BY <1>1, <1>2, <1>6, <2>1 DEF PlaceOK
  <2> QED
    BY <1>1, <2>1, <2>2 DEF PageOK
<1>7. ASSUME NEW p \in Range(r.got), page.next # NoCursor PROVE ~Past(p, page.next)
  <2>1. CASE p \in Range(page.items)
    BY <1>1, <1>7, <2>1 DEF PageOK
  <2>2. CASE p \in Range(q.got)
    <3>1. q.cursor # NoCursor /\ ~Past(p, q.cursor)
      BY <1>1, <2>2 DEF PlaceOK, Range
    <3>2. Past(page.next, q.cursor) /\ page.next \in Cursors
      BY <1>1, <1>7, <3>1 DEF PageOK
    <3>3. p \in Spot
      BY <1>3, <2>2
    <3> QED
      BY <1>1, <3>1, <3>2, <3>3 DEF Spot, Cursors, Past
  <2> QED
    BY <1>5, <1>7, <2>1, <2>2
<1>8. Ready(q.list) # "done"
  BY DEF Ready
<1>9. PlaceOK(r)
  BY <1>2, <1>5, <1>6, <1>7, <1>8 DEF PlaceOK
<1> QED
  BY <1>9 DEF r

(* A step of one reader, and pages that are as they should be.             *)
LEMMA ReaderSteps ==
  ASSUME ListInv, NEW c \in Readers, UNCHANGED <<rows, used, clock>>,
         NEW r, readers' = [readers EXCEPT ![c] = r], ReaderOK(r),
         \A p \in pages' : StoredOK(p)
  PROVE  ListInv'
BY DEF ListInv, RowsOK

(* The reader that has turned to a page.                                   *)
Onto(q, page) ==
  [q EXCEPT !.pc = IF page.next = NoCursor THEN "done" ELSE Ready(q.list),
            !.cursor = page.next, !.first = FALSE, !.got = @ \o page.items,
            !.kept = IF q.first THEN page.all ELSE @ \cap page.all]

LEMMA TurningKeepsReader ==
  ASSUME ListInv, NEW c \in Readers, NEW page, readers[c].pc = "paging",
         PageOK(page, readers[c].cursor), Turned(c, page)
  PROVE  /\ readers' = [readers EXCEPT ![c] = Onto(readers[c], page)]
         /\ ReaderOK(Onto(readers[c], page))
<1> DEFINE q == readers[c]
           r == Onto(q, page)
<1>1. readers' = [readers EXCEPT ![c] = r] /\ readers'[c] = r /\ ReaderOK(q)
  BY DEF Turned, Onto, ListInv
<1>2. ~q.moved => PlaceOK(r)
  BY <1>1, TurningKeepsPlace
<1> HIDE DEF q
<1>3. q \in Reading /\ PageOK(page, q.cursor)
  BY <1>1 DEF ReaderOK, q
<1>4. q.got \o page.items \in Seq(Spot)
  <2>1. q.got \in Seq(Spot) /\ page.items \in Seq(Spot)
    BY <1>3 DEF Reading, PageOK
  <2> QED
    BY <2>1
<1>5. page.all \subseteq Spot /\ page.next \in Cursors
  BY <1>3 DEF PageOK
<1>6. r \in Reading
  BY <1>3, <1>4, <1>5 DEF Onto, Reading, Ready
<1>7. r.list = q.list /\ r.subject = q.subject /\ r.moved = q.moved
  BY <1>3 DEF Onto, Reading
<1>8. ReaderOK(r)
  BY <1>1, <1>2, <1>6, <1>7 DEF ReaderOK
<1> QED
  BY <1>1, <1>8 DEF q

(* A page from the database, and one from the cache.                       *)
LEMMA ReadPageKeeps ==
  ASSUME ListInv, NEW c \in Readers, ReadPage(c)
  PROVE  ListInv'
<1> DEFINE q == readers[c]
           page == PageOf(q.list, q.subject, q.viewer, q.cursor)
<1>1. /\ q \in Reading /\ (q.list = "search" => q.subject \in Points) /\ q.pc = "paging"
      /\ UNCHANGED <<rows, used, clock>> /\ Turned(c, page)
      /\ \A p \in pages' : p \in pages \/ p = [key |-> Key(q), page |-> page]
  BY DEF ListInv, ReaderOK, ReadPage
<1>2. PageOK(page, q.cursor)
  <2>1. q.list \in ListNames /\ q.subject \in AnySubject /\ q.cursor \in Cursors
    BY <1>1 DEF Reading
  <2> HIDE DEF q
  <2> QED
    BY <1>1, <2>1, PagesAreReadWell DEF ListInv
<1> HIDE DEF page
<1>3. \A p \in pages' : StoredOK(p)
  <2>1. Key(q)[2] = q.cursor /\ q.cursor \in Cursors
    BY <1>1 DEF Key, Reading
  <2> HIDE DEF q
  <2> QED
    BY <1>1, <1>2, <2>1 DEF ListInv, StoredOK
<1> QED
  BY <1>1, <1>2, <1>3, TurningKeepsReader, ReaderSteps

LEMMA ReadCachedPageKeeps ==
  ASSUME ListInv, NEW c \in Readers, ReadCachedPage(c)
  PROVE  ListInv'
<1>1. PICK p \in pages : p.key = Key(readers[c]) /\ Turned(c, p.page)
  BY DEF ReadCachedPage
<1>2. readers[c].pc = "paging" /\ UNCHANGED <<rows, used, clock, pages>>
  BY DEF ReadCachedPage
<1>3. PageOK(p.page, readers[c].cursor)
  BY <1>1 DEF ListInv, StoredOK, Key
<1>4. \A s \in pages' : StoredOK(s)
  BY <1>2 DEF ListInv
<1> QED
  BY <1>1, <1>2, <1>3, <1>4, TurningKeepsReader, ReaderSteps

LEMMA SubjectsOfLists ==
  ASSUME NEW list \in ListNames
  PROVE  /\ Subjects(list) \subseteq AnySubject /\ (list = "search" => Subjects(list) = Points)
         /\ Viewers(list) \subseteq Users \cup {Visitor}
         /\ Ready(list) \in {"asserting", "paging"}
BY DEF ListNames, Subjects, Viewers, Ready, AnySubject

LEMMA FreshReader ==
  /\ ReaderOK(NoReader)
  /\ \A list \in ListNames : \A subject \in Subjects(list), viewer \in Viewers(list) :
       ReaderOK([NoReader EXCEPT !.pc = Ready(list), !.list = list,
                                 !.subject = subject, !.viewer = viewer])
<1> DEFINE r(list, subject, viewer) ==
             [NoReader EXCEPT !.pc = Ready(list), !.list = list,
                              !.subject = subject, !.viewer = viewer]
<1>1. /\ NoReader \in Reading /\ NoReader.got = <<>> /\ NoReader.cursor = NoCursor
      /\ NoReader.pc = "idle" /\ NoReader.first /\ NoReader.list # "search"
  BY DEF NoReader, Reading, Cursors, NoCursor, ListNames, AnySubject
<1>3. Ascending(<<>>)
  BY DEF Ascending
<1>4. ReaderOK(NoReader)
  BY <1>1, <1>3 DEF ReaderOK, PlaceOK
<1>5. ASSUME NEW list \in ListNames, NEW subject \in Subjects(list), NEW viewer \in Viewers(list)
      PROVE  ReaderOK(r(list, subject, viewer))
  <2> DEFINE z == r(list, subject, viewer)
  <2>1. /\ subject \in AnySubject /\ viewer \in Users \cup {Visitor}
        /\ (list = "search" => subject \in Points) /\ Ready(list) \in {"asserting", "paging"}
    BY SubjectsOfLists
  <2>2. /\ z \in Reading /\ z.got = <<>> /\ z.cursor = NoCursor /\ z.pc = Ready(list)
        /\ z.first /\ z.list = list /\ z.subject = subject
    BY <1>1, <2>1 DEF Reading
  <2> HIDE DEF z
  <2>3. ReaderOK(z)
    BY <1>3, <2>1, <2>2 DEF ReaderOK, PlaceOK
  <2> QED
    BY <2>3 DEF z
<1> QED
  BY <1>4, <1>5

LEMMA OpenKeeps ==
  ASSUME ListInv, NEW c \in Readers, Open(c)
  PROVE  ListInv'
<1>1. PICK list \in Lists : \E subject \in Subjects(list), viewer \in Viewers(list) :
        readers' = [readers EXCEPT ![c] = [NoReader EXCEPT !.pc = Ready(list),
                      !.list = list, !.subject = subject, !.viewer = viewer]]
  BY DEF Open
<1>2. PICK subject \in Subjects(list), viewer \in Viewers(list) :
        readers' = [readers EXCEPT ![c] = [NoReader EXCEPT !.pc = Ready(list),
                      !.list = list, !.subject = subject, !.viewer = viewer]]
  BY <1>1
<1> DEFINE r == [NoReader EXCEPT !.pc = Ready(list), !.list = list,
                                 !.subject = subject, !.viewer = viewer]
<1>3. list \in ListNames
  BY ListingsAssumption DEF ListingsAssumption
<1>4. ReaderOK(r)
  BY <1>3, FreshReader
<1>5. readers' = [readers EXCEPT ![c] = r]
  BY <1>2
<1>6. UNCHANGED <<rows, used, clock>> /\ \A p \in pages' : StoredOK(p)
  BY DEF Open, ListInv
<1> HIDE DEF r
<1> QED
  BY <1>4, <1>5, <1>6, ReaderSteps

(* A reader that moves on without a page, or is sent away.                 *)
LEMMA CheckSubjectKeeps ==
  ASSUME ListInv, NEW c \in Readers, CheckSubject(c) \/ Reject(c)
  PROVE  ListInv'
<1> DEFINE q == readers[c]
<1>1. /\ ReaderOK(q) /\ q.pc \in {"asserting", "paging"}
      /\ UNCHANGED <<rows, used, clock, pages>>
  BY DEF ListInv, CheckSubject, Reject
<1>2. PICK pc \in {"paging", "not_found", "invalid"} :
        readers' = [readers EXCEPT ![c].pc = pc]
  BY DEF CheckSubject, Reject
<1> DEFINE r == [q EXCEPT !.pc = pc]
<1>3. readers' = [readers EXCEPT ![c] = r]
  BY <1>2
<1> HIDE DEF q
<1>4. ReaderOK(r)
  BY <1>1 DEF ReaderOK, PlaceOK, Reading
<1>5. \A p \in pages' : StoredOK(p)
  BY <1>1 DEF ListInv
<1> HIDE DEF r
<1> QED
  BY <1>1, <1>3, <1>4, <1>5, ReaderSteps

LEMMA WanderKeeps ==
  ASSUME ListInv, NEW c \in Readers, Wander(c)
  PROVE  ListInv'
<1> DEFINE q == readers[c]
<1>1. /\ ReaderOK(q) /\ UNCHANGED <<rows, used, clock, pages>>
  BY DEF ListInv, Wander
<1>2. PICK list \in Lists : \E subject \in Subjects(list) :
        readers' = [readers EXCEPT ![c] = [q EXCEPT
                      !.pc = Ready(list), !.list = list, !.subject = subject, !.moved = TRUE]]
  BY DEF Wander
<1>3. PICK subject \in Subjects(list) :
        readers' = [readers EXCEPT ![c] = [q EXCEPT
                      !.pc = Ready(list), !.list = list, !.subject = subject, !.moved = TRUE]]
  BY <1>2
<1> DEFINE r == [q EXCEPT !.pc = Ready(list), !.list = list, !.subject = subject, !.moved = TRUE]
<1>4. /\ list \in ListNames /\ subject \in AnySubject /\ (list = "search" => subject \in Points)
      /\ Ready(list) \in {"asserting", "paging"}
  BY SubjectsOfLists, ListingsAssumption DEF ListingsAssumption
<1>5. readers' = [readers EXCEPT ![c] = r]
  BY <1>3
<1> HIDE DEF q
<1>6. ReaderOK(r)
  BY <1>1, <1>4 DEF ReaderOK, Reading
<1>7. \A p \in pages' : StoredOK(p)
  BY <1>1 DEF ListInv
<1> HIDE DEF r
<1> QED
  BY <1>1, <1>5, <1>6, <1>7, ReaderSteps

-----------------------------------------------------------------------------
(* The database at the start.                                              *)

LEMMA EventsHaveIds ==
  /\ EventIds \in [Events -> 1..MaxId]
  /\ \A d, e \in Events : d # e => EventIds[d] # EventIds[e]
<1> DEFINE n == Cardinality(Events)
<1>1. n \in Nat /\ n <= MaxId /\ MaxId \in Nat /\ ExistsBijection(1..n, Events)
  BY ListingsAssumption, FS_CardinalityType DEF ListingsAssumption
<1>2. PICK b \in [1..n -> Events] : \A e \in Events : \E i \in 1..n : b[i] = e
  BY <1>1 DEF ExistsBijection, Bijection, Injection, Surjection
<1> DEFINE f == [e \in Events |-> CHOOSE i \in 1..n : b[i] = e]
<1>3. \A e \in Events : f[e] \in 1..n /\ b[f[e]] = e
  BY <1>2
<1> HIDE DEF f, n
<1>4. f \in [Events -> 1..MaxId] /\ \A d, e \in Events : d # e => f[d] # f[e]
  <2>1. f = [e \in Events |-> f[e]]
    BY DEF f
  <2>2. \A e \in Events : f[e] \in 1..MaxId
    BY <1>1, <1>3
  <2>3. f \in [Events -> 1..MaxId]
    BY <2>1, <2>2
  <2> QED
    BY <1>3, <2>3
<1> QED
  BY <1>4 DEF EventIds

LEMMA ListInitOK ==
  ASSUME ListInit
  PROVE  ListInv
<1>1. PICK start \in {{}, Events}, by \in [Events -> Users], place \in [Events -> Places] :
        /\ rows = {[table |-> "event", id |-> EventIds[e], at |-> 1, by |-> by[e], on |-> e,
                    status |-> "public", place |-> place[e]] : e \in start}
        /\ used = {EventIds[e] : e \in start}
  BY DEF ListInit
<1> DEFINE f == [e \in start |-> [table |-> "event", id |-> EventIds[e], at |-> 1, by |-> by[e],
                                  on |-> e, status |-> "public", place |-> place[e]]]
<1>2. start \subseteq Events /\ IsFiniteSet(start)
  BY FS_EmptySet, ListingsAssumption DEF ListingsAssumption
<1>3. \A e \in start : f[e] \in Row /\ f[e].id = EventIds[e]
  BY <1>2, EventsHaveIds, ListingsAssumption DEF Row, Statuses, ListingsAssumption
<1>4. rows = {f[e] : e \in start}
  BY <1>1
<1> HIDE DEF f
<1>5. DOMAIN f = start
  BY DEF f
<1>6. f \in Surjection(start, rows)
  BY <1>4, <1>5 DEF Surjection, f
<1>7. IsFiniteSet(rows)
  BY <1>2, <1>6, FS_Surjection
<1>8. used \subseteq Nat
  BY <1>1, <1>2, EventsHaveIds
<1>9. RowsOK
  BY <1>1, <1>2, <1>3, <1>4, <1>7, <1>8, EventsHaveIds DEF RowsOK, ListInit
<1>10. \A c \in Readers : ReaderOK(readers[c])
  BY FreshReader DEF ListInit
<1> QED
  BY <1>9, <1>10 DEF ListInv, ListInit

-----------------------------------------------------------------------------
(* Whatever happens, the rows, pages and readers are as they should be.     *)
LEMMA ListStepKeeps ==
  ASSUME ListInv, [ListNext]_listVars
  PROVE  ListInv'
<1>1. CASE Change
  BY <1>1, ChangesMove DEF ListInv
<1>2. CASE Scroll
  <2>1. PICK c \in Readers : Open(c) \/ CheckSubject(c) \/ ReadPage(c) \/ ReadCachedPage(c)
                               \/ Reject(c) \/ Wander(c)
    BY <1>2 DEF Scroll
  <2> QED
    BY <2>1, OpenKeeps, CheckSubjectKeeps, ReadPageKeeps, ReadCachedPageKeeps, WanderKeeps
<1>3. CASE Tick \/ Expire \/ UNCHANGED listVars
  <2>1. UNCHANGED <<rows, used, readers>> /\ pages' \subseteq pages /\ clock' \in Nat
    BY <1>3 DEF Tick, Expire, listVars, ListInv, RowsOK
  <2> QED
    BY <2>1 DEF ListInv, RowsOK
<1> QED
  BY <1>1, <1>2, <1>3 DEF ListNext

(* Infinite scroll: who scrolls through a list is given rows in its order,   *)
(* and has at the end been given every row that it admitted in the same     *)
(* position from the first page to the last, for any of the lists, any      *)
(* limit, rows of equal time, and any insertions, changes, moves of events   *)
(* and deletions between the pages (EventReadService, cursor-pagination.ts). *)
THEOREM PagesAreComplete == ListSpec => []PagesCoverWhatStays
<1>1. ListInit => ListInv
  BY ListInitOK
<1>2. ListInv /\ [ListNext]_listVars => ListInv'
  BY ListStepKeeps
<1>3. ListInv => PagesCoverWhatStays
  BY DEF ListInv, ReaderOK, PlaceOK, Ascending, PagesCoverWhatStays
<1> QED
  BY <1>1, <1>2, <1>3, PTL DEF ListSpec
=============================================================================
