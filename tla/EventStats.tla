----------------------------- MODULE EventStats -----------------------------
(***************************************************************************)
(* Engagement with events and its counters.  Likes, saves, RSVPs and       *)
(* comments are rows; every transaction that changes them appends an       *)
(* outbox row with the differences it makes, and replicas of a projector   *)
(* fold the pending outbox rows into event_stats, several at a time.       *)
(*                                                                         *)
(* An outbox row carries now(), which PostgreSQL fixes when a transaction   *)
(* begins: the rows' order is not the order of the commits.  A statement   *)
(* that writes conflicting rows waits for the other transaction, so all a  *)
(* transaction does from its first write to its commit is one action.  The *)
(* projector's statement is not: it sees the table as it was when the      *)
(* statement started, locks rows one at a time and skips the locked ones.  *)
(***************************************************************************)
EXTENDS Integers, FiniteSets, FiniteSetsExt

CONSTANTS
  Users,           \* accounts (keycloak subjects)
  Events,          \* events open for engagement
  Comments,        \* ids of comment rows
  Clients,         \* database connections of requests in progress
  Projectors,      \* replicas of the projector
  Kinds,           \* counters in use
  CandidateLimit,  \* rows a projector locks at most
  BatchLimit,      \* rows a projector applies at most
  MaxTx,           \* bound: transactions of users
  MaxFaults,       \* bound: failed projections
  None

AllKinds == {"likes", "saves", "attending", "comments"}

ASSUME StatsAssumption ==
  /\ IsFiniteSet(Users) /\ IsFiniteSet(Events) /\ IsFiniteSet(Comments)
  /\ Kinds \subseteq AllKinds
  /\ CandidateLimit \in Nat \ {0}
  /\ BatchLimit \in Nat \ {0}
  /\ MaxTx \in Nat
  /\ MaxFaults \in Nat

VARIABLES
  marks,       \* event_likes and event_saves
  rsvps,       \* event_participants
  comments,    \* event_comments
  stats,       \* event_stats
  pending,     \* event.stats.changed rows without processed_at
  processed,   \* those with processed_at
  txs,         \* transactions of users in progress, by connection
  projs,       \* projections in progress
  erased,      \* users whose account is being erased
  clock,       \* transactions begun
  faults       \* failed projections

vars == <<marks, rsvps, comments, stats, pending, processed, txs, projs, erased,
          clock, faults>>

-----------------------------------------------------------------------------
Rsvp == {"NONE", "MAYBE", "CONFIRMED", "DECLINED"}
Marks == {"likes", "saves"} \cap Kinds

Delta == [Kinds -> Int]
Change(k, n) == [j \in Kinds |-> IF j = k THEN n ELSE 0]

Row == [at: 1 .. MaxTx, event: Events, delta: Delta]

NoComment == [event |-> None, author |-> None, live |-> FALSE]
Comment == [event: Events \cup {None}, author: Users \cup {None}, live: BOOLEAN]

(* erasing: the transaction of anonymizeDomainData instead of a request's. *)
Tx == [pc: {"idle", "open", "exists"}, user: Users \cup {None}, at: 0 .. MaxTx,
       event: Events \cup {None}, erasing: BOOLEAN]
NoTx == [pc |-> "idle", user |-> None, at |-> 0, event |-> None, erasing |-> FALSE]

(* seen: pending rows in the statement's snapshot; todo: those not reached  *)
(* yet; rows: the rows it has locked; tried, held: aggregates whose advisory *)
(* lock it has asked for, and got.                                           *)
Proj == [pc: {"idle", "scanning", "locking"}, seen: SUBSET Row, todo: SUBSET Row,
         rows: SUBSET Row, tried: SUBSET Events, held: SUBSET Events]
NoProj == [pc |-> "idle", seen |-> {}, todo |-> {}, rows |-> {}, tried |-> {}, held |-> {}]

Confirmed(status) == IF status = "CONFIRMED" THEN 1 ELSE 0

(* The rows behind a counter: what event_stats is to show in the end. *)
Actual(e, k) ==
  CASE k \in Marks       -> Cardinality({u \in Users : <<e, u>> \in marks[k]})
    [] k = "attending"   -> Cardinality({u \in Users : rsvps[<<e, u>>] = "CONFIRMED"})
    [] k = "comments"    -> Cardinality({c \in Comments : comments[c].event = e /\ comments[c].live})

(* The sum of the rows' differences: as many as all of them add, less as    *)
(* many as they take away.                                                  *)
Units(k, rows, sign) == UNION {{r} \X (1 .. sign * r.delta[k]) : r \in rows}
Total(k, rows) == Cardinality(Units(k, rows, 1)) - Cardinality(Units(k, rows, -1))
Of(e, rows) == {r \in rows : r.event = e}

(* ORDER BY occurred_at, id LIMIT n.  Rows of one transaction share their   *)
(* time, and their ids are random.                                          *)
FirstRows(rows, n) ==
  {s \in SUBSET rows :
     /\ Cardinality(s) = Min({n, Cardinality(rows)})
     /\ \A r \in s, q \in rows \ s : r.at <= q.at}

Init ==
  /\ marks = [k \in Marks |-> {}]
  /\ rsvps = [p \in Events \X Users |-> "NONE"]
  /\ comments = [c \in Comments |-> NoComment]
  /\ stats = [e \in Events |-> [k \in Kinds |-> 0]]
  /\ pending = {}
  /\ processed = {}
  /\ txs = [c \in Clients |-> NoTx]
  /\ projs = [p \in Projectors |-> NoProj]
  /\ erased = {}
  /\ clock = 0
  /\ faults = 0

-----------------------------------------------------------------------------
(* Requests. *)

Begin(c, u, e, erasing) ==
  /\ clock < MaxTx
  /\ txs[c].pc = "idle"
  /\ u \in erased => erasing
  /\ erasing => \A d \in Clients : txs[d].user # u
  /\ erased' = IF erasing THEN erased \cup {u} ELSE erased
  /\ clock' = clock + 1
  /\ txs' = [txs EXCEPT ![c] = [pc |-> "open", user |-> u, at |-> clock + 1, event |-> e,
                                erasing |-> erasing]]
  /\ UNCHANGED <<marks, rsvps, comments, stats, pending, processed, projs, faults>>

Requesting(c) == txs[c].pc = "open" /\ ~txs[c].erasing

(* The transaction ends; deltas: what it tells the projector. *)
Emit(c, deltas) ==
  /\ pending' = pending \cup {[at |-> txs[c].at, event |-> d[1], delta |-> d[2]] : d \in deltas}
  /\ txs' = [txs EXCEPT ![c] = NoTx]

(* setLike, setSave: only a row really inserted or deleted is announced. *)
SetMark(c, k, on) ==
  LET e == txs[c].event
      pair == <<e, txs[c].user>>
      changed == (pair \in marks[k]) # on
  IN /\ Requesting(c)
     /\ marks' = [marks EXCEPT ![k] = IF on THEN @ \cup {pair} ELSE @ \ {pair}]
     /\ Emit(c, IF changed THEN {<<e, Change(k, IF on THEN 1 ELSE -1)>>} ELSE {})
     /\ UNCHANGED <<rsvps, comments, stats, processed, projs, erased, clock, faults>>

(* setRsvp: insert, unless there is a row already ... *)
InsertRsvp(c, status) ==
  LET pair == <<txs[c].event, txs[c].user>>
  IN /\ "attending" \in Kinds
     /\ Requesting(c)
     /\ rsvps[pair] = "NONE"
     /\ rsvps' = [rsvps EXCEPT ![pair] = status]
     /\ Emit(c, {<<txs[c].event, Change("attending", Confirmed(status))>>})
     /\ UNCHANGED <<marks, comments, stats, processed, projs, erased, clock, faults>>

RsvpExists(c) ==
  /\ "attending" \in Kinds
  /\ Requesting(c)
  /\ rsvps[<<txs[c].event, txs[c].user>>] # "NONE"
  /\ txs' = [txs EXCEPT ![c].pc = "exists"]
  /\ UNCHANGED <<marks, rsvps, comments, stats, pending, processed, projs, erased, clock, faults>>

(* Mutant: what the row said is not looked at. *)
ChangeRsvpBlindly(c, status) ==
  LET pair == <<txs[c].event, txs[c].user>>
  IN /\ txs[c].pc = "exists"
     /\ IF rsvps[pair] \in {"NONE", status}
        THEN Emit(c, {}) /\ UNCHANGED rsvps
        ELSE /\ rsvps' = [rsvps EXCEPT ![pair] = status]
             /\ Emit(c, {<<txs[c].event, Change("attending", Confirmed(status))>>})
     /\ UNCHANGED <<marks, comments, stats, processed, projs, erased, clock, faults>>

(* ... which may have changed, or gone, by the time it is locked. *)
ChangeRsvp(c, status) ==
  LET pair == <<txs[c].event, txs[c].user>>
  IN /\ txs[c].pc = "exists"
     /\ IF rsvps[pair] \in {"NONE", status}
        THEN Emit(c, {}) /\ UNCHANGED rsvps
        ELSE /\ rsvps' = [rsvps EXCEPT ![pair] = status]
             /\ Emit(c, {<<txs[c].event,
                           Change("attending", Confirmed(status) - Confirmed(rsvps[pair]))>>})
     /\ UNCHANGED <<marks, comments, stats, processed, projs, erased, clock, faults>>

CancelRsvp(c) ==
  LET pair == <<txs[c].event, txs[c].user>>
  IN /\ "attending" \in Kinds
     /\ Requesting(c)
     /\ rsvps' = [rsvps EXCEPT ![pair] = "NONE"]
     /\ Emit(c, IF rsvps[pair] = "NONE" THEN {}
                ELSE {<<txs[c].event, Change("attending", 0 - Confirmed(rsvps[pair]))>>})
     /\ UNCHANGED <<marks, comments, stats, processed, projs, erased, clock, faults>>

CreateComment(c, id) ==
  /\ "comments" \in Kinds
  /\ Requesting(c)
  /\ comments[id] = NoComment
  /\ comments' = [comments EXCEPT ![id] =
                    [event |-> txs[c].event, author |-> txs[c].user, live |-> TRUE]]
  /\ Emit(c, {<<txs[c].event, Change("comments", 1)>>})
  /\ UNCHANGED <<marks, rsvps, stats, processed, projs, erased, clock, faults>>

(* deleteOwned: of two deletions of a comment, the second finds nothing. *)
DeleteComment(c, id) ==
  /\ Requesting(c)
  /\ comments[id].event = txs[c].event
  /\ comments[id].author = txs[c].user
  /\ comments' = [comments EXCEPT ![id].live = FALSE]
  /\ Emit(c, IF comments[id].live THEN {<<txs[c].event, Change("comments", -1)>>} ELSE {})
  /\ UNCHANGED <<marks, rsvps, stats, processed, projs, erased, clock, faults>>

(* anonymizeDomainData: all the user's engagement goes, and one outbox row  *)
(* per event takes it off the counters.                                     *)
EraseEngagement(c) ==
  LET u == txs[c].user
      Lost(e, k) == CASE k \in Marks     -> IF <<e, u>> \in marks[k] THEN 1 ELSE 0
                      [] k = "attending" -> Confirmed(rsvps[<<e, u>>])
                      [] k = "comments"  -> Cardinality({id \in Comments :
                                              /\ comments[id].event = e
                                              /\ comments[id].author = u
                                              /\ comments[id].live})
      affected == {e \in Events : \E k \in Kinds : Lost(e, k) > 0}
  IN /\ txs[c].pc = "open"
     /\ txs[c].erasing
     /\ marks' = [k \in Marks |-> {p \in marks[k] : p[2] # u}]
     /\ rsvps' = [p \in Events \X Users |-> IF p[2] = u THEN "NONE" ELSE rsvps[p]]
     /\ comments' = [id \in Comments |-> IF comments[id].author = u
                                         THEN [comments[id] EXCEPT !.live = FALSE]
                                         ELSE comments[id]]
     /\ Emit(c, {<<e, [k \in Kinds |-> 0 - Lost(e, k)]>> : e \in affected})
     /\ UNCHANGED <<stats, processed, projs, erased, clock, faults>>

(* Any error rolls the transaction back. *)
Rollback(c) ==
  /\ txs[c].pc # "idle"
  /\ txs' = [txs EXCEPT ![c] = NoTx]
  /\ UNCHANGED <<marks, rsvps, comments, stats, pending, processed, projs, erased, clock, faults>>

-----------------------------------------------------------------------------
(* projectNextBatch: one statement in one transaction. *)

Start(p) ==
  /\ projs[p].pc = "idle"
  /\ pending # {}
  /\ projs' = [projs EXCEPT ![p] = [NoProj EXCEPT !.pc = "scanning", !.seen = pending,
                                                  !.todo = pending]]
  /\ UNCHANGED <<marks, rsvps, comments, stats, pending, processed, txs, erased, clock, faults>>

LockedByOther(p, r) == \E q \in Projectors \ {p} : r \in projs[q].rows

(* Mutants: rows locked by another projector are not skipped; the row is not *)
(* looked at again once it is locked.                                        *)
TakesLocked(p, r) == r \in pending
TakesProcessed(p, r) == ~LockedByOther(p, r)

(* FOR UPDATE SKIP LOCKED looks at the row as it is now. *)
Takes(p, r) == r \in pending /\ ~LockedByOther(p, r)

ScanRow(p, r) ==
  /\ projs[p].pc = "scanning"
  /\ r \in projs[p].todo
  /\ Cardinality(projs[p].rows) < CandidateLimit
  /\ \A q \in projs[p].todo : r.at <= q.at
  /\ projs' = [projs EXCEPT ![p].todo = @ \ {r},
                            ![p].rows = IF Takes(p, r) THEN @ \cup {r} ELSE @]
  /\ UNCHANGED <<marks, rsvps, comments, stats, pending, processed, txs, erased, clock, faults>>

ScanEnds(p) ==
  /\ projs[p].pc = "scanning"
  /\ projs[p].todo = {} \/ Cardinality(projs[p].rows) = CandidateLimit
  /\ projs' = [projs EXCEPT ![p].pc = "locking", ![p].todo = {}]
  /\ UNCHANGED <<marks, rsvps, comments, stats, pending, processed, txs, erased, clock, faults>>

Aggregates(p) == {r.event : r \in projs[p].rows}

(* Mutant: no look at the rows left out before the first candidate. *)
InOrderAnyway(p, e) == e \in Aggregates(p)

(* The aggregate's first candidate is its first pending row, as far as the  *)
(* statement sees.                                                          *)
InOrder(p, e) ==
  \E r \in Of(e, projs[p].rows) : \A q \in Of(e, projs[p].seen) : r.at <= q.at

LockAggregate(p, e) ==
  /\ projs[p].pc = "locking"
  /\ e \in Aggregates(p) \ projs[p].tried
  /\ projs' = [projs EXCEPT ![p].tried = @ \cup {e},
       ![p].held = IF InOrder(p, e) /\ \A q \in Projectors : e \notin projs[q].held
                   THEN @ \cup {e} ELSE @]
  /\ UNCHANGED <<marks, rsvps, comments, stats, pending, processed, txs, erased, clock, faults>>

(* Mutants: the counter forgets what it was; losses are dropped. *)
ProjectedAfresh(e, k, rows) == Total(k, Of(e, rows))
ProjectedGains(e, k, rows) == stats[e][k] + Max({0, Total(k, Of(e, rows))})

(* greatest(0, ...) *)
Projected(e, k, rows) == Max({0, stats[e][k] + Total(k, Of(e, rows))})

(* Counters and acknowledgement are committed together. *)
Commit(p, batch) ==
  /\ projs[p].pc = "locking"
  /\ projs[p].tried = Aggregates(p)
  /\ batch \in FirstRows({r \in projs[p].rows : r.event \in projs[p].held}, BatchLimit)
  /\ stats' = [e \in Events |-> [k \in Kinds |->
                 IF Of(e, batch) = {} THEN stats[e][k] ELSE Projected(e, k, batch)]]
  /\ pending' = pending \ batch
  /\ processed' = processed \cup batch
  /\ projs' = [projs EXCEPT ![p] = NoProj]
  /\ UNCHANGED <<marks, rsvps, comments, txs, erased, clock, faults>>

(* A statement timeout, a lost connection, a crash: nothing is committed. *)
ProjectionFails(p) ==
  /\ projs[p].pc # "idle"
  /\ faults < MaxFaults
  /\ faults' = faults + 1
  /\ projs' = [projs EXCEPT ![p] = NoProj]
  /\ UNCHANGED <<marks, rsvps, comments, stats, pending, processed, txs, erased, clock>>

(* cleanupProcessedOutbox, a retention period after the acknowledgement. *)
Cleanup(rows) ==
  /\ rows # {}
  /\ rows \subseteq processed
  /\ processed' = processed \ rows
  /\ UNCHANGED <<marks, rsvps, comments, stats, pending, txs, projs, erased, clock, faults>>

-----------------------------------------------------------------------------
ClientStep(c) ==
  \/ \E u \in Users, e \in Events, erasing \in BOOLEAN : Begin(c, u, e, erasing)
  \/ \E k \in Marks, on \in BOOLEAN : SetMark(c, k, on)
  \/ \E status \in Rsvp \ {"NONE"} : InsertRsvp(c, status) \/ ChangeRsvp(c, status)
  \/ RsvpExists(c)
  \/ CancelRsvp(c)
  \/ \E id \in Comments : CreateComment(c, id) \/ DeleteComment(c, id)
  \/ EraseEngagement(c)
  \/ Rollback(c)

ProjectorStep(p) ==
  \/ Start(p)
  \/ \E r \in projs[p].todo : ScanRow(p, r)
  \/ ScanEnds(p)
  \/ \E e \in Events : LockAggregate(p, e)
  \/ \E batch \in SUBSET projs[p].rows : Commit(p, batch)

Next ==
  \/ \E c \in Clients : ClientStep(c)
  \/ \E p \in Projectors : ProjectorStep(p) \/ ProjectionFails(p)
  \/ \E rows \in SUBSET processed : Cleanup(rows)

Spec == Init /\ [][Next]_vars

(* A projector's timer keeps ticking, and its statements end. *)
Fairness == \A p \in Projectors : WF_vars(ProjectorStep(p))

FairSpec == Spec /\ Fairness

-----------------------------------------------------------------------------
(* Properties. *)

(* The shape of the tables and of the statements in progress. *)
TablesOK ==
  /\ marks \in [Marks -> SUBSET (Events \X Users)]
  /\ rsvps \in [Events \X Users -> Rsvp]
  /\ comments \in [Comments -> Comment]
  /\ pending \subseteq Row
  /\ processed \subseteq Row
  /\ txs \in [Clients -> Tx]
  /\ projs \in [Projectors -> Proj]
  /\ erased \subseteq Users
  /\ clock \in 0 .. MaxTx
  /\ faults \in 0 .. MaxFaults

(* ... and the checks of event_stats: no counter is negative. *)
TypeOK == TablesOK /\ stats \in [Events -> [Kinds -> Nat]]

(* A row claimed by a projection is still to be applied, and no other       *)
(* projection has it: SKIP LOCKED and the second look at a locked row keep  *)
(* replicas with different snapshots apart.                                 *)
ClaimedOnce ==
  \A p \in Projectors :
    /\ projs[p].rows \subseteq pending
    /\ \A q \in Projectors \ {p} : /\ projs[p].rows \cap projs[q].rows = {}
                                  /\ projs[p].held \cap projs[q].held = {}

(* Whatever replicas hold and skip, a counter never ends below the rows     *)
(* there are: no gain is lost and no loss applied twice, and what a loss    *)
(* that comes too early is denied by greatest(0, ...) only adds.            *)
CountersCover ==
  \A e \in Events, k \in Kinds : stats[e][k] + Total(k, Of(e, pending)) >= Actual(e, k)

(* What a counter and its pending rows show beyond the rows there are. *)
Excess(e, k) == stats[e][k] + Total(k, Of(e, pending)) - Actual(e, k)

(* greatest(0, ...) is all that makes a counter wrong: a repeated like, an  *)
(* RSVP changed under a pending request, a comment deleted twice, an erased *)
(* account, a failed or repeated projection and replicas that hold each     *)
(* other's rows keep counter and outbox in step with the tables.  Only a    *)
(* projection that leaves the counter at zero with a gain of the same event *)
(* still pending, that is one that has applied a loss too early, can add to *)
(* the difference, and nothing takes it back.                               *)
DriftNeedsAnEarlyLoss ==
  [][\A e \in Events, k \in Kinds : Excess(e, k)' # Excess(e, k) =>
       /\ Excess(e, k)' > Excess(e, k)
       /\ stats'[e][k] = 0
       /\ \E r \in Of(e, pending') : r.delta[k] > 0]_vars

(* While transactions do not overlap, no projection begins in the middle of *)
(* an event's rows: the oldest that is pending is among those applied, also *)
(* when another replica had locked it, or rows after it, in between.        *)
OldestGoesFirst ==
  [][\A r \in pending \ pending' :
       \E first \in Of(r.event, pending \ pending') :
         \A q \in Of(r.event, pending) : first.at <= q.at]_vars

(* README: the counters are eventually consistent.  Once every row has been *)
(* projected, they show the rows there are.                                 *)
CountersSettle ==
  pending = {} => \A e \in Events, k \in Kinds : stats[e][k] = Actual(e, k)

(* After the last request the counters show the rows there are. *)
CountersCatchUp == <>[](\A e \in Events, k \in Kinds : stats[e][k] = Actual(e, k))

=============================================================================
