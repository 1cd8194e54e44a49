-------------------------- MODULE EventStatsProofs --------------------------
(***************************************************************************)
(* Proofs about EventStats, for any number of users, events, connections   *)
(* and projectors and any limits: projections claim disjoint sets of rows, *)
(* each begins with the oldest of its event, no counter falls short of its *)
(* table, and only a loss that is applied too early parts the two.         *)
(***************************************************************************)
EXTENDS EventStats, FiniteSetTheorems, TLAPS

-----------------------------------------------------------------------------
(* Values. *)

LEMMA ChangeType == ASSUME NEW k, NEW n \in Int PROVE Change(k, n) \in Delta
BY DEF Change, Delta

LEMMA ConfirmedType == ASSUME NEW s PROVE Confirmed(s) \in Int
BY DEF Confirmed

LEMMA NoProjType == NoProj \in Proj
BY DEF NoProj, Proj

-----------------------------------------------------------------------------
(* The inductive invariant. *)

(* An open transaction has a time, a user and an event. *)
TxOK ==
  \A c \in Clients : txs[c].pc # "idle" =>
    /\ txs[c].at \in 1 .. MaxTx
    /\ txs[c].user \in Users
    /\ txs[c].event \in Events

Inv == TablesOK /\ TxOK /\ ClaimedOnce

(* What the projections rely on: nobody but a projector takes rows away. *)
KeepsClaims == UNCHANGED projs /\ pending \subseteq pending'

LEMMA KeepClaims == ASSUME ClaimedOnce, KeepsClaims PROVE ClaimedOnce'
BY DEF ClaimedOnce, KeepsClaims

LEMMA InitInv == Init => Inv
<1> SUFFICES ASSUME Init PROVE Inv
  OBVIOUS
<1>1. NoTx \in Tx /\ NoComment \in Comment
  BY StatsAssumption DEF NoTx, Tx, NoComment, Comment, StatsAssumption
<1>2. TablesOK
  BY <1>1, NoProjType, StatsAssumption DEF Init, TablesOK, Rsvp, StatsAssumption
<1>3. TxOK
  BY DEF Init, TxOK, NoTx
<1>4. ClaimedOnce
  BY DEF Init, ClaimedOnce, NoProj
<1>5. QED
  BY <1>2, <1>3, <1>4 DEF Inv

(* The end of a transaction: well-formed rows are appended. *)
LEMMA EmitType ==
  ASSUME Inv, NEW c \in Clients, txs[c].pc # "idle",
         NEW deltas \in SUBSET (Events \X Delta), Emit(c, deltas)
  PROVE  /\ pending' \subseteq Row
         /\ pending \subseteq pending'
         /\ txs' \in [Clients -> Tx]
         /\ TxOK'
<1>1. \A d \in deltas : [at |-> txs[c].at, event |-> d[1], delta |-> d[2]] \in Row
  BY DEF Inv, TxOK, Row
<1>2. pending \subseteq Row /\ txs \in [Clients -> Tx]
  BY DEF Inv, TablesOK
<1>3. NoTx \in Tx
  BY StatsAssumption DEF NoTx, Tx, StatsAssumption
<1>4. txs' \in [Clients -> Tx]
  BY <1>2, <1>3 DEF Emit
<1>5. \A d \in Clients : txs'[d] = txs[d] \/ txs'[d] = NoTx
  BY <1>2 DEF Emit
<1>6. TxOK'
  BY <1>5 DEF Inv, TxOK, NoTx
<1>7. QED
  BY <1>1, <1>2, <1>4, <1>6 DEF Emit

LEMMA BeginInv ==
  ASSUME Inv, NEW c \in Clients, NEW u \in Users, NEW e \in Events, NEW erasing \in BOOLEAN,
         Begin(c, u, e, erasing)
  PROVE  Inv'
<1> DEFINE new == [pc |-> "open", user |-> u, at |-> clock + 1, event |-> e, erasing |-> erasing]
<1>1. txs \in [Clients -> Tx] /\ clock \in 0 .. MaxTx /\ clock + 1 \in 1 .. MaxTx
  BY StatsAssumption DEF Begin, Inv, TablesOK, StatsAssumption
<1>2. new \in Tx
  BY <1>1 DEF Tx
<1>3. txs' = [txs EXCEPT ![c] = new]
  BY DEF Begin
<1>4. TablesOK'
  BY <1>1, <1>2, <1>3 DEF Begin, Inv, TablesOK
<1>5. TxOK'
  BY <1>1, <1>3 DEF Inv, TxOK
<1>6. ClaimedOnce'
  BY KeepClaims DEF Begin, Inv, KeepsClaims
<1>7. QED
  BY <1>4, <1>5, <1>6 DEF Inv

LEMMA MarkInv ==
  ASSUME Inv, NEW c \in Clients, NEW k \in Marks, NEW on \in BOOLEAN, SetMark(c, k, on)
  PROVE  Inv'
<1> DEFINE e == txs[c].event
           n == IF on THEN 1 ELSE -1
           changed == (<<e, txs[c].user>> \in marks[k]) # on
           deltas == IF changed THEN {<<e, Change(k, n)>>} ELSE {}
<1>1. txs[c].pc # "idle" /\ e \in Events /\ txs[c].user \in Users
  BY DEF SetMark, Requesting, Inv, TxOK
<1>2. Change(k, n) \in Delta
  BY ChangeType
<1>3. deltas \in SUBSET (Events \X Delta)
  BY <1>1, <1>2
<1>4. Emit(c, deltas)
  BY DEF SetMark
<1>5. marks' \in [Marks -> SUBSET (Events \X Users)]
  BY <1>1 DEF SetMark, Inv, TablesOK
<1>6. /\ pending' \subseteq Row
      /\ pending \subseteq pending'
      /\ txs' \in [Clients -> Tx]
      /\ TxOK'
  BY <1>1, <1>3, <1>4, EmitType
<1>7. QED
  BY <1>5, <1>6, KeepClaims DEF SetMark, Inv, TablesOK, KeepsClaims

LEMMA RsvpInv ==
  ASSUME Inv, NEW c \in Clients, NEW status \in Rsvp \ {"NONE"},
         InsertRsvp(c, status) \/ ChangeRsvp(c, status) \/ CancelRsvp(c) \/ RsvpExists(c)
  PROVE  Inv'
<1> DEFINE e == txs[c].event
           pair == <<e, txs[c].user>>
<1>1. txs[c].pc # "idle" /\ e \in Events /\ txs[c].user \in Users
  BY DEF InsertRsvp, ChangeRsvp, CancelRsvp, RsvpExists, Requesting, Inv, TxOK
<1>2. \A n \in Int : {<<e, Change("attending", n)>>} \in SUBSET (Events \X Delta)
  BY <1>1, ChangeType
<1>3. /\ Confirmed(status) \in Int
      /\ 0 - Confirmed(rsvps[pair]) \in Int
      /\ Confirmed(status) - Confirmed(rsvps[pair]) \in Int
  BY ConfirmedType
<1>4. {} \in SUBSET (Events \X Delta)
  OBVIOUS
<1>5. ASSUME NEW deltas \in SUBSET (Events \X Delta), Emit(c, deltas),
             rsvps' \in [Events \X Users -> Rsvp],
             UNCHANGED <<marks, comments, processed, projs, erased, clock, faults>>
      PROVE  Inv'
  <2>1. /\ pending' \subseteq Row
        /\ pending \subseteq pending'
        /\ txs' \in [Clients -> Tx]
        /\ TxOK'
    BY <1>1, <1>5, EmitType
  <2>2. QED
    BY <1>5, <2>1, KeepClaims DEF Inv, TablesOK, KeepsClaims
<1>6. \A st \in Rsvp : [rsvps EXCEPT ![pair] = st] \in [Events \X Users -> Rsvp]
  BY <1>1 DEF Inv, TablesOK
<1>7. rsvps \in [Events \X Users -> Rsvp] /\ "NONE" \in Rsvp
  BY DEF Inv, TablesOK, Rsvp
<1>8. CASE InsertRsvp(c, status)
  <2>1. rsvps' \in [Events \X Users -> Rsvp]
    BY <1>6, <1>8 DEF InsertRsvp
  <2>2. Emit(c, {<<e, Change("attending", Confirmed(status))>>})
    BY <1>8 DEF InsertRsvp
  <2>3. QED
    BY <1>2, <1>3, <1>5, <1>8, <2>1, <2>2 DEF InsertRsvp
<1>9. CASE ChangeRsvp(c, status)
  <2>1. CASE rsvps[pair] \in {"NONE", status}
    <3>1. Emit(c, {}) /\ UNCHANGED rsvps
      BY <1>9, <2>1 DEF ChangeRsvp
    <3>2. QED
      BY <1>4, <1>5, <1>7, <1>9, <3>1 DEF ChangeRsvp
  <2>2. CASE ~(rsvps[pair] \in {"NONE", status})
    <3>1. /\ rsvps' = [rsvps EXCEPT ![pair] = status]
          /\ Emit(c, {<<e, Change("attending", Confirmed(status) - Confirmed(rsvps[pair]))>>})
      BY <1>9, <2>2 DEF ChangeRsvp
    <3>2. QED
      BY <1>2, <1>3, <1>5, <1>6, <1>9, <3>1 DEF ChangeRsvp
  <2>3. QED
    BY <2>1, <2>2
<1>10. CASE CancelRsvp(c)
  <2> DEFINE deltas == IF rsvps[pair] = "NONE" THEN {}
                       ELSE {<<e, Change("attending", 0 - Confirmed(rsvps[pair]))>>}
  <2>1. deltas \in SUBSET (Events \X Delta)
    BY <1>2, <1>3
  <2>2. rsvps' \in [Events \X Users -> Rsvp]
    BY <1>6, <1>7, <1>10 DEF CancelRsvp
  <2>3. Emit(c, deltas)
    BY <1>10 DEF CancelRsvp
  <2>4. QED
    BY <1>5, <1>10, <2>1, <2>2, <2>3 DEF CancelRsvp
<1>11. CASE RsvpExists(c)
  <2>1. txs' = [txs EXCEPT ![c].pc = "exists"]
    BY <1>11 DEF RsvpExists
  <2>2. txs' \in [Clients -> Tx]
    <3>1. [txs[c] EXCEPT !.pc = "exists"] \in Tx
      BY DEF Inv, TablesOK, Tx
    <3>2. QED
      BY <2>1, <3>1 DEF Inv, TablesOK
  <2>3. TxOK'
    BY <1>1, <2>1 DEF Inv, TxOK, TablesOK, Tx
  <2>4. QED
    BY <1>11, <2>2, <2>3, KeepClaims DEF RsvpExists, Inv, TablesOK, KeepsClaims
<1>12. QED
  BY <1>8, <1>9, <1>10, <1>11

LEMMA CommentInv ==
  ASSUME Inv, NEW c \in Clients, NEW id \in Comments, CreateComment(c, id) \/ DeleteComment(c, id)
  PROVE  Inv'
<1>1. /\ txs[c].pc # "idle"
      /\ txs[c].event \in Events
      /\ txs[c].user \in Users
  BY DEF CreateComment, DeleteComment, Requesting, Inv, TxOK
<1>2. /\ {<<txs[c].event, Change("comments", 1)>>} \in SUBSET (Events \X Delta)
      /\ {<<txs[c].event, Change("comments", -1)>>} \in SUBSET (Events \X Delta)
  BY <1>1, ChangeType
<1>3. PICK deltas \in SUBSET (Events \X Delta) : Emit(c, deltas)
  <2>1. CASE CreateComment(c, id)
    BY <1>2, <2>1 DEF CreateComment
  <2>2. CASE DeleteComment(c, id)
    BY <1>2, <2>2 DEF DeleteComment
  <2>3. QED
    BY <2>1, <2>2
<1>4. /\ pending' \subseteq Row
      /\ pending \subseteq pending'
      /\ txs' \in [Clients -> Tx]
      /\ TxOK'
  BY <1>1, <1>3, EmitType
<1>5. comments' \in [Comments -> Comment]
  <2>1. comments \in [Comments -> Comment]
    BY DEF Inv, TablesOK
  <2>2. CASE CreateComment(c, id)
    <3>1. [event |-> txs[c].event, author |-> txs[c].user, live |-> TRUE] \in Comment
      BY <1>1 DEF Comment
    <3>2. QED
      BY <2>1, <2>2, <3>1 DEF CreateComment
  <2>3. CASE DeleteComment(c, id)
    <3>1. [comments[id] EXCEPT !.live = FALSE] \in Comment
      BY <2>1 DEF Comment
    <3>2. QED
      BY <2>1, <2>3, <3>1 DEF DeleteComment
  <2>4. QED
    BY <2>2, <2>3
<1>6. QED
  BY <1>4, <1>5, KeepClaims DEF CreateComment, DeleteComment, Inv, TablesOK, KeepsClaims

LEMMA EraseInv ==
  ASSUME Inv, NEW c \in Clients, EraseEngagement(c)
  PROVE  Inv'
<1> DEFINE u == txs[c].user
           Left(e) == {id \in Comments : /\ comments[id].event = e
                                         /\ comments[id].author = u
                                         /\ comments[id].live}
           Lost(e, k) == CASE k \in Marks     -> IF <<e, u>> \in marks[k] THEN 1 ELSE 0
                           [] k = "attending" -> Confirmed(rsvps[<<e, u>>])
                           [] k = "comments"  -> Cardinality(Left(e))
           affected == {e \in Events : \E k \in Kinds : Lost(e, k) > 0}
           deltas == {<<e, [k \in Kinds |-> 0 - Lost(e, k)]>> : e \in affected}
<1>1. ASSUME NEW e \in Events, NEW k \in Kinds PROVE 0 - Lost(e, k) \in Int
  <2>1. Cardinality(Left(e)) \in Nat
    BY FS_Subset, FS_CardinalityType, StatsAssumption DEF StatsAssumption
  <2>2. k \in Marks \/ k = "attending" \/ k = "comments"
    BY StatsAssumption DEF StatsAssumption, AllKinds, Marks
  <2>3. k \in Marks => k # "attending" /\ k # "comments"
    BY DEF Marks
  <2>4. CASE k \in Marks
    BY <2>3, <2>4
  <2>5. CASE k = "attending"
    BY <2>3, <2>5, ConfirmedType
  <2>6. CASE k = "comments"
    BY <2>1, <2>3, <2>6
  <2>7. QED
    BY <2>2, <2>4, <2>5, <2>6
<1>2. \A e \in Events : [k \in Kinds |-> 0 - Lost(e, k)] \in Delta
  BY <1>1 DEF Delta
<1>3. deltas \in SUBSET (Events \X Delta)
  <2> HIDE DEF Lost
  <2>1. QED
    BY <1>2
<1>4. Emit(c, deltas)
  BY DEF EraseEngagement
<1>5. /\ pending' \subseteq Row
      /\ pending \subseteq pending'
      /\ txs' \in [Clients -> Tx]
      /\ TxOK'
  BY <1>3, <1>4, EmitType DEF EraseEngagement
<1>6. marks' \in [Marks -> SUBSET (Events \X Users)]
  BY DEF EraseEngagement, Inv, TablesOK
<1>7. rsvps' \in [Events \X Users -> Rsvp]
  BY DEF EraseEngagement, Inv, TablesOK, Rsvp
<1>8. comments' \in [Comments -> Comment]
  <2>1. \A id \in Comments : [comments[id] EXCEPT !.live = FALSE] \in Comment
    BY DEF Inv, TablesOK, Comment
  <2>2. QED
    BY <2>1 DEF EraseEngagement, Inv, TablesOK
<1>9. QED
  BY <1>5, <1>6, <1>7, <1>8, KeepClaims DEF EraseEngagement, Inv, TablesOK, KeepsClaims

LEMMA RollbackInv ==
  ASSUME Inv, NEW c \in Clients, Rollback(c)
  PROVE  Inv'
<1>1. NoTx \in Tx
  BY StatsAssumption DEF NoTx, Tx, StatsAssumption
<1>2. txs' \in [Clients -> Tx] /\ TxOK'
  BY <1>1 DEF Rollback, Inv, TablesOK, TxOK, NoTx
<1>3. QED
  BY <1>2, KeepClaims DEF Rollback, Inv, TablesOK, KeepsClaims

-----------------------------------------------------------------------------
(* Projections. *)

(* One projector goes on; what it claims afterwards must be pending and no  *)
(* other projector's.                                                       *)
LEMMA ProjectorInv ==
  ASSUME Inv, NEW p \in Projectors, NEW new \in Proj,
         projs' = [projs EXCEPT ![p] = new], pending' = pending,
         new.rows \subseteq pending,
         \A q \in Projectors \ {p} : /\ new.rows \cap projs[q].rows = {}
                                   /\ new.held \cap projs[q].held = {}
  PROVE  projs' \in [Projectors -> Proj] /\ ClaimedOnce'
<1>1. projs \in [Projectors -> Proj]
  BY DEF Inv, TablesOK
<1>2. projs'[p] = new /\ \A q \in Projectors \ {p} : projs'[q] = projs[q]
  BY <1>1
<1>3. ASSUME NEW q \in Projectors
      PROVE  /\ projs'[q].rows \subseteq pending'
             /\ \A o \in Projectors \ {q} : /\ projs'[q].rows \cap projs'[o].rows = {}
                                           /\ projs'[q].held \cap projs'[o].held = {}
  <2>1. CASE q = p
    BY <1>2, <2>1
  <2>2. CASE q # p
    BY <1>2, <2>2 DEF Inv, ClaimedOnce
  <2>3. QED
    BY <2>1, <2>2
<1>4. QED
  BY <1>1, <1>3 DEF ClaimedOnce

(* A projector that has just started, or ended, claims nothing. *)
LEMMA StartInv ==
  ASSUME Inv, NEW p \in Projectors, Start(p) \/ ProjectionFails(p)
  PROVE  Inv'
<1>1. PICK new \in Proj : projs' = [projs EXCEPT ![p] = new] /\ new.rows = {} /\ new.held = {}
  <2>1. CASE Start(p)
    <3> DEFINE new == [NoProj EXCEPT !.pc = "scanning", !.seen = pending, !.todo = pending]
    <3>1. new \in Proj /\ new.rows = {} /\ new.held = {}
      BY NoProjType DEF NoProj, Proj, Inv, TablesOK
    <3>2. QED
      BY <2>1, <3>1 DEF Start
  <2>2. CASE ProjectionFails(p)
    BY <2>2, NoProjType DEF ProjectionFails, NoProj
  <2>3. QED
    BY <2>1, <2>2
<1>2. projs' \in [Projectors -> Proj] /\ ClaimedOnce'
  <2>1. pending' = pending
    BY DEF Start, ProjectionFails
  <2>2. QED
    BY <1>1, <2>1, ProjectorInv
<1>3. faults' \in 0 .. MaxFaults
  BY StatsAssumption DEF Start, ProjectionFails, Inv, TablesOK, StatsAssumption
<1>4. QED
  BY <1>2, <1>3 DEF Start, ProjectionFails, Inv, TablesOK, TxOK

LEMMA ScanInv ==
  ASSUME Inv, NEW p \in Projectors, NEW r \in projs[p].todo, ScanRow(p, r)
  PROVE  Inv'
<1> DEFINE rows == IF Takes(p, r) THEN projs[p].rows \cup {r} ELSE projs[p].rows
           new == [projs[p] EXCEPT !.todo = @ \ {r}, !.rows = rows]
<1>1. projs \in [Projectors -> Proj] /\ projs[p] \in Proj /\ r \in Row
  BY DEF Inv, TablesOK, Proj
<1>2. projs' = [projs EXCEPT ![p] = new]
  BY <1>1 DEF ScanRow, Proj
<1>3. /\ new \in Proj
      /\ new.rows = rows
      /\ new.held = projs[p].held
  BY <1>1 DEF Proj
<1>4. rows \subseteq pending
  BY DEF Takes, Inv, ClaimedOnce
<1>5. \A q \in Projectors \ {p} : /\ rows \cap projs[q].rows = {}
                                /\ projs[p].held \cap projs[q].held = {}
  BY DEF Takes, LockedByOther, Inv, ClaimedOnce
<1>6. pending' = pending
  BY DEF ScanRow
<1>7. projs' \in [Projectors -> Proj] /\ ClaimedOnce'
  <2> HIDE DEF rows, new
  <2>1. /\ new.rows \subseteq pending
        /\ \A q \in Projectors \ {p} : /\ new.rows \cap projs[q].rows = {}
                                      /\ new.held \cap projs[q].held = {}
    BY <1>3, <1>4, <1>5
  <2>2. QED
    BY <1>2, <1>3, <1>6, <2>1, ProjectorInv
<1>8. QED
  BY <1>7 DEF ScanRow, Inv, TablesOK, TxOK

LEMMA ScanEndsInv ==
  ASSUME Inv, NEW p \in Projectors, ScanEnds(p)
  PROVE  Inv'
<1> DEFINE new == [projs[p] EXCEPT !.pc = "locking", !.todo = {}]
<1>1. projs \in [Projectors -> Proj] /\ projs[p] \in Proj
  BY DEF Inv, TablesOK
<1>2. projs' = [projs EXCEPT ![p] = new]
  BY <1>1 DEF ScanEnds, Proj
<1>3. /\ new \in Proj
      /\ new.rows = projs[p].rows
      /\ new.held = projs[p].held
  BY <1>1 DEF Proj
<1>4. pending' = pending
  BY DEF ScanEnds
<1>5. projs' \in [Projectors -> Proj] /\ ClaimedOnce'
  <2>1. /\ new.rows \subseteq pending
        /\ \A q \in Projectors \ {p} : /\ new.rows \cap projs[q].rows = {}
                                      /\ new.held \cap projs[q].held = {}
    BY <1>3 DEF Inv, ClaimedOnce
  <2> HIDE DEF new
  <2>2. QED
    BY <1>2, <1>3, <1>4, <2>1, ProjectorInv
<1>6. QED
  BY <1>5 DEF ScanEnds, Inv, TablesOK, TxOK

LEMMA LockInv ==
  ASSUME Inv, NEW p \in Projectors, NEW e \in Events, LockAggregate(p, e)
  PROVE  Inv'
<1> DEFINE held == IF InOrder(p, e) /\ \A q \in Projectors : e \notin projs[q].held
                   THEN projs[p].held \cup {e} ELSE projs[p].held
           new == [projs[p] EXCEPT !.tried = @ \cup {e}, !.held = held]
<1>1. projs \in [Projectors -> Proj] /\ projs[p] \in Proj
  BY DEF Inv, TablesOK
<1>2. projs' = [projs EXCEPT ![p] = new]
  BY <1>1 DEF LockAggregate, Proj
<1>3. /\ new \in Proj
      /\ new.rows = projs[p].rows
      /\ new.held = held
  BY <1>1 DEF Proj
<1>4. \A q \in Projectors \ {p} : /\ projs[p].rows \cap projs[q].rows = {}
                                /\ held \cap projs[q].held = {}
  BY DEF Inv, ClaimedOnce
<1>5. projs[p].rows \subseteq pending /\ pending' = pending
  BY DEF LockAggregate, Inv, ClaimedOnce
<1>6. projs' \in [Projectors -> Proj] /\ ClaimedOnce'
  <2>1. /\ new \in Proj
        /\ new.rows \subseteq pending
        /\ \A q \in Projectors \ {p} : /\ new.rows \cap projs[q].rows = {}
                                      /\ new.held \cap projs[q].held = {}
    BY <1>3, <1>4, <1>5
  <2> HIDE DEF held, new
  <2>2. QED
    BY <1>2, <1>5, <2>1, ProjectorInv
<1>7. QED
  BY <1>6 DEF LockAggregate, Inv, TablesOK, TxOK

(* The rows a projection acknowledges are its own: the others keep theirs. *)
LEMMA CommitInv ==
  ASSUME Inv, NEW p \in Projectors, NEW batch \in SUBSET projs[p].rows, Commit(p, batch)
  PROVE  Inv'
<1>1. projs' = [projs EXCEPT ![p] = NoProj] /\ pending' = pending \ batch
  BY DEF Commit
<1>2. projs \in [Projectors -> Proj] /\ batch \subseteq pending
  BY DEF Inv, TablesOK, ClaimedOnce
<1>3. TablesOK'
  BY <1>1, <1>2, NoProjType DEF Commit, Inv, TablesOK
<1>4. ASSUME NEW q \in Projectors
      PROVE  /\ projs[q]'.rows \subseteq pending'
             /\ projs[q]' = IF q = p THEN NoProj ELSE projs[q]
  BY <1>1, <1>2 DEF Inv, ClaimedOnce, NoProj
<1>5. ClaimedOnce'
  BY <1>4 DEF Inv, ClaimedOnce, NoProj
<1>6. QED
  BY <1>3, <1>5 DEF Commit, Inv, TxOK

-----------------------------------------------------------------------------
LEMMA NextInv == Inv /\ [Next]_vars => Inv'
<1> SUFFICES ASSUME Inv, [Next]_vars PROVE Inv'
  OBVIOUS
<1>1. ASSUME NEW c \in Clients, ClientStep(c) PROVE Inv'
  <2>1. CASE \E status \in Rsvp \ {"NONE"} : InsertRsvp(c, status) \/ ChangeRsvp(c, status)
    BY <2>1, RsvpInv
  <2>2. CASE RsvpExists(c) \/ CancelRsvp(c)
    <3>1. "MAYBE" \in Rsvp \ {"NONE"}
      BY DEF Rsvp
    <3>2. QED
      BY <2>2, <3>1, RsvpInv
  <2>3. QED
    BY <1>1, <2>1, <2>2, BeginInv, MarkInv, CommentInv, EraseInv, RollbackInv DEF ClientStep
<1>2. ASSUME NEW p \in Projectors, ProjectorStep(p) \/ ProjectionFails(p) PROVE Inv'
  BY <1>2, StartInv, ScanInv, ScanEndsInv, LockInv, CommitInv DEF ProjectorStep
<1>3. ASSUME NEW rows \in SUBSET processed, Cleanup(rows) PROVE Inv'
  BY <1>3, KeepClaims DEF Cleanup, Inv, TablesOK, TxOK, KeepsClaims
<1>4. CASE UNCHANGED vars
  BY <1>4, KeepClaims DEF vars, Inv, TablesOK, TxOK, KeepsClaims
<1>5. QED
  BY <1>1, <1>2, <1>3, <1>4 DEF Next

(* Whatever the number of projectors and the order of their steps, no row   *)
(* is in the hands of two projections, none of those that one holds has     *)
(* been applied yet, and no two of them work on one event's counters.       *)
THEOREM ProjectionsAreDisjoint == Spec => []ClaimedOnce
<1>1. Inv => ClaimedOnce
  BY DEF Inv
<1>2. QED
  BY <1>1, InitInv, NextInv, PTL DEF Spec

-----------------------------------------------------------------------------
(* The order in which projections apply rows.                              *)

OneAtATime ==
  \A c, d \in Clients : txs[c].pc # "idle" /\ txs[d].pc # "idle" => c = d

\* An open transaction is the last that began, and every row told so far is
\* of an earlier one.
TimesOK ==
  /\ \A r \in pending : r.at <= clock
  /\ \A p \in Projectors : \A r \in projs[p].seen : r.at <= clock
  /\ \A c \in Clients : txs[c].pc # "idle" =>
       /\ txs[c].at = clock
       /\ \A r \in pending : r.at < clock
       /\ \A p \in Projectors : \A r \in projs[p].seen : r.at < clock

\* What is pending and not in a projection's snapshot is later than all that is.
SeenFirst ==
  \A p \in Projectors :
    /\ projs[p].todo \subseteq projs[p].seen
    /\ \A r \in projs[p].seen, q \in pending \ projs[p].seen : r.at < q.at

\* An aggregate is locked with its oldest row in hand.
HeldInOrder ==
  \A p \in Projectors :
    /\ projs[p].rows \subseteq projs[p].seen
    /\ \A e \in projs[p].held : InOrder(p, e)

Ordered == Inv /\ TimesOK /\ SeenFirst /\ HeldInOrder

\* What requests do to what the order is about.
Begins(c) ==
  /\ txs[c].pc = "idle"
  /\ clock' = clock + 1
  /\ pending' = pending
  /\ \E t \in Tx : t.at = clock + 1 /\ t.pc = "open" /\ txs' = [txs EXCEPT ![c] = t]

Goes(c) ==
  /\ txs[c].pc # "idle"
  /\ clock' = clock
  /\ pending' = pending
  /\ txs' = [txs EXCEPT ![c].pc = "exists"]

Ends(c) ==
  /\ txs[c].pc # "idle"
  /\ clock' = clock
  /\ pending \subseteq pending'
  /\ \A q \in pending' \ pending : q.at = txs[c].at
  /\ txs' = [txs EXCEPT ![c] = NoTx]

LEMMA EmitEnds ==
  ASSUME NEW c \in Clients, txs[c].pc # "idle", NEW deltas, Emit(c, deltas), clock' = clock
  PROVE  Ends(c)
BY DEF Emit, Ends

LEMMA RequestSteps ==
  ASSUME Inv, NEW c \in Clients, ClientStep(c)
  PROVE  projs' = projs /\ (Begins(c) \/ Goes(c) \/ Ends(c))
<1>1. ASSUME NEW u \in Users, NEW e \in Events, NEW erasing \in BOOLEAN, Begin(c, u, e, erasing)
      PROVE  projs' = projs /\ Begins(c)
  <2> DEFINE t == [pc |-> "open", user |-> u, at |-> clock + 1, event |-> e, erasing |-> erasing]
  <2>1. clock + 1 \in 0 .. MaxTx
    BY <1>1, StatsAssumption DEF Begin, Inv, TablesOK, StatsAssumption
  <2>2. t \in Tx /\ t.at = clock + 1 /\ t.pc = "open" /\ txs' = [txs EXCEPT ![c] = t]
    BY <1>1, <2>1 DEF Begin, Tx
  <2> HIDE DEF t
  <2>3. QED
    BY <1>1, <2>2 DEF Begin, Begins
<1>2. ASSUME NEW k \in Marks, NEW on \in BOOLEAN, SetMark(c, k, on)
      PROVE  projs' = projs /\ Ends(c)
  BY <1>2, EmitEnds DEF SetMark, Requesting
<1>3. ASSUME NEW status, InsertRsvp(c, status) PROVE projs' = projs /\ Ends(c)
  BY <1>3, EmitEnds DEF InsertRsvp, Requesting
<1>4. ASSUME NEW status, ChangeRsvp(c, status) PROVE projs' = projs /\ Ends(c)
  BY <1>4, EmitEnds DEF ChangeRsvp
<1>5. CASE RsvpExists(c)
  BY <1>5 DEF RsvpExists, Requesting, Goes
<1>6. CASE CancelRsvp(c)
  BY <1>6, EmitEnds DEF CancelRsvp, Requesting
<1>7. ASSUME NEW id \in Comments, CreateComment(c, id) PROVE projs' = projs /\ Ends(c)
  BY <1>7, EmitEnds DEF CreateComment, Requesting
<1>8. ASSUME NEW id \in Comments, DeleteComment(c, id) PROVE projs' = projs /\ Ends(c)
  BY <1>8, EmitEnds DEF DeleteComment, Requesting
<1>9. CASE EraseEngagement(c)
  BY <1>9, EmitEnds DEF EraseEngagement
<1>10. CASE Rollback(c)
  BY <1>10 DEF Rollback, Ends
<1>11. QED
  BY <1>1, <1>2, <1>3, <1>4, <1>5, <1>6, <1>7, <1>8, <1>9, <1>10 DEF ClientStep


LEMMA RequestsKeepTheOrder ==
  ASSUME Ordered, Inv', OneAtATime, OneAtATime', NEW c \in Clients, ClientStep(c)
  PROVE  Ordered'
<1>1. projs' = projs /\ (Begins(c) \/ Goes(c) \/ Ends(c))
  BY RequestSteps DEF Ordered
<1>2. /\ txs \in [Clients -> Tx] /\ clock \in Nat
      /\ \A r \in pending : r.at \in Nat
      /\ projs \in [Projectors -> Proj]
      /\ \A p \in Projectors : \A r \in projs[p].seen : r.at \in Nat
  BY StatsAssumption DEF Ordered, Inv, TablesOK, Proj, Row, StatsAssumption
<1>3. \A d \in Clients : txs[d].at \in Nat
  BY <1>2 DEF Tx
<1>4. CASE Begins(c)
  <2>1. PICK t \in Tx : t.at = clock + 1 /\ t.pc = "open" /\ txs' = [txs EXCEPT ![c] = t]
    BY <1>4 DEF Begins
  <2>2. clock' = clock + 1 /\ pending' = pending
    BY <1>4 DEF Begins
  <2>3. txs'[c] = t /\ \A d \in Clients \ {c} : txs'[d] = txs[d]
    BY <1>2, <2>1
  <2>4. \A d \in Clients : txs'[d].pc # "idle" => d = c
    BY <2>1, <2>3 DEF OneAtATime
  <2>5. TimesOK'
    <3>1. (\A r \in pending : r.at < clock + 1)
          /\ (\A p \in Projectors : \A r \in projs[p].seen : r.at < clock + 1)
      BY <1>2 DEF Ordered, TimesOK
    <3>2. (\A r \in pending : r.at <= clock + 1)
          /\ (\A p \in Projectors : \A r \in projs[p].seen : r.at <= clock + 1)
      BY <1>2, <3>1
    <3>3. QED
      BY <1>1, <2>1, <2>2, <2>3, <2>4, <3>1, <3>2 DEF TimesOK
  <2>6. SeenFirst' /\ HeldInOrder'
    BY <1>1, <2>2 DEF Ordered, SeenFirst, HeldInOrder, InOrder
  <2>7. QED
    BY <2>5, <2>6 DEF Ordered
<1>5. CASE Goes(c)
  <2>1. /\ txs[c].pc # "idle" /\ clock' = clock /\ pending' = pending
        /\ txs' = [txs EXCEPT ![c].pc = "exists"]
    BY <1>5 DEF Goes
  <2>2. \A d \in Clients : txs'[d].at = txs[d].at /\ (txs'[d].pc # "idle" => txs[d].pc # "idle")
    BY <1>2, <2>1 DEF Tx
  <2>3. TimesOK'
    BY <1>1, <2>1, <2>2 DEF Ordered, TimesOK
  <2>4. SeenFirst' /\ HeldInOrder'
    BY <1>1, <2>1 DEF Ordered, SeenFirst, HeldInOrder, InOrder
  <2>5. QED
    BY <2>3, <2>4 DEF Ordered
<1>6. CASE Ends(c)
  <2>1. /\ txs[c].pc # "idle" /\ clock' = clock /\ pending \subseteq pending'
        /\ \A q \in pending' \ pending : q.at = txs[c].at
        /\ txs' = [txs EXCEPT ![c] = NoTx]
    BY <1>6 DEF Ends
  <2>2. txs[c].at = clock /\ \A p \in Projectors : \A r \in projs[p].seen : r.at < clock
    BY <2>1 DEF Ordered, TimesOK
  <2>3. \A d \in Clients : txs'[d].pc # "idle" => d # c /\ txs'[d] = txs[d]
    BY <1>2, <2>1 DEF NoTx
  <2>4. \A d \in Clients : txs'[d].pc = "idle"
    <3>1. ASSUME NEW d \in Clients, txs'[d].pc # "idle" PROVE FALSE
      <4>1. d # c /\ txs'[d] = txs[d] /\ txs[d].pc # "idle" /\ txs[c].pc # "idle"
        BY <2>1, <2>3, <3>1
      <4>2. QED
        BY <4>1 DEF OneAtATime
    <3>2. QED
      BY <3>1
  <2>5. TimesOK'
    BY <1>1, <1>2, <2>1, <2>2, <2>4 DEF Ordered, TimesOK
  <2>6. SeenFirst'
    BY <1>1, <2>1, <2>2 DEF Ordered, SeenFirst
  <2>7. HeldInOrder'
    BY <1>1 DEF Ordered, HeldInOrder, InOrder
  <2>8. QED
    BY <2>5, <2>6, <2>7 DEF Ordered
<1>7. QED
  BY <1>1, <1>4, <1>5, <1>6

\* A projection goes on with the snapshot it has.
LEMMA ProjectionsKeepTheOrder ==
  ASSUME Ordered, Inv', NEW p \in Projectors, NEW new \in Proj,
         projs' = [projs EXCEPT ![p] = new], pending' \subseteq pending, UNCHANGED <<txs, clock>>,
         \/ new.seen = projs[p].seen
         \/ new.seen = {}
         \/ new.seen = pending /\ pending' = pending,
         new.todo \subseteq new.seen,
         new.rows \subseteq new.seen,
         \A e \in new.held : \E r \in Of(e, new.rows) : \A q \in Of(e, new.seen) : r.at <= q.at
  PROVE  Ordered'
<1>1. projs'[p] = new /\ \A o \in Projectors \ {p} : projs'[o] = projs[o]
  BY DEF Ordered, Inv, TablesOK
<1>2. TimesOK'
  BY <1>1 DEF Ordered, TimesOK
<1>3. SeenFirst'
  BY <1>1 DEF Ordered, SeenFirst
<1>4. ASSUME NEW o \in Projectors
      PROVE  /\ projs'[o].rows \subseteq projs'[o].seen
             /\ \A e \in projs'[o].held :
                  \E r \in Of(e, projs'[o].rows) : \A q \in Of(e, projs'[o].seen) : r.at <= q.at
  <2>1. CASE o = p
    BY <1>1, <2>1
  <2>2. CASE o # p
    BY <1>1, <2>2 DEF Ordered, HeldInOrder, InOrder
  <2>3. QED
    BY <2>1, <2>2
<1>5. HeldInOrder'
  BY <1>4 DEF HeldInOrder, InOrder
<1>6. QED
  BY <1>2, <1>3, <1>5 DEF Ordered

LEMMA ProjectorsKeepTheOrder ==
  ASSUME Ordered, Inv', NEW p \in Projectors, ProjectorStep(p) \/ ProjectionFails(p)
  PROVE  Ordered'
<1> DEFINE old == projs[p]
<1>1. projs \in [Projectors -> Proj] /\ old \in Proj
  BY DEF Ordered, Inv, TablesOK
<1>2. /\ old.todo \subseteq old.seen /\ old.rows \subseteq old.seen
      /\ \A e \in old.held : \E r \in Of(e, old.rows) : \A q \in Of(e, old.seen) : r.at <= q.at
  BY DEF Ordered, SeenFirst, HeldInOrder, InOrder
<1> HIDE DEF old
<1>3. NoProj \in Proj /\ NoProj.seen = {} /\ NoProj.todo = {} /\ NoProj.rows = {} /\ NoProj.held = {}
  BY NoProjType DEF NoProj
<1>4. CASE Start(p)
  <2> DEFINE new == [NoProj EXCEPT !.pc = "scanning", !.seen = pending, !.todo = pending]
  <2>1. /\ new \in Proj /\ new.seen = pending /\ new.todo = pending
        /\ new.rows = {} /\ new.held = {}
    BY NoProjType DEF NoProj, Proj, Ordered, Inv, TablesOK
  <2>2. projs' = [projs EXCEPT ![p] = new] /\ pending' = pending /\ UNCHANGED <<txs, clock>>
    BY <1>4 DEF Start
  <2> HIDE DEF new
  <2>3. QED
    BY <2>1, <2>2, ProjectionsKeepTheOrder
<1>5. ASSUME NEW r \in projs[p].todo, ScanRow(p, r) PROVE Ordered'
  <2> DEFINE rows == IF Takes(p, r) THEN old.rows \cup {r} ELSE old.rows
             new == [old EXCEPT !.todo = @ \ {r}, !.rows = rows]
  <2>1. /\ new.seen = old.seen /\ new.todo = old.todo \ {r} /\ new.rows = rows
        /\ new.held = old.held /\ r \in old.todo
    BY <1>1, <1>5 DEF Proj, old
  <2>2. rows \subseteq old.seen /\ old.rows \subseteq rows
    BY <1>2, <2>1
  <2>3. new \in Proj
    BY <1>1, <2>1, <2>2 DEF Proj
  <2>4. projs' = [projs EXCEPT ![p] = new] /\ pending' = pending /\ UNCHANGED <<txs, clock>>
    BY <1>1, <1>5 DEF ScanRow, Proj, old
  <2> HIDE DEF new, rows
  <2>5. \A e \in new.held : \E f \in Of(e, new.rows) : \A q \in Of(e, new.seen) : f.at <= q.at
    BY <1>2, <2>1, <2>2 DEF Of
  <2>6. QED
    BY <1>2, <2>1, <2>2, <2>3, <2>4, <2>5, ProjectionsKeepTheOrder DEF old
<1>6. CASE ScanEnds(p)
  <2> DEFINE new == [old EXCEPT !.pc = "locking", !.todo = {}]
  <2>1. /\ new \in Proj /\ new.seen = old.seen /\ new.todo = {} /\ new.rows = old.rows
        /\ new.held = old.held
    BY <1>1 DEF Proj
  <2>2. projs' = [projs EXCEPT ![p] = new] /\ pending' = pending /\ UNCHANGED <<txs, clock>>
    BY <1>1, <1>6 DEF ScanEnds, Proj, old
  <2> HIDE DEF new
  <2>3. QED
    BY <1>2, <2>1, <2>2, ProjectionsKeepTheOrder DEF old
<1>7. ASSUME NEW e \in Events, LockAggregate(p, e) PROVE Ordered'
  <2> DEFINE held == IF InOrder(p, e) /\ \A q \in Projectors : e \notin projs[q].held
                     THEN old.held \cup {e} ELSE old.held
             new == [old EXCEPT !.tried = @ \cup {e}, !.held = held]
  <2>1. /\ new \in Proj /\ new.seen = old.seen /\ new.todo = old.todo /\ new.rows = old.rows
        /\ new.held = held
    BY <1>1 DEF Proj
  <2>2. projs' = [projs EXCEPT ![p] = new] /\ pending' = pending /\ UNCHANGED <<txs, clock>>
    BY <1>1, <1>7 DEF LockAggregate, Proj, old
  <2>3. \A f \in held : \E r \in Of(f, old.rows) : \A q \in Of(f, old.seen) : r.at <= q.at
    BY <1>2 DEF InOrder, old
  <2> HIDE DEF new, held
  <2>4. QED
    BY <1>2, <2>1, <2>2, <2>3, ProjectionsKeepTheOrder DEF old
<1>8. ASSUME NEW batch \in SUBSET projs[p].rows, Commit(p, batch) PROVE Ordered'
  <2>1. projs' = [projs EXCEPT ![p] = NoProj] /\ pending' \subseteq pending /\ UNCHANGED <<txs, clock>>
    BY <1>8 DEF Commit
  <2>2. QED
    BY <1>3, <2>1, ProjectionsKeepTheOrder
<1>9. CASE ProjectionFails(p)
  <2>1. projs' = [projs EXCEPT ![p] = NoProj] /\ pending' = pending /\ UNCHANGED <<txs, clock>>
    BY <1>9 DEF ProjectionFails
  <2>2. QED
    BY <1>3, <2>1, ProjectionsKeepTheOrder
<1>10. QED
  BY <1>4, <1>5, <1>6, <1>7, <1>8, <1>9 DEF ProjectorStep

LEMMA NextKeepsTheOrder == Ordered /\ OneAtATime /\ OneAtATime' /\ [Next]_vars => Ordered'
<1> SUFFICES ASSUME Ordered, OneAtATime, OneAtATime', [Next]_vars PROVE Ordered'
  OBVIOUS
<1>1. Inv'
  BY NextInv DEF Ordered
<1>2. ASSUME NEW rows \in SUBSET processed, Cleanup(rows) PROVE Ordered'
  BY <1>1, <1>2 DEF Cleanup, Ordered, TimesOK, SeenFirst, HeldInOrder, InOrder
<1>3. CASE UNCHANGED vars
  BY <1>1, <1>3 DEF vars, Ordered, TimesOK, SeenFirst, HeldInOrder, InOrder
<1>4. QED
  BY <1>1, <1>2, <1>3, RequestsKeepTheOrder, ProjectorsKeepTheOrder DEF Next

\* What a projection applies of an event begins with its oldest pending row.
LEMMA BatchesBeginInOrder ==
  ASSUME Ordered, NEW p \in Projectors, NEW batch \in SUBSET projs[p].rows, Commit(p, batch),
         NEW r \in pending \ pending'
  PROVE  \E first \in Of(r.event, pending \ pending') :
           \A q \in Of(r.event, pending) : first.at <= q.at
<1> DEFINE e == r.event
           rows == projs[p].rows
           inHand == {x \in rows : x.event \in projs[p].held}
<1>1. rows \subseteq pending /\ rows \subseteq projs[p].seen
  BY DEF Ordered, Inv, ClaimedOnce, HeldInOrder
<1>2. /\ batch \subseteq inHand
      /\ \A x \in batch, y \in inHand \ batch : x.at <= y.at
      /\ pending' = pending \ batch
  BY DEF Commit, FirstRows
<1>3. pending \ pending' = batch /\ r \in batch /\ e \in projs[p].held
  BY <1>1, <1>2
<1>4. PICK f \in Of(e, rows) : \A q \in Of(e, projs[p].seen) : f.at <= q.at
  BY <1>3 DEF Ordered, HeldInOrder, InOrder
<1>5. f \in inHand /\ f \in projs[p].seen /\ f \in pending
  BY <1>1, <1>3, <1>4 DEF Of
<1>6. \A x \in pending : x.at \in Nat
  BY DEF Ordered, Inv, TablesOK, Row
<1>7. PICK first \in Of(e, batch) : first \in projs[p].seen
                                    /\ \A q \in Of(e, projs[p].seen) : q \in pending => first.at <= q.at
  <2>1. CASE f \in batch
    BY <1>4, <1>5, <2>1 DEF Of
  <2>2. CASE f \notin batch
    <3>1. r.at <= f.at
      BY <1>2, <1>3, <1>5, <2>2
    <3>2. r \in Of(e, batch) /\ r \in projs[p].seen /\ r \in pending
      BY <1>1, <1>3 DEF Of
    <3>3. ASSUME NEW q \in Of(e, projs[p].seen), q \in pending PROVE r.at <= q.at
      BY <1>4, <1>5, <1>6, <3>1, <3>2, <3>3
    <3>4. QED
      BY <3>2, <3>3
  <2>3. QED
    BY <2>1, <2>2
<1>8. ASSUME NEW q \in Of(e, pending) PROVE first.at <= q.at
  <2>1. CASE q \in projs[p].seen
    BY <1>7, <2>1 DEF Of
  <2>2. CASE q \notin projs[p].seen
    <3>1. first.at < q.at
      BY <1>7, <2>2 DEF Ordered, SeenFirst, Of
    <3>2. first.at \in Nat /\ q.at \in Nat
      BY <1>1, <1>6, <1>7 DEF Of
    <3>3. QED
      BY <3>1, <3>2
  <2>3. QED
    BY <2>1, <2>2
<1>9. QED
  BY <1>3, <1>7, <1>8

(* While requests' transactions do not overlap, no application of an event's *)
(* deltas begins in the middle: the oldest pending one is among them,        *)
(* whatever replicas hold and skip (projectNextBatch's look at earlier rows  *)
(* before it locks the aggregate).  What is behind it may be incomplete.     *)
THEOREM BatchesBeginWithTheOldest == Spec /\ []OneAtATime => OldestGoesFirst
<1>1. Init => Ordered
  <2> SUFFICES ASSUME Init PROVE Ordered
    OBVIOUS
  <2>1. QED
    BY InitInv DEF Init, Ordered, TimesOK, SeenFirst, HeldInOrder, NoProj, NoTx
<1>2. Ordered /\ [Next]_vars =>
        [\A r \in pending \ pending' :
           \E first \in Of(r.event, pending \ pending') :
             \A q \in Of(r.event, pending) : first.at <= q.at]_vars
  <2> SUFFICES ASSUME Ordered, Next, NEW r \in pending \ pending'
               PROVE  \E first \in Of(r.event, pending \ pending') :
                        \A q \in Of(r.event, pending) : first.at <= q.at
    OBVIOUS
  <2>1. CASE \E c \in Clients : ClientStep(c)
    BY <2>1, RequestSteps DEF Ordered, Begins, Goes, Ends
  <2>2. ASSUME NEW p \in Projectors, Start(p) \/ ScanEnds(p) \/ ProjectionFails(p)
        PROVE  FALSE
    BY <2>2 DEF Start, ScanEnds, ProjectionFails
  <2>3. ASSUME NEW p \in Projectors,
               (\E x \in projs[p].todo : ScanRow(p, x)) \/ (\E e \in Events : LockAggregate(p, e))
        PROVE  FALSE
    BY <2>3 DEF ScanRow, LockAggregate
  <2>4. CASE \E p \in Projectors : \E batch \in SUBSET projs[p].rows : Commit(p, batch)
    BY <2>4, BatchesBeginInOrder
  <2>5. CASE \E rows \in SUBSET processed : Cleanup(rows)
    BY <2>5 DEF Cleanup
  <2>6. QED
    BY <2>1, <2>2, <2>3, <2>4, <2>5 DEF Next, ProjectorStep
<1>3. QED
  BY <1>1, <1>2, NextKeepsTheOrder, PTL DEF Spec, OldestGoesFirst


-----------------------------------------------------------------------------
(* Sums.                                                                   *)

LEMMA UnitsOfUnion ==
  ASSUME NEW k, NEW s, NEW t, NEW sign
  PROVE  Units(k, s \cup t, sign) = Units(k, s, sign) \cup Units(k, t, sign)
BY DEF Units

LEMMA UnitsAreOf ==
  ASSUME NEW k, NEW s, NEW sign, NEW x \in Units(k, s, sign)
  PROVE  \E r \in s : \E i \in 1 .. sign * r.delta[k] : x = <<r, i>>
BY DEF Units

LEMMA UnitsApart ==
  ASSUME NEW k, NEW s, NEW t, s \cap t = {}, NEW sign
  PROVE  Units(k, s, sign) \cap Units(k, t, sign) = {}
BY UnitsAreOf

LEMMA UnitsOfOne ==
  ASSUME NEW k \in Kinds, NEW r \in Row, NEW sign \in {1, -1}
  PROVE  /\ IsFiniteSet(Units(k, {r}, sign))
         /\ Cardinality(Units(k, {r}, sign)) = IF sign * r.delta[k] > 0 THEN sign * r.delta[k] ELSE 0
<1> DEFINE n == sign * r.delta[k]
<1>1. r.delta[k] \in Int
  BY DEF Row, Delta
<1>2. n \in Int
  BY <1>1
<1>3. Units(k, {r}, sign) = {r} \X (1 .. n)
  BY DEF Units
<1> HIDE DEF n
<1>4. IsFiniteSet(1 .. n) /\ Cardinality(1 .. n) = IF n > 0 THEN n ELSE 0
  <2>1. IsFiniteSet(1 .. n) /\ Cardinality(1 .. n) = IF 1 > n THEN 0 ELSE n - 1 + 1
    BY <1>2, FS_Interval
  <2>2. QED
    BY <1>2, <2>1
<1>5. IsFiniteSet({r}) /\ Cardinality({r}) = 1
  BY FS_Singleton
<1>6. /\ IsFiniteSet({r} \X (1 .. n))
      /\ Cardinality({r} \X (1 .. n)) = Cardinality({r}) * Cardinality(1 .. n)
  BY <1>4, <1>5, FS_Product
<1>7. 1 * Cardinality(1 .. n) = Cardinality(1 .. n)
  BY <1>2, <1>4
<1>8. QED
  BY <1>3, <1>4, <1>5, <1>6, <1>7 DEF n

LEMMA UnitsAreFinite ==
  ASSUME NEW k \in Kinds, NEW s \in SUBSET Row, IsFiniteSet(s), NEW sign \in {1, -1}
  PROVE  IsFiniteSet(Units(k, s, sign)) /\ Cardinality(Units(k, s, sign)) \in Nat
<1> DEFINE f == [r \in s |-> {r} \X (1 .. sign * r.delta[k])]
           parts == {f[r] : r \in s}
<1>1. f \in Surjection(s, parts)
  BY DEF Surjection
<1>2. IsFiniteSet(parts)
  BY <1>1, FS_Surjection
<1>3. ASSUME NEW x \in parts PROVE IsFiniteSet(x)
  <2>1. PICK r \in s : x = {r} \X (1 .. sign * r.delta[k])
    OBVIOUS
  <2>2. x = Units(k, {r}, sign)
    BY <2>1 DEF Units
  <2>3. QED
    BY <2>2, UnitsOfOne
<1>4. Units(k, s, sign) = UNION parts
  BY DEF Units
<1> HIDE DEF parts
<1>5. IsFiniteSet(UNION parts)
  BY <1>2, <1>3, FS_UNION
<1>6. QED
  BY <1>4, <1>5, FS_CardinalityType

LEMMA TotalType ==
  ASSUME NEW k \in Kinds, NEW s \in SUBSET Row, IsFiniteSet(s) PROVE Total(k, s) \in Int
<1>1. /\ Cardinality(Units(k, s, 1)) \in Nat
      /\ Cardinality(Units(k, s, -1)) \in Nat
  BY UnitsAreFinite
<1>2. QED
  BY <1>1 DEF Total

LEMMA TotalOfNone == ASSUME NEW k PROVE Total(k, {}) = 0
<1>1. Units(k, {}, 1) = {} /\ Units(k, {}, -1) = {}
  BY DEF Units
<1>2. QED
  BY <1>1, FS_EmptySet DEF Total

LEMMA TotalOfOne == ASSUME NEW k \in Kinds, NEW r \in Row PROVE Total(k, {r}) = r.delta[k]
<1>1. r.delta[k] \in Int
  BY DEF Row, Delta
<1>2. Cardinality(Units(k, {r}, 1)) = IF 1 * r.delta[k] > 0 THEN 1 * r.delta[k] ELSE 0
  BY UnitsOfOne
<1>3. Cardinality(Units(k, {r}, -1)) = IF (-1) * r.delta[k] > 0 THEN (-1) * r.delta[k] ELSE 0
  BY UnitsOfOne
<1>4. QED
  BY <1>1, <1>2, <1>3 DEF Total

LEMMA TotalOfUnion ==
  ASSUME NEW k \in Kinds, NEW s \in SUBSET Row, NEW t \in SUBSET Row,
         IsFiniteSet(s), IsFiniteSet(t), s \cap t = {}
  PROVE  Total(k, s \cup t) = Total(k, s) + Total(k, t)
<1>1. ASSUME NEW sign \in {1, -1}
      PROVE  /\ Cardinality(Units(k, s \cup t, sign))
                = Cardinality(Units(k, s, sign)) + Cardinality(Units(k, t, sign))
             /\ Cardinality(Units(k, s, sign)) \in Nat
             /\ Cardinality(Units(k, t, sign)) \in Nat
  <2> DEFINE u == Units(k, s, sign)
             v == Units(k, t, sign)
  <2>1. IsFiniteSet(u) /\ IsFiniteSet(v) /\ Cardinality(u) \in Nat /\ Cardinality(v) \in Nat
    BY UnitsAreFinite
  <2>2. u \cap v = {} /\ Units(k, s \cup t, sign) = u \cup v
    BY UnitsApart, UnitsOfUnion
  <2> HIDE DEF u, v
  <2>3. Cardinality(u \cup v) = Cardinality(u) + Cardinality(v) - Cardinality(u \cap v)
    BY <2>1, FS_Union
  <2>4. Cardinality(u \cap v) = 0
    BY <2>2, FS_EmptySet
  <2>5. Cardinality(u \cup v) = Cardinality(u) + Cardinality(v)
    BY <2>1, <2>3, <2>4
  <2>6. QED
    BY <2>1, <2>2, <2>5 DEF u, v
<1> DEFINE add(x) == Cardinality(Units(k, x, 1))
           take(x) == Cardinality(Units(k, x, -1))
<1>2. add(s \cup t) = add(s) + add(t) /\ add(s) \in Nat /\ add(t) \in Nat
  BY <1>1
<1>3. take(s \cup t) = take(s) + take(t) /\ take(s) \in Nat /\ take(t) \in Nat
  BY <1>1
<1>4. /\ Total(k, s \cup t) = add(s \cup t) - take(s \cup t)
      /\ Total(k, s) = add(s) - take(s)
      /\ Total(k, t) = add(t) - take(t)
  BY DEF Total
<1> HIDE DEF add, take
<1>5. QED
  BY <1>2, <1>3, <1>4

\* What is taken out of a set of rows is taken off its sum.
LEMMA TotalOfRest ==
  ASSUME NEW k \in Kinds, NEW s \in SUBSET Row, IsFiniteSet(s), NEW t \in SUBSET s
  PROVE  Total(k, s) = Total(k, s \ t) + Total(k, t)
<1>1. IsFiniteSet(t) /\ IsFiniteSet(s \ t)
  BY FS_Subset, FS_Difference
<1>2. s = (s \ t) \cup t /\ (s \ t) \cap t = {}
  OBVIOUS
<1>3. t \in SUBSET Row /\ s \ t \in SUBSET Row
  OBVIOUS
<1>4. Total(k, (s \ t) \cup t) = Total(k, s \ t) + Total(k, t)
  BY <1>1, <1>2, <1>3, TotalOfUnion
<1>5. QED
  BY <1>2, <1>4

LEMMA OfIsPart ==
  ASSUME NEW e, NEW s, NEW t
  PROVE  /\ Of(e, s) \subseteq s
         /\ Of(e, s \cup t) = Of(e, s) \cup Of(e, t)
         /\ Of(e, s \ t) = Of(e, s) \ Of(e, t)
         /\ t \subseteq s => Of(e, t) \subseteq Of(e, s)
BY DEF Of


-----------------------------------------------------------------------------
(* What requests tell the projector is what they do to the tables.         *)

Fans(e, k) == {u \in Users : <<e, u>> \in marks[k]}
Going(e) == {u \in Users : rsvps[<<e, u>>] = "CONFIRMED"}
Said(e) == {id \in Comments : comments[id].event = e /\ comments[id].live}

LEMMA ActualNow ==
  ASSUME NEW e, NEW k \in Kinds
  PROVE  /\ k \in Marks \/ k = "attending" \/ k = "comments"
         /\ k \in Marks => k # "attending" /\ k # "comments" /\ Actual(e, k) = Cardinality(Fans(e, k))
         /\ k = "attending" => Actual(e, k) = Cardinality(Going(e))
         /\ k = "comments" => Actual(e, k) = Cardinality(Said(e))
<1>1. k \in Marks \/ k = "attending" \/ k = "comments"
  BY StatsAssumption DEF StatsAssumption, AllKinds, Marks
<1>2. k \in Marks => k # "attending" /\ k # "comments"
  BY DEF Marks
<1>3. QED
  BY <1>1, <1>2 DEF Actual, Fans, Going, Said

LEMMA ActualNext ==
  ASSUME NEW e, NEW k \in Kinds
  PROVE  /\ k \in Marks => Actual(e, k)' = Cardinality(Fans(e, k)')
         /\ k = "attending" => Actual(e, k)' = Cardinality(Going(e)')
         /\ k = "comments" => Actual(e, k)' = Cardinality(Said(e)')
<1>1. k \in Marks => k # "attending" /\ k # "comments"
  BY DEF Marks
<1>2. QED
  BY <1>1 DEF Actual, Fans, Going, Said

LEMMA TablesAreFinite ==
  ASSUME NEW e, NEW k
  PROVE  IsFiniteSet(Fans(e, k)) /\ IsFiniteSet(Going(e)) /\ IsFiniteSet(Said(e))
<1>1. Fans(e, k) \subseteq Users /\ Going(e) \subseteq Users /\ Said(e) \subseteq Comments
  BY DEF Fans, Going, Said
<1>2. QED
  BY <1>1, FS_Subset, StatsAssumption DEF StatsAssumption

LEMMA ActualType == ASSUME NEW e, NEW k \in Kinds PROVE Actual(e, k) \in Nat
BY ActualNow, TablesAreFinite, FS_CardinalityType

\* A table that is left alone keeps its counts.
LEMMA Untouched ==
  ASSUME NEW e, NEW k \in Kinds,
         k \in Marks => Fans(e, k)' = Fans(e, k),
         k = "attending" => Going(e)' = Going(e),
         k = "comments" => Said(e)' = Said(e)
  PROVE  Actual(e, k)' = Actual(e, k) /\ Actual(e, k)' = Actual(e, k) + 0
<1>1. Actual(e, k)' = Actual(e, k)
  BY ActualNow, ActualNext
<1>2. QED
  BY <1>1, ActualType

LEMMA OneMore ==
  ASSUME NEW s, IsFiniteSet(s), NEW x
  PROVE  /\ Cardinality(s) \in Nat
         /\ x \notin s => Cardinality(s \cup {x}) = Cardinality(s) + 1
         /\ x \in s => Cardinality(s \ {x}) = Cardinality(s) + (-1)
<1>1. Cardinality(s) \in Nat
  BY FS_CardinalityType
<1>2. x \notin s => Cardinality(s \cup {x}) = Cardinality(s) + 1
  BY FS_AddElement
<1>3. x \in s => Cardinality(s \ {x}) = Cardinality(s) - 1
  BY FS_RemoveElement
<1>4. QED
  BY <1>1, <1>2, <1>3

(* Of each event, the difference told is the difference made. *)
Truthful(deltas) ==
  \A e \in Events :
    \/ \E d \in deltas : /\ d[1] = e
                         /\ \A o \in deltas : o[1] = e => o = d
                         /\ \A k \in Kinds : Actual(e, k)' = Actual(e, k) + d[2][k]
    \/ /\ \A d \in deltas : d[1] # e
       /\ \A k \in Kinds : Actual(e, k)' = Actual(e, k)

LEMMA TruthOfOne ==
  ASSUME NEW e \in Events, NEW delta,
         \A k \in Kinds : Actual(e, k)' = Actual(e, k) + delta[k],
         \A f \in Events \ {e} : \A k \in Kinds : Actual(f, k)' = Actual(f, k)
  PROVE  Truthful({<<e, delta>>})
<1> DEFINE d == <<e, delta>>
<1>1. d[1] = e /\ d[2] = delta
  OBVIOUS
<1> HIDE DEF d
<1>2. QED
  BY <1>1 DEF Truthful, d

LEMMA TruthOfNone ==
  ASSUME \A e \in Events, k \in Kinds : Actual(e, k)' = Actual(e, k)
  PROVE  Truthful({})
BY DEF Truthful

LEMMA MarksAreTold ==
  ASSUME Inv, NEW c \in Clients, NEW k \in Marks, NEW on \in BOOLEAN, SetMark(c, k, on)
  PROVE  \E deltas \in SUBSET (Events \X Delta) : Emit(c, deltas) /\ Truthful(deltas)
<1>0. PICK e \in Events, u \in Users : e = txs[c].event /\ u = txs[c].user
  BY DEF SetMark, Requesting, Inv, TxOK
<1> DEFINE n == IF on THEN 1 ELSE -1
           changed == (<<e, u>> \in marks[k]) # on
<1>1. e \in Events /\ u \in Users /\ k \in Kinds
  BY DEF Marks
<1>2. /\ Emit(c, IF changed THEN {<<e, Change(k, n)>>} ELSE {})
      /\ marks' = [marks EXCEPT ![k] = IF on THEN @ \cup {<<e, u>>} ELSE @ \ {<<e, u>>}]
      /\ rsvps' = rsvps /\ comments' = comments
  BY <1>0 DEF SetMark
<1>3. \A f \in Events, j \in Kinds :
        ~(f = e /\ j = k) => Fans(f, j)' = Fans(f, j) \/ j \notin Marks
  BY <1>1, <1>2 DEF Inv, TablesOK, Fans
<1>4. \A f \in Events : Going(f)' = Going(f) /\ Said(f)' = Said(f)
  BY <1>2 DEF Going, Said
<1>5. ASSUME NEW f \in Events, NEW j \in Kinds, ~(f = e /\ j = k)
      PROVE  Actual(f, j)' = Actual(f, j) /\ Actual(f, j)' = Actual(f, j) + 0
  BY <1>3, <1>4, <1>5, Untouched
<1>6. Fans(e, k)' = IF on THEN Fans(e, k) \cup {u} ELSE Fans(e, k) \ {u}
  BY <1>1, <1>2 DEF Inv, TablesOK, Fans
<1>7. u \in Fans(e, k) <=> <<e, u>> \in marks[k]
  BY <1>1 DEF Fans
<1>8. CASE changed
  <2>1. Cardinality(Fans(e, k)') = Cardinality(Fans(e, k)) + n
    <3>1. IsFiniteSet(Fans(e, k))
      BY TablesAreFinite
    <3>2. CASE on
      BY <1>6, <1>7, <1>8, <3>1, <3>2, OneMore
    <3>3. CASE ~on
      BY <1>6, <1>7, <1>8, <3>1, <3>3, OneMore
    <3>4. QED
      BY <3>2, <3>3
  <2>2. Actual(e, k)' = Actual(e, k) + n
    BY <1>1, <2>1, ActualNow, ActualNext
  <2>3. \A j \in Kinds : Change(k, n)[j] = IF j = k THEN n ELSE 0
    BY DEF Change
  <2>4. \A j \in Kinds : Actual(e, j)' = Actual(e, j) + Change(k, n)[j]
    BY <1>1, <1>5, <2>2, <2>3
  <2>5. Change(k, n) \in Delta
    BY ChangeType
  <2> HIDE DEF n
  <2>6. Truthful({<<e, Change(k, n)>>})
    BY <1>1, <1>5, <2>4, TruthOfOne
  <2>7. {<<e, Change(k, n)>>} \in SUBSET (Events \X Delta)
    BY <1>1, <2>5
  <2>8. QED
    BY <1>2, <1>8, <2>6, <2>7
<1>9. CASE ~changed
  <2>1. Fans(e, k)' = Fans(e, k)
    BY <1>6, <1>7, <1>9
  <2>2. Actual(e, k)' = Actual(e, k)
    BY <1>1, <2>1, ActualNow, ActualNext
  <2>3. Truthful({})
    BY <1>5, <2>2, TruthOfNone
  <2>4. QED
    BY <1>2, <1>9, <2>3
<1>10. QED
  BY <1>8, <1>9


\* An RSVP goes from one status to another.
LEMMA GoingChanges ==
  ASSUME Inv, NEW e \in Events, NEW u \in Users, NEW status \in Rsvp,
         rsvps' = [rsvps EXCEPT ![<<e, u>>] = status], marks' = marks, comments' = comments
  PROVE  /\ \A f \in Events, j \in Kinds : f # e \/ j # "attending" => Actual(f, j)' = Actual(f, j)
         /\ "attending" \in Kinds =>
              Actual(e, "attending")' = Actual(e, "attending")
                                        + (Confirmed(status) - Confirmed(rsvps[<<e, u>>]))
<1>1. rsvps \in [Events \X Users -> Rsvp]
  BY DEF Inv, TablesOK
<1>2. \A f \in Events, j \in Kinds :
        Fans(f, j)' = Fans(f, j) /\ Said(f)' = Said(f) /\ (f # e => Going(f)' = Going(f))
  BY <1>1 DEF Fans, Said, Going
<1>3. ASSUME NEW f \in Events, NEW j \in Kinds, f # e \/ j # "attending"
      PROVE  Actual(f, j)' = Actual(f, j)
  BY <1>2, <1>3, Untouched
<1>4. Going(e)' = IF status = "CONFIRMED" THEN Going(e) \cup {u} ELSE Going(e) \ {u}
  BY <1>1 DEF Going
<1>5. u \in Going(e) <=> rsvps[<<e, u>>] = "CONFIRMED"
  BY DEF Going
<1>6. Cardinality(Going(e)') = Cardinality(Going(e)) + (Confirmed(status) - Confirmed(rsvps[<<e, u>>]))
  <2>1. IsFiniteSet(Going(e)) /\ Cardinality(Going(e)) \in Nat
    BY TablesAreFinite, FS_CardinalityType
  <2>2. CASE status = "CONFIRMED" /\ u \notin Going(e)
    <3>1. Confirmed(status) = 1 /\ Confirmed(rsvps[<<e, u>>]) = 0
      BY <1>5, <2>2 DEF Confirmed
    <3>2. Cardinality(Going(e)') = Cardinality(Going(e)) + 1
      BY <1>4, <2>1, <2>2, OneMore
    <3>3. QED
      BY <3>1, <3>2
  <2>3. CASE status = "CONFIRMED" /\ u \in Going(e)
    <3>1. Confirmed(status) = 1 /\ Confirmed(rsvps[<<e, u>>]) = 1
      BY <1>5, <2>3 DEF Confirmed
    <3>2. Going(e)' = Going(e)
      BY <1>4, <2>3
    <3>3. QED
      BY <2>1, <3>1, <3>2
  <2>4. CASE status # "CONFIRMED" /\ u \in Going(e)
    <3>1. Confirmed(status) = 0 /\ Confirmed(rsvps[<<e, u>>]) = 1
      BY <1>5, <2>4 DEF Confirmed
    <3>2. Cardinality(Going(e)') = Cardinality(Going(e)) + (-1)
      BY <1>4, <2>1, <2>4, OneMore
    <3>3. QED
      BY <3>1, <3>2
  <2>5. CASE status # "CONFIRMED" /\ u \notin Going(e)
    <3>1. Confirmed(status) = 0 /\ Confirmed(rsvps[<<e, u>>]) = 0
      BY <1>5, <2>5 DEF Confirmed
    <3>2. Going(e)' = Going(e)
      BY <1>4, <2>5
    <3>3. QED
      BY <2>1, <3>1, <3>2
  <2>6. QED
    BY <2>2, <2>3, <2>4, <2>5
<1>7. "attending" \in Kinds =>
        /\ Actual(e, "attending")' = Cardinality(Going(e)')
        /\ Actual(e, "attending") = Cardinality(Going(e))
  BY ActualNow, ActualNext
<1>8. QED
  BY <1>3, <1>6, <1>7

LEMMA TruthOfRsvp ==
  ASSUME Inv, NEW e \in Events, NEW u \in Users, NEW status \in Rsvp,
         rsvps' = [rsvps EXCEPT ![<<e, u>>] = status], marks' = marks, comments' = comments,
         NEW n, n = Confirmed(status) - Confirmed(rsvps[<<e, u>>])
  PROVE  Truthful({<<e, Change("attending", n)>>})
<1>1. /\ \A f \in Events, j \in Kinds : f # e \/ j # "attending" => Actual(f, j)' = Actual(f, j)
      /\ "attending" \in Kinds => Actual(e, "attending")' = Actual(e, "attending") + n
  BY GoingChanges
<1>2. \A j \in Kinds : Actual(e, j)' = Actual(e, j) + Change("attending", n)[j]
  <2> SUFFICES ASSUME NEW j \in Kinds
               PROVE  Actual(e, j)' = Actual(e, j) + Change("attending", n)[j]
    OBVIOUS
  <2>1. Change("attending", n)[j] = IF j = "attending" THEN n ELSE 0
    BY DEF Change
  <2>2. Actual(e, j) \in Nat
    BY ActualType
  <2>3. CASE j = "attending"
    BY <1>1, <2>1, <2>3
  <2>4. CASE j # "attending"
    <3>1. Actual(e, j)' = Actual(e, j)
      BY <1>1, <2>4
    <3>2. QED
      BY <2>1, <2>2, <2>4, <3>1
  <2>5. QED
    BY <2>3, <2>4
<1>3. QED
  BY <1>1, <1>2, TruthOfOne

LEMMA RsvpsAreTold ==
  ASSUME Inv, NEW c \in Clients, NEW status \in Rsvp \ {"NONE"},
         InsertRsvp(c, status) \/ ChangeRsvp(c, status) \/ CancelRsvp(c)
  PROVE  \E deltas \in SUBSET (Events \X Delta) : Emit(c, deltas) /\ Truthful(deltas)
<1>1. PICK e \in Events, u \in Users : e = txs[c].event /\ u = txs[c].user
  BY DEF InsertRsvp, ChangeRsvp, CancelRsvp, Requesting, Inv, TxOK
<1>2. marks' = marks /\ comments' = comments /\ rsvps \in [Events \X Users -> Rsvp]
  BY DEF InsertRsvp, ChangeRsvp, CancelRsvp, Inv, TablesOK
<1>3. \A n \in Int : {<<e, Change("attending", n)>>} \in SUBSET (Events \X Delta)
  BY ChangeType
<1>4. rsvps' = rsvps => Truthful({})
  <2> SUFFICES ASSUME rsvps' = rsvps PROVE Truthful({})
    OBVIOUS
  <2>1. \A f \in Events, j \in Kinds :
          Fans(f, j)' = Fans(f, j) /\ Said(f)' = Said(f) /\ Going(f)' = Going(f)
    BY <1>2 DEF Fans, Said, Going
  <2>2. QED
    BY <2>1, Untouched, TruthOfNone
<1>5. \A s \in Rsvp : Confirmed(s) \in Int /\ Confirmed("NONE") = 0
  BY ConfirmedType DEF Confirmed
<1>6. \A s, t \in Rsvp : Confirmed(s) - Confirmed(t) \in Int
  BY <1>5
<1>a. rsvps[<<e, u>>] \in Rsvp /\ "NONE" \in Rsvp
  BY <1>2 DEF Rsvp
<1>7. CASE InsertRsvp(c, status)
  <2>1. /\ rsvps[<<e, u>>] = "NONE"
        /\ rsvps' = [rsvps EXCEPT ![<<e, u>>] = status]
        /\ Emit(c, {<<e, Change("attending", Confirmed(status))>>})
    BY <1>1, <1>7 DEF InsertRsvp
  <2>2. Confirmed(status) = Confirmed(status) - Confirmed(rsvps[<<e, u>>]) /\ Confirmed(status) \in Int
    BY <1>5, <2>1
  <2>3. Truthful({<<e, Change("attending", Confirmed(status))>>})
    BY <1>2, <2>1, <2>2, TruthOfRsvp
  <2>4. QED
    BY <1>3, <2>1, <2>2, <2>3
<1>8. CASE ChangeRsvp(c, status)
  <2>1. CASE rsvps[<<e, u>>] \in {"NONE", status}
    <3>1. Emit(c, {}) /\ rsvps' = rsvps
      BY <1>1, <1>8, <2>1 DEF ChangeRsvp
    <3>2. QED
      BY <1>4, <3>1
  <2>2. CASE rsvps[<<e, u>>] \notin {"NONE", status}
    <3> DEFINE n == Confirmed(status) - Confirmed(rsvps[<<e, u>>])
    <3>1. rsvps' = [rsvps EXCEPT ![<<e, u>>] = status] /\ Emit(c, {<<e, Change("attending", n)>>})
      BY <1>1, <1>8, <2>2 DEF ChangeRsvp
    <3>2. Truthful({<<e, Change("attending", n)>>})
      BY <1>2, <3>1, TruthOfRsvp
    <3>3. n \in Int
      BY <1>6, <1>a
    <3> HIDE DEF n
    <3>4. QED
      BY <1>3, <3>1, <3>2, <3>3
  <2>3. QED
    BY <2>1, <2>2
<1>9. CASE CancelRsvp(c)
  <2>1. /\ rsvps' = [rsvps EXCEPT ![<<e, u>>] = "NONE"]
        /\ Emit(c, IF rsvps[<<e, u>>] = "NONE" THEN {}
                   ELSE {<<e, Change("attending", 0 - Confirmed(rsvps[<<e, u>>]))>>})
    BY <1>1, <1>9 DEF CancelRsvp
  <2>2. CASE rsvps[<<e, u>>] = "NONE"
    <3>1. rsvps' = rsvps
      BY <1>2, <2>1, <2>2
    <3>2. QED
      BY <1>4, <2>1, <2>2, <3>1
  <2>3. CASE rsvps[<<e, u>>] # "NONE"
    <3> DEFINE n == 0 - Confirmed(rsvps[<<e, u>>])
    <3>1. n = Confirmed("NONE") - Confirmed(rsvps[<<e, u>>]) /\ n \in Int
      BY <1>5, <1>6, <1>a
    <3>2. Emit(c, {<<e, Change("attending", n)>>})
      BY <2>1, <2>3
    <3> HIDE DEF n
    <3>3. Truthful({<<e, Change("attending", n)>>})
      BY <1>2, <1>a, <2>1, <3>1, TruthOfRsvp
    <3>4. QED
      BY <1>3, <3>1, <3>2, <3>3
  <2>4. QED
    BY <2>2, <2>3
<1>10. QED
  BY <1>7, <1>8, <1>9


\* Comments on one event come or go.
LEMMA SaidChanges ==
  ASSUME NEW e \in Events, NEW n \in Int, marks' = marks, rsvps' = rsvps,
         Cardinality(Said(e)') = Cardinality(Said(e)) + n,
         \A f \in Events \ {e} : Said(f)' = Said(f)
  PROVE  Truthful({<<e, Change("comments", n)>>})
<1>1. \A f \in Events, j \in Kinds : Fans(f, j)' = Fans(f, j) /\ Going(f)' = Going(f)
  BY DEF Fans, Going
<1>2. ASSUME NEW f \in Events \ {e}, NEW j \in Kinds PROVE Actual(f, j)' = Actual(f, j)
  BY <1>1, Untouched
<1>3. ASSUME NEW j \in Kinds PROVE Actual(e, j)' = Actual(e, j) + Change("comments", n)[j]
  <2>1. Change("comments", n)[j] = IF j = "comments" THEN n ELSE 0
    BY DEF Change
  <2>2. CASE j = "comments"
    BY <2>1, <2>2, ActualNow, ActualNext
  <2>3. CASE j # "comments"
    BY <1>1, <2>1, <2>3, Untouched
  <2>4. QED
    BY <2>2, <2>3
<1>4. QED
  BY <1>2, <1>3, TruthOfOne

LEMMA CommentsAreTold ==
  ASSUME Inv, NEW c \in Clients, NEW id \in Comments, CreateComment(c, id) \/ DeleteComment(c, id)
  PROVE  \E deltas \in SUBSET (Events \X Delta) : Emit(c, deltas) /\ Truthful(deltas)
<1>1. PICK e \in Events, u \in Users : e = txs[c].event /\ u = txs[c].user
  BY DEF CreateComment, DeleteComment, Requesting, Inv, TxOK
<1>2. marks' = marks /\ rsvps' = rsvps /\ comments \in [Comments -> Comment]
  BY DEF CreateComment, DeleteComment, Inv, TablesOK
<1>3. /\ {<<e, Change("comments", 1)>>} \in SUBSET (Events \X Delta)
      /\ {<<e, Change("comments", -1)>>} \in SUBSET (Events \X Delta)
  BY ChangeType
<1>4. IsFiniteSet(Said(e))
  BY TablesAreFinite
<1>5. CASE CreateComment(c, id)
  <2>1. /\ comments[id] = NoComment
        /\ comments' = [comments EXCEPT ![id] = [event |-> e, author |-> u, live |-> TRUE]]
        /\ Emit(c, {<<e, Change("comments", 1)>>})
    BY <1>1, <1>5 DEF CreateComment
  <2>2. ~comments[id].live
    BY <2>1 DEF NoComment
  <2>3. Said(e)' = Said(e) \cup {id} /\ id \notin Said(e)
    BY <1>2, <2>1, <2>2 DEF Said
  <2>4. \A f \in Events \ {e} : Said(f)' = Said(f)
    BY <1>2, <2>1, <2>2 DEF Said
  <2>5. Cardinality(Said(e)') = Cardinality(Said(e)) + 1
    BY <1>4, <2>3, OneMore
  <2>6. QED
    BY <1>2, <1>3, <2>1, <2>4, <2>5, SaidChanges
<1>6. CASE DeleteComment(c, id)
  <2>1. /\ comments[id].event = e
        /\ comments' = [comments EXCEPT ![id].live = FALSE]
        /\ Emit(c, IF comments[id].live THEN {<<e, Change("comments", -1)>>} ELSE {})
    BY <1>1, <1>6 DEF DeleteComment
  <2>2. \A i \in Comments : /\ comments'[i].event = comments[i].event
                            /\ comments'[i].live <=> comments[i].live /\ i # id
    BY <1>2, <2>1 DEF Comment
  <2>3. Said(e)' = Said(e) \ {id} /\ \A f \in Events \ {e} : Said(f)' = Said(f)
    BY <2>1, <2>2 DEF Said
  <2>4. CASE comments[id].live
    <3> DEFINE n == -1
    <3>1. id \in Said(e)
      BY <2>1, <2>4 DEF Said
    <3>2. Cardinality(Said(e)') = Cardinality(Said(e)) + n
      BY <1>4, <2>3, <3>1, OneMore
    <3>3. n \in Int
      OBVIOUS
    <3>4. Emit(c, {<<e, Change("comments", n)>>})
      BY <2>1, <2>4
    <3>5. {<<e, Change("comments", n)>>} \in SUBSET (Events \X Delta)
      BY <1>3
    <3> HIDE DEF n
    <3>6. Truthful({<<e, Change("comments", n)>>})
      BY <1>2, <2>3, <3>2, <3>3, SaidChanges
    <3>7. QED
      BY <3>4, <3>5, <3>6
  <2>5. CASE ~comments[id].live
    <3>1. Said(e)' = Said(e)
      BY <2>3, <2>5 DEF Said
    <3>2. \A f \in Events, j \in Kinds :
            Fans(f, j)' = Fans(f, j) /\ Said(f)' = Said(f) /\ Going(f)' = Going(f)
      BY <1>2, <2>3, <3>1 DEF Fans, Going
    <3>3. Truthful({})
      BY <3>2, Untouched, TruthOfNone
    <3>4. QED
      BY <2>1, <2>5, <3>3
  <2>6. QED
    BY <2>4, <2>5
<1>7. QED
  BY <1>5, <1>6

(* Erasing an account takes off what it had of each event. *)
LEMMA ErasureIsTold ==
  ASSUME Inv, NEW c \in Clients, EraseEngagement(c)
  PROVE  \E deltas \in SUBSET (Events \X Delta) : Emit(c, deltas) /\ Truthful(deltas)
<1> DEFINE u == txs[c].user
           Mine(e) == {id \in Comments : /\ comments[id].event = e
                                         /\ comments[id].author = u
                                         /\ comments[id].live}
           Lost(e, k) == CASE k \in Marks     -> IF <<e, u>> \in marks[k] THEN 1 ELSE 0
                           [] k = "attending" -> Confirmed(rsvps[<<e, u>>])
                           [] k = "comments"  -> Cardinality(Mine(e))
           affected == {e \in Events : \E k \in Kinds : Lost(e, k) > 0}
           delta(e) == [k \in Kinds |-> 0 - Lost(e, k)]
           deltas == {<<e, delta(e)>> : e \in affected}
<1>2. /\ Emit(c, deltas)
      /\ marks' = [k \in Marks |-> {p \in marks[k] : p[2] # u}]
      /\ rsvps' = [p \in Events \X Users |-> IF p[2] = u THEN "NONE" ELSE rsvps[p]]
      /\ comments' = [id \in Comments |-> IF comments[id].author = u
                                          THEN [comments[id] EXCEPT !.live = FALSE]
                                          ELSE comments[id]]
  BY DEF EraseEngagement
<1>1. u \in Users
  BY DEF EraseEngagement, Inv, TxOK
<1> HIDE DEF u
<1>3. /\ marks \in [Marks -> SUBSET (Events \X Users)]
      /\ rsvps \in [Events \X Users -> Rsvp]
      /\ comments \in [Comments -> Comment]
  BY DEF Inv, TablesOK
<1>4. ASSUME NEW e \in Events, NEW k \in Kinds
      PROVE  Lost(e, k) \in Nat /\ Actual(e, k)' = Actual(e, k) + (0 - Lost(e, k))
  <2>1. CASE k \in Marks
    <3>1. Lost(e, k) = IF u \in Fans(e, k) THEN 1 ELSE 0
      BY <1>1, <2>1, ActualNow DEF Fans
    <3>2. Fans(e, k)' = Fans(e, k) \ {u}
      BY <1>2, <1>3, <2>1 DEF Fans
    <3>3. IsFiniteSet(Fans(e, k)) /\ Cardinality(Fans(e, k)) \in Nat
      BY TablesAreFinite, FS_CardinalityType
    <3> HIDE DEF Lost
    <3>4. Cardinality(Fans(e, k)') = Cardinality(Fans(e, k)) + (0 - Lost(e, k))
      <4>1. CASE u \in Fans(e, k)
        BY <3>1, <3>2, <3>3, <4>1, OneMore
      <4>2. CASE u \notin Fans(e, k)
        <5>1. Fans(e, k)' = Fans(e, k)
          BY <3>2, <4>2
        <5>2. QED
          BY <3>1, <3>3, <4>2, <5>1
      <4>3. QED
        BY <4>1, <4>2
    <3>5. QED
      BY <2>1, <3>1, <3>4, ActualNow, ActualNext
  <2>2. CASE k = "attending"
    <3>1. Lost(e, k) = IF u \in Going(e) THEN 1 ELSE 0
      BY <1>1, <2>2, ActualNow DEF Going, Confirmed
    <3>2. Going(e)' = Going(e) \ {u}
      BY <1>2, <1>3 DEF Going
    <3>3. IsFiniteSet(Going(e)) /\ Cardinality(Going(e)) \in Nat
      BY TablesAreFinite, FS_CardinalityType
    <3> HIDE DEF Lost
    <3>4. Cardinality(Going(e)') = Cardinality(Going(e)) + (0 - Lost(e, k))
      <4>1. CASE u \in Going(e)
        BY <3>1, <3>2, <3>3, <4>1, OneMore
      <4>2. CASE u \notin Going(e)
        <5>1. Going(e)' = Going(e)
          BY <3>2, <4>2
        <5>2. QED
          BY <3>1, <3>3, <4>2, <5>1
      <4>3. QED
        BY <4>1, <4>2
    <3>5. QED
      BY <2>2, <3>1, <3>4, ActualNow, ActualNext
  <2>3. CASE k = "comments"
    <3>1. Lost(e, k) = Cardinality(Mine(e))
      BY <2>3, ActualNow
    <3>2. \A id \in Comments :
            /\ comments'[id].event = comments[id].event
            /\ comments'[id].live <=> comments[id].live /\ comments[id].author # u
      BY <1>2, <1>3 DEF Comment
    <3>3. Said(e)' = Said(e) \ Mine(e) /\ Mine(e) \subseteq Said(e)
      BY <3>2 DEF Said
    <3>4. IsFiniteSet(Said(e)) /\ Cardinality(Said(e)) \in Nat
      BY TablesAreFinite, FS_CardinalityType
    <3> HIDE DEF Lost, Mine
    <3>5. Said(e) \cap Mine(e) = Mine(e)
      BY <3>3
    <3>6. Cardinality(Said(e)') = Cardinality(Said(e)) - Cardinality(Mine(e))
      BY <3>3, <3>4, <3>5, FS_Difference
    <3>7. Cardinality(Mine(e)) \in Nat
      BY <3>3, <3>4, FS_Subset, FS_CardinalityType
    <3>8. Cardinality(Said(e)') = Cardinality(Said(e)) + (0 - Lost(e, k))
      BY <3>1, <3>4, <3>6, <3>7
    <3>9. QED
      BY <2>3, <3>1, <3>7, <3>8, ActualNow, ActualNext
  <2>4. QED
    BY <2>1, <2>2, <2>3, ActualNow
<1> HIDE DEF Lost
<1>5. ASSUME NEW e \in Events PROVE delta(e) \in Delta
  <2>1. \A k \in Kinds : 0 - Lost(e, k) \in Int
    BY <1>4
  <2>2. QED
    BY <2>1 DEF Delta
<1>6. deltas \in SUBSET (Events \X Delta)
  BY <1>5
<1>7. Truthful(deltas)
  <2> SUFFICES ASSUME NEW e \in Events
               PROVE  \/ \E d \in deltas :
                           /\ d[1] = e
                           /\ \A o \in deltas : o[1] = e => o = d
                           /\ \A k \in Kinds : Actual(e, k)' = Actual(e, k) + d[2][k]
                      \/ /\ \A d \in deltas : d[1] # e
                         /\ \A k \in Kinds : Actual(e, k)' = Actual(e, k)
    BY DEF Truthful
  <2>1. CASE e \in affected
    <3> DEFINE d == <<e, delta(e)>>
    <3>1. d \in deltas /\ d[1] = e /\ d[2] = delta(e)
      BY <2>1
    <3>2. \A o \in deltas : o[1] = e => o = d
      OBVIOUS
    <3>3. \A k \in Kinds : delta(e)[k] = 0 - Lost(e, k)
      OBVIOUS
    <3>4. \A k \in Kinds : Actual(e, k)' = Actual(e, k) + d[2][k]
      BY <1>4, <3>1, <3>3
    <3>5. QED
      BY <3>1, <3>2, <3>4
  <2>2. CASE e \notin affected
    <3>1. \A d \in deltas : d[1] # e
      BY <2>2
    <3>2. ASSUME NEW k \in Kinds PROVE Actual(e, k)' = Actual(e, k)
      <4>1. ~(Lost(e, k) > 0)
        BY <2>2
      <4>2. Lost(e, k) = 0
        BY <1>4, <4>1
      <4>3. QED
        BY <1>4, <4>2, ActualType
    <3>3. QED
      BY <3>1, <3>2
  <2>3. QED
    BY <2>1, <2>2
<1>8. QED
  BY <1>2, <1>6, <1>7

-----------------------------------------------------------------------------
(* What the counters and the outbox add up to.                              *)

\* Rows of one transaction are told apart by their events; those of different
\* transactions by their times.
Fresh ==
  /\ \A r \in pending : r.at <= clock
  /\ \A c \in Clients : txs[c].pc # "idle" =>
       /\ txs[c].at <= clock
       /\ \A r \in pending : r.at # txs[c].at
       /\ \A d \in Clients \ {c} : txs[d].pc # "idle" => txs[d].at # txs[c].at
  /\ \A r, q \in pending : r.at = q.at /\ r.event = q.event => r = q

Told == Inv /\ Fresh /\ IsFiniteSet(pending)

\* What is still to come changes by as much as the tables do.
GapKept ==
  \A e \in Events, k \in Kinds :
    Total(k, Of(e, pending')) - Actual(e, k)' = Total(k, Of(e, pending)) - Actual(e, k)

LEMMA PendingOf ==
  ASSUME Told, NEW e
  PROVE  Of(e, pending) \in SUBSET Row /\ IsFiniteSet(Of(e, pending))
<1>1. Of(e, pending) \in SUBSET pending /\ pending \subseteq Row
  BY OfIsPart DEF Told, Inv, TablesOK
<1>2. QED
  BY <1>1, FS_Subset DEF Told

\* The end of a transaction that says what it does.
LEMMA EmitTells ==
  ASSUME Told, NEW c \in Clients, txs[c].pc # "idle",
         NEW deltas \in SUBSET (Events \X Delta), Emit(c, deltas), Truthful(deltas)
  PROVE  /\ IsFiniteSet(pending')
         /\ GapKept
         /\ \A r, q \in pending' : r.at = q.at /\ r.event = q.event => r = q
<1> DEFINE row(d) == [at |-> txs[c].at, event |-> d[1], delta |-> d[2]]
           new == {row(d) : d \in deltas}
<1>1. pending' = pending \cup new
  BY DEF Emit
<1>2. \A d \in deltas : /\ d[1] \in Events /\ d[2] \in Delta /\ d = <<d[1], d[2]>>
                        /\ row(d) \in Row /\ row(d).at = txs[c].at
                        /\ row(d).event = d[1] /\ row(d).delta = d[2]
  BY DEF Told, Inv, TxOK, Row
<1>3. pending \subseteq Row /\ IsFiniteSet(pending) /\ \A r \in pending : r.at # txs[c].at
  BY DEF Told, Inv, TablesOK, Fresh
<1>4. \A d, o \in deltas : d[1] = o[1] => d = o
  BY <1>2 DEF Truthful
<1>5. IsFiniteSet(new)
  <2> DEFINE f == [d \in deltas |-> d[1]]
             g == [d \in deltas |-> row(d)]
  <2>1. f \in Injection(deltas, Events)
    BY <1>2, <1>4 DEF Injection, IsInjective
  <2>2. IsFiniteSet(deltas)
    BY <2>1, FS_Injection, StatsAssumption DEF StatsAssumption
  <2>3. g \in Surjection(deltas, new)
    BY DEF Surjection
  <2> HIDE DEF g, new
  <2>4. QED
    BY <2>2, <2>3, FS_Surjection
<1> HIDE DEF row
<1>6. IsFiniteSet(pending')
  BY <1>1, <1>3, <1>5, FS_Union
<1>7. ASSUME NEW r \in pending', NEW q \in pending', r.at = q.at, r.event = q.event PROVE r = q
  <2>1. CASE r \in pending /\ q \in pending
    BY <1>7, <2>1 DEF Told, Fresh
  <2>2. CASE r \in new /\ q \in new
    BY <1>2, <1>4, <1>7, <2>2
  <2>3. QED
    BY <1>1, <1>2, <1>3, <1>7, <2>1, <2>2
<1>8. ASSUME NEW e \in Events, NEW k \in Kinds
      PROVE  Total(k, Of(e, pending')) - Actual(e, k)' = Total(k, Of(e, pending)) - Actual(e, k)
  <2>1. Of(e, pending) \in SUBSET Row /\ IsFiniteSet(Of(e, pending))
    BY PendingOf
  <2>2. Total(k, Of(e, pending)) \in Int /\ Actual(e, k) \in Nat
    BY <2>1, TotalType, ActualType
  <2>3. Of(e, pending') = Of(e, pending) \cup Of(e, new)
    BY <1>1, OfIsPart
  <2>4. CASE \A d \in deltas : d[1] # e
    <3>1. Of(e, new) = {}
      BY <1>2, <2>4 DEF Of
    <3>2. Actual(e, k)' = Actual(e, k)
      BY <2>4 DEF Truthful
    <3>3. Of(e, pending') = Of(e, pending)
      BY <2>3, <3>1
    <3>4. QED
      BY <3>2, <3>3
  <2>5. ASSUME NEW d \in deltas, d[1] = e
        PROVE  Total(k, Of(e, pending')) - Actual(e, k)' = Total(k, Of(e, pending)) - Actual(e, k)
    <3>1. Actual(e, k)' = Actual(e, k) + d[2][k]
      BY <1>4, <2>5 DEF Truthful
    <3>2. Of(e, new) = {row(d)}
      BY <1>2, <1>4, <2>5 DEF Of
    <3>3. {row(d)} \in SUBSET Row /\ IsFiniteSet({row(d)}) /\ Of(e, pending) \cap {row(d)} = {}
      BY <1>2, <1>3, FS_Singleton DEF Of
    <3>4. Total(k, {row(d)}) = d[2][k] /\ d[2][k] \in Int
      BY <1>2, TotalOfOne DEF Delta
    <3>5. Total(k, Of(e, pending) \cup {row(d)}) = Total(k, Of(e, pending)) + Total(k, {row(d)})
      BY <2>1, <3>3, TotalOfUnion
    <3>6. Total(k, Of(e, pending')) = Total(k, Of(e, pending)) + d[2][k]
      BY <2>3, <3>2, <3>4, <3>5
    <3>7. QED
      BY <2>2, <3>1, <3>4, <3>6
  <2>6. QED
    BY <2>4, <2>5
<1>9. QED
  BY <1>6, <1>7, <1>8 DEF GapKept

\* A transaction that begins, is rolled back or finds an RSVP tells nothing.
LEMMA NothingTold ==
  ASSUME Told, marks' = marks, rsvps' = rsvps, comments' = comments, pending' = pending
  PROVE  /\ IsFiniteSet(pending')
         /\ GapKept
         /\ \A r, q \in pending' : r.at = q.at /\ r.event = q.event => r = q
<1>1. \A e \in Events, k \in Kinds :
        Fans(e, k)' = Fans(e, k) /\ Said(e)' = Said(e) /\ Going(e)' = Going(e)
  BY DEF Fans, Said, Going
<1>2. \A e \in Events, k \in Kinds : Actual(e, k)' = Actual(e, k)
  BY <1>1, Untouched
<1>3. QED
  BY <1>2 DEF Told, Fresh, GapKept

LEMMA RequestsTellAll ==
  ASSUME Told, NEW c \in Clients, ClientStep(c)
  PROVE  /\ IsFiniteSet(pending')
         /\ GapKept
         /\ \A r, q \in pending' : r.at = q.at /\ r.event = q.event => r = q
         /\ stats' = stats
<1> DEFINE goal == /\ IsFiniteSet(pending')
                   /\ GapKept
                   /\ \A r, q \in pending' : r.at = q.at /\ r.event = q.event => r = q
<1>1. Inv
  BY DEF Told
<1>2. CASE \E u \in Users, e \in Events, erasing \in BOOLEAN : Begin(c, u, e, erasing)
  BY <1>2, NothingTold DEF Begin
<1>3. CASE RsvpExists(c) \/ Rollback(c)
  BY <1>3, NothingTold DEF RsvpExists, Rollback
<1>4. ASSUME NEW k \in Marks, NEW on \in BOOLEAN, SetMark(c, k, on) PROVE goal /\ stats' = stats
  BY <1>1, <1>4, MarksAreTold, EmitTells DEF SetMark, Requesting
<1>5. ASSUME NEW status \in Rsvp \ {"NONE"},
             InsertRsvp(c, status) \/ ChangeRsvp(c, status) \/ CancelRsvp(c)
      PROVE  goal /\ stats' = stats
  <2>1. txs[c].pc # "idle" /\ stats' = stats
    BY <1>5 DEF InsertRsvp, ChangeRsvp, CancelRsvp, Requesting
  <2>2. QED
    BY <1>1, <1>5, <2>1, RsvpsAreTold, EmitTells
<1>6. ASSUME NEW id \in Comments, CreateComment(c, id) \/ DeleteComment(c, id)
      PROVE  goal /\ stats' = stats
  <2>1. txs[c].pc # "idle" /\ stats' = stats
    BY <1>6 DEF CreateComment, DeleteComment, Requesting
  <2>2. QED
    BY <1>1, <1>6, <2>1, CommentsAreTold, EmitTells
<1>7. CASE EraseEngagement(c)
  <2>1. txs[c].pc # "idle" /\ stats' = stats
    BY <1>7 DEF EraseEngagement
  <2>2. QED
    BY <1>1, <1>7, <2>1, ErasureIsTold, EmitTells
<1>8. "MAYBE" \in Rsvp \ {"NONE"}
  BY DEF Rsvp
<1> HIDE DEF goal
<1>9. goal /\ stats' = stats
  BY <1>2, <1>3, <1>4, <1>5, <1>6, <1>7, <1>8 DEF ClientStep, goal
<1>10. QED
  BY <1>9 DEF goal

LEMMA InitTold == Init => Told
BY InitInv, FS_EmptySet DEF Init, Told, Fresh, NoTx

LEMMA NextTold == Told /\ [Next]_vars => Told'
<1> SUFFICES ASSUME Told, [Next]_vars PROVE Told'
  OBVIOUS
<1>1. Inv' /\ Inv
  BY NextInv DEF Told
<1>2. /\ txs \in [Clients -> Tx] /\ clock \in Nat
      /\ \A r \in pending : r.at \in Nat
      /\ \A c \in Clients : txs[c].at \in Nat
  BY <1>1, StatsAssumption DEF Inv, TablesOK, Tx, Row, StatsAssumption
<1>3. ASSUME pending' \subseteq pending, UNCHANGED <<txs, clock>> PROVE Told'
  BY <1>1, <1>3, FS_Subset DEF Told, Fresh
<1>4. ASSUME NEW c \in Clients, ClientStep(c) PROVE Told'
  <2>1. /\ IsFiniteSet(pending')
        /\ \A r, q \in pending' : r.at = q.at /\ r.event = q.event => r = q
    BY <1>4, RequestsTellAll
  <2>2. CASE Begins(c)
    <3>1. PICK t \in Tx : t.at = clock + 1 /\ t.pc = "open" /\ txs' = [txs EXCEPT ![c] = t]
      BY <2>2 DEF Begins
    <3>2. clock' = clock + 1 /\ pending' = pending
      BY <2>2 DEF Begins
    <3>3. txs'[c] = t /\ \A d \in Clients \ {c} : txs'[d] = txs[d]
      BY <1>2, <3>1
    <3>4. /\ \A r \in pending : r.at <= clock
          /\ \A d \in Clients : txs[d].pc # "idle" =>
               /\ txs[d].at <= clock
               /\ \A r \in pending : r.at # txs[d].at
               /\ \A o \in Clients \ {d} : txs[o].pc # "idle" => txs[o].at # txs[d].at
      BY DEF Told, Fresh
    <3>5. \A r \in pending : r.at <= clock + 1 /\ r.at # clock + 1
      BY <1>2, <3>4
    <3>6. \A d \in Clients \ {c} : txs[d].pc # "idle" => txs[d].at <= clock + 1 /\ txs[d].at # clock + 1
      BY <1>2, <3>4
    <3>7. ASSUME NEW d \in Clients, txs'[d].pc # "idle"
          PROVE  /\ txs'[d].at <= clock + 1
                 /\ \A r \in pending : r.at # txs'[d].at
                 /\ \A o \in Clients \ {d} : txs'[o].pc # "idle" => txs'[o].at # txs'[d].at
      <4>1. CASE d = c
        BY <1>2, <3>1, <3>3, <3>5, <3>6, <4>1
      <4>2. CASE d # c
        BY <3>1, <3>3, <3>4, <3>6, <3>7, <4>2
      <4>3. QED
        BY <4>1, <4>2
    <3>8. QED
      BY <1>1, <2>1, <3>2, <3>5, <3>7 DEF Told, Fresh
  <2>3. CASE Goes(c)
    <3>1. clock' = clock /\ pending' = pending /\ txs[c].pc # "idle"
      BY <2>3 DEF Goes
    <3>2. \A d \in Clients : txs'[d].at = txs[d].at /\ (txs'[d].pc # "idle" => txs[d].pc # "idle")
      BY <1>2, <2>3 DEF Goes, Tx
    <3>3. QED
      BY <1>1, <2>1, <3>1, <3>2 DEF Told, Fresh
  <2>4. CASE Ends(c)
    <3>1. /\ txs[c].pc # "idle" /\ clock' = clock /\ pending \subseteq pending'
          /\ \A q \in pending' \ pending : q.at = txs[c].at
      BY <2>4 DEF Ends
    <3>2. \A d \in Clients : txs'[d].pc # "idle" => d # c /\ txs'[d] = txs[d]
      BY <1>2, <2>4 DEF Ends, NoTx
    <3>3. \A r \in pending' : r \in pending \/ r.at = txs[c].at
      BY <3>1
    <3>4. Fresh'
      BY <1>2, <2>1, <3>1, <3>2, <3>3 DEF Told, Fresh
    <3>5. QED
      BY <1>1, <2>1, <3>4 DEF Told
  <2>5. QED
    BY <1>1, <1>4, <2>2, <2>3, <2>4, RequestSteps
<1>5. ASSUME NEW p \in Projectors, ProjectorStep(p) \/ ProjectionFails(p)
      PROVE  pending' \subseteq pending /\ UNCHANGED <<txs, clock>>
  BY <1>5 DEF ProjectorStep, Start, ScanRow, ScanEnds, LockAggregate, Commit, ProjectionFails
<1>6. ASSUME NEW rows \in SUBSET processed, Cleanup(rows)
      PROVE  pending' \subseteq pending /\ UNCHANGED <<txs, clock>>
  BY <1>6 DEF Cleanup
<1>7. CASE UNCHANGED vars
  BY <1>3, <1>7 DEF vars
<1>8. QED
  BY <1>3, <1>4, <1>5, <1>6, <1>7 DEF Next

\* greatest(0, n)
LEMMA Greatest ==
  ASSUME NEW n \in Int
  PROVE  /\ Max({0, n}) \in Nat
         /\ Max({0, n}) >= n
         /\ n >= 0 => Max({0, n}) = n
         /\ n < 0 => Max({0, n}) = 0
<1> DEFINE m == IF n >= 0 THEN n ELSE 0
<1>1. m \in {0, n} /\ \A y \in {0, n} : m >= y
  OBVIOUS
<1>2. \A x \in {0, n} : (\A y \in {0, n} : x >= y) => x = m
  OBVIOUS
<1> HIDE DEF m
<1>3. Max({0, n}) = m
  BY <1>1, <1>2 DEF Max
<1>4. QED
  BY <1>3 DEF m

(* What an application does to the counters of an event: the sum of its rows *)
(* goes from the outbox to the counter, and more than that only where the    *)
(* counter would have become negative.                                       *)
LEMMA CommitMoves ==
  ASSUME Told, stats \in [Events -> [Kinds -> Nat]],
         NEW p \in Projectors, NEW batch \in SUBSET projs[p].rows, Commit(p, batch),
         NEW e \in Events, NEW k \in Kinds
  PROVE  /\ stats'[e][k] \in Nat
         /\ stats[e][k] + Total(k, Of(e, batch)) \in Int
         /\ stats'[e][k] >= stats[e][k] + Total(k, Of(e, batch))
         /\ stats[e][k] + Total(k, Of(e, batch)) >= 0 =>
              stats'[e][k] = stats[e][k] + Total(k, Of(e, batch))
         /\ stats[e][k] + Total(k, Of(e, batch)) < 0 => stats'[e][k] = 0
         /\ Total(k, Of(e, pending)) = Total(k, Of(e, pending')) + Total(k, Of(e, batch))
         /\ Total(k, Of(e, pending')) \in Int /\ Total(k, Of(e, batch)) \in Int
         /\ Actual(e, k)' = Actual(e, k)
<1>1. /\ stats' = [f \in Events |-> [j \in Kinds |->
                     IF Of(f, batch) = {} THEN stats[f][j] ELSE Projected(f, j, batch)]]
      /\ pending' = pending \ batch
      /\ marks' = marks /\ rsvps' = rsvps /\ comments' = comments
  BY DEF Commit
<1>2. stats'[e][k] = IF Of(e, batch) = {} THEN stats[e][k] ELSE Projected(e, k, batch)
  BY <1>1
<1>3. Of(e, pending) \in SUBSET Row /\ IsFiniteSet(Of(e, pending))
  BY PendingOf
<1>4. Of(e, batch) \in SUBSET Of(e, pending) /\ Of(e, pending') = Of(e, pending) \ Of(e, batch)
  <2>1. batch \subseteq pending
    BY DEF Told, Inv, ClaimedOnce
  <2>2. QED
    BY <1>1, <2>1 DEF Of
<1>5. /\ Of(e, batch) \in SUBSET Row /\ IsFiniteSet(Of(e, batch))
      /\ Of(e, pending') \in SUBSET Row /\ IsFiniteSet(Of(e, pending'))
  BY <1>3, <1>4, FS_Subset, FS_Difference
<1>6. Total(k, Of(e, pending)) = Total(k, Of(e, pending) \ Of(e, batch)) + Total(k, Of(e, batch))
  BY <1>3, <1>4, TotalOfRest
<1>7. Total(k, Of(e, batch)) \in Int /\ Total(k, Of(e, pending')) \in Int
  BY <1>5, TotalType
<1>8. stats[e][k] \in Nat
  OBVIOUS
<1>9. stats[e][k] + Total(k, Of(e, batch)) \in Int
  BY <1>7, <1>8
<1>10. Projected(e, k, batch) = Max({0, stats[e][k] + Total(k, Of(e, batch))})
  BY DEF Projected
<1>11. /\ stats'[e][k] \in Nat
       /\ stats'[e][k] >= stats[e][k] + Total(k, Of(e, batch))
       /\ stats[e][k] + Total(k, Of(e, batch)) >= 0 =>
            stats'[e][k] = stats[e][k] + Total(k, Of(e, batch))
       /\ stats[e][k] + Total(k, Of(e, batch)) < 0 => stats'[e][k] = 0
  <2>1. CASE Of(e, batch) = {}
    <3>1. Total(k, Of(e, batch)) = 0 /\ stats'[e][k] = stats[e][k]
      BY <1>2, <2>1, TotalOfNone
    <3>2. QED
      BY <1>8, <3>1
  <2>2. CASE Of(e, batch) # {}
    BY <1>2, <1>9, <1>10, <2>2, Greatest
  <2>3. QED
    BY <2>1, <2>2
<1>12. Actual(e, k)' = Actual(e, k)
  <2>1. Fans(e, k)' = Fans(e, k) /\ Said(e)' = Said(e) /\ Going(e)' = Going(e)
    BY <1>1 DEF Fans, Said, Going
  <2>2. QED
    BY <2>1, Untouched
<1>13. QED
  BY <1>4, <1>6, <1>7, <1>9, <1>11, <1>12

\* The other steps leave counters and outbox as they are.
Aside == UNCHANGED <<marks, rsvps, comments, stats, pending>>

LEMMA StepsAside ==
  ASSUME Next
  PROVE  \/ \E c \in Clients : ClientStep(c)
         \/ \E p \in Projectors : \E batch \in SUBSET projs[p].rows : Commit(p, batch)
         \/ Aside
<1>1. ASSUME NEW p \in Projectors, ProjectorStep(p) \/ ProjectionFails(p)
      PROVE  Aside \/ \E batch \in SUBSET projs[p].rows : Commit(p, batch)
  BY <1>1 DEF ProjectorStep, Start, ScanRow, ScanEnds, LockAggregate, ProjectionFails, Aside
<1>2. ASSUME NEW rows \in SUBSET processed, Cleanup(rows) PROVE Aside
  BY <1>2 DEF Cleanup, Aside
<1>3. QED
  BY <1>1, <1>2 DEF Next

LEMMA NextValues ==
  ASSUME Told', NEW e \in Events, NEW k \in Kinds
  PROVE  Total(k, Of(e, pending')) \in Int /\ Actual(e, k)' \in Nat
<1>1. Of(e, pending') \subseteq pending'
  BY OfIsPart
<1>2. Of(e, pending') \in SUBSET Row /\ IsFiniteSet(Of(e, pending'))
  BY <1>1, FS_Subset DEF Told, Inv, TablesOK
<1>3. IsFiniteSet(Fans(e, k)') /\ IsFiniteSet(Going(e)') /\ IsFiniteSet(Said(e)')
  <2>1. Fans(e, k)' \subseteq Users /\ Going(e)' \subseteq Users /\ Said(e)' \subseteq Comments
    BY DEF Fans, Going, Said
  <2>2. QED
    BY <2>1, FS_Subset, StatsAssumption DEF StatsAssumption
<1>4. Actual(e, k)' \in Nat
  BY <1>3, ActualNow, ActualNext, FS_CardinalityType
<1>5. QED
  BY <1>2, <1>4, TotalType

Covering == Told /\ stats \in [Events -> [Kinds -> Nat]] /\ CountersCover

LEMMA NextCovering == Covering /\ [Next]_vars => Covering'
<1> SUFFICES ASSUME Covering, [Next]_vars PROVE Covering'
  OBVIOUS
<1>1. Told' /\ Told /\ stats \in [Events -> [Kinds -> Nat]]
  BY NextTold DEF Covering
<1>2. ASSUME NEW e \in Events, NEW k \in Kinds
      PROVE  /\ Total(k, Of(e, pending)) \in Int /\ Actual(e, k) \in Nat /\ stats[e][k] \in Nat
             /\ stats[e][k] + Total(k, Of(e, pending)) >= Actual(e, k)
  BY <1>1, PendingOf, TotalType, ActualType DEF Covering, CountersCover
<1>3. \A e \in Events, k \in Kinds : Total(k, Of(e, pending')) \in Int /\ Actual(e, k)' \in Nat
  BY <1>1, NextValues
<1>4. ASSUME stats' = stats, GapKept PROVE Covering'
  <2>1. ASSUME NEW e \in Events, NEW k \in Kinds
        PROVE  stats'[e][k] + Total(k, Of(e, pending')) >= Actual(e, k)'
    BY <1>2, <1>3, <1>4 DEF GapKept
  <2>2. QED
    BY <1>1, <1>4, <2>1 DEF Covering, CountersCover
<1>5. ASSUME NEW c \in Clients, ClientStep(c) PROVE Covering'
  BY <1>1, <1>4, <1>5, RequestsTellAll
<1>6. ASSUME NEW p \in Projectors, NEW batch \in SUBSET projs[p].rows, Commit(p, batch)
      PROVE  Covering'
  <2>1. ASSUME NEW e \in Events, NEW k \in Kinds
        PROVE  /\ stats'[e][k] \in Nat
               /\ stats'[e][k] + Total(k, Of(e, pending')) >= Actual(e, k)'
    BY <1>1, <1>2, <1>6, CommitMoves
  <2>2. stats' = [f \in Events |-> [j \in Kinds |-> stats'[f][j]]]
    BY <1>6 DEF Commit
  <2>3. stats' \in [Events -> [Kinds -> Nat]]
    BY <2>1, <2>2
  <2>4. QED
    BY <1>1, <2>1, <2>3 DEF Covering, CountersCover
<1>7. CASE Aside
  BY <1>1, <1>4, <1>7, NothingTold DEF Aside
<1>8. CASE UNCHANGED vars
  BY <1>7, <1>8 DEF vars, Aside
<1>9. QED
  BY <1>5, <1>6, <1>7, <1>8, StepsAside

LEMMA InitValues ==
  ASSUME Init, NEW e \in Events, NEW k \in Kinds
  PROVE  Actual(e, k) = 0 /\ stats[e][k] = 0 /\ Total(k, Of(e, pending)) = 0
<1>1. k \in Marks => Fans(e, k) = {}
  BY DEF Init, Fans
<1>2. Going(e) = {}
  BY DEF Init, Going
<1>3. Said(e) = {}
  BY DEF Init, Said, NoComment
<1>4. Of(e, pending) = {}
  BY DEF Init, Of
<1>5. QED
  BY <1>1, <1>2, <1>3, <1>4, ActualNow, FS_EmptySet, TotalOfNone DEF Init

LEMMA InitCovering == Init => Covering
<1>1. Init => CountersCover
  BY InitValues DEF CountersCover
<1>2. QED
  BY <1>1, InitTold DEF Init, Covering

(* However many replicas project, and in whatever order requests commit, a  *)
(* counter and what the outbox holds for it never fall below the rows there *)
(* are: nothing is applied twice and no gain is lost (appendStatsDelta in   *)
(* the writer's transaction, projectNextBatch's acknowledgement with the    *)
(* counters').                                                              *)
THEOREM CountersNeverFallShort == Spec => []CountersCover
<1>1. Covering => CountersCover
  BY DEF Covering
<1>2. QED
  BY <1>1, InitCovering, NextCovering, PTL DEF Spec

(* The tables and statements keep their shape and no counter is negative:   *)
(* the CHECK constraints of event_stats never refuse a projection.          *)
THEOREM CountersAreNatural == Spec => []TypeOK
<1>1. Covering => TypeOK
  BY DEF Covering, Told, Inv, TypeOK
<1>2. QED
  BY <1>1, InitCovering, NextCovering, PTL DEF Spec

-----------------------------------------------------------------------------
(* Where a counter and its table come apart.                                *)

\* A sum above zero has a gain in it.
LEMMA GainInTotal ==
  ASSUME NEW k \in Kinds, NEW s \in SUBSET Row, IsFiniteSet(s), Total(k, s) > 0
  PROVE  \E r \in s : r.delta[k] > 0
<1> DEFINE gains == Units(k, s, 1)
<1>1. Cardinality(gains) \in Nat /\ Cardinality(Units(k, s, -1)) \in Nat
  BY UnitsAreFinite
<1>2. Cardinality(gains) > 0
  BY <1>1 DEF Total
<1>3. gains # {}
  BY <1>2, FS_EmptySet
<1>4. PICK x \in gains : TRUE
  BY <1>3
<1>5. PICK r \in s : \E i \in 1 .. 1 * r.delta[k] : x = <<r, i>>
  BY <1>4, UnitsAreOf
<1>6. r.delta[k] \in Int
  BY DEF Row, Delta
<1>7. QED
  BY <1>5, <1>6

\* An application that moves more than its rows' sum has met greatest(0, ...):
\* as counter and outbox were not short of the table, what it leaves pending
\* adds up to something.
LEMMA ClampLeavesGains ==
  ASSUME Covering, NEW p \in Projectors, NEW batch \in SUBSET projs[p].rows, Commit(p, batch),
         NEW e \in Events, NEW k \in Kinds, Excess(e, k)' # Excess(e, k)
  PROVE  /\ Excess(e, k)' > Excess(e, k)
         /\ stats'[e][k] = 0
         /\ \E r \in Of(e, pending') : r.delta[k] > 0
<1> DEFINE moved == stats[e][k] + Total(k, Of(e, batch))
           rest == Of(e, pending')
<1>1. /\ stats'[e][k] \in Nat
      /\ moved \in Int
      /\ stats'[e][k] >= moved
      /\ moved >= 0 => stats'[e][k] = moved
      /\ moved < 0 => stats'[e][k] = 0
      /\ Total(k, Of(e, pending)) = Total(k, rest) + Total(k, Of(e, batch))
      /\ Total(k, rest) \in Int /\ Total(k, Of(e, batch)) \in Int
      /\ Actual(e, k)' = Actual(e, k)
  BY CommitMoves DEF Covering
<1>2. /\ stats[e][k] \in Nat /\ Actual(e, k) \in Nat
      /\ stats[e][k] + Total(k, Of(e, pending)) >= Actual(e, k)
  BY ActualType DEF Covering, CountersCover
<1>3. /\ Excess(e, k) = stats[e][k] + Total(k, Of(e, pending)) - Actual(e, k)
      /\ Excess(e, k)' = stats'[e][k] + Total(k, rest) - Actual(e, k)'
  BY DEF Excess
<1> HIDE DEF rest
<1>4. moved < 0
  BY <1>1, <1>2, <1>3
<1>5. Total(k, rest) > 0
  BY <1>1, <1>2, <1>4
<1>6. rest \in SUBSET Row /\ IsFiniteSet(rest)
  <2>1. pending' \subseteq pending /\ rest \subseteq pending'
    BY DEF Commit, rest, Of
  <2>2. QED
    BY <2>1, FS_Subset DEF Covering, Told, Inv, TablesOK
<1>7. \E r \in rest : r.delta[k] > 0
  BY <1>5, <1>6, GainInTotal
<1>8. QED
  BY <1>1, <1>2, <1>3, <1>4, <1>7 DEF rest

LEMMA OthersKeepExcess ==
  ASSUME Covering, Covering', stats' = stats, GapKept, NEW e \in Events, NEW k \in Kinds
  PROVE  Excess(e, k)' = Excess(e, k)
<1>1. /\ Total(k, Of(e, pending)) \in Int /\ Actual(e, k) \in Nat /\ stats[e][k] \in Nat
      /\ Total(k, Of(e, pending')) \in Int /\ Actual(e, k)' \in Nat
  BY PendingOf, TotalType, ActualType, NextValues DEF Covering
<1>2. Total(k, Of(e, pending')) - Actual(e, k)' = Total(k, Of(e, pending)) - Actual(e, k)
  BY DEF GapKept
<1>3. /\ Excess(e, k) = stats[e][k] + Total(k, Of(e, pending)) - Actual(e, k)
      /\ Excess(e, k)' = stats[e][k] + Total(k, Of(e, pending')) - Actual(e, k)'
  BY DEF Excess
<1>4. QED
  BY <1>1, <1>2, <1>3

(* Requests that race, rows that are locked, skipped and looked at again,   *)
(* failed projections and erasures never part a counter from its table:     *)
(* with what the outbox holds, the difference between them changes only     *)
(* where greatest(0, ...) of projectNextBatch swallows a loss whose gain is *)
(* still pending, it only grows, and the counter is then at zero.           *)
THEOREM OnlyEarlyLossesDrift == Spec => DriftNeedsAnEarlyLoss
<1> DEFINE Drifts(e, k) == Excess(e, k)' # Excess(e, k) =>
             /\ Excess(e, k)' > Excess(e, k)
             /\ stats'[e][k] = 0
             /\ \E r \in Of(e, pending') : r.delta[k] > 0
<1>1. ASSUME Covering, Covering', [Next]_vars, NEW e \in Events, NEW k \in Kinds
      PROVE  Drifts(e, k)
  <2>1. Told
    BY <1>1 DEF Covering
  <2>2. ASSUME stats' = stats, GapKept PROVE Drifts(e, k)
    BY <1>1, <2>2, OthersKeepExcess
  <2> HIDE DEF Drifts
  <2>3. ASSUME NEW c \in Clients, ClientStep(c) PROVE Drifts(e, k)
    BY <2>1, <2>2, <2>3, RequestsTellAll
  <2>4. ASSUME NEW p \in Projectors, NEW batch \in SUBSET projs[p].rows, Commit(p, batch)
        PROVE  Drifts(e, k)
    BY <1>1, <2>4, ClampLeavesGains DEF Drifts
  <2>5. ASSUME Aside PROVE Drifts(e, k)
    BY <2>1, <2>2, <2>5, NothingTold DEF Aside
  <2>6. ASSUME UNCHANGED vars PROVE Drifts(e, k)
    BY <2>5, <2>6 DEF vars, Aside
  <2>7. QED
    BY <1>1, <2>3, <2>4, <2>5, <2>6, StepsAside
<1>2. Covering /\ Covering' /\ [Next]_vars =>
        [\A e \in Events, k \in Kinds : Drifts(e, k)]_vars
  BY <1>1
<1>3. QED
  BY <1>2, InitCovering, NextCovering, PTL DEF Spec, DriftNeedsAnEarlyLoss

=============================================================================
