------------------------- MODULE EventCommitsProofs -------------------------
(***************************************************************************)
(* Further theorems about EventLifecycle, for every value of the constants:*)
(* what a request or a job has read is still so when its commit finds the  *)
(* version it read, and what follows for the map, the review queue, the    *)
(* media, the photos and the promise of EventReview.                       *)
(***************************************************************************)
EXTENDS EventLifecycleProofs, FiniteSetTheorems

(* A row that is not an event yet is a fresh one; only submitted rows below *)
(* the bound of clients' commands wait for a review.                        *)
RowsOK ==
  \A e \in Events :
    /\ events[e].status = "NONE" => events[e] = NoEvent
    /\ events[e].status # "NONE" => events[e].org \in Organizers
    /\ events[e].rev <= events[e].version
    /\ events[e].status = "UPLOADED" => events[e].version <= MaxVersion

CreatorsOK ==
  \A h \in Handlers : procs[h].pc = "saving" => procs[h].org \in Organizers /\ InUse(procs[h].org)

(* What a request in flight can rely on: its command was accepted for the   *)
(* row it remembers, which is the row of the table unless that has moved on *)
(* to a later version.  The account stays, its erasure waits for requests.  *)
RequestSees(h) ==
  LET e == procs[h].ev
      row == procs[h].row
  IN /\ procs[h].op \in AllCommands \ {"create"}
     /\ Accepts(procs[h].op, row)
     /\ row.version < MaxVersion
     /\ procs[h].org \in Organizers /\ InUse(procs[h].org)
     /\ events[e].org = procs[h].org
     /\ row.version = events[e].version => events[e] = row

(* The same for a job: the erasure of the account does not wait for jobs,   *)
(* and archives the row without a new version.                              *)
JobSees(w) ==
  LET e == procs[w].ev
      row == procs[w].row
  IN /\ procs[w].op = "process"
     /\ row.status = "UPLOADED" /\ ~row.archived
     /\ row.org \in Organizers
     /\ events[e].org = row.org
     /\ row.version = events[e].version =>
          \/ events[e] = row
          \/ ~InUse(row.org) /\ events[e] = Archive(row)

RequestsSee == \A h \in Handlers : InFlight(h) => RequestSees(h)
JobsSee == \A w \in Workers : InFlight(w) => JobSees(w)

CommitsInv == RowsOK /\ CreatorsOK /\ RequestsSee /\ JobsSee

(* The review queue.  No row of the outbox is ahead of its event, no job is *)
(* without its row, no row is claimed twice, and a completed job is not the *)
(* one that the current submission waits for.                               *)
Known(r) == events[r[1]].status # "NONE" /\ r[2] <= events[r[1]].version
Waits(r) == AwaitingReview(r[1]) /\ Submission(r[1]) = r

OutboxOK ==
  \A r \in Rows :
    /\ outbox[r] # "none" => Known(r)
    /\ jobs[r].state # "none" => outbox[r] # "none"
    /\ jobs[r].state = "completed" => ~Waits(r)
    /\ Waits(r) => outbox[r] = "pending" \/ jobs[r].state \in {"waiting", "active", "failed", "forgotten"}

ClaimsOK ==
  \A d \in Dispatchers : \A r \in claims[d] :
    /\ outbox[r] = "pending"
    /\ \A c \in Dispatchers \ {d} : r \notin claims[c]

AttemptOK(w) ==
  LET job == procs[w].job
  IN /\ job \in Rows /\ job[1] = procs[w].ev
     /\ InFlight(w) => job[2] <= procs[w].row.version
     /\ procs[w].pc = "invalidate" => job[2] < events[job[1]].version

AttemptsOK == \A w \in Workers : procs[w].pc # "idle" => AttemptOK(w)

QueueInv == OutboxOK /\ ClaimsOK /\ AttemptsOK

(* Media: whoever says that a photo is READY says it of a copy made for the *)
(* photo's own event, and a request that is about to publish has read the   *)
(* photos of its event as READY.                                            *)
PhotosOK ==
  \A p \in Photos : photos[p].status = "READY" =>
    /\ photos[p].event \in Events
    /\ photos[p].key = photos[p].event
    /\ <<photos[p].event, p>> \in stored

ShotsOf(x) ==
  \A p \in Photos : procs[x].shots[p].status = "READY" =>
    /\ procs[x].shots[p].key = procs[x].ev
    /\ <<procs[x].ev, p>> \in stored

ShotsOK == \A x \in Procs : InFlight(x) => ShotsOf(x)

PublisherOK(x) ==
  /\ procs[x].pc = "loaded" /\ procs[x].op = "publish"
  /\ procs[x].row.version = events[procs[x].ev].version
  => \A p \in Linked(procs[x].ev) : procs[x].shots[p].status = "READY"

PublishersOK == \A x \in Procs : PublisherOK(x)

ReleasedAreReady ==
  \A e \in Events : Released(e) => \A p \in Linked(e) : photos[p].status = "READY"

MediaInv == PhotosOK /\ ShotsOK /\ PublishersOK /\ ReleasedAreReady

(* Photos.  An event that exists has photos of its owner, no more than the   *)
(* aggregate may have; a process holds no more either, and while the version *)
(* it read stands it knows of every photo its event has.                    *)
Few(ps) == Cardinality(ps) <= MaxPhotos

LinksOK ==
  \A p \in Photos :
    /\ photos[p].status = "ABSENT" => photos[p] = NoPhoto
    /\ photos[p].event # None => events[photos[p].event].status # "NONE"

OwnedOK ==
  \A e \in Events : events[e].status # "NONE" =>
    /\ Few(Linked(e))
    /\ \A p \in Linked(e) : PhotoExists(p) /\ photos[p].owner = events[e].org

CreationsOK ==
  \A h \in Handlers : procs[h].pc = "saving" =>
    /\ Few(InAggregate(h))
    /\ \A p \in InAggregate(h) : photos[p].owner = procs[h].org

HoldsPhotos(x) ==
  /\ Few(InAggregate(x))
  /\ \A p \in InAggregate(x) : procs[x].shots[p].status \notin {"ABSENT", "DELETED"}
  /\ procs[x].row.version = events[procs[x].ev].version =>
       /\ procs[x].pc = "loaded" => Linked(procs[x].ev) \subseteq InAggregate(x)
       /\ procs[x].pc = "resolved" => Linked(procs[x].ev) \subseteq InAggregate(x) \cup procs[x].removed

AggregatesOK == \A x \in Procs : InFlight(x) => HoldsPhotos(x)

PhotosInv == LinksOK /\ OwnedOK /\ CreationsOK /\ AggregatesOK

(* Only a revision takes photos away. *)
RemovesOK == \A x \in Procs : procs[x].removed # {} => procs[x].op = "update"

-----------------------------------------------------------------------------
(* Commits find the row that was read. *)

(* How a step may move an event that exists: not at all, to a later version, *)
(* or, when its owner's account is erased, into the archive.                *)
Moves(e) ==
  /\ events'[e].org = events[e].org
  /\ \/ events'[e] = events[e]
     \/ events'[e].version > events[e].version
     \/ /\ events'[e] = Archive(events[e])
        /\ InUse(events[e].org) /\ ~InUse(events[e].org)'

LEMMA KeepRequest ==
  ASSUME TypeInv, TypeInv', NEW h \in Handlers, InFlight(h), SnapshotOK(h), RequestSees(h),
         procs'[h] = procs[h], NEW e \in Events, e = procs[h].ev, Moves(e),
         InUse(procs[h].org)'
  PROVE  RequestSees(h)'
<1> DEFINE row == procs[h].row
<1>1. row.version \in Nat /\ events[e].version \in Nat /\ events'[e].version \in Nat
  BY DEF TypeInv, TypeOK, Proc, EventRow, Procs
<1>2. row.version <= events[e].version
  BY DEF SnapshotOK
<1>3. row.version = events'[e].version => events'[e] = row
  <2>1. CASE events'[e] = events[e]
    BY <2>1 DEF RequestSees
  <2>2. CASE events'[e].version > events[e].version
    BY <1>1, <1>2, <2>2
  <2>3. InUse(events[e].org)'
    <3>1. events'[e].org = procs'[h].org
      BY DEF Moves, RequestSees
    <3>2. QED
      BY <3>1 DEF InUse
  <2>4. QED
    BY <2>1, <2>2, <2>3 DEF Moves
<1>4. events'[e].org = procs[h].org
  BY DEF Moves, RequestSees
<1>5. procs'[h].row = row /\ procs'[h].op = procs[h].op /\ procs'[h].org = procs[h].org /\ procs'[h].ev = e
  OBVIOUS
<1>6. QED
  BY <1>3, <1>4, <1>5 DEF RequestSees, Accepts

LEMMA KeepJob ==
  ASSUME TypeInv, TypeInv', NEW w \in Workers, InFlight(w), SnapshotOK(w), JobSees(w),
         procs'[w] = procs[w], NEW e \in Events, e = procs[w].ev, Moves(e),
         ~InUse(events[e].org) => ~InUse(events[e].org)'
  PROVE  JobSees(w)'
<1> DEFINE row == procs[w].row
<1>1. row.version \in Nat /\ events[e].version \in Nat /\ events'[e].version \in Nat
  BY DEF TypeInv, TypeOK, Proc, EventRow, Procs
<1>2. row.version <= events[e].version /\ events[e].org = row.org
  BY DEF SnapshotOK, JobSees
<1>3. row.version = events'[e].version =>
        events'[e] = row \/ (~InUse(row.org)' /\ events'[e] = Archive(row))
  <2>1. CASE events'[e] = events[e]
    BY <1>2, <2>1 DEF JobSees
  <2>2. CASE events'[e].version > events[e].version
    BY <1>1, <1>2, <2>2
  <2>3. CASE events'[e] = Archive(events[e]) /\ InUse(events[e].org) /\ ~InUse(events[e].org)'
    <3>1. events'[e].version = events[e].version
      BY <2>3 DEF Archive, TypeInv, TypeOK, EventRow
    <3>2. row.version = events[e].version => events[e] = row
      BY <1>2, <2>3 DEF JobSees
    <3>3. ~InUse(row.org)'
      <4>1. events'[e].org = row.org /\ procs'[w].row = procs[w].row
        BY <1>2 DEF Moves
      <4>2. QED
        BY <2>3, <4>1 DEF InUse
    <3>4. QED
      BY <2>3, <3>1, <3>2, <3>3
  <2>4. QED
    BY <2>1, <2>2, <2>3 DEF Moves
<1>4. events'[e].org = row.org
  BY <1>2 DEF Moves
<1>5. QED
  BY <1>3, <1>4 DEF JobSees

(* One process takes a step, and the events the others work on move.        *)
LEMMA OneCommits ==
  ASSUME TypeInv, TypeInv', Reviewing, CommitsInv, UNCHANGED erasure, RowsOK',
         NEW x \in Procs, \A y \in Procs \ {x} : procs'[y] = procs[y],
         \A e \in Events : Moves(e) \/ \A y \in Procs \ {x} : procs[y].ev # e,
         x \in Handlers /\ InFlight(x)' => RequestSees(x)',
         x \in Workers /\ InFlight(x)' => JobSees(x)',
         x \in Handlers /\ procs'[x].pc = "saving" =>
            procs'[x].org \in Organizers /\ erasure[procs'[x].org].stage = "no"
  PROVE  CommitsInv'
<1>1. \A o : InUse(o)' <=> InUse(o)
  BY DEF InUse
<1>2. ASSUME NEW y \in Procs \ {x}, InFlight(y)'
      PROVE  /\ procs'[y] = procs[y] /\ InFlight(y) /\ SnapshotOK(y)
             /\ procs[y].ev \in Events /\ Moves(procs[y].ev)
  <2>1. procs'[y] = procs[y] /\ InFlight(y)
    BY <1>2 DEF InFlight
  <2>2. SnapshotOK(y) /\ procs[y].ev \in Events
    BY <2>1 DEF Reviewing, SnapshotsOK, TypeInv, BusyOK, InFlight
  <2>3. QED
    BY <2>1, <2>2
<1>3. RequestsSee'
  <2>1. SUFFICES ASSUME NEW h \in Handlers, InFlight(h)' PROVE RequestSees(h)'
    BY DEF RequestsSee
  <2>2. CASE h # x
    <3>1. h \in Procs \ {x}
      BY <2>2 DEF Procs
    <3>2. /\ procs'[h] = procs[h] /\ InFlight(h) /\ SnapshotOK(h) /\ procs[h].ev \in Events
          /\ Moves(procs[h].ev)
      BY <1>2, <2>1, <3>1
    <3>3. RequestSees(h) /\ InUse(procs[h].org)
      BY <3>2 DEF CommitsInv, RequestsSee, RequestSees
    <3>4. InUse(procs[h].org)'
      BY <1>1, <3>2, <3>3 DEF InUse
    <3>5. PICK e \in Events : e = procs[h].ev
      BY <3>2
    <3>6. Moves(e)
      BY <3>2, <3>5
    <3>7. QED
      BY <3>2, <3>3, <3>4, <3>5, <3>6, KeepRequest
  <2>3. QED
    BY <2>1, <2>2
<1>4. JobsSee'
  <2>1. SUFFICES ASSUME NEW w \in Workers, InFlight(w)' PROVE JobSees(w)'
    BY DEF JobsSee
  <2>2. CASE w # x
    <3>1. w \in Procs \ {x}
      BY <2>2 DEF Procs
    <3>2. /\ procs'[w] = procs[w] /\ InFlight(w) /\ SnapshotOK(w) /\ procs[w].ev \in Events
          /\ Moves(procs[w].ev)
      BY <1>2, <2>1, <3>1
    <3>3. JobSees(w)
      BY <3>2 DEF CommitsInv, JobsSee
    <3>4. PICK e \in Events : e = procs[w].ev
      BY <3>2
    <3>5. Moves(e) /\ (~InUse(events[e].org) => ~InUse(events[e].org)')
      <4>1. events'[e].org = events[e].org /\ Moves(e)
        BY <3>2, <3>4 DEF Moves
      <4>2. QED
        BY <4>1 DEF InUse
    <3>6. QED
      BY <3>2, <3>3, <3>4, <3>5, KeepJob
  <2>3. QED
    BY <2>1, <2>2
<1>5. CreatorsOK'
  <2>1. SUFFICES ASSUME NEW h \in Handlers, procs'[h].pc = "saving"
                 PROVE  procs'[h].org \in Organizers /\ erasure'[procs'[h].org].stage = "no"
    BY DEF CreatorsOK, InUse
  <2>2. CASE h # x
    <3>1. h \in Procs \ {x}
      BY <2>2 DEF Procs
    <3>2. procs'[h] = procs[h]
      BY <3>1
    <3>3. procs[h].org \in Organizers /\ erasure[procs[h].org].stage = "no"
      BY <2>1, <3>2 DEF CommitsInv, CreatorsOK, InUse
    <3>4. QED
      BY <3>2, <3>3
  <2>3. CASE h = x
    <3>1. procs'[x].org \in Organizers /\ erasure[procs'[x].org].stage = "no"
      BY <2>1, <2>3
    <3>2. QED
      BY <2>3, <3>1
  <2>4. QED
    BY <2>2, <2>3
<1>6. QED
  BY <1>3, <1>4, <1>5 DEF CommitsInv

LEMMA UntouchedCommits ==
  ASSUME CommitsInv, events' = events, procs' = procs,
         \A o \in Organizers : erasure'[o].stage = "no" <=> erasure[o].stage = "no",
         TypeInv
  PROVE  CommitsInv'
<1>1. RowsOK'
  BY DEF CommitsInv, RowsOK
<1>2. CreatorsOK'
  BY DEF CommitsInv, CreatorsOK, InUse
<1>3. RequestsSee'
  BY DEF CommitsInv, RequestsSee, RequestSees, InFlight, InUse, Accepts
<1>4. JobsSee'
  <2>1. ASSUME NEW w \in Workers, InFlight(w) PROVE JobSees(w)'
    <3>1. JobSees(w) /\ procs[w].row \in EventRow
      BY <2>1 DEF CommitsInv, JobsSee, TypeInv, TypeOK, Proc, Procs
    <3>2. QED
      BY <3>1 DEF JobSees, InUse
  <2>2. QED
    BY <2>1 DEF JobsSee, InFlight
<1>5. QED
  BY <1>1, <1>2, <1>3, <1>4 DEF CommitsInv

(* A step of one process that leaves events and accounts alone. *)
LEMMA OneReads ==
  ASSUME TypeInv, TypeInv', Reviewing, CommitsInv, UNCHANGED <<events, erasure>>,
         NEW x \in Procs, \A y \in Procs \ {x} : procs'[y] = procs[y],
         x \in Handlers /\ InFlight(x)' => RequestSees(x)',
         x \in Workers /\ InFlight(x)' => JobSees(x)',
         x \in Handlers /\ procs'[x].pc = "saving" =>
            procs'[x].org \in Organizers /\ erasure[procs'[x].org].stage = "no"
  PROVE  CommitsInv'
<1>1. \A e \in Events : Moves(e)
  BY DEF Moves
<1>2. RowsOK'
  BY DEF CommitsInv, RowsOK
<1>3. QED
  BY <1>1, <1>2, OneCommits

LEMMA EndCommits ==
  ASSUME TypeInv, TypeInv', Reviewing, CommitsInv, UNCHANGED <<events, erasure>>,
         NEW x \in Procs, Become(x, Idle)
  PROVE  CommitsInv'
<1>1. procs'[x] = Idle /\ \A y \in Procs \ {x} : procs'[y] = procs[y]
  BY DEF Become, TypeInv, TypeOK
<1>2. ~InFlight(x)' /\ procs'[x].pc # "saving"
  BY <1>1 DEF InFlight, Idle
<1>3. QED
  BY <1>1, <1>2, OneReads

LEMMA FindPendingPhotosCommits ==
  ASSUME TypeInv, TypeInv', Reviewing, CommitsInv, NEW h \in Handlers, NEW o \in Organizers,
         NEW e \in Events, NEW ids \in SUBSET Photos, FindPendingPhotos(h, o, e, ids)
  PROVE  CommitsInv'
<1> DEFINE new == [Idle EXCEPT !.pc = "saving", !.op = "create", !.ev = e, !.org = o,
              !.shots = [p \in Photos |->
                IF p \in ids THEN [NoShot EXCEPT !.status = "UPLOADED"] ELSE NoShot]]
<1>1. h \in Procs /\ Become(h, new) /\ events' = events /\ erasure' = erasure
  BY DEF Procs, FindPendingPhotos
<1>2. new.pc = "saving" /\ new.org = o
  BY DEF Idle
<1> HIDE DEF new
<1>3. procs'[h] = new /\ \A y \in Procs \ {h} : procs'[y] = procs[y]
  BY <1>1 DEF Become, TypeInv, TypeOK
<1>4. ~InFlight(h)'
  BY <1>2, <1>3 DEF InFlight
<1>5. erasure[o].stage = "no"
  BY DEF FindPendingPhotos, InUse
<1>6. QED
  BY <1>1, <1>2, <1>3, <1>4, <1>5, OneReads

LEMMA LoadCommits ==
  ASSUME TypeInv, TypeInv', Reviewing, CommitsInv, NEW h \in Handlers, NEW op \in AllCommands,
         NEW o \in Organizers, NEW e \in Events, Load(h, op, o, e)
  PROVE  CommitsInv'
<1> DEFINE new == [Idle EXCEPT !.pc = "row", !.op = op, !.ev = e, !.org = o, !.row = events[e]]
<1>1. h \in Procs /\ h \notin Workers /\ Become(h, new) /\ events' = events /\ erasure' = erasure
  BY LifecycleAssumption DEF LifecycleAssumption, Procs, Load
<1>2. new.pc = "row" /\ new.ev = e /\ new.row = events[e] /\ new.op = op /\ new.org = o
  BY DEF Idle
<1> HIDE DEF new
<1>3. procs'[h] = new /\ \A y \in Procs \ {h} : procs'[y] = procs[y]
  BY <1>1 DEF Become, TypeInv, TypeOK
<1>4. /\ op \in AllCommands \ {"create"} /\ Accepts(op, events[e]) /\ events[e].version < MaxVersion
      /\ InUse(o) /\ events[e].org = o
  BY DEF Load
<1>5. RequestSees(h)'
  BY <1>1, <1>2, <1>3, <1>4 DEF RequestSees, InUse, Accepts
<1>6. procs'[h].pc # "saving"
  BY <1>2, <1>3
<1>7. QED
  BY <1>1, <1>3, <1>5, <1>6, OneReads

(* Reading the photos and working on them keeps the row. *)
LEMMA ContinueCommits ==
  ASSUME TypeInv, TypeInv', Reviewing, CommitsInv, UNCHANGED <<events, erasure>>,
         NEW x \in Procs, InFlight(x), NEW p, Become(x, p), p.pc # "saving",
         p.ev = procs[x].ev, p.row = procs[x].row, p.op = procs[x].op, p.org = procs[x].org
  PROVE  CommitsInv'
<1>1. procs'[x] = p /\ \A y \in Procs \ {x} : procs'[y] = procs[y]
  BY DEF Become, TypeInv, TypeOK
<1>2. ASSUME x \in Handlers PROVE RequestSees(x)'
  <2>1. RequestSees(x)
    BY <1>2 DEF CommitsInv, RequestsSee
  <2>2. QED
    BY <1>1, <2>1 DEF RequestSees, InUse, Accepts
<1>3. ASSUME x \in Workers PROVE JobSees(x)'
  <2>1. JobSees(x)
    BY <1>3 DEF CommitsInv, JobsSee
  <2>2. QED
    BY <1>1, <2>1 DEF JobSees, InUse
<1>4. QED
  BY <1>1, <1>2, <1>3, OneReads

LEMMA LoadPhotosCommits ==
  ASSUME TypeInv, TypeInv', Reviewing, CommitsInv, NEW x \in Procs, LoadPhotos(x)
  PROVE  CommitsInv'
<1> DEFINE shots == [p \in Photos |->
             IF photos[p].event = procs[x].ev THEN ShotOf(photos[p]) ELSE NoShot]
           new == [procs[x] EXCEPT !.pc = "loaded", !.shots = shots]
<1>1. Become(x, new) /\ events' = events /\ erasure' = erasure /\ InFlight(x)
  BY DEF LoadPhotos, InFlight
<1>2. procs[x] \in Proc
  BY DEF TypeInv, TypeOK
<1> HIDE DEF shots
<1>3. /\ new.pc = "loaded" /\ new.ev = procs[x].ev /\ new.row = procs[x].row
      /\ new.op = procs[x].op /\ new.org = procs[x].org
  BY <1>2 DEF Proc
<1> HIDE DEF new
<1>4. QED
  BY <1>1, <1>3, ContinueCommits

LEMMA ResolvePhotosCommits ==
  ASSUME TypeInv, TypeInv', Reviewing, CommitsInv, NEW h \in Handlers, NEW ids \in SUBSET Photos,
         ResolvePhotos(h, ids)
  PROVE  CommitsInv'
<1> DEFINE Resolved(p) == IF photos[p].status = "READY" /\ photos[p].key # None
                     THEN ShotOf(photos[p])
                     ELSE [ShotOf(photos[p]) EXCEPT !.status = "UPLOADED", !.key = None]
           shots == [p \in Photos |-> IF p \in ids THEN Resolved(p) ELSE NoShot]
           new == [procs[h] EXCEPT !.pc = "resolved", !.removed = InAggregate(h) \ ids,
                                   !.shots = shots]
<1>1. h \in Procs /\ Become(h, new) /\ events' = events /\ erasure' = erasure /\ InFlight(h)
  BY DEF Procs, ResolvePhotos, InFlight
<1>2. procs[h] \in Proc
  BY <1>1 DEF TypeInv, TypeOK
<1> HIDE DEF shots
<1>3. /\ new.pc = "resolved" /\ new.ev = procs[h].ev /\ new.row = procs[h].row
      /\ new.op = procs[h].op /\ new.org = procs[h].org
  BY <1>2 DEF Proc
<1> HIDE DEF new
<1>4. QED
  BY <1>1, <1>3, ContinueCommits

LEMMA CopyPhotoCommits ==
  ASSUME TypeInv, TypeInv', Reviewing, CommitsInv, NEW w \in Workers, NEW p \in Photos,
         CopyPhoto(w, p)
  PROVE  CommitsInv'
<1> DEFINE new == [procs[w] EXCEPT !.shots[p].status = "READY", !.shots[p].key = procs[w].ev]
<1>1. w \in Procs /\ Become(w, new) /\ events' = events /\ erasure' = erasure /\ InFlight(w)
  BY DEF Procs, CopyPhoto, InFlight
<1>2. procs[w] \in Proc /\ procs[w].pc = "loaded"
  BY <1>1 DEF TypeInv, TypeOK, CopyPhoto
<1>3. /\ new.pc = "loaded" /\ new.ev = procs[w].ev /\ new.row = procs[w].row
      /\ new.op = procs[w].op /\ new.org = procs[w].org
  BY <1>2 DEF Proc
<1> HIDE DEF new
<1>4. QED
  BY <1>1, <1>3, ContinueCommits

LEMMA TakeCommits ==
  ASSUME TypeInv, TypeInv', Reviewing, CommitsInv, NEW w \in Workers, NEW r \in Rows, Take(w, r)
  PROVE  CommitsInv'
<1>0. w \in Procs /\ w \notin Handlers /\ r[1] \in Events /\ events' = events /\ erasure' = erasure
  BY LifecycleAssumption DEF LifecycleAssumption, Procs, Rows, Take
<1>1. CASE events[r[1]].status = "UPLOADED" /\ ~events[r[1]].archived
  <2> DEFINE new == [Idle EXCEPT !.pc = "row", !.op = "process", !.ev = r[1],
                          !.org = events[r[1]].org, !.row = events[r[1]], !.job = r]
  <2>1. Become(w, new)
    BY <1>1 DEF Take
  <2>2. new.pc = "row" /\ new.ev = r[1] /\ new.row = events[r[1]] /\ new.op = "process"
    BY DEF Idle
  <2> HIDE DEF new
  <2>3. procs'[w] = new /\ \A y \in Procs \ {w} : procs'[y] = procs[y]
    BY <1>0, <2>1 DEF Become, TypeInv, TypeOK
  <2>4. events[r[1]].org \in Organizers
    BY <1>0, <1>1 DEF CommitsInv, RowsOK
  <2>5. JobSees(w)'
    BY <1>0, <1>1, <2>2, <2>3, <2>4 DEF JobSees
  <2>6. QED
    BY <1>0, <2>3, <2>5, OneReads
<1>2. CASE ~(events[r[1]].status = "UPLOADED" /\ ~events[r[1]].archived)
  <2>1. procs' = procs
    BY <1>2 DEF Take
  <2>2. QED
    BY <1>0, <2>1, UntouchedCommits
<1>3. QED
  BY <1>1, <1>2

(* What the aggregate's transitions do to the fields of a row. *)
LEMMA AppliedFields ==
  ASSUME NEW row \in EventRow,
         NEW op \in {"update", "resubmit", "publish", "cancel", "archive", "process"}
  PROVE  /\ Applied(op, row).org = row.org
         /\ Applied(op, row).version = row.version
         /\ Applied(op, row).rev = IF op = "update" THEN row.version + 1 ELSE row.rev
         /\ Applied(op, row).archived = IF op = "archive" THEN TRUE ELSE row.archived
         /\ op = "update" => Applied(op, row).status = "DRAFT"
         /\ op = "resubmit" => Applied(op, row).status = "UPLOADED"
         /\ op = "publish" => Applied(op, row).status = "PUBLISHED"
         /\ op \in {"cancel", "archive"} => Applied(op, row).status = "CANCELLED"
         /\ op = "process" => Applied(op, row).status = "READY"
<1>1. CASE op = "update"
  BY <1>1 DEF Applied, Revise, EventRow
<1>2. CASE op = "resubmit"
  BY <1>2 DEF Applied, Resubmit, EventRow
<1>3. CASE op = "publish"
  BY <1>3 DEF Applied, Publish, EventRow
<1>4. CASE op = "cancel"
  BY <1>4 DEF Applied, Cancel, EventRow
<1>5. CASE op = "archive"
  BY <1>5 DEF Applied, Archive, EventRow
<1>6. CASE op = "process"
  BY <1>6 DEF Applied, Approve, EventRow
<1>7. QED
  BY <1>1, <1>2, <1>3, <1>4, <1>5, <1>6

(* The row that a commit of op leaves behind, made of the row it had read. *)
Committed(e, op, row) ==
  /\ events'[e].org = row.org
  /\ events'[e].version = row.version + 1
  /\ events'[e].rev = IF op = "update" THEN row.version + 1 ELSE row.rev
  /\ events'[e].archived = IF op = "archive" THEN TRUE ELSE row.archived
  /\ op = "update" => events'[e].status = "DRAFT"
  /\ op = "resubmit" => events'[e].status = "UPLOADED"
  /\ op = "publish" => events'[e].status = "PUBLISHED"
  /\ op \in {"cancel", "archive"} => events'[e].status = "CANCELLED"
  /\ op = "process" => events'[e].status = "READY"

LEMMA CommittedRow ==
  ASSUME TypeInv, NEW x \in Procs, InFlight(x), CommitRow(x),
         NEW e, NEW op, NEW row, e = procs[x].ev, op = procs[x].op, row = procs[x].row,
         op \in {"update", "resubmit", "publish", "cancel", "archive", "process"}
  PROVE  /\ e \in Events /\ row \in EventRow
         /\ \A f \in Events \ {e} : events'[f] = events[f]
         /\ Committed(e, op, row)
<1>1. e \in Events /\ row \in EventRow
  BY DEF InFlight, TypeInv, TypeOK, BusyOK, Proc
<1>2. PICK new : new = Applied(op, row)
  OBVIOUS
<1>3. new \in EventRow
  BY <1>1, <1>2, AppliedType
<1>4. /\ events'[e] = [new EXCEPT !.version = @ + 1]
      /\ \A f \in Events \ {e} : events'[f] = events[f]
  BY <1>1, <1>2 DEF CommitRow, TypeInv, TypeOK
<1>5. /\ events'[e].org = new.org /\ events'[e].version = new.version + 1
      /\ events'[e].rev = new.rev /\ events'[e].archived = new.archived
      /\ events'[e].status = new.status
  BY <1>3, <1>4 DEF EventRow
<1>6. /\ new.org = row.org /\ new.version = row.version
      /\ new.rev = IF op = "update" THEN row.version + 1 ELSE row.rev
      /\ new.archived = IF op = "archive" THEN TRUE ELSE row.archived
      /\ op = "update" => new.status = "DRAFT"
      /\ op = "resubmit" => new.status = "UPLOADED"
      /\ op = "publish" => new.status = "PUBLISHED"
      /\ op \in {"cancel", "archive"} => new.status = "CANCELLED"
      /\ op = "process" => new.status = "READY"
  BY ONLY <1>1, <1>2, AppliedFields, op \in {"update", "resubmit", "publish", "cancel", "archive", "process"}
<1>7. events'[e].archived = IF op = "archive" THEN TRUE ELSE row.archived
  BY <1>5, <1>6
<1>8. QED
  BY <1>1, <1>4, <1>5, <1>6, <1>7 DEF Committed

LEMMA CommitCommits ==
  ASSUME TypeInv, TypeInv', Reviewing, CommitsInv, UNCHANGED erasure,
         NEW x \in Procs, InFlight(x), VersionMatches(x), CommitRow(x),
         procs[x].op \in {"update", "resubmit", "publish", "cancel", "archive", "process"}
  PROVE  CommitsInv'
<1>0. PICK e, op, row : e = procs[x].ev /\ op = procs[x].op /\ row = procs[x].row
  OBVIOUS
<1>1. /\ e \in Events /\ row \in EventRow
      /\ \A f \in Events \ {e} : events'[f] = events[f]
      /\ events'[e].org = row.org
      /\ events'[e].version = row.version + 1
      /\ events'[e].rev = IF op = "update" THEN row.version + 1 ELSE row.rev
      /\ events'[e].status # "NONE"
      /\ events'[e].status = "UPLOADED" => op = "resubmit"
  <2>1. op \in {"update", "resubmit", "publish", "cancel", "archive", "process"}
    BY <1>0
  <2>2. /\ e \in Events /\ row \in EventRow
        /\ \A f \in Events \ {e} : events'[f] = events[f]
        /\ Committed(e, op, row)
    BY <1>0, <2>1, CommittedRow
  <2>3. QED
    BY <2>1, <2>2 DEF Committed
<1>2. events[e].version = row.version /\ events[e].rev = row.rev
  BY <1>0 DEF VersionMatches, Reviewing, SnapshotsOK, SnapshotOK
<1>3. /\ events[e].org = row.org /\ row.org \in Organizers
      /\ op # "process" => row.version < MaxVersion
  <2>1. CASE x \in Handlers
    <3>1. RequestSees(x)
      BY <2>1 DEF CommitsInv, RequestsSee
    <3>2. QED
      BY <1>0, <1>2, <3>1 DEF RequestSees
  <2>2. CASE x \in Workers
    <3>1. JobSees(x)
      BY <2>2 DEF CommitsInv, JobsSee
    <3>2. QED
      BY <1>0, <1>2, <3>1 DEF JobSees
  <2>3. QED
    BY <2>1, <2>2 DEF Procs
<1>4. row.version \in Nat /\ row.rev \in Nat /\ MaxVersion \in Nat
  BY <1>1, LifecycleAssumption DEF EventRow, LifecycleAssumption
<1>5. RowsOK'
  <2>1. row.rev <= row.version
    BY <1>1, <1>2 DEF CommitsInv, RowsOK
  <2>2. events'[e].rev <= events'[e].version
    BY <1>1, <1>4, <2>1
  <2>3. events'[e].status = "UPLOADED" => events'[e].version <= MaxVersion
    BY <1>1, <1>3, <1>4
  <2>4. \A f \in Events \ {e} :
          /\ events'[f].status = "NONE" => events'[f] = NoEvent
          /\ events'[f].status # "NONE" => events'[f].org \in Organizers
          /\ events'[f].rev <= events'[f].version
          /\ events'[f].status = "UPLOADED" => events'[f].version <= MaxVersion
    BY <1>1 DEF CommitsInv, RowsOK
  <2>5. QED
    BY <1>1, <1>3, <2>2, <2>3, <2>4 DEF RowsOK
<1>6. \A f \in Events : Moves(f)
  <2>1. events'[e].version > events[e].version
    BY <1>1, <1>2, <1>4
  <2>2. QED
    BY <1>1, <1>3, <2>1 DEF Moves
<1>7. procs'[x].pc = "invalidate" /\ \A y \in Procs \ {x} : procs'[y] = procs[y]
  <2>1. procs[x] \in Proc
    BY DEF TypeInv, TypeOK
  <2>2. QED
    BY <2>1 DEF CommitRow, Become, TypeInv, TypeOK, Proc
<1>8. ~InFlight(x)' /\ procs'[x].pc # "saving"
  BY <1>7 DEF InFlight
<1>9. QED
  BY <1>5, <1>6, <1>7, <1>8, OneCommits

LEMMA SaveCommits ==
  ASSUME TypeInv, TypeInv', Reviewing, CommitsInv, NEW h \in Handlers, Save(h)
  PROVE  CommitsInv'
<1>0. PICK e : e = procs[h].ev
  OBVIOUS
<1>1. /\ h \in Procs /\ e \in Events /\ events[e].status = "NONE"
      /\ \A y \in Procs \ {h} : procs[y].ev # e
  BY <1>0 DEF Procs, Save, Reviewing, SavingOK, TypeInv, BusyOK
<1>2. /\ events'[e] = Created(procs[h].org) /\ erasure' = erasure
      /\ \A f \in Events \ {e} : events'[f] = events[f]
  BY <1>0, <1>1 DEF Save, TypeInv, TypeOK
<1>3. /\ events'[e].status = "UPLOADED" /\ events'[e].version = 0 /\ events'[e].rev = 0
      /\ events'[e].org \in Organizers
  <2>1. procs[h].org \in Organizers
    BY DEF CommitsInv, CreatorsOK, Save
  <2>2. QED
    BY <1>2, <2>1 DEF Created, NoEvent
<1>4. procs'[h] = Idle /\ \A y \in Procs \ {h} : procs'[y] = procs[y]
  BY <1>1 DEF Save, Become, TypeInv, TypeOK
<1>5. ~InFlight(h)' /\ procs'[h].pc # "saving"
  BY <1>4 DEF Idle, InFlight
<1>6. RowsOK'
  BY <1>1, <1>2, <1>3, LifecycleAssumption DEF CommitsInv, RowsOK, LifecycleAssumption
<1>7. \A f \in Events : Moves(f) \/ \A y \in Procs \ {h} : procs[y].ev # f
  BY <1>1, <1>2 DEF Moves
<1>8. QED
  BY <1>1, <1>2, <1>4, <1>5, <1>6, <1>7, OneCommits

LEMMA EraseCommits ==
  ASSUME TypeInv, TypeInv', Reviewing, CommitsInv, NEW o \in Organizers, EraseDomainData(o)
  PROVE  CommitsInv'
<1>1. /\ procs' = procs /\ InUse(o) /\ \A h \in Handlers : procs[h].org # o
      /\ erasure'[o].stage = "archived"
      /\ \A u \in Organizers \ {o} : erasure'[u] = erasure[u]
  BY DEF EraseDomainData, TypeInv, TypeOK
<1>2. \A e \in Events : events'[e] = IF events[e].org = o THEN Archive(events[e]) ELSE events[e]
  BY DEF EraseDomainData, TypeInv, TypeOK
<1>3. ASSUME NEW e \in Events
      PROVE  /\ Moves(e)
             /\ events'[e].version = events[e].version /\ events'[e].rev = events[e].rev
             /\ events[e].org = o => events'[e].status = "CANCELLED"
  <2>1. CASE events[e].org = o
    <3>1. events'[e] = Archive(events[e]) /\ events[e] \in EventRow
      BY <1>2, <2>1 DEF TypeInv, TypeOK
    <3>2. /\ events'[e].org = o /\ events'[e].version = events[e].version
          /\ events'[e].rev = events[e].rev /\ events'[e].status = "CANCELLED"
      BY <2>1, <3>1 DEF Archive, EventRow
    <3>3. InUse(events[e].org) /\ ~InUse(events[e].org)'
      BY <1>1, <2>1, <3>2 DEF InUse
    <3>4. QED
      BY <2>1, <3>1, <3>2, <3>3 DEF Moves
  <2>2. CASE events[e].org # o
    BY <1>2, <2>2 DEF Moves
  <2>3. QED
    BY <2>1, <2>2
<1>4. RowsOK'
  BY <1>2, <1>3 DEF CommitsInv, RowsOK, Moves
<1>5. RequestsSee'
  <2>1. SUFFICES ASSUME NEW h \in Handlers, InFlight(h) PROVE RequestSees(h)'
    BY <1>1 DEF RequestsSee, InFlight
  <2>2. h \in Procs /\ SnapshotOK(h) /\ RequestSees(h) /\ procs'[h] = procs[h]
    BY <1>1, <2>1 DEF Reviewing, SnapshotsOK, CommitsInv, RequestsSee, Procs
  <2>3. PICK e \in Events : e = procs[h].ev
    BY <2>1, <2>2 DEF TypeInv, BusyOK, InFlight
  <2>4. InUse(procs[h].org)'
    <3>1. procs[h].org \in Organizers \ {o} /\ InUse(procs[h].org)
      BY <1>1, <2>2 DEF RequestSees
    <3>2. QED
      BY <1>1, <3>1 DEF InUse
  <2>5. Moves(e)
    BY <1>3
  <2>6. QED
    BY <2>1, <2>2, <2>3, <2>4, <2>5, KeepRequest
<1>6. JobsSee'
  <2>1. SUFFICES ASSUME NEW w \in Workers, InFlight(w) PROVE JobSees(w)'
    BY <1>1 DEF JobsSee, InFlight
  <2>2. w \in Procs /\ SnapshotOK(w) /\ JobSees(w) /\ procs'[w] = procs[w]
    BY <1>1, <2>1 DEF Reviewing, SnapshotsOK, CommitsInv, JobsSee, Procs
  <2>3. PICK e \in Events : e = procs[w].ev
    BY <2>1, <2>2 DEF TypeInv, BusyOK, InFlight
  <2>4. Moves(e) /\ events'[e].org = events[e].org /\ events[e].org \in Organizers
    BY <1>3, <2>2, <2>3 DEF Moves, JobSees
  <2>5. ~InUse(events[e].org) => ~InUse(events[e].org)'
    <3>1. \A u \in Organizers : erasure[u].stage # "no" => erasure'[u].stage # "no"
      BY <1>1
    <3>2. QED
      BY <2>4, <3>1 DEF InUse
  <2>6. QED
    BY <2>1, <2>2, <2>3, <2>4, <2>5, KeepJob
<1>7. CreatorsOK'
  BY <1>1 DEF CommitsInv, CreatorsOK, InUse
<1>8. QED
  BY <1>4, <1>5, <1>6, <1>7 DEF CommitsInv

LEMMA NextCommits == TypeInv /\ TypeInv' /\ Reviewing /\ CommitsInv /\ [Next]_vars => CommitsInv'
<1> SUFFICES ASSUME TypeInv, TypeInv', Reviewing, CommitsInv, [Next]_vars PROVE CommitsInv'
  OBVIOUS
<1>1. CASE \E o \in Organizers, ids \in SUBSET Photos : RequestPhotoUploads(o, ids)
  BY <1>1, UntouchedCommits DEF RequestPhotoUploads
<1>2. CASE \E p \in Photos : Upload(p)
  BY <1>2, UntouchedCommits DEF Upload
<1>3. ASSUME NEW h \in Handlers, HandlerStep(h) PROVE CommitsInv'
  <2>1. CASE Abandon(h) \/ Invalidate(h)
    BY <2>1, EndCommits DEF Abandon, Invalidate, Procs
  <2>2. CASE Update(h)
    BY <2>2, CommitCommits DEF Update, InFlight, Procs
  <2>3. CASE PublishEvent(h)
    BY <2>3, CommitCommits DEF PublishEvent, UpdateLifecycle, InFlight, Procs
  <2>4. QED
    BY <1>3, <2>1, <2>2, <2>3, FindPendingPhotosCommits, SaveCommits, LoadCommits,
       ResolvePhotosCommits DEF HandlerStep
<1>4. CASE \E x \in Procs : LoadPhotos(x)
  BY <1>4, LoadPhotosCommits
<1>5. ASSUME NEW w \in Workers, WorkerStep(w) PROVE CommitsInv'
  <2>1. CASE FailAttempt(w) \/ CompleteJob(w) \/ WorkerDies(w)
    BY <2>1, EndCommits DEF FailAttempt, CompleteJob, WorkerDies, Procs
  <2>2. CASE ApproveEvent(w)
    BY <2>2, CommitCommits DEF ApproveEvent, UpdateLifecycle, InFlight, Procs
  <2>3. QED
    BY <1>5, <2>1, <2>2, TakeCommits, CopyPhotoCommits DEF WorkerStep
<1>6. ASSUME NEW d \in Dispatchers, DispatcherStep(d) PROVE CommitsInv'
  BY <1>6, UntouchedCommits
     DEF DispatcherStep, ClaimBatch, AddJob, MarkProcessed, DispatchFails
<1>7. CASE \E r \in Rows : Stall(r) \/ RemoveFinished(r)
  BY <1>7, UntouchedCommits DEF Stall, RemoveFinished
<1>8. ASSUME NEW o \in Organizers, ErasureStep(o) PROVE CommitsInv'
  <2>1. CASE EraseDomainData(o)
    BY <2>1, EraseCommits
  <2>2. CASE EraseCaches(o)
    <3>1. \A u \in Organizers : erasure'[u].stage = "no" <=> erasure[u].stage = "no"
      BY <2>2 DEF EraseCaches, TypeInv, TypeOK
    <3>2. QED
      BY <2>2, <3>1, UntouchedCommits DEF EraseCaches
  <2>3. ASSUME NEW p \in Photos, EraseObject(o, p) PROVE CommitsInv'
    <3>1. \A u \in Organizers : erasure'[u].stage = "no" <=> erasure[u].stage = "no"
      BY <2>3 DEF EraseObject, TypeInv, TypeOK
    <3>2. QED
      BY <2>3, <3>1, UntouchedCommits DEF EraseObject
  <2>4. QED
    BY <1>8, <2>1, <2>2, <2>3 DEF ErasureStep
<1>9. CASE UNCHANGED vars
  BY <1>9, UntouchedCommits DEF vars
<1>10. QED
  BY <1>1, <1>2, <1>3, <1>4, <1>5, <1>6, <1>7, <1>8, <1>9 DEF Next

LEMMA InitCommits == Init => CommitsInv
<1> SUFFICES ASSUME Init PROVE CommitsInv
  OBVIOUS
<1>1. \A x \in Procs : procs[x].pc = "idle"
  BY DEF Init, Idle
<1>2. RowsOK
  BY DEF Init, RowsOK, NoEvent
<1>3. QED
  BY <1>1, <1>2 DEF CommitsInv, CreatorsOK, RequestsSee, JobsSee, InFlight, Procs

(* CommitsInv is an inductive invariant on top of those that ReviewInv      *)
(* names, and the strengthening that the theorems below rest on.            *)
Base == TypeInv /\ Reviewing /\ CommitsInv

LEMMA BaseInductive == /\ Init => Base
                       /\ Base /\ [Next]_vars => Base'
<1>1. Init => Base
  BY InitType, InitReviewing, InitCommits DEF Base
<1>2. ASSUME Base, [Next]_vars PROVE Base'
  <2>1. TypeInv'
    BY <1>2, NextType DEF Base
  <2>2. Reviewing'
    BY <1>2, <2>1, NextReviewing DEF Base
  <2>3. CommitsInv'
    BY <1>2, <2>1, NextCommits DEF Base
  <2>4. QED
    BY <2>1, <2>2, <2>3 DEF Base
<1>3. QED
  BY <1>1, <1>2

-----------------------------------------------------------------------------
(* The public map. *)

Owed ==
  \/ \E h \in Handlers : procs[h].pc = "invalidate" /\ BumpsMap(procs[h])
  \/ \E o \in Organizers : erasure[o].stage = "archived"

LEMMA KeepOwed ==
  ASSUME Owed, NEW x, \A y \in Procs \ {x} : procs'[y] = procs[y],
         x \in Handlers => procs[x].pc # "invalidate" \/ ~BumpsMap(procs[x]),
         \A o \in Organizers : erasure[o].stage = "archived" => erasure'[o].stage = "archived"
  PROVE  Owed'
<1>1. CASE \E o \in Organizers : erasure[o].stage = "archived"
  BY <1>1 DEF Owed
<1>2. ASSUME NEW h \in Handlers, procs[h].pc = "invalidate" /\ BumpsMap(procs[h])
      PROVE  Owed'
  <2>1. h \in Procs \ {x}
    BY <1>2 DEF Procs
  <2>2. procs'[h] = procs[h]
    BY <2>1
  <2>3. procs'[h].pc = "invalidate" /\ BumpsMap(procs'[h])
    BY <1>2, <2>2
  <2>4. QED
    BY <2>3 DEF Owed
<1>3. QED
  BY <1>1, <1>2 DEF Owed

(* A step of one process that takes no part in invalidations. *)
LEMMA OneAnnounces ==
  ASSUME TypeInv, MapChangeIsAnnounced, staleMap' = staleMap, erasure' = erasure,
         NEW x \in Procs, NEW p, Become(x, p), procs[x].pc # "invalidate"
  PROVE  MapChangeIsAnnounced'
<1>1. \A y \in Procs \ {x} : procs'[y] = procs[y]
  BY DEF Become, TypeInv, TypeOK
<1>2. Owed => Owed'
  BY <1>1, KeepOwed
<1>3. QED
  BY <1>2 DEF MapChangeIsAnnounced, Owed

(* Before a request commits, the row it remembers is visible iff the row of *)
(* the table is; none but a publication makes it visible.                   *)
LEMMA RequestAnnounces ==
  ASSUME Base, Base', MapChangeIsAnnounced, UNCHANGED erasure,
         NEW h \in Handlers, InFlight(h), VersionMatches(h), CommitRow(h),
         procs[h].op \in {"update", "resubmit", "publish", "cancel", "archive"}
  PROVE  MapChangeIsAnnounced'
<1>0. PICK e, op, row : e = procs[h].ev /\ op = procs[h].op /\ row = procs[h].row
  OBVIOUS
<1>1. h \in Procs /\ procs[h] \in Proc
  BY DEF Procs, Base, TypeInv, TypeOK
<1>2. op \in {"update", "resubmit", "publish", "cancel", "archive", "process"} /\ op \in AllCommands
  BY <1>0 DEF AllCommands
<1>3. e \in Events /\ row \in EventRow /\ Committed(e, op, row)
  BY <1>0, <1>1, <1>2, CommittedRow DEF Base
<1>4. events[e] = row
  BY <1>0 DEF VersionMatches, Base, CommitsInv, RequestsSee, RequestSees
<1>5. /\ procs'[h] = [procs[h] EXCEPT !.pc = "invalidate", !.shots = NoShots, !.removed = {}]
      /\ \A y \in Procs \ {h} : procs'[y] = procs[y]
  BY <1>1 DEF CommitRow, Become, Base, TypeInv, TypeOK
<1>6. procs'[h].pc = "invalidate" /\ procs'[h].op = op /\ procs'[h].row = row
  BY <1>0, <1>1, <1>5 DEF Proc
<1>7. CASE MapVisible(row) \/ op = "publish"
  <2>1. BumpsMap(procs'[h])
    BY <1>2, <1>6, <1>7 DEF BumpsMap
  <2>2. Owed'
    BY <1>6, <2>1 DEF Owed
  <2>3. QED
    BY <2>2 DEF MapChangeIsAnnounced, Owed
<1>8. CASE ~MapVisible(row) /\ op # "publish"
  <2>1. ~MapVisible(events'[e])
    BY <1>0, <1>3, <1>8 DEF Committed, MapVisible
  <2>2. MapVisible(events[procs[h].ev]) <=> FALSE
    BY <1>0, <1>4, <1>8
  <2>3. events'[e] = [Applied(procs[h].op, procs[h].row) EXCEPT !.version = @ + 1]
    BY <1>0, <1>3 DEF CommitRow, Base, TypeInv, TypeOK
  <2>4. staleMap' = staleMap
    <3>1. PICK new : new = [Applied(procs[h].op, procs[h].row) EXCEPT !.version = @ + 1]
      OBVIOUS
    <3>2. MapVisible(new) <=> FALSE
      BY <2>1, <2>3, <3>1
    <3>3. staleMap' = IF MapVisible(events[procs[h].ev]) # MapVisible(new)
                      THEN staleMap \cup {procs[h].ev} ELSE staleMap
      BY <3>1 DEF CommitRow
    <3>4. ~(MapVisible(events[procs[h].ev]) # MapVisible(new))
      BY <2>2, <3>2 DEF MapVisible
    <3>5. QED
      BY <3>3, <3>4
  <2>5. procs[h].pc # "invalidate"
    BY DEF InFlight
  <2>6. Owed => Owed'
    BY <1>5, <2>5, KeepOwed
  <2>7. QED
    BY <2>4, <2>6 DEF MapChangeIsAnnounced, Owed
<1>9. QED
  BY <1>7, <1>8

(* An approval changes nothing on the map: what it writes is READY, and     *)
(* what it replaces is in review or archived.                               *)
LEMMA ApproveAnnounces ==
  ASSUME Base, Base', MapChangeIsAnnounced, NEW w \in Workers, ApproveEvent(w)
  PROVE  MapChangeIsAnnounced'
<1>0. PICK e, op, row : e = procs[w].ev /\ op = procs[w].op /\ row = procs[w].row
  OBVIOUS
<1>1. /\ w \in Procs /\ w \notin Handlers /\ InFlight(w) /\ CommitRow(w) /\ VersionMatches(w)
      /\ op = "process" /\ erasure' = erasure
  BY <1>0, LifecycleAssumption
     DEF LifecycleAssumption, ApproveEvent, UpdateLifecycle, InFlight, Procs
<1>2. e \in Events /\ row \in EventRow /\ Committed(e, op, row)
  BY <1>0, <1>1, CommittedRow DEF Base
<1>3. ~MapVisible(events'[e])
  BY <1>1, <1>2 DEF Committed, MapVisible
<1>4. row.status = "UPLOADED" /\ (events[e] = row \/ events[e] = Archive(row))
  BY <1>0, <1>1 DEF VersionMatches, Base, CommitsInv, JobsSee, JobSees
<1>5. ~MapVisible(events[e])
  <2>1. Archive(row).status = "CANCELLED"
    BY <1>2 DEF Archive, EventRow
  <2>2. events[e].status # "PUBLISHED"
    BY <1>4, <2>1
  <2>3. QED
    BY <2>2 DEF MapVisible
<1>6. staleMap' = staleMap
  <2>1. events'[e] = [Applied(procs[w].op, procs[w].row) EXCEPT !.version = @ + 1]
    BY <1>0, <1>1, <1>2 DEF CommitRow, Base, TypeInv, TypeOK
  <2>2. PICK new : new = [Applied(procs[w].op, procs[w].row) EXCEPT !.version = @ + 1]
    OBVIOUS
  <2>3. (MapVisible(new) <=> FALSE) /\ (MapVisible(events[procs[w].ev]) <=> FALSE)
    BY <1>0, <1>3, <1>5, <2>1, <2>2
  <2>4. staleMap' = IF MapVisible(events[procs[w].ev]) # MapVisible(new)
                    THEN staleMap \cup {procs[w].ev} ELSE staleMap
    BY <1>1, <2>2 DEF CommitRow
  <2>5. ~(MapVisible(events[procs[w].ev]) # MapVisible(new))
    BY <2>3 DEF MapVisible
  <2>6. QED
    BY <2>4, <2>5
<1>7. \A y \in Procs \ {w} : procs'[y] = procs[y]
  BY <1>1 DEF CommitRow, Become, Base, TypeInv, TypeOK
<1>8. Owed => Owed'
  BY <1>1, <1>7, KeepOwed
<1>9. QED
  BY <1>6, <1>8 DEF MapChangeIsAnnounced, Owed

LEMMA InvalidateAnnounces ==
  ASSUME Base, Base', MapChangeIsAnnounced, NEW h \in Handlers, Invalidate(h)
  PROVE  MapChangeIsAnnounced'
<1>1. /\ h \in Procs /\ erasure' = erasure
      /\ \A y \in Procs \ {h} : procs'[y] = procs[y]
  BY DEF Invalidate, Become, Procs, Base, TypeInv, TypeOK
<1>2. CASE CacheFaults
  BY <1>2 DEF MapChangeIsAnnounced
<1>3. CASE ~CacheFaults /\ BumpsMap(procs[h])
  <2>1. staleMap' = {}
    BY <1>3 DEF Invalidate, Purge, LoseInvalidation
  <2>2. QED
    BY <2>1 DEF MapChangeIsAnnounced
<1>4. CASE ~CacheFaults /\ ~BumpsMap(procs[h])
  <2>1. staleMap' = staleMap
    BY <1>4 DEF Invalidate, Purge, LoseInvalidation
  <2>2. Owed => Owed'
    BY <1>1, <1>4, KeepOwed
  <2>3. QED
    BY <2>1, <2>2 DEF MapChangeIsAnnounced, Owed
<1>5. QED
  BY <1>2, <1>3, <1>4

LEMMA CompleteJobAnnounces ==
  ASSUME Base, Base', MapChangeIsAnnounced, NEW w \in Workers, CompleteJob(w)
  PROVE  MapChangeIsAnnounced'
<1>1. /\ w \in Procs /\ w \notin Handlers /\ erasure' = erasure
      /\ \A y \in Procs \ {w} : procs'[y] = procs[y]
  BY LifecycleAssumption
     DEF LifecycleAssumption, CompleteJob, Become, Procs, Base, TypeInv, TypeOK
<1>2. ~BumpsMap(procs[w])
  BY DEF CompleteJob, BumpsMap, AllCommands
<1>3. staleMap' = staleMap
  BY <1>2 DEF CompleteJob, Purge, LoseInvalidation
<1>4. Owed => Owed'
  BY <1>1, KeepOwed
<1>5. QED
  BY <1>3, <1>4 DEF MapChangeIsAnnounced, Owed

LEMMA EraseAnnounces ==
  ASSUME Base, Base', MapChangeIsAnnounced, NEW o \in Organizers, ErasureStep(o)
  PROVE  MapChangeIsAnnounced'
<1>1. CASE EraseDomainData(o)
  <2>1. erasure'[o].stage = "archived"
    BY <1>1 DEF EraseDomainData, Base, TypeInv, TypeOK
  <2>2. QED
    BY <2>1 DEF MapChangeIsAnnounced
<1>2. CASE EraseCaches(o)
  BY <1>2 DEF EraseCaches, LoseInvalidation, MapChangeIsAnnounced
<1>3. ASSUME NEW p \in Photos, EraseObject(o, p) PROVE MapChangeIsAnnounced'
  <2>1. procs' = procs /\ staleMap' = staleMap
    BY <1>3 DEF EraseObject
  <2>2. \A u \in Organizers : erasure'[u].stage = erasure[u].stage
    BY <1>3 DEF EraseObject, Base, TypeInv, TypeOK
  <2>3. QED
    BY <2>1, <2>2 DEF MapChangeIsAnnounced
<1>4. QED
  BY <1>1, <1>2, <1>3 DEF ErasureStep

LEMMA QuietAnnounces ==
  ASSUME MapChangeIsAnnounced, procs' = procs, staleMap' = staleMap, erasure' = erasure
  PROVE  MapChangeIsAnnounced'
BY DEF MapChangeIsAnnounced

LEMMA NextAnnounces == Base /\ Base' /\ MapChangeIsAnnounced /\ [Next]_vars => MapChangeIsAnnounced'
<1> SUFFICES ASSUME Base, Base', MapChangeIsAnnounced, [Next]_vars PROVE MapChangeIsAnnounced'
  OBVIOUS
<1>0. TypeInv
  BY DEF Base
<1>1. CASE \E o \in Organizers, ids \in SUBSET Photos : RequestPhotoUploads(o, ids)
  BY <1>1, QuietAnnounces DEF RequestPhotoUploads
<1>2. CASE \E p \in Photos : Upload(p)
  BY <1>2, QuietAnnounces DEF Upload
<1>3. ASSUME NEW h \in Handlers, HandlerStep(h) PROVE MapChangeIsAnnounced'
  <2>0. h \in Procs
    BY DEF Procs
  <2>1. CASE \E o \in Organizers, e \in Events, ids \in SUBSET Photos : FindPendingPhotos(h, o, e, ids)
    BY <1>0, <2>0, <2>1, OneAnnounces DEF FindPendingPhotos
  <2>2. CASE Save(h)
    BY <1>0, <2>0, <2>2, OneAnnounces DEF Save
  <2>3. CASE \E op \in AllCommands, o \in Organizers, e \in Events : Load(h, op, o, e)
    BY <1>0, <2>0, <2>3, OneAnnounces DEF Load
  <2>4. CASE \E ids \in SUBSET Photos : ResolvePhotos(h, ids)
    BY <1>0, <2>0, <2>4, OneAnnounces DEF ResolvePhotos
  <2>5. CASE Update(h)
    BY <2>5, RequestAnnounces DEF Update, InFlight
  <2>6. CASE PublishEvent(h)
    BY <2>6, RequestAnnounces DEF PublishEvent, UpdateLifecycle, InFlight
  <2>7. CASE Abandon(h)
    BY <1>0, <2>0, <2>7, OneAnnounces DEF Abandon
  <2>8. CASE Invalidate(h)
    BY <2>8, InvalidateAnnounces
  <2>9. QED
    BY <1>3, <2>1, <2>2, <2>3, <2>4, <2>5, <2>6, <2>7, <2>8 DEF HandlerStep
<1>4. CASE \E x \in Procs : LoadPhotos(x)
  BY <1>0, <1>4, OneAnnounces DEF LoadPhotos
<1>5. ASSUME NEW w \in Workers, WorkerStep(w) PROVE MapChangeIsAnnounced'
  <2>0. w \in Procs
    BY DEF Procs
  <2>1. ASSUME NEW r \in Rows, Take(w, r) PROVE MapChangeIsAnnounced'
    <3>1. CASE events[r[1]].status = "UPLOADED" /\ ~events[r[1]].archived
      BY <1>0, <2>0, <2>1, <3>1, OneAnnounces DEF Take
    <3>2. CASE ~(events[r[1]].status = "UPLOADED" /\ ~events[r[1]].archived)
      BY <2>1, <3>2, QuietAnnounces DEF Take
    <3>3. QED
      BY <3>1, <3>2
  <2>2. CASE \E p \in Photos : CopyPhoto(w, p)
    BY <1>0, <2>0, <2>2, OneAnnounces DEF CopyPhoto
  <2>3. CASE FailAttempt(w) \/ WorkerDies(w)
    BY <1>0, <2>0, <2>3, OneAnnounces DEF FailAttempt, WorkerDies
  <2>4. QED
    BY <1>5, <2>1, <2>2, <2>3, ApproveAnnounces, CompleteJobAnnounces DEF WorkerStep
<1>6. ASSUME NEW d \in Dispatchers, DispatcherStep(d) PROVE MapChangeIsAnnounced'
  BY <1>6, QuietAnnounces
     DEF DispatcherStep, ClaimBatch, AddJob, MarkProcessed, DispatchFails
<1>7. CASE \E r \in Rows : Stall(r) \/ RemoveFinished(r)
  BY <1>7, QuietAnnounces DEF Stall, RemoveFinished
<1>8. ASSUME NEW o \in Organizers, ErasureStep(o) PROVE MapChangeIsAnnounced'
  BY <1>8, EraseAnnounces
<1>9. CASE UNCHANGED vars
  BY <1>9, QuietAnnounces DEF vars
<1>10. QED
  BY <1>1, <1>2, <1>3, <1>4, <1>5, <1>6, <1>7, <1>8, <1>9 DEF Next

(* While no invalidation is lost, whoever changes what the public map shows *)
(* owes the map's version a step until it is taken: the visibility that a   *)
(* handler decides by, read before its transaction, is the one its commit   *)
(* changes, because the commit has compared the version.                    *)
THEOREM MapChangesAreAnnounced == Spec => []MapChangeIsAnnounced
<1>1. Init => MapChangeIsAnnounced
  BY DEF Init, MapChangeIsAnnounced
<1>2. QED
  BY <1>1, BaseInductive, NextAnnounces, PTL DEF Spec

-----------------------------------------------------------------------------
(* The review queue. *)

LEMMA PendingFollows == Base /\ QueueInv => SubmissionIsPending
<1> SUFFICES ASSUME Base, QueueInv, NEW e \in Events, AwaitingReview(e)
             PROVE  \/ outbox[Submission(e)] = "pending"
                    \/ jobs[Submission(e)].state \in {"waiting", "active", "failed", "forgotten"}
  BY DEF SubmissionIsPending
<1>1. PICK r : r = <<e, events[e].version>>
  OBVIOUS
<1>2. r[1] = e /\ r[2] = events[e].version
  BY <1>1
<1>3. events[e].version \in Nat /\ events[e].version <= MaxVersion /\ MaxVersion \in Nat
  BY LifecycleAssumption
     DEF Base, TypeInv, TypeOK, EventRow, CommitsInv, RowsOK, AwaitingReview, LifecycleAssumption
<1>4. events[e].version \in 0 .. MaxVersion + 1
  BY <1>3
<1>5. r \in Rows
  BY <1>1, <1>4 DEF Rows
<1>6. Submission(e) = r
  BY <1>1 DEF Submission
<1>7. Waits(r)
  BY <1>2, <1>6 DEF Waits
<1>8. QED
  BY <1>5, <1>6, <1>7 DEF QueueInv, OutboxOK

(* Versions do not go back, and an event stays one. *)
Onward == \A e \in Events : /\ events'[e].version >= events[e].version
                            /\ events[e].status # "NONE" => events'[e].status # "NONE"

LEMMA OnwardKnows ==
  ASSUME TypeInv, TypeInv', Onward, NEW r \in Rows, Known(r)
  PROVE  Known(r)'
<1>1. r[1] \in Events /\ r[2] \in 0 .. MaxVersion + 1 /\ MaxVersion \in Nat
  BY LifecycleAssumption DEF Rows, LifecycleAssumption
<1>2. events[r[1]].version \in Nat /\ events'[r[1]].version \in Nat /\ r[2] \in Nat
  BY <1>1 DEF TypeInv, TypeOK, EventRow
<1>3. QED
  BY <1>1, <1>2 DEF Onward, Known

(* Steps that submit nothing and leave outbox and queue alone. *)
LEMMA KeepOutbox ==
  ASSUME TypeInv, TypeInv', OutboxOK, Onward, outbox' = outbox, jobs' = jobs,
         \A r \in Rows : Waits(r)' => Waits(r)
  PROVE  OutboxOK'
<1>1. \A r \in Rows : Known(r) => Known(r)'
  BY OnwardKnows
<1>2. QED
  BY <1>1 DEF OutboxOK

(* The commit that submits s writes its row: none knew of s before. *)
LEMMA Submits ==
  ASSUME TypeInv, TypeInv', OutboxOK, Onward, NEW s \in Rows, ~Known(s), Known(s)',
         outbox' = [outbox EXCEPT ![s] = "pending"], jobs' = jobs,
         \A r \in Rows \ {s} : Waits(r)' => Waits(r)
  PROVE  OutboxOK'
<1>1. \A r \in Rows : Known(r) => Known(r)'
  BY OnwardKnows
<1>2. outbox[s] = "none" /\ jobs[s].state = "none"
  BY DEF OutboxOK
<1>3. outbox'[s] = "pending" /\ \A r \in Rows \ {s} : outbox'[r] = outbox[r]
  BY DEF TypeInv, TypeOK
<1>4. ASSUME NEW r \in Rows
      PROVE  /\ outbox'[r] # "none" => Known(r)'
             /\ jobs'[r].state # "none" => outbox'[r] # "none"
             /\ jobs'[r].state = "completed" => ~Waits(r)'
             /\ Waits(r)' => outbox'[r] = "pending" \/ jobs'[r].state \in {"waiting", "active", "failed", "forgotten"}
  <2>1. CASE r = s
    BY <1>2, <1>3, <2>1
  <2>2. CASE r # s
    <3>1. outbox'[r] = outbox[r] /\ jobs'[r] = jobs[r] /\ (Waits(r)' => Waits(r))
      BY <1>3, <2>2
    <3>2. QED
      BY <1>1, <3>1 DEF OutboxOK
  <2>3. QED
    BY <2>1, <2>2
<1>5. QED
  BY <1>4 DEF OutboxOK

(* A job changes its state while events and outbox stay as they are. *)
LEMMA JobMoves ==
  ASSUME TypeInv, OutboxOK, events' = events, outbox' = outbox, NEW s \in Rows, outbox[s] # "none",
         \A r \in Rows \ {s} : jobs'[r] = jobs[r],
         jobs'[s].state = "completed" => ~Waits(s),
         \/ jobs'[s].state \in {"waiting", "active", "failed", "forgotten"}
         \/ ~Waits(s)
  PROVE  OutboxOK'
<1>1. \A r \in Rows : (Waits(r)' <=> Waits(r)) /\ (Known(r)' <=> Known(r))
  BY DEF Waits, AwaitingReview, Submission, Known
<1>2. ASSUME NEW r \in Rows
      PROVE  /\ outbox'[r] # "none" => Known(r)'
             /\ jobs'[r].state # "none" => outbox'[r] # "none"
             /\ jobs'[r].state = "completed" => ~Waits(r)'
             /\ Waits(r)' => outbox'[r] = "pending" \/ jobs'[r].state \in {"waiting", "active", "failed", "forgotten"}
  <2>1. CASE r = s
    BY <1>1, <2>1 DEF OutboxOK
  <2>2. CASE r # s
    <3>1. jobs'[r] = jobs[r]
      BY <2>2
    <3>2. QED
      BY <1>1, <3>1 DEF OutboxOK
  <2>3. QED
    BY <2>1, <2>2
<1>3. QED
  BY <1>2 DEF OutboxOK

(* A worker keeps to its job while the versions go on. *)
LEMMA KeepAttempt ==
  ASSUME TypeInv, TypeInv', Onward, NEW w \in Workers, AttemptOK(w), procs'[w] = procs[w],
         procs[w].pc # "idle"
  PROVE  AttemptOK(w)'
<1>1. PICK job : job = procs[w].job
  OBVIOUS
<1>2. job \in Rows /\ job[1] \in Events /\ job[2] \in 0 .. MaxVersion + 1 /\ MaxVersion \in Nat
  BY <1>1, LifecycleAssumption DEF AttemptOK, Rows, LifecycleAssumption
<1>3. /\ events[job[1]].version \in Nat /\ events'[job[1]].version \in Nat /\ job[2] \in Nat
      /\ events'[job[1]].version >= events[job[1]].version
  BY <1>2 DEF TypeInv, TypeOK, EventRow, Onward
<1>4. procs[w].pc = "invalidate" => job[2] < events'[job[1]].version
  BY <1>1, <1>3 DEF AttemptOK
<1>5. QED
  BY <1>1, <1>4 DEF AttemptOK, InFlight

LEMMA OneAttempts ==
  ASSUME TypeInv, TypeInv', Onward, AttemptsOK, NEW x, \A y \in Procs \ {x} : procs'[y] = procs[y],
         x \in Workers /\ procs'[x].pc # "idle" => AttemptOK(x)'
  PROVE  AttemptsOK'
<1>1. SUFFICES ASSUME NEW w \in Workers, procs'[w].pc # "idle" PROVE AttemptOK(w)'
  BY DEF AttemptsOK
<1>2. CASE w = x
  BY <1>1, <1>2
<1>3. CASE w # x
  <2>1. w \in Procs \ {x}
    BY <1>3 DEF Procs
  <2>2. procs'[w] = procs[w]
    BY <2>1
  <2>3. QED
    BY <1>1, <2>2, KeepAttempt DEF AttemptsOK
<1>4. QED
  BY <1>2, <1>3

LEMMA Standing ==
  ASSUME TypeInv, events' = events
  PROVE  Onward /\ \A r \in Rows : (Waits(r)' <=> Waits(r))
<1>1. \A e \in Events : events[e].version \in Nat
  BY DEF TypeInv, TypeOK, EventRow
<1>2. QED
  BY <1>1 DEF Onward, Waits, AwaitingReview, Submission

(* A commit ends the wait for the event's submission, or starts a new one.  *)
LEMMA CommitQueue ==
  ASSUME Base, Base', NEW x \in Procs, InFlight(x), VersionMatches(x), CommitRow(x),
         NEW e, NEW op, NEW row, e = procs[x].ev, op = procs[x].op, row = procs[x].row,
         op \in {"update", "resubmit", "publish", "cancel", "archive", "process"}
  PROVE  /\ Onward /\ e \in Events /\ row.version \in Nat
         /\ events[e].version = row.version /\ events'[e].version = row.version + 1
         /\ events'[e].status # "NONE"
         /\ \A r \in Rows : Waits(r)' =>
              Waits(r) \/ (op = "resubmit" /\ r = <<e, row.version + 1>>)
<1>1. /\ e \in Events /\ row \in EventRow
      /\ \A f \in Events \ {e} : events'[f] = events[f]
      /\ Committed(e, op, row)
  BY CommittedRow DEF Base
<1>2. events[e].version = row.version /\ row.version \in Nat
  BY <1>1 DEF VersionMatches, EventRow
<1>3. events'[e].version = row.version + 1 /\ events'[e].status # "NONE"
  BY <1>1 DEF Committed
<1>4. Onward
  <2>1. \A f \in Events : events[f].version \in Nat
    BY DEF Base, TypeInv, TypeOK, EventRow
  <2>2. events'[e].version >= events[e].version
    BY <1>2, <1>3
  <2>3. QED
    BY <1>1, <1>3, <2>1, <2>2 DEF Onward
<1>5. ASSUME NEW r \in Rows, Waits(r)'
      PROVE  Waits(r) \/ (op = "resubmit" /\ r = <<e, row.version + 1>>)
  <2>1. CASE r[1] = e
    <3>1. events'[e].status = "UPLOADED" /\ r = <<e, events'[e].version>>
      BY <1>5, <2>1 DEF Waits, AwaitingReview, Submission
    <3>2. op = "resubmit"
      BY <1>1, <3>1 DEF Committed
    <3>3. QED
      BY <1>3, <3>1, <3>2
  <2>2. CASE r[1] # e
    <3>1. r[1] \in Events \ {e}
      BY <2>2 DEF Rows
    <3>2. events'[r[1]] = events[r[1]]
      BY <1>1, <3>1
    <3>3. QED
      BY <1>5, <3>2 DEF Waits, AwaitingReview, Submission
  <2>3. QED
    BY <2>1, <2>2
<1>6. QED
  BY <1>1, <1>2, <1>3, <1>4, <1>5

LEMMA KeepClaims ==
  ASSUME ClaimsOK, claims' = claims, \A r \in Rows : outbox[r] = "pending" => outbox'[r] = "pending",
         claims \in [Dispatchers -> SUBSET Rows]
  PROVE  ClaimsOK'
<1>1. \A d \in Dispatchers : claims[d] \subseteq Rows
  OBVIOUS
<1>2. QED
  BY <1>1 DEF ClaimsOK

LEMMA UpdateQueue ==
  ASSUME Base, Base', QueueInv, NEW h \in Handlers, Update(h)
  PROVE  QueueInv'
<1>0. PICK e, op, row : e = procs[h].ev /\ op = procs[h].op /\ row = procs[h].row
  OBVIOUS
<1>1. /\ h \in Procs /\ h \notin Workers /\ InFlight(h) /\ VersionMatches(h) /\ CommitRow(h)
      /\ op \in {"update", "resubmit", "publish", "cancel", "archive", "process"}
      /\ jobs' = jobs /\ claims' = claims
  BY <1>0, LifecycleAssumption DEF LifecycleAssumption, Update, InFlight, Procs
<1>2. /\ Onward /\ e \in Events /\ row.version \in Nat
      /\ events[e].version = row.version /\ events'[e].version = row.version + 1
      /\ events'[e].status # "NONE"
      /\ \A r \in Rows : Waits(r)' =>
           Waits(r) \/ (op = "resubmit" /\ r = <<e, row.version + 1>>)
  BY <1>0, <1>1, CommitQueue
<1>3. row.version < MaxVersion /\ MaxVersion \in Nat
  <2>1. RequestSees(h)
    BY <1>1 DEF Base, CommitsInv, RequestsSee
  <2>2. QED
    BY <1>0, <2>1, LifecycleAssumption DEF RequestSees, LifecycleAssumption
<1>4. PICK s : s = <<e, row.version + 1>>
  OBVIOUS
<1>5. s \in Rows /\ s[1] = e /\ s[2] = row.version + 1
  <2>1. row.version + 1 \in 0 .. MaxVersion + 1
    BY <1>2, <1>3
  <2>2. QED
    BY <1>2, <1>4, <2>1 DEF Rows
<1>6. ~Known(s) /\ Known(s)'
  BY <1>2, <1>5 DEF Known
<1>7. outbox' = IF op = "resubmit" THEN [outbox EXCEPT ![s] = "pending"] ELSE outbox
  BY <1>0, <1>4 DEF Update
<1>8. OutboxOK'
  <2>1. CASE op = "resubmit"
    BY <1>1, <1>2, <1>4, <1>5, <1>6, <1>7, <2>1, Submits DEF Base, QueueInv
  <2>2. CASE op # "resubmit"
    BY <1>1, <1>2, <1>7, <2>2, KeepOutbox DEF Base, QueueInv
  <2>3. QED
    BY <2>1, <2>2
<1>9. ClaimsOK'
  <2>1. claims \in [Dispatchers -> SUBSET Rows] /\ outbox \in [Rows -> {"none", "pending", "processed"}]
    BY DEF Base, TypeInv, TypeOK
  <2>2. \A r \in Rows : outbox[r] = "pending" => outbox'[r] = "pending"
    BY <1>7, <2>1
  <2>3. QED
    BY <1>1, <2>1, <2>2, KeepClaims DEF QueueInv
<1>10. AttemptsOK'
  <2>1. \A y \in Procs \ {h} : procs'[y] = procs[y]
    BY <1>1 DEF CommitRow, Become, Base, TypeInv, TypeOK
  <2>2. QED
    BY <1>1, <1>2, <2>1, OneAttempts DEF Base, QueueInv
<1>11. QED
  BY <1>8, <1>9, <1>10 DEF QueueInv

LEMMA LifecycleQueue ==
  ASSUME Base, Base', QueueInv, NEW x \in Procs, procs[x].pc = "loaded", UpdateLifecycle(x),
         procs[x].op \in {"publish", "process"}
  PROVE  QueueInv'
<1>0. PICK e, op, row : e = procs[x].ev /\ op = procs[x].op /\ row = procs[x].row
  OBVIOUS
<1>1. /\ InFlight(x) /\ VersionMatches(x) /\ CommitRow(x)
      /\ op \in {"update", "resubmit", "publish", "cancel", "archive", "process"}
      /\ jobs' = jobs /\ claims' = claims /\ outbox' = outbox
  BY <1>0 DEF UpdateLifecycle, InFlight
<1>2. /\ Onward /\ e \in Events /\ row.version \in Nat
      /\ events[e].version = row.version /\ events'[e].version = row.version + 1
      /\ events'[e].status # "NONE"
      /\ \A r \in Rows : Waits(r)' =>
           Waits(r) \/ (op = "resubmit" /\ r = <<e, row.version + 1>>)
  BY <1>0, <1>1, CommitQueue
<1>3. OutboxOK'
  BY <1>0, <1>1, <1>2, KeepOutbox DEF Base, QueueInv
<1>4. ClaimsOK'
  BY <1>1, KeepClaims DEF QueueInv, Base, TypeInv, TypeOK
<1>5. AttemptsOK'
  <2>1. /\ procs'[x] = [procs[x] EXCEPT !.pc = "invalidate", !.shots = NoShots, !.removed = {}]
        /\ \A y \in Procs \ {x} : procs'[y] = procs[y]
    BY <1>1 DEF CommitRow, Become, Base, TypeInv, TypeOK
  <2>2. procs'[x].pc = "invalidate" /\ procs'[x].ev = e /\ procs'[x].job = procs[x].job
    BY <1>0, <2>1 DEF Base, TypeInv, TypeOK, Proc
  <2>3. ASSUME x \in Workers PROVE AttemptOK(x)'
    <3>1. PICK job : job = procs[x].job
      OBVIOUS
    <3>2. job \in Rows /\ job[1] = e /\ job[2] <= row.version
      BY <1>0, <1>1, <2>3, <3>1 DEF QueueInv, AttemptsOK, AttemptOK, InFlight
    <3>3. job[2] \in Nat
      BY <3>2, LifecycleAssumption DEF Rows, LifecycleAssumption
    <3>4. job[2] < events'[job[1]].version
      BY <1>2, <3>2, <3>3
    <3>5. QED
      BY <2>2, <3>1, <3>2, <3>4 DEF AttemptOK, InFlight
  <2>4. QED
    BY <1>2, <2>1, <2>3, OneAttempts DEF Base, QueueInv
<1>6. QED
  BY <1>3, <1>4, <1>5 DEF QueueInv

LEMMA SaveQueue ==
  ASSUME Base, Base', QueueInv, NEW h \in Handlers, Save(h)
  PROVE  QueueInv'
<1>0. PICK e, s : e = procs[h].ev /\ s = <<procs[h].ev, 0>>
  OBVIOUS
<1>1. /\ h \in Procs /\ h \notin Workers /\ e \in Events /\ events[e].status = "NONE"
      /\ jobs' = jobs /\ claims' = claims
  BY <1>0, LifecycleAssumption
     DEF LifecycleAssumption, Procs, Save, Base, Reviewing, SavingOK, TypeInv, BusyOK
<1>2. /\ events'[e] = Created(procs[h].org) /\ outbox' = [outbox EXCEPT ![s] = "pending"]
      /\ \A f \in Events \ {e} : events'[f] = events[f]
  BY <1>0, <1>1 DEF Save, Base, TypeInv, TypeOK
<1>3. events'[e].status = "UPLOADED" /\ events'[e].version = 0 /\ events[e].version = 0
  BY <1>1, <1>2 DEF Created, NoEvent, Base, CommitsInv, RowsOK
<1>4. s \in Rows /\ s[1] = e /\ s[2] = 0
  BY <1>0, <1>1, LifecycleAssumption DEF Rows, LifecycleAssumption
<1>5. ~Known(s) /\ Known(s)'
  BY <1>1, <1>3, <1>4 DEF Known
<1>6. Onward
  <2>1. \A f \in Events : events[f].version \in Nat
    BY DEF Base, TypeInv, TypeOK, EventRow
  <2>2. QED
    BY <1>1, <1>2, <1>3, <2>1 DEF Onward
<1>7. ASSUME NEW r \in Rows \ {s}, Waits(r)' PROVE Waits(r)
  <2>1. CASE r[1] = e
    <3>1. r = <<e, events'[e].version>>
      BY <1>7, <2>1 DEF Waits, Submission
    <3>2. QED
      BY <1>0, <1>3, <3>1
  <2>2. CASE r[1] # e
    <3>1. r[1] \in Events \ {e}
      BY <2>2 DEF Rows
    <3>2. events'[r[1]] = events[r[1]]
      BY <1>2, <3>1
    <3>3. QED
      BY <1>7, <3>2 DEF Waits, AwaitingReview, Submission
  <2>3. QED
    BY <2>1, <2>2
<1>8. OutboxOK'
  BY <1>1, <1>2, <1>4, <1>5, <1>6, <1>7, Submits DEF Base, QueueInv
<1>9. ClaimsOK'
  <2>1. claims \in [Dispatchers -> SUBSET Rows] /\ outbox \in [Rows -> {"none", "pending", "processed"}]
    BY DEF Base, TypeInv, TypeOK
  <2>2. \A r \in Rows : outbox[r] = "pending" => outbox'[r] = "pending"
    BY <1>2, <2>1
  <2>3. QED
    BY <1>1, <2>1, <2>2, KeepClaims DEF QueueInv
<1>10. AttemptsOK'
  <2>1. \A y \in Procs \ {h} : procs'[y] = procs[y]
    BY DEF Save, Become, Base, TypeInv, TypeOK
  <2>2. QED
    BY <1>1, <1>6, <2>1, OneAttempts DEF Base, QueueInv
<1>11. QED
  BY <1>8, <1>9, <1>10 DEF QueueInv

LEMMA QuietQueue ==
  ASSUME Base, Base', QueueInv, events' = events, outbox' = outbox, jobs' = jobs, claims' = claims,
         procs' = procs
  PROVE  QueueInv'
<1>1. Onward /\ \A r \in Rows : (Waits(r)' <=> Waits(r))
  BY Standing DEF Base
<1>2. OutboxOK'
  BY <1>1, KeepOutbox DEF Base, QueueInv
<1>3. ClaimsOK'
  BY KeepClaims DEF QueueInv, Base, TypeInv, TypeOK
<1>4. AttemptsOK'
  BY DEF QueueInv, AttemptsOK, AttemptOK, InFlight
<1>5. QED
  BY <1>2, <1>3, <1>4 DEF QueueInv

(* One process takes a step; no row, claim or job changes. *)
LEMMA OneQueue ==
  ASSUME Base, Base', QueueInv, events' = events, outbox' = outbox, jobs' = jobs, claims' = claims,
         NEW x \in Procs, NEW p, Become(x, p),
         x \in Workers /\ p.pc # "idle" => /\ InFlight(x) /\ p.pc \in {"row", "loaded", "resolved"}
                                           /\ p.ev = procs[x].ev /\ p.row = procs[x].row
                                           /\ p.job = procs[x].job
  PROVE  QueueInv'
<1>1. Onward /\ \A r \in Rows : (Waits(r)' <=> Waits(r))
  BY Standing DEF Base
<1>2. OutboxOK'
  BY <1>1, KeepOutbox DEF Base, QueueInv
<1>3. ClaimsOK'
  BY KeepClaims DEF QueueInv, Base, TypeInv, TypeOK
<1>4. procs'[x] = p /\ \A y \in Procs \ {x} : procs'[y] = procs[y]
  BY DEF Become, Base, TypeInv, TypeOK
<1>5. x \in Workers /\ procs'[x].pc # "idle" => AttemptOK(x)'
  BY <1>4 DEF QueueInv, AttemptsOK, AttemptOK, InFlight
<1>6. AttemptsOK'
  BY <1>1, <1>4, <1>5, OneAttempts DEF Base, QueueInv
<1>7. QED
  BY <1>2, <1>3, <1>6 DEF QueueInv

LEMMA LoadPhotosQueue ==
  ASSUME Base, Base', QueueInv, NEW x \in Procs, LoadPhotos(x)
  PROVE  QueueInv'
<1> DEFINE shots == [p \in Photos |->
             IF photos[p].event = procs[x].ev THEN ShotOf(photos[p]) ELSE NoShot]
           new == [procs[x] EXCEPT !.pc = "loaded", !.shots = shots]
<1>1. /\ Become(x, new) /\ InFlight(x) /\ events' = events /\ outbox' = outbox /\ jobs' = jobs
      /\ claims' = claims
  BY DEF LoadPhotos, InFlight
<1>2. procs[x] \in Proc
  BY DEF Base, TypeInv, TypeOK
<1> HIDE DEF shots
<1>3. /\ new.pc = "loaded" /\ new.ev = procs[x].ev /\ new.row = procs[x].row
      /\ new.job = procs[x].job
  BY <1>2 DEF Proc
<1> HIDE DEF new
<1>4. QED
  BY <1>1, <1>3, OneQueue

LEMMA CopyPhotoQueue ==
  ASSUME Base, Base', QueueInv, NEW w \in Workers, NEW p \in Photos, CopyPhoto(w, p)
  PROVE  QueueInv'
<1> DEFINE new == [procs[w] EXCEPT !.shots[p].status = "READY", !.shots[p].key = procs[w].ev]
<1>1. /\ w \in Procs /\ Become(w, new) /\ InFlight(w) /\ events' = events /\ outbox' = outbox
      /\ jobs' = jobs /\ claims' = claims /\ procs[w].pc = "loaded"
  BY DEF CopyPhoto, InFlight, Procs
<1>2. procs[w] \in Proc
  BY <1>1 DEF Base, TypeInv, TypeOK
<1>3. /\ new.pc = "loaded" /\ new.ev = procs[w].ev /\ new.row = procs[w].row
      /\ new.job = procs[w].job
  BY <1>1, <1>2 DEF Proc
<1> HIDE DEF new
<1>4. QED
  BY <1>1, <1>3, OneQueue

(* The attempts of a job: who takes it knows its row; who completes it has  *)
(* moved the event on, or found it not waiting.                             *)
LEMMA TakeQueue ==
  ASSUME Base, Base', QueueInv, NEW w \in Workers, NEW r \in Rows, Take(w, r)
  PROVE  QueueInv'
<1>1. /\ w \in Procs /\ events' = events /\ outbox' = outbox /\ claims' = claims
      /\ jobs[r].state = "waiting"
  BY DEF Take, Procs
<1>2. outbox[r] # "none" /\ Known(r)
  BY <1>1 DEF QueueInv, OutboxOK
<1>3. /\ jobs' \in [Rows -> Job] /\ jobs \in [Rows -> Job]
      /\ \A s \in Rows \ {r} : jobs'[s] = jobs[s]
  BY DEF Take, Base, TypeInv, TypeOK
<1>4. ClaimsOK'
  BY <1>1, KeepClaims DEF QueueInv, Base, TypeInv, TypeOK
<1>5. Onward
  BY <1>1, Standing DEF Base
<1>6. CASE events[r[1]].status = "UPLOADED" /\ ~events[r[1]].archived
  <2> DEFINE new == [Idle EXCEPT !.pc = "row", !.op = "process", !.ev = r[1],
                          !.org = events[r[1]].org, !.row = events[r[1]], !.job = r]
  <2>1. Become(w, new)
    BY <1>6 DEF Take
  <2>2. new.pc = "row" /\ new.ev = r[1] /\ new.row = events[r[1]] /\ new.job = r
    BY DEF Idle
  <2> HIDE DEF new
  <2>3. procs'[w] = new /\ \A y \in Procs \ {w} : procs'[y] = procs[y]
    BY <1>1, <2>1 DEF Become, Base, TypeInv, TypeOK
  <2>4. AttemptOK(w)'
    BY <1>2, <2>2, <2>3 DEF AttemptOK, InFlight, Known
  <2>5. AttemptsOK'
    BY <1>5, <2>3, <2>4, OneAttempts DEF Base, QueueInv
  <2>6. jobs'[r].state = "active"
    BY <1>3, <1>6 DEF Take, Job
  <2>7. OutboxOK'
    BY <1>1, <1>2, <1>3, <2>6, JobMoves DEF Base, QueueInv
  <2>8. QED
    BY <1>4, <2>5, <2>7 DEF QueueInv
<1>7. CASE ~(events[r[1]].status = "UPLOADED" /\ ~events[r[1]].archived)
  <2>1. procs' = procs
    BY <1>7 DEF Take
  <2>2. ~Waits(r)
    BY <1>7 DEF Waits, AwaitingReview
  <2>3. OutboxOK'
    BY <1>1, <1>2, <1>3, <2>2, JobMoves DEF Base, QueueInv
  <2>4. AttemptsOK'
    BY <1>1, <2>1 DEF QueueInv, AttemptsOK, AttemptOK, InFlight
  <2>5. QED
    BY <1>4, <2>3, <2>4 DEF QueueInv
<1>8. QED
  BY <1>6, <1>7

LEMMA RetriedState ==
  ASSUME NEW job \in Job
  PROVE  Retried(job).state \in {"waiting", "failed"}
BY DEF Retried

LEMMA EndQueue ==
  ASSUME Base, Base', QueueInv, NEW w \in Workers, FailAttempt(w) \/ CompleteJob(w)
  PROVE  QueueInv'
<1>0. PICK job : job = procs[w].job
  OBVIOUS
<1>1. /\ w \in Procs /\ events' = events /\ outbox' = outbox /\ claims' = claims /\ Become(w, Idle)
      /\ procs[w].pc # "idle"
  BY DEF FailAttempt, CompleteJob, Procs
<1>2. AttemptOK(w) /\ job \in Rows /\ job[1] = procs[w].ev
  BY <1>0, <1>1 DEF QueueInv, AttemptsOK, AttemptOK
<1>3. jobs \in [Rows -> Job] /\ jobs' \in [Rows -> Job]
  BY DEF Base, TypeInv, TypeOK
<1>4. ClaimsOK'
  BY <1>1, KeepClaims DEF QueueInv, Base, TypeInv, TypeOK
<1>5. Onward
  BY <1>1, Standing DEF Base
<1>6. AttemptsOK'
  <2>1. procs'[w] = Idle /\ \A y \in Procs \ {w} : procs'[y] = procs[y]
    BY <1>1 DEF Become, Base, TypeInv, TypeOK
  <2>2. procs'[w].pc = "idle"
    BY <2>1 DEF Idle
  <2>3. QED
    BY <1>5, <2>1, <2>2, OneAttempts DEF Base, QueueInv
<1>7. CASE ~Holds(w)
  <2>1. jobs' = jobs
    BY <1>7 DEF FailAttempt, CompleteJob, Report
  <2>2. OutboxOK'
    BY <1>1, <1>5, <2>1, Standing, KeepOutbox DEF Base, QueueInv
  <2>3. QED
    BY <1>4, <1>6, <2>2 DEF QueueInv
<1>8. CASE Holds(w)
  <2>1. jobs[job].holder = w /\ jobs[job].state = "active"
    BY <1>0, <1>2, <1>8, LifecycleAssumption
       DEF Holds, Base, TypeInv, JobsOK, LifecycleAssumption
  <2>2. outbox[job] # "none"
    BY <1>2, <2>1 DEF QueueInv, OutboxOK
  <2>3. CASE FailAttempt(w)
    <3>1. jobs' = [jobs EXCEPT ![job] = Retried(jobs[job])]
      BY <1>0, <1>2, <1>3, <1>8, <2>3 DEF FailAttempt
    <3>2. jobs'[job].state \in {"waiting", "failed"}
      BY <1>2, <1>3, <3>1, RetriedState
    <3>3. OutboxOK'
      BY <1>1, <1>2, <1>3, <2>2, <3>1, <3>2, JobMoves DEF Base, QueueInv
    <3>4. QED
      BY <1>4, <1>6, <3>3 DEF QueueInv
  <2>4. CASE CompleteJob(w)
    <3>1. \A s \in Rows \ {job} : jobs'[s] = jobs[s]
      BY <1>0, <1>2, <1>3, <1>8, <2>4 DEF CompleteJob, Report
    <3>2. job[2] < events[job[1]].version
      BY <1>0, <1>2, <2>4 DEF AttemptOK, CompleteJob
    <3>3. ~Waits(job)
      <4>1. job[2] \in Nat /\ events[job[1]].version \in Nat
        BY <1>2, LifecycleAssumption
           DEF Rows, LifecycleAssumption, Base, TypeInv, TypeOK, EventRow
      <4>2. job[2] # events[job[1]].version
        BY <3>2, <4>1
      <4>3. job # <<job[1], events[job[1]].version>>
        BY <4>2
      <4>4. QED
        BY <4>3 DEF Waits, Submission
    <3>4. OutboxOK'
      BY <1>1, <1>2, <2>2, <3>1, <3>3, JobMoves DEF Base, QueueInv
    <3>5. QED
      BY <1>4, <1>6, <3>4 DEF QueueInv
  <2>5. QED
    BY <2>3, <2>4
<1>9. QED
  BY <1>7, <1>8

LEMMA DispatcherQueue ==
  ASSUME Base, Base', QueueInv, NEW d \in Dispatchers, DispatcherStep(d)
  PROVE  QueueInv'
<1>0. /\ claims \in [Dispatchers -> SUBSET Rows] /\ jobs \in [Rows -> Job] /\ TypeInv
      /\ outbox \in [Rows -> {"none", "pending", "processed"}]
  BY DEF Base, TypeInv, TypeOK
<1>1. events' = events /\ procs' = procs
  BY DEF DispatcherStep, ClaimBatch, AddJob, MarkProcessed, DispatchFails
<1>2. Onward /\ \A r \in Rows : (Waits(r)' <=> Waits(r))
  BY <1>0, <1>1, Standing
<1>3. AttemptsOK'
  BY <1>1 DEF QueueInv, AttemptsOK, AttemptOK, InFlight
<1>4. ASSUME NEW batch \in SUBSET Rows, ClaimBatch(d, batch) PROVE QueueInv'
  <2>1. outbox' = outbox /\ jobs' = jobs /\ claims' = [claims EXCEPT ![d] = batch]
    BY <1>4 DEF ClaimBatch
  <2>2. \A r \in batch : outbox[r] = "pending" /\ \A c \in Dispatchers : r \notin claims[c]
    BY <1>4 DEF ClaimBatch, Unlocked, Pending
  <2>3. ClaimsOK'
    BY <1>0, <2>1, <2>2 DEF QueueInv, ClaimsOK
  <2>4. OutboxOK'
    BY <1>2, <2>1, KeepOutbox DEF Base, QueueInv
  <2>5. QED
    BY <1>3, <2>3, <2>4 DEF QueueInv
<1>5. ASSUME NEW r \in Rows, AddJob(d, r) PROVE QueueInv'
  <2>1. /\ outbox' = outbox /\ claims' = claims
        /\ jobs' = [jobs EXCEPT ![r] = [state |-> "waiting", left |-> MaxAttempts, holder |-> None]]
    BY <1>5 DEF AddJob
  <2>2. outbox[r] # "none"
    BY <1>5 DEF AddJob, QueueInv, ClaimsOK
  <2>3. OutboxOK'
    BY <1>0, <1>1, <2>1, <2>2, JobMoves DEF QueueInv
  <2>4. ClaimsOK'
    BY <1>0, <2>1, KeepClaims DEF QueueInv
  <2>5. QED
    BY <1>3, <2>3, <2>4 DEF QueueInv
<1>6. CASE MarkProcessed(d)
  <2>1. /\ jobs' = jobs /\ claims' = [claims EXCEPT ![d] = {}]
        /\ \A r \in claims[d] : jobs[r].state \notin {"none", "forgotten"}
        /\ outbox' = [r \in Rows |-> IF r \in claims[d] THEN "processed" ELSE outbox[r]]
    BY <1>6 DEF MarkProcessed, InQueue
  <2>2. ClaimsOK'
    <3>1. SUFFICES ASSUME NEW c \in Dispatchers, NEW r \in claims'[c]
                   PROVE  outbox'[r] = "pending" /\ \A b \in Dispatchers \ {c} : r \notin claims'[b]
      BY DEF ClaimsOK
    <3>2. c # d /\ r \in claims[c] /\ r \in Rows
      BY <1>0, <2>1
    <3>3. outbox[r] = "pending" /\ \A b \in Dispatchers \ {c} : r \notin claims[b]
      BY <3>2 DEF QueueInv, ClaimsOK
    <3>4. r \notin claims[d]
      BY <3>2, <3>3
    <3>5. outbox'[r] = "pending"
      BY <2>1, <3>2, <3>3, <3>4
    <3>6. QED
      BY <1>0, <2>1, <3>3, <3>5
  <2>3. OutboxOK'
    <3>1. SUFFICES ASSUME NEW r \in Rows
          PROVE  /\ outbox'[r] # "none" => Known(r)'
                 /\ jobs'[r].state # "none" => outbox'[r] # "none"
                 /\ jobs'[r].state = "completed" => ~Waits(r)'
                 /\ Waits(r)' => outbox'[r] = "pending" \/ jobs'[r].state \in {"waiting", "active", "failed", "forgotten"}
      BY DEF OutboxOK
    <3>2. Known(r)' <=> Known(r)
      BY <1>1 DEF Known
    <3>3. CASE r \in claims[d]
      <4>1. outbox[r] = "pending" /\ jobs[r].state \notin {"none", "forgotten"} /\ outbox'[r] = "processed"
        BY <2>1, <3>3 DEF QueueInv, ClaimsOK
      <4>2. jobs[r].state \in {"waiting", "active", "failed", "completed"}
        BY <1>0, <4>1 DEF Job
      <4>3. QED
        BY <1>2, <2>1, <3>2, <4>1, <4>2 DEF QueueInv, OutboxOK
    <3>4. CASE r \notin claims[d]
      BY <1>2, <2>1, <3>2, <3>4 DEF QueueInv, OutboxOK
    <3>5. QED
      BY <3>3, <3>4
  <2>4. QED
    BY <1>3, <2>2, <2>3 DEF QueueInv
<1>7. CASE DispatchFails(d)
  <2>1. outbox' = outbox /\ jobs' = jobs /\ claims' = [claims EXCEPT ![d] = {}]
    BY <1>7 DEF DispatchFails
  <2>2. ClaimsOK'
    BY <1>0, <2>1 DEF QueueInv, ClaimsOK
  <2>3. OutboxOK'
    BY <1>2, <2>1, KeepOutbox DEF Base, QueueInv
  <2>4. QED
    BY <1>3, <2>2, <2>3 DEF QueueInv
<1>8. QED
  BY <1>4, <1>5, <1>6, <1>7 DEF DispatcherStep

LEMMA StallQueue ==
  ASSUME Base, Base', QueueInv, NEW r \in Rows, Stall(r) \/ RemoveFinished(r)
  PROVE  QueueInv'
<1>0. jobs \in [Rows -> Job] /\ TypeInv
  BY DEF Base, TypeInv, TypeOK
<1>1. events' = events /\ procs' = procs /\ outbox' = outbox /\ claims' = claims
  BY DEF Stall, RemoveFinished
<1>2. AttemptsOK'
  BY <1>1 DEF QueueInv, AttemptsOK, AttemptOK, InFlight
<1>3. ClaimsOK'
  BY <1>1, KeepClaims DEF QueueInv, Base, TypeInv, TypeOK
<1>4. outbox[r] # "none"
  BY DEF Stall, RemoveFinished, Finished, QueueInv, OutboxOK
<1>5. OutboxOK'
  <2>1. CASE Stall(r)
    <3>1. jobs' = [jobs EXCEPT ![r] = Retried(jobs[r])]
      BY <1>0, <2>1 DEF Stall
    <3>2. jobs'[r].state \in {"waiting", "failed"}
      BY <1>0, <3>1, RetriedState
    <3>3. QED
      BY <1>0, <1>1, <1>4, <3>1, <3>2, JobMoves DEF QueueInv
  <2>2. CASE RemoveFinished(r)
    <3>1. /\ jobs' = [jobs EXCEPT ![r] = [NoJob EXCEPT !.state =
                  IF jobs[r].state = "failed" THEN "forgotten" ELSE "none"]]
          /\ jobs[r].state \in {"completed", "failed"}
      BY <2>2 DEF RemoveFinished, Finished
    <3>2. \A s \in Rows \ {r} : jobs'[s] = jobs[s]
      BY <1>0, <3>1
    <3>3. jobs'[r].state = IF jobs[r].state = "failed" THEN "forgotten" ELSE "none"
      BY <1>0, <3>1 DEF NoJob
    <3>4. jobs'[r].state = "forgotten" \/ ~Waits(r)
      BY <3>1, <3>3 DEF QueueInv, OutboxOK
    <3>5. QED
      BY <1>0, <1>1, <1>4, <3>2, <3>3, <3>4, JobMoves DEF QueueInv
  <2>3. QED
    BY <2>1, <2>2
<1>6. QED
  BY <1>2, <1>3, <1>5 DEF QueueInv

LEMMA EraseQueue ==
  ASSUME Base, Base', QueueInv, NEW o \in Organizers, EraseDomainData(o)
  PROVE  QueueInv'
<1>1. /\ outbox' = outbox /\ jobs' = jobs /\ claims' = claims /\ procs' = procs
  BY DEF EraseDomainData
<1>2. ASSUME NEW e \in Events
      PROVE  /\ events'[e].version = events[e].version /\ events[e].version \in Nat
             /\ events[e].status # "NONE" => events'[e].status # "NONE"
             /\ events'[e].status = "UPLOADED" => events'[e] = events[e]
  <2>1. events[e] \in EventRow /\ events'[e] = IF events[e].org = o THEN Archive(events[e]) ELSE events[e]
    BY DEF EraseDomainData, Base, TypeInv, TypeOK
  <2>2. Archive(events[e]).version = events[e].version /\ Archive(events[e]).status = "CANCELLED"
    BY <2>1 DEF Archive, EventRow
  <2>3. events[e].version \in Nat
    BY <2>1 DEF EventRow
  <2>4. QED
    BY <2>1, <2>2, <2>3
<1>3. Onward
  BY <1>2 DEF Onward
<1>4. \A r \in Rows : Waits(r)' => Waits(r)
  <2>1. \A r \in Rows : r[1] \in Events
    BY DEF Rows
  <2>2. QED
    BY <1>2, <2>1 DEF Waits, AwaitingReview, Submission
<1>5. OutboxOK'
  BY <1>1, <1>3, <1>4, KeepOutbox DEF Base, QueueInv
<1>6. ClaimsOK'
  BY <1>1, KeepClaims DEF QueueInv, Base, TypeInv, TypeOK
<1>7. AttemptsOK'
  <2>1. SUFFICES ASSUME NEW w \in Workers, procs[w].pc # "idle" PROVE AttemptOK(w)'
    BY <1>1 DEF AttemptsOK
  <2>2. QED
    BY <1>1, <1>3, <2>1, KeepAttempt DEF Base, QueueInv, AttemptsOK
<1>8. QED
  BY <1>5, <1>6, <1>7 DEF QueueInv

LEMMA NextQueue == Base /\ Base' /\ QueueInv /\ [Next]_vars => QueueInv'
<1> SUFFICES ASSUME Base, Base', QueueInv, [Next]_vars PROVE QueueInv'
  OBVIOUS
<1>1. CASE \E o \in Organizers, ids \in SUBSET Photos : RequestPhotoUploads(o, ids)
  BY <1>1, QuietQueue DEF RequestPhotoUploads
<1>2. CASE \E p \in Photos : Upload(p)
  BY <1>2, QuietQueue DEF Upload
<1>3. ASSUME NEW h \in Handlers, HandlerStep(h) PROVE QueueInv'
  <2>0. h \in Procs /\ h \notin Workers
    BY LifecycleAssumption DEF LifecycleAssumption, Procs
  <2>1. CASE \E o \in Organizers, e \in Events, ids \in SUBSET Photos : FindPendingPhotos(h, o, e, ids)
    BY <2>0, <2>1, OneQueue DEF FindPendingPhotos
  <2>2. CASE \E op \in AllCommands, o \in Organizers, e \in Events : Load(h, op, o, e)
    BY <2>0, <2>2, OneQueue DEF Load
  <2>3. CASE \E ids \in SUBSET Photos : ResolvePhotos(h, ids)
    BY <2>0, <2>3, OneQueue DEF ResolvePhotos
  <2>4. CASE Abandon(h) \/ Invalidate(h)
    BY <2>0, <2>4, OneQueue DEF Abandon, Invalidate
  <2>5. CASE PublishEvent(h)
    BY <2>0, <2>5, LifecycleQueue DEF PublishEvent
  <2>6. QED
    BY <1>3, <2>1, <2>2, <2>3, <2>4, <2>5, SaveQueue, UpdateQueue DEF HandlerStep
<1>4. CASE \E x \in Procs : LoadPhotos(x)
  BY <1>4, LoadPhotosQueue
<1>5. ASSUME NEW w \in Workers, WorkerStep(w) PROVE QueueInv'
  <2>0. w \in Procs
    BY DEF Procs
  <2>1. CASE ApproveEvent(w)
    BY <2>0, <2>1, LifecycleQueue DEF ApproveEvent
  <2>2. CASE WorkerDies(w)
    BY <2>0, <2>2, OneQueue DEF WorkerDies, Idle
  <2>3. QED
    BY <1>5, <2>1, <2>2, TakeQueue, CopyPhotoQueue, EndQueue DEF WorkerStep
<1>6. CASE \E d \in Dispatchers : DispatcherStep(d)
  BY <1>6, DispatcherQueue
<1>7. CASE \E r \in Rows : Stall(r) \/ RemoveFinished(r)
  BY <1>7, StallQueue
<1>8. ASSUME NEW o \in Organizers, ErasureStep(o) PROVE QueueInv'
  BY <1>8, EraseQueue, QuietQueue DEF ErasureStep, EraseCaches, EraseObject
<1>9. CASE UNCHANGED vars
  BY <1>9, QuietQueue DEF vars
<1>10. QED
  BY <1>1, <1>2, <1>3, <1>4, <1>5, <1>6, <1>7, <1>8, <1>9 DEF Next

(* A submission is lost only by a job that failed, with any number of       *)
(* dispatchers and workers that die, stall, retry and take each other's     *)
(* jobs: until then its row is pending or its job in the queue.             *)
THEOREM SubmissionsArePending == Spec => []SubmissionIsPending
<1>1. Init => QueueInv
  <2>1. ASSUME Init PROVE \A x \in Procs : procs[x].pc = "idle"
    BY <2>1 DEF Init, Idle
  <2>2. QED
    BY <2>1 DEF Init, QueueInv, OutboxOK, ClaimsOK, AttemptsOK, NoEvent, NoJob, Waits,
       AwaitingReview, Procs, Rows
<1>2. QED
  BY <1>1, BaseInductive, NextQueue, PendingFollows, PTL DEF Spec

-----------------------------------------------------------------------------
(* The media of released events. *)

LEMMA ServableFollows == MediaInv => ReleasedMediaIsServable
BY DEF MediaInv, PhotosOK, ReleasedAreReady, ReleasedMediaIsServable, Linked

LEMMA KeepPublisher ==
  ASSUME TypeInv, TypeInv', NEW y \in Procs, InFlight(y), SnapshotOK(y), PublisherOK(y),
         procs'[y] = procs[y], NEW e \in Events, e = procs[y].ev,
         \/ events'[e].version > events[e].version
         \/ events'[e].version = events[e].version /\ Linked(e)' \subseteq Linked(e)
  PROVE  PublisherOK(y)'
<1>1. /\ procs[y].row.version \in Nat /\ events[e].version \in Nat /\ events'[e].version \in Nat
      /\ procs[y].row.version <= events[e].version
  BY DEF TypeInv, TypeOK, Proc, EventRow, SnapshotOK
<1>2. CASE events'[e].version > events[e].version
  <2>1. procs'[y].row.version # events'[procs'[y].ev].version
    BY <1>1, <1>2
  <2>2. QED
    BY <2>1 DEF PublisherOK
<1>3. CASE events'[e].version = events[e].version /\ Linked(e)' \subseteq Linked(e)
  <2>1. Linked(procs[y].ev)' = Linked(e)' /\ Linked(procs[y].ev) = Linked(e)
    BY DEF Linked
  <2>2. QED
    BY <1>3, <2>1 DEF PublisherOK
<1>4. QED
  BY <1>2, <1>3

LEMMA KeepShots ==
  ASSUME NEW y \in Procs, ShotsOf(y), procs'[y] = procs[y], stored \subseteq stored'
  PROVE  ShotsOf(y)'
BY DEF ShotsOf

(* One process takes a step; the events the others work on move on, or have *)
(* no photo more than before.                                               *)
LEMMA OneMedia ==
  ASSUME Base, Base', MediaInv, stored \subseteq stored',
         NEW x, \A y \in Procs \ {x} : procs'[y] = procs[y],
         x \in Procs /\ InFlight(x)' => ShotsOf(x)' /\ PublisherOK(x)',
         \A e \in Events : \/ events[e].status = "NONE"
                           \/ events'[e].version > events[e].version
                           \/ events'[e].version = events[e].version /\ Linked(e)' \subseteq Linked(e),
         PhotosOK', ReleasedAreReady'
  PROVE  MediaInv'
<1>1. ASSUME NEW y \in Procs, InFlight(y)' PROVE ShotsOf(y)' /\ PublisherOK(y)'
  <2>1. CASE y = x
    BY <1>1, <2>1
  <2>2. CASE y # x
    <3>1. procs'[y] = procs[y] /\ InFlight(y)
      BY <1>1, <2>2 DEF InFlight
    <3>2. SnapshotOK(y) /\ PublisherOK(y) /\ ShotsOf(y)
      BY <3>1 DEF Base, Reviewing, SnapshotsOK, MediaInv, PublishersOK, ShotsOK
    <3>3. PICK e \in Events : e = procs[y].ev
      BY <3>1 DEF Base, TypeInv, BusyOK, InFlight
    <3>4. events[e].status # "NONE"
      BY <3>2, <3>3 DEF SnapshotOK
    <3>5. PublisherOK(y)'
      BY <3>1, <3>2, <3>3, <3>4, KeepPublisher DEF Base
    <3>6. QED
      BY <3>1, <3>2, <3>5, KeepShots
  <2>3. QED
    BY <2>1, <2>2
<1>2. PublishersOK'
  <2>1. SUFFICES ASSUME NEW y \in Procs PROVE PublisherOK(y)'
    BY DEF PublishersOK
  <2>2. CASE InFlight(y)'
    BY <1>1, <2>2
  <2>3. CASE ~InFlight(y)'
    BY <2>3 DEF InFlight, PublisherOK
  <2>4. QED
    BY <2>2, <2>3
<1>3. QED
  BY <1>1, <1>2 DEF MediaInv, ShotsOK

(* Rows and photos stand while a process goes on. *)
LEMMA StandingMedia ==
  ASSUME Base, Base', MediaInv, events' = events, photos' = photos, stored \subseteq stored',
         NEW x, \A y \in Procs \ {x} : procs'[y] = procs[y],
         x \in Procs /\ InFlight(x)' => ShotsOf(x)' /\ PublisherOK(x)'
  PROVE  MediaInv'
<1>1. \A e \in Events : Linked(e)' = Linked(e)
  BY DEF Linked
<1>2. PhotosOK'
  BY DEF MediaInv, PhotosOK
<1>3. ReleasedAreReady'
  BY <1>1 DEF MediaInv, ReleasedAreReady, Released
<1>4. QED
  BY <1>1, <1>2, <1>3, OneMedia

(* A process without photos in memory has nothing to answer for. *)
LEMMA FreshMedia ==
  ASSUME Base, Base', MediaInv, events' = events, photos' = photos, stored' = stored,
         NEW x \in Procs, NEW p, Become(x, p), p.pc = "row" => p.shots = NoShots,
         p.pc \in {"idle", "row", "saving"}
  PROVE  MediaInv'
<1>1. procs'[x] = p /\ \A y \in Procs \ {x} : procs'[y] = procs[y]
  BY DEF Become, Base, TypeInv, TypeOK
<1>2. ASSUME InFlight(x)' PROVE ShotsOf(x)' /\ PublisherOK(x)'
  <2>1. p.pc = "row" /\ p.shots = NoShots
    BY <1>1, <1>2 DEF InFlight
  <2>2. QED
    BY <1>1, <2>1 DEF ShotsOf, PublisherOK, NoShots, NoShot
<1>3. QED
  BY <1>1, <1>2, StandingMedia

LEMMA QuietMedia ==
  ASSUME Base, Base', MediaInv, events' = events, photos' = photos, stored' = stored, procs' = procs
  PROVE  MediaInv'
<1>1. None \notin Procs
  BY LifecycleAssumption DEF LifecycleAssumption, Procs
<1>2. QED
  BY <1>1, StandingMedia

LEMMA LoadPhotosMedia ==
  ASSUME Base, Base', MediaInv, NEW x \in Procs, LoadPhotos(x)
  PROVE  MediaInv'
<1> DEFINE shots == [p \in Photos |->
             IF photos[p].event = procs[x].ev THEN ShotOf(photos[p]) ELSE NoShot]
           new == [procs[x] EXCEPT !.pc = "loaded", !.shots = shots]
<1>1. Become(x, new) /\ events' = events /\ photos' = photos /\ stored' = stored /\ InFlight(x)
  BY DEF LoadPhotos, InFlight
<1>2. procs[x] \in Proc
  BY DEF Base, TypeInv, TypeOK
<1>3. PICK e \in Events : e = procs[x].ev
  BY <1>1 DEF InFlight, Base, TypeInv, BusyOK
<1>4. /\ procs'[x].pc = "loaded" /\ procs'[x].ev = e /\ procs'[x].row = procs[x].row
      /\ procs'[x].op = procs[x].op /\ procs'[x].shots = shots
      /\ \A y \in Procs \ {x} : procs'[y] = procs[y]
  BY <1>1, <1>2, <1>3 DEF Become, Base, TypeInv, TypeOK, Proc
<1>5. ASSUME NEW p \in Photos
      PROVE  /\ shots[p].status = "READY" => photos[p].status = "READY" /\ photos[p].event = e
                                             /\ shots[p].key = photos[p].key
             /\ photos[p].event = e => shots[p].status = photos[p].status
  BY <1>3 DEF ShotOf, NoShot
<1>6. ShotsOf(x)'
  <2> HIDE DEF shots
  <2>1. SUFFICES ASSUME NEW p \in Photos, shots[p].status = "READY"
                 PROVE  shots[p].key = e /\ <<e, p>> \in stored
    BY <1>1, <1>4 DEF ShotsOf
  <2>2. QED
    BY <1>5, <2>1 DEF MediaInv, PhotosOK
<1>7. PublisherOK(x)'
  <2> HIDE DEF shots
  <2>1. SUFFICES ASSUME procs[x].op = "publish", procs[x].row.version = events[e].version,
                        NEW p \in Photos, photos[p].event = e
                 PROVE  shots[p].status = "READY"
    BY <1>1, <1>4 DEF PublisherOK, Linked
  <2>2. x \in Handlers
    BY <1>1, <2>1 DEF Base, CommitsInv, JobsSee, JobSees, Procs
  <2>3. procs[x].row.status = "READY" /\ events[e] = procs[x].row
    BY <1>1, <1>3, <2>1, <2>2 DEF Base, CommitsInv, RequestsSee, RequestSees, Accepts
  <2>4. photos[p].status = "READY"
    BY <2>1, <2>3 DEF MediaInv, ReleasedAreReady, Released, Linked
  <2>5. QED
    BY <1>5, <2>1, <2>4
<1>8. QED
  BY <1>1, <1>4, <1>6, <1>7, StandingMedia

LEMMA ResolvePhotosMedia ==
  ASSUME Base, Base', MediaInv, NEW h \in Handlers, NEW ids \in SUBSET Photos, ResolvePhotos(h, ids)
  PROVE  MediaInv'
<1> DEFINE Resolved(p) == IF photos[p].status = "READY" /\ photos[p].key # None
                     THEN ShotOf(photos[p])
                     ELSE [ShotOf(photos[p]) EXCEPT !.status = "UPLOADED", !.key = None]
           shots == [p \in Photos |-> IF p \in ids THEN Resolved(p) ELSE NoShot]
           new == [procs[h] EXCEPT !.pc = "resolved", !.removed = InAggregate(h) \ ids,
                                   !.shots = shots]
<1>1. /\ h \in Procs /\ Become(h, new) /\ events' = events /\ photos' = photos /\ stored' = stored
      /\ InFlight(h) /\ \A p \in ids : photos[p].event \in {None, procs[h].ev}
  BY DEF ResolvePhotos, InFlight, Procs
<1>2. procs[h] \in Proc
  BY <1>1 DEF Base, TypeInv, TypeOK
<1>3. PICK e \in Events : e = procs[h].ev
  BY <1>1 DEF InFlight, Base, TypeInv, BusyOK
<1>4. /\ procs'[h].pc = "resolved" /\ procs'[h].ev = e /\ procs'[h].shots = shots
      /\ \A y \in Procs \ {h} : procs'[y] = procs[y]
  BY <1>1, <1>2, <1>3 DEF Become, Base, TypeInv, TypeOK, Proc
<1>5. ASSUME NEW p \in Photos, shots[p].status = "READY"
      PROVE  photos[p].status = "READY" /\ p \in ids /\ shots[p].key = photos[p].key
  BY <1>5 DEF ShotOf, NoShot
<1>6. ShotsOf(h)'
  <2> HIDE DEF shots
  <2>1. SUFFICES ASSUME NEW p \in Photos, shots[p].status = "READY"
                 PROVE  shots[p].key = e /\ <<e, p>> \in stored
    BY <1>1, <1>4 DEF ShotsOf
  <2>2. photos[p].event = e
    BY <1>1, <1>3, <1>5, <2>1, NoneIsNoWorker DEF MediaInv, PhotosOK
  <2>3. QED
    BY <1>5, <2>1, <2>2 DEF MediaInv, PhotosOK
<1>7. PublisherOK(h)'
  BY <1>4 DEF PublisherOK
<1>8. QED
  BY <1>1, <1>4, <1>6, <1>7, StandingMedia

LEMMA CopyPhotoMedia ==
  ASSUME Base, Base', MediaInv, NEW w \in Workers, NEW p \in Photos, CopyPhoto(w, p)
  PROVE  MediaInv'
<1> DEFINE new == [procs[w] EXCEPT !.shots[p].status = "READY", !.shots[p].key = procs[w].ev]
<1>1. /\ w \in Procs /\ Become(w, new) /\ events' = events /\ photos' = photos
      /\ stored' = stored \cup {<<procs[w].ev, p>>} /\ InFlight(w) /\ procs[w].op = "process"
  BY DEF CopyPhoto, InFlight, Procs
<1>2. procs[w] \in Proc /\ procs[w].shots \in [Photos -> Shot] /\ procs[w].shots[p] \in Shot
  BY <1>1 DEF Base, TypeInv, TypeOK, Proc
<1>3. /\ procs'[w].pc = procs[w].pc /\ procs'[w].op = "process" /\ procs'[w].ev = procs[w].ev
      /\ \A q \in Photos \ {p} : procs'[w].shots[q] = procs[w].shots[q]
      /\ procs'[w].shots[p].key = procs[w].ev
      /\ \A y \in Procs \ {w} : procs'[y] = procs[y]
  <2>1. procs'[w] = new /\ \A y \in Procs \ {w} : procs'[y] = procs[y]
    BY <1>1 DEF Become, Base, TypeInv, TypeOK
  <2>2. /\ new.pc = procs[w].pc /\ new.op = procs[w].op /\ new.ev = procs[w].ev
        /\ \A q \in Photos \ {p} : new.shots[q] = procs[w].shots[q]
        /\ new.shots[p].key = procs[w].ev
    BY <1>2 DEF Proc, Shot
  <2> HIDE DEF new
  <2>3. QED
    BY <1>1, <2>1, <2>2
<1>4. ShotsOf(w)'
  <2>1. ShotsOf(w)
    BY <1>1 DEF MediaInv, ShotsOK
  <2>2. ASSUME NEW q \in Photos, procs'[w].shots[q].status = "READY"
        PROVE  procs'[w].shots[q].key = procs'[w].ev /\ <<procs'[w].ev, q>> \in stored'
    <3>1. CASE q = p
      BY <1>1, <1>3, <3>1
    <3>2. CASE q # p
      BY <1>1, <1>3, <2>1, <2>2, <3>2 DEF ShotsOf
    <3>3. QED
      BY <3>1, <3>2
  <2>3. QED
    BY <2>2 DEF ShotsOf
<1>5. PublisherOK(w)'
  BY <1>3 DEF PublisherOK
<1>6. QED
  BY <1>1, <1>3, <1>4, <1>5, StandingMedia

(* What an update does to one photo row: it drops it, links it as the       *)
(* aggregate has it, or leaves it alone.                                    *)
LEMMA UpdatedPhoto ==
  ASSUME TypeInv, NEW h \in Handlers, Update(h), NEW e, e = procs[h].ev, NEW p \in Photos
  PROVE  \/ /\ p \in procs[h].removed /\ p \notin InAggregate(h)
            /\ photos[p].event = e /\ photos'[p].event = None /\ photos'[p].status = "DELETED"
            /\ photos'[p].owner = photos[p].owner
         \/ /\ p \in InAggregate(h) /\ p \notin procs[h].removed /\ PhotoExists(p)
            /\ photos[p].owner = procs[h].org /\ photos'[p].owner = procs[h].org
            /\ photos[p].event \in {None, e} /\ photos'[p].event = e
            /\ photos'[p].status = procs[h].shots[p].status
            /\ procs[h].shots[p].key # None => photos'[p].key = procs[h].shots[p].key
         \/ /\ p \notin InAggregate(h) /\ photos'[p] = photos[p]
            /\ p \in procs[h].removed => photos[p].event # e
<1>1. photos[p] \in PhotoRow
  BY DEF TypeInv, TypeOK
<1>2. CASE p \in InAggregate(h)
  <2>1. /\ PhotoExists(p) /\ photos[p].owner = procs[h].org
        /\ photos[p].event \in {None, e} /\ p \notin procs[h].removed
    BY <1>2 DEF Update, Linkable
  <2>2. photos'[p] = Written(h, p)
    BY <1>2, <2>1 DEF Update
  <2>3. /\ photos'[p].event = e /\ photos'[p].status = procs[h].shots[p].status
        /\ photos'[p].owner = photos[p].owner
        /\ procs[h].shots[p].key # None => photos'[p].key = procs[h].shots[p].key
    BY <1>1, <2>2 DEF Written, PhotoRow
  <2>4. QED
    BY <1>2, <2>1, <2>3
<1>3. CASE p \notin InAggregate(h) /\ p \in procs[h].removed /\ photos[p].event = e
  <2>1. photos'[p] = [photos[p] EXCEPT !.event = None, !.status = "DELETED"]
    BY <1>3 DEF Update
  <2>2. QED
    BY <1>1, <1>3, <2>1 DEF PhotoRow
<1>4. CASE p \notin InAggregate(h) /\ ~(p \in procs[h].removed /\ photos[p].event = e)
  <2>1. photos'[p] = photos[p]
    BY <1>4 DEF Update
  <2>2. QED
    BY <1>4, <2>1
<1>5. QED
  BY <1>2, <1>3, <1>4

LEMMA UpdateMedia ==
  ASSUME Base, Base', MediaInv, NEW h \in Handlers, Update(h)
  PROVE  MediaInv'
<1>0. PICK e, op, row : e = procs[h].ev /\ op = procs[h].op /\ row = procs[h].row
  OBVIOUS
<1>1. /\ h \in Procs /\ InFlight(h) /\ VersionMatches(h) /\ CommitRow(h) /\ stored' = stored
      /\ op \in {"update", "resubmit", "cancel", "archive"} /\ TypeInv
  BY <1>0 DEF Update, Procs, InFlight, Base
<1>2. /\ e \in Events /\ row \in EventRow
      /\ \A f \in Events \ {e} : events'[f] = events[f]
      /\ Committed(e, op, row)
  BY <1>0, <1>1, CommittedRow
<1>3. events'[e].version > events[e].version /\ ~Released(e)'
  BY <1>0, <1>1, <1>2 DEF Committed, VersionMatches, EventRow, Released
<1>4. \A p \in Photos :
        \/ p \notin InAggregate(h) /\ photos'[p].event = None /\ photos'[p].status = "DELETED"
        \/ /\ p \in InAggregate(h) /\ photos[p].event \in {None, e} /\ photos'[p].event = e
           /\ photos'[p].status = procs[h].shots[p].status
           /\ procs[h].shots[p].key # None => photos'[p].key = procs[h].shots[p].key
        \/ photos'[p] = photos[p]
  BY <1>0, <1>1, UpdatedPhoto
<1>5. ShotsOf(h)
  BY <1>1 DEF MediaInv, ShotsOK
<1>6. PhotosOK'
  <2>1. SUFFICES ASSUME NEW p \in Photos, photos'[p].status = "READY"
                 PROVE  /\ photos'[p].event \in Events
                        /\ photos'[p].key = photos'[p].event
                        /\ <<photos'[p].event, p>> \in stored'
    BY DEF PhotosOK
  <2>2. CASE photos'[p] = photos[p]
    BY <1>1, <2>1, <2>2 DEF MediaInv, PhotosOK
  <2>3. CASE /\ photos'[p].event = e /\ photos'[p].status = procs[h].shots[p].status
             /\ procs[h].shots[p].key # None => photos'[p].key = procs[h].shots[p].key
    <3>1. procs[h].shots[p].key = e /\ <<e, p>> \in stored
      BY <1>0, <1>5, <2>1, <2>3 DEF ShotsOf
    <3>2. QED
      BY <1>1, <1>2, <2>3, <3>1, NoneIsNoWorker
  <2>4. QED
    BY <1>4, <2>1, <2>2, <2>3
<1>7. ASSUME NEW f \in Events \ {e}, NEW p \in Photos, photos'[p].event = f
      PROVE  photos'[p] = photos[p]
  BY <1>4, <1>7, NoneIsNoWorker
<1>8. \A f \in Events \ {e} : Linked(f)' \subseteq Linked(f)
  BY <1>7 DEF Linked
<1>9. ReleasedAreReady'
  <2>1. SUFFICES ASSUME NEW f \in Events, Released(f)', NEW p \in Photos, photos'[p].event = f
                 PROVE  photos'[p].status = "READY"
    BY DEF ReleasedAreReady, Linked
  <2>2. f # e
    BY <1>3, <2>1
  <2>3. photos'[p] = photos[p] /\ Released(f)
    BY <1>2, <1>7, <2>1, <2>2 DEF Released
  <2>4. QED
    BY <2>1, <2>3 DEF MediaInv, ReleasedAreReady, Linked
<1>10. procs'[h].pc = "invalidate" /\ \A y \in Procs \ {h} : procs'[y] = procs[y]
  <2>1. procs[h] \in Proc
    BY <1>1 DEF TypeInv, TypeOK
  <2>2. QED
    BY <1>1, <2>1 DEF CommitRow, Become, TypeInv, TypeOK, Proc
<1>11. ~InFlight(h)'
  BY <1>10 DEF InFlight
<1>12. \A f \in Events : \/ events[f].status = "NONE"
                         \/ events'[f].version > events[f].version
                         \/ events'[f].version = events[f].version /\ Linked(f)' \subseteq Linked(f)
  BY <1>2, <1>3, <1>8
<1>13. QED
  BY <1>1, <1>6, <1>9, <1>10, <1>11, <1>12, OneMedia

(* Publishing and approving: every photo of the event is READY in memory. *)
LEMMA LifecycleMedia ==
  ASSUME Base, Base', MediaInv, NEW x \in Procs, procs[x].pc = "loaded", UpdateLifecycle(x),
         procs[x].op \in {"publish", "process"},
         \A p \in Linked(procs[x].ev) : procs[x].shots[p].status = "READY"
  PROVE  MediaInv'
<1>0. PICK e, op, row : e = procs[x].ev /\ op = procs[x].op /\ row = procs[x].row
  OBVIOUS
<1>1. /\ InFlight(x) /\ VersionMatches(x) /\ CommitRow(x) /\ stored' = stored /\ TypeInv
      /\ op \in {"update", "resubmit", "publish", "cancel", "archive", "process"}
  BY <1>0 DEF UpdateLifecycle, InFlight, Base
<1>2. /\ e \in Events /\ row \in EventRow
      /\ \A f \in Events \ {e} : events'[f] = events[f]
      /\ Committed(e, op, row)
  BY <1>0, <1>1, CommittedRow
<1>3. events'[e].version > events[e].version
  BY <1>0, <1>1, <1>2 DEF Committed, VersionMatches, EventRow
<1>4. \A f \in Events : Linked(f)' = Linked(f)
  BY <1>1, LifecycleLinks
<1>5. ShotsOf(x)
  BY <1>1 DEF MediaInv, ShotsOK
<1>6. ASSUME NEW p \in Photos
      PROVE  \/ photos'[p] = photos[p] /\ photos[p].event # e
             \/ photos'[p].event = e /\ photos'[p].key = e /\ <<e, p>> \in stored /\ photos'[p].status = "READY"
  <2>1. CASE photos[p].event # e
    BY <1>0, <2>1 DEF UpdateLifecycle
  <2>2. CASE photos[p].event = e
    <3>1. procs[x].shots[p].status = "READY"
      BY <1>0, <2>2 DEF Linked
    <3>2. p \in InAggregate(x) /\ procs[x].shots[p].key = e /\ <<e, p>> \in stored
      BY <1>0, <1>5, <3>1 DEF InAggregate, ShotsOf
    <3>3. photos'[p] = Written(x, p) /\ photos[p] \in PhotoRow
      BY <1>0, <1>1, <2>2, <3>2 DEF UpdateLifecycle, TypeInv, TypeOK
    <3>4. /\ photos'[p].event = e /\ photos'[p].status = "READY" /\ photos'[p].key = e
      BY <1>0, <1>2, <3>1, <3>2, <3>3, NoneIsNoWorker DEF Written, PhotoRow
    <3>5. QED
      BY <3>2, <3>4
  <2>3. QED
    BY <2>1, <2>2
<1>7. PhotosOK'
  BY <1>1, <1>2, <1>6 DEF MediaInv, PhotosOK
<1>8. ReleasedAreReady'
  <2>1. SUFFICES ASSUME NEW f \in Events, Released(f)', NEW p \in Photos, photos'[p].event = f
                 PROVE  photos'[p].status = "READY"
    BY DEF ReleasedAreReady, Linked
  <2>2. CASE photos'[p] = photos[p] /\ photos[p].event # e
    BY <1>2, <2>1, <2>2 DEF MediaInv, ReleasedAreReady, Linked, Released
  <2>3. QED
    BY <1>6, <2>2
<1>9. procs'[x].pc = "invalidate" /\ \A y \in Procs \ {x} : procs'[y] = procs[y]
  <2>1. procs[x] \in Proc
    BY <1>1 DEF TypeInv, TypeOK
  <2>2. QED
    BY <1>1, <2>1 DEF CommitRow, Become, TypeInv, TypeOK, Proc
<1>10. ~InFlight(x)'
  BY <1>9 DEF InFlight
<1>11. \A f \in Events : \/ events[f].status = "NONE"
                         \/ events'[f].version > events[f].version
                         \/ events'[f].version = events[f].version /\ Linked(f)' \subseteq Linked(f)
  BY <1>2, <1>3, <1>4
<1>12. QED
  BY <1>1, <1>7, <1>8, <1>9, <1>10, <1>11, OneMedia

LEMMA PublishMedia ==
  ASSUME Base, Base', MediaInv, NEW h \in Handlers, PublishEvent(h)
  PROVE  MediaInv'
<1>1. h \in Procs /\ procs[h].pc = "loaded" /\ procs[h].op = "publish" /\ UpdateLifecycle(h)
  BY DEF PublishEvent, Procs
<1>2. \A p \in Linked(procs[h].ev) : procs[h].shots[p].status = "READY"
  BY <1>1 DEF MediaInv, PublishersOK, PublisherOK, UpdateLifecycle, VersionMatches
<1>3. QED
  BY <1>1, <1>2, LifecycleMedia

LEMMA ApproveMedia ==
  ASSUME Base, Base', MediaInv, NEW w \in Workers, ApproveEvent(w)
  PROVE  MediaInv'
<1>1. w \in Procs /\ procs[w].pc = "loaded" /\ procs[w].op = "process" /\ UpdateLifecycle(w)
  BY DEF ApproveEvent, Procs
<1>2. Linked(procs[w].ev) \subseteq InAggregate(w)
  BY <1>1 DEF Base, Reviewing, SnapshotsOK, SnapshotOK, InFlight, UpdateLifecycle, VersionMatches
<1>3. \A p \in Linked(procs[w].ev) : procs[w].shots[p].status = "READY"
  BY <1>2 DEF ApproveEvent, AllReady
<1>4. QED
  BY <1>1, <1>3, LifecycleMedia

(* What the commit of a creation does to one photo row. *)
LEMMA SavedPhoto ==
  ASSUME TypeInv, NEW h \in Handlers, Save(h), NEW e, e = procs[h].ev, NEW p \in Photos
  PROVE  \/ /\ p \in InAggregate(h) /\ PhotoExists(p)
            /\ photos'[p].event = e /\ photos'[p].status = "UPLOADED"
            /\ photos'[p].owner = photos[p].owner
         \/ ~(p \in InAggregate(h) /\ PhotoExists(p)) /\ photos'[p] = photos[p]
<1>1. photos[p] \in PhotoRow
  BY DEF TypeInv, TypeOK
<1>2. CASE p \in InAggregate(h) /\ PhotoExists(p)
  <2>1. photos'[p] = [photos[p] EXCEPT !.event = e, !.status = "UPLOADED"]
    BY <1>2 DEF Save
  <2>2. QED
    BY <1>1, <1>2, <2>1 DEF PhotoRow
<1>3. CASE ~(p \in InAggregate(h) /\ PhotoExists(p))
  <2>1. photos'[p] = photos[p]
    BY <1>3 DEF Save
  <2>2. QED
    BY <1>3, <2>1
<1>4. QED
  BY <1>2, <1>3

LEMMA SaveMedia ==
  ASSUME Base, Base', MediaInv, NEW h \in Handlers, Save(h)
  PROVE  MediaInv'
<1>0. PICK e : e = procs[h].ev
  OBVIOUS
<1>1. /\ h \in Procs /\ e \in Events /\ events[e].status = "NONE" /\ stored' = stored /\ TypeInv
  BY <1>0 DEF Procs, Save, Base, Reviewing, SavingOK, TypeInv, BusyOK
<1>2. /\ events'[e] = Created(procs[h].org)
      /\ \A f \in Events \ {e} : events'[f] = events[f]
  BY <1>0, <1>1 DEF Save, TypeInv, TypeOK
<1>3. events'[e].status = "UPLOADED"
  BY <1>2 DEF Created, NoEvent
<1>4. \A p \in Photos :
        \/ photos'[p].event = e /\ photos'[p].status = "UPLOADED"
        \/ photos'[p] = photos[p]
  BY <1>0, <1>1, SavedPhoto
<1>5. PhotosOK'
  BY <1>1, <1>4 DEF MediaInv, PhotosOK
<1>6. ReleasedAreReady'
  BY <1>2, <1>3, <1>4 DEF MediaInv, ReleasedAreReady, Linked, Released
<1>7. procs'[h].pc = "idle" /\ \A y \in Procs \ {h} : procs'[y] = procs[y]
  BY <1>1 DEF Save, Become, TypeInv, TypeOK, Idle
<1>8. ~InFlight(h)'
  BY <1>7 DEF InFlight
<1>9. \A f \in Events \ {e} : Linked(f)' \subseteq Linked(f)
  BY <1>4 DEF Linked
<1>10. \A f \in Events : \/ events[f].status = "NONE"
                         \/ events'[f].version > events[f].version
                         \/ events'[f].version = events[f].version /\ Linked(f)' \subseteq Linked(f)
  BY <1>1, <1>2, <1>9
<1>11. QED
  BY <1>1, <1>5, <1>6, <1>7, <1>8, <1>10, OneMedia

(* Rows that are READY stay so, and no photo joins an event, while no       *)
(* process moves: new uploads, and the erasure of an account.               *)
LEMMA RowsMedia ==
  ASSUME Base, Base', MediaInv, procs' = procs, stored' = stored,
         \A p \in Photos : /\ photos'[p].event = photos[p].event \/ photos'[p].event = None
                           /\ photos'[p].status = photos[p].status \/ photos'[p].status # "READY"
                           /\ photos[p].status = "READY" => /\ photos'[p].key = photos[p].key
                                                            /\ photos'[p].event = photos[p].event
                                                            /\ photos'[p].status = "READY",
         \A e \in Events : events'[e].version = events[e].version /\ (Released(e)' => Released(e))
  PROVE  MediaInv'
<1>1. \A e \in Events : Linked(e)' \subseteq Linked(e)
  BY NoneIsNoWorker DEF Linked
<1>2. PhotosOK'
  BY DEF MediaInv, PhotosOK
<1>3. ReleasedAreReady'
  BY <1>1 DEF MediaInv, ReleasedAreReady, Linked
<1>4. None \notin Procs
  BY LifecycleAssumption DEF LifecycleAssumption, Procs
<1>5. QED
  BY <1>1, <1>2, <1>3, <1>4, OneMedia

LEMMA RequestMedia ==
  ASSUME Base, Base', MediaInv, NEW o \in Organizers, NEW ids \in SUBSET Photos,
         RequestPhotoUploads(o, ids)
  PROVE  MediaInv'
<1>1. procs' = procs /\ stored' = stored /\ events' = events
  BY DEF RequestPhotoUploads
<1>2. ASSUME NEW p \in Photos
      PROVE  \/ photos'[p] = photos[p]
             \/ photos'[p].event = None /\ photos'[p].status # "READY" /\ photos[p].status # "READY"
  <2>1. CASE p \in ids
    BY <2>1 DEF RequestPhotoUploads, NoPhoto
  <2>2. CASE p \notin ids
    BY <2>2 DEF RequestPhotoUploads
  <2>3. QED
    BY <2>1, <2>2
<1>3. \A e \in Events : Released(e)' => Released(e)
  BY <1>1 DEF Released
<1>4. QED
  BY <1>1, <1>2, <1>3, RowsMedia

LEMMA EraseMedia ==
  ASSUME Base, Base', MediaInv, NEW o \in Organizers, EraseDomainData(o)
  PROVE  MediaInv'
<1>1. procs' = procs /\ stored' = stored
  BY DEF EraseDomainData
<1>2. ASSUME NEW p \in Photos
      PROVE  /\ photos'[p].event = photos[p].event /\ photos'[p].key = photos[p].key
             /\ \/ photos'[p].status = photos[p].status
                \/ photos'[p].status = "DELETED" /\ photos[p].event = None
  BY DEF EraseDomainData, Base, TypeInv, TypeOK, PhotoRow
<1>3. \A p \in Photos : photos[p].status = "READY" => photos[p].event # None
  BY NoneIsNoWorker DEF MediaInv, PhotosOK
<1>4. ASSUME NEW e \in Events
      PROVE  events'[e].version = events[e].version /\ (Released(e)' => Released(e))
  <2>1. /\ events[e] \in EventRow
        /\ events'[e] = IF events[e].org = o THEN Archive(events[e]) ELSE events[e]
    BY DEF EraseDomainData, Base, TypeInv, TypeOK
  <2>2. Archive(events[e]).version = events[e].version /\ Archive(events[e]).status = "CANCELLED"
    BY <2>1 DEF Archive, EventRow
  <2>3. QED
    BY <2>1, <2>2 DEF Released
<1>5. QED
  BY <1>1, <1>2, <1>3, <1>4, RowsMedia

LEMMA TakeMedia ==
  ASSUME Base, Base', MediaInv, NEW w \in Workers, NEW r \in Rows, Take(w, r)
  PROVE  MediaInv'
<1>1. w \in Procs /\ events' = events /\ photos' = photos /\ stored' = stored
  BY DEF Take, Procs
<1>2. CASE procs' = procs
  BY <1>1, <1>2, QuietMedia
<1>3. CASE procs' # procs
  <2>1. PICK p : p = [Idle EXCEPT !.pc = "row", !.op = "process", !.ev = r[1],
                          !.org = events[r[1]].org, !.row = events[r[1]], !.job = r]
    OBVIOUS
  <2>2. Become(w, p) /\ p.pc = "row" /\ p.shots = NoShots
    BY <1>3, <2>1 DEF Take, Idle
  <2>3. QED
    BY <1>1, <2>2, FreshMedia
<1>4. QED
  BY <1>2, <1>3

LEMMA NextMedia == Base /\ Base' /\ MediaInv /\ [Next]_vars => MediaInv'
<1> SUFFICES ASSUME Base, Base', MediaInv, [Next]_vars PROVE MediaInv'
  OBVIOUS
<1>0. Idle.pc = "idle" /\ Idle.shots = NoShots
  BY DEF Idle
<1>1. CASE \E o \in Organizers, ids \in SUBSET Photos : RequestPhotoUploads(o, ids)
  BY <1>1, RequestMedia
<1>2. CASE \E p \in Photos : Upload(p)
  BY <1>2, QuietMedia DEF Upload
<1>3. ASSUME NEW h \in Handlers, HandlerStep(h) PROVE MediaInv'
  <2>0. h \in Procs
    BY DEF Procs
  <2>1. ASSUME NEW o \in Organizers, NEW e \in Events, NEW ids \in SUBSET Photos,
               FindPendingPhotos(h, o, e, ids)
        PROVE  MediaInv'
    <3>1. PICK p : p = [Idle EXCEPT !.pc = "saving", !.op = "create", !.ev = e, !.org = o,
                  !.shots = [q \in Photos |->
                     IF q \in ids THEN [NoShot EXCEPT !.status = "UPLOADED"] ELSE NoShot]]
      OBVIOUS
    <3>2. Become(h, p) /\ p.pc = "saving"
      BY <2>1, <3>1 DEF FindPendingPhotos, Idle
    <3>3. events' = events /\ photos' = photos /\ stored' = stored
      BY <2>1 DEF FindPendingPhotos
    <3>4. QED
      BY <2>0, <3>2, <3>3, FreshMedia
  <2>2. ASSUME NEW op \in AllCommands, NEW o \in Organizers, NEW e \in Events, Load(h, op, o, e)
        PROVE  MediaInv'
    <3>1. PICK p : p = [Idle EXCEPT !.pc = "row", !.op = op, !.ev = e, !.org = o, !.row = events[e]]
      OBVIOUS
    <3>2. Become(h, p) /\ p.pc = "row" /\ p.shots = NoShots
      BY <2>2, <3>1 DEF Load, Idle
    <3>3. events' = events /\ photos' = photos /\ stored' = stored
      BY <2>2 DEF Load
    <3>4. QED
      BY <2>0, <3>2, <3>3, FreshMedia
  <2>3. CASE Abandon(h) \/ Invalidate(h)
    BY <1>0, <2>0, <2>3, FreshMedia DEF Abandon, Invalidate
  <2>4. QED
    BY <1>3, <2>1, <2>2, <2>3, ResolvePhotosMedia, UpdateMedia, PublishMedia, SaveMedia DEF HandlerStep
<1>4. CASE \E x \in Procs : LoadPhotos(x)
  BY <1>4, LoadPhotosMedia
<1>5. ASSUME NEW w \in Workers, WorkerStep(w) PROVE MediaInv'
  <2>0. w \in Procs
    BY DEF Procs
  <2>1. CASE FailAttempt(w) \/ CompleteJob(w) \/ WorkerDies(w)
    BY <1>0, <2>0, <2>1, FreshMedia DEF FailAttempt, CompleteJob, WorkerDies
  <2>2. QED
    BY <1>5, <2>1, TakeMedia, CopyPhotoMedia, ApproveMedia DEF WorkerStep
<1>6. CASE \E d \in Dispatchers : DispatcherStep(d)
  BY <1>6, QuietMedia DEF DispatcherStep, ClaimBatch, AddJob, MarkProcessed, DispatchFails
<1>7. CASE \E r \in Rows : Stall(r) \/ RemoveFinished(r)
  BY <1>7, QuietMedia DEF Stall, RemoveFinished
<1>8. ASSUME NEW o \in Organizers, ErasureStep(o) PROVE MediaInv'
  BY <1>8, EraseMedia, QuietMedia DEF ErasureStep, EraseCaches, EraseObject
<1>9. CASE UNCHANGED vars
  BY <1>9, QuietMedia DEF vars
<1>10. QED
  BY <1>1, <1>2, <1>3, <1>4, <1>5, <1>6, <1>7, <1>8, <1>9 DEF Next

(* Every photo of a released event is READY, its key names the event, and   *)
(* the object was copied to the media bucket for that event, even when the  *)
(* row was passed from one event to another or two creations raced for it.  *)
THEOREM ReleasedMediaAreServable == Spec => []ReleasedMediaIsServable
<1>1. Init => MediaInv
  <2>1. ASSUME Init PROVE \A x \in Procs : procs[x].pc = "idle"
    BY <2>1 DEF Init, Idle
  <2>2. QED
    BY <2>1 DEF Init, MediaInv, PhotosOK, ShotsOK, PublishersOK, PublisherOK, ReleasedAreReady,
       Released, NoEvent, NoPhoto, InFlight
<1>2. QED
  BY <1>1, BaseInductive, NextMedia, ServableFollows, PTL DEF Spec

-----------------------------------------------------------------------------
(* What a commit overwrites is the row its process had read, unless the     *)
(* account was erased under a job.                                          *)
LEMMA Overwritten ==
  ASSUME Base, NEW x \in Procs, InFlight(x), VersionMatches(x),
         NEW e, NEW row, e = procs[x].ev, row = procs[x].row
  PROVE  /\ events[e] = row \/ ~InUse(events[e].org)
         /\ ~row.archived
         /\ x \in Handlers => events[e] = row /\ Accepts(procs[x].op, row)
         /\ x \in Workers => row.status = "UPLOADED"
<1>1. row.version = events[e].version
  BY DEF VersionMatches
<1>2. CASE x \in Handlers
  <2>1. RequestSees(x)
    BY <1>2 DEF Base, CommitsInv, RequestsSee
  <2>2. x \notin Workers
    BY <1>2, LifecycleAssumption DEF LifecycleAssumption
  <2>3. QED
    BY <1>1, <2>1, <2>2 DEF RequestSees, Accepts
<1>3. CASE x \in Workers
  <2>1. JobSees(x)
    BY <1>3 DEF Base, CommitsInv, JobsSee
  <2>2. x \notin Handlers
    BY <1>3, LifecycleAssumption DEF LifecycleAssumption
  <2>3. QED
    BY <1>1, <2>1, <2>2 DEF JobSees
<1>4. QED
  BY <1>2, <1>3 DEF Procs

StaysArchived ==
  \A e \in Events : events[e].archived /\ InUse(events[e].org) => events'[e].archived

LEMMA CommitStaysArchived ==
  ASSUME Base, NEW x \in Procs, InFlight(x), VersionMatches(x), CommitRow(x),
         procs[x].op \in {"update", "resubmit", "publish", "cancel", "archive", "process"}
  PROVE  StaysArchived
<1>0. PICK e, op, row : e = procs[x].ev /\ op = procs[x].op /\ row = procs[x].row
  OBVIOUS
<1>1. \A f \in Events \ {e} : events'[f] = events[f]
  BY <1>0, CommittedRow DEF Base
<1>2. events[e].archived => ~InUse(events[e].org)
  BY <1>0, Overwritten
<1>3. QED
  BY <1>1, <1>2 DEF StaysArchived

LEMMA NextStaysArchived == Base /\ [Next]_vars => StaysArchived
<1> SUFFICES ASSUME Base, [Next]_vars PROVE StaysArchived
  OBVIOUS
<1>0. events' = events => StaysArchived
  BY DEF StaysArchived
<1>1. CASE \E o \in Organizers, ids \in SUBSET Photos : RequestPhotoUploads(o, ids)
  BY <1>0, <1>1 DEF RequestPhotoUploads
<1>2. CASE \E p \in Photos : Upload(p)
  BY <1>0, <1>2 DEF Upload
<1>3. ASSUME NEW h \in Handlers, HandlerStep(h) PROVE StaysArchived
  <2>0. h \in Procs
    BY DEF Procs
  <2>1. CASE Save(h)
    <3>1. PICK e : e = procs[h].ev
      OBVIOUS
    <3>2. e \in Events /\ events[e] = NoEvent
      BY <2>0, <2>1, <3>1 DEF Save, Base, Reviewing, SavingOK, TypeInv, BusyOK, CommitsInv, RowsOK
    <3>3. \A f \in Events \ {e} : events'[f] = events[f]
      BY <2>1, <3>1, <3>2 DEF Save, Base, TypeInv, TypeOK
    <3>4. QED
      BY <3>2, <3>3 DEF StaysArchived, NoEvent
  <2>2. CASE Update(h)
    BY <2>0, <2>2, CommitStaysArchived DEF Update, InFlight
  <2>3. CASE PublishEvent(h)
    BY <2>0, <2>3, CommitStaysArchived DEF PublishEvent, UpdateLifecycle, InFlight
  <2>4. QED
    BY <1>0, <1>3, <2>1, <2>2, <2>3
       DEF HandlerStep, FindPendingPhotos, Load, ResolvePhotos, Abandon, Invalidate
<1>4. CASE \E x \in Procs : LoadPhotos(x)
  BY <1>0, <1>4 DEF LoadPhotos
<1>5. ASSUME NEW w \in Workers, WorkerStep(w) PROVE StaysArchived
  <2>1. CASE ApproveEvent(w)
    BY <2>1, CommitStaysArchived DEF ApproveEvent, UpdateLifecycle, InFlight, Procs
  <2>2. QED
    BY <1>0, <1>5, <2>1 DEF WorkerStep, Take, CopyPhoto, FailAttempt, CompleteJob, WorkerDies
<1>6. CASE \E d \in Dispatchers : DispatcherStep(d)
  BY <1>0, <1>6 DEF DispatcherStep, ClaimBatch, AddJob, MarkProcessed, DispatchFails
<1>7. CASE \E r \in Rows : Stall(r) \/ RemoveFinished(r)
  BY <1>0, <1>7 DEF Stall, RemoveFinished
<1>8. ASSUME NEW o \in Organizers, ErasureStep(o) PROVE StaysArchived
  <2>1. CASE EraseDomainData(o)
    <3>1. ASSUME NEW e \in Events, events[e].archived PROVE events'[e].archived
      <4>1. /\ events[e] \in EventRow
            /\ events'[e] = IF events[e].org = o THEN Archive(events[e]) ELSE events[e]
        BY <2>1 DEF EraseDomainData, Base, TypeInv, TypeOK
      <4>2. Archive(events[e]).archived
        BY <4>1 DEF Archive, EventRow
      <4>3. QED
        BY <3>1, <4>1, <4>2
    <3>2. QED
      BY <3>1 DEF StaysArchived
  <2>2. QED
    BY <1>0, <1>8, <2>1 DEF ErasureStep, EraseCaches, EraseObject
<1>9. CASE UNCHANGED vars
  BY <1>0, <1>9 DEF vars
<1>10. QED
  BY <1>1, <1>2, <1>3, <1>4, <1>5, <1>6, <1>7, <1>8, <1>9 DEF Next

(* What an owner has archived stays archived for as long as the account     *)
(* lives, whatever commands and jobs had read the event before.             *)
THEOREM OwnersArchiveIsFinal == Spec => ArchiveIsFinal
<1>1. Spec => [][StaysArchived]_vars
  BY BaseInductive, NextStaysArchived, PTL DEF Spec
<1>2. QED
  BY <1>1 DEF ArchiveIsFinal, StaysArchived

-----------------------------------------------------------------------------
(* The lifecycle implements EventReview. *)

LivePhase(row) ==
  CASE row.status = "NONE"      -> "none"
    [] row.status = "DRAFT"     -> "draft"
    [] row.status = "UPLOADED"  -> "inReview"
    [] row.status = "READY"     -> "ready"
    [] row.status = "PUBLISHED" -> "public"
    [] row.status = "CANCELLED" -> "cancelled"

PhaseOf(row, inUse) ==
  IF row.archived THEN IF inUse THEN "archived" ELSE "erased" ELSE LivePhase(row)

LEMMA Phases ==
  /\ phaseBar = [e \in Events |-> PhaseOf(events[e], erasure[events[e].org].stage = "no")]
  /\ phaseBar' = [e \in Events |-> PhaseOf(events'[e], erasure'[events'[e].org].stage = "no")]
BY DEF phaseBar, LivePhase, PhaseOf, InUse

LEMMA SamePhase ==
  ASSUME NEW row, NEW a, NEW b, row.archived => (a <=> b)
  PROVE  PhaseOf(row, a) = PhaseOf(row, b)
<1>1. CASE row.archived
  BY <1>1 DEF PhaseOf
<1>2. CASE ~row.archived
  BY <1>2 DEF PhaseOf
<1>3. QED
  BY <1>1, <1>2

LEMMA ReviewStutters ==
  ASSUME Base, events' = events, reviewed' = reviewed,
         \A o \in Organizers : erasure'[o].stage = "no" <=> erasure[o].stage = "no"
  PROVE  UNCHANGED Review!rvars
<1>1. \A e \in Events : events[e].archived => events[e].org \in Organizers
  BY DEF Base, CommitsInv, RowsOK, NoEvent
<1>2. \A e \in Events : PhaseOf(events'[e], erasure'[events'[e].org].stage = "no")
                        = PhaseOf(events[e], erasure[events[e].org].stage = "no")
  BY <1>1, SamePhase
<1>3. phaseBar' = phaseBar
  BY <1>2, Phases
<1>4. QED
  BY <1>3 DEF Review!rvars

(* The same for steps that have nothing to do with an erasure. *)
LEMMA QuietReviews ==
  ASSUME Base, UNCHANGED <<events, erasure, reviewed>>
  PROVE  UNCHANGED Review!rvars
BY ReviewStutters

(* One event moves; the others keep their phase, content and approval. *)
LEMMA ReviewMoves ==
  ASSUME NEW e \in Events, \A f \in Events \ {e} : events'[f] = events[f], erasure' = erasure,
         NEW from, NEW to,
         PhaseOf(events[e], erasure[events[e].org].stage = "no") \in from,
         PhaseOf(events'[e], erasure[events'[e].org].stage = "no") = to
  PROVE  Review!Move(e, from, to)
<1>1. phaseBar[e] \in from
  BY Phases
<1>2. phaseBar' = [phaseBar EXCEPT ![e] = to]
  BY Phases
<1>3. QED
  BY <1>1, <1>2 DEF Review!Move

LEMMA SaveReviews ==
  ASSUME Base, NEW h \in Handlers, Save(h)
  PROVE  Review!Next
<1>0. PICK e : e = procs[h].ev
  OBVIOUS
<1>1. /\ e \in Events /\ events[e] = NoEvent /\ reviewed' = reviewed /\ erasure' = erasure
  BY <1>0 DEF Procs, Save, Base, Reviewing, SavingOK, TypeInv, BusyOK, CommitsInv, RowsOK
<1>2. /\ events'[e] = Created(procs[h].org)
      /\ \A f \in Events \ {e} : events'[f] = events[f]
  BY <1>0, <1>1 DEF Save, Base, TypeInv, TypeOK
<1>3. /\ PhaseOf(events[e], erasure[events[e].org].stage = "no") = "none"
      /\ PhaseOf(events'[e], erasure[events'[e].org].stage = "no") = "inReview"
      /\ events'[e].rev = events[e].rev
  BY <1>1, <1>2 DEF LivePhase, PhaseOf, Created, NoEvent
<1>4. Review!Move(e, {"none"}, "inReview")
  BY <1>1, <1>2, <1>3, ReviewMoves
<1>5. Review!Submit(e)
  BY <1>1, <1>2, <1>3, <1>4 DEF Review!Submit
<1>6. QED
  BY <1>1, <1>5 DEF Review!Next

LEMMA CommitReviews ==
  ASSUME Base, NEW x \in Procs, InFlight(x), VersionMatches(x), CommitRow(x), erasure' = erasure,
         NEW op, op = procs[x].op,
         op \in {"update", "resubmit", "publish", "cancel", "archive", "process"},
         op = "process" <=> x \in Workers,
         op # "process" => reviewed' = reviewed,
         op = "process" =>
           \A f \in Events : reviewed'[f].rev = IF f = procs[x].ev THEN procs[x].row.rev ELSE reviewed[f].rev
  PROVE  Review!Next
<1>0. PICK e, row : e = procs[x].ev /\ row = procs[x].row
  OBVIOUS
<1>1. /\ e \in Events /\ row \in EventRow
      /\ \A f \in Events \ {e} : events'[f] = events[f]
      /\ Committed(e, op, row)
  BY <1>0, CommittedRow DEF Base
<1>2. /\ ~row.archived
      /\ op # "process" => events[e] = row /\ Accepts(op, row)
      /\ op = "process" => row.status = "UPLOADED"
  BY <1>0, Overwritten DEF Procs
<1>3. op # "process" => /\ erasure[row.org].stage = "no" /\ row.status # "NONE"
                        /\ events'[e].org = row.org
  <2>1. SUFFICES ASSUME op # "process" PROVE erasure[row.org].stage = "no" /\ row.status # "NONE"
                                             /\ events'[e].org = row.org
    OBVIOUS
  <2>2. x \in Handlers
    BY <2>1 DEF Procs
  <2>3. RequestSees(x)
    BY <2>2 DEF Base, CommitsInv, RequestsSee
  <2>4. QED
    BY <1>0, <1>1, <1>2, <2>1, <2>3 DEF RequestSees, InUse, Accepts, Committed
<1>4. op # "process" => /\ row.status \in EventStatus /\ row.version \in Nat
                        /\ row.rev \in Nat /\ row.rev <= row.version
  BY <1>1, <1>2 DEF EventRow, Base, CommitsInv, RowsOK
<1>5. op \notin {"update", "process"} => \A f \in Events : events'[f].rev = events[f].rev
  BY <1>1, <1>2 DEF Committed
<1>6. CASE op = "update"
  <2>1. /\ PhaseOf(events[e], erasure[events[e].org].stage = "no") \in Review!Live
        /\ PhaseOf(events'[e], erasure[events'[e].org].stage = "no") = "draft"
    BY <1>1, <1>2, <1>3, <1>4, <1>6 DEF Accepts, Committed, LivePhase, PhaseOf, Review!Live, EventStatus
  <2>2. Review!Move(e, Review!Live, "draft")
    BY <1>1, <2>1, ReviewMoves
  <2>3. events'[e].rev > events[e].rev
    BY <1>1, <1>2, <1>4, <1>6 DEF Committed
  <2>4. Review!Revise(e)
    BY <1>1, <1>6, <2>2, <2>3 DEF Review!Revise
  <2>5. QED
    BY <1>1, <2>4 DEF Review!Next
<1>7. CASE op = "resubmit"
  <2>1. /\ PhaseOf(events[e], erasure[events[e].org].stage = "no") = "draft"
        /\ PhaseOf(events'[e], erasure[events'[e].org].stage = "no") = "inReview"
    BY <1>1, <1>2, <1>7 DEF Accepts, Committed, LivePhase, PhaseOf
  <2>2. Review!Move(e, {"draft"}, "inReview")
    BY <1>1, <2>1, ReviewMoves
  <2>3. Review!Resubmit(e)
    BY <1>5, <1>7, <2>2 DEF Review!Resubmit
  <2>4. QED
    BY <1>1, <2>3 DEF Review!Next
<1>8. CASE op = "publish"
  <2>1. /\ PhaseOf(events[e], erasure[events[e].org].stage = "no") = "ready"
        /\ PhaseOf(events'[e], erasure[events'[e].org].stage = "no") = "public"
    BY <1>1, <1>2, <1>8 DEF Accepts, Committed, LivePhase, PhaseOf
  <2>2. Review!Move(e, {"ready"}, "public")
    BY <1>1, <2>1, ReviewMoves
  <2>3. Review!Publish(e)
    BY <1>5, <1>8, <2>2 DEF Review!Publish
  <2>4. QED
    BY <1>1, <2>3 DEF Review!Next
<1>9. CASE op = "cancel"
  <2>1. /\ PhaseOf(events[e], erasure[events[e].org].stage = "no") \in Review!Live
        /\ PhaseOf(events'[e], erasure[events'[e].org].stage = "no") = "cancelled"
    BY <1>1, <1>2, <1>3, <1>4, <1>9 DEF Accepts, Committed, LivePhase, PhaseOf, Review!Live, EventStatus
  <2>2. Review!Move(e, Review!Live, "cancelled")
    BY <1>1, <2>1, ReviewMoves
  <2>3. Review!Cancel(e)
    BY <1>5, <1>9, <2>2 DEF Review!Cancel
  <2>4. QED
    BY <1>1, <2>3 DEF Review!Next
<1>10. CASE op = "archive"
  <2> DEFINE from == Review!Live \cup {"cancelled"}
  <2>1. /\ PhaseOf(events[e], erasure[events[e].org].stage = "no") \in from
        /\ PhaseOf(events'[e], erasure[events'[e].org].stage = "no") = "archived"
    BY <1>1, <1>2, <1>3, <1>4, <1>10 DEF Committed, LivePhase, PhaseOf, Review!Live, EventStatus
  <2>2. Review!Move(e, from, "archived")
    BY <1>1, <2>1, ReviewMoves
  <2>3. Review!Archive(e)
    BY <1>5, <1>10, <2>2 DEF Review!Archive
  <2>4. QED
    BY <1>1, <2>3 DEF Review!Next
<1>11. CASE op = "process"
  <2>1. \/ events[e] = row
        \/ erasure[events[e].org].stage # "no" /\ events[e] = Archive(row)
    <3>1. x \in Workers /\ row.version = events[e].version
      BY <1>0, <1>11 DEF VersionMatches
    <3>2. JobSees(x)
      BY <3>1 DEF Base, CommitsInv, JobsSee
    <3>3. QED
      BY <1>0, <3>1, <3>2 DEF JobSees, InUse
  <2>2. Archive(row).archived /\ Archive(row).rev = row.rev
    BY <1>1 DEF Archive, EventRow
  <2>3. PhaseOf(events[e], erasure[events[e].org].stage = "no") \in {"inReview", "erased"}
    BY <1>2, <1>11, <2>1, <2>2 DEF LivePhase, PhaseOf
  <2>4. PhaseOf(events'[e], erasure[events'[e].org].stage = "no") = "ready"
    BY <1>1, <1>2, <1>11 DEF Committed, LivePhase, PhaseOf
  <2>5. Review!Move(e, {"inReview", "erased"}, "ready")
    BY <1>1, <2>3, <2>4, ReviewMoves
  <2>6. events[e].rev = row.rev /\ \A f \in Events : events'[f].rev = events[f].rev
    BY <1>1, <1>11, <2>1, <2>2 DEF Committed
  <2>7. [f \in Events |-> reviewed[f].rev]' =
          [[f \in Events |-> reviewed[f].rev] EXCEPT ![e] = [f \in Events |-> events[f].rev][e]]
    <3>1. \A f \in Events : reviewed'[f].rev = IF f = e THEN row.rev ELSE reviewed[f].rev
      BY <1>0, <1>11
    <3>2. [f \in Events |-> events[f].rev][e] = row.rev
      BY <1>1, <2>6
    <3>3. [f \in Events |-> reviewed[f].rev]' =
            [f \in Events |-> IF f = e THEN row.rev ELSE reviewed[f].rev]
      BY <3>1
    <3>4. QED
      BY <1>1, <3>2, <3>3
  <2>8. Review!Approve(e)
    BY <2>5, <2>6, <2>7 DEF Review!Approve
  <2>9. QED
    BY <1>1, <2>8 DEF Review!Next
<1>12. QED
  BY <1>6, <1>7, <1>8, <1>9, <1>10, <1>11

(* The events of an erased account leave their phases together. *)
LEMMA EraseReviews ==
  ASSUME Base, NEW o \in Organizers, EraseDomainData(o)
  PROVE  Review!Next
<1> DEFINE es == {e \in Events : events[e].org = o}
<1>1. /\ reviewed' = reviewed /\ erasure[o].stage = "no" /\ erasure'[o].stage # "no"
      /\ \A p \in Organizers \ {o} : erasure'[p] = erasure[p]
      /\ \A e \in Events : events'[e] = IF e \in es THEN Archive(events[e]) ELSE events[e]
  BY DEF EraseDomainData, InUse, Base, TypeInv, TypeOK
<1>2. ASSUME NEW e \in es
      PROVE  /\ PhaseOf(events[e], erasure[events[e].org].stage = "no") \notin {"none", "erased"}
             /\ PhaseOf(events'[e], erasure'[events'[e].org].stage = "no") = "erased"
             /\ events'[e].rev = events[e].rev
  <2>1. events[e] \in EventRow /\ events[e].status # "NONE" /\ events[e].org = o
    BY LifecycleAssumption DEF Base, CommitsInv, RowsOK, NoEvent, TypeInv, TypeOK, LifecycleAssumption
  <2>2. /\ Archive(events[e]).archived /\ Archive(events[e]).org = o
        /\ Archive(events[e]).rev = events[e].rev
    BY <2>1 DEF Archive, EventRow
  <2>3. PhaseOf(events[e], erasure[events[e].org].stage = "no") \notin {"none", "erased"}
    BY <1>1, <2>1 DEF LivePhase, PhaseOf, EventRow, EventStatus
  <2>4. PhaseOf(events'[e], erasure'[events'[e].org].stage = "no") = "erased"
    BY <1>1, <2>2 DEF LivePhase, PhaseOf
  <2>5. QED
    BY <1>1, <2>2, <2>3, <2>4
<1>3. ASSUME NEW e \in Events \ es
      PROVE  /\ PhaseOf(events'[e], erasure'[events'[e].org].stage = "no")
                   = PhaseOf(events[e], erasure[events[e].org].stage = "no")
             /\ events'[e].rev = events[e].rev
  <2>1. events'[e] = events[e] /\ events[e].org # o
    BY <1>1
  <2>2. events[e].archived => events[e].org \in Organizers
    BY DEF Base, CommitsInv, RowsOK, NoEvent
  <2>3. QED
    <3>1. events[e].archived => erasure'[events[e].org] = erasure[events[e].org]
      BY <1>1, <2>1, <2>2
    <3>2. PhaseOf(events[e], erasure'[events[e].org].stage = "no")
            = PhaseOf(events[e], erasure[events[e].org].stage = "no")
      BY <3>1, SamePhase
    <3>3. QED
      BY <2>1, <3>2
<1> HIDE DEF es
<1>4. es \in SUBSET Events
  BY DEF es
<1>5. \A e \in es : phaseBar[e] \notin {"none", "erased"}
  BY <1>2, <1>4, Phases
<1>6. phaseBar' = [e \in Events |-> IF e \in es THEN "erased" ELSE phaseBar[e]]
  BY <1>2, <1>3, Phases
<1>7. \A e \in Events : events'[e].rev = events[e].rev
  BY <1>2, <1>3
<1>8. Review!Erase(es)
  BY <1>1, <1>5, <1>6, <1>7 DEF Review!Erase
<1>9. QED
  BY <1>4, <1>8 DEF Review!Next

LEMMA StepReviews ==
  ASSUME Base, [Next]_vars
  PROVE  Review!Next \/ UNCHANGED Review!rvars
<1>1. CASE \E o \in Organizers, ids \in SUBSET Photos : RequestPhotoUploads(o, ids)
  BY <1>1, QuietReviews DEF RequestPhotoUploads
<1>2. CASE \E p \in Photos : Upload(p)
  BY <1>2, QuietReviews DEF Upload
<1>3. ASSUME NEW h \in Handlers, HandlerStep(h) PROVE Review!Next \/ UNCHANGED Review!rvars
  <2>0. h \in Procs /\ h \notin Workers
    BY LifecycleAssumption DEF LifecycleAssumption, Procs
  <2>1. CASE Update(h)
    <3>1. PICK op : op = procs[h].op
      OBVIOUS
    <3>2. /\ InFlight(h) /\ VersionMatches(h) /\ CommitRow(h) /\ reviewed' = reviewed
          /\ erasure' = erasure
          /\ op \in {"update", "resubmit", "cancel", "archive"}
      BY <2>1, <3>1 DEF Update, InFlight
    <3>3. QED
      BY <2>0, <3>1, <3>2, CommitReviews
  <2>2. CASE PublishEvent(h)
    <3>1. PICK op : op = procs[h].op
      OBVIOUS
    <3>2. /\ InFlight(h) /\ VersionMatches(h) /\ CommitRow(h) /\ reviewed' = reviewed
          /\ erasure' = erasure
          /\ op = "publish"
      BY <2>2, <3>1 DEF PublishEvent, UpdateLifecycle, InFlight
    <3>3. QED
      BY <2>0, <3>1, <3>2, CommitReviews
  <2>3. QED
    BY <1>3, <2>1, <2>2, SaveReviews, QuietReviews
       DEF HandlerStep, FindPendingPhotos, Load, ResolvePhotos, Abandon, Invalidate
<1>4. CASE \E x \in Procs : LoadPhotos(x)
  BY <1>4, QuietReviews DEF LoadPhotos
<1>5. ASSUME NEW w \in Workers, WorkerStep(w) PROVE Review!Next \/ UNCHANGED Review!rvars
  <2>1. CASE ApproveEvent(w)
    <3>1. PICK op, e : op = procs[w].op /\ e = procs[w].ev
      OBVIOUS
    <3>2. /\ w \in Procs /\ InFlight(w) /\ VersionMatches(w) /\ CommitRow(w) /\ op = "process"
          /\ erasure' = erasure
      BY <2>1, <3>1 DEF ApproveEvent, UpdateLifecycle, InFlight, Procs
    <3>3. reviewed' = [reviewed EXCEPT ![e] = [rev |-> procs[w].row.rev, photos |-> InAggregate(w)]]
      BY <2>1, <3>1 DEF ApproveEvent
    <3>4. \A f \in Events : reviewed'[f].rev = IF f = e THEN procs[w].row.rev ELSE reviewed[f].rev
      BY <3>3 DEF Base, TypeInv, TypeOK
    <3>5. QED
      BY <3>1, <3>2, <3>4, CommitReviews
  <2>2. QED
    BY <1>5, <2>1, QuietReviews DEF WorkerStep, Take, CopyPhoto, FailAttempt, CompleteJob, WorkerDies
<1>6. CASE \E d \in Dispatchers : DispatcherStep(d)
  BY <1>6, QuietReviews DEF DispatcherStep, ClaimBatch, AddJob, MarkProcessed, DispatchFails
<1>7. CASE \E r \in Rows : Stall(r) \/ RemoveFinished(r)
  BY <1>7, QuietReviews DEF Stall, RemoveFinished
<1>8. ASSUME NEW o \in Organizers, ErasureStep(o) PROVE Review!Next \/ UNCHANGED Review!rvars
  <2>1. CASE EraseCaches(o) \/ \E p \in Photos : EraseObject(o, p)
    <3>1. events' = events /\ reviewed' = reviewed
      BY <2>1 DEF EraseCaches, EraseObject
    <3>2. \A q \in Organizers : erasure'[q].stage = "no" <=> erasure[q].stage = "no"
      BY <2>1 DEF EraseCaches, EraseObject, Base, TypeInv, TypeOK
    <3>3. QED
      BY <3>1, <3>2, ReviewStutters
  <2>2. QED
    BY <1>8, <2>1, EraseReviews DEF ErasureStep
<1>9. CASE UNCHANGED vars
  BY <1>9, QuietReviews DEF vars
<1>10. QED
  BY <1>1, <1>2, <1>3, <1>4, <1>5, <1>6, <1>7, <1>8, <1>9 DEF Next

(* Seen from outside, every command and every approval is one atomic step   *)
(* on the current row: the lifecycle with its reads, commits, queue, crashes *)
(* and erasures implements EventReview.                                     *)
THEOREM LifecycleImplementsReview == Spec => ImplementsReview
<1>1. Init => Review!Init
  <2>1. ASSUME Init PROVE phaseBar = [e \in Events |-> "none"]
    BY <2>1 DEF Init, phaseBar, NoEvent
  <2>2. QED
    BY <2>1 DEF Init, Review!Init, NoEvent
<1>2. ASSUME Base, [Next]_vars PROVE [Review!Next]_(Review!rvars)
  BY <1>2, StepReviews
<1>3. QED
  BY <1>1, <1>2, BaseInductive, PTL DEF Spec, ImplementsReview, Review!Spec

-----------------------------------------------------------------------------
(* The photos of events. *)

LEMMA FewFewer ==
  ASSUME NEW T \in SUBSET Photos, Few(T), NEW S \in SUBSET T
  PROVE  Few(S)
<1>1. IsFiniteSet(T)
  BY LifecycleAssumption, FS_Subset DEF LifecycleAssumption
<1>2. IsFiniteSet(S) /\ Cardinality(S) <= Cardinality(T)
  BY <1>1, FS_Subset
<1>3. Cardinality(S) \in Nat /\ Cardinality(T) \in Nat /\ MaxPhotos \in Nat
  BY <1>1, <1>2, FS_CardinalityType, LifecycleAssumption DEF LifecycleAssumption
<1>4. QED
  BY <1>2, <1>3 DEF Few

LEMMA FewNone == Few({})
BY FS_EmptySet, LifecycleAssumption DEF Few, LifecycleAssumption

(* What the aggregate accepts is not empty and not too much. *)
LEMMA FewValid ==
  ASSUME NEW S \in SUBSET Photos
  PROVE  CountValid(S) <=> Few(S) /\ S # {}
<1>1. IsFiniteSet(S)
  BY LifecycleAssumption, FS_Subset DEF LifecycleAssumption
<1>2. Cardinality(S) \in Nat /\ (Cardinality(S) = 0 <=> S = {}) /\ MaxPhotos \in Nat
  BY <1>1, FS_CardinalityType, FS_EmptySet, LifecycleAssumption DEF LifecycleAssumption
<1>3. QED
  BY <1>2 DEF CountValid, Few

LEMMA KeepHolds ==
  ASSUME TypeInv, TypeInv', NEW y \in Procs, InFlight(y), SnapshotOK(y), HoldsPhotos(y),
         procs'[y] = procs[y], NEW e \in Events, e = procs[y].ev,
         \/ events'[e].version > events[e].version
         \/ events'[e].version = events[e].version /\ Linked(e)' \subseteq Linked(e)
  PROVE  HoldsPhotos(y)'
<1>1. /\ procs[y].row.version \in Nat /\ events[e].version \in Nat /\ events'[e].version \in Nat
      /\ procs[y].row.version <= events[e].version
  BY DEF TypeInv, TypeOK, Proc, EventRow, SnapshotOK
<1>2. InAggregate(y)' = InAggregate(y)
  BY DEF InAggregate
<1>3. /\ Few(InAggregate(y)')
      /\ \A p \in InAggregate(y)' : procs'[y].shots[p].status \notin {"ABSENT", "DELETED"}
  BY <1>2 DEF HoldsPhotos
<1>4. Linked(procs[y].ev)' = Linked(e)' /\ Linked(procs[y].ev) = Linked(e)
  BY DEF Linked
<1>5. ASSUME procs[y].row.version = events'[e].version
      PROVE  /\ procs[y].pc = "loaded" => Linked(e)' \subseteq InAggregate(y)
             /\ procs[y].pc = "resolved" => Linked(e)' \subseteq InAggregate(y) \cup procs[y].removed
  <2>1. procs[y].row.version = events[e].version /\ Linked(e)' \subseteq Linked(e)
    BY <1>1, <1>5
  <2>2. QED
    BY <1>4, <2>1 DEF HoldsPhotos
<1>6. QED
  BY <1>2, <1>3, <1>4, <1>5 DEF HoldsPhotos, Few

(* One process takes a step; the photos keep their owners, and the events   *)
(* the others work on move on, or have no photo more than before.           *)
LEMMA OnePhotos ==
  ASSUME Base, Base', PhotosInv,
         NEW x, \A y \in Procs \ {x} : procs'[y] = procs[y],
         x \in Procs /\ InFlight(x)' => HoldsPhotos(x)',
         x \in Handlers /\ procs'[x].pc = "saving" =>
            Few(InAggregate(x)') /\ \A p \in InAggregate(x)' : photos'[p].owner = procs'[x].org,
         \A p \in Photos : photos[p].owner \in Organizers => photos'[p].owner = photos[p].owner,
         \A e \in Events : \/ events[e].status = "NONE"
                           \/ events'[e].version > events[e].version
                           \/ events'[e].version = events[e].version /\ Linked(e)' \subseteq Linked(e),
         LinksOK', OwnedOK'
  PROVE  PhotosInv'
<1>1. AggregatesOK'
  <2>1. SUFFICES ASSUME NEW y \in Procs, InFlight(y)' PROVE HoldsPhotos(y)'
    BY DEF AggregatesOK
  <2>2. CASE y = x
    BY <2>1, <2>2
  <2>3. CASE y # x
    <3>1. procs'[y] = procs[y] /\ InFlight(y)
      BY <2>1, <2>3 DEF InFlight
    <3>2. SnapshotOK(y) /\ HoldsPhotos(y)
      BY <3>1 DEF Base, Reviewing, SnapshotsOK, PhotosInv, AggregatesOK
    <3>3. PICK e \in Events : e = procs[y].ev
      BY <3>1 DEF Base, TypeInv, BusyOK, InFlight
    <3>4. events[e].status # "NONE"
      BY <3>2, <3>3 DEF SnapshotOK
    <3>5. QED
      BY <3>1, <3>2, <3>3, <3>4, KeepHolds DEF Base
  <2>4. QED
    BY <2>2, <2>3
<1>2. CreationsOK'
  <2>1. SUFFICES ASSUME NEW h \in Handlers, procs'[h].pc = "saving"
                 PROVE  Few(InAggregate(h)') /\ \A p \in InAggregate(h)' : photos'[p].owner = procs'[h].org
    BY DEF CreationsOK, Few
  <2>2. CASE h = x
    BY <2>1, <2>2
  <2>3. CASE h # x
    <3>1. procs'[h] = procs[h]
      BY <2>3 DEF Procs
    <3>2. InAggregate(h)' = InAggregate(h) /\ procs[h].org \in Organizers
      BY <2>1, <3>1 DEF InAggregate, Base, CommitsInv, CreatorsOK
    <3>3. Few(InAggregate(h)) /\ \A p \in InAggregate(h) : photos[p].owner = procs[h].org
      BY <2>1, <3>1 DEF PhotosInv, CreationsOK
    <3>4. QED
      BY <3>1, <3>2, <3>3 DEF InAggregate
  <2>4. QED
    BY <2>2, <2>3
<1>3. QED
  BY <1>1, <1>2 DEF PhotosInv

LEMMA StandingPhotos ==
  ASSUME Base, Base', PhotosInv, events' = events, photos' = photos,
         NEW x, \A y \in Procs \ {x} : procs'[y] = procs[y],
         x \in Procs /\ InFlight(x)' => HoldsPhotos(x)',
         x \in Handlers /\ procs'[x].pc = "saving" =>
            Few(InAggregate(x)') /\ \A p \in InAggregate(x)' : photos'[p].owner = procs'[x].org
  PROVE  PhotosInv'
<1>1. \A e \in Events : Linked(e)' = Linked(e)
  BY DEF Linked
<1>2. LinksOK'
  BY DEF PhotosInv, LinksOK
<1>3. OwnedOK'
  BY <1>1 DEF PhotosInv, OwnedOK, PhotoExists
<1>4. QED
  BY <1>1, <1>2, <1>3, OnePhotos

LEMMA FreshPhotos ==
  ASSUME Base, Base', PhotosInv, events' = events, photos' = photos,
         NEW x \in Procs, NEW p, Become(x, p), p.pc = "row" => p.shots = NoShots,
         p.pc \in {"idle", "row"}
  PROVE  PhotosInv'
<1>1. procs'[x] = p /\ \A y \in Procs \ {x} : procs'[y] = procs[y]
  BY DEF Become, Base, TypeInv, TypeOK
<1>2. ASSUME InFlight(x)' PROVE HoldsPhotos(x)'
  <2>1. p.pc = "row" /\ p.shots = NoShots
    BY <1>1, <1>2 DEF InFlight
  <2>2. InAggregate(x)' = {}
    BY <1>1, <2>1 DEF InAggregate, NoShots, NoShot
  <2>3. QED
    BY <1>1, <2>1, <2>2, FewNone DEF HoldsPhotos
<1>3. QED
  BY <1>1, <1>2, StandingPhotos

LEMMA QuietPhotos ==
  ASSUME Base, Base', PhotosInv, events' = events, photos' = photos, procs' = procs
  PROVE  PhotosInv'
<1>1. None \notin Procs
  BY LifecycleAssumption DEF LifecycleAssumption, Procs
<1>2. QED
  BY <1>1, StandingPhotos DEF Procs

LEMMA FindPendingPhotosPhotos ==
  ASSUME Base, Base', PhotosInv, NEW h \in Handlers, NEW o \in Organizers, NEW e \in Events,
         NEW ids \in SUBSET Photos, FindPendingPhotos(h, o, e, ids)
  PROVE  PhotosInv' /\ InAggregate(h)' = ids
<1> DEFINE shots == [p \in Photos |-> IF p \in ids THEN [NoShot EXCEPT !.status = "UPLOADED"] ELSE NoShot]
           new == [Idle EXCEPT !.pc = "saving", !.op = "create", !.ev = e, !.org = o, !.shots = shots]
<1>1. /\ h \in Procs /\ Become(h, new) /\ events' = events /\ photos' = photos
      /\ CountValid(ids) /\ \A p \in ids : photos[p].owner = o
  BY DEF FindPendingPhotos, Procs
<1>2. /\ procs'[h].pc = "saving" /\ procs'[h].org = o /\ procs'[h].shots = shots
      /\ \A y \in Procs \ {h} : procs'[y] = procs[y]
  BY <1>1 DEF Become, Base, TypeInv, TypeOK, Idle
<1>3. \A p \in Photos : shots[p].status = IF p \in ids THEN "UPLOADED" ELSE "NONE"
  BY DEF NoShot
<1> HIDE DEF shots
<1>4. InAggregate(h)' = ids
  BY <1>2, <1>3 DEF InAggregate
<1>5. Few(ids)
  BY <1>1, FewValid
<1>6. ~InFlight(h)'
  BY <1>2 DEF InFlight
<1>7. \A p \in InAggregate(h)' : photos'[p].owner = procs'[h].org
  BY <1>1, <1>2, <1>4
<1>8. Few(InAggregate(h)')
  BY <1>4, <1>5
<1>9. QED
  BY <1>1, <1>2, <1>4, <1>6, <1>7, <1>8, StandingPhotos

LEMMA LoadPhotosPhotos ==
  ASSUME Base, Base', PhotosInv, NEW x \in Procs, LoadPhotos(x)
  PROVE  PhotosInv' /\ InAggregate(x)' = Linked(procs[x].ev) /\ procs'[x].pc = "loaded"
<1> DEFINE shots == [p \in Photos |->
             IF photos[p].event = procs[x].ev THEN ShotOf(photos[p]) ELSE NoShot]
           new == [procs[x] EXCEPT !.pc = "loaded", !.shots = shots]
<1>1. Become(x, new) /\ events' = events /\ photos' = photos /\ InFlight(x)
  BY DEF LoadPhotos, InFlight
<1>2. procs[x] \in Proc
  BY DEF Base, TypeInv, TypeOK
<1>3. PICK e \in Events : e = procs[x].ev
  BY <1>1 DEF InFlight, Base, TypeInv, BusyOK
<1>4. /\ procs'[x].pc = "loaded" /\ procs'[x].ev = e /\ procs'[x].shots = shots
      /\ \A y \in Procs \ {x} : procs'[y] = procs[y]
  BY <1>1, <1>2, <1>3 DEF Become, Base, TypeInv, TypeOK, Proc
<1>5. \A p \in Photos : shots[p].status = IF photos[p].event = e THEN photos[p].status ELSE "NONE"
  BY <1>3 DEF ShotOf, NoShot
<1> HIDE DEF shots
<1>6. events[e].status # "NONE"
  BY <1>1, <1>3 DEF Base, Reviewing, SnapshotsOK, SnapshotOK
<1>7. Few(Linked(e)) /\ \A p \in Linked(e) : PhotoExists(p)
  BY <1>6 DEF PhotosInv, OwnedOK
<1>8. InAggregate(x)' = Linked(e)
  <2>1. \A p \in Photos : photos[p].status # "NONE"
    BY DEF Base, TypeInv, TypeOK, PhotoRow, PhotoStatus
  <2>2. QED
    BY <1>4, <1>5, <2>1 DEF InAggregate, Linked
<1>9. HoldsPhotos(x)'
  <2>1. \A p \in InAggregate(x)' : procs'[x].shots[p].status \notin {"ABSENT", "DELETED"}
    BY <1>4, <1>5, <1>7, <1>8 DEF Linked, PhotoExists
  <2>2. Linked(procs[x].ev)' = Linked(e) /\ Linked(procs'[x].ev) = Linked(e)
    BY <1>1, <1>3, <1>4 DEF Linked
  <2>3. {p \in Photos : photos'[p].event = procs'[x].ev} = Linked(e)
    BY <1>1, <1>4 DEF Linked
  <2>4. QED
    BY <1>4, <1>7, <1>8, <2>1, <2>3 DEF HoldsPhotos, Linked
<1>10. QED
  BY <1>1, <1>3, <1>4, <1>8, <1>9, StandingPhotos DEF Linked

LEMMA ResolvePhotosPhotos ==
  ASSUME Base, Base', PhotosInv, NEW h \in Handlers, NEW ids \in SUBSET Photos, ResolvePhotos(h, ids)
  PROVE  PhotosInv' /\ InAggregate(h)' = ids /\ procs'[h].pc = "resolved"
<1> DEFINE Resolved(p) == IF photos[p].status = "READY" /\ photos[p].key # None
                     THEN ShotOf(photos[p])
                     ELSE [ShotOf(photos[p]) EXCEPT !.status = "UPLOADED", !.key = None]
           shots == [p \in Photos |-> IF p \in ids THEN Resolved(p) ELSE NoShot]
           gone == InAggregate(h) \ ids
           new == [procs[h] EXCEPT !.pc = "resolved", !.removed = gone, !.shots = shots]
<1>1. /\ h \in Procs /\ Become(h, new) /\ events' = events /\ photos' = photos
      /\ InFlight(h) /\ procs[h].pc = "loaded" /\ CountValid(ids)
  BY DEF ResolvePhotos, InFlight, Procs
<1>2. procs[h] \in Proc
  BY <1>1 DEF Base, TypeInv, TypeOK
<1>3. PICK e \in Events : e = procs[h].ev
  BY <1>1 DEF InFlight, Base, TypeInv, BusyOK
<1>4. /\ procs'[h].pc = "resolved" /\ procs'[h].ev = e /\ procs'[h].shots = shots
      /\ procs'[h].removed = gone /\ procs'[h].row = procs[h].row
      /\ \A y \in Procs \ {h} : procs'[y] = procs[y]
  BY <1>1, <1>2, <1>3 DEF Become, Base, TypeInv, TypeOK, Proc
<1>5. \A p \in Photos : /\ p \in ids => shots[p].status \in {"READY", "UPLOADED"}
                        /\ p \notin ids => shots[p].status = "NONE"
  BY DEF ShotOf, NoShot
<1> HIDE DEF shots
<1>6. InAggregate(h)' = ids
  BY <1>4, <1>5 DEF InAggregate
<1>7. Few(ids)
  BY <1>1, FewValid
<1>8. HoldsPhotos(h)'
  <2>1. \A p \in InAggregate(h)' : procs'[h].shots[p].status \notin {"ABSENT", "DELETED"}
    BY <1>4, <1>5, <1>6
  <2>2. procs[h].row.version = events[e].version => Linked(e) \subseteq InAggregate(h)
    BY <1>1, <1>3 DEF PhotosInv, AggregatesOK, HoldsPhotos
  <2>3. {p \in Photos : photos'[p].event = procs'[h].ev} = Linked(e)
    BY <1>1, <1>4 DEF Linked
  <2>4. procs'[h].row.version = events'[procs'[h].ev].version =>
          {p \in Photos : photos'[p].event = procs'[h].ev} \subseteq ids \cup procs'[h].removed
    BY <1>1, <1>4, <2>2, <2>3
  <2>5. QED
    BY <1>4, <1>6, <1>7, <2>1, <2>4 DEF HoldsPhotos, Linked
<1>9. QED
  BY <1>1, <1>4, <1>6, <1>8, StandingPhotos

LEMMA CopyPhotoPhotos ==
  ASSUME Base, Base', PhotosInv, NEW w \in Workers, NEW p \in Photos, CopyPhoto(w, p)
  PROVE  PhotosInv' /\ InAggregate(w)' = InAggregate(w)
<1> DEFINE new == [procs[w] EXCEPT !.shots[p].status = "READY", !.shots[p].key = procs[w].ev]
<1>1. /\ w \in Procs /\ Become(w, new) /\ events' = events /\ photos' = photos
      /\ InFlight(w) /\ p \in InAggregate(w)
  BY DEF CopyPhoto, InFlight, Procs
<1>2. procs[w] \in Proc /\ procs[w].shots \in [Photos -> Shot] /\ procs[w].shots[p] \in Shot
  BY <1>1 DEF Base, TypeInv, TypeOK, Proc
<1>3. /\ procs'[w].pc = procs[w].pc /\ procs'[w].ev = procs[w].ev /\ procs'[w].row = procs[w].row
      /\ procs'[w].removed = procs[w].removed
      /\ \A q \in Photos \ {p} : procs'[w].shots[q] = procs[w].shots[q]
      /\ procs'[w].shots[p].status = "READY"
      /\ \A y \in Procs \ {w} : procs'[y] = procs[y]
  <2>1. procs'[w] = new /\ \A y \in Procs \ {w} : procs'[y] = procs[y]
    BY <1>1 DEF Become, Base, TypeInv, TypeOK
  <2>2. /\ new.pc = procs[w].pc /\ new.ev = procs[w].ev /\ new.row = procs[w].row
        /\ new.removed = procs[w].removed
        /\ \A q \in Photos \ {p} : new.shots[q] = procs[w].shots[q]
        /\ new.shots[p].status = "READY"
    BY <1>2 DEF Proc, Shot
  <2> HIDE DEF new
  <2>3. QED
    BY <2>1, <2>2
<1>4. InAggregate(w)' = InAggregate(w)
  BY <1>1, <1>3 DEF InAggregate
<1>5. HoldsPhotos(w)
  BY <1>1 DEF PhotosInv, AggregatesOK
<1>6. \A q \in InAggregate(w) : procs'[w].shots[q].status \notin {"ABSENT", "DELETED"}
  <2>1. SUFFICES ASSUME NEW q \in InAggregate(w)
                 PROVE  procs'[w].shots[q].status \notin {"ABSENT", "DELETED"}
    OBVIOUS
  <2>2. CASE q = p
    BY <1>3, <2>2
  <2>3. CASE q # p
    <3>1. q \in Photos \ {p}
      BY <2>3 DEF InAggregate
    <3>2. QED
      BY <1>3, <1>5, <3>1 DEF HoldsPhotos
  <2>4. QED
    BY <2>2, <2>3
<1>7. {q \in Photos : photos'[q].event = procs'[w].ev} = Linked(procs[w].ev)
  BY <1>1, <1>3 DEF Linked
<1>8. HoldsPhotos(w)'
  BY <1>1, <1>3, <1>4, <1>5, <1>6, <1>7 DEF HoldsPhotos, Few, Linked
<1>9. w \notin Handlers
  BY LifecycleAssumption DEF LifecycleAssumption
<1>10. QED
  BY <1>1, <1>3, <1>4, <1>8, <1>9, StandingPhotos

LEMMA UpdatePhotos ==
  ASSUME Base, Base', PhotosInv, NEW h \in Handlers, Update(h), NEW e, e = procs[h].ev
  PROVE  PhotosInv' /\ Linked(e)' = InAggregate(h)
<1>0. PICK op, row, o : op = procs[h].op /\ row = procs[h].row /\ o = procs[h].org
  OBVIOUS
<1>1. /\ h \in Procs /\ InFlight(h) /\ VersionMatches(h) /\ CommitRow(h)
      /\ procs[h].pc \in {"loaded", "resolved"}
      /\ op \in {"update", "resubmit", "cancel", "archive"} /\ TypeInv
  BY <1>0 DEF Update, Procs, InFlight, Base
<1>2. /\ e \in Events /\ row \in EventRow
      /\ \A f \in Events \ {e} : events'[f] = events[f]
      /\ Committed(e, op, row)
  BY <1>0, <1>1, CommittedRow
<1>3. /\ events'[e].version > events[e].version /\ events'[e].status # "NONE"
      /\ events'[e].org = o /\ row.version = events[e].version
  <2>1. events[e].org = o /\ events[e] = row
    BY <1>0, <1>1 DEF Base, CommitsInv, RequestsSee, RequestSees, VersionMatches
  <2>2. QED
    BY <1>0, <1>1, <1>2, <2>1 DEF Committed, VersionMatches, EventRow
<1>4. \A p \in Photos :
         \/ /\ p \in procs[h].removed /\ p \notin InAggregate(h)
            /\ photos[p].event = e /\ photos'[p].event = None /\ photos'[p].status = "DELETED"
            /\ photos'[p].owner = photos[p].owner
         \/ /\ p \in InAggregate(h) /\ p \notin procs[h].removed /\ PhotoExists(p)
            /\ photos[p].owner = o /\ photos'[p].owner = o
            /\ photos[p].event \in {None, e} /\ photos'[p].event = e
            /\ photos'[p].status = procs[h].shots[p].status
         \/ /\ p \notin InAggregate(h) /\ photos'[p] = photos[p]
            /\ p \in procs[h].removed => photos[p].event # e
  BY <1>0, <1>1, UpdatedPhoto
<1>5. HoldsPhotos(h)
  BY <1>1 DEF PhotosInv, AggregatesOK
<1>6. Linked(e)' = InAggregate(h)
  <2>1. Linked(e) \subseteq InAggregate(h) \cup procs[h].removed
    BY <1>0, <1>1, <1>3, <1>5 DEF HoldsPhotos
  <2>2. InAggregate(h) \subseteq Photos
    BY DEF InAggregate
  <2>3. QED
    BY <1>2, <1>4, <2>1, <2>2, NoneIsNoWorker DEF Linked
<1>7. ASSUME NEW f \in Events \ {e}, NEW p \in Photos, photos'[p].event = f
      PROVE  photos'[p] = photos[p]
  BY <1>4, <1>7, NoneIsNoWorker
<1>8. LinksOK'
  <2>1. SUFFICES ASSUME NEW p \in Photos
                 PROVE  /\ photos'[p].status = "ABSENT" => photos'[p] = NoPhoto
                        /\ photos'[p].event # None => events'[photos'[p].event].status # "NONE"
    BY DEF LinksOK
  <2>2. CASE photos'[p].event = None /\ photos'[p].status = "DELETED"
    BY <2>2
  <2>3. CASE photos'[p].event = e /\ photos'[p].status = procs[h].shots[p].status /\ p \in InAggregate(h)
    BY <1>3, <1>5, <2>3 DEF HoldsPhotos
  <2>4. CASE photos'[p] = photos[p]
    <3>1. photos[p].event \in Events \cup {None}
      BY <1>1 DEF TypeInv, TypeOK, PhotoRow
    <3>2. QED
      BY <1>2, <1>3, <2>4, <3>1 DEF PhotosInv, LinksOK
  <2>5. QED
    BY <1>4, <2>2, <2>3, <2>4
<1>9. OwnedOK'
  <2>1. SUFFICES ASSUME NEW f \in Events, events'[f].status # "NONE"
                 PROVE  /\ Few(Linked(f)')
                        /\ \A p \in Linked(f)' : /\ photos'[p].status \notin {"ABSENT", "DELETED"}
                                                 /\ photos'[p].owner = events'[f].org
    BY DEF OwnedOK, Few, PhotoExists
  <2>2. CASE f = e
    <3>1. Few(Linked(f)')
      BY <1>5, <1>6, <2>2 DEF HoldsPhotos
    <3>2. ASSUME NEW p \in Linked(f)'
          PROVE  photos'[p].status = procs[h].shots[p].status /\ photos'[p].owner = o
      <4>1. p \in InAggregate(h) /\ p \in Photos
        BY <1>6, <2>2, <3>2 DEF InAggregate
      <4>2. QED
        BY <1>4, <4>1
    <3>3. QED
      BY <1>3, <1>5, <1>6, <2>2, <3>1, <3>2 DEF HoldsPhotos
  <2>3. CASE f # e
    <3>1. events'[f] = events[f]
      BY <1>2, <2>3
    <3>2. \A p \in Linked(f)' : p \in Photos /\ photos'[p] = photos[p] /\ p \in Linked(f)
      BY <1>7, <2>3 DEF Linked
    <3>3. Few(Linked(f)) /\ \A p \in Linked(f) : PhotoExists(p) /\ photos[p].owner = events[f].org
      BY <2>1, <3>1 DEF PhotosInv, OwnedOK
    <3>4. Few(Linked(f)')
      <4>1. Linked(f) \subseteq Photos /\ Linked(f)' \subseteq Linked(f)
        BY <3>2 DEF Linked
      <4>2. QED
        BY <3>3, <4>1, FewFewer
    <3>5. QED
      BY <3>1, <3>2, <3>3, <3>4 DEF PhotoExists
  <2>4. QED
    BY <2>2, <2>3
<1>10. procs'[h].pc = "invalidate" /\ \A y \in Procs \ {h} : procs'[y] = procs[y]
  <2>1. procs[h] \in Proc
    BY <1>1 DEF TypeInv, TypeOK
  <2>2. QED
    BY <1>1, <2>1 DEF CommitRow, Become, TypeInv, TypeOK, Proc
<1>11. ~InFlight(h)' /\ procs'[h].pc # "saving"
  BY <1>10 DEF InFlight
<1>12. \A f \in Events \ {e} : Linked(f)' \subseteq Linked(f)
  BY <1>7 DEF Linked
<1>13. \A f \in Events : \/ events[f].status = "NONE"
                         \/ events'[f].version > events[f].version
                         \/ events'[f].version = events[f].version /\ Linked(f)' \subseteq Linked(f)
  BY <1>2, <1>3, <1>12
<1>14. \A p \in Photos : photos[p].owner \in Organizers => photos'[p].owner = photos[p].owner
  BY <1>4
<1>15. PhotosInv'
  BY <1>8, <1>9, <1>10, <1>11, <1>13, <1>14, OnePhotos
<1>16. QED
  BY <1>6, <1>15

LEMMA LifecyclePhotos ==
  ASSUME Base, Base', PhotosInv, NEW x \in Procs, procs[x].pc = "loaded", UpdateLifecycle(x),
         procs[x].op \in {"publish", "process"}
  PROVE  PhotosInv' /\ \A f \in Events : Linked(f)' = Linked(f)
<1>0. PICK e, op, row : e = procs[x].ev /\ op = procs[x].op /\ row = procs[x].row
  OBVIOUS
<1>1. /\ InFlight(x) /\ VersionMatches(x) /\ CommitRow(x) /\ TypeInv
      /\ op \in {"update", "resubmit", "publish", "cancel", "archive", "process"}
  BY <1>0 DEF UpdateLifecycle, InFlight, Base
<1>2. /\ e \in Events /\ row \in EventRow
      /\ \A f \in Events \ {e} : events'[f] = events[f]
      /\ Committed(e, op, row)
  BY <1>0, <1>1, CommittedRow
<1>3. /\ events'[e].version > events[e].version /\ events'[e].status # "NONE" /\ events[e].status # "NONE"
      /\ events'[e].org = events[e].org
  <2>1. events[e].org = row.org
    <3>1. CASE x \in Handlers
      BY <1>0, <1>1, <3>1 DEF Base, CommitsInv, RequestsSee, RequestSees, VersionMatches
    <3>2. CASE x \in Workers
      BY <1>0, <1>1, <3>2 DEF Base, CommitsInv, JobsSee, JobSees
    <3>3. QED
      BY <3>1, <3>2 DEF Procs
  <2>2. events[e].status # "NONE"
    BY <1>0, <1>1 DEF Base, Reviewing, SnapshotsOK, SnapshotOK
  <2>3. QED
    BY <1>0, <1>1, <1>2, <2>1, <2>2 DEF Committed, VersionMatches, EventRow
<1>4. \A f \in Events : Linked(f)' = Linked(f)
  BY <1>1, LifecycleLinks
<1>5. HoldsPhotos(x)
  BY <1>1 DEF PhotosInv, AggregatesOK
<1>6. ASSUME NEW p \in Photos
      PROVE  /\ photos'[p].owner = photos[p].owner
             /\ photos'[p].event = photos[p].event
             /\ \/ photos'[p] = photos[p]
                \/ photos'[p].status \notin {"ABSENT", "DELETED"}
  <2>1. CASE p \in InAggregate(x) /\ photos[p].event = procs[x].ev
    <3>1. photos'[p] = Written(x, p) /\ photos[p] \in PhotoRow
      BY <1>1, <2>1 DEF UpdateLifecycle, TypeInv, TypeOK
    <3>2. /\ photos'[p].owner = photos[p].owner /\ photos'[p].event = photos[p].event
          /\ photos'[p].status = procs[x].shots[p].status
      BY <2>1, <3>1 DEF Written, PhotoRow
    <3>3. QED
      BY <1>5, <2>1, <3>2 DEF HoldsPhotos
  <2>2. CASE ~(p \in InAggregate(x) /\ photos[p].event = procs[x].ev)
    BY <2>2 DEF UpdateLifecycle
  <2>3. QED
    BY <2>1, <2>2
<1>7. \A f \in Events : /\ events'[f].org = events[f].org
                        /\ events'[f].status # "NONE" <=> events[f].status # "NONE"
  BY <1>2, <1>3
<1>8. LinksOK'
  <2>1. SUFFICES ASSUME NEW p \in Photos
                 PROVE  /\ photos'[p].status = "ABSENT" => photos'[p] = NoPhoto
                        /\ photos'[p].event # None => events'[photos'[p].event].status # "NONE"
    BY DEF LinksOK
  <2>2. photos[p].event \in Events \cup {None}
    BY <1>1 DEF TypeInv, TypeOK, PhotoRow
  <2>3. QED
    BY <1>6, <1>7, <2>2 DEF PhotosInv, LinksOK
<1>9. OwnedOK'
  <2>1. SUFFICES ASSUME NEW f \in Events, events'[f].status # "NONE"
                 PROVE  /\ Few(Linked(f))
                        /\ \A p \in Linked(f) : /\ photos'[p].status \notin {"ABSENT", "DELETED"}
                                                /\ photos'[p].owner = events'[f].org
    BY <1>4 DEF OwnedOK, Few, PhotoExists
  <2>2. Few(Linked(f)) /\ \A p \in Linked(f) : PhotoExists(p) /\ photos[p].owner = events[f].org
    BY <1>7, <2>1 DEF PhotosInv, OwnedOK
  <2>3. \A p \in Linked(f) : p \in Photos
    BY DEF Linked
  <2>4. QED
    BY <1>6, <1>7, <2>2, <2>3 DEF PhotoExists
<1>10. procs'[x].pc = "invalidate" /\ \A y \in Procs \ {x} : procs'[y] = procs[y]
  <2>1. procs[x] \in Proc
    BY <1>1 DEF TypeInv, TypeOK
  <2>2. QED
    BY <1>1, <2>1 DEF CommitRow, Become, TypeInv, TypeOK, Proc
<1>11. ~InFlight(x)' /\ procs'[x].pc # "saving"
  BY <1>10 DEF InFlight
<1>12. \A f \in Events : \/ events[f].status = "NONE"
                         \/ events'[f].version > events[f].version
                         \/ events'[f].version = events[f].version /\ Linked(f)' \subseteq Linked(f)
  BY <1>2, <1>3, <1>4
<1>13. PhotosInv'
  BY <1>6, <1>8, <1>9, <1>10, <1>11, <1>12, OnePhotos
<1>14. QED
  BY <1>4, <1>13

LEMMA SavePhotos ==
  ASSUME Base, Base', PhotosInv, NEW h \in Handlers, Save(h), NEW e, e = procs[h].ev
  PROVE  /\ PhotosInv'
         /\ Linked(e)' = {p \in InAggregate(h) : PhotoExists(p)}
         /\ \A f \in Events \ {e} : Linked(f)' = Linked(f) \ Linked(e)'
<1>0. PICK o : o = procs[h].org
  OBVIOUS
<1>1. /\ h \in Procs /\ e \in Events /\ events[e].status = "NONE" /\ TypeInv
      /\ procs[h].pc = "saving"
  BY DEF Procs, Save, Base, Reviewing, SavingOK, TypeInv, BusyOK
<1>2. /\ events'[e] = Created(o)
      /\ \A f \in Events \ {e} : events'[f] = events[f]
  BY <1>0, <1>1 DEF Save, TypeInv, TypeOK
<1>3. events'[e].status = "UPLOADED" /\ events'[e].org = o
  BY <1>2 DEF Created, NoEvent
<1>4. \A p \in Photos :
        \/ /\ p \in InAggregate(h) /\ PhotoExists(p)
           /\ photos'[p].event = e /\ photos'[p].status = "UPLOADED"
           /\ photos'[p].owner = photos[p].owner
        \/ ~(p \in InAggregate(h) /\ PhotoExists(p)) /\ photos'[p] = photos[p]
  BY <1>1, SavedPhoto
<1>5. \A p \in Photos : photos[p].event # e
  BY <1>1, NoneIsNoWorker DEF PhotosInv, LinksOK
<1>6. /\ Few(InAggregate(h)) /\ InAggregate(h) \subseteq Photos
      /\ \A p \in InAggregate(h) : photos[p].owner = o
  BY <1>0, <1>1 DEF PhotosInv, CreationsOK, InAggregate
<1>7. Linked(e)' = {p \in InAggregate(h) : PhotoExists(p)}
  BY <1>4, <1>5, <1>6 DEF Linked
<1>8. \A f \in Events \ {e} : Linked(f)' = Linked(f) \ Linked(e)'
  BY <1>4, <1>5 DEF Linked
<1>9. LinksOK'
  <2>1. SUFFICES ASSUME NEW p \in Photos
                 PROVE  /\ photos'[p].status = "ABSENT" => photos'[p] = NoPhoto
                        /\ photos'[p].event # None => events'[photos'[p].event].status # "NONE"
    BY DEF LinksOK
  <2>2. CASE photos'[p].event = e /\ photos'[p].status = "UPLOADED"
    BY <1>3, <2>2
  <2>3. CASE photos'[p] = photos[p]
    <3>1. photos[p].event \in (Events \ {e}) \cup {None}
      BY <1>1, <1>5 DEF TypeInv, TypeOK, PhotoRow
    <3>2. QED
      BY <1>2, <2>3, <3>1 DEF PhotosInv, LinksOK
  <2>4. QED
    BY <1>4, <2>2, <2>3
<1>10. OwnedOK'
  <2>1. SUFFICES ASSUME NEW f \in Events, events'[f].status # "NONE"
                 PROVE  /\ Few(Linked(f)')
                        /\ \A p \in Linked(f)' : /\ photos'[p].status \notin {"ABSENT", "DELETED"}
                                                 /\ photos'[p].owner = events'[f].org
    BY DEF OwnedOK, Few, PhotoExists
  <2>2. CASE f = e
    <3>1. Few(Linked(f)')
      <4>1. Linked(f)' \subseteq InAggregate(h)
        BY <1>7, <2>2
      <4>2. QED
        BY <1>6, <4>1, FewFewer
    <3>2. \A p \in Linked(f)' : p \in Photos /\ p \in InAggregate(h) /\ PhotoExists(p)
      BY <1>6, <1>7, <2>2
    <3>3. QED
      BY <1>3, <1>4, <1>6, <2>2, <3>1, <3>2
  <2>3. CASE f # e
    <3>1. events'[f] = events[f]
      BY <1>2, <2>3
    <3>2. \A p \in Linked(f)' : p \in Photos /\ photos'[p] = photos[p] /\ p \in Linked(f)
      BY <1>4, <2>3 DEF Linked
    <3>3. Few(Linked(f)) /\ \A p \in Linked(f) : PhotoExists(p) /\ photos[p].owner = events[f].org
      BY <2>1, <3>1 DEF PhotosInv, OwnedOK
    <3>4. Few(Linked(f)')
      <4>1. Linked(f) \subseteq Photos /\ Linked(f)' \subseteq Linked(f)
        BY <3>2 DEF Linked
      <4>2. QED
        BY <3>3, <4>1, FewFewer
    <3>5. QED
      BY <3>1, <3>2, <3>3, <3>4 DEF PhotoExists
  <2>4. QED
    BY <2>2, <2>3
<1>11. procs'[h].pc = "idle" /\ \A y \in Procs \ {h} : procs'[y] = procs[y]
  BY <1>1 DEF Save, Become, TypeInv, TypeOK, Idle
<1>12. ~InFlight(h)' /\ procs'[h].pc # "saving"
  BY <1>11 DEF InFlight
<1>13. \A f \in Events : \/ events[f].status = "NONE"
                         \/ events'[f].version > events[f].version
                         \/ events'[f].version = events[f].version /\ Linked(f)' \subseteq Linked(f)
  BY <1>1, <1>2, <1>8
<1>14. PhotosInv'
  BY <1>4, <1>9, <1>10, <1>11, <1>12, <1>13, OnePhotos
<1>15. QED
  BY <1>7, <1>8, <1>14

(* Rows come and go, or are archived, while no process moves.               *)
LEMMA RowsPhotos ==
  ASSUME Base, Base', PhotosInv, procs' = procs,
         \A p \in Photos : /\ photos'[p].event = photos[p].event
                           /\ photos[p].owner \in Organizers => photos'[p].owner = photos[p].owner
                           /\ photos'[p].status = "ABSENT" => photos'[p] = photos[p]
                           /\ photos[p].event # None => photos'[p].status = photos[p].status,
         \A e \in Events : /\ events'[e].version = events[e].version
                           /\ events'[e].org = events[e].org
                           /\ events'[e].status = "NONE" <=> events[e].status = "NONE"
  PROVE  PhotosInv' /\ \A e \in Events : Linked(e)' = Linked(e)
<1>1. \A e \in Events : Linked(e)' = Linked(e)
  BY DEF Linked
<1>2. LinksOK'
  <2>1. SUFFICES ASSUME NEW p \in Photos
                 PROVE  /\ photos'[p].status = "ABSENT" => photos'[p] = NoPhoto
                        /\ photos'[p].event # None => events'[photos'[p].event].status # "NONE"
    BY DEF LinksOK
  <2>2. photos[p].event \in Events \cup {None}
    BY DEF Base, TypeInv, TypeOK, PhotoRow
  <2>3. QED
    BY <2>2 DEF PhotosInv, LinksOK
<1>3. OwnedOK'
  <2>1. SUFFICES ASSUME NEW f \in Events, events'[f].status # "NONE"
                 PROVE  /\ Few(Linked(f))
                        /\ \A p \in Linked(f) : /\ photos'[p].status \notin {"ABSENT", "DELETED"}
                                                /\ photos'[p].owner = events'[f].org
    BY <1>1 DEF OwnedOK, Few, PhotoExists
  <2>2. Few(Linked(f)) /\ \A p \in Linked(f) : PhotoExists(p) /\ photos[p].owner = events[f].org
    BY <2>1 DEF PhotosInv, OwnedOK
  <2>3. \A p \in Linked(f) : p \in Photos /\ photos[p].event # None
    BY NoneIsNoWorker DEF Linked
  <2>4. events[f].org \in Organizers
    BY <2>1 DEF Base, CommitsInv, RowsOK
  <2>5. QED
    BY <2>2, <2>3, <2>4 DEF PhotoExists
<1>4. None \notin Procs /\ None \notin Handlers
  BY LifecycleAssumption DEF LifecycleAssumption, Procs
<1>5. PhotosInv'
  BY <1>1, <1>2, <1>3, <1>4, OnePhotos
<1>6. QED
  BY <1>1, <1>5

LEMMA RequestPhotos ==
  ASSUME Base, Base', PhotosInv, NEW o \in Organizers, NEW ids \in SUBSET Photos,
         RequestPhotoUploads(o, ids)
  PROVE  PhotosInv' /\ \A e \in Events : Linked(e)' = Linked(e)
<1>1. procs' = procs /\ events' = events
  BY DEF RequestPhotoUploads
<1>2. ASSUME NEW p \in Photos
      PROVE  \/ photos'[p] = photos[p]
             \/ /\ photos[p] = NoPhoto /\ photos'[p].event = None
                /\ photos'[p].status = "PENDING_UPLOAD"
  <2>1. CASE p \in ids
    <3>1. photos[p] = NoPhoto
      BY <2>1 DEF RequestPhotoUploads, PhotosInv, LinksOK
    <3>2. QED
      BY <2>1, <3>1 DEF RequestPhotoUploads, NoPhoto
  <2>2. CASE p \notin ids
    BY <2>2 DEF RequestPhotoUploads
  <2>3. QED
    BY <2>1, <2>2
<1>3. NoPhoto.event = None /\ NoPhoto.owner = None
  BY DEF NoPhoto
<1>4. QED
  BY <1>1, <1>2, <1>3, NoneIsNoWorker, RowsPhotos

LEMMA ErasePhotos ==
  ASSUME Base, Base', PhotosInv, NEW o \in Organizers, EraseDomainData(o)
  PROVE  PhotosInv' /\ \A e \in Events : Linked(e)' = Linked(e)
<1>1. procs' = procs
  BY DEF EraseDomainData
<1>2. ASSUME NEW p \in Photos
      PROVE  /\ photos'[p].event = photos[p].event /\ photos'[p].owner = photos[p].owner
             /\ \/ photos'[p] = photos[p]
                \/ photos'[p].status = photos[p].status /\ photos[p].status # "ABSENT"
                \/ photos'[p].status = "DELETED" /\ photos[p].event = None
  BY DEF EraseDomainData, Base, TypeInv, TypeOK, PhotoRow, PhotoExists
<1>3. ASSUME NEW e \in Events
      PROVE  /\ events'[e].version = events[e].version
             /\ events'[e].org = events[e].org
             /\ events'[e].status = "NONE" <=> events[e].status = "NONE"
  <2>1. /\ events[e] \in EventRow
        /\ events'[e] = IF events[e].org = o THEN Archive(events[e]) ELSE events[e]
    BY DEF EraseDomainData, Base, TypeInv, TypeOK
  <2>2. /\ Archive(events[e]).version = events[e].version /\ Archive(events[e]).status = "CANCELLED"
        /\ Archive(events[e]).org = events[e].org
    BY <2>1 DEF Archive, EventRow
  <2>3. events[e].org = o => events[e].status # "NONE"
    BY NoneIsNoWorker DEF Base, Reviewing, UnusedOK
  <2>4. QED
    BY <2>1, <2>2, <2>3
<1>4. QED
  BY <1>1, <1>2, <1>3, RowsPhotos

LEMMA NextPhotos == Base /\ Base' /\ PhotosInv /\ [Next]_vars => PhotosInv'
<1> SUFFICES ASSUME Base, Base', PhotosInv, [Next]_vars PROVE PhotosInv'
  OBVIOUS
<1>0. Idle.pc = "idle" /\ Idle.shots = NoShots
  BY DEF Idle
<1>1. CASE \E o \in Organizers, ids \in SUBSET Photos : RequestPhotoUploads(o, ids)
  BY <1>1, RequestPhotos
<1>2. CASE \E p \in Photos : Upload(p)
  BY <1>2, QuietPhotos DEF Upload
<1>3. ASSUME NEW h \in Handlers, HandlerStep(h) PROVE PhotosInv'
  <2>0. h \in Procs
    BY DEF Procs
  <2>1. ASSUME NEW op \in AllCommands, NEW o \in Organizers, NEW e \in Events, Load(h, op, o, e)
        PROVE  PhotosInv'
    <3>1. PICK p : p = [Idle EXCEPT !.pc = "row", !.op = op, !.ev = e, !.org = o, !.row = events[e]]
      OBVIOUS
    <3>2. Become(h, p) /\ p.pc = "row" /\ p.shots = NoShots
      BY <2>1, <3>1 DEF Load, Idle
    <3>3. events' = events /\ photos' = photos
      BY <2>1 DEF Load
    <3>4. QED
      BY <2>0, <3>2, <3>3, FreshPhotos
  <2>2. CASE Abandon(h) \/ Invalidate(h)
    BY <1>0, <2>0, <2>2, FreshPhotos DEF Abandon, Invalidate
  <2>3. CASE PublishEvent(h)
    BY <2>0, <2>3, LifecyclePhotos DEF PublishEvent
  <2>4. CASE Save(h)
    BY <2>4, SavePhotos
  <2>5. CASE Update(h)
    BY <2>5, UpdatePhotos
  <2>6. QED
    BY <1>3, <2>1, <2>2, <2>3, <2>4, <2>5, FindPendingPhotosPhotos, ResolvePhotosPhotos DEF HandlerStep
<1>4. CASE \E x \in Procs : LoadPhotos(x)
  BY <1>4, LoadPhotosPhotos
<1>5. ASSUME NEW w \in Workers, WorkerStep(w) PROVE PhotosInv'
  <2>0. w \in Procs
    BY DEF Procs
  <2>1. CASE FailAttempt(w) \/ CompleteJob(w) \/ WorkerDies(w)
    BY <1>0, <2>0, <2>1, FreshPhotos DEF FailAttempt, CompleteJob, WorkerDies
  <2>2. ASSUME NEW r \in Rows, Take(w, r) PROVE PhotosInv'
    <3>1. PICK p : p = [Idle EXCEPT !.pc = "row", !.op = "process", !.ev = r[1],
                            !.org = events[r[1]].org, !.row = events[r[1]], !.job = r]
      OBVIOUS
    <3>2. events' = events /\ photos' = photos /\ (procs' = procs \/ Become(w, p))
      BY <2>2, <3>1 DEF Take
    <3>3. p.pc = "row" /\ p.shots = NoShots
      BY <3>1 DEF Idle
    <3>4. QED
      BY <2>0, <3>2, <3>3, FreshPhotos, QuietPhotos
  <2>3. CASE ApproveEvent(w)
    BY <2>0, <2>3, LifecyclePhotos DEF ApproveEvent
  <2>4. QED
    BY <1>5, <2>1, <2>2, <2>3, CopyPhotoPhotos DEF WorkerStep
<1>6. CASE \E d \in Dispatchers : DispatcherStep(d)
  BY <1>6, QuietPhotos DEF DispatcherStep, ClaimBatch, AddJob, MarkProcessed, DispatchFails
<1>7. CASE \E r \in Rows : Stall(r) \/ RemoveFinished(r)
  BY <1>7, QuietPhotos DEF Stall, RemoveFinished
<1>8. ASSUME NEW o \in Organizers, ErasureStep(o) PROVE PhotosInv'
  BY <1>8, ErasePhotos, QuietPhotos DEF ErasureStep, EraseCaches, EraseObject
<1>9. CASE UNCHANGED vars
  BY <1>9, QuietPhotos DEF vars
<1>10. QED
  BY <1>1, <1>2, <1>3, <1>4, <1>5, <1>6, <1>7, <1>8, <1>9 DEF Next

LEMMA InitPhotos == Init => PhotosInv
<1> SUFFICES ASSUME Init PROVE PhotosInv
  OBVIOUS
<1>1. \A x \in Procs : procs[x].pc = "idle"
  BY DEF Init, Idle
<1>2. \A h \in Handlers : procs[h].pc = "idle"
  BY <1>1 DEF Procs
<1>3. QED
  BY <1>1, <1>2 DEF Init, PhotosInv, LinksOK, OwnedOK, CreationsOK, AggregatesOK, InFlight, NoEvent, NoPhoto

(* No interleaving of commands, jobs and erasures gives an event more       *)
(* photos than the aggregate allows, a photo that is deleted, or a photo of *)
(* somebody else.                                                           *)
THEOREM PhotosAreOwned == Spec => []PhotosAreItsOwn
<1>1. PhotosInv => PhotosAreItsOwn
  BY DEF PhotosInv, OwnedOK, Few, PhotosAreItsOwn
<1>2. QED
  BY <1>1, InitPhotos, BaseInductive, NextPhotos, PTL DEF Spec

(* A process that goes on from its step with what it takes away. *)
LEMMA OneRemoves ==
  ASSUME TypeInv, RemovesOK, NEW x \in Procs, NEW p, Become(x, p),
         \/ p.removed = {} \/ p.op = "update"
         \/ p.removed = procs[x].removed /\ p.op = procs[x].op
  PROVE  RemovesOK'
<1>1. procs'[x] = p /\ \A y \in Procs \ {x} : procs'[y] = procs[y]
  BY DEF Become, TypeInv, TypeOK
<1>2. QED
  BY <1>1 DEF RemovesOK

LEMMA NextRemoves == TypeInv /\ RemovesOK /\ [Next]_vars => RemovesOK'
<1> SUFFICES ASSUME TypeInv, RemovesOK, [Next]_vars PROVE RemovesOK'
  OBVIOUS
<1>0. procs' = procs => RemovesOK'
  BY DEF RemovesOK
<1>1. CASE \/ \E o \in Organizers, ids \in SUBSET Photos : RequestPhotoUploads(o, ids)
           \/ \E p \in Photos : Upload(p)
  BY <1>0, <1>1 DEF RequestPhotoUploads, Upload
<1>2. Idle.removed = {}
  BY DEF Idle
<1>3. ASSUME NEW x \in Procs, CommitRow(x) PROVE RemovesOK'
  <2>1. PICK p : p = [procs[x] EXCEPT !.pc = "invalidate", !.shots = NoShots, !.removed = {}]
    OBVIOUS
  <2>2. p.removed = {}
    BY <2>1 DEF TypeInv, TypeOK, Proc
  <2>3. Become(x, p)
    BY <1>3, <2>1 DEF CommitRow
  <2>4. QED
    BY <2>2, <2>3, OneRemoves
<1>4. ASSUME NEW h \in Handlers, HandlerStep(h) PROVE RemovesOK'
  <2>0. h \in Procs
    BY DEF Procs
  <2>1. ASSUME NEW o \in Organizers, NEW e \in Events, NEW ids \in SUBSET Photos,
               FindPendingPhotos(h, o, e, ids)
        PROVE  RemovesOK'
    <3>1. PICK p : /\ Become(h, p)
                   /\ p = [Idle EXCEPT !.pc = "saving", !.op = "create", !.ev = e, !.org = o,
                             !.shots = [q \in Photos |->
                                IF q \in ids THEN [NoShot EXCEPT !.status = "UPLOADED"] ELSE NoShot]]
      BY <2>1 DEF FindPendingPhotos
    <3>2. p.removed = {}
      BY <3>1 DEF Idle
    <3>3. QED
      BY <2>0, <3>1, <3>2, OneRemoves
  <2>2. ASSUME NEW op \in AllCommands, NEW o \in Organizers, NEW e \in Events, Load(h, op, o, e)
        PROVE  RemovesOK'
    <3>1. PICK p : /\ Become(h, p)
                   /\ p = [Idle EXCEPT !.pc = "row", !.op = op, !.ev = e, !.org = o, !.row = events[e]]
      BY <2>2 DEF Load
    <3>2. p.removed = {}
      BY <3>1 DEF Idle
    <3>3. QED
      BY <2>0, <3>1, <3>2, OneRemoves
  <2>3. ASSUME NEW ids \in SUBSET Photos, ResolvePhotos(h, ids) PROVE RemovesOK'
    <3>1. procs[h].op = "update" /\ \A y \in Procs \ {h} : procs'[y] = procs[y]
      BY <2>0, <2>3 DEF ResolvePhotos, Become, TypeInv, TypeOK
    <3>2. procs'[h].op = procs[h].op
      BY <2>0, <2>3 DEF ResolvePhotos, Become, TypeInv, TypeOK, Proc
    <3>3. QED
      BY <3>1, <3>2 DEF RemovesOK
  <2>4. CASE Save(h) \/ Abandon(h) \/ Invalidate(h)
    <3>1. Become(h, Idle)
      BY <2>4 DEF Save, Abandon, Invalidate
    <3>2. QED
      BY <1>2, <2>0, <3>1, OneRemoves
  <2>5. CASE Update(h) \/ PublishEvent(h)
    BY <1>3, <2>0, <2>5 DEF Update, PublishEvent, UpdateLifecycle
  <2>6. QED
    BY <1>4, <2>1, <2>2, <2>3, <2>4, <2>5 DEF HandlerStep
<1>5. ASSUME NEW x \in Procs, LoadPhotos(x) PROVE RemovesOK'
  <2>1. /\ procs'[x].removed = procs[x].removed /\ procs'[x].op = procs[x].op
        /\ \A y \in Procs \ {x} : procs'[y] = procs[y]
    BY <1>5 DEF LoadPhotos, Become, TypeInv, TypeOK, Proc
  <2>2. QED
    BY <2>1 DEF RemovesOK
<1>6. ASSUME NEW w \in Workers, WorkerStep(w) PROVE RemovesOK'
  <2>0. w \in Procs
    BY DEF Procs
  <2>1. ASSUME NEW r \in Rows, Take(w, r) PROVE RemovesOK'
    <3>1. CASE procs' = procs
      BY <1>0, <3>1
    <3>2. CASE procs' # procs
      <4>1. PICK p : /\ Become(w, p)
                     /\ p = [Idle EXCEPT !.pc = "row", !.op = "process", !.ev = r[1],
                               !.org = events[r[1]].org, !.row = events[r[1]], !.job = r]
        BY <2>1, <3>2 DEF Take
      <4>2. p.removed = {}
        BY <4>1 DEF Idle
      <4>3. QED
        BY <2>0, <4>1, <4>2, OneRemoves
    <3>3. QED
      BY <3>1, <3>2
  <2>2. ASSUME NEW p \in Photos, CopyPhoto(w, p) PROVE RemovesOK'
    <3>1. /\ procs'[w].removed = procs[w].removed /\ procs'[w].op = procs[w].op
          /\ \A y \in Procs \ {w} : procs'[y] = procs[y]
      BY <2>0, <2>2 DEF CopyPhoto, Become, TypeInv, TypeOK, Proc
    <3>2. QED
      BY <3>1 DEF RemovesOK
  <2>3. CASE ApproveEvent(w)
    BY <1>3, <2>0, <2>3 DEF ApproveEvent, UpdateLifecycle
  <2>4. CASE FailAttempt(w) \/ CompleteJob(w) \/ WorkerDies(w)
    <3>1. Become(w, Idle)
      BY <2>4 DEF FailAttempt, CompleteJob, WorkerDies
    <3>2. QED
      BY <1>2, <2>0, <3>1, OneRemoves
  <2>5. QED
    BY <1>6, <2>1, <2>2, <2>3, <2>4 DEF WorkerStep
<1>7. CASE \E d \in Dispatchers : DispatcherStep(d)
  BY <1>0, <1>7 DEF DispatcherStep, ClaimBatch, AddJob, MarkProcessed, DispatchFails
<1>8. CASE \E r \in Rows : Stall(r) \/ RemoveFinished(r)
  BY <1>0, <1>8 DEF Stall, RemoveFinished
<1>9. CASE \E o \in Organizers : ErasureStep(o)
  BY <1>0, <1>9 DEF ErasureStep, EraseDomainData, EraseCaches, EraseObject
<1>10. CASE UNCHANGED vars
  BY <1>0, <1>10 DEF vars
<1>11. QED
  BY <1>1, <1>4, <1>5, <1>6, <1>7, <1>8, <1>9, <1>10 DEF Next

(* What a step may do to the links: nothing, or not take an event its last  *)
(* photo, or be the creation that takes them all.                           *)
Strips ==
  \A e \in Events : Linked(e) # {} /\ Linked(e)' = {} =>
    \E f \in Events \ {e} : /\ events[f].status = "NONE" /\ events'[f].status # "NONE"
                            /\ Linked(e) \subseteq Linked(f)'

LEMMA KeptLinks ==
  ASSUME \A p \in Photos : photos'[p].event = photos[p].event
  PROVE  Strips
BY DEF Strips, Linked

LEMMA SaveStrips ==
  ASSUME Base, PhotosInv, NEW h \in Handlers, Save(h)
  PROVE  Strips
<1>1. PICK f : f = procs[h].ev
  OBVIOUS
<1>2. f \in Events /\ events[f].status = "NONE"
  BY <1>1 DEF Procs, Save, Base, Reviewing, SavingOK, TypeInv, BusyOK
<1>3. events'[f].status # "NONE"
  BY <1>1, <1>2 DEF Save, Created, NoEvent, Base, TypeInv, TypeOK
<1>4. \A p \in Photos : photos'[p].event = photos[p].event \/ photos'[p].event = f
  <2> SUFFICES ASSUME NEW p \in Photos
               PROVE  photos'[p].event = photos[p].event \/ photos'[p].event = f
    OBVIOUS
  <2>1. photos[p] \in PhotoRow
    BY DEF Base, TypeInv, TypeOK
  <2>2. [photos[p] EXCEPT !.event = f, !.status = "UPLOADED"].event = f
    BY <2>1 DEF PhotoRow
  <2>3. \/ photos'[p] = photos[p]
        \/ photos'[p] = [photos[p] EXCEPT !.event = f, !.status = "UPLOADED"]
    BY <1>1 DEF Save
  <2>4. QED
    BY <2>2, <2>3
<1>5. \A e \in Events : Linked(e) # {} => events[e].status # "NONE"
  BY LifecycleAssumption DEF PhotosInv, LinksOK, Linked, LifecycleAssumption
<1>6. ASSUME NEW e \in Events, Linked(e) # {}, Linked(e)' = {}
      PROVE  e # f /\ Linked(e) \subseteq Linked(f)'
  BY <1>2, <1>4, <1>5, <1>6 DEF Linked
<1>7. QED
  BY <1>2, <1>3, <1>6 DEF Strips

LEMMA UpdateStrips ==
  ASSUME Base, RemovesOK, NEW h \in Handlers, Update(h)
  PROVE  Strips
<1>0. PICK e : e = procs[h].ev
  OBVIOUS
<1>1. h \in Procs /\ InAggregate(h) \in SUBSET Photos /\ \A p \in Photos : photos[p] \in PhotoRow
  BY DEF Procs, InAggregate, Base, TypeInv, TypeOK
<1>2. ASSUME NEW p \in Photos, p \in InAggregate(h)
      PROVE  photos'[p].event = e /\ photos[p].event \in {None, e}
  <2>1. Linkable(h, p)
    BY <1>2 DEF Update
  <2>2. photos'[p] = Written(h, p) /\ photos[p].event \in {None, e}
    BY <1>0, <1>2, <2>1 DEF Update, Linkable
  <2>3. Written(h, p).event = e
    BY <1>0, <1>1 DEF Written, PhotoRow
  <2>4. QED
    BY <2>2, <2>3
<1>3. ASSUME NEW p \in Photos, p \notin InAggregate(h)
      PROVE  \/ photos'[p].event = photos[p].event
             \/ p \in procs[h].removed /\ photos[p].event = e
  BY <1>0, <1>3 DEF Update
<1>4. procs[h].op = "update" => \E p \in Photos : p \in InAggregate(h)
  <2>1. procs[h].op = "update" => InAggregate(h) # {}
    BY <1>1, FewValid DEF Update
  <2>2. QED
    BY <1>1, <2>1
<1>5. procs[h].op # "update" => procs[h].removed = {}
  BY <1>1 DEF RemovesOK
<1>6. SUFFICES ASSUME NEW f \in Events, Linked(f) # {} PROVE Linked(f)' # {}
  BY DEF Strips
<1>7. PICK p \in Photos : photos[p].event = f
  BY <1>6 DEF Linked
<1>8. f # None
  BY LifecycleAssumption DEF LifecycleAssumption
<1>9. CASE f # e
  <2>1. photos'[p].event = f
    BY <1>2, <1>3, <1>7, <1>8, <1>9
  <2>2. QED
    BY <2>1 DEF Linked
<1>10. CASE f = e
  <2>1. \E q \in Photos : photos'[q].event = e
    BY <1>2, <1>3, <1>4, <1>5, <1>7, <1>10
  <2>2. QED
    BY <1>10, <2>1 DEF Linked
<1>11. QED
  BY <1>9, <1>10

LEMMA LifecycleStrips ==
  ASSUME Base, NEW x \in Procs, UpdateLifecycle(x)
  PROVE  Strips
<1>1. ASSUME NEW p \in Photos PROVE photos'[p].event = photos[p].event
  <2>1. photos[p] \in PhotoRow
    BY DEF Base, TypeInv, TypeOK
  <2>2. Written(x, p).event = procs[x].ev
    BY <2>1 DEF Written, PhotoRow
  <2>3. QED
    BY <2>2 DEF UpdateLifecycle
<1>2. QED
  BY <1>1, KeptLinks

LEMMA EraseStrips ==
  ASSUME Base, NEW o \in Organizers, EraseDomainData(o)
  PROVE  Strips
<1>1. ASSUME NEW p \in Photos PROVE photos'[p].event = photos[p].event
  <2>1. photos[p] \in PhotoRow
    BY DEF Base, TypeInv, TypeOK
  <2>2. /\ [photos[p] EXCEPT !.status = "DELETED"].event = photos[p].event
        /\ [photos[p] EXCEPT !.rawKey = "deleted"].event = photos[p].event
    BY <2>1 DEF PhotoRow
  <2>3. \/ photos'[p] = photos[p]
        \/ photos'[p] = [photos[p] EXCEPT !.status = "DELETED"]
        \/ photos'[p] = [photos[p] EXCEPT !.rawKey = "deleted"]
    BY DEF EraseDomainData
  <2>4. QED
    BY <2>2, <2>3
<1>2. QED
  BY <1>1, KeptLinks

LEMMA RequestStrips ==
  ASSUME PhotosInv, NEW o \in Organizers, NEW ids \in SUBSET Photos, RequestPhotoUploads(o, ids)
  PROVE  Strips
<1>1. ASSUME NEW p \in Photos PROVE photos'[p].event = photos[p].event
  <2>1. p \in ids => photos[p] = NoPhoto
    BY DEF RequestPhotoUploads, PhotosInv, LinksOK
  <2>2. [NoPhoto EXCEPT !.owner = o, !.status = "PENDING_UPLOAD"].event = NoPhoto.event
    BY DEF NoPhoto
  <2>3. QED
    BY <2>1, <2>2 DEF RequestPhotoUploads
<1>2. QED
  BY <1>1, KeptLinks

LEMMA NextStrips == Base /\ PhotosInv /\ RemovesOK /\ [Next]_vars => Strips
<1> SUFFICES ASSUME Base, PhotosInv, RemovesOK, [Next]_vars PROVE Strips
  OBVIOUS
<1>0. photos' = photos => Strips
  BY KeptLinks
<1>1. CASE \E o \in Organizers, ids \in SUBSET Photos : RequestPhotoUploads(o, ids)
  BY <1>1, RequestStrips
<1>2. CASE \E p \in Photos : Upload(p)
  BY <1>0, <1>2 DEF Upload
<1>3. ASSUME NEW h \in Handlers, HandlerStep(h) PROVE Strips
  <2>1. CASE PublishEvent(h)
    BY <2>1, LifecycleStrips DEF PublishEvent, Procs
  <2>2. CASE \/ \E o \in Organizers, e \in Events, ids \in SUBSET Photos : FindPendingPhotos(h, o, e, ids)
             \/ \E op \in AllCommands, o \in Organizers, e \in Events : Load(h, op, o, e)
             \/ \E ids \in SUBSET Photos : ResolvePhotos(h, ids)
    BY <1>0, <2>2 DEF FindPendingPhotos, Load, ResolvePhotos
  <2>3. CASE Abandon(h) \/ Invalidate(h)
    BY <1>0, <2>3 DEF Abandon, Invalidate
  <2>4. QED
    BY <1>3, <2>1, <2>2, <2>3, SaveStrips, UpdateStrips DEF HandlerStep
<1>4. CASE \E x \in Procs : LoadPhotos(x)
  BY <1>0, <1>4 DEF LoadPhotos
<1>5. ASSUME NEW w \in Workers, WorkerStep(w) PROVE Strips
  <2>1. CASE ApproveEvent(w)
    BY <2>1, LifecycleStrips DEF ApproveEvent, Procs
  <2>2. QED
    BY <1>0, <1>5, <2>1 DEF WorkerStep, Take, CopyPhoto, FailAttempt, CompleteJob, WorkerDies
<1>6. CASE \E d \in Dispatchers : DispatcherStep(d)
  BY <1>0, <1>6 DEF DispatcherStep, ClaimBatch, AddJob, MarkProcessed, DispatchFails
<1>7. CASE \E r \in Rows : Stall(r) \/ RemoveFinished(r)
  BY <1>0, <1>7 DEF Stall, RemoveFinished
<1>8. ASSUME NEW o \in Organizers, ErasureStep(o) PROVE Strips
  BY <1>0, <1>8, EraseStrips DEF ErasureStep, EraseCaches, EraseObject
<1>9. CASE UNCHANGED vars
  BY <1>0, <1>9 DEF vars
<1>10. QED
  BY <1>1, <1>2, <1>3, <1>4, <1>5, <1>6, <1>7, <1>8, <1>9 DEF Next

(* Revisions, jobs and erasures leave every event a photo, whatever they had *)
(* read before; an event that loses its last one loses it to a creation.     *)
THEOREM EventsAreStrippedByCreations == Spec => OnlyCreationsStrip
<1>1. Init => RemovesOK
  BY DEF Init, RemovesOK, Idle
<1>2. Spec => [][Strips]_vars
  <2>1. Base => TypeInv
    BY DEF Base
  <2>2. QED
    BY <1>1, <2>1, InitPhotos, BaseInductive, NextPhotos, NextRemoves, NextStrips, PTL DEF Spec
<1>3. QED
  BY <1>2 DEF OnlyCreationsStrip, Strips

=============================================================================
