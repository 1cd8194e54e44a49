------------------------ MODULE EventLifecycleProofs ------------------------
(***************************************************************************)
(* Theorems about EventLifecycle, for any number of events, photos,        *)
(* organizers, handlers, workers and dispatchers and any bounds.           *)
(***************************************************************************)
EXTENDS EventLifecycle, TLAPS

TypeInv == TypeOK /\ JobsOK /\ BusyOK

(* A process record replaced by another one keeps procs well typed. *)
LEMMA BecomeType ==
  ASSUME procs \in [Procs -> Proc], NEW x, NEW p \in Proc, Become(x, p)
  PROVE  procs' \in [Procs -> Proc]
BY DEF Become

LEMMA NoneIsNoWorker == None \notin Workers /\ None \notin Photos /\ None \notin Events /\ None \notin Organizers
BY LifecycleAssumption DEF LifecycleAssumption

LEMMA IdleType == Idle \in Proc /\ NoShots \in [Photos -> Shot] /\ NoEvent \in EventRow /\ NoShot \in Shot
<1>1. NoEvent \in EventRow
  BY DEF NoEvent, EventRow, EventStatus
<1>2. NoShot \in Shot
  BY DEF NoShot, Shot, RawKey
<1>3. NoShots \in [Photos -> Shot]
  BY <1>2 DEF NoShots
<1>4. QED
  BY <1>1, <1>2, <1>3 DEF Idle, Proc

LEMMA ShotType ==
  ASSUME NEW row \in PhotoRow
  PROVE  ShotOf(row) \in Shot /\ ShotOf(row).status \in PhotoStatus
BY DEF PhotoRow, ShotOf, Shot

LEMMA RelinkType ==
  ASSUME NEW row \in PhotoRow, NEW e \in Events \cup {None}, NEW s \in PhotoStatus
  PROVE  [row EXCEPT !.event = e, !.status = s] \in PhotoRow
BY DEF PhotoRow

LEMMA ArchiveType ==
  ASSUME NEW row \in EventRow
  PROVE  Archive(row) \in EventRow
BY DEF Archive, EventRow, EventStatus

LEMMA ErasedPhotoType ==
  ASSUME NEW row \in PhotoRow
  PROVE  /\ [row EXCEPT !.status = "DELETED"] \in PhotoRow
         /\ [row EXCEPT !.rawKey = "deleted"] \in PhotoRow
<1>1. "DELETED" \in PhotoStatus /\ "deleted" \in RawKey
  BY DEF PhotoStatus, RawKey
<1>2. QED
  BY <1>1 DEF PhotoRow

LEMMA AppliedType ==
  ASSUME NEW row \in EventRow,
         NEW op \in {"update", "resubmit", "publish", "cancel", "archive", "process"}
  PROVE  Applied(op, row) \in EventRow
<1>1. Revise(row) \in EventRow /\ Resubmit(row) \in EventRow
  <2>1. row.version + 1 \in Nat
    BY DEF EventRow
  <2>2. Revise(row) \in EventRow
    BY <2>1 DEF EventRow, EventStatus, Revise
  <2>3. Resubmit(row) \in EventRow
    BY DEF EventRow, EventStatus, Resubmit
  <2>4. QED
    BY <2>2, <2>3
<1>2. Publish(row) \in EventRow /\ Cancel(row) \in EventRow /\ Archive(row) \in EventRow
  BY DEF EventRow, EventStatus, Publish, Cancel, Archive
<1>3. Approve(row) \in EventRow
  BY DEF EventRow, EventStatus, Approve
<1>4. QED
  BY <1>1, <1>2, <1>3, Zenon DEF Applied

LEMMA InitType == Init => TypeInv
<1>1. SUFFICES ASSUME Init PROVE TypeInv
  OBVIOUS
<1>2. NoJob \in Job
  BY LifecycleAssumption DEF NoJob, Job, LifecycleAssumption
<1>3. NoPhoto \in PhotoRow
  BY DEF NoPhoto, PhotoRow, PhotoStatus, RawKey
<1>4. QED
  BY <1>1, <1>2, <1>3, IdleType DEF Init, TypeInv, TypeOK, JobsOK, BusyOK, NoJob, Idle

(* The rows and processes a commit writes. *)
LEMMA CommitRowType ==
  ASSUME TypeOK, BusyOK, NEW x \in Procs, procs[x].pc # "idle",
         procs[x].op \in {"update", "resubmit", "publish", "cancel", "archive", "process"},
         CommitRow(x)
  PROVE  events' \in [Events -> EventRow] /\ procs' \in [Procs -> Proc] /\ staleMap' \subseteq Events
<1> DEFINE row == [Applied(procs[x].op, procs[x].row) EXCEPT !.version = @ + 1]
<1>1. procs[x] \in Proc
  BY DEF TypeOK
<1>2. row \in EventRow
  BY <1>1, AppliedType DEF Proc, EventRow
<1>3. events' \in [Events -> EventRow]
  BY <1>2 DEF CommitRow, TypeOK
<1>4. procs' \in [Procs -> Proc]
  <2>1. [procs[x] EXCEPT !.pc = "invalidate", !.shots = NoShots, !.removed = {}] \in Proc
    BY <1>1, IdleType DEF Proc
  <2>2. QED
    BY <2>1, BecomeType DEF CommitRow, TypeOK
<1>5. staleMap' \subseteq Events
  BY DEF CommitRow, TypeOK, BusyOK
<1>6. QED
  BY <1>3, <1>4, <1>5

LEMMA WrittenType ==
  ASSUME TypeOK, NEW x \in Procs, NEW p \in InAggregate(x)
  PROVE  Written(x, p) \in PhotoRow
<1>1. procs[x] \in Proc /\ photos[p] \in PhotoRow /\ p \in Photos
  BY DEF TypeOK, InAggregate
<1>2. procs[x].shots[p] \in Shot /\ procs[x].shots[p].status \in PhotoStatus
  BY <1>1 DEF Proc, Shot, InAggregate
<1>3. QED
  BY <1>1, <1>2 DEF Written, PhotoRow, Proc, Shot

(* Every action keeps every variable well typed. *)
LEMMA RequestType ==
  ASSUME TypeInv, NEW o \in Organizers, NEW ids \in SUBSET Photos, RequestPhotoUploads(o, ids)
  PROVE  TypeInv'
<1>1. [NoPhoto EXCEPT !.owner = o, !.status = "PENDING_UPLOAD"] \in PhotoRow
  BY DEF NoPhoto, PhotoRow, PhotoStatus, RawKey
<1>2. photos' \in [Photos -> PhotoRow]
  BY <1>1 DEF RequestPhotoUploads, TypeInv, TypeOK
<1>3. QED
  BY <1>2 DEF RequestPhotoUploads, TypeInv, TypeOK, JobsOK, BusyOK

LEMMA UploadType ==
  ASSUME TypeInv, NEW p \in Photos, Upload(p)
  PROVE  TypeInv'
BY DEF Upload, TypeInv, TypeOK, JobsOK, BusyOK

LEMMA FindPendingPhotosType ==
  ASSUME TypeInv, NEW h \in Handlers, NEW o \in Organizers, NEW e \in Events,
         NEW ids \in SUBSET Photos, FindPendingPhotos(h, o, e, ids)
  PROVE  TypeInv'
<1> DEFINE shots == [p \in Photos |->
             IF p \in ids THEN [NoShot EXCEPT !.status = "UPLOADED"] ELSE NoShot]
           new == [Idle EXCEPT !.pc = "saving", !.op = "create", !.ev = e, !.org = o,
                               !.shots = shots]
<1>1. [NoShot EXCEPT !.status = "UPLOADED"] \in Shot
  BY DEF NoShot, Shot, RawKey, PhotoStatus
<1>2. shots \in [Photos -> Shot]
  BY <1>1, IdleType
<1>3. new \in Proc
  BY <1>2, IdleType DEF Proc, AllCommands
<1>4. Become(h, new) /\ h \in Procs
  BY DEF FindPendingPhotos, Procs
<1>5. procs' \in [Procs -> Proc]
  BY <1>3, <1>4, BecomeType DEF TypeInv, TypeOK
<1>6. BusyOK'
  BY <1>4 DEF Become, TypeInv, TypeOK, BusyOK, Idle
<1>7. QED
  BY <1>5, <1>6 DEF FindPendingPhotos, TypeInv, TypeOK, JobsOK

LEMMA SaveType ==
  ASSUME TypeInv, NEW h \in Handlers, Save(h)
  PROVE  TypeInv'
<1>1. h \in Procs /\ procs[h] \in Proc /\ procs[h].ev \in Events
  BY DEF Procs, TypeInv, TypeOK, BusyOK, Save
<1>2. Created(procs[h].org) \in EventRow
  BY <1>1 DEF Created, NoEvent, EventRow, EventStatus, Proc
<1>3. photos' \in [Photos -> PhotoRow]
  <2>1. ASSUME NEW p \in Photos
        PROVE  [photos[p] EXCEPT !.event = procs[h].ev, !.status = "UPLOADED"] \in PhotoRow
    BY <1>1, RelinkType DEF TypeInv, TypeOK, PhotoStatus
  <2>2. QED
    BY <2>1 DEF Save, TypeInv, TypeOK
<1>4. procs' \in [Procs -> Proc]
  BY <1>1, IdleType, BecomeType DEF Save, TypeInv, TypeOK
<1>5. events' \in [Events -> EventRow]
  BY <1>2 DEF Save, TypeInv, TypeOK
<1>6. BusyOK'
  BY <1>1 DEF Become, Save, TypeInv, TypeOK, BusyOK, Idle
<1>7. QED
  BY <1>3, <1>4, <1>5, <1>6 DEF Save, TypeInv, TypeOK, JobsOK

LEMMA LoadType ==
  ASSUME TypeInv, NEW h \in Handlers, NEW op \in AllCommands, NEW o \in Organizers,
         NEW e \in Events, Load(h, op, o, e)
  PROVE  TypeInv'
<1> DEFINE new == [Idle EXCEPT !.pc = "row", !.op = op, !.ev = e, !.org = o, !.row = events[e]]
<1>1. new \in Proc
  BY IdleType DEF Proc, TypeInv, TypeOK
<1>2. Become(h, new) /\ h \in Procs
  BY DEF Load, Procs
<1>3. procs' \in [Procs -> Proc]
  BY <1>1, <1>2, BecomeType DEF TypeInv, TypeOK
<1>4. BusyOK'
  BY <1>2 DEF Become, TypeInv, TypeOK, BusyOK, Idle
<1>5. QED
  BY <1>3, <1>4 DEF Load, TypeInv, TypeOK, JobsOK

LEMMA LoadPhotosType ==
  ASSUME TypeInv, NEW x \in Procs, LoadPhotos(x)
  PROVE  TypeInv'
<1> DEFINE shots == [p \in Photos |->
             IF photos[p].event = procs[x].ev THEN ShotOf(photos[p]) ELSE NoShot]
           new == [procs[x] EXCEPT !.pc = "loaded", !.shots = shots]
<1>1. shots \in [Photos -> Shot]
  BY IdleType, ShotType DEF TypeInv, TypeOK
<1>2. procs[x] \in Proc /\ procs[x].ev \in Events
  BY DEF LoadPhotos, TypeInv, TypeOK, BusyOK
<1>3. new \in Proc /\ new.ev = procs[x].ev
  BY <1>1, <1>2 DEF Proc
<1>4. Become(x, new)
  BY DEF LoadPhotos
<1>5. procs' \in [Procs -> Proc]
  BY <1>3, <1>4, BecomeType DEF TypeInv, TypeOK
<1>6. BusyOK'
  BY <1>2, <1>3, <1>4 DEF Become, TypeInv, TypeOK, BusyOK
<1>7. QED
  BY <1>5, <1>6 DEF LoadPhotos, TypeInv, TypeOK, JobsOK

LEMMA ResolvePhotosType ==
  ASSUME TypeInv, NEW h \in Handlers, NEW ids \in SUBSET Photos, ResolvePhotos(h, ids)
  PROVE  TypeInv'
<1> DEFINE Resolved(p) == IF photos[p].status = "READY" /\ photos[p].key # None
                     THEN ShotOf(photos[p])
                     ELSE [ShotOf(photos[p]) EXCEPT !.status = "UPLOADED", !.key = None]
           shots == [p \in Photos |-> IF p \in ids THEN Resolved(p) ELSE NoShot]
           new == [procs[h] EXCEPT !.pc = "resolved", !.removed = InAggregate(h) \ ids,
                                   !.shots = shots]
<1>1. h \in Procs /\ procs[h] \in Proc /\ procs[h].ev \in Events
  BY DEF Procs, ResolvePhotos, TypeInv, TypeOK, BusyOK
<1>2. ASSUME NEW p \in Photos PROVE Resolved(p) \in Shot
  <2>1. ShotOf(photos[p]) \in Shot
    BY ShotType DEF TypeInv, TypeOK
  <2>2. [ShotOf(photos[p]) EXCEPT !.status = "UPLOADED", !.key = None] \in Shot
    BY <2>1 DEF Shot, PhotoStatus
  <2>3. QED
    BY <2>1, <2>2
<1>3. shots \in [Photos -> Shot]
  BY <1>2, IdleType
<1>4. new \in Proc /\ new.ev = procs[h].ev
  BY <1>1, <1>3 DEF Proc, InAggregate
<1>5. Become(h, new)
  BY DEF ResolvePhotos
<1>6. procs' \in [Procs -> Proc]
  BY <1>1, <1>4, <1>5, BecomeType DEF TypeInv, TypeOK
<1>7. BusyOK'
  BY <1>1, <1>4, <1>5 DEF Become, TypeInv, TypeOK, BusyOK
<1>8. QED
  BY <1>6, <1>7 DEF ResolvePhotos, TypeInv, TypeOK, JobsOK

LEMMA CommitBusy ==
  ASSUME TypeOK, BusyOK, NEW x \in Procs, procs[x].pc # "idle", CommitRow(x)
  PROVE  BusyOK'
BY DEF CommitRow, Become, TypeOK, BusyOK, Proc

LEMMA UpdateType ==
  ASSUME TypeInv, NEW h \in Handlers, Update(h)
  PROVE  TypeInv'
<1>1. h \in Procs /\ procs[h] \in Proc /\ procs[h].pc # "idle"
  BY DEF Procs, Update, TypeInv, TypeOK
<1>2. /\ CommitRow(h)
      /\ procs[h].op \in {"update", "resubmit", "publish", "cancel", "archive", "process"}
  BY DEF Update
<1>3. events' \in [Events -> EventRow] /\ procs' \in [Procs -> Proc] /\ staleMap' \subseteq Events
  BY <1>1, <1>2, CommitRowType DEF TypeInv
<1>4. photos' \in [Photos -> PhotoRow]
  <2>1. ASSUME NEW p \in Photos
        PROVE  [photos[p] EXCEPT !.event = None, !.status = "DELETED"] \in PhotoRow
    BY RelinkType DEF TypeInv, TypeOK, PhotoStatus
  <2>2. \A p \in InAggregate(h) : Written(h, p) \in PhotoRow
    BY <1>1, WrittenType DEF TypeInv
  <2>3. QED
    BY <2>1, <2>2 DEF Update, TypeInv, TypeOK
<1>5. outbox' \in [Rows -> {"none", "pending", "processed"}]
  BY DEF Update, TypeInv, TypeOK
<1>6. BusyOK'
  BY <1>1, <1>2, CommitBusy DEF TypeInv
<1>7. QED
  BY <1>3, <1>4, <1>5, <1>6 DEF Update, TypeInv, TypeOK, JobsOK

LEMMA UpdateLifecycleType ==
  ASSUME TypeInv, NEW x \in Procs, procs[x].pc # "idle", procs[x].op \in {"publish", "process"},
         UpdateLifecycle(x), reviewed' \in [Events -> [rev: Nat, photos: SUBSET Photos]]
  PROVE  TypeInv'
<1>1. events' \in [Events -> EventRow] /\ procs' \in [Procs -> Proc] /\ staleMap' \subseteq Events
  BY CommitRowType DEF UpdateLifecycle, TypeInv
<1>2. photos' \in [Photos -> PhotoRow]
  BY WrittenType DEF UpdateLifecycle, TypeInv, TypeOK
<1>3. BusyOK'
  BY CommitBusy DEF UpdateLifecycle, TypeInv
<1>4. QED
  BY <1>1, <1>2, <1>3 DEF UpdateLifecycle, TypeInv, TypeOK, JobsOK

LEMMA CommitType ==
  ASSUME TypeInv, NEW x \in Procs, PublishEvent(x) \/ ApproveEvent(x)
  PROVE  TypeInv'
<1>1. CASE PublishEvent(x)
  BY <1>1, UpdateLifecycleType DEF PublishEvent, TypeInv, TypeOK
<1>2. CASE ApproveEvent(x)
  <2>1. procs[x] \in Proc /\ procs[x].row.rev \in Nat /\ InAggregate(x) \in SUBSET Photos
    BY DEF TypeInv, TypeOK, Proc, EventRow, InAggregate
  <2>2. reviewed' \in [Events -> [rev: Nat, photos: SUBSET Photos]]
    BY <1>2, <2>1 DEF ApproveEvent, TypeInv, TypeOK
  <2>3. QED
    BY <1>2, <2>2, UpdateLifecycleType DEF ApproveEvent
<1>3. QED
  BY <1>1, <1>2

(* A process that gives up, or ends, leaves nothing to type but itself. *)
LEMMA IdleAgain ==
  ASSUME TypeInv, NEW x \in Procs, Become(x, Idle)
  PROVE  procs' \in [Procs -> Proc] /\ BusyOK'
BY IdleType, BecomeType DEF TypeInv, TypeOK, BusyOK, Become, Idle

LEMMA EndType ==
  ASSUME TypeInv, NEW x \in Procs, Abandon(x) \/ Invalidate(x) \/ WorkerDies(x)
  PROVE  TypeInv'
<1>1. Become(x, Idle)
  BY DEF Abandon, Invalidate, WorkerDies
<1>2. staleMap' \subseteq Events
  BY DEF Abandon, Invalidate, WorkerDies, Purge, LoseInvalidation, TypeInv, TypeOK
<1>3. QED
  BY <1>1, <1>2, IdleAgain DEF Abandon, Invalidate, WorkerDies, TypeInv, TypeOK, JobsOK

LEMMA DispatcherType ==
  ASSUME TypeInv, NEW d \in Dispatchers, DispatcherStep(d)
  PROVE  TypeInv'
<1>1. ASSUME NEW batch \in SUBSET Rows, ClaimBatch(d, batch) PROVE TypeInv'
  BY <1>1 DEF ClaimBatch, TypeInv, TypeOK, JobsOK, BusyOK
<1>2. ASSUME NEW r \in Rows, AddJob(d, r) PROVE TypeInv'
  <2>1. [state |-> "waiting", left |-> MaxAttempts, holder |-> None] \in Job /\ MaxAttempts > 0
    BY LifecycleAssumption DEF Job, LifecycleAssumption
  <2>2. QED
    BY <1>2, <2>1 DEF AddJob, TypeInv, TypeOK, JobsOK, BusyOK
<1>3. CASE MarkProcessed(d)
  BY <1>3 DEF MarkProcessed, TypeInv, TypeOK, JobsOK, BusyOK
<1>4. CASE DispatchFails(d)
  BY <1>4 DEF DispatchFails, TypeInv, TypeOK, JobsOK, BusyOK
<1>5. QED
  BY <1>1, <1>2, <1>3, <1>4 DEF DispatcherStep

(* A job that loses an attempt had one. *)
LEMMA RetriedType ==
  ASSUME NEW job \in Job, job.left > 0
  PROVE  /\ Retried(job) \in Job
         /\ Retried(job).state \in {"waiting", "active"} => Retried(job).left > 0
         /\ Retried(job).holder = None
<1>1. job.left - 1 \in 0 .. MaxAttempts
  BY LifecycleAssumption DEF Job, LifecycleAssumption
<1>2. QED
  BY <1>1 DEF Retried, Job

LEMMA FinishedType ==
  ASSUME NEW job \in Job
  PROVE  [job EXCEPT !.state = "completed", !.holder = None] \in Job
BY DEF Job

LEMMA RetryType ==
  ASSUME TypeInv, NEW r \in Rows, jobs[r].state = "active",
         jobs' = [jobs EXCEPT ![r] = Retried(@)]
  PROVE  jobs' \in [Rows -> Job] /\ JobsOK'
<1>1. jobs[r] \in Job /\ jobs[r].left > 0
  BY DEF TypeInv, TypeOK, JobsOK
<1>2. QED
  BY <1>1, RetriedType DEF TypeInv, TypeOK, JobsOK

LEMMA TakeType ==
  ASSUME TypeInv, NEW w \in Workers, NEW r \in Rows, Take(w, r)
  PROVE  TypeInv'
<1>1. w \in Procs /\ r[1] \in Events /\ jobs[r] \in Job /\ jobs[r].left > 0
  BY DEF Procs, Rows, TypeInv, TypeOK, JobsOK, Take
<1>2. CASE events[r[1]].status = "UPLOADED" /\ ~events[r[1]].archived
  <2> DEFINE new == [Idle EXCEPT !.pc = "row", !.op = "process", !.ev = r[1],
                          !.org = events[r[1]].org, !.row = events[r[1]], !.job = r]
  <2>1. new \in Proc /\ Become(w, new)
    BY <1>1, <1>2, IdleType DEF Proc, Take, TypeInv, TypeOK, EventRow
  <2>2. procs' \in [Procs -> Proc]
    BY <1>1, <2>1, BecomeType DEF TypeInv, TypeOK
  <2>3. BusyOK'
    BY <1>1, <2>1 DEF Become, TypeInv, TypeOK, BusyOK, Idle
  <2>4. [jobs[r] EXCEPT !.state = "active", !.holder = w] \in Job
    BY <1>1 DEF Job
  <2>5. jobs' = [jobs EXCEPT ![r] = [jobs[r] EXCEPT !.state = "active", !.holder = w]]
    BY <1>2 DEF Take, TypeInv, TypeOK
  <2>6. jobs' \in [Rows -> Job] /\ JobsOK'
    BY <1>1, <2>4, <2>5 DEF TypeInv, TypeOK, JobsOK, Job
  <2>7. QED
    BY <2>2, <2>3, <2>6 DEF Take, TypeInv, TypeOK
<1>3. CASE ~(events[r[1]].status = "UPLOADED" /\ ~events[r[1]].archived)
  <2>1. jobs' = [jobs EXCEPT ![r] = [jobs[r] EXCEPT !.state = "completed"]] /\ UNCHANGED procs
    BY <1>3 DEF Take, TypeInv, TypeOK
  <2>2. [jobs[r] EXCEPT !.state = "completed"] \in Job /\ jobs[r].holder = None
    BY <1>1 DEF Job, Take, TypeInv, JobsOK
  <2>3. jobs' \in [Rows -> Job] /\ JobsOK'
    BY <1>1, <2>1, <2>2 DEF TypeInv, TypeOK, JobsOK, Job
  <2>4. QED
    BY <2>1, <2>3 DEF Take, TypeInv, TypeOK, BusyOK
<1>4. QED
  BY <1>2, <1>3

LEMMA CopyPhotoType ==
  ASSUME TypeInv, NEW w \in Workers, NEW p \in Photos, CopyPhoto(w, p)
  PROVE  TypeInv'
<1> DEFINE new == [procs[w] EXCEPT !.shots[p].status = "READY", !.shots[p].key = procs[w].ev]
<1>1. w \in Procs /\ procs[w] \in Proc /\ procs[w].ev \in Events
  BY DEF Procs, TypeInv, TypeOK, BusyOK, CopyPhoto
<1>2. Become(w, new)
  BY DEF CopyPhoto
<1>3. /\ procs[w].shots \in [Photos -> Shot]
      /\ [procs[w].shots[p] EXCEPT !.status = "READY", !.key = procs[w].ev] \in Shot
  <2>1. procs[w].shots \in [Photos -> Shot] /\ procs[w].shots[p] \in Shot
    BY <1>1 DEF Proc
  <2>2. "READY" \in PhotoStatus
    BY DEF PhotoStatus
  <2>3. QED
    BY <1>1, <2>1, <2>2 DEF Shot
<1>4. new = [procs[w] EXCEPT !.shots = [procs[w].shots EXCEPT ![p] =
               [procs[w].shots[p] EXCEPT !.status = "READY", !.key = procs[w].ev]]]
  BY <1>1, <1>3 DEF Proc, Shot
<1>5. new \in Proc /\ new.ev = procs[w].ev
  BY <1>1, <1>3, <1>4 DEF Proc
<1>6. procs' \in [Procs -> Proc]
  BY <1>1, <1>2, <1>5, BecomeType DEF TypeInv, TypeOK
<1>7. BusyOK'
  BY <1>1, <1>2, <1>5 DEF Become, TypeInv, TypeOK, BusyOK
<1>8. stored' \subseteq Events \X Photos
  BY <1>1 DEF CopyPhoto, TypeInv, TypeOK
<1>9. QED
  BY <1>6, <1>7, <1>8 DEF CopyPhoto, TypeInv, TypeOK, JobsOK

LEMMA AttemptEndType ==
  ASSUME TypeInv, NEW w \in Workers, FailAttempt(w) \/ CompleteJob(w)
  PROVE  TypeInv'
<1>1. w \in Procs /\ procs[w].job \in Rows \cup {None}
  BY DEF Procs, TypeInv, TypeOK, Proc
<1>2. procs' \in [Procs -> Proc] /\ BusyOK'
  BY <1>1, IdleAgain DEF FailAttempt, CompleteJob
<1>3. Holds(w) => procs[w].job \in Rows /\ jobs[procs[w].job].state = "active"
  BY <1>1, NoneIsNoWorker DEF Holds, TypeInv, JobsOK
<1>4. CASE FailAttempt(w)
  <2>1. jobs' \in [Rows -> Job] /\ JobsOK'
    <3>1. CASE Holds(w)
      BY <1>3, <1>4, <3>1, RetryType DEF FailAttempt
    <3>2. CASE ~Holds(w)
      BY <1>4, <3>2 DEF FailAttempt, TypeInv, TypeOK, JobsOK
    <3>3. QED
      BY <3>1, <3>2
  <2>2. QED
    BY <1>2, <1>4, <2>1 DEF FailAttempt, TypeInv, TypeOK
<1>5. CASE CompleteJob(w)
  <2>1. jobs' \in [Rows -> Job] /\ JobsOK'
    <3>1. CASE Holds(w)
      <4>1. [jobs[procs[w].job] EXCEPT !.state = "completed", !.holder = None] \in Job
        BY <1>3, <3>1, FinishedType DEF TypeInv, TypeOK
      <4>2. QED
        BY <1>3, <1>5, <3>1, <4>1 DEF CompleteJob, Report, TypeInv, TypeOK, JobsOK, Job
    <3>2. CASE ~Holds(w)
      BY <1>5, <3>2 DEF CompleteJob, Report, TypeInv, TypeOK, JobsOK
    <3>3. QED
      BY <3>1, <3>2
  <2>2. staleMap' \subseteq Events
    BY <1>5 DEF CompleteJob, Purge, LoseInvalidation, TypeInv, TypeOK
  <2>3. QED
    BY <1>2, <1>5, <2>1, <2>2 DEF CompleteJob, TypeInv, TypeOK
<1>6. QED
  BY <1>4, <1>5

LEMMA QueueType ==
  ASSUME TypeInv, NEW r \in Rows, Stall(r) \/ RemoveFinished(r)
  PROVE  TypeInv'
<1>1. CASE Stall(r)
  BY <1>1, RetryType DEF Stall, TypeInv, TypeOK, BusyOK
<1>2. CASE RemoveFinished(r)
  <2>1. PICK state \in {"none", "forgotten"} : jobs' = [jobs EXCEPT ![r] = [NoJob EXCEPT !.state = state]]
    BY <1>2 DEF RemoveFinished
  <2>2. [NoJob EXCEPT !.state = state] \in Job
    BY LifecycleAssumption DEF NoJob, Job, LifecycleAssumption
  <2>3. /\ [NoJob EXCEPT !.state = state].state \notin {"waiting", "active"}
        /\ [NoJob EXCEPT !.state = state].holder = None
    BY DEF NoJob
  <2>4. jobs' \in [Rows -> Job]
    BY <2>1, <2>2 DEF TypeInv, TypeOK
  <2>5. JobsOK'
    BY <2>1, <2>3 DEF TypeInv, TypeOK, JobsOK
  <2>6. QED
    BY <1>2, <2>4, <2>5 DEF RemoveFinished, TypeInv, TypeOK, BusyOK
<1>3. QED
  BY <1>1, <1>2

LEMMA ErasureType ==
  ASSUME TypeInv, NEW o \in Organizers, ErasureStep(o)
  PROVE  TypeInv'
<1>1. CASE EraseDomainData(o)
  <2>1. \A e \in Events : Archive(events[e]) \in EventRow
    BY ArchiveType DEF TypeInv, TypeOK
  <2>2. events' \in [Events -> EventRow]
    BY <1>1, <2>1 DEF EraseDomainData, TypeInv, TypeOK
  <2>3. ASSUME NEW p \in Photos
        PROVE  /\ [photos[p] EXCEPT !.status = "DELETED"] \in PhotoRow
               /\ [photos[p] EXCEPT !.rawKey = "deleted"] \in PhotoRow
    BY ErasedPhotoType DEF TypeInv, TypeOK
  <2>4. photos' \in [Photos -> PhotoRow]
    BY <1>1, <2>3 DEF EraseDomainData, TypeInv, TypeOK
  <2>5. erasure' \in [Organizers -> [stage: {"no", "archived", "invalidated"},
                                     objects: SUBSET Photos]]
    BY <1>1 DEF EraseDomainData, TypeInv, TypeOK
  <2>6. staleMap' \subseteq Events
    BY <1>1 DEF EraseDomainData, TypeInv, TypeOK
  <2>7. QED
    BY <1>1, <2>2, <2>4, <2>5, <2>6 DEF EraseDomainData, TypeInv, TypeOK, JobsOK, BusyOK
<1>2. CASE EraseCaches(o)
  BY <1>2 DEF EraseCaches, LoseInvalidation, TypeInv, TypeOK, JobsOK, BusyOK
<1>3. CASE \E p \in Photos : EraseObject(o, p)
  BY <1>3 DEF EraseObject, TypeInv, TypeOK, JobsOK, BusyOK
<1>4. QED
  BY <1>1, <1>2, <1>3 DEF ErasureStep

LEMMA NextType == TypeInv /\ [Next]_vars => TypeInv'
<1> SUFFICES ASSUME TypeInv, [Next]_vars PROVE TypeInv'
  OBVIOUS
<1>1. CASE \E o \in Organizers, ids \in SUBSET Photos : RequestPhotoUploads(o, ids)
  BY <1>1, RequestType
<1>2. CASE \E p \in Photos : Upload(p)
  BY <1>2, UploadType
<1>3. ASSUME NEW h \in Handlers, HandlerStep(h) PROVE TypeInv'
  <2>1. h \in Procs
    BY DEF Procs
  <2>2. QED
    BY <1>3, <2>1, FindPendingPhotosType, SaveType, LoadType, ResolvePhotosType, UpdateType,
       CommitType, EndType DEF HandlerStep
<1>4. CASE \E x \in Procs : LoadPhotos(x)
  BY <1>4, LoadPhotosType
<1>5. ASSUME NEW w \in Workers, WorkerStep(w) PROVE TypeInv'
  <2>1. w \in Procs
    BY DEF Procs
  <2>2. QED
    BY <1>5, <2>1, TakeType, CopyPhotoType, CommitType, AttemptEndType, EndType DEF WorkerStep
<1>6. ASSUME NEW d \in Dispatchers, DispatcherStep(d) PROVE TypeInv'
  BY <1>6, DispatcherType
<1>7. CASE \E r \in Rows : Stall(r) \/ RemoveFinished(r)
  BY <1>7, QueueType
<1>8. CASE \E o \in Organizers : ErasureStep(o)
  BY <1>8, ErasureType
<1>9. CASE UNCHANGED vars
  BY <1>9 DEF vars, TypeInv, TypeOK, JobsOK, BusyOK
<1>10. QED
  BY <1>1, <1>2, <1>3, <1>4, <1>5, <1>6, <1>7, <1>8, <1>9 DEF Next

(* Every table, queue and process of the module keeps its shape, whatever   *)
(* the number of replicas and the order of their steps.                     *)
THEOREM TypeCorrect == Spec => []TypeOK
<1>1. TypeInv => TypeOK
  BY DEF TypeInv
<1>2. QED
  BY <1>1, InitType, NextType, PTL DEF Spec

-----------------------------------------------------------------------------
(* Only reviewed content is released. *)

Reviewing == UnusedOK /\ SavingOK /\ SnapshotsOK /\ ReleasedIsReviewed

(* An event that a step may have moved to a later version, or left as it    *)
(* was with no photo added, is still remembered correctly by y.             *)
LEMMA KeepSnapshot ==
  ASSUME TypeInv, TypeInv', NEW y \in Procs, InFlight(y), SnapshotOK(y), procs'[y] = procs[y],
         LET e == procs[y].ev
         IN /\ events'[e].status # "NONE"
            /\ \/ events'[e].version > events[e].version
               \/ /\ events'[e].version = events[e].version
                  /\ events'[e].rev = events[e].rev
                  /\ reviewed'[e] = reviewed[e]
                  /\ Linked(e)' \subseteq Linked(e)
  PROVE  SnapshotOK(y)'
<1> DEFINE e == procs[y].ev
           row == procs[y].row
<1>1. e \in Events /\ row.version \in Nat /\ events[e].version \in Nat /\ events'[e].version \in Nat
  BY DEF InFlight, TypeInv, TypeOK, BusyOK, Proc, EventRow
<1>2. InAggregate(y)' = InAggregate(y)
  BY DEF InAggregate
<1>3. /\ row.version <= events[e].version
      /\ procs[y].op = "publish" => row.status = "READY"
  BY DEF SnapshotOK
<1>4. CASE events'[e].version > events[e].version
  <2>1. row.version <= events'[e].version /\ row.version # events'[e].version
    BY <1>1, <1>3, <1>4
  <2>2. QED
    BY <1>3, <2>1 DEF SnapshotOK
<1>5. CASE /\ events'[e].version = events[e].version
           /\ events'[e].rev = events[e].rev
           /\ reviewed'[e] = reviewed[e]
           /\ Linked(e)' \subseteq Linked(e)
  <2>1. Approved(e, row) => Approved(e, row)'
    BY <1>5 DEF Approved
  <2>2. QED
    BY <1>2, <1>3, <1>5, <2>1 DEF SnapshotOK
<1>6. QED
  BY <1>4, <1>5

(* A process moves on and the tables stay as they are. *)
LEMMA OneProcess ==
  ASSUME TypeInv, TypeInv', Reviewing, UNCHANGED <<events, photos, reviewed>>,
         NEW x \in Procs, NEW p, Become(x, p),
         InFlight(x)' => SnapshotOK(x)',
         p.pc = "saving" => /\ events[p.ev].status = "NONE"
                            /\ \A y \in Procs \ {x} : procs[y].ev # p.ev,
         \A y \in Procs \ {x} : procs[y].pc = "saving" => p.ev # procs[y].ev
  PROVE  Reviewing'
<1>1. procs'[x] = p /\ \A y \in Procs \ {x} : procs'[y] = procs[y]
  BY DEF Become, TypeInv, TypeOK
<1>2. \A e \in Events : Linked(e)' = Linked(e)
  BY DEF Linked
<1>3. SnapshotsOK'
  <2>1. SUFFICES ASSUME NEW y \in Procs, InFlight(y)' PROVE SnapshotOK(y)'
    BY DEF SnapshotsOK
  <2>2. CASE y = x
    BY <2>1, <2>2
  <2>3. CASE y # x
    <3>1. procs'[y] = procs[y] /\ InFlight(y)
      BY <1>1, <2>1, <2>3 DEF InFlight
    <3>2. SnapshotOK(y) /\ procs[y].ev \in Events
      BY <3>1 DEF Reviewing, SnapshotsOK, TypeInv, BusyOK, InFlight
    <3>3. events[procs[y].ev].status # "NONE"
      BY <3>2 DEF SnapshotOK
    <3>4. QED
      BY <1>2, <3>1, <3>2, <3>3, KeepSnapshot
  <2>4. QED
    BY <2>2, <2>3
<1>4. SavingOK'
  BY <1>1 DEF SavingOK, Reviewing
<1>5. UnusedOK' /\ ReleasedIsReviewed'
  BY <1>2 DEF Reviewing, UnusedOK, ReleasedIsReviewed, Released
<1>6. QED
  BY <1>3, <1>4, <1>5 DEF Reviewing

LEMMA EndReviewing ==
  ASSUME TypeInv, TypeInv', Reviewing, UNCHANGED <<events, photos, reviewed>>,
         NEW x \in Procs, Become(x, Idle)
  PROVE  Reviewing'
<1>1. procs'[x] = Idle
  BY DEF Become, TypeInv, TypeOK
<1>2. ~InFlight(x)' /\ Idle.pc # "saving"
  BY <1>1 DEF InFlight, Idle
<1>3. \A y \in Procs : procs[y].pc = "saving" => Idle.ev # procs[y].ev
  BY NoneIsNoWorker DEF Idle, TypeInv, BusyOK
<1>4. QED
  BY <1>2, <1>3, OneProcess

LEMMA FindPendingPhotosReviewing ==
  ASSUME TypeInv, TypeInv', Reviewing, NEW h \in Handlers, NEW o \in Organizers,
         NEW e \in Events, NEW ids \in SUBSET Photos, FindPendingPhotos(h, o, e, ids)
  PROVE  Reviewing'
<1> DEFINE new == [Idle EXCEPT !.pc = "saving", !.op = "create", !.ev = e, !.org = o,
              !.shots = [p \in Photos |->
                IF p \in ids THEN [NoShot EXCEPT !.status = "UPLOADED"] ELSE NoShot]]
<1>1. h \in Procs /\ Become(h, new) /\ UNCHANGED <<events, photos, reviewed>>
  BY DEF Procs, FindPendingPhotos
<1>2. new.pc = "saving" /\ new.ev = e
  BY DEF Idle
<1>3. ~InFlight(h)'
  BY <1>1, <1>2 DEF InFlight, Become, TypeInv, TypeOK
<1>4. events[e].status = "NONE" /\ \A y \in Procs : procs[y].ev # e
  BY DEF FindPendingPhotos
<1>5. QED
  BY <1>1, <1>2, <1>3, <1>4, OneProcess

(* What a process remembers when it has just read an event row. *)
LEMMA ReadReviewing ==
  ASSUME TypeInv, TypeInv', Reviewing, UNCHANGED <<events, photos, reviewed>>,
         NEW x \in Procs, NEW p, Become(x, p), p.pc = "row", p.ev \in Events,
         p.row = events[p.ev], p.row.status # "NONE",
         p.op = "publish" => p.row.status = "READY"
  PROVE  Reviewing'
<1>1. procs'[x] = p
  BY DEF Become, TypeInv, TypeOK
<1>2. \A e \in Events : Linked(e)' = Linked(e)
  BY DEF Linked
<1>3. events[p.ev].version \in Nat
  BY DEF TypeInv, TypeOK, EventRow
<1>4. p.row.status \in {"READY", "PUBLISHED"} => Approved(p.ev, p.row)'
  BY <1>2 DEF Approved, Reviewing, ReleasedIsReviewed, Released
<1>5. SnapshotOK(x)'
  BY <1>1, <1>3, <1>4 DEF SnapshotOK
<1>6. \A y \in Procs : procs[y].pc = "saving" => p.ev # procs[y].ev
  BY DEF Reviewing, SavingOK
<1>7. QED
  BY <1>5, <1>6, OneProcess

LEMMA LoadReviewing ==
  ASSUME TypeInv, TypeInv', Reviewing, NEW h \in Handlers, NEW op \in AllCommands,
         NEW o \in Organizers, NEW e \in Events, Load(h, op, o, e)
  PROVE  Reviewing'
<1> DEFINE new == [Idle EXCEPT !.pc = "row", !.op = op, !.ev = e, !.org = o, !.row = events[e]]
<1>1. h \in Procs /\ Become(h, new) /\ UNCHANGED <<events, photos, reviewed>>
  BY DEF Procs, Load
<1>2. new.pc = "row" /\ new.ev = e /\ new.row = events[e] /\ new.op = op
  BY DEF Idle
<1>3. events[e].status # "NONE" /\ (op = "publish" => events[e].status = "READY")
  BY DEF Load, Accepts
<1> HIDE DEF new
<1>4. QED
  BY <1>1, <1>2, <1>3, ReadReviewing

LEMMA TakeReviewing ==
  ASSUME TypeInv, TypeInv', Reviewing, NEW w \in Workers, NEW r \in Rows, Take(w, r)
  PROVE  Reviewing'
<1>1. CASE events[r[1]].status = "UPLOADED" /\ ~events[r[1]].archived
  <2> DEFINE new == [Idle EXCEPT !.pc = "row", !.op = "process", !.ev = r[1],
                          !.org = events[r[1]].org, !.row = events[r[1]], !.job = r]
  <2>1. w \in Procs /\ Become(w, new) /\ UNCHANGED <<events, photos, reviewed>>
    BY <1>1 DEF Procs, Take
  <2>2. r[1] \in Events /\ new.pc = "row" /\ new.ev = r[1] /\ new.row = events[r[1]]
        /\ new.op = "process"
    BY DEF Idle, Rows
  <2> HIDE DEF new
  <2>3. QED
    BY <1>1, <2>1, <2>2, ReadReviewing
<1>2. CASE ~(events[r[1]].status = "UPLOADED" /\ ~events[r[1]].archived)
  BY <1>2 DEF Take, Reviewing, UnusedOK, SavingOK, SnapshotsOK, InFlight, SnapshotOK, Approved,
     InAggregate, ReleasedIsReviewed, Released, Linked
<1>3. QED
  BY <1>1, <1>2

(* The snapshot of a process that goes on working with the row it has read. *)
LEMMA ContinueReviewing ==
  ASSUME TypeInv, TypeInv', Reviewing, UNCHANGED <<events, photos, reviewed>>,
         NEW x \in Procs, InFlight(x), NEW p, Become(x, p), p.pc # "saving",
         p.ev = procs[x].ev, p.row = procs[x].row, p.op = procs[x].op,
         (p.op = "process" /\ p.pc = "loaded" /\ p.row.version = events[p.ev].version)
            => Linked(p.ev) \subseteq InAggregate(x)'
  PROVE  Reviewing'
<1>1. procs'[x] = p
  BY DEF Become, TypeInv, TypeOK
<1>2. p.ev \in Events /\ SnapshotOK(x)
  BY DEF InFlight, TypeInv, BusyOK, Reviewing, SnapshotsOK
<1>3. Linked(p.ev)' = Linked(p.ev)
  BY DEF Linked
<1>4. Approved(p.ev, p.row) => Approved(p.ev, p.row)'
  BY <1>3 DEF Approved
<1>5. SnapshotOK(x)'
  BY <1>1, <1>2, <1>3, <1>4 DEF SnapshotOK
<1>6. \A y \in Procs \ {x} : procs[y].pc = "saving" => p.ev # procs[y].ev
  BY DEF Reviewing, SavingOK
<1>7. QED
  BY <1>5, <1>6, OneProcess

LEMMA LoadPhotosReviewing ==
  ASSUME TypeInv, TypeInv', Reviewing, NEW x \in Procs, LoadPhotos(x)
  PROVE  Reviewing'
<1> DEFINE shots == [p \in Photos |->
             IF photos[p].event = procs[x].ev THEN ShotOf(photos[p]) ELSE NoShot]
           new == [procs[x] EXCEPT !.pc = "loaded", !.shots = shots]
<1>1. Become(x, new) /\ UNCHANGED <<events, photos, reviewed>> /\ InFlight(x)
  BY DEF LoadPhotos, InFlight
<1>2. procs[x] \in Proc /\ procs'[x] = new
  BY <1>1 DEF Become, TypeInv, TypeOK
<1>3. /\ new.pc = "loaded" /\ new.ev = procs[x].ev /\ new.row = procs[x].row
      /\ new.op = procs[x].op /\ new.shots = shots
  BY <1>2 DEF Proc
<1>4. ASSUME NEW p \in Linked(procs[x].ev) PROVE shots[p].status # "NONE"
  <2>1. p \in Photos /\ photos[p].event = procs[x].ev /\ photos[p] \in PhotoRow
    BY DEF Linked, TypeInv, TypeOK
  <2>2. ShotOf(photos[p]).status \in PhotoStatus
    BY <2>1, ShotType
  <2>3. QED
    BY <2>1, <2>2 DEF PhotoStatus
<1>5. Linked(new.ev) \subseteq InAggregate(x)'
  BY <1>2, <1>3, <1>4 DEF InAggregate, Linked
<1> HIDE DEF new
<1>6. QED
  BY <1>1, <1>3, <1>5, ContinueReviewing

LEMMA ResolvePhotosReviewing ==
  ASSUME TypeInv, TypeInv', Reviewing, NEW h \in Handlers, NEW ids \in SUBSET Photos,
         ResolvePhotos(h, ids)
  PROVE  Reviewing'
<1> DEFINE Resolved(p) == IF photos[p].status = "READY" /\ photos[p].key # None
                     THEN ShotOf(photos[p])
                     ELSE [ShotOf(photos[p]) EXCEPT !.status = "UPLOADED", !.key = None]
           shots == [p \in Photos |-> IF p \in ids THEN Resolved(p) ELSE NoShot]
           new == [procs[h] EXCEPT !.pc = "resolved", !.removed = InAggregate(h) \ ids,
                                   !.shots = shots]
<1>1. h \in Procs /\ Become(h, new) /\ UNCHANGED <<events, photos, reviewed>> /\ InFlight(h)
  BY DEF Procs, ResolvePhotos, InFlight
<1>2. procs[h] \in Proc
  BY <1>1 DEF TypeInv, TypeOK
<1>3. /\ new.pc = "resolved" /\ new.ev = procs[h].ev /\ new.row = procs[h].row
      /\ new.op = procs[h].op
  BY <1>2 DEF Proc
<1> HIDE DEF new
<1>4. QED
  BY <1>1, <1>3, ContinueReviewing

LEMMA CopyPhotoReviewing ==
  ASSUME TypeInv, TypeInv', Reviewing, NEW w \in Workers, NEW p \in Photos, CopyPhoto(w, p)
  PROVE  Reviewing'
<1> DEFINE new == [procs[w] EXCEPT !.shots[p].status = "READY", !.shots[p].key = procs[w].ev]
<1>1. w \in Procs /\ Become(w, new) /\ UNCHANGED <<events, photos, reviewed>> /\ InFlight(w)
  BY DEF Procs, CopyPhoto, InFlight
<1>2. procs[w] \in Proc /\ procs'[w] = new /\ procs[w].pc = "loaded"
  BY <1>1 DEF Become, TypeInv, TypeOK, CopyPhoto
<1>3. /\ new.pc = procs[w].pc /\ new.ev = procs[w].ev /\ new.row = procs[w].row
      /\ new.op = procs[w].op
  BY <1>2 DEF Proc
<1>4. InAggregate(w)' = InAggregate(w)
  <2>1. procs[w].shots \in [Photos -> Shot] /\ procs[w].shots[p].status # "NONE"
    BY <1>2 DEF Proc, CopyPhoto, InAggregate
  <2>2. \A q \in Photos : new.shots[q].status = IF q = p THEN "READY" ELSE procs[w].shots[q].status
    BY <1>2, <2>1 DEF Proc, Shot
  <2> HIDE DEF new
  <2>3. QED
    BY <1>2, <2>1, <2>2 DEF InAggregate
<1>5. procs[w].op = "process" /\ procs[w].row.version = events[procs[w].ev].version
        => Linked(procs[w].ev) \subseteq InAggregate(w)
  BY <1>1, <1>2 DEF Reviewing, SnapshotsOK, SnapshotOK
<1> HIDE DEF new
<1>6. QED
  BY <1>1, <1>2, <1>3, <1>4, <1>5, ContinueReviewing

(* Rows that no process and no released event loses sight of. *)
LEMMA PhotosLeave ==
  ASSUME TypeInv, TypeInv', Reviewing, UNCHANGED <<procs, reviewed>>,
         \A e \in Events : Linked(e)' \subseteq Linked(e),
         \A e \in Events : \/ events'[e] = events[e]
                           \/ /\ events'[e].status = "CANCELLED"
                              /\ events'[e].version = events[e].version
                              /\ events'[e].rev = events[e].rev
                              /\ events[e].status # "NONE"
  PROVE  Reviewing'
<1>1. SnapshotsOK'
  <2>1. SUFFICES ASSUME NEW y \in Procs, InFlight(y) PROVE SnapshotOK(y)'
    BY DEF SnapshotsOK, InFlight
  <2>2. SnapshotOK(y) /\ procs[y].ev \in Events
    BY <2>1 DEF Reviewing, SnapshotsOK, TypeInv, BusyOK, InFlight
  <2>3. events[procs[y].ev].status # "NONE"
    BY <2>2 DEF SnapshotOK
  <2>4. QED
    BY <2>1, <2>2, <2>3, KeepSnapshot
<1>2. SavingOK'
  BY DEF Reviewing, SavingOK, TypeInv, BusyOK
<1>3. UnusedOK'
  BY DEF Reviewing, UnusedOK
<1>4. ReleasedIsReviewed'
  BY DEF Reviewing, ReleasedIsReviewed, Released
<1>5. QED
  BY <1>1, <1>2, <1>3, <1>4 DEF Reviewing

LEMMA RequestReviewing ==
  ASSUME TypeInv, TypeInv', Reviewing, NEW o \in Organizers, NEW ids \in SUBSET Photos,
         RequestPhotoUploads(o, ids)
  PROVE  Reviewing'
<1>1. \A e \in Events : Linked(e)' \subseteq Linked(e)
  <2>1. [NoPhoto EXCEPT !.owner = o, !.status = "PENDING_UPLOAD"].event = None
    BY DEF NoPhoto
  <2>2. QED
    BY <2>1, NoneIsNoWorker DEF RequestPhotoUploads, Linked
<1>2. QED
  BY <1>1, PhotosLeave DEF RequestPhotoUploads

LEMMA EraseReviewing ==
  ASSUME TypeInv, TypeInv', Reviewing, NEW o \in Organizers, EraseDomainData(o)
  PROVE  Reviewing'
<1>1. \A e \in Events : Linked(e)' \subseteq Linked(e)
  <2>1. \A p \in Photos : photos'[p].event = photos[p].event
    BY DEF EraseDomainData, TypeInv, TypeOK, PhotoRow
  <2>2. QED
    BY <2>1 DEF Linked
<1>2. ASSUME NEW e \in Events, events[e].org = o
      PROVE  /\ events'[e].status = "CANCELLED"
             /\ events'[e].version = events[e].version
             /\ events'[e].rev = events[e].rev
             /\ events[e].status # "NONE"
  <2>1. events[e].status # "NONE"
    BY <1>2, NoneIsNoWorker DEF Reviewing, UnusedOK, NoEvent
  <2>2. events'[e] = Archive(events[e]) /\ events[e] \in EventRow
    BY <1>2 DEF EraseDomainData, TypeInv, TypeOK
  <2>3. QED
    BY <2>1, <2>2 DEF Archive, EventRow
<1>3. \A e \in Events : events[e].org # o => events'[e] = events[e]
  BY DEF EraseDomainData, TypeInv, TypeOK
<1>4. QED
  BY <1>1, <1>2, <1>3, PhotosLeave DEF EraseDomainData

(* A commit: the row moves to a version no other process remembers.  It is  *)
(* enough that the row it leaves behind is released only when approved.     *)
LEMMA CommitReviewing ==
  ASSUME TypeInv, TypeInv', Reviewing, NEW x \in Procs, InFlight(x), VersionMatches(x),
         procs[x].op \in {"update", "resubmit", "publish", "cancel", "archive", "process"},
         CommitRow(x),
         NEW e, e = procs[x].ev,
         \A f \in Events \ {e} : Linked(f)' \subseteq Linked(f) /\ reviewed'[f] = reviewed[f],
         Released(e)' => /\ events'[e].verif = "VERIFIED" /\ events'[e].media = "READY"
                         /\ reviewed'[e].rev = events'[e].rev
                         /\ Linked(e)' \subseteq reviewed'[e].photos
  PROVE  Reviewing'
<1> DEFINE row == procs[x].row
<1>1. e \in Events /\ row \in EventRow /\ events[e].version = row.version /\ procs[x] \in Proc
  BY DEF InFlight, TypeInv, TypeOK, BusyOK, Proc, VersionMatches
<1>2. /\ events'[e] = [Applied(procs[x].op, row) EXCEPT !.version = @ + 1]
      /\ \A f \in Events \ {e} : events'[f] = events[f]
  BY <1>1 DEF CommitRow, TypeInv, TypeOK
<1>3. Applied(procs[x].op, row).version = row.version /\ Applied(procs[x].op, row).status # "NONE"
  <2>1. SnapshotOK(x)
    BY DEF Reviewing, SnapshotsOK
  <2>2. QED
    BY <1>1 DEF Applied, Revise, Resubmit, Publish, Cancel, Archive, Approve, EventRow
<1>4. events'[e].version > events[e].version /\ events'[e].status # "NONE"
  <2>1. Applied(procs[x].op, row) \in EventRow
    BY <1>1, AppliedType
  <2>2. QED
    BY <1>1, <1>2, <1>3, <2>1 DEF EventRow
<1>5. /\ procs'[x] = [procs[x] EXCEPT !.pc = "invalidate", !.shots = NoShots, !.removed = {}]
      /\ \A y \in Procs \ {x} : procs'[y] = procs[y]
  BY DEF CommitRow, Become, TypeInv, TypeOK
<1>6. procs'[x].pc = "invalidate" /\ procs'[x].ev = e
  BY <1>1, <1>5 DEF Proc
<1>7. SnapshotsOK'
  <2>1. SUFFICES ASSUME NEW y \in Procs, InFlight(y)' PROVE SnapshotOK(y)'
    BY DEF SnapshotsOK
  <2>2. procs'[y] = procs[y] /\ InFlight(y)
    BY <1>5, <1>6, <2>1 DEF InFlight
  <2>3. SnapshotOK(y) /\ procs[y].ev \in Events
    BY <2>2 DEF Reviewing, SnapshotsOK, TypeInv, BusyOK, InFlight
  <2>4. events[procs[y].ev].status # "NONE"
    BY <2>3 DEF SnapshotOK
  <2>5. CASE procs[y].ev = e
    <3>1. /\ events'[procs[y].ev].status # "NONE"
          /\ events'[procs[y].ev].version > events[procs[y].ev].version
      BY <1>4, <2>5
    <3>2. QED
      BY <2>2, <2>3, <3>1, KeepSnapshot
  <2>6. CASE procs[y].ev # e
    <3>1. PICK f \in Events \ {e} : f = procs[y].ev
      BY <2>3, <2>6
    <3>2. /\ events'[f] = events[f]
          /\ reviewed'[f] = reviewed[f]
          /\ Linked(f)' \subseteq Linked(f)
      BY <1>2
    <3>3. Linked(procs[y].ev)' = Linked(f)' /\ Linked(procs[y].ev) = Linked(f)
      BY <2>2, <3>1 DEF Linked
    <3>4. QED
      BY <2>2, <2>3, <2>4, <3>1, <3>2, <3>3, KeepSnapshot
  <2>7. QED
    BY <2>5, <2>6
<1>8. SavingOK'
  <2>1. SUFFICES ASSUME NEW y \in Procs, procs'[y].pc = "saving"
                 PROVE  /\ events'[procs'[y].ev].status = "NONE"
                        /\ \A z \in Procs \ {y} : procs'[z].ev # procs'[y].ev
    BY DEF SavingOK
  <2>2. y # x /\ procs'[y] = procs[y]
    BY <1>5, <1>6, <2>1
  <2>3. /\ procs[y].ev \in Events /\ procs[y].ev # e /\ events[procs[y].ev].status = "NONE"
        /\ \A z \in Procs \ {y} : procs[z].ev # procs[y].ev
    BY <2>1, <2>2 DEF Reviewing, SavingOK, TypeInv, BusyOK
  <2>4. events'[procs'[y].ev].status = "NONE"
    BY <1>2, <2>2, <2>3
  <2>5. ASSUME NEW z \in Procs \ {y} PROVE procs'[z].ev = procs[z].ev
    <3>1. CASE z = x
      BY <1>6, <3>1
    <3>2. CASE z # x
      BY <1>5, <3>2
    <3>3. QED
      BY <3>1, <3>2
  <2>6. QED
    BY <2>2, <2>3, <2>4, <2>5
<1>9. UnusedOK'
  BY <1>2, <1>4 DEF Reviewing, UnusedOK
<1>10. ReleasedIsReviewed'
  <2>1. ASSUME NEW f \in Events, f # e, Released(f)'
        PROVE  /\ events'[f].verif = "VERIFIED" /\ events'[f].media = "READY"
               /\ reviewed'[f].rev = events'[f].rev
               /\ Linked(f)' \subseteq reviewed'[f].photos
    BY <1>2, <2>1 DEF Reviewing, ReleasedIsReviewed, Released
  <2>2. QED
    BY <2>1 DEF ReleasedIsReviewed
<1>11. QED
  BY <1>7, <1>8, <1>9, <1>10 DEF Reviewing

LEMMA UpdateReviewing ==
  ASSUME TypeInv, TypeInv', Reviewing, NEW h \in Handlers, Update(h)
  PROVE  Reviewing'
<1>0. PICK e : e = procs[h].ev
  OBVIOUS
<1>1. /\ h \in Procs /\ InFlight(h) /\ VersionMatches(h) /\ CommitRow(h)
      /\ procs[h].op \in {"update", "resubmit", "cancel", "archive"}
  BY DEF Update, Procs, InFlight
<1>2. e \in Events /\ procs[h] \in Proc
  BY <1>0, <1>1 DEF TypeInv, TypeOK, BusyOK, InFlight
<1>3. ASSUME NEW f \in Events \ {e} PROVE Linked(f)' \subseteq Linked(f) /\ reviewed'[f] = reviewed[f]
  <2>1. ASSUME NEW p \in Photos, photos'[p].event = f PROVE photos[p].event = f
    <3>1. CASE p \in procs[h].removed /\ photos[p].event = procs[h].ev
      <4>1. photos'[p] = [photos[p] EXCEPT !.event = None, !.status = "DELETED"]
        <5>1. p \notin InAggregate(h)
          BY <3>1 DEF Update, Linkable
        <5>2. QED
          BY <3>1, <5>1 DEF Update
      <4>2. photos[p] \in PhotoRow
        BY DEF TypeInv, TypeOK
      <4>3. photos'[p].event = None
        BY <4>1, <4>2 DEF PhotoRow
      <4>4. QED
        BY <2>1, <4>3, NoneIsNoWorker
    <3>2. CASE ~(p \in procs[h].removed /\ photos[p].event = procs[h].ev) /\ p \in InAggregate(h)
      <4>1. photos'[p] = Written(h, p)
        BY <3>2 DEF Update
      <4>2. photos'[p].event = e
        BY <1>0, <4>1 DEF Written, TypeInv, TypeOK, PhotoRow
      <4>3. QED
        BY <2>1, <4>2
    <3>3. CASE ~(p \in procs[h].removed /\ photos[p].event = procs[h].ev) /\ p \notin InAggregate(h)
      <4>1. photos'[p] = photos[p]
        BY <3>3 DEF Update
      <4>2. QED
        BY <2>1, <4>1
    <3>4. QED
      BY <3>1, <3>2, <3>3
  <2>2. QED
    BY <2>1 DEF Linked, Update
<1>4. ~Released(e)'
  <2>1. events'[e] = [Applied(procs[h].op, procs[h].row) EXCEPT !.version = @ + 1]
    BY <1>0, <1>1, <1>2 DEF CommitRow, TypeInv, TypeOK
  <2>2. procs[h].row \in EventRow
    BY <1>2 DEF Proc
  <2>3. Applied(procs[h].op, procs[h].row).status \in {"DRAFT", "UPLOADED", "CANCELLED"}
    <3>1. \A row \in EventRow : /\ Revise(row).status = "DRAFT"
                                /\ Resubmit(row).status = "UPLOADED"
                                /\ Cancel(row).status = "CANCELLED"
                                /\ Archive(row).status = "CANCELLED"
      BY DEF Revise, Resubmit, Cancel, Archive, EventRow
    <3>2. QED
      BY <1>1, <2>2, <3>1 DEF Applied
  <2>4. events'[e].status \in {"DRAFT", "UPLOADED", "CANCELLED"}
    <3>1. Applied(procs[h].op, procs[h].row) \in EventRow
      BY <1>1, <2>2, AppliedType
    <3>2. QED
      BY <2>1, <2>3, <3>1 DEF EventRow
  <2>5. QED
    BY <2>4 DEF Released
<1>5. QED
  BY <1>0, <1>1, <1>3, <1>4, CommitReviewing

LEMMA LifecycleLinks ==
  ASSUME TypeInv, NEW x \in Procs, UpdateLifecycle(x)
  PROVE  \A f \in Events : Linked(f)' = Linked(f)
<1>1. ASSUME NEW p \in Photos PROVE photos'[p].event = photos[p].event
  <2>1. CASE p \in InAggregate(x) /\ photos[p].event = procs[x].ev
    <3>1. photos'[p] = Written(x, p) /\ photos[p] \in PhotoRow
      BY <2>1 DEF UpdateLifecycle, TypeInv, TypeOK
    <3>2. QED
      BY <2>1, <3>1 DEF Written, PhotoRow
  <2>2. CASE ~(p \in InAggregate(x) /\ photos[p].event = procs[x].ev)
    BY <2>2 DEF UpdateLifecycle
  <2>3. QED
    BY <2>1, <2>2
<1>2. QED
  BY <1>1 DEF Linked

LEMMA PublishReviewing ==
  ASSUME TypeInv, TypeInv', Reviewing, NEW h \in Handlers, PublishEvent(h)
  PROVE  Reviewing'
<1>0. PICK e : e = procs[h].ev
  OBVIOUS
<1>1. /\ h \in Procs /\ InFlight(h) /\ VersionMatches(h) /\ CommitRow(h) /\ UpdateLifecycle(h)
      /\ procs[h].op = "publish" /\ UNCHANGED reviewed
  BY DEF PublishEvent, UpdateLifecycle, Procs, InFlight
<1>2. e \in Events /\ procs[h] \in Proc /\ procs[h].row \in EventRow
  BY <1>0, <1>1 DEF TypeInv, TypeOK, BusyOK, InFlight, Proc
<1>3. \A f \in Events : Linked(f)' = Linked(f)
  BY <1>1, LifecycleLinks
<1>4. Approved(e, procs[h].row)
  BY <1>0, <1>1, <1>2 DEF Reviewing, SnapshotsOK, SnapshotOK, VersionMatches
<1>5. /\ events'[e].verif = "VERIFIED" /\ events'[e].media = "READY"
      /\ events'[e].rev = procs[h].row.rev
  <2>1. events'[e] = [Publish(procs[h].row) EXCEPT !.version = @ + 1]
    BY <1>0, <1>1, <1>2 DEF CommitRow, Applied, TypeInv, TypeOK
  <2>2. QED
    BY <1>2, <1>4, <2>1 DEF Publish, EventRow, Approved
<1>6. QED
  BY <1>0, <1>1, <1>2, <1>3, <1>4, <1>5, CommitReviewing DEF Approved

LEMMA ApproveReviewing ==
  ASSUME TypeInv, TypeInv', Reviewing, NEW w \in Workers, ApproveEvent(w)
  PROVE  Reviewing'
<1>0. PICK e : e = procs[w].ev
  OBVIOUS
<1>1. /\ w \in Procs /\ InFlight(w) /\ VersionMatches(w) /\ CommitRow(w) /\ UpdateLifecycle(w)
      /\ procs[w].op = "process" /\ procs[w].pc = "loaded"
  BY DEF ApproveEvent, UpdateLifecycle, Procs, InFlight
<1>2. e \in Events /\ procs[w] \in Proc /\ procs[w].row \in EventRow
  BY <1>0, <1>1 DEF TypeInv, TypeOK, BusyOK, InFlight, Proc
<1>3. \A f \in Events : Linked(f)' = Linked(f)
  BY <1>1, LifecycleLinks
<1>4. Linked(e) \subseteq InAggregate(w)
  BY <1>0, <1>1, <1>2 DEF Reviewing, SnapshotsOK, SnapshotOK, VersionMatches
<1>5. /\ reviewed'[e].rev = procs[w].row.rev /\ reviewed'[e].photos = InAggregate(w)
      /\ \A f \in Events \ {e} : reviewed'[f] = reviewed[f]
  BY <1>0, <1>2 DEF ApproveEvent, TypeInv, TypeOK
<1>6. /\ events'[e].verif = "VERIFIED" /\ events'[e].media = "READY"
      /\ events'[e].rev = procs[w].row.rev
  <2>1. events'[e] = [Approve(procs[w].row) EXCEPT !.version = @ + 1]
    BY <1>0, <1>1, <1>2 DEF CommitRow, Applied, TypeInv, TypeOK
  <2>2. QED
    BY <1>2, <2>1 DEF Approve, EventRow
<1>7. QED
  BY <1>0, <1>1, <1>2, <1>3, <1>4, <1>5, <1>6, CommitReviewing

LEMMA SaveReviewing ==
  ASSUME TypeInv, TypeInv', Reviewing, NEW h \in Handlers, Save(h)
  PROVE  Reviewing'
<1>0. PICK e : e = procs[h].ev
  OBVIOUS
<1>1. /\ h \in Procs /\ e \in Events /\ events[e].status = "NONE"
      /\ \A y \in Procs \ {h} : procs[y].ev # e
  BY <1>0 DEF Procs, Save, Reviewing, SavingOK, TypeInv, BusyOK
<1>2. /\ events'[e] = Created(procs[h].org) /\ UNCHANGED reviewed
      /\ \A f \in Events \ {e} : events'[f] = events[f]
  BY <1>0, <1>1 DEF Save, TypeInv, TypeOK
<1>3. events'[e].status = "UPLOADED"
  BY <1>2 DEF Created, NoEvent
<1>4. procs'[h] = Idle /\ \A y \in Procs \ {h} : procs'[y] = procs[y]
  BY <1>1 DEF Save, Become, TypeInv, TypeOK
<1>5. Idle.pc = "idle" /\ Idle.ev = None
  BY DEF Idle
<1>6. ASSUME NEW f \in Events \ {e} PROVE Linked(f)' \subseteq Linked(f)
  <2>1. ASSUME NEW p \in Photos, photos'[p].event = f PROVE photos[p].event = f
    <3>1. CASE p \in InAggregate(h) /\ PhotoExists(p)
      <4>1. photos'[p] = [photos[p] EXCEPT !.event = e, !.status = "UPLOADED"]
            /\ photos[p] \in PhotoRow
        BY <1>0, <3>1 DEF Save, TypeInv, TypeOK
      <4>2. photos'[p].event = e
        BY <4>1 DEF PhotoRow
      <4>3. QED
        BY <2>1, <4>2
    <3>2. CASE ~(p \in InAggregate(h) /\ PhotoExists(p))
      BY <2>1, <3>2 DEF Save
    <3>3. QED
      BY <3>1, <3>2
  <2>2. QED
    BY <2>1 DEF Linked
<1>7. SnapshotsOK'
  <2>1. SUFFICES ASSUME NEW y \in Procs, InFlight(y)' PROVE SnapshotOK(y)'
    BY DEF SnapshotsOK
  <2>2. y # h /\ procs'[y] = procs[y] /\ InFlight(y)
    BY <1>4, <1>5, <2>1 DEF InFlight
  <2>3. SnapshotOK(y) /\ procs[y].ev \in Events \ {e}
    BY <1>1, <2>2 DEF Reviewing, SnapshotsOK, TypeInv, BusyOK, InFlight
  <2>4. events[procs[y].ev].status # "NONE"
    BY <2>3 DEF SnapshotOK
  <2>5. QED
    BY <1>2, <1>6, <2>2, <2>3, <2>4, KeepSnapshot
<1>8. SavingOK'
  <2>1. SUFFICES ASSUME NEW y \in Procs, procs'[y].pc = "saving"
                 PROVE  /\ events'[procs'[y].ev].status = "NONE"
                        /\ \A z \in Procs \ {y} : procs'[z].ev # procs'[y].ev
    BY DEF SavingOK
  <2>2. y # h /\ procs'[y] = procs[y]
    BY <1>4, <1>5, <2>1
  <2>3. /\ procs[y].ev \in Events \ {e} /\ events[procs[y].ev].status = "NONE"
        /\ \A z \in Procs \ {y} : procs[z].ev # procs[y].ev
    BY <1>1, <2>1, <2>2 DEF Reviewing, SavingOK, TypeInv, BusyOK
  <2>4. ASSUME NEW z \in Procs \ {y} PROVE procs'[z].ev # procs'[y].ev
    <3>1. CASE z = h
      BY <1>4, <1>5, <2>2, <2>3, <3>1, NoneIsNoWorker
    <3>2. CASE z # h
      BY <1>4, <2>2, <2>3, <3>2
    <3>3. QED
      BY <3>1, <3>2
  <2>5. QED
    BY <1>2, <2>2, <2>3, <2>4
<1>9. UnusedOK'
  BY <1>2, <1>3 DEF Reviewing, UnusedOK
<1>10. ReleasedIsReviewed'
  <2>1. ASSUME NEW f \in Events, Released(f)'
        PROVE  /\ events'[f].verif = "VERIFIED" /\ events'[f].media = "READY"
               /\ reviewed'[f].rev = events'[f].rev
               /\ Linked(f)' \subseteq reviewed'[f].photos
    <3>1. f # e
      BY <1>3, <2>1 DEF Released
    <3>2. QED
      BY <1>2, <1>6, <2>1, <3>1 DEF Reviewing, ReleasedIsReviewed, Released
  <2>2. QED
    BY <2>1 DEF ReleasedIsReviewed
<1>11. QED
  BY <1>7, <1>8, <1>9, <1>10 DEF Reviewing

LEMMA UntouchedReviewing ==
  ASSUME Reviewing, UNCHANGED <<events, photos, procs, reviewed>>
  PROVE  Reviewing'
BY DEF Reviewing, UnusedOK, SavingOK, SnapshotsOK, InFlight, SnapshotOK, Approved, InAggregate,
       ReleasedIsReviewed, Released, Linked

LEMMA NextReviewing == TypeInv /\ TypeInv' /\ Reviewing /\ [Next]_vars => Reviewing'
<1> SUFFICES ASSUME TypeInv, TypeInv', Reviewing, [Next]_vars PROVE Reviewing'
  OBVIOUS
<1>1. CASE \E o \in Organizers, ids \in SUBSET Photos : RequestPhotoUploads(o, ids)
  BY <1>1, RequestReviewing
<1>2. CASE \E p \in Photos : Upload(p)
  BY <1>2, UntouchedReviewing DEF Upload
<1>3. ASSUME NEW h \in Handlers, HandlerStep(h) PROVE Reviewing'
  <2>1. CASE Abandon(h) \/ Invalidate(h)
    BY <2>1, EndReviewing DEF Abandon, Invalidate, Procs
  <2>2. QED
    BY <1>3, <2>1, FindPendingPhotosReviewing, SaveReviewing, LoadReviewing,
       ResolvePhotosReviewing, UpdateReviewing, PublishReviewing DEF HandlerStep
<1>4. CASE \E x \in Procs : LoadPhotos(x)
  BY <1>4, LoadPhotosReviewing
<1>5. ASSUME NEW w \in Workers, WorkerStep(w) PROVE Reviewing'
  <2>1. CASE FailAttempt(w) \/ CompleteJob(w) \/ WorkerDies(w)
    BY <2>1, EndReviewing DEF FailAttempt, CompleteJob, WorkerDies, Procs
  <2>2. QED
    BY <1>5, <2>1, TakeReviewing, CopyPhotoReviewing, ApproveReviewing DEF WorkerStep
<1>6. ASSUME NEW d \in Dispatchers, DispatcherStep(d) PROVE Reviewing'
  BY <1>6, UntouchedReviewing
     DEF DispatcherStep, ClaimBatch, AddJob, MarkProcessed, DispatchFails
<1>7. CASE \E r \in Rows : Stall(r) \/ RemoveFinished(r)
  BY <1>7, UntouchedReviewing DEF Stall, RemoveFinished
<1>8. ASSUME NEW o \in Organizers, ErasureStep(o)
      PROVE  Reviewing'
  BY <1>8, EraseReviewing, UntouchedReviewing DEF ErasureStep, EraseCaches, EraseObject
<1>9. CASE UNCHANGED vars
  BY <1>9, UntouchedReviewing DEF vars
<1>10. QED
  BY <1>1, <1>2, <1>3, <1>4, <1>5, <1>6, <1>7, <1>8, <1>9 DEF Next

LEMMA InitReviewing == Init => Reviewing
BY DEF Init, Reviewing, UnusedOK, SavingOK, SnapshotsOK, InFlight, ReleasedIsReviewed, Released,
       NoEvent, Idle

(* ReviewInv is an inductive invariant: TypeInv says what every state looks *)
(* like, Reviewing what processes between two round trips remember.         *)
THEOREM ReviewInductive == Spec => []ReviewInv
<1>1. Init => TypeInv /\ Reviewing
  BY InitType, InitReviewing
<1>2. TypeInv /\ Reviewing /\ [Next]_vars => (TypeInv /\ Reviewing)'
  BY NextType, NextReviewing
<1>3. TypeInv /\ Reviewing => ReviewInv
  BY DEF TypeInv, Reviewing, ReviewInv
<1>4. QED
  BY <1>1, <1>2, <1>3, PTL DEF Spec

(* Whatever the interleaving of the owner's requests, over any number of    *)
(* replicas, with the pipeline's workers and with the erasure of accounts,  *)
(* an event that can be published or is public shows the revision and the   *)
(* photos that the pipeline has looked at.                                  *)
THEOREM OnlyReviewedIsReleased == Spec => []ReleasedIsReviewed
<1>1. ReviewInv => ReleasedIsReviewed
  BY DEF ReviewInv
<1>2. QED
  BY <1>1, ReviewInductive, PTL

=============================================================================
