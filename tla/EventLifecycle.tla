--------------------------- MODULE EventLifecycle ---------------------------
(***************************************************************************)
(* The life of an event in the events module of the API: the owner's       *)
(* commands (create, update, resubmit, publish, cancel, archive), the      *)
(* review pipeline (outbox, dispatcher, queue, worker) and the archiving   *)
(* done when the owner's account is erased.                                *)
(*                                                                         *)
(* Every command handler and every queue worker is a process that reads    *)
(* the event row, then reads the photo rows in a second query, works on    *)
(* the aggregate in memory, and commits in one transaction guarded by the  *)
(* row's version.  One action is one round trip, so everything another     *)
(* process does between two of them is explored.                           *)
(*                                                                         *)
(* The editable fields of an event are one revision number; the photo      *)
(* order, sizes and MIME types are left out.  Visibility is PUBLIC from    *)
(* creation on, and REJECTED is written by no handler: neither is modelled.*)
(***************************************************************************)
EXTENDS Naturals, FiniteSets

CONSTANTS
  Events,       \* ids of event rows
  Photos,       \* ids of photo rows
  Organizers,   \* owners of events and photos (keycloak subjects)
  Handlers,     \* requests in flight, over all API replicas
  Workers,      \* slots of the media queue's workers
  Dispatchers,  \* outbox dispatchers, one per worker replica
  Commands,     \* commands that clients send
  MaxPhotos,    \* MAX_PHOTOS of the aggregate
  MaxVersion,   \* bound: clients stop commanding an event at this version
  MaxAttempts,  \* attempts of a queue job
  BatchLimit,   \* rows of one dispatch batch
  Erasable,     \* organizers whose account may be erased
  CacheFaults,  \* whether an invalidation may be lost after its commit
  None

AllCommands == {"create", "update", "resubmit", "publish", "cancel", "archive"}

ASSUME LifecycleAssumption ==
  /\ Handlers \cap Workers = {}
  /\ Commands \subseteq AllCommands
  /\ IsFiniteSet(Photos) /\ MaxPhotos \in Nat \ {0}
  /\ MaxVersion \in Nat
  /\ MaxAttempts \in Nat \ {0}
  /\ BatchLimit \in Nat \ {0}
  /\ Erasable \subseteq Organizers
  /\ CacheFaults \in BOOLEAN
  /\ None \notin Events \cup Photos \cup Organizers \cup Handlers \cup Workers

VARIABLES
  events,       \* events table, with the location row folded in
  photos,       \* event_photos table
  raw,          \* photos whose object is in the private raw bucket
  stored,       \* <<event, photo>> objects copied to the public media bucket
  outbox,       \* event.created and event.review.requested rows
  claims,       \* outbox rows each dispatcher's transaction has locked
  jobs,         \* queue jobs, by the outbox row their id is made of
  procs,        \* handlers and workers in progress
  erasure,      \* progress of each organizer's account erasure
  staleMap,     \* events whose entry or exit the event_map version misses
  reviewed      \* what the last approval of each event had looked at (history)

vars == <<events, photos, raw, stored, outbox, claims, jobs, procs, erasure,
          staleMap, reviewed>>

Procs == Handlers \cup Workers

(* The commit that brings event e to version v inserts at most one outbox  *)
(* row for the pipeline, so the pair names the row; the job id is made of it. *)
Rows == Events \X (0 .. MaxVersion + 1)

-----------------------------------------------------------------------------
(* Rows and snapshots. *)

EventStatus == {"NONE", "DRAFT", "UPLOADED", "READY", "PUBLISHED", "CANCELLED"}
EventRow == [org: Organizers \cup {None}, status: EventStatus,
             media: {"UPLOADED", "READY"}, verif: {"UNVERIFIED", "VERIFIED"},
             archived: BOOLEAN, version: Nat, rev: Nat]
NoEvent == [org |-> None, status |-> "NONE", media |-> "UPLOADED",
            verif |-> "UNVERIFIED", archived |-> FALSE, version |-> 0, rev |-> 0]

(* rawKey names the upload until the erasure of the owner overwrites it. *)
RawKey == {"upload", "deleted"}
PhotoStatus == {"ABSENT", "PENDING_UPLOAD", "UPLOADED", "READY", "DELETED"}
PhotoRow == [owner: Organizers \cup {None}, event: Events \cup {None},
             status: PhotoStatus, key: Events \cup {None}, rawKey: RawKey]
NoPhoto == [owner |-> None, event |-> None, status |-> "ABSENT", key |-> None,
            rawKey |-> "upload"]

(* A photo of an aggregate in memory; NoShot: the aggregate does not have it. *)
Shot == [status: {"NONE"} \cup PhotoStatus, key: Events \cup {None}, rawKey: RawKey]
NoShot == [status |-> "NONE", key |-> None, rawKey |-> "upload"]
ShotOf(row) == [status |-> row.status, key |-> row.key, rawKey |-> row.rawKey]
NoShots == [p \in Photos |-> NoShot]

Proc == [pc: {"idle", "row", "loaded", "resolved", "saving", "invalidate"},
         op: AllCommands \cup {"process", "none"},
         ev: Events \cup {None}, org: Organizers \cup {None},
         row: EventRow, shots: [Photos -> Shot], removed: SUBSET Photos,
         job: Rows \cup {None}]
Idle == [pc |-> "idle", op |-> "none", ev |-> None, org |-> None, row |-> NoEvent,
         shots |-> NoShots, removed |-> {}, job |-> None]

(* To the queue a forgotten job is as unknown as none; it had failed.       *)
Job == [state: {"none", "waiting", "active", "completed", "failed", "forgotten"},
        left: 0 .. MaxAttempts, holder: Workers \cup {None}]
NoJob == [state |-> "none", left |-> 0, holder |-> None]

Linked(e) == {p \in Photos : photos[p].event = e}
PhotoExists(p) == photos[p].status \notin {"ABSENT", "DELETED"}
InAggregate(x) == {p \in Photos : procs[x].shots[p].status # "NONE"}
HasUpload(p, rawKey) == rawKey = "upload" /\ p \in raw
InUse(o) == erasure[o].stage = "no"
CountValid(ps) == Cardinality(ps) \in 1 .. MaxPhotos

(* isEventMapVisible *)
MapVisible(row) ==
  /\ row.status = "PUBLISHED"
  /\ row.media = "READY"
  /\ row.verif = "VERIFIED"
  /\ ~row.archived

-----------------------------------------------------------------------------
(* Transitions of the aggregate, on the row as the handler read it. *)

Created(o) == [NoEvent EXCEPT !.org = o, !.status = "UPLOADED"]

(* A revision is named by the version its commit produces. *)
Revise(row) == [row EXCEPT !.status = "DRAFT", !.media = "UPLOADED",
                           !.verif = "UNVERIFIED", !.rev = row.version + 1]
Resubmit(row) == [row EXCEPT !.status = "UPLOADED", !.media = "UPLOADED",
                             !.verif = "UNVERIFIED"]
Publish(row) == [row EXCEPT !.status = "PUBLISHED"]
Cancel(row) == [row EXCEPT !.status = "CANCELLED"]
Archive(row) == [row EXCEPT !.status = "CANCELLED", !.archived = TRUE]
Approve(row) == [row EXCEPT !.status = "READY", !.media = "READY", !.verif = "VERIFIED"]

(* Mutant: resubmit without its check of the status. *)
AcceptsAnyResubmit(op, row) ==
  /\ row.status # "NONE"
  /\ ~row.archived
  /\ op = "publish" => row.status = "READY" /\ row.media = "READY"
  /\ op \in {"update", "cancel"} => row.status # "CANCELLED"

(* Mutant: publish without its check of the status and the media. *)
AcceptsAnyPublish(op, row) ==
  /\ row.status # "NONE"
  /\ ~row.archived
  /\ op = "resubmit" => row.status = "DRAFT"
  /\ op \in {"update", "cancel"} => row.status # "CANCELLED"

(* What the handlers' 404s and the aggregate's own checks let through. *)
Accepts(op, row) ==
  /\ row.status # "NONE"
  /\ ~row.archived
  /\ op = "publish" => row.status = "READY" /\ row.media = "READY"
  /\ op = "resubmit" => row.status = "DRAFT"
  /\ op \in {"update", "cancel"} => row.status # "CANCELLED"

Applied(op, row) ==
  CASE op = "update"   -> Revise(row)
    [] op = "resubmit" -> Resubmit(row)
    [] op = "publish"  -> Publish(row)
    [] op = "cancel"   -> Cancel(row)
    [] op = "archive"  -> Archive(row)
    [] op = "process"  -> Approve(row)

-----------------------------------------------------------------------------
Init ==
  /\ events = [e \in Events |-> NoEvent]
  /\ photos = [p \in Photos |-> NoPhoto]
  /\ raw = {}
  /\ stored = {}
  /\ outbox = [r \in Rows |-> "none"]
  /\ claims = [d \in Dispatchers |-> {}]
  /\ jobs = [r \in Rows |-> NoJob]
  /\ procs = [x \in Procs |-> Idle]
  /\ erasure = [o \in Organizers |-> [stage |-> "no", objects |-> {}]]
  /\ staleMap = {}
  /\ reviewed = [e \in Events |-> [rev |-> 0, photos |-> {}]]

Become(x, p) == procs' = [procs EXCEPT ![x] = p]

-----------------------------------------------------------------------------
(* Photos before they belong to an event. *)

(* RequestPhotoUploads: one PENDING_UPLOAD row per file of the request. *)
RequestPhotoUploads(o, ids) ==
  /\ InUse(o)
  /\ CountValid(ids)
  /\ \A p \in ids : photos[p].status = "ABSENT"
  /\ photos' = [p \in Photos |->
       IF p \in ids THEN [NoPhoto EXCEPT !.owner = o, !.status = "PENDING_UPLOAD"]
                    ELSE photos[p]]
  /\ UNCHANGED <<events, raw, stored, outbox, claims, jobs, procs, erasure, staleMap, reviewed>>

(* The client PUTs the object to the presigned URL. *)
Upload(p) ==
  /\ photos[p].status = "PENDING_UPLOAD"
  /\ InUse(photos[p].owner)
  /\ p \notin raw
  /\ raw' = raw \cup {p}
  /\ UNCHANGED <<events, photos, stored, outbox, claims, jobs, procs, erasure, staleMap, reviewed>>

-----------------------------------------------------------------------------
(* CreateEvent: look the pending photos up and stat them, then save. *)

FindPendingPhotos(h, o, e, ids) ==
  /\ "create" \in Commands
  /\ procs[h].pc = "idle"
  /\ InUse(o)
  /\ events[e].status = "NONE"
  /\ \A x \in Procs : procs[x].ev # e
  /\ CountValid(ids)
  /\ \A p \in ids : /\ photos[p].owner = o
                    /\ photos[p].event = None
                    /\ photos[p].status = "PENDING_UPLOAD"
                    /\ p \in raw
  /\ Become(h, [Idle EXCEPT !.pc = "saving", !.op = "create", !.ev = e, !.org = o,
                  !.shots = [p \in Photos |->
                     IF p \in ids THEN [NoShot EXCEPT !.status = "UPLOADED"] ELSE NoShot]])
  /\ UNCHANGED <<events, photos, raw, stored, outbox, claims, jobs, erasure, staleMap, reviewed>>

(* save: the photo rows are written by id alone, whoever they belong to by now. *)
Save(h) ==
  LET e == procs[h].ev
  IN /\ procs[h].pc = "saving"
     /\ events' = [events EXCEPT ![e] = Created(procs[h].org)]
     /\ photos' = [p \in Photos |->
          IF p \in InAggregate(h) /\ PhotoExists(p)
          THEN [photos[p] EXCEPT !.event = e, !.status = "UPLOADED"]
          ELSE photos[p]]
     /\ outbox' = [outbox EXCEPT ![<<e, 0>>] = "pending"]
     /\ Become(h, Idle)
     /\ UNCHANGED <<raw, stored, claims, jobs, erasure, staleMap, reviewed>>

-----------------------------------------------------------------------------
(* update, resubmit, publish, cancel, archive. *)

(* First query of findById. The bound on the version stands in the way of  *)
(* clients only: a command under way always gets to its end.               *)
Load(h, op, o, e) ==
  /\ op \in Commands \ {"create"}
  /\ procs[h].pc = "idle"
  /\ InUse(o)
  /\ events[e].org = o
  /\ events[e].version < MaxVersion
  /\ Accepts(op, events[e])
  /\ Become(h, [Idle EXCEPT !.pc = "row", !.op = op, !.ev = e, !.org = o, !.row = events[e]])
  /\ UNCHANGED <<events, photos, raw, stored, outbox, claims, jobs, erasure, staleMap, reviewed>>

(* Second query of findById: it may see the rows of a later version. *)
LoadPhotos(x) ==
  /\ procs[x].pc = "row"
  /\ Become(x, [procs[x] EXCEPT !.pc = "loaded",
       !.shots = [p \in Photos |->
          IF photos[p].event = procs[x].ev THEN ShotOf(photos[p]) ELSE NoShot]])
  /\ UNCHANGED <<events, photos, raw, stored, outbox, claims, jobs, erasure, staleMap, reviewed>>

(* resolvePhotos of an update that names photos: READY ones are kept as    *)
(* they are, the others must be in the raw bucket.                         *)
ResolvePhotos(h, ids) ==
  LET x == procs[h]
      Resolved(p) == IF photos[p].status = "READY" /\ photos[p].key # None
                     THEN ShotOf(photos[p])
                     ELSE [ShotOf(photos[p]) EXCEPT !.status = "UPLOADED", !.key = None]
  IN /\ x.op = "update" /\ x.pc = "loaded"
     /\ CountValid(ids)
     /\ \A p \in ids : /\ PhotoExists(p)
                       /\ photos[p].owner = x.org
                       /\ photos[p].event \in {None, x.ev}
                       /\ Resolved(p).status # "READY" => HasUpload(p, photos[p].rawKey)
     /\ Become(h, [x EXCEPT !.pc = "resolved", !.removed = InAggregate(h) \ ids,
          !.shots = [p \in Photos |-> IF p \in ids THEN Resolved(p) ELSE NoShot]])
     /\ UNCHANGED <<events, photos, raw, stored, outbox, claims, jobs, erasure, staleMap, reviewed>>

(* Mutant: a write that does not compare versions. *)
AnyVersion(x) == events[procs[x].ev].version >= procs[x].row.version

VersionMatches(x) == events[procs[x].ev].version = procs[x].row.version

(* Mutant: update() links what some other event has got meanwhile. *)
LinkableAnyway(x, p) ==
  /\ PhotoExists(p)
  /\ photos[p].owner = procs[x].org
  /\ p \notin procs[x].removed

(* A photo of the aggregate that update() may link to its event. *)
Linkable(x, p) ==
  /\ PhotoExists(p)
  /\ photos[p].owner = procs[x].org
  /\ photos[p].event \in {None, procs[x].ev}
  /\ p \notin procs[x].removed

(* The columns toPhotoUpdateRows sets; an undefined media key is not set. *)
Written(x, p) ==
  LET shot == procs[x].shots[p]
  IN [photos[p] EXCEPT !.event = procs[x].ev, !.status = shot.status,
                       !.key = IF shot.key = None THEN @ ELSE shot.key]

(* The event row both commits write, and what a cache may now miss. *)
CommitRow(x) ==
  LET e == procs[x].ev
      row == [Applied(procs[x].op, procs[x].row) EXCEPT !.version = @ + 1]
  IN /\ events' = [events EXCEPT ![e] = row]
     /\ staleMap' = IF MapVisible(events[e]) # MapVisible(row)
                    THEN staleMap \cup {e} ELSE staleMap
     /\ Become(x, [procs[x] EXCEPT !.pc = "invalidate", !.shots = NoShots, !.removed = {}])

(* EventRepository.update: drop the removed photos, link all the others, and *)
(* hand a resubmitted event to the pipeline, or roll everything back.        *)
Update(h) ==
  LET x == procs[h]
  IN /\ x.pc \in {"loaded", "resolved"}
     /\ x.op \in {"update", "resubmit", "cancel", "archive"}
     /\ x.op = "update" => CountValid(InAggregate(h))
     /\ VersionMatches(h)
     /\ \A p \in InAggregate(h) : Linkable(h, p)
     /\ CommitRow(h)
     /\ photos' = [p \in Photos |->
          CASE p \in x.removed /\ photos[p].event = x.ev ->
                   [photos[p] EXCEPT !.event = None, !.status = "DELETED"]
            [] p \in InAggregate(h) -> Written(h, p)
            [] OTHER -> photos[p]]
     /\ outbox' = IF x.op = "resubmit"
                  THEN [outbox EXCEPT ![<<x.ev, x.row.version + 1>>] = "pending"] ELSE outbox
     /\ UNCHANGED <<raw, stored, claims, jobs, erasure, reviewed>>

(* EventRepository.updateLifecycle: photo rows that have left the event are *)
(* passed over in silence.                                                 *)
UpdateLifecycle(x) ==
  /\ VersionMatches(x)
  /\ CommitRow(x)
  /\ photos' = [p \in Photos |->
       IF p \in InAggregate(x) /\ photos[p].event = procs[x].ev THEN Written(x, p)
                                                                ELSE photos[p]]
  /\ UNCHANGED <<raw, stored, outbox, claims, jobs, erasure>>

PublishEvent(h) ==
  /\ procs[h].pc = "loaded"
  /\ procs[h].op = "publish"
  /\ UpdateLifecycle(h)
  /\ UNCHANGED reviewed

(* The handler ends before its commit: a conflict, a refused photo, an      *)
(* ineligible publisher, an error of the storage or database, a crash.      *)
Abandon(h) ==
  /\ procs[h].pc \in {"row", "loaded", "resolved", "saving"}
  /\ Become(h, Idle)
  /\ UNCHANGED <<events, photos, raw, stored, outbox, claims, jobs, erasure, staleMap, reviewed>>

(* Mutant: visibility looked at after the commit. *)
BumpsMapIfStillVisible(x) ==
  x.op = "publish" \/ (x.op \in AllCommands /\ MapVisible(events[x.ev]))

(* After the commit, the handler moves the event_map version on when the    *)
(* event enters or leaves the map (its event_detail entry goes as well).    *)
BumpsMap(x) == x.op = "publish" \/ (x.op \in AllCommands /\ MapVisible(x.row))

Purge(x) ==
  staleMap' = IF BumpsMap(x) THEN {} ELSE staleMap

(* RedisCacheService swallows its errors; the process may also die here. *)
LoseInvalidation ==
  /\ CacheFaults
  /\ UNCHANGED staleMap

Invalidate(h) ==
  /\ procs[h].pc = "invalidate"
  /\ Purge(procs[h]) \/ LoseInvalidation
  /\ Become(h, Idle)
  /\ UNCHANGED <<events, photos, raw, stored, outbox, claims, jobs, erasure, reviewed>>

-----------------------------------------------------------------------------
(* The outbox dispatcher: one transaction locks a batch (FOR UPDATE SKIP    *)
(* LOCKED), adds a job per row and marks the rows processed.                *)

Pending == {r \in Rows : outbox[r] = "pending"}
Unlocked == Pending \ UNION {claims[d] : d \in Dispatchers}

ClaimBatch(d, batch) ==
  /\ claims[d] = {}
  /\ batch \subseteq Unlocked
  /\ batch # {}
  /\ Cardinality(batch) = BatchLimit \/ (batch = Unlocked /\ Cardinality(batch) < BatchLimit)
  /\ claims' = [claims EXCEPT ![d] = batch]
  /\ UNCHANGED <<events, photos, raw, stored, outbox, jobs, procs, erasure, staleMap, reviewed>>

InQueue(r) == jobs[r].state \notin {"none", "forgotten"}

(* queue.add: a job id the queue still knows is not added again. *)
AddJob(d, r) ==
  /\ r \in claims[d]
  /\ ~InQueue(r)
  /\ jobs' = [jobs EXCEPT ![r] = [state |-> "waiting", left |-> MaxAttempts, holder |-> None]]
  /\ UNCHANGED <<events, photos, raw, stored, outbox, claims, procs, erasure, staleMap, reviewed>>

(* Mutant: rows are acknowledged before their jobs are in the queue. *)
MarkProcessedEarly(d) ==
  /\ claims[d] # {}
  /\ outbox' = [r \in Rows |-> IF r \in claims[d] THEN "processed" ELSE outbox[r]]
  /\ claims' = [claims EXCEPT ![d] = {}]
  /\ UNCHANGED <<events, photos, raw, stored, jobs, procs, erasure, staleMap, reviewed>>

MarkProcessed(d) ==
  /\ claims[d] # {}
  /\ \A r \in claims[d] : InQueue(r)
  /\ outbox' = [r \in Rows |-> IF r \in claims[d] THEN "processed" ELSE outbox[r]]
  /\ claims' = [claims EXCEPT ![d] = {}]
  /\ UNCHANGED <<events, photos, raw, stored, jobs, procs, erasure, staleMap, reviewed>>

(* The queue is unreachable, or the dispatcher dies: its transaction rolls  *)
(* back and the jobs it had added stay.                                     *)
DispatchFails(d) ==
  /\ claims[d] # {}
  /\ claims' = [claims EXCEPT ![d] = {}]
  /\ UNCHANGED <<events, photos, raw, stored, outbox, jobs, procs, erasure, staleMap, reviewed>>

-----------------------------------------------------------------------------
(* The media queue (an external library) and the pipeline its workers run. *)

Holds(w) == procs[w].job # None /\ jobs[procs[w].job].holder = w

(* A finished attempt reports to the queue unless the job was taken away. *)
Report(w, state) ==
  jobs' = IF Holds(w)
          THEN [jobs EXCEPT ![procs[w].job] = [@ EXCEPT !.state = state, !.holder = None]]
          ELSE jobs

(* Mutant: no limit. *)
RetriedForEver(job) == [state |-> "waiting", left |-> job.left, holder |-> None]

(* The attempts a job has left after losing one. *)
Retried(job) ==
  [state |-> IF job.left > 1 THEN "waiting" ELSE "failed",
   left |-> job.left - 1, holder |-> None]

(* process: only an UPLOADED, unarchived event is worked on; for any other  *)
(* the job is complete.                                                     *)
Take(w, r) ==
  /\ procs[w].pc = "idle"
  /\ jobs[r].state = "waiting"
  /\ IF events[r[1]].status = "UPLOADED" /\ ~events[r[1]].archived
     THEN /\ jobs' = [jobs EXCEPT ![r].state = "active", ![r].holder = w]
          /\ Become(w, [Idle EXCEPT !.pc = "row", !.op = "process", !.ev = r[1],
                          !.org = events[r[1]].org, !.row = events[r[1]], !.job = r])
     ELSE /\ jobs' = [jobs EXCEPT ![r].state = "completed"]
          /\ UNCHANGED procs
  /\ UNCHANGED <<events, photos, raw, stored, outbox, claims, erasure, staleMap, reviewed>>

(* Stat and copy one photo that is not READY yet, and mark it READY in memory. *)
CopyPhoto(w, p) ==
  LET x == procs[w]
  IN /\ x.op = "process" /\ x.pc = "loaded"
     /\ p \in InAggregate(w)
     /\ x.shots[p].status # "READY" \/ x.shots[p].key = None
     /\ HasUpload(p, x.shots[p].rawKey)
     /\ stored' = stored \cup {<<x.ev, p>>}
     /\ Become(w, [x EXCEPT !.shots[p].status = "READY", !.shots[p].key = x.ev])
     /\ UNCHANGED <<events, photos, raw, outbox, claims, jobs, erasure, staleMap, reviewed>>

(* Mutant: markReady without its check of the media. *)
NoneMissing(x) == InAggregate(x) # {}

AllReady(x) ==
  \A p \in InAggregate(x) : procs[x].shots[p].status = "READY" /\ procs[x].shots[p].key # None

(* verify, markReady and updateLifecycle. *)
ApproveEvent(w) ==
  /\ procs[w].pc = "loaded"
  /\ procs[w].op = "process"
  /\ CountValid(InAggregate(w))
  /\ AllReady(w)
  /\ UpdateLifecycle(w)
  /\ reviewed' = [reviewed EXCEPT ![procs[w].ev] =
                     [rev |-> procs[w].row.rev, photos |-> InAggregate(w)]]

(* Any exception fails the attempt; the queue retries it or gives up. *)
FailAttempt(w) ==
  /\ procs[w].op = "process"
  /\ procs[w].pc \in {"row", "loaded"}
  /\ jobs' = IF Holds(w) THEN [jobs EXCEPT ![procs[w].job] = Retried(@)] ELSE jobs
  /\ Become(w, Idle)
  /\ UNCHANGED <<events, photos, raw, stored, outbox, claims, erasure, staleMap, reviewed>>

CompleteJob(w) ==
  /\ procs[w].op = "process"
  /\ procs[w].pc = "invalidate"
  /\ Purge(procs[w]) \/ LoseInvalidation
  /\ Report(w, "completed")
  /\ Become(w, Idle)
  /\ UNCHANGED <<events, photos, raw, stored, outbox, claims, erasure, reviewed>>

(* A worker dies; the queue only learns of it when the job's lock expires. *)
WorkerDies(w) ==
  /\ procs[w].pc \in {"row", "loaded"}
  /\ Become(w, Idle)
  /\ UNCHANGED <<events, photos, raw, stored, outbox, claims, jobs, erasure, staleMap, reviewed>>

(* The lock of an active job expires, its worker dead or only slow: the job *)
(* is given to the next worker, or failed when no attempt is left.          *)
Stall(r) ==
  /\ jobs[r].state = "active"
  /\ jobs' = [jobs EXCEPT ![r] = Retried(@)]
  /\ UNCHANGED <<events, photos, raw, stored, outbox, claims, procs, erasure, staleMap, reviewed>>

(* removeOnComplete, removeOnFail: a day or a week later, or after ten       *)
(* thousand others, a finished job is dropped and with it its id.  The       *)
(* dispatch that may have added it is long over.                             *)
Finished(job) == job.state \in {"completed", "failed"}
RemoveFinished(r) ==
  /\ Finished(jobs[r])
  /\ \A d \in Dispatchers : r \notin claims[d]
  /\ jobs' = [jobs EXCEPT ![r] =
       [NoJob EXCEPT !.state = IF jobs[r].state = "failed" THEN "forgotten" ELSE "none"]]
  /\ UNCHANGED <<events, photos, raw, stored, outbox, claims, procs, erasure, staleMap, reviewed>>

-----------------------------------------------------------------------------
(* Erasure of an account, as far as it touches events.  It starts at least  *)
(* 30 days after the owner's last request, so none is still in progress;    *)
(* the pipeline is not held back.                                           *)

(* anonymizeDomainData: archive the owner's events without touching their   *)
(* version, list the raw objects of the owner's photo rows, drop the rows   *)
(* that belong to no event and overwrite rawKey on the others.              *)
EraseDomainData(o) ==
  LET own == {p \in Photos : photos[p].owner = o /\ PhotoExists(p)}
      Archived(e) == events[e].org = o
  IN /\ o \in Erasable
     /\ InUse(o)
     /\ \A h \in Handlers : procs[h].org # o
     /\ events' = [e \in Events |-> IF Archived(e) THEN Archive(events[e]) ELSE events[e]]
     /\ photos' = [p \in Photos |->
          CASE p \in own /\ photos[p].event = None -> [photos[p] EXCEPT !.status = "DELETED"]
            [] p \in own /\ photos[p].event # None -> [photos[p] EXCEPT !.rawKey = "deleted"]
            [] OTHER -> photos[p]]
     /\ erasure' = [erasure EXCEPT ![o] = [stage |-> "archived", objects |-> own]]
     /\ staleMap' = staleMap \cup {e \in Events : Archived(e) /\ MapVisible(events[e])}
     /\ UNCHANGED <<raw, stored, outbox, claims, jobs, procs, reviewed>>

EraseCaches(o) ==
  /\ erasure[o].stage = "archived"
  /\ erasure' = [erasure EXCEPT ![o].stage = "invalidated"]
  /\ staleMap' = {} \/ LoseInvalidation
  /\ UNCHANGED <<events, photos, raw, stored, outbox, claims, jobs, procs, reviewed>>

(* deleteStorageObjects, one object at a time. *)
EraseObject(o, p) ==
  /\ erasure[o].stage = "invalidated"
  /\ p \in erasure[o].objects
  /\ erasure' = [erasure EXCEPT ![o].objects = @ \ {p}]
  /\ raw' = raw \ {p}
  /\ UNCHANGED <<events, photos, stored, outbox, claims, jobs, procs, staleMap, reviewed>>

-----------------------------------------------------------------------------
HandlerStep(h) ==
  \/ \E o \in Organizers, e \in Events, ids \in SUBSET Photos : FindPendingPhotos(h, o, e, ids)
  \/ Save(h)
  \/ \E op \in AllCommands, o \in Organizers, e \in Events : Load(h, op, o, e)
  \/ \E ids \in SUBSET Photos : ResolvePhotos(h, ids)
  \/ Update(h)
  \/ PublishEvent(h)
  \/ Abandon(h)
  \/ Invalidate(h)

WorkerStep(w) ==
  \/ \E r \in Rows : Take(w, r)
  \/ \E p \in Photos : CopyPhoto(w, p)
  \/ ApproveEvent(w)
  \/ FailAttempt(w)
  \/ CompleteJob(w)
  \/ WorkerDies(w)

DispatcherStep(d) ==
  \/ \E batch \in SUBSET Rows : ClaimBatch(d, batch)
  \/ \E r \in Rows : AddJob(d, r)
  \/ MarkProcessed(d)
  \/ DispatchFails(d)

ErasureStep(o) ==
  \/ EraseDomainData(o)
  \/ EraseCaches(o)
  \/ \E p \in Photos : EraseObject(o, p)

Next ==
  \/ \E o \in Organizers, ids \in SUBSET Photos : RequestPhotoUploads(o, ids)
  \/ \E p \in Photos : Upload(p)
  \/ \E h \in Handlers : HandlerStep(h)
  \/ \E x \in Procs : LoadPhotos(x)
  \/ \E w \in Workers : WorkerStep(w)
  \/ \E d \in Dispatchers : DispatcherStep(d)
  \/ \E r \in Rows : Stall(r) \/ RemoveFinished(r)
  \/ \E o \in Organizers : ErasureStep(o)

Spec == Init /\ [][Next]_vars

(***************************************************************************)
(* Fairness.  The dispatcher's timer and the queue keep running, and a     *)
(* dispatcher is not interrupted at the same row for ever.  Clients owe    *)
(* nothing: no command is fair, only the end of one under way.             *)
(***************************************************************************)
Fairness ==
  /\ \A x \in Procs : WF_vars(LoadPhotos(x))
  /\ \A w \in Workers :
       /\ WF_vars((\E p \in Photos : CopyPhoto(w, p)) \/ ApproveEvent(w) \/ FailAttempt(w))
       /\ WF_vars(CompleteJob(w))
  /\ \A r \in Rows :
       /\ WF_vars(\E w \in Workers : Take(w, r))
       /\ WF_vars(Stall(r))
       /\ WF_vars(\E d \in Dispatchers, batch \in SUBSET Rows : r \in batch /\ ClaimBatch(d, batch))
       /\ SF_vars(\E d \in Dispatchers : AddJob(d, r))
  /\ \A d \in Dispatchers : SF_vars(MarkProcessed(d))

FairSpec == Spec /\ Fairness

-----------------------------------------------------------------------------
(* Properties. *)

(* Every variable keeps the shape of the table, queue or cache it models. *)
TypeOK ==
  /\ events \in [Events -> EventRow]
  /\ photos \in [Photos -> PhotoRow]
  /\ raw \subseteq Photos
  /\ stored \subseteq Events \X Photos
  /\ outbox \in [Rows -> {"none", "pending", "processed"}]
  /\ claims \in [Dispatchers -> SUBSET Rows]
  /\ jobs \in [Rows -> Job]
  /\ procs \in [Procs -> Proc]
  /\ erasure \in [Organizers -> [stage: {"no", "archived", "invalidated"},
                                 objects: SUBSET Photos]]
  /\ staleMap \subseteq Events
  /\ reviewed \in [Events -> [rev: Nat, photos: SUBSET Photos]]

Released(e) == events[e].status \in {"READY", "PUBLISHED"}

(* What the owner can publish, and the public then sees, is what the        *)
(* pipeline approved: the same revision, and no photo it had not looked at. *)
(* A revision that lands between the worker's reads and its commit, or a    *)
(* photo query that sees a later version than the row query, must not slip  *)
(* through (updateLifecycle's version check).                               *)
ReleasedIsReviewed ==
  \A e \in Events : Released(e) =>
    /\ events[e].verif = "VERIFIED" /\ events[e].media = "READY"
    /\ reviewed[e].rev = events[e].rev
    /\ Linked(e) \subseteq reviewed[e].photos

(* What makes ReleasedIsReviewed inductive.  A process between its first    *)
(* read and its commit remembers a row that is never ahead of the table; as *)
(* long as the versions agree, the remembered revision is the current one,  *)
(* a remembered approval still stands, and a worker's photos are all there  *)
(* are.                                                                     *)
JobsOK ==
  \A r \in Rows : /\ jobs[r].state \in {"waiting", "active"} => jobs[r].left > 0
                  /\ jobs[r].holder # None => jobs[r].state = "active"

BusyOK == \A x \in Procs : procs[x].pc # "idle" => procs[x].ev \in Events

UnusedOK == \A e \in Events : events[e].status = "NONE" => events[e].org = None

SavingOK ==
  \A x \in Procs : procs[x].pc = "saving" =>
    /\ events[procs[x].ev].status = "NONE"
    /\ \A y \in Procs \ {x} : procs[y].ev # procs[x].ev

Approved(e, row) ==
  /\ row.verif = "VERIFIED" /\ row.media = "READY"
  /\ reviewed[e].rev = row.rev
  /\ Linked(e) \subseteq reviewed[e].photos

InFlight(x) == procs[x].pc \in {"row", "loaded", "resolved"}

SnapshotOK(x) ==
  LET e == procs[x].ev
      row == procs[x].row
  IN /\ events[e].status # "NONE"
     /\ row.version <= events[e].version
     /\ procs[x].op = "publish" => row.status = "READY"
     /\ row.version = events[e].version =>
          /\ row.rev = events[e].rev
          /\ row.status \in {"READY", "PUBLISHED"} => Approved(e, row)
          /\ procs[x].op = "process" /\ procs[x].pc = "loaded" => Linked(e) \subseteq InAggregate(x)

SnapshotsOK == \A x \in Procs : InFlight(x) => SnapshotOK(x)

ReviewInv == TypeOK /\ JobsOK /\ BusyOK /\ UnusedOK /\ SavingOK /\ SnapshotsOK /\ ReleasedIsReviewed

(* Every photo of a released event has been processed, and its media key    *)
(* names an object that was copied to the media bucket for that very event, *)
(* even when the row had served another event before.                       *)
ReleasedMediaIsServable ==
  \A e \in Events : Released(e) =>
    \A p \in Linked(e) : /\ photos[p].status = "READY"
                         /\ photos[p].key = e
                         /\ <<e, p>> \in stored

(* An event waits for review in vain only after its job has failed: as long *)
(* as it is UPLOADED, the outbox row of its submission is still to be       *)
(* dispatched, its job is to be run or running, or the job has failed, and  *)
(* BullMQ may have forgotten it since, across dispatcher crashes, stalls,   *)
(* redeliveries and early returns.  Nothing submits it a second time: a     *)
(* failed review leaves the event where only another revision helps.        *)
Submission(e) == <<e, events[e].version>>
AwaitingReview(e) == events[e].status = "UPLOADED" /\ ~events[e].archived
SubmissionIsPending ==
  \A e \in Events : AwaitingReview(e) =>
    \/ outbox[Submission(e)] = "pending"
    \/ jobs[Submission(e)].state \in {"waiting", "active", "failed", "forgotten"}

(* While no invalidation is lost, an event enters or leaves the public map  *)
(* only together with a map version bump that some process still owes: the  *)
(* visibility the handlers remember from their read is the one the commit   *)
(* changes.                                                                 *)
MapChangeIsAnnounced ==
  ~CacheFaults => \A e \in staleMap :
    \/ \E h \in Handlers : procs[h].pc = "invalidate" /\ BumpsMap(procs[h])
    \/ \E o \in Organizers : erasure[o].stage = "archived"

(* What its owner has archived stays archived for as long as the account is *)
(* in use: a row with archivedAt set is not written back without it by a    *)
(* command or a job that had read it before.  An erasure, which archives    *)
(* without a new version, ends this promise: see ErasedEventsStayArchived.  *)
ArchiveIsFinal ==
  [][\A e \in Events :
       events[e].archived /\ InUse(events[e].org) => events'[e].archived]_vars

(* The account's erasure archives all its events for good.                  *)
ErasedEventsStayArchived ==
  \A o \in Organizers : ~InUse(o) =>
    \A e \in Events : events[e].org = o => events[e].archived

(* The photos of an event exist, are its owner's, and are not too many:     *)
(* concurrent revisions cannot add up, a photo that one command removes is  *)
(* not brought back by another, and two creations that race for a photo     *)
(* cannot give it to an event of somebody else.                             *)
PhotosAreItsOwn ==
  \A e \in Events : events[e].status # "NONE" =>
    /\ Cardinality(Linked(e)) <= MaxPhotos
    /\ \A p \in Linked(e) : PhotoExists(p) /\ photos[p].owner = events[e].org

(* No revision, job or erasure takes the last photo of an event.  Only the  *)
(* creation of another event can: it writes the photo rows by their id, and *)
(* may take those that it had found free before they were linked.           *)
OnlyCreationsStrip ==
  [][\A e \in Events : Linked(e) # {} /\ Linked(e)' = {} =>
       \E f \in Events \ {e} : /\ events[f].status = "NONE" /\ events'[f].status # "NONE"
                               /\ Linked(e) \subseteq Linked(f)']_vars

(* create-event.handler.spec.ts: a creation "rejects when a photoId is      *)
(* missing/foreign/already linked".  It does not when another request links *)
(* the photo between its two steps.                                         *)
LinkedPhotosAreRejected ==
  [][\A p \in Photos : photos[p].event # None => photos'[p].event \in {photos[p].event, None}]_vars

(* Seen from outside, every command and every approval is one step on the   *)
(* current row, although it is carried out as two reads and a commit with   *)
(* other processes in between: the lifecycle implements EventReview.        *)
(* Where the account is gone, its events are erased.                        *)
phaseBar == [e \in Events |->
  IF events[e].archived THEN IF InUse(events[e].org) THEN "archived" ELSE "erased"
  ELSE CASE events[e].status = "NONE"      -> "none"
         [] events[e].status = "DRAFT"     -> "draft"
         [] events[e].status = "UPLOADED"  -> "inReview"
         [] events[e].status = "READY"     -> "ready"
         [] events[e].status = "PUBLISHED" -> "public"
         [] events[e].status = "CANCELLED" -> "cancelled"]

Review == INSTANCE EventReview WITH
  phase <- phaseBar,
  content <- [e \in Events |-> events[e].rev],
  approved <- [e \in Events |-> reviewed[e].rev]

ImplementsReview == Review!Spec

(* An event submitted for review leaves review, unless the queue has given  *)
(* its job up: retries are bounded and redelivery reaches another worker.   *)
ReviewEnds ==
  \A r \in Rows : Submission(r[1]) = r /\ AwaitingReview(r[1])
    ~> \/ ~(Submission(r[1]) = r /\ AwaitingReview(r[1]))
       \/ jobs[r].state \in {"failed", "forgotten"}

=============================================================================
