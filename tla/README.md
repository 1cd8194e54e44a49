# bezoom-api in TLA+

A verification project for the Bezoom API: a NestJS modular monolith over
PostgreSQL (a primary and a read replica), Redis (cache, rate limits, BullMQ),
MinIO and Keycloak. The interesting part of this program is not in any single
request. It is in what happens when API replicas, worker replicas, a queue and
three stores that share no transaction act on the same rows.

Paths below are relative to the repository; `events/` stands for
`src/modules/events/`, `user/` for `src/modules/user/`.

## The system

| Component | State | Operations | What is hard |
|---|---|---|---|
| Event aggregate (`events/domain`, `events/application/commands`, `drizzle-event.repository.ts`) | `events`, `event_photos` | create, update, resubmit, publish, cancel, archive, request uploads | aggregates are loaded in two statements and written back later; only `version` protects them |
| Pipeline (`events/infrastructure/pipeline`) | `event_outbox`, the BullMQ queue, raw and media buckets | claim a batch, add jobs, acknowledge; take, copy, approve, fail, stall | at-least-once delivery, retries, workers that die in the middle |
| Engagement and projection (`drizzle-event-engagement.repository.ts`, `event-stats-projection.service.ts`) | likes, saves, RSVPs, comments, `event_outbox`, `event_stats` | mark, unmark, RSVP, comment; claim, lock, apply, acknowledge, clean up | replicas that skip each other's rows, clamped counters, times taken before commits |
| Account lifecycle (`user/services/account-lifecycle.service.ts`, `account-deletion.worker.ts`, `account-status.guard.ts`) | `profiles`, `account_deletions`, objects to delete, Keycloak users, cached status | deactivate, reactivate, request and cancel deletion; claim, anonymize, remove objects, delete identity, finalize | a saga over four stores with leases; reads before writes; late cache fills |
| Comments (`drizzle-event-comment.repository.ts` and its handlers) | comments, likes, mentions, `comment.*` outbox rows | create, reply, edit, like, delete | counters kept by hand under row locks; checks before transactions |
| Follows and blocks (`creator-follow.service.ts`, `src/modules/safety`) | pair rows, two counters per profile | follow, unfollow, block, unblock | a block checked before the transaction it should prevent; locks taken in opposite orders |
| Profile, avatar, phone, settings (`profile.service.ts`, `user-settings.service.ts`) | profile row, OTP hash, avatar objects, settings | provision, sync the identity, update fields, replace an avatar, request and verify a code, update settings | no transactions at all; cleanup after failure; a lookup on the replica |
| Guards and rate limits (`shared/infrastructure/auth/guards`, `rate-limit`) | counters in Redis | authenticate, check status, authorize, count | a route table with few rules and many exceptions; a Redis that answers late, twice or not at all |
| Cache (`redis-cache.service.ts`) and the reads behind it | Redis entries, in-flight loads, the `event_map` version | get-or-set, versioned keys, delete | stale fills, lost invalidations, a replica that lags, blocks that must show at once |
| Lists (`event-read.service.ts`, `event-social-read.service.ts`, the lists of follows and blocks, the search) | none but the cursor in the client's hand | thirteen lists, page by page | rows that come, change, move and go between pages; equal timestamps |
| Geocoding, health, metrics, DTOs, seeds | none | | |

The components meet in the database. A request passes the guards, which share
counters and the cached account status over all API replicas; it writes its
rows and its outbox row in one transaction; the dispatcher turns
`event.created` and `event.review.requested` rows into jobs whose id is the
row's id; the media worker writes the event through the same repository as the
requests; the projector consumes `event.stats.changed` rows; the deletion
worker writes the tables of all of them. Reads go to the replica and the
cache. Invalidations of the cache come after the commits and may be lost.

## Modules

| Module | What it models |
|---|---|
| `EventLifecycle` | the event aggregate, the pipeline, and what erasing an organizer does to both |
| `EventReview` | the promise: what may happen to an event seen from outside, with no versions, queues or processes |
| `EventStats` | engagement transactions, outbox deltas, projector replicas, counters |
| `AccountLifecycle` | account requests, the deletion worker, the status guard and its cache |
| `Follows` | follows and blocks, statement by statement, with PostgreSQL's locks and deadlocks |
| `Comments` (extends `Follows`) | conversations, composed with the blocks and accounts of `Follows` |
| `Profiles` | provisioning, profile fields, avatars, phone verification, settings |
| `RequestGuards` | the route table, the global guards, the rate limiter |
| `ReadCache` | the cached map, details and search over primary and replica |
| `Listings` | the thirteen lists and their cursors |
| `MCEventLifecycle`, `MCEventStats`, `MCAccountLifecycle`, `MCSocial`, `MCProfiles`, `MCRequestGuards`, `MCReads` | instances for TLC: symmetry sets, and which combinations of operations a behaviour explores |
| `EventLifecycleProofs`, `EventCommitsProofs`, `EventStatsProofs`, `AccountLifecycleProofs`, `SocialProofs` (both `Follows` and `Comments`), `ProfilesProofs`, `RequestGuardsProofs`, `ReadProofs` (both `ReadCache` and `Listings`) | theorems checked by TLAPS |

`Comments` is composed with `Follows` by sharing its blocks and accounts
(`SocialNext`: erasing an account is one step of both); `MCReads` holds
`ReadCache` and `Listings` side by side. The parts of the account's erasure are
in the modules of the tables it writes: events in `EventLifecycle`, engagement
in `EventStats`, blocks in `Follows`, comments in `Comments`, the profile's own
data and avatar in `Profiles`, the order of the stages in `AccountLifecycle`.
The cache of the account status is in `AccountLifecycle`; `RequestGuards` takes
the status as given. What `EventLifecycle` says of the map, that a change is
announced or an invalidation was lost, is what `ReadCache` starts from.

### EventLifecycle

`events`, `photos`, `outbox` are tables; `raw` and `stored` are the two
buckets; `jobs` is BullMQ; `procs` holds what a request or a worker has in
its local variables; `claims` the rows a dispatcher has locked; `erasure` how
far an organizer's erasure has come; `staleMap` the events whose entry to or exit
from the public map the version of `event_map` does not show yet. `reviewed` is
a history variable: what the last approval of an event had looked at.

An action is one statement or one transaction. `Load` and `LoadPhotos` are the
two statements of `findById`; `ResolvePhotos` is `UpdateEventHandler.resolvePhotos`;
`Update`, `UpdateLifecycle` and `PublishEvent` are the repository's transactions
with the version in their `WHERE`; `Invalidate` is what handlers do after the
commit. `ClaimBatch`, `AddJob`, `MarkProcessed`, `DispatchFails` are
`dispatchNextBatch`; `Take`, `CopyPhoto`, `ApproveEvent`, `FailAttempt`,
`CompleteJob` are `EventPipelineService.process`; `WorkerDies`, `Stall` and
`RemoveFinished` are BullMQ's side. `EraseDomainData`, `EraseCaches` and
`EraseObject` are the part of the deletion worker that touches events.

Abstractions. The editable content of an event is the number of the version
that wrote it. `getEligibilityError` and every answer with an error is the free
choice `Abandon`. `REJECTED` is never written by the code, and visibility is
always public, so neither is in the model. A dispatcher may claim any batch of
pending rows, not only the oldest. A stall costs a job an attempt. BullMQ drops
completed jobs after a day and failed ones after seven, or beyond ten thousand
of either: `RemoveFinished` may drop one at any time, except while a dispatcher
that may have added it has its row claimed; that a failed job was dropped
(`forgotten`) is remembered for the properties only. An organizer whose account is
being erased sends no requests: the guard and thirty days lie between; only
workers race the erasure. The tombstone that `finalizeIdentityDeletion` writes
over `organizer_keycloak_sub` is not in the model.

### EventStats

`marks`, `rsvps`, `comments` are the engagement tables, `pending` and
`processed` the outbox rows, `stats` the counters, `txs` the open transactions
of clients, `projs` the projector's statement in progress. A row's `at` is
`now()` of its transaction, which is when it *began*. A projection is
`Start` (the statement's snapshot), `ScanRow` (one row, locked or skipped),
`ScanEnds`, `LockAggregate` (advisory lock, only if no older row of the
aggregate is pending), `Commit`, or `ProjectionFails`. Row locks that a request
holds to its commit make its write and its commit one action (`SetMark`,
`InsertRsvp`, `ChangeRsvp`, ...); `Begin` is separate because it fixes the time.
The purge of `event_detail` after the projector's commit is one more command to
`ReadCache`; the checks of a handler before its transaction (the event is
available, nobody is blocked) are in `Comments` and `Listings`.

### AccountLifecycle

`profiles` and `deletions` are tables, `personal` and `files` the profiles that
still have personal data and private objects, `identities` Keycloak's users,
`cached` the `account_status` entries. A request goes through `Receive` (the
erasure ledger), `InsertProfile`, `SelectProfile`, then `SetStatus`, or
`FindDeletion` and one of the transactions `RequestDeletion` and
`CancelDeletion`, then `InvalidateStatus`; it may end anywhere (`Abandon`). A
claim sets the lease (`due`); an attempt is `Anonymize`, `InvalidateErased`,
`DeleteStorageObjects`, `DeleteIdentity`, `Finalize`, `InvalidateErased`, and
may end anywhere (`AttemptFails`). `BecomeDue` is time passing.
`BlockingSettles` speaks of the end of all this: until a late fill expires, up
to thirty seconds after a block, the guard may still let an account in, where
`README.md:201` says that access is cut at once. `LongAttempts = FALSE` says that an attempt ends before its lease of five
minutes does; the code does not enforce it. `Referenced` names the subjects that
rows of `creator_follows`, `event_comment_likes` or `event_comment_mentions`
mention. `BecomeDue` does not wait for requests that have been in flight for
the thirty days of grace, which allows more than a short request can do, and
exactly what a slow one can do at the end of the period.

### Follows and Comments

`follows`, `blocks`, `following`, `followers` are the committed rows and
counters; `txs` is what each request's transaction has locked and written so
far. `FindFollowable` and `CheckBlock` are the statements of `follow` before
its transaction; `InsertFollow`, `UpdateCounter` (twice) and `Commit` are its
statements; `DeleteFollow` begins `unfollow`, `InsertBlock` and `Sever` are
`block`, `Unblock` one statement. A statement that meets another transaction's
row waits for it; a cycle of waits makes PostgreSQL abort one (`DeadlockAborts`),
and a connection may go at any time (`ConnectionLost`). Follows that a
transaction has inserted are invisible to the `DELETE` of a block, as in READ
COMMITTED. `SetActive` and `Anonymize` are the account's lifecycle, racing.

In `Comments`, `ReceiveComment`, `ReceiveEdit` and `ReceiveLike` are the
handlers' checks, `LockParent`, `EditComment` and `LockComment` the statements
that lock a comment, and `InsertComment`, `ReplaceMentions` and `StoreLike` the
rest of the transaction: nothing can come between its statements that the model
could tell apart. A body is the set of users it names. `outbox` are the
notices; `late` remembers that a block had stood since before the request.

### Profiles

No operation of `ProfileService` runs in a transaction, so one action is one
statement or one call to storage or mail. `FindProfile`, `Provision` and
`SyncIdentity` are `ensureProfile`; then `UpdateProfile`; `PutAvatar`,
`AttachAvatar`, `DetachAvatar` and `RemoveAvatar`; `LookUpPhone` (the replica),
`StoreCode`, `SendCode` and `ClearVerification`; `CheckCode` (what was read at
the start), `CountMiss` and `AcceptCode` (one conditional `UPDATE` each);
`UpdateSettings`. The `UPDATE` of an upload may succeed, fail, or succeed
without the server hearing of it; in the last two cases the upload goes on to
remove the object it has stored (stage `undo`). Two requests read the same row and write in any order. A code
is its number in `codes`, which also remembers who was sent it, for which
number, and what was answered to it; two codes are taken to differ. `recent`
and `expired` stand for the times stored in the row. A failed delivery may have
delivered. `Anonymize` waits for the user's requests to end: thirty days lie
between.

### RequestGuards

`Routes` is the route table of all controllers, with the metadata the
decorators give them. A request goes through `Authenticate`, `CheckStatus` and
`Authorize`, one step per guard, then `Limit` once per policy, then `Handle`.
`counters` are the windows in Redis: `Incr` is the script, which `Consume`
judges by the largest count; the script may have been sent twice, its answer
lost, or Redis be unreachable, all of which `Limit` allows. `passed` and
`promised` are history: which requests got through, how long ago, and what
`Retry-After` said.
A token is its header, signature, type, audience, subject; the library that
checks signatures is external. Every limit of one scope has one value in an
instance. The client address is given: the code takes it from the proxy.

### ReadCache

The database is `log`, the sequence of its committed states, of which the
primary shows the last and the replica the one it has `applied`. A state says
whether the one event is listed and whether viewer and organizer block each
other. `Get`, `Join`, `Start`, `Load`, `Write` are `getOrSet` with its map of
in-flight promises per API replica; `Gate` and `Query` what a signed-in viewer
gets instead; `ReadVersion`, `ReadTiles`, `LoadTiles`, `FillTiles`,
`ReadBlocks` the map; `ChangeListing`, `Invalidate`, `Die` a command with the
invalidations after its commit, each of which may fail. `Elapse` is time: a load
and its write end within `LoadLimit`, and entries live for their TTL and up to a
tenth more. `query_timeout` bounds the statements of a load; the Redis client has
no `commandTimeout` (`redis-cache.service.ts:16`), so that the write ends in
time as well is an assumption, on which `FreshEnough` rests. Geometry, pins and cursors are left out: one
tile and one page stand for all. `announced` is history.

### Listings

`rows` are the rows of seven tables, `at` the time at which the transaction of a
row began, `id` an order unrelated to it. `Admits` says for each list which rows
it selects, of which subject, for which viewer; `PageOf` is the query with its
cursor, order and limit, where the row in the i-th place (`Nth`) is the one with
i - 1 others before it; `CheckSubject` the separate statement some lists begin
with; `ReadCachedPage` a page of the search that another visitor left. Between
pages, rows are inserted, change and go by the operations of the components
they belong to (`Change`); `ReviseEvent` may take an event to another place,
which is its sort key in the search by distance. `got`, `kept` and `moved` are
the positions the client has been given, those that were there throughout, and
whether it used a cursor elsewhere.

## Runs

| Run | Checks | Result |
|---|---|---|
| `EL_Review` | two requests, a worker and the erasure of the account on one event, all commands, up to version 3: `ReleasedIsReviewed`, `MapChangeIsAnnounced`, `ArchiveIsFinal`, and the refinement `ImplementsReview` | pass |
| `EL_Revise` | two creations and revisions racing for three photos, two workers, retries, lost invalidations and erasure: `ReviewInv` (which includes `TypeOK`), `PhotosAreItsOwn`, `OnlyCreationsStrip`, `ReleasedMediaIsServable` | pass |
| `EL_Pipeline` | two dispatchers, failing and dying workers, a queue that forgets failed jobs: `SubmissionIsPending`, `ReviewEnds` | pass |
| `ES_Replicas` | two projectors, batches of two rows, one client: `TypeOK`, `ClaimedOnce`, `CountersCover`, `DriftNeedsAnEarlyLoss`, `OldestGoesFirst` | pass |
| `ES_Requests` | two overlapping clients, erasure, one projector whose batch holds the backlog: `CountersCatchUp` | pass |
| `AL_Accounts` | two requests and two workers, attempts of any length: `TypeOK`, `IdentityGoesLast`, `CancelledIsKept`, `OnlyDeletedAreErased` | pass |
| `AL_Erasure` | attempts that fail, late guard checks: `DeletionsMoveOn`, `ErasureCompletes`, `BlockingSettles` | pass |
| `AL_Referenced` | an account that others reference: `ErasureCompletes` | violated |
| `SO_Social` | two requests about follows and blocks, two about comments, changes of account status and erasure: `CountersAgree`, `BlockHolds`, `LikesAgree`, `MentionsAreAnnouncedOnce`, `RepliesJoinLiveThreads` | pass |
| `PR_Profiles` | two overlapping requests of one user in each group of operations: `TypeOK`, `VerifiedIsProved`, `GuessesAreBounded`, `SettingsAreChosen`, `OnlyItsUploadRemovesAnAvatar` | pass |
| `RG_Guards` | routes of every kind, good and bad tokens, racing comments, a failing Redis: `HandledAreAdmitted`, `RollingBound`, `RetryAfterIsHonest` | pass |
| `RD_Reads` | each cached read against commands, lost invalidations and a lagging replica; each list scrolled to its end: `MapFollowsAnnouncement`, `BlockIsImmediate`, `FreshEnough`, `PagesCoverWhatStays` | pass |

What the passing runs show: the optimistic version is enough to keep content
that was not reviewed from being released, whatever the queue redelivers, and to
keep an archived event archived until its owner's account is erased; an event's
photos are its owner's and not too many, and only the creation of another event
takes them all away; a submission waits in vain only after its job has failed;
row locks keep projector replicas apart, each begins with the oldest delta of an
event, no counter falls below its table by more than what is pending, and it
rises above it only where the clamp swallows a loss that is applied before its
gain; a deletion
ends with neither data, objects nor identity left, in that order; the counters
of follows and of comment likes agree with their tables through deadlocks and
lost connections, and their clamps never bite; a block that stood when a follow
was asked for prevents it; a code verifies the number it was sent for, and is
guessed no more often than allowed, although attempts are read and counted in
two statements; nothing is handled that a guard should have stopped, and twice
the limit is the true bound of a fixed window; tiles of an announced version are
never older than the announcement if the replica had it; a block shows at once;
no request removes the avatar that another has stored and a profile names; and a
list that is scrolled to its end has shown, in its order, whatever stayed in its
place on it.

`AL_Referenced` is the one disagreement among the runs: foreign keys on
`profiles.keycloak_sub` refuse the finalization of an account that follows,
likes a comment or is mentioned, for ever and after its identity is gone. The
lines of the code and of the text it contradicts are in `findings` of
`PROJECT.json`.

### Counterexamples to run by hand

Seven configurations more look at one property each, and TLC refutes it:

| Configuration | Property | What happens |
|---|---|---|
| `EL_EventPhotos.cfg` (`MCEventLifecycle`) | `LinkedPhotosAreRejected` | two creations name one photo; `save` links photos by id only, so the second takes it from the first, which may be left without any (`create-event.handler.spec.ts:74` says a photo "already linked" is rejected) |
| `EL_Erasure.cfg` (`MCEventLifecycle`) | `ErasedEventsStayArchived` | erasure archives events without a new version, so a worker that loaded one before writes its own row over it (`README.md:201`: the worker archives the account's events) |
| `ES_Drift.cfg` (`MCEventStats`) | `CountersSettle` | two replicas lock the rows of one event in turn (`FOR UPDATE SKIP LOCKED`, `event-stats-projection.service.ts:79`), one the first and the third, the other the second; the look for an earlier row (`:88`) is made for the first only, so the third is applied before the second; with deltas -1, +1, -1 and a counter of 1, `greatest(0, ...)` swallows one, and the counter stays at 1 with no row behind it, although the requests came one after the other (`event-stats-projection.service.ts:13`: replicas may work concurrently; `README.md:12`: eventual consistency) |
| `AL_CancelRace.cfg` (`MCAccountLifecycle`) | `StatusFollowsDeletion` | a cancellation that saw `REQUESTED` sets the profile `ACTIVE` although the worker has claimed the deletion (`account.controller.ts:51`: "before anonymization starts") |
| `SO_Blocked.cfg` (`MCSocial`) | `BlockedStayUnheard` | a reply notifies a user who has blocked its author: only the organizer is looked at (`README.md:257`: a block works in both directions for new interactions) |
| `PR_LostReply.cfg` (`MCProfiles`) | `AvatarIsStored` | the `UPDATE` of an upload commits and its answer is lost: the `catch` removes the object that the row now names (`profile.service.ts:325`) |
| `LS_Cursors.cfg` (`MCReads`) | `CursorsAreAccepted` | a visitor is given a cached page of a neighbour a few metres away, and refused with its cursor, which is bound to the neighbour's point (`README.md:238`) |

The properties of the passing runs say what remains true of the code in these
cases, and are checked where they happen: `OnlyCreationsStrip` and
`PhotosAreItsOwn` with racing creations, `ArchiveIsFinal` and `ImplementsReview`
with an erasure, which may be followed by the approval of what it has erased
(`EventReview.Approve`), `DriftNeedsAnEarlyLoss` and `CountersCover` with two
projectors and partial batches, `OnlyItsUploadRemovesAnAvatar` with lost answers.

Two things the model can express do not hold of the code either and are no
properties of a run. A number can be verified by two users at once, because it
is looked up on the read replica and no index forbids it (`profile.service.ts:483`).
And an avatar uploaded while another is replaced can outlive both the row that
names it and the erasure of the account (`README.md:201`): no property says that
an avatar nobody uses is removed.

### Bounds

`MaxVersion` bounds commands on an event, `MaxTx` transactions, `MaxFaults`
failed projections, `Deletions` the deletions that can be requested, `MaxOps`
requests in `Follows`, `Comments` and `Profiles`, `MaxCodes` codes drawn,
`MaxCount` requests counted beyond a limit, `MaxCommits` commits, `MaxChanges`
changes under a list that is being scrolled. One or two events suffice because
an event's actions touch no other event's row (only photos are shared, hence two
events in `EL_Revise`, and the advisory locks, hence two in `ES_Replicas`).
Two requests, two workers, two dispatchers and two projectors are what a lost
update or a double claim takes. Version 3 holds a creation, a revision, a
resubmission and a publication. Batches of one (`EventLifecycle`) and of two
(`ES_Replicas`) with more rows pending are partial ones: there the clamp bites,
and counters end above their tables. The batch of `ES_Requests` holds all that
can be pending, and its projector is alone; `CountersCatchUp` is claimed of such
a projector only, since with partial batches or replicas a difference may stay
for ever (`ES_Drift`).

* `EL_Review` and `EL_Revise` leave out that a failed job is forgotten
  (`FailedJobsStay`), which matters to lost submissions only and is in
  `EL_Pipeline`. `EL_Revise` has two events and two requests as long as the
  pipeline has no job; from then on one event and one request at a time race
  with it (`OneRacesThePipeline`). It stops at version 1, so that a revised event
  is not released a second time; that is in `EL_Review` without photo copies, and
  in the proof of `ReleasedMediaAreServable` with them.

* `SO_Social`: two users, who can follow and block in both directions, so that
  the rows of a mutual follow are updated in opposite orders and a deadlock
  happens; four requests in all, two at a time of each kind.
* `PR_Profiles`: two requests at a time, four in all, and one wrong guess
  allowed, so that the limit is reached by overlapping guesses. A behaviour
  exercises one group of operations (`Scopes` of `MCProfiles`): the columns that
  the groups write are disjoint, apart from those that provisioning writes.
* `RG_Guards`: five routes, one of each kind (public, exempt from the status
  check, optional, optional and limited, required with two policies), a window
  of two seconds of two ticks, and two clients that race for the windows of
  `createComment`; requests to other routes come alone (`Racing`, `Quiet`),
  because they share no state with each other.
* `RD_Reads`: a behaviour explores one kind of cached read, or one list. Two
  requests and one or two commits are what a stale fill takes: one loads while
  the other's command commits and invalidates. Lists hold up to four rows with
  two timestamps, read in pages of one, so that each boundary may fall between
  rows of the same time, with up to three changes on the way (two in the search, whose events also
  move); a third user is there where the list is one of people.

Deadlock is not checked: with these bounds clients stop, and when all work is
done the system may stop. Symmetry is used in runs without liveness only; all
properties of these runs quantify over the permuted sets, and no definition
chooses among them except the row that a subject has, which is unique.

### Fairness

No client owes anything. In `EventLifecycle` a statement under way, a worker's
next step, a job waiting for a slot and a pending row's claim are weakly fair
(timers and the queue run as long as the process does); adding a job and
acknowledging a batch are strongly fair, because `DispatchFails` may interrupt
them any finite number of times. In `EventStats` a projector's step is weakly
fair, and failures are bounded by `MaxFaults`. In `AccountLifecycle` time and
claims go on, and no step a deletion needs fails every time it is tried: the
steps are strongly fair per deletion while `AttemptFails` is always possible.
The other modules state no fairness, and their runs check no liveness: what they
model is answered or refused by the request itself.

## Proofs

`EventLifecycleProofs` proves, for every value of the constants that satisfies
`LifecycleAssumption`, `TypeCorrect` (`[]TypeOK`), `ReviewInductive`
(`[]ReviewInv`) and `OnlyReviewedIsReleased` (`[]ReleasedIsReviewed`).
`ReleasedIsReviewed` is not inductive: whether an approval is right depends on
what the worker has loaded. `ReviewInv` adds what every process in flight knows:
the snapshot it holds has a version the row has or had (`SnapshotsOK`), and if
it is still the current version then its content is the row's content and its
approval is for that content. Jobs and holders agree (`JobsOK`), idle processes
are exactly the ones without work (`BusyOK`), unused ids are unused
(`UnusedOK`), and a creation in flight has its id to itself (`SavingOK`). The
proof goes action by action: commits are the cases where the version comparison
is used, all others leave rows alone.

`EventCommitsProofs` goes on from there. Its base (`Base`) adds `CommitsInv`:
a request or a job in flight whose version is still the row's version has read
the row as it is, and its command was accepted for it. From that:

* `MapChangesAreAnnounced` (`[]MapChangeIsAnnounced`): the visibility a handler
  decides by is the one that its commit changes.
* `SubmissionsArePending` (`[]SubmissionIsPending`), by `QueueInv`: outbox row,
  claim, job and attempt of a submission hand over to each other without a gap
  until the job has failed; from then on the queue may forget it.
* `ReleasedMediaAreServable` (`[]ReleasedMediaIsServable`), by `MediaInv`: what
  a worker has copied is there for as long as its shot of the photos can be
  committed.
* `PhotosAreOwned` (`[]PhotosAreItsOwn`), by `PhotosInv`: no event has more
  photos than allowed, a deleted one, or somebody else's, also when creations
  race. `EventsAreStrippedByCreations` (`OnlyCreationsStrip`): what a revision
  would commit has a photo left, and a row that loses its last photo loses it to
  a creation that had found that photo free.
* `OwnersArchiveIsFinal` (`ArchiveIsFinal`): what is archived stays so for as
  long as its owner's account is in use. The erasure archives without a new
  version, which `EL_Erasure.cfg` shows undone; the property ends there.
* `LifecycleImplementsReview` (`ImplementsReview`): each commit is a step of
  `EventReview`, all else a stutter, erasures and what is in flight during them
  included.

`EventStatsProofs` is about sums. The rows behind a counter and the deltas of
the outbox are counted as cardinalities of sets of units (`Units`), so that
`FiniteSetTheorems` says how they change by one.

* `ProjectionsAreDisjoint` (`[]ClaimedOnce`): no two projectors ever hold a row
  or an aggregate in common.
* `CountersNeverFallShort` (`[]CountersCover`) and `CountersAreNatural`
  (`[]TypeOK`), for any number of projectors and any order of commits. The
  invariant `Covering` says that counter and pending deltas of an event add up
  to its rows at least; `greatest(0, ...)` can only add.
* `BatchesBeginWithTheOldest` (`OldestGoesFirst`), when transactions do not
  overlap (`[]OneAtATime`): the times of pending rows are then in the order of
  the commits (`Ordered`), and a row that was pending when the statement began
  and is older than the batch would have been seen under the advisory lock.
* `OnlyEarlyLossesDrift` (`DriftNeedsAnEarlyLoss`), for any number of
  projectors, any limits and overlapping transactions. Every step but a
  projector's commit keeps what counter and outbox show beyond the table
  (`GapKept`). A commit changes it only if the clamp bites, and as `Covering`
  says that nothing was missing before, what stays pending then adds up to more
  than zero: it contains a gain (`ClampLeavesGains`).

`SocialProofs` proves `ProfileCountersAgree` (`[]CountersAgree`), `BlocksHold`
(`[]BlockHolds`), `CommentLikesAgree` (`[]LikesAgree`), `MentionsAnnounced`
(`MentionsAreAnnouncedOnce`) and `RepliesJoin` (`RepliesJoinLiveThreads`) for
any number of users, requests and comments. `FollowsInv` says of each
transaction that the counters it has raised or lowered and those on its list are
exactly the ones its inserted or deleted follows touch (`TxOK`), and that no two
transactions have the same follow in hand (`PairsApart`): every counter is then
the cardinality of its rows plus what is on the way. `CommentsInv` says of a
writer that has locked a comment that what it read is what is stored.

`AccountLifecycleProofs` proves, under `AccountAssumption` (among others: no
subject is one of the two placeholders `NONE` and `TOMBSTONE`), with any number
of requests and workers, attempts of any length and caches that lose their
invalidations:

* `TypeCorrect` (`[]TypeOK`), `IdentityIsLast` (`[]IdentityGoesLast`),
  `CancelledStays` (`[]CancelledIsKept`) and `OnlyDeletedLoseData`
  (`[]OnlyDeletedAreErased`);
* `DeletionsOnlyMoveOn`: if attempts end within their leases (`~LongAttempts`),
  then `DeletionsMoveOn`.

The inductive invariant `Inv` ties every row that a deletion or a request names
to a profile that is taken (`DeletionsOK`, `HandlersOK`), and says of an attempt
how far its deletion must be by now and what is left of the account
(`WorkersOK`, `ErasedOK`): an attempt that holds a deletion that has begun is
what makes a cancellation too late, and an attempt that has passed the storage
knows the files gone. Its core is `Continues`, what every step leaves true: rows
stay taken, entries of the ledger keep profile and subject and never leave
`Begun` or `Past`, and what was removed does not come back to a row that is
taken. Overlapping attempts are harmless to these properties exactly because
`Continues` speaks of sets of statuses and not of an order. The order needs
`LeasesOK`: one attempt at a deletion at a time, whose stage and the
deletion's status agree.

`ProfilesProofs` proves, under `ProfilesAssumption`, for any number of users
and overlapping requests: `TypeCorrect` (`[]TypeOK`), `VerificationIsProved`
(`[]VerifiedIsProved`), `GuessesHaveABound` (`[]GuessesAreBounded`),
`AvatarsStayStored` (`OnlyItsUploadRemovesAnAvatar`) and `SettingsStayChosen`
(`[]SettingsAreChosen`). The inductive invariant has four parts. `Typed` types
the tables and what a request holds at each stage. `CodesOK` says that the code
a row expects (`Expected`) is one of this user, for the number in the row, not
accepted yet, with as many misses as the row counts attempts, and that a code a
request brings is presented by then (`Presents`): the `WHERE` clause then says
whether it is still the code of the row. `AvatarsOK` says whose the objects are
(`ObjectsOK`), that an object about to be removed is nobody's avatar unless its
own upload is undoing it, and that an object in the making is also known to no
other request (`ObjectsApart`). `SettingsOK` adds that nobody has chosen anything
where there is no row.

`RequestGuardsProofs` proves, for any routes, tokens and number of requests, and
a Redis that fails, loses answers or runs the script twice at any point:
`GuardsAdmitOnly` (`[]HandledAreAdmitted`), from an invariant (`Admissions`) that
says for each stage what the guards before it have established; and, under
`RequestGuardsAssumption`, `RefusalsAreHonest` (`[]RetryAfterIsHonest`) and
`WindowsHaveABound` (`[]RollingBound`). `RetryAfterIsHonest` is about the value 0
only when seen alone; its invariant (`Windows`) is the claim itself: what is left
of a promise is never less than what is left of the window it was given in,
because seconds are rounded up (`RoundedUp`) and counting a request never
shortens a window (`CountingKeepsWindows`). `RollingBound` follows from `Places`:
the requests that got through in the open window have places of their own up to
the limit, and those of the window before it that are less than a window old
have places of their own from the second on, because the first one opened it.

`ReadProofs` proves, for `ReadCache` under any times to live, number of
requests and API replicas: `CacheTypes`, `MapFollows`
(`[]MapFollowsAnnouncement`), `BlocksAreImmediate` (`[]BlockIsImmediate`) and
`AnswersAreFresh` (`[]FreshEnough`). In the inductive invariant `CacheInv` each
commit owes at most one bump (`WritersOK`); a request that has the current
version read it after the last announcement, and an error read as 0 is older
than that (`VersionOK`); what is stored under a version, or about to be, was
listed at a time that all who read this version can be shown (`ListedUnder`); a
viewer's answer has asked the primary, or is still to (`BlockOK`); and what is
carried to the cache is no older than its load (`AgeOK`).

For `Listings` it proves `PagesAreComplete` (`[]PagesCoverWhatStays`), under
`ListingsAssumption`. The order of a list is total, so every row of a page's
query has a place (`RowsAreNumbered`, by counting) and a page takes the rows up
to its next cursor and leaves those after it (`PagesAreReadWell`). `ListInv`
relates a reader to positions, whatever row has them by now: what it was given
is behind its cursor and in the order of the list, what it has yet to be given
is ahead (`PlaceOK`). A page begins after its cursor and leaves out nothing
before the next (`PageOK`), so turning it keeps that relation
(`TurningKeepsPlace`); `kept` is what every page so far admitted, so no row
that comes, changes, moves or goes in between can disturb it. Of a page that is
shared the same is known (`StoredOK`).

Model-checked only is what says "eventually" (`ReviewEnds`, `CountersCatchUp`,
`ErasureCompletes`, `BlockingSettles`): TLAPS cannot reason about ENABLED, and
therefore not about fairness. Every other property of a passing run is a
theorem.

## Plan

1. Done: all modules above with their runs, and theorems for every safety
   property that a passing run checks.
2. Next to prove: the safety of `EventReview` itself, so that the refinement
   carries it over; the subset of `ErasureCompletes` that is an invariant (a
   deletion that is done has left nothing).
3. Properties for the hazards that have none yet: a request that straddles the
   erasure of its account from end to end.

## Not modelled

* Pure reads that no property depends on: the caller's statistics
  (`getMyStats`), viewer state, mention suggestions, public profiles beyond what
  lists need.
* Private methods for business profiles, which nothing calls.
* The insert of an event report, idempotent by a partial unique index, which
  nothing reads afterwards; its route, guards and limits are in `RequestGuards`.
* Revoking Keycloak sessions: best effort, no state of the program depends on it.
* Map geometry (sectors, clustering, pins), which is arithmetic on coordinates;
  the checks that the value objects for prices, periods and locations make on
  input. That a revision may move an event is in `Listings`.
* DTO shapes, validation and mapping, response headers, geocoding, health,
  metrics and logging keep no state of the program.
* A request that straddles an erasure from end to end: `AccountLifecycle`
  allows it (a profile is then created for an erased subject), no property
  forbids it, and `Profiles` and `EventLifecycle` assume that it does not
  happen, since thirty days of grace lie between.
* The Keycloak theme, Docker, observability, seeds and load scripts.

BullMQ, PostgreSQL, Redis, MinIO and Keycloak are modelled as the code uses them.

## Running

    tlc -config EL_Review.cfg MCEventLifecycle
    tlapm EventLifecycleProofs.tla

`runs` of `PROJECT.json` has the module of each configuration; each of the eight
proof modules is checked by itself. `EventStatsProofs`, `EventCommitsProofs` and
`SocialProofs` take several minutes each.
