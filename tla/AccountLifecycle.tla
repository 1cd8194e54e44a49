-------------------------- MODULE AccountLifecycle --------------------------
(***************************************************************************)
(* The life of an account: deactivation, reactivation, the request for     *)
(* deletion and its cancellation, the worker that carries a deletion out   *)
(* after the grace period, and the guard that keeps blocked accounts away  *)
(* from the API through a cached status.                                   *)
(*                                                                         *)
(* A request reads the erasure ledger, makes sure there is a profile,      *)
(* reads it, and only then writes what it has decided: one action is one   *)
(* statement or transaction.  An attempt of the worker goes from the       *)
(* anonymized database over the object storage and the identity provider   *)
(* back to the database, and may end anywhere on the way.                  *)
(*                                                                         *)
(* What the anonymization does to events and to engagement is in           *)
(* EventLifecycle and EventStats; here, personal is all it takes away.     *)
(***************************************************************************)
EXTENDS Naturals

CONSTANTS
  Subjects,      \* keycloak subjects
  Profiles,      \* ids of profile rows
  Deletions,     \* ids of account_deletions rows
  Handlers,      \* requests in flight, over all API replicas
  Workers,       \* deletion workers, one per worker replica
  Guards,        \* guard checks in flight
  Commands,      \* commands that clients send
  Referenced,    \* subjects named by follows, comment likes or mentions
  LongAttempts,  \* whether an attempt may outlast its lease
  CacheFaults,   \* whether a write to the cache may be lost
  None

AllCommands == {"status", "deactivate", "reactivate", "delete", "cancel"}

ASSUME AccountAssumption ==
  /\ Commands \subseteq AllCommands
  /\ Referenced \subseteq Subjects
  /\ LongAttempts \in BOOLEAN
  /\ CacheFaults \in BOOLEAN
  /\ None \notin Subjects \cup Profiles \cup Deletions
  /\ Subjects \cap {"NONE", "TOMBSTONE"} = {}

VARIABLES
  profiles,    \* profiles table
  personal,    \* profiles that still have their personal data
  files,       \* profiles with private objects in the storage
  deletions,   \* account_deletions table
  identities,  \* users of the identity provider
  cached,      \* account_status cache, by subject
  handlers,    \* requests in progress
  workers,     \* attempts in progress
  guards       \* what guard checks in progress have read

vars == <<profiles, personal, files, deletions, identities, cached, handlers,
          workers, guards>>

-----------------------------------------------------------------------------
AccountStatus == {"ACTIVE", "DEACTIVATED", "PENDING_DELETION", "ANONYMIZED"}
GuardStatus == AccountStatus \cup {"MISSING"}

(* keycloakSub of a row: NONE before it exists, TOMBSTONE when it is finalized. *)
Profile == [sub: Subjects \cup {"NONE", "TOMBSTONE"}, status: AccountStatus]
NoProfile == [sub |-> "NONE", status |-> "ACTIVE"]

DeletionStatus == {"NONE", "REQUESTED", "ANONYMIZING", "ANONYMIZED", "COMPLETED", "CANCELLED"}

(* user: keycloak_user_id, cleared in the end; subject: the hash that stays; *)
(* due: next_attempt_at is past.                                             *)
Deletion == [profile: Profiles \cup {None}, user: Subjects \cup {None},
             subject: Subjects \cup {None}, status: DeletionStatus, due: BOOLEAN]
NoDeletion == [profile |-> None, user |-> None, subject |-> None, status |-> "NONE",
               due |-> FALSE]

Handler == [pc: {"idle", "ensure", "select", "decide", "found", "invalidate"},
            op: AllCommands, sub: Subjects \cup {None}, profile: Profiles \cup {None},
            seen: AccountStatus, deletion: Deletions \cup {None}]
Idle == [pc |-> "idle", op |-> "status", sub |-> None, profile |-> None,
         seen |-> "ACTIVE", deletion |-> None]

Worker == [pc: {"idle", "anonymize", "anonymized", "objects", "identity", "finalize", "completed"},
           deletion: Deletions \cup {None}]
NoAttempt == [pc |-> "idle", deletion |-> None]

Guard == [sub: Subjects \cup {None}, status: GuardStatus]
NoGuard == [sub |-> None, status |-> "MISSING"]

Open(d) == deletions[d].status \in {"REQUESTED", "ANONYMIZING", "ANONYMIZED"}
OpenFor(p) == {d \in Deletions : Open(d) /\ deletions[d].profile = p}
Erasure(s) == {d \in Deletions : /\ deletions[d].subject = s
                                 /\ deletions[d].status \in {"ANONYMIZED", "COMPLETED"}}
RowsOf(s) == {p \in Profiles : profiles[p].sub = s}

Init ==
  /\ profiles = [p \in Profiles |-> NoProfile]
  /\ personal = {}
  /\ files = {}
  /\ deletions = [d \in Deletions |-> NoDeletion]
  /\ identities = Subjects
  /\ cached = [s \in Subjects |-> "NONE"]
  /\ handlers = [h \in Handlers |-> Idle]
  /\ workers = [w \in Workers |-> NoAttempt]
  /\ guards = [g \in Guards |-> NoGuard]

Become(h, r) == handlers' = [handlers EXCEPT ![h] = r]
Advance(h, pc) == handlers' = [handlers EXCEPT ![h].pc = pc]

(* Mutant: the entry is marked instead of removed. *)
UncacheByMark(s) == cached' = [cached EXCEPT ![s] = "DELETED"]

(* cache.delete swallows its errors. *)
Uncache(s) == cached' = [cached EXCEPT ![s] = "NONE"] \/ (CacheFaults /\ UNCHANGED cached)

-----------------------------------------------------------------------------
(* Requests.  An access token outlives the identity for a while, so any     *)
(* subject may send one.                                                    *)

(* ensureIdentityProfile: the ledger, ... *)
Receive(h, s, op) ==
  /\ handlers[h].pc = "idle"
  /\ op \in Commands
  /\ Erasure(s) = {}
  /\ Become(h, [Idle EXCEPT !.pc = "ensure", !.op = op, !.sub = s])
  /\ UNCHANGED <<profiles, personal, files, deletions, identities, cached, workers, guards>>

(* ... a row, unless there is one, ... *)
InsertProfile(h) ==
  LET s == handlers[h].sub
  IN /\ handlers[h].pc = "ensure"
     /\ IF RowsOf(s) # {}
        THEN UNCHANGED <<profiles, personal, files>>
        ELSE \E p \in RowsOf("NONE") :
               /\ profiles' = [profiles EXCEPT ![p] = [sub |-> s, status |-> "ACTIVE"]]
               /\ personal' = personal \cup {p}
               /\ files' = files \cup {p}
     /\ Advance(h, "select")
     /\ UNCHANGED <<deletions, identities, cached, workers, guards>>

(* Requests with nothing left to do once they know the status. *)
Settled(op, status) ==
  CASE op = "status"     -> TRUE
    [] op = "deactivate" -> status # "ACTIVE"
    [] op = "reactivate" -> status # "DEACTIVATED"
    [] OTHER             -> FALSE

(* ... and what is in it. *)
SelectProfile(h) ==
  /\ handlers[h].pc = "select"
  /\ IF RowsOf(handlers[h].sub) = {}
     THEN Become(h, Idle)
     ELSE \E p \in RowsOf(handlers[h].sub) :
            Become(h, IF Settled(handlers[h].op, profiles[p].status) THEN Idle
                      ELSE [handlers[h] EXCEPT !.pc = "decide", !.profile = p,
                                               !.seen = profiles[p].status])
  /\ UNCHANGED <<profiles, personal, files, deletions, identities, cached, workers, guards>>

(* deactivate, reactivate: the row is written whatever it says by now. *)
SetStatus(h) ==
  LET x == handlers[h]
  IN /\ x.pc = "decide"
     /\ x.op \in {"deactivate", "reactivate"}
     /\ profiles' = [profiles EXCEPT ![x.profile].status =
                       IF x.op = "deactivate" THEN "DEACTIVATED" ELSE "ACTIVE"]
     /\ Advance(h, "invalidate")
     /\ UNCHANGED <<personal, files, deletions, identities, cached, workers, guards>>

(* activeDeletion *)
FindDeletion(h) ==
  LET x == handlers[h]
      requested == {d \in OpenFor(x.profile) : deletions[d].status = "REQUESTED"}
  IN /\ x.pc = "decide"
     /\ \/ /\ x.op = "delete"
           /\ IF OpenFor(x.profile) # {} \/ x.seen = "ANONYMIZED"
              THEN Become(h, Idle)
              ELSE Advance(h, "found")
        \/ /\ x.op = "cancel"
           /\ IF requested = {}
              THEN Become(h, Idle)
              ELSE \E d \in requested :
                     Become(h, [x EXCEPT !.pc = "found", !.deletion = d])
     /\ UNCHANGED <<profiles, personal, files, deletions, identities, cached, workers, guards>>

(* The transaction of requestDeletion: it holds the profile's row and looks *)
(* for a deletion again.  A second entry of the subject in the ledger is    *)
(* refused by a unique index, and the request fails.                        *)
RequestDeletion(h) ==
  LET x == handlers[h]
  IN /\ x.pc = "found"
     /\ x.op = "delete"
     /\ IF OpenFor(x.profile) # {}
        THEN UNCHANGED <<profiles, deletions>>
        ELSE /\ \A d \in Deletions : deletions[d].subject = x.sub =>
                                       deletions[d].status = "CANCELLED"
             /\ profiles' = [profiles EXCEPT ![x.profile].status = "PENDING_DELETION"]
             /\ \E d \in Deletions :
                  /\ deletions[d].status = "NONE"
                  /\ deletions' = [deletions EXCEPT ![d] =
                       [profile |-> x.profile, user |-> x.sub, subject |-> x.sub,
                        status |-> "REQUESTED", due |-> FALSE]]
     /\ Advance(h, "invalidate")
     /\ UNCHANGED <<personal, files, identities, cached, workers, guards>>

(* Mutant: the deletion is cancelled whatever has become of it. *)
CancelAnyway(h) ==
  LET x == handlers[h]
  IN /\ x.pc = "found"
     /\ x.op = "cancel"
     /\ deletions' = [deletions EXCEPT ![x.deletion].status = "CANCELLED"]
     /\ profiles' = [profiles EXCEPT ![x.profile].status = "ACTIVE"]
     /\ Advance(h, "invalidate")
     /\ UNCHANGED <<personal, files, identities, cached, workers, guards>>

(* The transaction of cancelDeletion: the profile is written even when the  *)
(* deletion is no longer REQUESTED.                                         *)
CancelDeletion(h) ==
  LET x == handlers[h]
  IN /\ x.pc = "found"
     /\ x.op = "cancel"
     /\ deletions' = [deletions EXCEPT ![x.deletion].status =
                        IF @ = "REQUESTED" THEN "CANCELLED" ELSE @]
     /\ profiles' = [profiles EXCEPT ![x.profile].status = "ACTIVE"]
     /\ Advance(h, "invalidate")
     /\ UNCHANGED <<personal, files, identities, cached, workers, guards>>

InvalidateStatus(h) ==
  /\ handlers[h].pc = "invalidate"
  /\ Uncache(handlers[h].sub)
  /\ Become(h, Idle)
  /\ UNCHANGED <<profiles, personal, files, deletions, identities, workers, guards>>

(* A conflict, an error of the database or a crash. *)
Abandon(h) ==
  /\ handlers[h].pc # "idle"
  /\ Become(h, Idle)
  /\ UNCHANGED <<profiles, personal, files, deletions, identities, cached, workers, guards>>

-----------------------------------------------------------------------------
(* The deletion worker. *)

Works(w, d) == workers[w].deletion = d
GoOn(w, pc) == workers' = [workers EXCEPT ![w].pc = pc]

(* next_attempt_at passes: the end of the grace period, or of the lease     *)
(* that the last claim took.                                                *)
BecomeDue(d) ==
  /\ Open(d)
  /\ ~deletions[d].due
  /\ LongAttempts \/ \A w \in Workers : ~Works(w, d)
  /\ deletions' = [deletions EXCEPT ![d].due = TRUE]
  /\ UNCHANGED <<profiles, personal, files, identities, cached, handlers, workers, guards>>

(* Mutant: a claim without a lease. *)
ClaimWithoutLease(w, d) ==
  /\ workers[w].pc = "idle"
  /\ Open(d)
  /\ deletions[d].due
  /\ deletions' = [deletions EXCEPT ![d].status = IF @ = "REQUESTED" THEN "ANONYMIZING" ELSE @]
  /\ workers' = [workers EXCEPT ![w] =
       [pc |-> IF deletions[d].status = "ANONYMIZED" THEN "objects" ELSE "anonymize",
        deletion |-> d]]
  /\ UNCHANGED <<profiles, personal, files, identities, cached, handlers, guards>>

(* Mutant: a claim takes no deletion that an earlier attempt has begun. *)
ClaimRequested(w, d) ==
  /\ workers[w].pc = "idle"
  /\ deletions[d].status = "REQUESTED"
  /\ deletions[d].due
  /\ deletions' = [deletions EXCEPT ![d].status = "ANONYMIZING", ![d].due = FALSE]
  /\ workers' = [workers EXCEPT ![w] = [pc |-> "anonymize", deletion |-> d]]
  /\ UNCHANGED <<profiles, personal, files, identities, cached, handlers, guards>>

(* claimDueDeletion *)
Claim(w, d) ==
  /\ workers[w].pc = "idle"
  /\ Open(d)
  /\ deletions[d].due
  /\ deletions' = [deletions EXCEPT
       ![d].status = IF @ = "REQUESTED" THEN "ANONYMIZING" ELSE @,
       ![d].due = FALSE]
  /\ IF deletions[d].user = None
     THEN UNCHANGED workers
     ELSE workers' = [workers EXCEPT ![w] =
            [pc |-> IF deletions[d].status = "ANONYMIZED" THEN "objects" ELSE "anonymize",
             deletion |-> d]]
  /\ UNCHANGED <<profiles, personal, files, identities, cached, handlers, guards>>

(* anonymizeDomainData: the rows are written by id, whatever they say. *)
Anonymize(w) ==
  LET d == workers[w].deletion
      p == deletions[d].profile
  IN /\ workers[w].pc = "anonymize"
     /\ profiles' = [profiles EXCEPT ![p].status = "ANONYMIZED"]
     /\ personal' = personal \ {p}
     /\ deletions' = [deletions EXCEPT ![d].status = "ANONYMIZED"]
     /\ GoOn(w, "anonymized")
     /\ UNCHANGED <<files, identities, cached, handlers, guards>>

(* After the anonymization and after the finalization. *)
InvalidateErased(w) ==
  /\ workers[w].pc \in {"anonymized", "completed"}
  /\ Uncache(deletions[workers[w].deletion].subject)
  /\ workers' = [workers EXCEPT ![w] =
       IF @.pc = "anonymized" THEN [@ EXCEPT !.pc = "objects"] ELSE NoAttempt]
  /\ UNCHANGED <<profiles, personal, files, deletions, identities, handlers, guards>>

(* Mutant: objects that cannot be removed are left behind. *)
SkipObjects(w) ==
  /\ workers[w].pc = "objects"
  /\ files' = files \ {deletions[workers[w].deletion].profile} \/ UNCHANGED files
  /\ GoOn(w, "identity")
  /\ UNCHANGED <<profiles, personal, deletions, identities, cached, handlers, guards>>

DeleteStorageObjects(w) ==
  /\ workers[w].pc = "objects"
  /\ files' = files \ {deletions[workers[w].deletion].profile}
  /\ GoOn(w, "identity")
  /\ UNCHANGED <<profiles, personal, deletions, identities, cached, handlers, guards>>

(* keycloak.deleteUser: an identity that is gone is no error. *)
DeleteIdentity(w) ==
  /\ workers[w].pc = "identity"
  /\ identities' = identities \ {deletions[workers[w].deletion].subject}
  /\ GoOn(w, "finalize")
  /\ UNCHANGED <<profiles, personal, files, deletions, cached, handlers, guards>>

(* finalizeIdentityDeletion: the new keycloak_sub of the profile is refused *)
(* by the foreign keys of rows that still name the old one.                 *)
Finalize(w) ==
  LET d == workers[w].deletion
  IN /\ workers[w].pc = "finalize"
     /\ deletions[d].subject \notin Referenced
     /\ profiles' = [profiles EXCEPT ![deletions[d].profile].sub = "TOMBSTONE"]
     /\ deletions' = [deletions EXCEPT ![d].status = "COMPLETED", ![d].user = None]
     /\ GoOn(w, "completed")
     /\ UNCHANGED <<personal, files, identities, cached, handlers, guards>>

(* An error of the database, the storage or the identity provider, or a     *)
(* crash: the attempt ends, and the lease of its claim runs out.            *)
AttemptFails(w) ==
  /\ workers[w].pc # "idle"
  /\ workers' = [workers EXCEPT ![w] = NoAttempt]
  /\ UNCHANGED <<profiles, personal, files, deletions, identities, cached, handlers, guards>>

-----------------------------------------------------------------------------
(* AccountStatusGuard: the status is read through a cache. *)

(* Mutant: a subject without a profile is new to the API. *)
StatusWithoutLedger(s) ==
  IF RowsOf(s) = {} THEN "MISSING"
  ELSE LET p == CHOOSE p \in RowsOf(s) : TRUE IN profiles[p].status

StatusOf(s) ==
  IF RowsOf(s) # {}
  THEN LET p == CHOOSE p \in RowsOf(s) : TRUE IN profiles[p].status
  ELSE IF \E d \in Deletions : deletions[d].subject = s /\ deletions[d].status # "CANCELLED"
       THEN "ANONYMIZED" ELSE "MISSING"

GuardReads(g, s) ==
  /\ guards[g] = NoGuard
  /\ cached[s] = "NONE"
  /\ guards' = [guards EXCEPT ![g] = [sub |-> s, status |-> StatusOf(s)]]
  /\ UNCHANGED <<profiles, personal, files, deletions, identities, cached, handlers, workers>>

(* The value is written although it may be older than an invalidation. *)
GuardFills(g) ==
  /\ guards[g] # NoGuard
  /\ \/ cached' = [cached EXCEPT ![guards[g].sub] = guards[g].status]
     \/ CacheFaults /\ UNCHANGED cached
  /\ guards' = [guards EXCEPT ![g] = NoGuard]
  /\ UNCHANGED <<profiles, personal, files, deletions, identities, handlers, workers>>

(* The entry's time to live, 30 seconds and some. *)
Expire(s) ==
  /\ cached[s] # "NONE"
  /\ cached' = [cached EXCEPT ![s] = "NONE"]
  /\ UNCHANGED <<profiles, personal, files, deletions, identities, handlers, workers, guards>>

-----------------------------------------------------------------------------
HandlerStep(h) ==
  \/ \E s \in Subjects, op \in AllCommands : Receive(h, s, op)
  \/ InsertProfile(h)
  \/ SelectProfile(h)
  \/ SetStatus(h)
  \/ FindDeletion(h)
  \/ RequestDeletion(h)
  \/ CancelDeletion(h)
  \/ InvalidateStatus(h)
  \/ Abandon(h)

AttemptStep(w) ==
  \/ Anonymize(w)
  \/ InvalidateErased(w)
  \/ DeleteStorageObjects(w)
  \/ DeleteIdentity(w)
  \/ Finalize(w)

Next ==
  \/ \E h \in Handlers : HandlerStep(h)
  \/ \E d \in Deletions : BecomeDue(d)
  \/ \E w \in Workers, d \in Deletions : Claim(w, d)
  \/ \E w \in Workers : AttemptStep(w) \/ AttemptFails(w)
  \/ \E g \in Guards, s \in Subjects : GuardReads(g, s)
  \/ \E g \in Guards : GuardFills(g)
  \/ \E s \in Subjects : Expire(s)

Spec == Init /\ [][Next]_vars

(***************************************************************************)
(* Fairness.  Time passes, a worker's loop takes what is due, and no step   *)
(* that a deletion needs fails for ever.  Clients owe nothing.              *)
(***************************************************************************)
Fairness ==
  /\ \A d \in Deletions :
       /\ WF_vars(BecomeDue(d))
       /\ SF_vars(\E w \in Workers : Claim(w, d))
       /\ SF_vars(\E w \in Workers : Works(w, d) /\ Anonymize(w))
       /\ SF_vars(\E w \in Workers : Works(w, d) /\ DeleteStorageObjects(w))
       /\ SF_vars(\E w \in Workers : Works(w, d) /\ DeleteIdentity(w))
       /\ SF_vars(\E w \in Workers : Works(w, d) /\ Finalize(w))
  /\ \A w \in Workers : WF_vars(AttemptStep(w) \/ AttemptFails(w))
  /\ \A g \in Guards : WF_vars(GuardFills(g))
  /\ \A s \in Subjects : WF_vars(Expire(s))

FairSpec == Spec /\ Fairness

-----------------------------------------------------------------------------
(* Properties. *)

(* Every variable keeps the shape of the table, cache or process it models. *)
TypeOK ==
  /\ profiles \in [Profiles -> Profile]
  /\ personal \subseteq Profiles
  /\ files \subseteq Profiles
  /\ deletions \in [Deletions -> Deletion]
  /\ identities \subseteq Subjects
  /\ cached \in [Subjects -> GuardStatus \cup {"NONE"}]
  /\ handlers \in [Handlers -> Handler]
  /\ workers \in [Workers -> Worker]
  /\ guards \in [Guards -> Guard]

(* The identity goes last: once it is gone from the identity provider, the  *)
(* account's deletion is past its anonymization, and neither personal data  *)
(* nor private objects of the account are left, whatever attempts failed or *)
(* overlapped on the way.                                                   *)
IdentityGoesLast ==
  \A s \in Subjects \ identities :
    \E d \in Erasure(s) : deletions[d].profile \notin personal \cup files

(* A deletion that was cancelled in time is carried out by nobody: no       *)
(* attempt is at work on it, and it is not taken up again.                  *)
CancelledIsKept ==
  \A d \in Deletions : deletions[d].status = "CANCELLED" => \A w \in Workers : ~Works(w, d)

(* Personal data are lost to a deletion that stands, never to one that was  *)
(* cancelled, however requests, leases and attempts overlap.                *)
OnlyDeletedAreErased ==
  \A p \in Profiles : profiles[p].sub # "NONE" /\ p \notin personal =>
    \E d \in Deletions : /\ deletions[d].profile = p
                         /\ deletions[d].status \in {"ANONYMIZED", "COMPLETED"}

(* A deletion only moves on, and ends once, as long as an attempt ends      *)
(* within its lease.                                                        *)
Rank(status) ==
  CASE status = "NONE"        -> 0
    [] status = "REQUESTED"   -> 1
    [] status = "ANONYMIZING" -> 2
    [] status = "ANONYMIZED"  -> 3
    [] OTHER                  -> 4

DeletionsMoveOn ==
  [][\A d \in Deletions : \/ deletions'[d].status = deletions[d].status
                          \/ Rank(deletions'[d].status) > Rank(deletions[d].status)]_vars

(* The profile says what the deletion is at: blocked while one is pending,  *)
(* anonymized for good after it.                                            *)
StatusFollowsDeletion ==
  \A d \in Deletions :
    LET status == profiles[deletions[d].profile].status
    IN /\ deletions[d].status \in {"REQUESTED", "ANONYMIZING"} => status = "PENDING_DELETION"
       /\ deletions[d].status \in {"ANONYMIZED", "COMPLETED"} => status = "ANONYMIZED"

(* A deletion that is not cancelled is carried out, through failed attempts *)
(* and leases that run out.                                                 *)
ErasureCompletes == \A d \in Deletions : Open(d) ~> ~Open(d)

(* A blocked account, which is one whose profile is not ACTIVE or, when     *)
(* there is none any more, one that the ledger knows, is kept out for good  *)
(* some time after it was blocked, although a guard may fill the cache with *)
(* what it read before and an invalidation may be lost.                     *)
Blocked(s) ==
  IF RowsOf(s) # {}
  THEN \A p \in RowsOf(s) : profiles[p].status # "ACTIVE"
  ELSE \E d \in Deletions : deletions[d].subject = s /\ deletions[d].status # "CANCELLED"

BlockingSettles ==
  \A s \in Subjects :
    <>[]Blocked(s) => <>[](cached[s] \notin {"ACTIVE", "MISSING"})

=============================================================================
