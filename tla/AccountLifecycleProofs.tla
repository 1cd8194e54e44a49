----------------------- MODULE AccountLifecycleProofs -----------------------
(***************************************************************************)
(* Proofs about AccountLifecycle, for any number of accounts, requests and *)
(* workers, with attempts of any length and caches that lose their         *)
(* invalidations: a deletion that was cancelled stays cancelled, personal  *)
(* data go to a deletion that stands, and the identity goes last; and when *)
(* attempts end within their leases, a deletion only moves on.             *)
(***************************************************************************)
EXTENDS AccountLifecycle, TLAPS

-----------------------------------------------------------------------------
(* The inductive invariant. *)

Begun == {"ANONYMIZING", "ANONYMIZED", "COMPLETED"}
Past == {"ANONYMIZED", "COMPLETED"}

\* A profile row that a request or a deletion names is somebody's.
Taken(p) == p \in Profiles /\ profiles[p].sub # "NONE"

DeletionsOK ==
  \A d \in Deletions : deletions[d].status # "NONE" =>
    Taken(deletions[d].profile) /\ deletions[d].subject \in Subjects

HandlersOK ==
  \A h \in Handlers :
    LET x == handlers[h]
    IN /\ x.pc # "idle" => x.sub \in Subjects
       /\ x.pc \in {"decide", "found"} => Taken(x.profile)
       /\ x.pc = "found" /\ x.op = "cancel" =>
            x.deletion \in Deletions /\ deletions[x.deletion].status # "NONE"

ErasedOK ==
  \A d \in Deletions : deletions[d].status \in Past => deletions[d].profile \notin personal

\* How far an attempt has come, and what is left of the account by then.
WorkersOK ==
  \A w \in Workers : workers[w].pc # "idle" =>
    LET d == workers[w].deletion
        p == deletions[d].profile
    IN /\ d \in Deletions
       /\ deletions[d].status \in Begun
       /\ workers[w].pc # "anonymize" => deletions[d].status \in Past
       /\ workers[w].pc \in {"identity", "finalize", "completed"} => p \notin files

IdleOK == \A w \in Workers : workers[w].pc = "idle" => workers[w].deletion = None

Inv ==
  /\ TypeOK
  /\ DeletionsOK
  /\ ErasedOK
  /\ HandlersOK
  /\ WorkersOK
  /\ IdleOK
  /\ IdentityGoesLast
  /\ OnlyDeletedAreErased

\* With attempts that end within their leases, one at a time works on a deletion.
LeasesOK ==
  /\ \A v, w \in Workers : workers[v].pc # "idle" /\ workers[v].deletion = workers[w].deletion => v = w
  /\ \A w \in Workers : workers[w].pc # "idle" =>
       LET d == workers[w].deletion
       IN /\ ~deletions[d].due
          /\ workers[w].pc = "anonymize" => deletions[d].status = "ANONYMIZING"
          /\ workers[w].pc \in {"anonymized", "objects", "identity", "finalize"} =>
               deletions[d].status = "ANONYMIZED"
          /\ workers[w].pc = "completed" => deletions[d].status = "COMPLETED"

-----------------------------------------------------------------------------
(* What every step leaves true. *)

\* Rows stay taken, entries of the ledger stay and move on, and what has been
\* removed does not come back to a row that is taken.
Continues ==
  /\ \A p \in Profiles : profiles[p].sub # "NONE" => profiles'[p].sub # "NONE"
  /\ \A d \in Deletions : deletions[d].status # "NONE" =>
       /\ deletions'[d].profile = deletions[d].profile
       /\ deletions'[d].subject = deletions[d].subject
       /\ deletions'[d].status # "NONE"
       /\ deletions[d].status \in Begun => deletions'[d].status \in Begun
       /\ deletions[d].status \in Past => deletions'[d].status \in Past
  /\ \A p \in Profiles : profiles[p].sub # "NONE" =>
       /\ p \notin personal => p \notin personal'
       /\ p \notin files => p \notin files'

LEMMA TakenStays == ASSUME Continues, NEW p, Taken(p) PROVE Taken(p)'
BY DEF Continues, Taken

LEMMA EntriesStay ==
  ASSUME Inv, Continues,
         \A d \in Deletions : deletions[d].status = "NONE" /\ deletions'[d].status # "NONE" =>
           Taken(deletions'[d].profile) /\ deletions'[d].subject \in Subjects
  PROVE  DeletionsOK'
<1> SUFFICES ASSUME NEW d \in Deletions, deletions'[d].status # "NONE"
             PROVE  Taken(deletions[d].profile)' /\ deletions'[d].subject \in Subjects
  BY DEF DeletionsOK
<1>1. CASE deletions[d].status = "NONE"
  BY <1>1, TakenStays DEF Taken
<1>2. CASE deletions[d].status # "NONE"
  <2>1. Taken(deletions[d].profile) /\ deletions[d].subject \in Subjects
    BY <1>2 DEF Inv, DeletionsOK
  <2>2. deletions'[d].profile = deletions[d].profile /\ deletions'[d].subject = deletions[d].subject
    BY <1>2 DEF Continues
  <2>3. QED
    BY <2>1, <2>2 DEF Taken, Continues
<1>3. QED
  BY <1>1, <1>2

LEMMA PastStay ==
  ASSUME Inv, Continues,
         \A d \in Deletions : deletions'[d].status \in Past => deletions[d].status \in Past
  PROVE  ErasedOK'
<1> SUFFICES ASSUME NEW d \in Deletions, deletions'[d].status \in Past
             PROVE  deletions'[d].profile \notin personal'
  BY DEF ErasedOK
<1>1. deletions[d].status \in Past /\ deletions[d].status # "NONE"
  BY DEF Past
<1>2. Taken(deletions[d].profile) /\ deletions[d].profile \notin personal
  BY <1>1 DEF Inv, DeletionsOK, ErasedOK
<1>3. QED
  BY <1>1, <1>2 DEF Continues, Taken

\* A request in the form x, as HandlersOK wants it.
HandlerOK(x) ==
  /\ x.pc # "idle" => x.sub \in Subjects
  /\ x.pc \in {"decide", "found"} => Taken(x.profile)
  /\ x.pc = "found" /\ x.op = "cancel" =>
       x.deletion \in Deletions /\ deletions[x.deletion].status # "NONE"

\* The same of the state after the step.
HandlerOKNext(x) ==
  /\ x.pc # "idle" => x.sub \in Subjects
  /\ x.pc \in {"decide", "found"} => x.profile \in Profiles /\ profiles'[x.profile].sub # "NONE"
  /\ x.pc = "found" /\ x.op = "cancel" =>
       x.deletion \in Deletions /\ deletions'[x.deletion].status # "NONE"

LEMMA HandlersNext ==
  ASSUME \A h \in Handlers : HandlerOKNext(handlers'[h]) PROVE HandlersOK'
BY DEF HandlersOK, HandlerOKNext, Taken

LEMMA HandlerStays == ASSUME Continues, NEW x, HandlerOK(x) PROVE HandlerOKNext(x)
BY DEF Continues, HandlerOK, HandlerOKNext, Taken

LEMMA RequestsStay ==
  ASSUME Inv, Continues, UNCHANGED handlers PROVE HandlersOK'
<1>1. \A h \in Handlers : HandlerOK(handlers[h])
  BY DEF Inv, HandlersOK, HandlerOK
<1>2. QED
  BY <1>1, HandlerStays, HandlersNext

\* One request takes the form x.
LEMMA RequestsGo ==
  ASSUME Inv, Continues, NEW h \in Handlers, NEW x \in Handler, Become(h, x), HandlerOK(x)
  PROVE  HandlersOK' /\ handlers' \in [Handlers -> Handler]
<1>1. handlers \in [Handlers -> Handler]
  BY DEF Inv, TypeOK
<1>2. handlers' \in [Handlers -> Handler]
  BY <1>1 DEF Become
<1>3. \A g \in Handlers : handlers'[g] = IF g = h THEN x ELSE handlers[g]
  BY <1>1 DEF Become
<1>4. \A g \in Handlers : HandlerOK(handlers'[g])
  BY <1>3 DEF Inv, HandlersOK, HandlerOK
<1>5. HandlersOK'
  BY <1>4, HandlerStays, HandlersNext
<1>6. QED
  BY <1>2, <1>5

LEMMA IdleType == ASSUME AccountAssumption PROVE Idle \in Handler /\ HandlerOK(Idle)
BY DEF Idle, Handler, AllCommands, AccountStatus, HandlerOK

LEMMA RequestEnds ==
  ASSUME AccountAssumption, Inv, Continues, NEW h \in Handlers, Become(h, Idle)
  PROVE  HandlersOK' /\ handlers' \in [Handlers -> Handler]
BY IdleType, RequestsGo

LEMMA RequestAdvances ==
  ASSUME Inv, Continues, NEW h \in Handlers,
         NEW pc \in {"ensure", "select", "decide", "found", "invalidate"}, Advance(h, pc),
         HandlerOK([handlers[h] EXCEPT !.pc = pc])
  PROVE  HandlersOK' /\ handlers' \in [Handlers -> Handler]
<1> DEFINE x == [handlers[h] EXCEPT !.pc = pc]
<1>1. handlers[h] \in Handler
  BY DEF Inv, TypeOK
<1>2. x \in Handler
  BY <1>1 DEF Handler
<1>3. Become(h, x)
  BY DEF Advance, Become
<1>4. QED
  BY <1>2, <1>3, RequestsGo

LEMMA WorkersStay ==
  ASSUME Inv, Continues, UNCHANGED workers PROVE WorkersOK' /\ IdleOK'
<1>1. ASSUME NEW w \in Workers, workers[w].pc # "idle"
      PROVE  LET d == workers[w].deletion
                 p == deletions'[d].profile
             IN /\ d \in Deletions
                /\ deletions'[d].status \in Begun
                /\ workers[w].pc # "anonymize" => deletions'[d].status \in Past
                /\ workers[w].pc \in {"identity", "finalize", "completed"} => p \notin files'
  <2> DEFINE d == workers[w].deletion
  <2>1. d \in Deletions /\ deletions[d].status \in Begun
    BY <1>1 DEF Inv, WorkersOK
  <2>2. deletions[d].status # "NONE"
    BY <2>1 DEF Begun
  <2>3. Taken(deletions[d].profile)
    BY <2>1, <2>2 DEF Inv, DeletionsOK
  <2>4. QED
    BY <1>1, <2>1, <2>2, <2>3 DEF Inv, WorkersOK, Continues, Taken
<1>2. WorkersOK'
  BY <1>1 DEF WorkersOK
<1>3. QED
  BY <1>2 DEF Inv, IdleOK

LEMMA IdentitiesStay ==
  ASSUME Inv, Continues, identities \subseteq identities' PROVE IdentityGoesLast'
<1> SUFFICES ASSUME NEW s \in Subjects \ identities
             PROVE  \E d \in Deletions : /\ deletions'[d].subject = s /\ deletions'[d].status \in Past
                                         /\ deletions'[d].profile \notin personal' \cup files'
  BY DEF IdentityGoesLast, Erasure, Past
<1>1. PICK d \in Deletions : /\ deletions[d].subject = s /\ deletions[d].status \in Past
                             /\ deletions[d].profile \notin personal \cup files
  BY DEF Inv, IdentityGoesLast, Erasure, Past
<1>2. deletions[d].status # "NONE"
  BY <1>1 DEF Past
<1>3. Taken(deletions[d].profile)
  BY <1>2 DEF Inv, DeletionsOK
<1>4. QED
  BY <1>1, <1>2, <1>3 DEF Continues, Taken

\* Unless this step takes personal data away, whoever has none now had none before.
LEMMA ErasedStay ==
  ASSUME Inv, Continues,
         \A p \in Profiles : profiles'[p].sub # "NONE" /\ p \notin personal' =>
           profiles[p].sub # "NONE" /\ p \notin personal
  PROVE  OnlyDeletedAreErased'
<1> SUFFICES ASSUME NEW p \in Profiles, profiles'[p].sub # "NONE", p \notin personal'
             PROVE  \E d \in Deletions : deletions'[d].profile = p /\ deletions'[d].status \in Past
  BY DEF OnlyDeletedAreErased, Past
<1>1. PICK d \in Deletions : deletions[d].profile = p /\ deletions[d].status \in Past
  BY DEF Inv, OnlyDeletedAreErased, Past
<1>2. deletions[d].status # "NONE"
  BY <1>1 DEF Past
<1>3. QED
  BY <1>1, <1>2 DEF Continues

LEMMA UncacheType ==
  ASSUME Inv, NEW s, Uncache(s) PROVE cached' \in [Subjects -> GuardStatus \cup {"NONE"}]
BY DEF Uncache, Inv, TypeOK

-----------------------------------------------------------------------------
(* Requests. *)

\* What a step of a request that writes no row leaves alone.
LEMMA StutterContinues ==
  ASSUME Inv, UNCHANGED <<profiles, personal, files, deletions>> PROVE Continues
BY DEF Continues

LEMMA RequestOnly ==
  ASSUME Inv, UNCHANGED <<profiles, personal, files, deletions, identities, workers, guards>>,
         HandlersOK', handlers' \in [Handlers -> Handler],
         cached' \in [Subjects -> GuardStatus \cup {"NONE"}]
  PROVE  Inv'
<1>1. Continues
  BY StutterContinues
<1>2. TypeOK'
  BY DEF Inv, TypeOK
<1>3. DeletionsOK' /\ ErasedOK'
  BY <1>1, EntriesStay, PastStay
<1>4. WorkersOK' /\ IdleOK'
  BY <1>1, WorkersStay
<1>5. IdentityGoesLast'
  BY <1>1, IdentitiesStay
<1>6. OnlyDeletedAreErased'
  BY <1>1, ErasedStay
<1>7. QED
  BY <1>2, <1>3, <1>4, <1>5, <1>6 DEF Inv

LEMMA RequestType ==
  ASSUME Inv, NEW h \in Handlers
  PROVE  handlers[h] \in Handler /\ HandlerOK(handlers[h])
BY DEF Inv, TypeOK, HandlersOK, HandlerOK

LEMMA ReceiveInv ==
  ASSUME AccountAssumption, Inv, NEW h \in Handlers, NEW s \in Subjects, NEW op \in AllCommands,
         Receive(h, s, op)
  PROVE  Inv'
<1> DEFINE x == [Idle EXCEPT !.pc = "ensure", !.op = op, !.sub = s]
<1>1. x \in Handler /\ HandlerOK(x)
  BY DEF Idle, Handler, AccountStatus, HandlerOK
<1>2. Continues
  BY StutterContinues DEF Receive
<1>3. HandlersOK' /\ handlers' \in [Handlers -> Handler]
  BY <1>1, <1>2, RequestsGo DEF Receive
<1>4. QED
  BY <1>3, RequestOnly DEF Receive, Inv, TypeOK

LEMMA InsertProfileInv ==
  ASSUME AccountAssumption, Inv, NEW h \in Handlers, InsertProfile(h) PROVE Inv'
<1> DEFINE x == handlers[h]
           s == x.sub
<1>1. x \in Handler /\ HandlerOK(x) /\ x.pc = "ensure" /\ s \in Subjects
  BY RequestType DEF InsertProfile, HandlerOK
<1>2. HandlerOK([x EXCEPT !.pc = "select"])
  BY <1>1 DEF HandlerOK, Handler
<1>3. UNCHANGED <<deletions, identities, cached, workers, guards>> /\ Advance(h, "select")
  BY DEF InsertProfile
<1>4. CASE UNCHANGED <<profiles, personal, files>>
  <2>1. Continues
    BY <1>3, <1>4, StutterContinues
  <2>2. HandlersOK' /\ handlers' \in [Handlers -> Handler]
    BY <1>2, <1>3, <2>1, RequestAdvances
  <2>3. QED
    BY <1>3, <1>4, <2>2, RequestOnly DEF Inv, TypeOK
<1>5. CASE \E p \in RowsOf("NONE") :
             /\ profiles' = [profiles EXCEPT ![p] = [sub |-> s, status |-> "ACTIVE"]]
             /\ personal' = personal \cup {p}
             /\ files' = files \cup {p}
  <2>1. PICK p \in Profiles : /\ profiles[p].sub = "NONE"
                              /\ profiles' = [profiles EXCEPT ![p] = [sub |-> s, status |-> "ACTIVE"]]
                              /\ personal' = personal \cup {p}
                              /\ files' = files \cup {p}
    BY <1>5 DEF RowsOf
  <2>2. profiles \in [Profiles -> Profile]
    BY DEF Inv, TypeOK
  <2>3. [sub |-> s, status |-> "ACTIVE"] \in Profile
    BY <1>1 DEF Profile, AccountStatus
  <2>4. \A q \in Profiles : profiles'[q] = IF q = p THEN [sub |-> s, status |-> "ACTIVE"] ELSE profiles[q]
    BY <2>1, <2>2
  <2>5. s # "NONE"
    BY <1>1 DEF AccountAssumption
  <2>6. Continues
    BY <1>3, <2>1, <2>4, <2>5 DEF Continues
  <2>7. HandlersOK' /\ handlers' \in [Handlers -> Handler]
    BY <1>2, <1>3, <2>6, RequestAdvances
  <2>8. TypeOK'
    <3>1. profiles' \in [Profiles -> Profile]
      BY <2>1, <2>2, <2>3
    <3>2. QED
      BY <1>3, <2>1, <2>7, <3>1 DEF Inv, TypeOK
  <2>9. DeletionsOK' /\ ErasedOK'
    BY <1>3, <2>6, EntriesStay, PastStay
  <2>10. WorkersOK' /\ IdleOK'
    BY <1>3, <2>6, WorkersStay
  <2>11. IdentityGoesLast'
    BY <1>3, <2>6, IdentitiesStay
  <2>12. OnlyDeletedAreErased'
    <3>1. \A q \in Profiles : profiles'[q].sub # "NONE" /\ q \notin personal' =>
            profiles[q].sub # "NONE" /\ q \notin personal
      BY <2>1, <2>4
    <3>2. QED
      BY <2>6, <3>1, ErasedStay
  <2>13. QED
    BY <2>7, <2>8, <2>9, <2>10, <2>11, <2>12 DEF Inv
<1>6. QED
  BY <1>4, <1>5 DEF InsertProfile

LEMMA SelectProfileInv ==
  ASSUME AccountAssumption, Inv, NEW h \in Handlers, SelectProfile(h) PROVE Inv'
<1> DEFINE x == handlers[h]
<1>1. x \in Handler /\ HandlerOK(x) /\ x.pc = "select" /\ x.sub \in Subjects
  BY RequestType DEF SelectProfile, HandlerOK
<1>2. Continues
  BY StutterContinues DEF SelectProfile
<1>3. CASE Become(h, Idle)
  BY <1>2, <1>3, RequestEnds, RequestOnly DEF SelectProfile, Inv, TypeOK
<1>4. CASE \E p \in RowsOf(x.sub) :
             Become(h, [x EXCEPT !.pc = "decide", !.profile = p, !.seen = profiles[p].status])
  <2>1. PICK p \in RowsOf(x.sub) :
          Become(h, [x EXCEPT !.pc = "decide", !.profile = p, !.seen = profiles[p].status])
    BY <1>4
  <2> DEFINE y == [x EXCEPT !.pc = "decide", !.profile = p, !.seen = profiles[p].status]
  <2>2. p \in Profiles /\ profiles[p].sub = x.sub /\ profiles[p].status \in AccountStatus
    BY DEF RowsOf, Inv, TypeOK, Profile
  <2>3. Taken(p)
    BY <1>1, <2>2 DEF Taken, AccountAssumption
  <2>4. y \in Handler
    BY <1>1, <2>2 DEF Handler
  <2>5. y.pc = "decide" /\ y.profile = p /\ y.sub = x.sub
    BY <1>1 DEF Handler
  <2> HIDE DEF y
  <2>6. HandlerOK(y)
    BY <1>1, <2>3, <2>5 DEF HandlerOK
  <2>7. QED
    BY <1>2, <2>1, <2>4, <2>6, RequestsGo, RequestOnly DEF SelectProfile, Inv, TypeOK, y
<1>5. QED
  BY <1>3, <1>4 DEF SelectProfile

LEMMA FindDeletionInv ==
  ASSUME AccountAssumption, Inv, NEW h \in Handlers, FindDeletion(h) PROVE Inv'
<1> DEFINE x == handlers[h]
<1>1. x \in Handler /\ HandlerOK(x) /\ x.pc = "decide"
  BY RequestType DEF FindDeletion
<1>2. Continues
  BY StutterContinues DEF FindDeletion
<1>3. CASE Become(h, Idle)
  BY <1>2, <1>3, RequestEnds, RequestOnly DEF FindDeletion, Inv, TypeOK
<1>4. CASE x.op = "delete" /\ Advance(h, "found")
  <2>1. HandlerOK([x EXCEPT !.pc = "found"])
    BY <1>1, <1>4 DEF HandlerOK, Handler
  <2>2. HandlersOK' /\ handlers' \in [Handlers -> Handler]
    BY <1>2, <1>4, <2>1, RequestAdvances
  <2>3. QED
    BY <2>2, RequestOnly DEF FindDeletion, Inv, TypeOK
<1>5. CASE \E d \in Deletions : /\ deletions[d].status = "REQUESTED"
                                /\ Become(h, [x EXCEPT !.pc = "found", !.deletion = d])
  <2>1. PICK d \in Deletions : /\ deletions[d].status = "REQUESTED"
                               /\ Become(h, [x EXCEPT !.pc = "found", !.deletion = d])
    BY <1>5
  <2> DEFINE y == [x EXCEPT !.pc = "found", !.deletion = d]
  <2>2. y \in Handler /\ y.pc = "found" /\ y.deletion = d /\ y.sub = x.sub /\ y.profile = x.profile
    BY <1>1 DEF Handler
  <2> HIDE DEF y
  <2>3. HandlerOK(y)
    BY <1>1, <2>1, <2>2 DEF HandlerOK
  <2>4. QED
    BY <1>2, <2>1, <2>2, <2>3, RequestsGo, RequestOnly DEF FindDeletion, Inv, TypeOK, y
<1>6. QED
  BY <1>3, <1>4, <1>5 DEF FindDeletion, OpenFor

\* A request writes the status of its profile, and perhaps an entry of the ledger.
LEMMA StatusWritten ==
  ASSUME AccountAssumption, Inv, NEW h \in Handlers, handlers[h].pc \in {"decide", "found"},
         NEW status \in AccountStatus,
         profiles' = [profiles EXCEPT ![handlers[h].profile].status = status],
         deletions' \in [Deletions -> Deletion],
         \A d \in Deletions :
           \/ deletions'[d] = deletions[d]
           \/ /\ deletions[d].status = "NONE" /\ deletions'[d].status = "REQUESTED"
              /\ deletions'[d].profile = handlers[h].profile /\ deletions'[d].subject \in Subjects
           \/ /\ deletions[d].status = "REQUESTED" /\ deletions'[d].status = "CANCELLED"
              /\ deletions'[d].profile = deletions[d].profile
              /\ deletions'[d].subject = deletions[d].subject,
         Advance(h, "invalidate"),
         UNCHANGED <<personal, files, identities, cached, workers, guards>>
  PROVE  Inv'
<1> DEFINE p == handlers[h].profile
<1>1. /\ handlers[h] \in Handler /\ HandlerOK(handlers[h]) /\ Taken(p)
  BY RequestType DEF HandlerOK
<1>2. profiles \in [Profiles -> Profile] /\ profiles[p] \in Profile
  BY <1>1 DEF Inv, TypeOK, Taken
<1>3. [profiles[p] EXCEPT !.status = status] \in Profile
  BY <1>2 DEF Profile
<1>4. profiles' \in [Profiles -> Profile]
  BY <1>2, <1>3
<1>5. \A q \in Profiles : profiles'[q].sub = profiles[q].sub
  BY <1>2 DEF Profile
<1>6. Continues
  BY <1>5 DEF Continues, Begun, Past
<1>7. HandlersOK' /\ handlers' \in [Handlers -> Handler]
  <2>1. HandlerOK([handlers[h] EXCEPT !.pc = "invalidate"])
    BY <1>1 DEF HandlerOK, Handler
  <2>2. QED
    BY <1>6, <2>1, RequestAdvances
<1>8. TypeOK'
  BY <1>4, <1>7 DEF Inv, TypeOK
<1>9. DeletionsOK' /\ ErasedOK'
  <2>1. \A d \in Deletions : deletions'[d].status \in Past => deletions[d].status \in Past
    BY DEF Past
  <2>2. QED
    BY <1>1, <1>6, <2>1, EntriesStay, PastStay DEF HandlerOK
<1>10. WorkersOK' /\ IdleOK'
  BY <1>6, WorkersStay
<1>11. IdentityGoesLast'
  BY <1>6, IdentitiesStay
<1>12. OnlyDeletedAreErased'
  BY <1>5, <1>6, ErasedStay
<1>13. QED
  BY <1>7, <1>8, <1>9, <1>10, <1>11, <1>12 DEF Inv

LEMMA SetStatusInv ==
  ASSUME AccountAssumption, Inv, NEW h \in Handlers, SetStatus(h) PROVE Inv'
<1> DEFINE status == IF handlers[h].op = "deactivate" THEN "DEACTIVATED" ELSE "ACTIVE"
<1>1. status \in AccountStatus /\ deletions \in [Deletions -> Deletion]
  BY DEF AccountStatus, Inv, TypeOK
<1>2. QED
  BY <1>1, StatusWritten DEF SetStatus

LEMMA RequestDeletionInv ==
  ASSUME AccountAssumption, Inv, NEW h \in Handlers, RequestDeletion(h) PROVE Inv'
<1> DEFINE x == handlers[h]
           new == [profile |-> x.profile, user |-> x.sub, subject |-> x.sub,
                   status |-> "REQUESTED", due |-> FALSE]
<1>1. x \in Handler /\ HandlerOK(x) /\ x.pc = "found" /\ x.sub \in Subjects /\ Taken(x.profile)
  BY RequestType DEF RequestDeletion, HandlerOK
<1>2. CASE UNCHANGED <<profiles, deletions>>
  <2>1. Continues
    BY <1>2, StutterContinues DEF RequestDeletion
  <2>2. HandlerOK([x EXCEPT !.pc = "invalidate"])
    BY <1>1 DEF HandlerOK, Handler
  <2>3. HandlersOK' /\ handlers' \in [Handlers -> Handler]
    BY <2>1, <2>2, RequestAdvances DEF RequestDeletion
  <2>4. QED
    BY <1>2, <2>3, RequestOnly DEF RequestDeletion, Inv, TypeOK
<1>3. /\ Advance(h, "invalidate")
      /\ UNCHANGED <<personal, files, identities, cached, workers, guards>>
  BY DEF RequestDeletion
<1>4. CASE \E d \in Deletions : /\ deletions[d].status = "NONE"
                                /\ deletions' = [deletions EXCEPT ![d] = new]
                                /\ profiles' = [profiles EXCEPT ![x.profile].status = "PENDING_DELETION"]
  <2>1. PICK d \in Deletions : /\ deletions[d].status = "NONE"
                               /\ deletions' = [deletions EXCEPT ![d] = new]
    BY <1>4
  <2>2. /\ new \in Deletion
        /\ new.status = "REQUESTED" /\ new.profile = x.profile /\ new.subject = x.sub
    BY <1>1 DEF Deletion, DeletionStatus, Taken
  <2>3. deletions \in [Deletions -> Deletion]
    BY DEF Inv, TypeOK
  <2> HIDE DEF new
  <2>4. /\ deletions' \in [Deletions -> Deletion]
        /\ \A e \in Deletions : deletions'[e] = IF e = d THEN new ELSE deletions[e]
    BY <2>1, <2>2, <2>3
  <2>5. \A e \in Deletions :
          \/ deletions'[e] = deletions[e]
          \/ /\ deletions[e].status = "NONE" /\ deletions'[e].status = "REQUESTED"
             /\ deletions'[e].profile = x.profile /\ deletions'[e].subject \in Subjects
    BY <1>1, <2>1, <2>2, <2>4
  <2>6. "PENDING_DELETION" \in AccountStatus
    BY DEF AccountStatus
  <2>7. profiles' = [profiles EXCEPT ![x.profile].status = "PENDING_DELETION"]
    BY <1>4
  <2>8. x.pc \in {"decide", "found"}
    BY <1>1
  <2>9. QED
    BY <1>3, <2>4, <2>5, <2>6, <2>7, <2>8, StatusWritten
<1>5. QED
  <2> HIDE DEF new
  <2>1. \/ UNCHANGED <<profiles, deletions>>
        \/ /\ profiles' = [profiles EXCEPT ![x.profile].status = "PENDING_DELETION"]
           /\ \E d \in Deletions : /\ deletions[d].status = "NONE"
                                   /\ deletions' = [deletions EXCEPT ![d] = new]
    BY DEF RequestDeletion, new
  <2>2. QED
    BY <1>2, <1>4, <2>1

LEMMA CancelDeletionInv ==
  ASSUME AccountAssumption, Inv, NEW h \in Handlers, CancelDeletion(h) PROVE Inv'
<1> DEFINE x == handlers[h]
           d == x.deletion
           new == [deletions[d] EXCEPT !.status = IF @ = "REQUESTED" THEN "CANCELLED" ELSE @]
<1>1. x \in Handler /\ HandlerOK(x) /\ x.pc = "found" /\ d \in Deletions
  BY RequestType DEF CancelDeletion, HandlerOK
<1>2. deletions \in [Deletions -> Deletion] /\ deletions[d] \in Deletion
  BY <1>1 DEF Inv, TypeOK
<1>3. /\ new \in Deletion
      /\ new.profile = deletions[d].profile /\ new.subject = deletions[d].subject
      /\ deletions[d].status = "REQUESTED" => new.status = "CANCELLED"
      /\ deletions[d].status # "REQUESTED" => new = deletions[d]
  BY <1>2 DEF Deletion, DeletionStatus
<1>4. deletions' = [deletions EXCEPT ![d] = new]
  BY DEF CancelDeletion
<1> HIDE DEF new
<1>5. /\ deletions' \in [Deletions -> Deletion]
      /\ \A e \in Deletions : deletions'[e] = IF e = d THEN new ELSE deletions[e]
  BY <1>2, <1>3, <1>4
<1>6. "ACTIVE" \in AccountStatus
  BY DEF AccountStatus
<1>7. \A e \in Deletions :
        \/ deletions'[e] = deletions[e]
        \/ /\ deletions[e].status = "REQUESTED" /\ deletions'[e].status = "CANCELLED"
           /\ deletions'[e].profile = deletions[e].profile
           /\ deletions'[e].subject = deletions[e].subject
  BY <1>3, <1>5
<1>8. QED
  BY <1>1, <1>5, <1>6, <1>7, StatusWritten DEF CancelDeletion

LEMMA RequestEndsInv ==
  ASSUME AccountAssumption, Inv, NEW h \in Handlers, InvalidateStatus(h) \/ Abandon(h) PROVE Inv'
<1>1. Continues /\ Become(h, Idle)
  BY StutterContinues DEF InvalidateStatus, Abandon
<1>2. HandlersOK' /\ handlers' \in [Handlers -> Handler]
  BY <1>1, RequestEnds
<1>3. cached' \in [Subjects -> GuardStatus \cup {"NONE"}]
  BY UncacheType DEF InvalidateStatus, Abandon, Inv, TypeOK
<1>4. QED
  BY <1>2, <1>3, RequestOnly DEF InvalidateStatus, Abandon

-----------------------------------------------------------------------------
(* The worker, the guard and time. *)

\* The attempt of w becomes a, and what WorkersOK says of a holds after the step.
LEMMA AttemptGoes ==
  ASSUME Inv, Continues, NEW w \in Workers, NEW a \in Worker,
         workers' = [workers EXCEPT ![w] = a],
         a.pc = "idle" => a.deletion = None,
         a.pc # "idle" =>
           /\ a.deletion \in Deletions
           /\ deletions'[a.deletion].status \in Begun
           /\ a.pc # "anonymize" => deletions'[a.deletion].status \in Past
           /\ a.pc \in {"identity", "finalize", "completed"} =>
                deletions'[a.deletion].profile \notin files'
  PROVE  workers' \in [Workers -> Worker] /\ WorkersOK' /\ IdleOK'
<1>1. workers \in [Workers -> Worker]
  BY DEF Inv, TypeOK
<1>2. /\ workers' \in [Workers -> Worker]
      /\ \A v \in Workers : workers'[v] = IF v = w THEN a ELSE workers[v]
  BY <1>1
<1>3. ASSUME NEW v \in Workers, workers[v].pc # "idle"
      PROVE  /\ workers[v].deletion \in Deletions
             /\ deletions'[workers[v].deletion].status \in Begun
             /\ workers[v].pc # "anonymize" => deletions'[workers[v].deletion].status \in Past
             /\ workers[v].pc \in {"identity", "finalize", "completed"} =>
                  deletions'[workers[v].deletion].profile \notin files'
  <2> DEFINE d == workers[v].deletion
  <2>1. /\ d \in Deletions /\ deletions[d].status \in Begun
        /\ workers[v].pc # "anonymize" => deletions[d].status \in Past
        /\ workers[v].pc \in {"identity", "finalize", "completed"} => deletions[d].profile \notin files
    BY <1>3 DEF Inv, WorkersOK
  <2>2. deletions[d].status # "NONE"
    BY <2>1 DEF Begun
  <2>3. Taken(deletions[d].profile)
    BY <2>1, <2>2 DEF Inv, DeletionsOK
  <2>4. QED
    BY <2>1, <2>2, <2>3 DEF Continues, Taken
<1>4. WorkersOK'
  BY <1>2, <1>3 DEF WorkersOK
<1>5. IdleOK'
  BY <1>2 DEF Inv, IdleOK
<1>6. QED
  BY <1>2, <1>4, <1>5

\* The attempt under way of w, and the deletion it is for.
LEMMA AttemptFacts ==
  ASSUME Inv, NEW w \in Workers, workers[w].pc # "idle"
  PROVE  LET d == workers[w].deletion
             p == deletions[d].profile
         IN /\ workers[w] \in Worker
            /\ d \in Deletions /\ deletions[d] \in Deletion
            /\ deletions[d].status \in Begun /\ deletions[d].status # "NONE"
            /\ Taken(p) /\ deletions[d].subject \in Subjects
            /\ workers[w].pc # "anonymize" => deletions[d].status \in Past /\ p \notin personal
            /\ workers[w].pc \in {"identity", "finalize", "completed"} => p \notin files
<1> DEFINE d == workers[w].deletion
<1>1. /\ workers[w] \in Worker /\ d \in Deletions /\ deletions[d].status \in Begun
      /\ workers[w].pc # "anonymize" => deletions[d].status \in Past
      /\ workers[w].pc \in {"identity", "finalize", "completed"} => deletions[d].profile \notin files
  BY DEF Inv, TypeOK, WorkersOK
<1>2. deletions[d] \in Deletion /\ deletions[d].status # "NONE"
  BY <1>1 DEF Inv, TypeOK, Begun
<1>3. QED
  BY <1>1, <1>2 DEF Inv, DeletionsOK, ErasedOK

\* One entry of the ledger is written, and neither data nor identities change.
LEMMA EntryWritten ==
  ASSUME Inv, NEW d \in Deletions, NEW e \in Deletion, deletions' = [deletions EXCEPT ![d] = e],
         deletions[d].status # "NONE",
         e.profile = deletions[d].profile, e.subject = deletions[d].subject,
         e.status = deletions[d].status
           \/ (deletions[d].status = "REQUESTED" /\ e.status = "ANONYMIZING"),
         UNCHANGED <<profiles, personal, files, identities, cached, handlers, guards>>
  PROVE  /\ Continues
         /\ deletions' \in [Deletions -> Deletion] /\ deletions'[d] = e
         /\ HandlersOK' /\ DeletionsOK' /\ ErasedOK' /\ IdentityGoesLast' /\ OnlyDeletedAreErased'
<1>1. /\ deletions' \in [Deletions -> Deletion]
      /\ \A c \in Deletions : deletions'[c] = IF c = d THEN e ELSE deletions[c]
  BY DEF Inv, TypeOK
<1>2. Continues
  BY <1>1 DEF Continues, Begun, Past
<1>3. \A c \in Deletions : deletions'[c].status \in Past => deletions[c].status \in Past
  BY <1>1 DEF Past
<1>4. DeletionsOK' /\ ErasedOK'
  BY <1>1, <1>2, <1>3, EntriesStay, PastStay
<1>5. HandlersOK' /\ IdentityGoesLast' /\ OnlyDeletedAreErased'
  BY <1>2, RequestsStay, IdentitiesStay, ErasedStay
<1>6. QED
  BY <1>1, <1>2, <1>4, <1>5

LEMMA BecomeDueInv == ASSUME Inv, NEW d \in Deletions, BecomeDue(d) PROVE Inv'
<1> DEFINE e == [deletions[d] EXCEPT !.due = TRUE]
<1>1. deletions[d] \in Deletion /\ deletions[d].status # "NONE"
  BY DEF Inv, TypeOK, BecomeDue, Open
<1>2. /\ e \in Deletion /\ e.profile = deletions[d].profile /\ e.subject = deletions[d].subject
      /\ e.status = deletions[d].status
  BY <1>1 DEF Deletion
<1>3. deletions' = [deletions EXCEPT ![d] = e]
  BY DEF BecomeDue
<1> HIDE DEF e
<1>4. /\ Continues /\ deletions' \in [Deletions -> Deletion]
      /\ HandlersOK' /\ DeletionsOK' /\ ErasedOK' /\ IdentityGoesLast' /\ OnlyDeletedAreErased'
  BY <1>1, <1>2, <1>3, EntryWritten DEF BecomeDue
<1>5. WorkersOK' /\ IdleOK'
  BY <1>4, WorkersStay DEF BecomeDue
<1>6. QED
  BY <1>4, <1>5 DEF BecomeDue, Inv, TypeOK

LEMMA ClaimInv ==
  ASSUME AccountAssumption, Inv, NEW w \in Workers, NEW d \in Deletions, Claim(w, d) PROVE Inv'
<1> DEFINE e == [deletions[d] EXCEPT !.status = IF @ = "REQUESTED" THEN "ANONYMIZING" ELSE @,
                                     !.due = FALSE]
           a == [pc |-> IF deletions[d].status = "ANONYMIZED" THEN "objects" ELSE "anonymize",
                 deletion |-> d]
<1>1. deletions[d] \in Deletion /\ deletions[d].status \in {"REQUESTED", "ANONYMIZING", "ANONYMIZED"}
  BY DEF Inv, TypeOK, Claim, Open
<1>2. /\ e \in Deletion /\ e.profile = deletions[d].profile /\ e.subject = deletions[d].subject
      /\ e.status = IF deletions[d].status = "REQUESTED" THEN "ANONYMIZING" ELSE deletions[d].status
  BY <1>1 DEF Deletion, DeletionStatus
<1>3. deletions' = [deletions EXCEPT ![d] = e]
  BY DEF Claim
<1> HIDE DEF e
<1>4. /\ Continues /\ deletions' \in [Deletions -> Deletion] /\ deletions'[d] = e
      /\ HandlersOK' /\ DeletionsOK' /\ ErasedOK' /\ IdentityGoesLast' /\ OnlyDeletedAreErased'
  <2>1. /\ deletions[d].status # "NONE"
        /\ \/ e.status = deletions[d].status
           \/ deletions[d].status = "REQUESTED" /\ e.status = "ANONYMIZING"
    BY <1>1, <1>2
  <2>2. UNCHANGED <<profiles, personal, files, identities, cached, handlers, guards>>
    BY DEF Claim
  <2>3. QED
    BY <1>2, <1>3, <2>1, <2>2, EntryWritten
<1>5. workers' \in [Workers -> Worker] /\ WorkersOK' /\ IdleOK'
  <2>1. CASE UNCHANGED workers
    BY <1>4, <2>1, WorkersStay DEF Inv, TypeOK
  <2>2. CASE workers' = [workers EXCEPT ![w] = a]
    <3>1. a \in Worker /\ a.pc \in {"objects", "anonymize"} /\ a.deletion = d
      BY DEF Worker
    <3>2. e.status \in Begun /\ (a.pc = "objects" => e.status \in Past)
      BY <1>1, <1>2 DEF Begun, Past
    <3> HIDE DEF a
    <3>3. QED
      BY <1>4, <2>2, <3>1, <3>2, AttemptGoes
  <2>3. QED
    BY <2>1, <2>2 DEF Claim
<1>6. QED
  BY <1>4, <1>5 DEF Claim, Inv, TypeOK

LEMMA AnonymizeInv ==
  ASSUME AccountAssumption, Inv, NEW w \in Workers, Anonymize(w) PROVE Inv'
<1> DEFINE d == workers[w].deletion
           p == deletions[d].profile
           e == [deletions[d] EXCEPT !.status = "ANONYMIZED"]
           a == [workers[w] EXCEPT !.pc = "anonymized"]
<1>1. /\ workers[w] \in Worker /\ workers[w].pc = "anonymize" /\ d \in Deletions
      /\ deletions[d] \in Deletion /\ deletions[d].status \in Begun /\ deletions[d].status # "NONE"
      /\ Taken(p) /\ deletions[d].subject \in Subjects
  BY AttemptFacts DEF Anonymize
<1>2. /\ profiles \in [Profiles -> Profile] /\ deletions \in [Deletions -> Deletion]
      /\ p \in Profiles /\ profiles[p] \in Profile
  BY <1>1 DEF Inv, TypeOK, Taken
<1>3. [profiles[p] EXCEPT !.status = "ANONYMIZED"] \in Profile
  BY <1>2 DEF Profile, AccountStatus
<1>4. /\ profiles' \in [Profiles -> Profile]
      /\ \A q \in Profiles : profiles'[q].sub = profiles[q].sub
  BY <1>2, <1>3 DEF Anonymize, Profile
<1>5. /\ e \in Deletion /\ e.profile = p /\ e.subject = deletions[d].subject /\ e.status = "ANONYMIZED"
  BY <1>1 DEF Deletion, DeletionStatus
<1>6. deletions' = [deletions EXCEPT ![d] = e] /\ personal' = personal \ {p}
  BY DEF Anonymize
<1>7. /\ deletions' \in [Deletions -> Deletion]
      /\ \A c \in Deletions : deletions'[c] = IF c = d THEN e ELSE deletions[c]
  BY <1>2, <1>5, <1>6
<1> HIDE DEF e
<1>8. UNCHANGED <<files, identities, cached, handlers, guards>>
  BY DEF Anonymize
<1>9. Continues
  BY <1>4, <1>5, <1>6, <1>7, <1>8 DEF Continues, Begun, Past
<1>10. DeletionsOK' /\ HandlersOK' /\ IdentityGoesLast'
  BY <1>1, <1>7, <1>8, <1>9, EntriesStay, RequestsStay, IdentitiesStay
<1>11. ErasedOK'
  BY <1>5, <1>6, <1>7 DEF Inv, ErasedOK
<1>12. OnlyDeletedAreErased'
  <2> SUFFICES ASSUME NEW q \in Profiles, profiles'[q].sub # "NONE", q \notin personal'
               PROVE  \E c \in Deletions : deletions'[c].profile = q /\ deletions'[c].status \in Past
    BY DEF OnlyDeletedAreErased, Past
  <2>1. CASE q = p
    BY <1>1, <1>5, <1>7, <2>1 DEF Past
  <2>2. CASE q # p
    <3>1. PICK c \in Deletions : deletions[c].profile = q /\ deletions[c].status \in Past
      BY <1>4, <1>6, <2>2 DEF Inv, OnlyDeletedAreErased, Past
    <3>2. QED
      BY <1>7, <2>2, <3>1
  <2>3. QED
    BY <2>1, <2>2
<1>13. workers' \in [Workers -> Worker] /\ WorkersOK' /\ IdleOK'
  <2>1. a \in Worker /\ a.pc = "anonymized" /\ a.deletion = d
    BY <1>1 DEF Worker
  <2>2. workers' = [workers EXCEPT ![w] = a]
    BY DEF Anonymize, GoOn
  <2>3. e.status \in Begun /\ e.status \in Past
    BY <1>5 DEF Begun, Past
  <2> HIDE DEF a
  <2>4. QED
    BY <1>1, <1>7, <1>9, <2>1, <2>2, <2>3, AttemptGoes
<1>14. TypeOK'
  BY <1>4, <1>6, <1>7, <1>8, <1>13 DEF Inv, TypeOK
<1>15. QED
  BY <1>10, <1>11, <1>12, <1>13, <1>14 DEF Inv


LEMMA AttemptAdvances ==
  ASSUME Inv, NEW w \in Workers, workers[w].pc # "idle",
         NEW pc \in {"objects", "identity", "finalize"}, workers[w].pc # "anonymize",
         GoOn(w, pc), Continues,
         deletions' = deletions,
         pc \in {"identity", "finalize"} => deletions[workers[w].deletion].profile \notin files'
  PROVE  workers' \in [Workers -> Worker] /\ WorkersOK' /\ IdleOK'
<1> DEFINE a == [workers[w] EXCEPT !.pc = pc]
           d == workers[w].deletion
<1>1. /\ workers[w] \in Worker /\ d \in Deletions
      /\ deletions[d].status \in Begun /\ deletions[d].status \in Past
  BY AttemptFacts
<1>2. a \in Worker /\ a.pc = pc /\ a.deletion = d
  BY <1>1 DEF Worker
<1>3. workers' = [workers EXCEPT ![w] = a]
  BY DEF GoOn
<1> HIDE DEF a
<1>4. QED
  BY <1>1, <1>2, <1>3, AttemptGoes

LEMMA AttemptEnds ==
  ASSUME AccountAssumption, Inv, Continues, NEW w \in Workers,
         workers' = [workers EXCEPT ![w] = NoAttempt]
  PROVE  workers' \in [Workers -> Worker] /\ WorkersOK' /\ IdleOK'
<1>1. NoAttempt \in Worker /\ NoAttempt.pc = "idle" /\ NoAttempt.deletion = None
  BY DEF NoAttempt, Worker
<1>2. QED
  BY <1>1, AttemptGoes

\* An attempt that writes no row.
LEMMA AttemptOnly ==
  ASSUME Inv, UNCHANGED <<profiles, personal, files, deletions, identities, handlers, guards>>,
         workers' \in [Workers -> Worker], WorkersOK', IdleOK',
         cached' \in [Subjects -> GuardStatus \cup {"NONE"}]
  PROVE  Inv'
<1>1. Continues
  BY StutterContinues
<1>2. TypeOK'
  BY DEF Inv, TypeOK
<1>3. DeletionsOK' /\ ErasedOK' /\ HandlersOK' /\ IdentityGoesLast' /\ OnlyDeletedAreErased'
  BY <1>1, EntriesStay, PastStay, RequestsStay, IdentitiesStay, ErasedStay
<1>4. QED
  BY <1>2, <1>3 DEF Inv

LEMMA AttemptFailsInv ==
  ASSUME AccountAssumption, Inv, NEW w \in Workers, AttemptFails(w) PROVE Inv'
<1>1. Continues
  BY StutterContinues DEF AttemptFails
<1>2. workers' \in [Workers -> Worker] /\ WorkersOK' /\ IdleOK'
  BY <1>1, AttemptEnds DEF AttemptFails
<1>3. QED
  BY <1>2, AttemptOnly DEF AttemptFails, Inv, TypeOK

LEMMA InvalidateErasedInv ==
  ASSUME AccountAssumption, Inv, NEW w \in Workers, InvalidateErased(w) PROVE Inv'
<1>1. Continues
  BY StutterContinues DEF InvalidateErased
<1>2. workers[w].pc \in {"anonymized", "completed"}
  BY DEF InvalidateErased
<1>3. CASE workers[w].pc = "anonymized"
  <2>1. workers' = [workers EXCEPT ![w] = [@ EXCEPT !.pc = "objects"]]
    BY <1>3 DEF InvalidateErased
  <2>2. GoOn(w, "objects")
    BY <2>1 DEF GoOn
  <2>3. workers' \in [Workers -> Worker] /\ WorkersOK' /\ IdleOK'
    BY <1>1, <1>3, <2>2, AttemptAdvances DEF InvalidateErased
  <2>4. QED
    BY <2>3, AttemptOnly, UncacheType DEF InvalidateErased
<1>4. CASE workers[w].pc = "completed"
  <2>1. workers' = [workers EXCEPT ![w] = NoAttempt]
    BY <1>4 DEF InvalidateErased
  <2>2. workers' \in [Workers -> Worker] /\ WorkersOK' /\ IdleOK'
    BY <1>1, <2>1, AttemptEnds
  <2>3. QED
    BY <2>2, AttemptOnly, UncacheType DEF InvalidateErased
<1>5. QED
  BY <1>2, <1>3, <1>4

LEMMA DeleteStorageObjectsInv ==
  ASSUME AccountAssumption, Inv, NEW w \in Workers, DeleteStorageObjects(w) PROVE Inv'
<1> DEFINE p == deletions[workers[w].deletion].profile
<1>1. /\ workers[w].pc = "objects" /\ files' = files \ {p} /\ GoOn(w, "identity")
      /\ UNCHANGED <<profiles, personal, deletions, identities, cached, handlers, guards>>
  BY DEF DeleteStorageObjects
<1>2. Continues
  BY <1>1 DEF Continues
<1>3. workers' \in [Workers -> Worker] /\ WorkersOK' /\ IdleOK'
  BY <1>1, <1>2, AttemptAdvances
<1>4. DeletionsOK' /\ ErasedOK' /\ HandlersOK' /\ IdentityGoesLast' /\ OnlyDeletedAreErased'
  BY <1>1, <1>2, EntriesStay, PastStay, RequestsStay, IdentitiesStay, ErasedStay
<1>5. TypeOK'
  BY <1>1, <1>3 DEF Inv, TypeOK
<1>6. QED
  BY <1>3, <1>4, <1>5 DEF Inv

LEMMA DeleteIdentityInv ==
  ASSUME AccountAssumption, Inv, NEW w \in Workers, DeleteIdentity(w) PROVE Inv'
<1> DEFINE d == workers[w].deletion
           s == deletions[d].subject
<1>1. /\ workers[w].pc = "identity" /\ identities' = identities \ {s} /\ GoOn(w, "finalize")
      /\ UNCHANGED <<profiles, personal, files, deletions, cached, handlers, guards>>
  BY DEF DeleteIdentity
<1>2. Continues
  BY <1>1, StutterContinues
<1>3. /\ d \in Deletions /\ deletions[d].status \in Past
      /\ deletions[d].profile \notin personal \cup files
  BY <1>1, AttemptFacts
<1>4. workers' \in [Workers -> Worker] /\ WorkersOK' /\ IdleOK'
  BY <1>1, <1>2, <1>3, AttemptAdvances
<1>5. DeletionsOK' /\ ErasedOK' /\ HandlersOK' /\ OnlyDeletedAreErased'
  BY <1>1, <1>2, EntriesStay, PastStay, RequestsStay, ErasedStay
<1>6. IdentityGoesLast'
  <2> SUFFICES ASSUME NEW q \in Subjects, q \notin identities \ {s}
               PROVE  \E e \in Deletions : /\ deletions[e].subject = q /\ deletions[e].status \in Past
                                           /\ deletions[e].profile \notin personal \cup files
    BY <1>1 DEF IdentityGoesLast, Erasure, Past
  <2>1. CASE q = s
    BY <1>3, <2>1
  <2>2. CASE q # s
    BY <2>2 DEF Inv, IdentityGoesLast, Erasure, Past
  <2>3. QED
    BY <2>1, <2>2
<1>7. TypeOK'
  BY <1>1, <1>4 DEF Inv, TypeOK
<1>8. QED
  BY <1>4, <1>5, <1>6, <1>7 DEF Inv

LEMMA FinalizeInv ==
  ASSUME AccountAssumption, Inv, NEW w \in Workers, Finalize(w) PROVE Inv'
<1> DEFINE d == workers[w].deletion
           p == deletions[d].profile
           e == [deletions[d] EXCEPT !.status = "COMPLETED", !.user = None]
           r == [profiles[p] EXCEPT !.sub = "TOMBSTONE"]
           a == [workers[w] EXCEPT !.pc = "completed"]
<1>1. /\ workers[w].pc = "finalize"
      /\ profiles' = [profiles EXCEPT ![p] = r]
      /\ deletions' = [deletions EXCEPT ![d] = e]
      /\ workers' = [workers EXCEPT ![w] = a]
      /\ UNCHANGED <<personal, files, identities, cached, handlers, guards>>
  BY DEF Finalize, GoOn
<1>2. /\ workers[w] \in Worker /\ d \in Deletions /\ deletions[d] \in Deletion
      /\ deletions[d].status \in Past /\ Taken(p)
      /\ p \notin personal /\ p \notin files
  BY <1>1, AttemptFacts
<1>3. /\ profiles \in [Profiles -> Profile] /\ deletions \in [Deletions -> Deletion]
      /\ profiles[p] \in Profile /\ p \in Profiles /\ profiles[p].sub # "NONE"
  BY <1>2 DEF Inv, TypeOK, Taken
<1>4. /\ e \in Deletion /\ e.profile = p /\ e.subject = deletions[d].subject
      /\ e.status = "COMPLETED"
  BY <1>2 DEF Deletion, DeletionStatus
<1>5. r \in Profile /\ r.sub = "TOMBSTONE"
  BY <1>3 DEF Profile
<1>6. a \in Worker /\ a.pc = "completed" /\ a.deletion = d
  BY <1>2 DEF Worker
<1> HIDE DEF e, r, a
<1>7. /\ profiles' \in [Profiles -> Profile]
      /\ \A q \in Profiles : profiles'[q] = IF q = p THEN r ELSE profiles[q]
  BY <1>1, <1>3, <1>5
<1>8. /\ deletions' \in [Deletions -> Deletion]
      /\ \A c \in Deletions : deletions'[c] = IF c = d THEN e ELSE deletions[c]
  BY <1>1, <1>3, <1>4
<1>9. \A q \in Profiles : profiles'[q].sub # "NONE" <=> profiles[q].sub # "NONE"
  BY <1>3, <1>5, <1>7
<1>10. Continues
  BY <1>1, <1>4, <1>8, <1>9 DEF Continues, Begun, Past
<1>11. DeletionsOK' /\ HandlersOK' /\ IdentityGoesLast'
  BY <1>1, <1>2, <1>8, <1>10, EntriesStay, RequestsStay, IdentitiesStay DEF Past
<1>12. ErasedOK'
  <2>1. \A c \in Deletions : deletions'[c].status \in Past => deletions[c].status \in Past
    BY <1>2, <1>8
  <2>2. QED
    BY <1>10, <2>1, PastStay
<1>13. OnlyDeletedAreErased'
  BY <1>1, <1>9, <1>10, ErasedStay
<1>14. workers' \in [Workers -> Worker] /\ WorkersOK' /\ IdleOK'
  <2>1. deletions'[d] = e /\ e.status \in Begun /\ e.status \in Past
    BY <1>2, <1>4, <1>8 DEF Begun, Past
  <2>2. deletions'[a.deletion].profile \notin files'
    BY <1>1, <1>2, <1>4, <1>6, <2>1
  <2>3. QED
    BY <1>1, <1>2, <1>6, <1>10, <2>1, <2>2, AttemptGoes
<1>15. TypeOK'
  BY <1>1, <1>7, <1>8, <1>14 DEF Inv, TypeOK
<1>16. QED
  BY <1>11, <1>12, <1>13, <1>14, <1>15 DEF Inv

\* The guard and the cache change nothing that the invariant says of an account.
LEMMA CacheOnly ==
  ASSUME Inv, UNCHANGED <<profiles, personal, files, deletions, identities, handlers, workers>>,
         cached' \in [Subjects -> GuardStatus \cup {"NONE"}], guards' \in [Guards -> Guard]
  PROVE  Inv'
<1>1. Continues
  BY StutterContinues
<1>2. TypeOK'
  BY DEF Inv, TypeOK
<1>3. DeletionsOK' /\ ErasedOK' /\ HandlersOK' /\ IdentityGoesLast' /\ OnlyDeletedAreErased'
  BY <1>1, EntriesStay, PastStay, RequestsStay, IdentitiesStay, ErasedStay
<1>4. WorkersOK' /\ IdleOK'
  BY <1>1, WorkersStay
<1>5. QED
  BY <1>2, <1>3, <1>4 DEF Inv

LEMMA StatusOfType == ASSUME Inv, NEW s \in Subjects PROVE StatusOf(s) \in GuardStatus
<1>1. \A p \in Profiles : profiles[p].status \in AccountStatus
  BY DEF Inv, TypeOK, Profile
<1>2. CASE RowsOf(s) # {}
  <2>1. \E p : p \in RowsOf(s)
    BY <1>2
  <2>2. (CHOOSE p \in RowsOf(s) : TRUE) \in RowsOf(s)
    BY <2>1
  <2>3. (CHOOSE p \in RowsOf(s) : TRUE) \in Profiles
    BY <2>2 DEF RowsOf
  <2>4. QED
    BY <1>1, <1>2, <2>3 DEF StatusOf, GuardStatus
<1>3. CASE RowsOf(s) = {}
  BY <1>3 DEF StatusOf, GuardStatus, AccountStatus
<1>4. QED
  BY <1>2, <1>3

LEMMA GuardReadsInv ==
  ASSUME Inv, NEW g \in Guards, NEW s \in Subjects, GuardReads(g, s) PROVE Inv'
<1>1. [sub |-> s, status |-> StatusOf(s)] \in Guard
  BY StatusOfType DEF Guard
<1>2. guards' \in [Guards -> Guard]
  BY <1>1 DEF GuardReads, Inv, TypeOK
<1>3. QED
  BY <1>2, CacheOnly DEF GuardReads, Inv, TypeOK

LEMMA GuardFillsInv ==
  ASSUME AccountAssumption, Inv, NEW g \in Guards, GuardFills(g) PROVE Inv'
<1>1. NoGuard \in Guard
  BY DEF NoGuard, Guard, GuardStatus
<1>2. guards' \in [Guards -> Guard]
  BY <1>1 DEF GuardFills, Inv, TypeOK
<1>3. guards[g].status \in GuardStatus
  BY DEF Inv, TypeOK, Guard
<1>4. cached' \in [Subjects -> GuardStatus \cup {"NONE"}]
  BY <1>3 DEF GuardFills, Inv, TypeOK
<1>5. QED
  BY <1>2, <1>4, CacheOnly DEF GuardFills

LEMMA ExpireInv == ASSUME Inv, NEW s \in Subjects, Expire(s) PROVE Inv'
BY CacheOnly DEF Expire, Inv, TypeOK

-----------------------------------------------------------------------------
(* The invariant, and what follows from it. *)

LEMMA InitInv == ASSUME AccountAssumption, Init PROVE Inv
<1>1. TypeOK
  <2>1. NoProfile \in Profile /\ NoDeletion \in Deletion /\ NoAttempt \in Worker /\ NoGuard \in Guard
    BY DEF NoProfile, Profile, AccountStatus, NoDeletion, Deletion, DeletionStatus, NoAttempt,
           Worker, NoGuard, Guard, GuardStatus
  <2>2. QED
    BY <2>1, IdleType DEF Init, TypeOK
<1>2. DeletionsOK /\ ErasedOK /\ IdentityGoesLast
  BY DEF Init, DeletionsOK, ErasedOK, Past, NoDeletion, IdentityGoesLast
<1>3. HandlersOK
  BY DEF Init, HandlersOK, Idle
<1>4. WorkersOK /\ IdleOK
  BY DEF Init, WorkersOK, IdleOK, NoAttempt
<1>5. OnlyDeletedAreErased
  BY DEF Init, OnlyDeletedAreErased, NoProfile
<1>6. QED
  BY <1>1, <1>2, <1>3, <1>4, <1>5 DEF Inv

LEMMA HandlerStepInv ==
  ASSUME AccountAssumption, Inv, NEW h \in Handlers, HandlerStep(h) PROVE Inv'
BY ReceiveInv, InsertProfileInv, SelectProfileInv, SetStatusInv, FindDeletionInv,
   RequestDeletionInv, CancelDeletionInv, RequestEndsInv DEF HandlerStep

LEMMA AttemptStepInv ==
  ASSUME AccountAssumption, Inv, NEW w \in Workers, AttemptStep(w) \/ AttemptFails(w) PROVE Inv'
BY AnonymizeInv, InvalidateErasedInv, DeleteStorageObjectsInv, DeleteIdentityInv, FinalizeInv,
   AttemptFailsInv DEF AttemptStep

LEMMA NextInv == ASSUME AccountAssumption, Inv, [Next]_vars PROVE Inv'
<1>1. CASE Next
  BY <1>1, HandlerStepInv, BecomeDueInv, ClaimInv, AttemptStepInv, GuardReadsInv, GuardFillsInv,
     ExpireInv DEF Next
<1>2. CASE UNCHANGED vars
  BY <1>2, CacheOnly DEF vars, Inv, TypeOK
<1>3. QED
  BY <1>1, <1>2

LEMMA InvAlways == Spec => []Inv
<1>1. Init => Inv
  BY AccountAssumption, InitInv
<1>2. Inv /\ [Next]_vars => Inv'
  BY AccountAssumption, NextInv
<1>3. QED
  BY <1>1, <1>2, PTL DEF Spec

(* Every variable keeps the shape of the table, cache or process it models, *)
(* for any number of accounts, requests, workers and guard checks.          *)
THEOREM TypeCorrect == Spec => []TypeOK
<1>1. Inv => TypeOK
  BY DEF Inv
<1>2. QED
  BY <1>1, InvAlways, PTL

(* An identity that is gone leaves neither personal data nor private objects *)
(* behind, and a deletion past its anonymization that says so: the order of  *)
(* anonymizeDomainData, deleteStorageObjects and deleteUser survives failed  *)
(* attempts, leases that run out and attempts that overlap.                  *)
THEOREM IdentityIsLast == Spec => []IdentityGoesLast
<1>1. Inv => IdentityGoesLast
  BY DEF Inv
<1>2. QED
  BY <1>1, InvAlways, PTL

(* Nobody works on a deletion that cancelDeletion has cancelled. *)
THEOREM CancelledStays == Spec => []CancelledIsKept
<1>1. Inv => CancelledIsKept
  <2> SUFFICES ASSUME Inv, NEW d \in Deletions, deletions[d].status = "CANCELLED", NEW w \in Workers,
                      Works(w, d)
               PROVE  FALSE
    BY DEF CancelledIsKept
  <2>1. CASE workers[w].pc = "idle"
    BY <2>1, AccountAssumption DEF Inv, IdleOK, Works
  <2>2. CASE workers[w].pc # "idle"
    BY <2>2 DEF Inv, WorkersOK, Begun, Works
  <2>3. QED
    BY <2>1, <2>2
<1>2. QED
  BY <1>1, InvAlways, PTL

(* A profile without its personal data has a deletion that stands. *)
THEOREM OnlyDeletedLoseData == Spec => []OnlyDeletedAreErased
<1>1. Inv => OnlyDeletedAreErased
  BY DEF Inv
<1>2. QED
  BY <1>1, InvAlways, PTL

-----------------------------------------------------------------------------
(* Attempts that end within their leases. *)

\* No step of a request writes a deletion that an attempt may be at work on.
LEMMA LeasesStay ==
  ASSUME Inv, LeasesOK, UNCHANGED workers,
         \A d \in Deletions : deletions[d].status \in Begun =>
           /\ deletions'[d].status = deletions[d].status
           /\ deletions'[d].due = deletions[d].due \/ \A w \in Workers : ~Works(w, d)
  PROVE  LeasesOK'
<1>1. ASSUME NEW w \in Workers, workers[w].pc # "idle"
      PROVE  /\ deletions'[workers[w].deletion].status = deletions[workers[w].deletion].status
             /\ deletions'[workers[w].deletion].due = deletions[workers[w].deletion].due
  BY <1>1 DEF Inv, WorkersOK, Works
<1>2. QED
  BY <1>1 DEF LeasesOK

\* The attempt under way of w becomes a, and writes no deletion but its own.
LEMMA LeaseGoes ==
  ASSUME AccountAssumption, Inv, LeasesOK, NEW w \in Workers, workers[w].pc # "idle", NEW a \in Worker,
         workers' = [workers EXCEPT ![w] = a],
         a.pc # "idle" => a.deletion = workers[w].deletion,
         a.pc = "idle" => a.deletion = None,
         \A d \in Deletions : d # workers[w].deletion => deletions'[d] = deletions[d],
         a.pc # "idle" => ~deletions'[a.deletion].due,
         a.pc = "anonymize" => deletions'[a.deletion].status = "ANONYMIZING",
         a.pc \in {"anonymized", "objects", "identity", "finalize"} =>
           deletions'[a.deletion].status = "ANONYMIZED",
         a.pc = "completed" => deletions'[a.deletion].status = "COMPLETED"
  PROVE  LeasesOK'
<1>1. \A v \in Workers : workers'[v] = IF v = w THEN a ELSE workers[v]
  BY DEF Inv, TypeOK
<1>2. ASSUME NEW v \in Workers, v # w, workers[v].pc # "idle"
      PROVE  /\ workers[v].deletion \in Deletions
             /\ workers[v].deletion # workers[w].deletion
             /\ deletions'[workers[v].deletion] = deletions[workers[v].deletion]
  BY <1>2 DEF LeasesOK, Inv, WorkersOK
<1>3. ASSUME NEW u \in Workers, NEW v \in Workers,
             workers'[u].pc # "idle", workers'[u].deletion = workers'[v].deletion
      PROVE  u = v
  <2>1. CASE u = w /\ v # w
    <3>1. workers[w].deletion \in Deletions /\ workers[v].deletion = workers[w].deletion
      BY <1>1, <1>3, <2>1 DEF Inv, WorkersOK
    <3>2. QED
      BY <2>1, <3>1 DEF LeasesOK
  <2>2. CASE u # w /\ v = w
    <3>1. workers[u].pc # "idle" /\ workers[u].deletion = a.deletion
      BY <1>1, <1>3, <2>2
    <3>2. workers[u].deletion \in Deletions /\ workers[u].deletion # workers[w].deletion
      BY <1>2, <2>2, <3>1
    <3>3. QED
      BY <3>1, <3>2 DEF AccountAssumption
  <2>3. CASE u # w /\ v # w
    BY <1>1, <1>3, <2>3 DEF LeasesOK
  <2>4. QED
    BY <2>1, <2>2, <2>3
<1>4. ASSUME NEW v \in Workers, workers'[v].pc # "idle"
      PROVE  LET d == workers'[v].deletion
             IN /\ ~deletions'[d].due
                /\ workers'[v].pc = "anonymize" => deletions'[d].status = "ANONYMIZING"
                /\ workers'[v].pc \in {"anonymized", "objects", "identity", "finalize"} =>
                     deletions'[d].status = "ANONYMIZED"
                /\ workers'[v].pc = "completed" => deletions'[d].status = "COMPLETED"
  <2>1. CASE v = w
    BY <1>1, <1>4, <2>1
  <2>2. CASE v # w
    <3>1. workers'[v] = workers[v] /\ workers[v].pc # "idle"
      BY <1>1, <1>4, <2>2
    <3>2. QED
      BY <1>2, <2>2, <3>1 DEF LeasesOK
  <2>3. QED
    BY <2>1, <2>2
<1>5. QED
  BY <1>3, <1>4 DEF LeasesOK

LEMMA ClaimLeases ==
  ASSUME AccountAssumption, Inv, LeasesOK, NEW w \in Workers, NEW d \in Deletions, Claim(w, d)
  PROVE  LeasesOK'
<1> DEFINE e == [deletions[d] EXCEPT !.status = IF @ = "REQUESTED" THEN "ANONYMIZING" ELSE @,
                                     !.due = FALSE]
           a == [pc |-> IF deletions[d].status = "ANONYMIZED" THEN "objects" ELSE "anonymize",
                 deletion |-> d]
<1>1. /\ deletions[d] \in Deletion /\ deletions[d].status \in {"REQUESTED", "ANONYMIZING", "ANONYMIZED"}
      /\ deletions \in [Deletions -> Deletion] /\ workers \in [Workers -> Worker]
      /\ deletions[d].due /\ workers[w].pc = "idle"
  BY DEF Inv, TypeOK, Claim, Open
<1>2. /\ e.status = IF deletions[d].status = "REQUESTED" THEN "ANONYMIZING" ELSE deletions[d].status
      /\ ~e.due
  BY <1>1 DEF Deletion
<1>3. deletions' = [deletions EXCEPT ![d] = e]
  BY DEF Claim
<1> HIDE DEF e
<1>4. \A c \in Deletions : deletions'[c] = IF c = d THEN e ELSE deletions[c]
  BY <1>1, <1>3
<1>5. \A v \in Workers : workers[v].deletion # d
  BY <1>1 DEF LeasesOK, Inv, IdleOK, AccountAssumption
<1>6. CASE UNCHANGED workers
  <2>1. \A c \in Deletions : c # d => deletions'[c] = deletions[c]
    BY <1>4
  <2>2. \A v \in Workers : workers[v].pc # "idle" =>
          deletions'[workers[v].deletion] = deletions[workers[v].deletion]
    BY <1>5, <2>1 DEF Inv, WorkersOK
  <2>3. QED
    BY <1>6, <2>2 DEF LeasesOK
<1>7. CASE workers' = [workers EXCEPT ![w] = a]
  <2>1. /\ a.deletion = d /\ a.pc \in {"objects", "anonymize"}
        /\ a.pc = "objects" => deletions[d].status = "ANONYMIZED"
        /\ a.pc = "anonymize" => deletions[d].status # "ANONYMIZED"
    OBVIOUS
  <2> HIDE DEF a
  <2>2. \A v \in Workers : workers'[v] = IF v = w THEN a ELSE workers[v]
    BY <1>1, <1>7
  <2>3. ASSUME NEW u \in Workers, NEW v \in Workers,
               workers'[u].pc # "idle", workers'[u].deletion = workers'[v].deletion
        PROVE  u = v
    BY <1>5, <2>1, <2>2, <2>3 DEF LeasesOK
  <2>4. ASSUME NEW v \in Workers, workers'[v].pc # "idle"
        PROVE  LET c == workers'[v].deletion
               IN /\ ~deletions'[c].due
                  /\ workers'[v].pc = "anonymize" => deletions'[c].status = "ANONYMIZING"
                  /\ workers'[v].pc \in {"anonymized", "objects", "identity", "finalize"} =>
                       deletions'[c].status = "ANONYMIZED"
                  /\ workers'[v].pc = "completed" => deletions'[c].status = "COMPLETED"
    <3>1. CASE v = w
      <4>1. workers'[v] = a /\ deletions'[d] = e
        BY <1>4, <2>2, <3>1
      <4>2. QED
        BY <1>1, <1>2, <2>1, <4>1
    <3>2. CASE v # w
      <4>1. workers'[v] = workers[v] /\ workers[v].pc # "idle"
        BY <2>2, <2>4, <3>2
      <4>2. deletions'[workers[v].deletion] = deletions[workers[v].deletion]
        BY <1>4, <1>5, <4>1 DEF Inv, WorkersOK
      <4>3. QED
        BY <4>1, <4>2 DEF LeasesOK
    <3>3. QED
      BY <3>1, <3>2
  <2>5. QED
    BY <2>3, <2>4 DEF LeasesOK
<1>8. QED
  BY <1>6, <1>7 DEF Claim

LEMMA AttemptLeases ==
  ASSUME AccountAssumption, Inv, LeasesOK, NEW w \in Workers, AttemptStep(w) \/ AttemptFails(w)
  PROVE  LeasesOK'
<1> DEFINE x == workers[w]
           d == x.deletion
<1>1. x.pc # "idle"
  BY DEF AttemptStep, AttemptFails, Anonymize, InvalidateErased, DeleteStorageObjects,
         DeleteIdentity, Finalize
<1>2. /\ x \in Worker /\ d \in Deletions /\ deletions[d] \in Deletion
      /\ deletions \in [Deletions -> Deletion]
  BY <1>1, AttemptFacts DEF Inv, TypeOK
<1>3. /\ ~deletions[d].due
      /\ x.pc = "anonymize" => deletions[d].status = "ANONYMIZING"
      /\ x.pc \in {"anonymized", "objects", "identity", "finalize"} => deletions[d].status = "ANONYMIZED"
      /\ x.pc = "completed" => deletions[d].status = "COMPLETED"
  BY <1>1 DEF LeasesOK
<1>4. NoAttempt \in Worker /\ NoAttempt.pc = "idle" /\ NoAttempt.deletion = None
  BY DEF NoAttempt, Worker
<1>5. ASSUME NEW pc \in {"objects", "identity", "finalize", "anonymized", "completed"}
      PROVE  LET a == [x EXCEPT !.pc = pc]
             IN a \in Worker /\ a.pc = pc /\ a.deletion = d
  BY <1>2 DEF Worker
<1>6. CASE deletions' = deletions /\ workers' = [workers EXCEPT ![w] = NoAttempt]
  BY <1>1, <1>4, <1>6, LeaseGoes
<1>7. ASSUME NEW pc \in {"objects", "identity", "finalize"}, deletions' = deletions, GoOn(w, pc),
             x.pc \in {"anonymized", "objects", "identity"}
      PROVE  LeasesOK'
  <2> DEFINE a == [x EXCEPT !.pc = pc]
  <2>1. a \in Worker /\ a.pc = pc /\ a.deletion = d
    BY <1>5
  <2>2. workers' = [workers EXCEPT ![w] = a]
    BY <1>7 DEF GoOn
  <2> HIDE DEF a
  <2>3. QED
    BY <1>1, <1>3, <1>7, <2>1, <2>2, LeaseGoes
<1>8. ASSUME NEW pc \in {"anonymized", "completed"}, GoOn(w, pc), NEW e,
             deletions' = [deletions EXCEPT ![d] = e], ~e.due,
             e.status = IF pc = "anonymized" THEN "ANONYMIZED" ELSE "COMPLETED"
      PROVE  LeasesOK'
  <2> DEFINE a == [x EXCEPT !.pc = pc]
  <2>1. a \in Worker /\ a.pc = pc /\ a.deletion = d
    BY <1>5
  <2>2. workers' = [workers EXCEPT ![w] = a]
    BY <1>8 DEF GoOn
  <2>3. deletions'[d] = e /\ \A c \in Deletions : c # d => deletions'[c] = deletions[c]
    BY <1>2, <1>8
  <2> HIDE DEF a
  <2>4. QED
    BY <1>1, <1>8, <2>1, <2>2, <2>3, LeaseGoes
<1>9. CASE Anonymize(w)
  <2> DEFINE e == [deletions[d] EXCEPT !.status = "ANONYMIZED"]
  <2>1. deletions' = [deletions EXCEPT ![d] = e] /\ GoOn(w, "anonymized")
    BY <1>9 DEF Anonymize
  <2>2. ~e.due /\ e.status = "ANONYMIZED"
    BY <1>2, <1>3 DEF Deletion
  <2> HIDE DEF e
  <2>3. QED
    BY <1>8, <2>1, <2>2
<1>10. CASE Finalize(w)
  <2> DEFINE e == [deletions[d] EXCEPT !.status = "COMPLETED", !.user = None]
  <2>1. deletions' = [deletions EXCEPT ![d] = e] /\ GoOn(w, "completed")
    BY <1>10 DEF Finalize
  <2>2. ~e.due /\ e.status = "COMPLETED"
    BY <1>2, <1>3 DEF Deletion
  <2> HIDE DEF e
  <2>3. QED
    BY <1>8, <2>1, <2>2
<1>11. CASE InvalidateErased(w)
  <2>1. CASE x.pc = "anonymized"
    BY <1>7, <1>11, <2>1 DEF InvalidateErased, GoOn
  <2>2. CASE x.pc = "completed"
    BY <1>6, <1>11, <2>2 DEF InvalidateErased
  <2>3. QED
    BY <1>11, <2>1, <2>2 DEF InvalidateErased
<1>12. CASE DeleteStorageObjects(w) \/ DeleteIdentity(w)
  BY <1>7, <1>12 DEF DeleteStorageObjects, DeleteIdentity
<1>13. CASE AttemptFails(w)
  BY <1>6, <1>13 DEF AttemptFails
<1>14. QED
  BY <1>9, <1>10, <1>11, <1>12, <1>13 DEF AttemptStep

\* What a request does to the ledger.
LEMMA RequestWrites ==
  ASSUME Inv, NEW h \in Handlers, HandlerStep(h)
  PROVE  /\ UNCHANGED workers
         /\ \A d \in Deletions :
              \/ deletions'[d] = deletions[d]
              \/ deletions[d].status = "NONE" /\ deletions'[d].status = "REQUESTED"
              \/ deletions[d].status = "REQUESTED" /\ deletions'[d].status = "CANCELLED"
<1>1. deletions \in [Deletions -> Deletion]
  BY DEF Inv, TypeOK
<1>2. CASE RequestDeletion(h)
  <2>1. CASE deletions' = deletions
    BY <1>2, <2>1 DEF RequestDeletion
  <2>2. CASE \E d \in Deletions :
               /\ deletions[d].status = "NONE"
               /\ deletions' = [deletions EXCEPT ![d] =
                    [profile |-> handlers[h].profile, user |-> handlers[h].sub,
                     subject |-> handlers[h].sub, status |-> "REQUESTED", due |-> FALSE]]
    BY <1>1, <1>2, <2>2 DEF RequestDeletion
  <2>3. QED
    BY <1>2, <2>1, <2>2 DEF RequestDeletion
<1>3. CASE CancelDeletion(h)
  <2> DEFINE d == handlers[h].deletion
             e == [deletions[d] EXCEPT !.status = IF @ = "REQUESTED" THEN "CANCELLED" ELSE @]
  <2>1. d \in Deletions /\ deletions[d] \in Deletion
    BY <1>3 DEF CancelDeletion, Inv, HandlersOK, TypeOK
  <2>2. /\ deletions[d].status = "REQUESTED" => e.status = "CANCELLED"
        /\ deletions[d].status # "REQUESTED" => e = deletions[d]
    BY <2>1 DEF Deletion
  <2>3. deletions' = [deletions EXCEPT ![d] = e]
    BY <1>3 DEF CancelDeletion
  <2> HIDE DEF e
  <2>4. \A c \in Deletions : deletions'[c] = IF c = d THEN e ELSE deletions[c]
    BY <1>1, <2>3
  <2>5. QED
    BY <1>3, <2>2, <2>4 DEF CancelDeletion
<1>4. CASE \/ \E s \in Subjects, op \in AllCommands : Receive(h, s, op)
           \/ InsertProfile(h) \/ SelectProfile(h) \/ SetStatus(h) \/ FindDeletion(h)
           \/ InvalidateStatus(h) \/ Abandon(h)
  BY <1>4 DEF Receive, InsertProfile, SelectProfile, SetStatus, FindDeletion, InvalidateStatus, Abandon
<1>5. QED
  BY <1>2, <1>3, <1>4 DEF HandlerStep

LEMMA BecomeDueLeases ==
  ASSUME ~LongAttempts, Inv, LeasesOK, NEW d \in Deletions, BecomeDue(d) PROVE LeasesOK'
<1>1. /\ UNCHANGED workers /\ \A w \in Workers : ~Works(w, d)
      /\ deletions' = [deletions EXCEPT ![d].due = TRUE]
  BY DEF BecomeDue
<1>2. \A c \in Deletions : /\ deletions'[c].status = deletions[c].status
                           /\ c # d => deletions'[c].due = deletions[c].due
  BY <1>1 DEF Inv, TypeOK, Deletion
<1>3. QED
  BY <1>1, <1>2, LeasesStay

LEMMA NextLeases ==
  ASSUME ~LongAttempts, AccountAssumption, Inv, LeasesOK, [Next]_vars PROVE LeasesOK'
<1>1. CASE \E h \in Handlers : HandlerStep(h)
  <2>1. PICK h \in Handlers : HandlerStep(h)
    BY <1>1
  <2>2. QED
    BY <2>1, RequestWrites, LeasesStay DEF Begun
<1>2. CASE \/ UNCHANGED vars
           \/ \E g \in Guards, s \in Subjects : GuardReads(g, s)
           \/ \E g \in Guards : GuardFills(g)
           \/ \E s \in Subjects : Expire(s)
  <2>1. UNCHANGED <<workers, deletions>>
    BY <1>2 DEF vars, GuardReads, GuardFills, Expire
  <2>2. QED
    BY <2>1, LeasesStay
<1>3. QED
  BY <1>1, <1>2, BecomeDueLeases, ClaimLeases, AttemptLeases DEF Next

\* What a worker or the clock does to the ledger.
LEMMA AttemptWrites ==
  ASSUME AccountAssumption, Inv, LeasesOK, NEW w \in Workers, AttemptStep(w) \/ AttemptFails(w)
  PROVE  \A d \in Deletions :
           \/ deletions'[d].status = deletions[d].status
           \/ deletions[d].status = "ANONYMIZING" /\ deletions'[d].status = "ANONYMIZED"
           \/ deletions[d].status = "ANONYMIZED" /\ deletions'[d].status = "COMPLETED"
<1> DEFINE d == workers[w].deletion
<1>1. CASE Anonymize(w)
  <2>1. /\ d \in Deletions /\ deletions[d].status = "ANONYMIZING"
        /\ deletions' = [deletions EXCEPT ![d].status = "ANONYMIZED"]
    BY <1>1, AttemptFacts DEF Anonymize, LeasesOK
  <2>2. QED
    BY <2>1 DEF Inv, TypeOK, Deletion
<1>2. CASE Finalize(w)
  <2>1. /\ d \in Deletions /\ deletions[d].status = "ANONYMIZED"
        /\ deletions' = [deletions EXCEPT ![d].status = "COMPLETED", ![d].user = None]
    BY <1>2, AttemptFacts DEF Finalize, LeasesOK
  <2>2. QED
    BY <2>1 DEF Inv, TypeOK, Deletion
<1>3. CASE InvalidateErased(w) \/ DeleteStorageObjects(w) \/ DeleteIdentity(w) \/ AttemptFails(w)
  BY <1>3 DEF InvalidateErased, DeleteStorageObjects, DeleteIdentity, AttemptFails
<1>4. QED
  BY <1>1, <1>2, <1>3 DEF AttemptStep

LEMMA StepMovesOn ==
  ASSUME AccountAssumption, Inv, LeasesOK, Next
  PROVE  \A d \in Deletions : \/ deletions'[d].status = deletions[d].status
                              \/ Rank(deletions'[d].status) > Rank(deletions[d].status)
<1>1. CASE \E h \in Handlers : HandlerStep(h)
  BY <1>1, RequestWrites DEF Rank
<1>2. CASE \E d \in Deletions : BecomeDue(d)
  BY <1>2 DEF BecomeDue, Inv, TypeOK, Deletion
<1>3. CASE \E w \in Workers, d \in Deletions : Claim(w, d)
  <2>1. PICK w \in Workers, d \in Deletions : Claim(w, d)
    BY <1>3
  <2> DEFINE e == [deletions[d] EXCEPT !.status = IF @ = "REQUESTED" THEN "ANONYMIZING" ELSE @,
                                       !.due = FALSE]
  <2>2. deletions' = [deletions EXCEPT ![d] = e] /\ deletions \in [Deletions -> Deletion]
    BY <2>1 DEF Claim, Inv, TypeOK
  <2>3. \/ e.status = deletions[d].status
        \/ deletions[d].status = "REQUESTED" /\ e.status = "ANONYMIZING"
    BY <2>2 DEF Deletion
  <2> HIDE DEF e
  <2>4. \A c \in Deletions : deletions'[c] = IF c = d THEN e ELSE deletions[c]
    BY <2>2
  <2>5. QED
    BY <2>3, <2>4 DEF Rank
<1>4. CASE \E w \in Workers : AttemptStep(w) \/ AttemptFails(w)
  BY <1>4, AttemptWrites DEF Rank
<1>5. CASE \/ \E g \in Guards, s \in Subjects : GuardReads(g, s)
           \/ \E g \in Guards : GuardFills(g)
           \/ \E s \in Subjects : Expire(s)
  BY <1>5 DEF GuardReads, GuardFills, Expire
<1>6. QED
  BY <1>1, <1>2, <1>3, <1>4, <1>5 DEF Next

(* When every attempt ends within the lease that claimDueDeletion took, a    *)
(* deletion only moves on, from REQUESTED to COMPLETED or to CANCELLED, and  *)
(* no row of account_deletions leaves an end it has reached.                 *)
THEOREM DeletionsOnlyMoveOn == ASSUME ~LongAttempts PROVE Spec => DeletionsMoveOn
<1>1. Init => Inv /\ LeasesOK
  <2>1. Init => LeasesOK
    BY DEF Init, LeasesOK, NoAttempt
  <2>2. QED
    BY <2>1, AccountAssumption, InitInv
<1>2. Inv /\ LeasesOK /\ [Next]_vars => Inv' /\ LeasesOK'
  BY AccountAssumption, NextInv, NextLeases
<1>3. Inv /\ LeasesOK /\ [Next]_vars =>
        [\A d \in Deletions : \/ deletions'[d].status = deletions[d].status
                              \/ Rank(deletions'[d].status) > Rank(deletions[d].status)]_vars
  BY AccountAssumption, StepMovesOn
<1>4. QED
  BY <1>1, <1>2, <1>3, PTL DEF Spec, DeletionsMoveOn
=============================================================================
