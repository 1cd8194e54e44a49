--------------------------- MODULE ProfilesProofs ---------------------------
(***************************************************************************)
(* Proofs about Profiles, for any number of users, numbers and requests    *)
(* and any limits: what a request still holds of the past, a row it has    *)
(* read, a code it has drawn, an object it has stored, never lets it       *)
(* verify the wrong number, answer one guess too many, or remove an avatar *)
(* that is in use.                                                         *)
(***************************************************************************)
EXTENDS Profiles, SequenceTheorems, TLAPS

-----------------------------------------------------------------------------
(* The inductive invariant. *)

Ops == {"me", "profile", "settings", "avatar", "noavatar", "phone", "verify"}
Pcs == (Ops \ {"me"}) \cup {"ensure", "provision", "sync", "attach", "remove", "undo",
                            "store", "send", "clear", "miss", "accept"}

Req == [pc: Pcs, op: Ops, user: Users,
        arg: {None} \cup Changes \cup Choices \cup Phones \cup (0..MaxCodes),
        tok: Token, seen: {NoRow} \cup Row, object: Avatars \cup (1..MaxCodes)]

Chosen == [theme: {"light", "dark"}, language: {"pl", "en"}]

Tables ==
  /\ profiles \in [Users -> {NoRow} \cup Row]
  /\ replica \in [Users -> OrNone(Phones)]
  /\ settings \in [Users -> {NoRow} \cup Settings]
  /\ chosen \in [Users -> Chosen]
  /\ avatars \subseteq Avatars
  /\ codes \in Seq(Code) /\ Len(codes) <= MaxCodes
  /\ reqs \in [Clients -> {NoReq} \cup Req]
  /\ erased \subseteq Users
  /\ ops \in 0..MaxOps

\* What a request under way is about, by its operation and how far it has come.
Stage(r) ==
  /\ r.pc \in Ops => r.pc = r.op
  /\ r.pc \in {"attach", "undo"} => r.op = "avatar"
  /\ r.pc = "remove" => r.op \in {"avatar", "noavatar"}
  /\ r.pc \in {"store", "send"} => r.op = "phone"
  /\ r.pc = "clear" => r.op \in {"phone", "verify"}
  /\ r.pc \in {"miss", "accept"} => r.op = "verify" /\ r.seen.token # 0
  /\ r.pc = "accept" => r.arg = r.seen.token
  /\ r.pc \notin {"ensure", "provision"} => r.seen \in Row
  /\ r.op = "profile" => r.arg \in Changes
  /\ r.op = "settings" => r.arg \in Choices
  /\ r.op = "phone" => r.arg \in Phones
  /\ r.op = "verify" => r.arg \in 0..MaxCodes
  /\ r.op \in {"avatar", "noavatar"} => r.object \in Avatars

Stages ==
  \A x \in Clients : ~At(x, "idle") =>
    /\ Stage(reqs[x])
    /\ reqs[x].pc \notin {"ensure", "provision"} => Mine(x) \in Row

Typed == Tables /\ Stages

\* The code a row expects is the user's, for the row's number, and not used up.
Expected(u) ==
  profiles[u] \in Row /\ profiles[u].token # 0 =>
    /\ profiles[u].token \in 1..Len(codes)
    /\ codes[profiles[u].token].user = u
    /\ codes[profiles[u].token].phone = profiles[u].phone
    /\ codes[profiles[u].token].misses = profiles[u].attempts
    /\ codes[profiles[u].token].accepted = 0

Presents(x) ==
  /\ reqs[x].op = "verify" /\ reqs[x].arg # 0 =>
       reqs[x].arg \in 1..Len(codes) /\ codes[reqs[x].arg].presented
  /\ At(x, "send") => reqs[x].object \in 1..Len(codes)

CodesOK ==
  /\ \A u \in Users : Expected(u)
  /\ \A x \in Clients : ~At(x, "idle") => Presents(x)
  /\ VerifiedIsProved
  /\ GuessesAreBounded

\* A request that handles an avatar, and one whose object nobody else knows yet.
Handles(x) == ~At(x, "idle") /\ reqs[x].op \in {"avatar", "noavatar"}
Makes(x) ==
  ~At(x, "idle") /\ reqs[x].op = "avatar" /\ ~At(x, "remove") /\ ~At(x, "undo")

Refers(row, o) == row \in Row /\ row.avatar = o
Owned(u) == {u} \X (1..ops)

ObjectsOK ==
  /\ \A u \in Users : profiles[u] \in Row /\ profiles[u].avatar # None =>
       profiles[u].avatar \in Owned(u)
  /\ \A x \in Clients : ~At(x, "idle") =>
       (reqs[x].seen \in Row /\ reqs[x].seen.avatar # None
          => reqs[x].seen.avatar \in Owned(reqs[x].user))
  /\ \A x \in Clients : Handles(x) => reqs[x].object \in Owned(reqs[x].user)
  /\ \A x \in Clients : At(x, "attach") => reqs[x].object \in avatars

\* An object in the making or to be removed is nobody's avatar, unless the upload
\* that undoes it has attached it.
ObjectsApart ==
  /\ \A x \in Clients : Makes(x) \/ At(x, "remove") =>
       \A u \in Users : ~Refers(profiles[u], reqs[x].object)
  /\ \A x, y \in Clients : Makes(x) /\ ~At(y, "idle") => ~Refers(reqs[y].seen, reqs[x].object)
  /\ \A x, y \in Clients : x # y /\ Makes(x) /\ Handles(y) => reqs[y].object # reqs[x].object

AvatarsOK == ObjectsOK /\ ObjectsApart

SettingsOK ==
  \A u \in Users :
    /\ settings[u] = NoRow => chosen[u] = [theme |-> "dark", language |-> "pl"]
    /\ settings[u] # NoRow => /\ settings[u].theme = chosen[u].theme
                              /\ settings[u].language = chosen[u].language

Inv == Typed /\ CodesOK /\ AvatarsOK /\ SettingsOK

-----------------------------------------------------------------------------
(* Types: how the stages of a request follow each other. *)

LEMMA Rows == NoRow \notin Row /\ NoReq \notin Req /\ \A r \in Req : r.pc # "idle"
BY DEF NoRow, Row, NoReq, Req, Pcs, Ops

LEMMA UnderWay ==
  ASSUME Typed, NEW x \in Clients, ~At(x, "idle")
  PROVE  /\ reqs[x] \in Req
         /\ reqs[x].user \in Users
         /\ Stage(reqs[x])
         /\ reqs[x].pc \notin {"ensure", "provision"} => Mine(x) \in Row
<1>1. reqs[x] \in {NoReq} \cup Req
  BY DEF Typed, Tables
<1>2. reqs[x] \in Req
  BY <1>1 DEF At, NoReq
<1>3. QED
  BY <1>2 DEF Typed, Stages, Req

\* Rows are never taken away.
KeepsRows ==
  /\ profiles' \in [Users -> {NoRow} \cup Row]
  /\ \A u \in Users : profiles[u] \in Row => profiles'[u] \in Row

LEMMA Becomes ==
  ASSUME Typed, KeepsRows, NEW x \in Clients, NEW r,
         reqs' = [reqs EXCEPT ![x] = r],
         \/ r = NoReq
         \/ /\ r \in Req /\ Stage(r)
            /\ r.pc \notin {"ensure", "provision"} => profiles'[r.user] \in Row
  PROVE  reqs' \in [Clients -> {NoReq} \cup Req] /\ Stages'
<1>1. reqs' \in [Clients -> {NoReq} \cup Req]
  BY DEF Typed, Tables
<1>2. Stages'
  <2> SUFFICES ASSUME NEW y \in Clients, reqs'[y].pc # "idle"
               PROVE  /\ Stage(reqs'[y])
                      /\ reqs'[y].pc \notin {"ensure", "provision"} => profiles'[reqs'[y].user] \in Row
    BY DEF Stages, At, Mine, Stage
  <2>1. CASE y = x
    BY <2>1 DEF Typed, Tables, NoReq
  <2>2. CASE y # x
    <3>1. reqs'[y] = reqs[y] /\ ~At(y, "idle")
      BY <2>2 DEF Typed, Tables, At
    <3>2. QED
      BY <3>1, UnderWay DEF KeepsRows, Mine
  <2>3. QED
    BY <2>1, <2>2
<1>3. QED
  BY <1>1, <1>2

LEMMA Ends ==
  ASSUME Typed, KeepsRows, NEW x \in Clients, End(x)
  PROVE  reqs' \in [Clients -> {NoReq} \cup Req] /\ Stages'
BY Becomes DEF End

\* A step to the next stage of the same request.
LEMMA Goes ==
  ASSUME Typed, KeepsRows, NEW x \in Clients, ~At(x, "idle"), NEW pc \in Pcs, Goto(x, pc),
         Stage([reqs[x] EXCEPT !.pc = pc]),
         pc \notin {"ensure", "provision"} => profiles'[reqs[x].user] \in Row
  PROVE  reqs' \in [Clients -> {NoReq} \cup Req] /\ Stages'
<1> DEFINE r == [reqs[x] EXCEPT !.pc = pc]
<1>1. reqs[x] \in Req
  BY UnderWay
<1>2. r \in Req /\ r.pc = pc /\ r.user = reqs[x].user
  BY <1>1 DEF Req
<1>3. reqs' = [reqs EXCEPT ![x] = r]
  BY DEF Goto
<1>4. QED
  BY <1>2, <1>3, Becomes

\* A row of the user is written: rows stay rows.
LEMMA Writes ==
  ASSUME Typed, NEW x \in Clients, ~At(x, "idle"), NEW row \in Row, Write(x, row)
  PROVE  KeepsRows /\ profiles'[reqs[x].user] = row
BY UnderWay DEF KeepsRows, Write, Typed, Tables

LEMMA Ensures ==
  ASSUME Typed, KeepsRows, NEW x \in Clients, reqs[x].pc \in {"ensure", "provision", "sync"},
         NEW row \in Row, profiles'[reqs[x].user] \in Row, Ensured(x, row)
  PROVE  reqs' \in [Clients -> {NoReq} \cup Req] /\ Stages'
<1> DEFINE r == [reqs[x] EXCEPT !.pc = reqs[x].op, !.seen = row]
<1>1. reqs[x] \in Req /\ Stage(reqs[x])
  BY UnderWay DEF At
<1>2. CASE reqs[x].op = "me"
  BY <1>2, Ends DEF Ensured
<1>3. CASE reqs[x].op # "me"
  <2>1. r \in Req
    BY <1>1, <1>3 DEF Req, Pcs
  <2>2. Stage(r) /\ r.user = reqs[x].user
    BY <1>1, <1>3 DEF Req, Stage, Ops
  <2>3. reqs' = [reqs EXCEPT ![x] = r]
    BY <1>3 DEF Ensured
  <2>4. QED
    BY <2>1, <2>2, <2>3, Becomes
<1>4. QED
  BY <1>2, <1>3

\* The tables besides the profiles and the requests.
Others == <<replica, settings, chosen, avatars, codes, erased, ops>>

LEMMA SameRows == ASSUME Typed, UNCHANGED profiles PROVE KeepsRows
BY DEF Typed, Tables, KeepsRows

LEMMA TypedIf ==
  ASSUME Typed, KeepsRows, UNCHANGED Others, reqs' \in [Clients -> {NoReq} \cup Req], Stages'
  PROVE  Typed'
BY DEF Typed, Tables, Others, KeepsRows

LEMMA NewRowType ==
  ASSUME ProfilesAssumption, NEW tok \in Token PROVE NewRow(tok) \in Row
BY DEF ProfilesAssumption, NewRow, Row, Token, OrNone

LEMMA FindProfileTyped ==
  ASSUME Typed, NEW x \in Clients, FindProfile(x) PROVE Typed'
<1>1. /\ reqs[x] \in Req /\ Stage(reqs[x]) /\ KeepsRows /\ reqs[x].user \in Users
      /\ ~At(x, "idle") /\ reqs[x].pc = "ensure" /\ UNCHANGED Others
      /\ profiles'[reqs[x].user] = Mine(x)
  BY UnderWay, SameRows DEF FindProfile, At, Others, Mine
<1>2. CASE Mine(x) = NoRow
  <2>1. Stage([reqs[x] EXCEPT !.pc = "provision"])
    BY <1>1 DEF Stage, Req, Ops
  <2>2. "provision" \in Pcs /\ Goto(x, "provision")
    BY <1>2 DEF FindProfile, Pcs
  <2>3. QED
    BY <1>1, <2>1, <2>2, Goes, TypedIf
<1>3. CASE Mine(x) # NoRow
  <2> DEFINE r == [reqs[x] EXCEPT !.pc = "sync", !.seen = Mine(x)]
  <2>1. Mine(x) \in Row
    BY <1>1, <1>3 DEF Mine, Typed, Tables
  <2>2. CASE Ensured(x, Mine(x))
    BY <1>1, <2>1, <2>2, Ensures, TypedIf
  <2>3. CASE reqs' = [reqs EXCEPT ![x] = r]
    <3>1. r \in Req /\ Stage(r) /\ r.user = reqs[x].user
      <4>1. /\ r \in Req /\ r.pc = "sync" /\ r.seen \in Row /\ r.user = reqs[x].user
            /\ r.op = reqs[x].op /\ r.arg = reqs[x].arg /\ r.object = reqs[x].object
        BY <1>1, <2>1 DEF Req, Pcs
      <4>2. Stage(r)
        BY <1>1, <4>1 DEF Stage, Ops
      <4>3. QED
        BY <4>1, <4>2
    <3>2. QED
      BY <1>1, <2>1, <2>3, <3>1, Becomes, TypedIf
  <2>4. reqs' = [reqs EXCEPT ![x] = r] \/ Ensured(x, Mine(x))
    BY <1>3 DEF FindProfile
  <2>5. QED
    BY <2>2, <2>3, <2>4
<1>4. QED
  BY <1>2, <1>3

LEMMA ProvisionTyped ==
  ASSUME ProfilesAssumption, Typed, NEW x \in Clients, Provision(x) PROVE Typed'
<1>1. /\ reqs[x] \in Req /\ Stage(reqs[x]) /\ reqs[x].user \in Users
      /\ ~At(x, "idle") /\ reqs[x].pc = "provision" /\ UNCHANGED Others
  BY UnderWay DEF Provision, At, Others
<1>2. CASE Mine(x) = NoRow
  <2> DEFINE row == NewRow(reqs[x].tok)
  <2>1. row \in Row
    BY <1>1, NewRowType DEF Req
  <2>2. Write(x, row) /\ Ensured(x, row)
    BY <1>2 DEF Provision
  <2>3. KeepsRows /\ profiles'[reqs[x].user] = row
    BY <1>1, <2>1, <2>2, Writes
  <2>4. QED
    BY <1>1, <2>1, <2>2, <2>3, Ensures, TypedIf
<1>3. CASE Mine(x) # NoRow
  <2>1. Goto(x, "ensure") /\ KeepsRows /\ "ensure" \in Pcs
    BY <1>3, SameRows DEF Provision, Pcs
  <2>2. Stage([reqs[x] EXCEPT !.pc = "ensure"])
    BY <1>1 DEF Stage, Req, Ops
  <2>3. QED
    BY <1>1, <2>1, <2>2, Goes, TypedIf
<1>4. QED
  BY <1>2, <1>3

LEMMA SyncIdentityTyped ==
  ASSUME ProfilesAssumption, Typed, NEW x \in Clients, SyncIdentity(x) PROVE Typed'
<1> DEFINE row == [Mine(x) EXCEPT !.email = EmailOf(reqs[x].tok, reqs[x].seen),
                                  !.synced = reqs[x].tok.iat]
<1>1. /\ reqs[x] \in Req /\ Stage(reqs[x]) /\ reqs[x].user \in Users
      /\ ~At(x, "idle") /\ reqs[x].pc = "sync" /\ UNCHANGED Others /\ Mine(x) \in Row
  BY UnderWay DEF SyncIdentity, At, Others
<1>2. row \in Row
  <2>1. reqs[x].seen \in Row /\ reqs[x].tok \in Token
    BY <1>1 DEF Stage, Req
  <2>2. EmailOf(reqs[x].tok, reqs[x].seen) \in OrNone(Emails)
    BY <2>1 DEF EmailOf, Token, Row, OrNone
  <2>3. reqs[x].tok.iat \in 0..MaxIat
    BY <2>1 DEF Token, ProfilesAssumption
  <2>4. QED
    BY <1>1, <2>2, <2>3 DEF Row
<1>3. Write(x, row) /\ Ensured(x, row)
  BY DEF SyncIdentity
<1>4. KeepsRows /\ profiles'[reqs[x].user] = row
  BY <1>1, <1>2, <1>3, Writes
<1>5. QED
  BY <1>1, <1>2, <1>3, <1>4, Ensures, TypedIf

LEMMA UpdateProfileTyped ==
  ASSUME ProfilesAssumption, Typed, NEW x \in Clients, UpdateProfile(x) PROVE Typed'
<1> DEFINE name == Supplied(reqs[x].arg.name, reqs[x].seen.name)
           private == Supplied(reqs[x].arg.private, reqs[x].seen.private)
           row == [Mine(x) EXCEPT !.name = name, !.private = private]
<1>1. /\ reqs[x] \in Req /\ Stage(reqs[x]) /\ reqs[x].user \in Users
      /\ ~At(x, "idle") /\ reqs[x].pc = "profile" /\ UNCHANGED Others /\ Mine(x) \in Row /\ End(x)
  BY UnderWay DEF UpdateProfile, At, Others
<1>2. row \in Row
  <2>1. reqs[x].seen \in Row /\ reqs[x].arg \in Changes
    BY <1>1 DEF Stage, Ops
  <2>2. name \in OrNone(Names) /\ private \in BOOLEAN
    BY <2>1 DEF Supplied, Row, Changes, OrNone
  <2>3. QED
    BY <1>1, <2>2 DEF Row
<1>3. Write(x, row) \/ UNCHANGED profiles
  BY DEF UpdateProfile
<1>4. KeepsRows
  BY <1>1, <1>2, <1>3, Writes, SameRows
<1>5. QED
  BY <1>1, <1>4, Ends, TypedIf

LEMMA RemoveSeenTyped ==
  ASSUME Typed, KeepsRows, NEW x \in Clients, reqs[x].pc \in {"attach", "noavatar"},
         RemoveSeen(x), profiles'[reqs[x].user] \in Row
  PROVE  reqs' \in [Clients -> {NoReq} \cup Req] /\ Stages'
<1> DEFINE r == [reqs[x] EXCEPT !.pc = "remove", !.object = reqs[x].seen.avatar]
<1>1. reqs[x] \in Req /\ Stage(reqs[x]) /\ reqs[x].seen \in Row
  BY UnderWay DEF At, Stage
<1>2. CASE reqs[x].seen.avatar = None
  BY <1>2, Ends DEF RemoveSeen
<1>3. CASE reqs[x].seen.avatar # None
  <2>1. reqs[x].seen.avatar \in Avatars
    BY <1>1, <1>3 DEF Row, OrNone
  <2>2. r \in Req /\ Stage(r) /\ r.user = reqs[x].user
    BY <1>1, <2>1 DEF Req, Stage, Pcs, Ops
  <2>3. reqs' = [reqs EXCEPT ![x] = r]
    BY <1>3 DEF RemoveSeen
  <2>4. QED
    BY <2>2, <2>3, Becomes
<1>4. QED
  BY <1>2, <1>3

LEMMA AvatarTyped ==
  ASSUME ProfilesAssumption, Typed, NEW x \in Clients,
         PutAvatar(x) \/ AttachAvatar(x) \/ DetachAvatar(x) \/ RemoveAvatar(x)
  PROVE  Typed'
<1>1. reqs[x] \in Req /\ Stage(reqs[x]) /\ reqs[x].user \in Users /\ ~At(x, "idle") /\ Mine(x) \in Row
  BY UnderWay DEF PutAvatar, AttachAvatar, DetachAvatar, RemoveAvatar, At
<1>2. \A pc \in {"attach", "undo"} :
        reqs[x].op = "avatar" /\ reqs[x].seen \in Row
        => pc \in Pcs /\ Stage([reqs[x] EXCEPT !.pc = pc])
  BY <1>1 DEF Stage, Req, Pcs, Ops
<1>3. CASE PutAvatar(x)
  <2>1. KeepsRows /\ Goto(x, "attach") /\ reqs[x].op = "avatar"
        /\ reqs[x].seen \in Row /\ reqs[x].object \in Avatars
    BY <1>1, <1>3, SameRows DEF PutAvatar, At, Stage, Ops
  <2>2. "attach" \in Pcs /\ Stage([reqs[x] EXCEPT !.pc = "attach"])
    BY <1>2, <2>1
  <2>3. profiles'[reqs[x].user] \in Row
    BY <1>1, <1>3 DEF PutAvatar, Mine
  <2>4. reqs' \in [Clients -> {NoReq} \cup Req] /\ Stages'
    BY <1>1, <2>1, <2>2, <2>3, Goes
  <2>5. QED
    BY <1>3, <2>1, <2>4 DEF PutAvatar, Typed, Tables, KeepsRows
<1>4. CASE AttachAvatar(x)
  <2> DEFINE row == [Mine(x) EXCEPT !.avatar = reqs[x].object]
  <2>1. UNCHANGED Others /\ row \in Row /\ reqs[x].pc = "attach"
    <3>1. reqs[x].object \in Avatars
      BY <1>1, <1>4 DEF AttachAvatar, At, Stage
    <3>2. QED
      BY <1>1, <1>4, <3>1 DEF AttachAvatar, Others, Row, OrNone, At
  <2>2. CASE Write(x, row) /\ RemoveSeen(x)
    <3>1. KeepsRows /\ profiles'[reqs[x].user] = row
      BY <1>1, <2>1, <2>2, Writes
    <3>2. QED
      BY <2>1, <2>2, <3>1, RemoveSeenTyped, TypedIf
  <2>3. CASE Goto(x, "undo") /\ (Write(x, row) \/ UNCHANGED profiles)
    <3>1. KeepsRows /\ profiles'[reqs[x].user] \in Row
      BY <1>1, <2>1, <2>3, SameRows, Writes DEF Mine
    <3>2. "undo" \in Pcs /\ Stage([reqs[x] EXCEPT !.pc = "undo"])
      BY <1>1, <1>2, <2>1 DEF Stage
    <3>3. QED
      BY <1>1, <2>1, <2>3, <3>1, <3>2, Goes, TypedIf
  <2>4. QED
    BY <1>4, <2>2, <2>3 DEF AttachAvatar
<1>5. CASE DetachAvatar(x)
  <2> DEFINE row == [Mine(x) EXCEPT !.avatar = None]
  <2>1. UNCHANGED Others /\ row \in Row /\ reqs[x].pc = "noavatar" /\ Write(x, row) /\ RemoveSeen(x)
    BY <1>1, <1>5 DEF DetachAvatar, Others, Row, OrNone, At
  <2>2. KeepsRows /\ profiles'[reqs[x].user] = row
    BY <1>1, <2>1, Writes
  <2>3. QED
    BY <2>1, <2>2, RemoveSeenTyped, TypedIf
<1>6. CASE RemoveAvatar(x)
  <2>1. KeepsRows /\ End(x)
    BY <1>6, SameRows DEF RemoveAvatar
  <2>2. reqs' \in [Clients -> {NoReq} \cup Req] /\ Stages'
    BY <2>1, Ends
  <2>3. QED
    BY <1>6, <2>1, <2>2 DEF RemoveAvatar, Typed, Tables, KeepsRows
<1>7. QED
  BY <1>3, <1>4, <1>5, <1>6

LEMMA VerificationTyped ==
  ASSUME ProfilesAssumption, Typed, NEW x \in Clients,
         LookUpPhone(x) \/ ClearVerification(x) \/ CheckCode(x)
  PROVE  Typed'
<1>1. /\ reqs[x] \in Req /\ Stage(reqs[x]) /\ reqs[x].user \in Users /\ ~At(x, "idle")
      /\ Mine(x) \in Row /\ UNCHANGED Others
  BY UnderWay DEF LookUpPhone, ClearVerification, CheckCode, At, Others
<1>2. ASSUME UNCHANGED profiles, NEW pc \in Pcs, Goto(x, pc), Stage([reqs[x] EXCEPT !.pc = pc])
      PROVE  Typed'
  <2>1. KeepsRows /\ profiles'[reqs[x].user] \in Row
    BY <1>1, <1>2, SameRows DEF Mine
  <2>2. QED
    BY <1>1, <1>2, <2>1, Goes, TypedIf
<1>3. ASSUME UNCHANGED profiles, End(x) PROVE Typed'
  BY <1>1, <1>3, SameRows, Ends, TypedIf
<1>4. CASE LookUpPhone(x)
  <2>1. UNCHANGED profiles /\ (End(x) \/ Goto(x, "store")) /\ reqs[x].op = "phone" /\ reqs[x].pc = "phone"
    BY <1>1, <1>4 DEF LookUpPhone, Stage, Ops, At
  <2>2. "store" \in Pcs /\ Stage([reqs[x] EXCEPT !.pc = "store"])
    BY <1>1, <2>1 DEF Stage, Req, Pcs, Ops
  <2>3. QED
    BY <1>2, <1>3, <2>1, <2>2
<1>5. CASE ClearVerification(x)
  <2> DEFINE row == [Mine(x) EXCEPT !.token = 0, !.expired = FALSE, !.recent = FALSE, !.attempts = 0]
  <2>1. row \in Row
    <3>1. 0 \in 0..MaxCodes /\ 0 \in 0..MaxAttempts
      BY DEF ProfilesAssumption
    <3>2. QED
      BY <1>1, <3>1 DEF Row
  <2>2. Write(x, row) /\ End(x)
    BY <1>5 DEF ClearVerification
  <2>3. QED
    BY <1>1, <2>1, <2>2, Writes, Ends, TypedIf
<1>6. CASE CheckCode(x)
  <2> DEFINE seen == reqs[x].seen
  <2>1. UNCHANGED profiles /\ reqs[x].op = "verify" /\ reqs[x].pc = "verify" /\ seen \in Row
    BY <1>1, <1>6 DEF CheckCode, Stage, Ops, At
  <2>2. \/ End(x)
        \/ Goto(x, "clear")
        \/ seen.token # 0 /\ Goto(x, "miss")
        \/ seen.token # 0 /\ reqs[x].arg = seen.token /\ Goto(x, "accept")
    BY <1>6 DEF CheckCode
  <2>3. \A pc \in {"clear", "miss", "accept"} :
          (pc # "clear" => seen.token # 0) /\ (pc = "accept" => reqs[x].arg = seen.token)
          => pc \in Pcs /\ Stage([reqs[x] EXCEPT !.pc = pc])
    BY <1>1, <2>1 DEF Stage, Req, Pcs, Ops
  <2>4. QED
    BY <1>2, <1>3, <2>1, <2>2, <2>3
<1>7. QED
  BY <1>4, <1>5, <1>6

-----------------------------------------------------------------------------
(* Codes: what the other steps leave alone. *)

\* No row comes to expect a code, or to have a verified number, that it did not.
KeepsPhones ==
  \A u \in Users : profiles'[u] \in Row =>
    /\ profiles'[u].token # 0 =>
         /\ profiles[u] \in Row
         /\ profiles'[u].token = profiles[u].token
         /\ profiles'[u].phone = profiles[u].phone
         /\ profiles'[u].attempts = profiles[u].attempts
    /\ profiles'[u].verified =>
         /\ profiles[u] \in Row
         /\ profiles[u].verified
         /\ profiles'[u].phone = profiles[u].phone

\* Requests end or go on with what they were asked.
KeepsAsked ==
  \A y \in Clients :
    \/ reqs'[y] = NoReq
    \/ /\ ~At(y, "idle")
       /\ reqs'[y].op = reqs[y].op /\ reqs'[y].arg = reqs[y].arg
       /\ reqs'[y].pc = "send" => At(y, "send") /\ reqs'[y].object = reqs[y].object

LEMMA CodesKept ==
  ASSUME Typed, Typed', CodesOK, UNCHANGED codes, KeepsPhones, KeepsAsked PROVE CodesOK'
<1>1. ASSUME NEW u \in Users PROVE Expected(u)'
  BY DEF KeepsPhones, CodesOK, Expected
<1>2. ASSUME NEW y \in Clients, ~At(y, "idle")' PROVE Presents(y)'
  BY <1>2 DEF KeepsAsked, CodesOK, Presents, At, NoReq
<1>3. VerifiedIsProved'
  <2> SUFFICES ASSUME NEW u \in Users, profiles'[u] # NoRow, profiles'[u].verified
               PROVE  \E c \in DOMAIN codes' : /\ codes'[c].user = u
                                               /\ codes'[c].phone = profiles'[u].phone
                                               /\ codes'[c].presented
    BY DEF VerifiedIsProved
  <2>1. profiles'[u] \in Row
    BY DEF Typed, Tables
  <2>2. profiles[u] \in Row /\ profiles[u].verified /\ profiles'[u].phone = profiles[u].phone
    BY <2>1 DEF KeepsPhones
  <2>3. QED
    BY <2>2, Rows DEF CodesOK, VerifiedIsProved
<1>4. GuessesAreBounded'
  BY DEF CodesOK, GuessesAreBounded
<1>5. QED
  BY <1>1, <1>2, <1>3, <1>4 DEF CodesOK

LEMMA SamePhones == ASSUME UNCHANGED profiles PROVE KeepsPhones
BY DEF KeepsPhones

LEMMA WritesPhones ==
  ASSUME Typed, NEW x \in Clients, ~At(x, "idle"), NEW row \in Row, Write(x, row),
         row.token # 0 => /\ Mine(x) \in Row /\ row.token = Mine(x).token
                          /\ row.phone = Mine(x).phone /\ row.attempts = Mine(x).attempts,
         row.verified => /\ Mine(x) \in Row /\ Mine(x).verified
                         /\ row.phone = Mine(x).phone
  PROVE  KeepsPhones
<1>1. profiles' = [profiles EXCEPT ![reqs[x].user] = row] /\ reqs[x].user \in Users
  BY UnderWay DEF Write
<1>2. profiles \in [Users -> {NoRow} \cup Row]
  BY DEF Typed, Tables
<1>3. ASSUME NEW u \in Users, u # reqs[x].user PROVE profiles'[u] = profiles[u]
  BY <1>1, <1>2, <1>3
<1>4. profiles'[reqs[x].user] = row
  BY <1>1, <1>2
<1>5. QED
  BY <1>3, <1>4 DEF KeepsPhones, Mine

LEMMA AsksEnd == ASSUME Typed, NEW x \in Clients, End(x) PROVE KeepsAsked
<1>1. \A y \in Clients : reqs[y] \in Req \/ reqs[y] = NoReq
  BY DEF Typed, Tables
<1>2. \A y \in Clients : reqs'[y] = NoReq \/ reqs'[y] = reqs[y]
  BY DEF Typed, Tables, End
<1>3. QED
  BY <1>1, <1>2, Rows DEF KeepsAsked, At

LEMMA AsksGo ==
  ASSUME Typed, NEW x \in Clients, ~At(x, "idle"), NEW r \in Req, reqs' = [reqs EXCEPT ![x] = r],
         r.op = reqs[x].op, r.arg = reqs[x].arg, r.pc # "send"
  PROVE  KeepsAsked
<1>1. \A y \in Clients : reqs[y] \in Req \/ reqs[y] = NoReq
  BY DEF Typed, Tables
<1>2. \A y \in Clients : reqs'[y] = (IF y = x THEN r ELSE reqs[y])
  BY DEF Typed, Tables
<1>3. QED
  BY <1>1, <1>2, Rows DEF KeepsAsked, At

LEMMA AsksGoto ==
  ASSUME Typed, NEW x \in Clients, ~At(x, "idle"), NEW pc \in Pcs, pc # "send", Goto(x, pc)
  PROVE  KeepsAsked
<1> DEFINE r == [reqs[x] EXCEPT !.pc = pc]
<1>1. reqs[x] \in Req
  BY UnderWay
<1>2. r \in Req /\ r.pc = pc /\ r.op = reqs[x].op /\ r.arg = reqs[x].arg
  BY <1>1 DEF Req
<1>3. reqs' = [reqs EXCEPT ![x] = r]
  BY DEF Goto
<1>4. QED
  BY <1>2, <1>3, AsksGo

LEMMA AsksEnsured ==
  ASSUME Typed, NEW x \in Clients, ~At(x, "idle"), NEW row \in Row, Ensured(x, row)
  PROVE  KeepsAsked
<1> DEFINE r == [reqs[x] EXCEPT !.pc = reqs[x].op, !.seen = row]
<1>1. reqs[x] \in Req
  BY UnderWay
<1>2. CASE reqs[x].op = "me"
  BY <1>2, AsksEnd DEF Ensured
<1>3. CASE reqs[x].op # "me"
  <2>1. r \in Req /\ r.op = reqs[x].op /\ r.arg = reqs[x].arg /\ r.pc # "send"
    <3>1. reqs[x].op \in Pcs \ {"send"}
      BY <1>1, <1>3 DEF Req, Pcs, Ops
    <3>2. QED
      BY <1>1, <3>1 DEF Req
  <2>2. reqs' = [reqs EXCEPT ![x] = r]
    BY <1>3 DEF Ensured
  <2>3. QED
    BY <2>1, <2>2, AsksGo
<1>4. QED
  BY <1>2, <1>3

LEMMA UpdateSettingsTyped ==
  ASSUME Typed, NEW x \in Clients, UpdateSettings(x) PROVE Typed'
<1> DEFINE u == reqs[x].user
           arg == reqs[x].arg
<1>1. /\ u \in Users /\ KeepsRows /\ End(x) /\ arg \in Choices
      /\ UNCHANGED <<profiles, replica, avatars, codes, erased, ops>>
  <2>1. ~At(x, "idle") /\ reqs[x].pc = "settings"
    BY DEF UpdateSettings, At
  <2>2. QED
    BY <2>1, UnderWay, SameRows DEF UpdateSettings, Stage, Ops
<1>2. Upsert(u, arg) \in Settings
  <2>1. settings[u] \in {NoRow} \cup Settings
    BY <1>1 DEF Typed, Tables
  <2>2. Stored(settings[u]) \in Settings
    BY <2>1 DEF Stored, Defaults, Settings
  <2>3. QED
    BY <1>1, <2>2 DEF Upsert, Merge, Supplied, Settings, Choices
<1>3. settings' \in [Users -> {NoRow} \cup Settings]
  BY <1>1, <1>2 DEF UpdateSettings, Typed, Tables
<1>4. chosen' \in [Users -> Chosen]
  <2> DEFINE new == [theme |-> Supplied(arg.theme, chosen[u].theme),
                     language |-> Supplied(arg.language, chosen[u].language)]
  <2>1. chosen[u] \in Chosen
    BY <1>1 DEF Typed, Tables
  <2>2. new \in Chosen
    BY <1>1, <2>1 DEF Supplied, Chosen, Choices
  <2>3. chosen' = [chosen EXCEPT ![u] = new]
    BY DEF UpdateSettings
  <2>4. QED
    BY <2>2, <2>3 DEF Typed, Tables
<1>5. reqs' \in [Clients -> {NoReq} \cup Req] /\ Stages'
  BY <1>1, Ends
<1>6. QED
  BY <1>1, <1>3, <1>4, <1>5 DEF Typed, Tables, KeepsRows

\* The steps that neither draw, deliver, answer nor accept a code.
Plain(x) ==
  \/ FindProfile(x) \/ Provision(x) \/ SyncIdentity(x)
  \/ UpdateProfile(x)
  \/ PutAvatar(x) \/ AttachAvatar(x) \/ DetachAvatar(x) \/ RemoveAvatar(x)
  \/ LookUpPhone(x) \/ ClearVerification(x) \/ CheckCode(x)
  \/ UpdateSettings(x)

LEMMA PlainTyped ==
  ASSUME ProfilesAssumption, Typed, NEW x \in Clients, Plain(x) PROVE Typed'
BY FindProfileTyped, ProvisionTyped, SyncIdentityTyped, UpdateProfileTyped, AvatarTyped,
   VerificationTyped, UpdateSettingsTyped DEF Plain

LEMMA Written ==
  ASSUME Typed, Typed', NEW x \in Clients, ~At(x, "idle"), NEW row, Write(x, row), row.row
  PROVE  row \in Row
<1>1. reqs[x].user \in Users
  BY UnderWay
<1>2. profiles'[reqs[x].user] = row
  BY <1>1 DEF Write, Typed, Tables
<1>3. row \in {NoRow} \cup Row
  BY <1>1, <1>2 DEF Typed, Tables
<1>4. QED
  BY <1>3 DEF NoRow

LEMMA PlainPhones ==
  ASSUME ProfilesAssumption, Typed, NEW x \in Clients, Plain(x) PROVE KeepsPhones
<1> DEFINE u == reqs[x].user
<1>1. reqs[x] \in Req /\ ~At(x, "idle") /\ (reqs[x].pc \notin {"ensure", "provision"} => Mine(x) \in Row)
  BY UnderWay DEF Plain, FindProfile, Provision, SyncIdentity, UpdateProfile, PutAvatar, AttachAvatar,
                  DetachAvatar, RemoveAvatar, LookUpPhone, ClearVerification, CheckCode, UpdateSettings, At
<1>2. ASSUME NEW row \in Row, Write(x, row), Mine(x) \in Row,
             row.token = Mine(x).token, row.phone = Mine(x).phone,
             row.attempts = Mine(x).attempts, row.verified = Mine(x).verified
      PROVE  KeepsPhones
  BY <1>1, <1>2, WritesPhones
<1>3. ASSUME UNCHANGED profiles PROVE KeepsPhones
  BY <1>3, SamePhones
<1>4. CASE Provision(x)
  <2> DEFINE row == NewRow(reqs[x].tok)
  <2>1. row \in Row /\ row.token = 0 /\ ~row.verified
    BY <1>1, NewRowType DEF Req, NewRow
  <2>2. Write(x, row) \/ UNCHANGED profiles
    BY <1>4 DEF Provision
  <2>3. QED
    BY <1>1, <1>3, <2>1, <2>2, WritesPhones
<1>5. CASE SyncIdentity(x)
  <2> DEFINE row == [Mine(x) EXCEPT !.email = EmailOf(reqs[x].tok, reqs[x].seen),
                                    !.synced = reqs[x].tok.iat]
  <2>1. Write(x, row) /\ Mine(x) \in Row /\ u \in Users
    BY <1>1, <1>5 DEF SyncIdentity, At, Req
  <2>2. row.row
    BY <2>1 DEF Row
  <2>3. row \in Row
    BY <1>1, <1>5, <2>1, <2>2, SyncIdentityTyped, Written
  <2>4. QED
    BY <1>2, <2>1, <2>3 DEF Row
<1>6. CASE UpdateProfile(x)
  <2> DEFINE row == [Mine(x) EXCEPT !.name = Supplied(reqs[x].arg.name, reqs[x].seen.name),
                                    !.private = Supplied(reqs[x].arg.private, reqs[x].seen.private)]
  <2>1. (Write(x, row) \/ UNCHANGED profiles) /\ Mine(x) \in Row /\ u \in Users
    BY <1>1, <1>6 DEF UpdateProfile, At, Req
  <2>2. row.row
    BY <2>1 DEF Row
  <2>3. Write(x, row) => row \in Row
    BY <1>1, <1>6, <2>2, UpdateProfileTyped, Written
  <2>4. QED
    BY <1>2, <1>3, <2>1, <2>3 DEF Row
<1>7. CASE AttachAvatar(x) \/ DetachAvatar(x)
  <2>1. PICK o : Write(x, [Mine(x) EXCEPT !.avatar = o]) \/ UNCHANGED profiles
    BY <1>7 DEF AttachAvatar, DetachAvatar
  <2> DEFINE row == [Mine(x) EXCEPT !.avatar = o]
  <2>2. Mine(x) \in Row /\ u \in Users
    BY <1>1, <1>7 DEF AttachAvatar, DetachAvatar, At, Req
  <2>3. row.row
    BY <2>2 DEF Row
  <2>4. Write(x, row) => row \in Row
    BY <1>1, <1>7, <2>3, AvatarTyped, Written
  <2>5. QED
    BY <1>2, <1>3, <2>1, <2>2, <2>4 DEF Row
<1>8. CASE ClearVerification(x)
  <2> DEFINE row == [Mine(x) EXCEPT !.token = 0, !.expired = FALSE, !.recent = FALSE, !.attempts = 0]
  <2>1. Mine(x) \in Row /\ 0 \in 0..MaxCodes /\ 0 \in 0..MaxAttempts
    BY <1>1, <1>8 DEF ClearVerification, At, ProfilesAssumption
  <2>2. row \in Row /\ row.token = 0 /\ row.verified = Mine(x).verified /\ row.phone = Mine(x).phone
    BY <2>1 DEF Row
  <2>3. Write(x, row)
    BY <1>8 DEF ClearVerification
  <2>4. QED
    BY <1>1, <2>1, <2>2, <2>3, WritesPhones
<1>9. CASE \/ FindProfile(x) \/ PutAvatar(x) \/ RemoveAvatar(x) \/ LookUpPhone(x) \/ CheckCode(x)
           \/ UpdateSettings(x)
  BY <1>3, <1>9 DEF FindProfile, PutAvatar, RemoveAvatar, LookUpPhone, CheckCode, UpdateSettings
<1>10. QED
  BY <1>4, <1>5, <1>6, <1>7, <1>8, <1>9 DEF Plain

LEMMA PlainAsked ==
  ASSUME ProfilesAssumption, Typed, NEW x \in Clients, Plain(x) PROVE KeepsAsked
<1>1. /\ reqs[x] \in Req /\ ~At(x, "idle") /\ Stage(reqs[x])
      /\ (reqs[x].pc \notin {"ensure", "provision"} => Mine(x) \in Row)
  BY UnderWay DEF Plain, FindProfile, Provision, SyncIdentity, UpdateProfile, PutAvatar, AttachAvatar,
                  DetachAvatar, RemoveAvatar, LookUpPhone, ClearVerification, CheckCode, UpdateSettings, At
<1>2. End(x) => KeepsAsked
  BY AsksEnd
<1>3. \A pc \in Pcs \ {"send"} : Goto(x, pc) => KeepsAsked
  BY <1>1, AsksGoto
<1>4. \A row \in Row : Ensured(x, row) => KeepsAsked
  BY <1>1, AsksEnsured
<1>5. CASE FindProfile(x)
  <2>1. reqs[x].user \in Users
    BY <1>1 DEF Req
  <2>2. Mine(x) \in {NoRow} \cup Row
    BY <2>1 DEF Mine, Typed, Tables
  <2> DEFINE r == [reqs[x] EXCEPT !.pc = "sync", !.seen = Mine(x)]
  <2>3. Mine(x) \in Row => r \in Req /\ r.op = reqs[x].op /\ r.arg = reqs[x].arg /\ r.pc # "send"
    BY <1>1 DEF Req, Pcs
  <2>4. \/ Goto(x, "provision")
        \/ Mine(x) \in Row /\ reqs' = [reqs EXCEPT ![x] = r]
        \/ Mine(x) \in Row /\ Ensured(x, Mine(x))
    BY <1>5, <2>2 DEF FindProfile
  <2>5. "provision" \in Pcs \ {"send"}
    BY DEF Pcs
  <2>6. QED
    BY <1>1, <1>3, <1>4, <2>3, <2>4, <2>5, AsksGo
<1>6. CASE Provision(x)
  <2>1. NewRow(reqs[x].tok) \in Row /\ "ensure" \in Pcs \ {"send"}
    BY <1>1, NewRowType DEF Req, Pcs
  <2>2. QED
    BY <1>3, <1>4, <1>6, <2>1 DEF Provision
<1>7. CASE SyncIdentity(x)
  <2> DEFINE row == [Mine(x) EXCEPT !.email = EmailOf(reqs[x].tok, reqs[x].seen),
                                    !.synced = reqs[x].tok.iat]
  <2>1. Mine(x) \in Row /\ Write(x, row) /\ Ensured(x, row)
    BY <1>1, <1>7 DEF SyncIdentity, At
  <2>2. row.row
    BY <2>1 DEF Row
  <2>3. row \in Row
    BY <1>1, <1>7, <2>1, <2>2, SyncIdentityTyped, Written
  <2>4. QED
    BY <1>4, <2>1, <2>3
<1>8. CASE AttachAvatar(x) \/ DetachAvatar(x)
  <2> DEFINE r == [reqs[x] EXCEPT !.pc = "remove", !.object = reqs[x].seen.avatar]
  <2>1. reqs[x].seen \in Row
    BY <1>1, <1>8 DEF AttachAvatar, DetachAvatar, At, Stage
  <2>2. reqs[x].seen.avatar # None => r \in Req /\ r.op = reqs[x].op /\ r.arg = reqs[x].arg /\ r.pc # "send"
    BY <1>1, <2>1 DEF Req, Row, OrNone, Pcs
  <2>3. ASSUME RemoveSeen(x) PROVE KeepsAsked
    <3>1. End(x) \/ (reqs[x].seen.avatar # None /\ reqs' = [reqs EXCEPT ![x] = r])
      BY <2>3 DEF RemoveSeen
    <3>2. QED
      BY <1>1, <1>2, <2>2, <3>1, AsksGo
  <2>4. "undo" \in Pcs \ {"send"}
    BY DEF Pcs
  <2>5. QED
    BY <1>3, <1>8, <2>3, <2>4 DEF AttachAvatar, DetachAvatar
<1>9. CASE PutAvatar(x) \/ LookUpPhone(x) \/ CheckCode(x)
  <2>1. {"attach", "store", "clear", "miss", "accept"} \subseteq Pcs \ {"send"}
    BY DEF Pcs
  <2>2. End(x) \/ \E pc \in {"attach", "store", "clear", "miss", "accept"} : Goto(x, pc)
    BY <1>9 DEF PutAvatar, LookUpPhone, CheckCode
  <2>3. QED
    BY <1>2, <1>3, <2>1, <2>2
<1>10. CASE UpdateProfile(x) \/ RemoveAvatar(x) \/ ClearVerification(x) \/ UpdateSettings(x)
  BY <1>2, <1>10 DEF UpdateProfile, RemoveAvatar, ClearVerification, UpdateSettings
<1>11. QED
  BY <1>5, <1>6, <1>7, <1>8, <1>9, <1>10 DEF Plain

LEMMA PlainCodes ==
  ASSUME ProfilesAssumption, Typed, CodesOK, NEW x \in Clients, Plain(x) PROVE Typed' /\ CodesOK'
<1>1. UNCHANGED codes
  BY DEF Plain, FindProfile, Provision, SyncIdentity, UpdateProfile, PutAvatar, AttachAvatar,
         DetachAvatar, RemoveAvatar, LookUpPhone, ClearVerification, CheckCode, UpdateSettings
<1>2. QED
  BY <1>1, PlainTyped, PlainPhones, PlainAsked, CodesKept

-----------------------------------------------------------------------------
(* Codes: the steps that draw, deliver, answer and accept them. *)

\* The code numbered c is replaced by e.
LEMMA CodeWritten ==
  ASSUME Typed, NEW c \in 1..Len(codes), NEW e \in Code, codes' = [codes EXCEPT ![c] = e]
  PROVE  /\ codes' \in Seq(Code) /\ Len(codes') = Len(codes) /\ DOMAIN codes' = DOMAIN codes
         /\ codes'[c] = e
         /\ \A d \in 1..Len(codes) : d # c => codes'[d] = codes[d]
<1>1. codes \in Seq(Code)
  BY DEF Typed, Tables
<1>2. DOMAIN codes = 1..Len(codes)
  BY <1>1
<1>3. QED
  BY <1>1, <1>2, ExceptSeq

LEMMA CodeAt == ASSUME Typed, NEW c \in 1..Len(codes) PROVE codes[c] \in Code /\ c \in DOMAIN codes
BY ElementOfSeq DEF Typed, Tables

LEMMA TypedWithCodes ==
  ASSUME Typed, KeepsRows, UNCHANGED <<replica, settings, chosen, avatars, erased, ops>>,
         codes' \in Seq(Code), Len(codes') <= MaxCodes,
         reqs' \in [Clients -> {NoReq} \cup Req], Stages'
  PROVE  Typed'
BY DEF Typed, Tables, KeepsRows

LEMMA SendCodeInv ==
  ASSUME Typed, CodesOK, NEW x \in Clients, SendCode(x) PROVE Typed' /\ CodesOK'
<1> DEFINE c == reqs[x].object
           e == [codes[c] EXCEPT !.delivered = TRUE]
<1>1. /\ reqs[x] \in Req /\ ~At(x, "idle") /\ Stage(reqs[x]) /\ Mine(x) \in Row /\ At(x, "send")
      /\ reqs[x].op = "phone" /\ KeepsRows /\ KeepsPhones
  BY UnderWay, SameRows, SamePhones DEF SendCode, At, Stage
<1>2. c \in 1..Len(codes)
  BY <1>1 DEF CodesOK, Presents
<1>3. codes[c] \in Code /\ e \in Code
  BY <1>2, CodeAt DEF Code
<1>4. End(x) \/ Goto(x, "clear")
  BY DEF SendCode
<1>5. KeepsAsked
  <2>1. "clear" \in Pcs
    BY DEF Pcs
  <2>2. QED
    BY <1>1, <1>4, <2>1, AsksEnd, AsksGoto
<1>6. reqs' \in [Clients -> {NoReq} \cup Req] /\ Stages'
  <2>1. "clear" \in Pcs /\ Stage([reqs[x] EXCEPT !.pc = "clear"])
    BY <1>1 DEF Stage, Req, Pcs, Ops, At
  <2>2. profiles'[reqs[x].user] \in Row
    BY <1>1 DEF SendCode, Mine
  <2>3. QED
    BY <1>1, <1>4, <2>1, <2>2, Ends, Goes
<1>7. CASE UNCHANGED codes
  <2>1. Typed'
    BY <1>1, <1>6, <1>7, TypedIf DEF SendCode, Others
  <2>2. QED
    BY <1>1, <1>5, <1>7, <2>1, CodesKept
<1>8. CASE codes' = [codes EXCEPT ![c] = e]
  <2>1. /\ codes' \in Seq(Code) /\ Len(codes') = Len(codes) /\ DOMAIN codes' = DOMAIN codes
        /\ codes'[c] = e
        /\ \A d \in 1..Len(codes) : d # c => codes'[d] = codes[d]
    BY <1>2, <1>3, <1>8, CodeWritten
  <2>2. Typed'
    BY <1>1, <1>6, <2>1, TypedWithCodes DEF SendCode, Typed, Tables
  <2>3. \A d \in 1..Len(codes) :
          /\ codes'[d].user = codes[d].user /\ codes'[d].phone = codes[d].phone
          /\ codes'[d].presented = codes[d].presented
          /\ codes'[d].misses = codes[d].misses /\ codes'[d].accepted = codes[d].accepted
    BY <1>3, <2>1 DEF Code
  <2>4. DOMAIN codes = 1..Len(codes)
    BY DEF Typed, Tables
  <2>5. \A u \in Users : Expected(u)'
    BY <1>1, <2>1, <2>3 DEF CodesOK, Expected, SendCode
  <2>6. \A y \in Clients : ~At(y, "idle")' => Presents(y)'
    BY <1>5, <2>1, <2>3 DEF KeepsAsked, CodesOK, Presents, At, NoReq
  <2>7. VerifiedIsProved'
    BY <2>1, <2>3, <2>4 DEF CodesOK, VerifiedIsProved, SendCode
  <2>8. GuessesAreBounded'
    BY <2>1, <2>3, <2>4 DEF CodesOK, GuessesAreBounded
  <2>9. QED
    BY <2>2, <2>5, <2>6, <2>7, <2>8 DEF CodesOK
<1>9. QED
  BY <1>7, <1>8 DEF SendCode

LEMMA StoreCodeInv ==
  ASSUME ProfilesAssumption, Typed, CodesOK, NEW x \in Clients, StoreCode(x) PROVE Typed' /\ CodesOK'
<1> DEFINE u == reqs[x].user
           e == [user |-> u, phone |-> reqs[x].arg, delivered |-> FALSE,
                 presented |-> FALSE, misses |-> 0, accepted |-> 0]
           n == Len(codes) + 1
           row == [Mine(x) EXCEPT !.phone = reqs[x].arg, !.verified = FALSE, !.token = n,
                                  !.attempts = 0, !.recent = TRUE, !.expired = FALSE]
           r == [reqs[x] EXCEPT !.pc = "send", !.object = n]
<1>1. /\ reqs[x] \in Req /\ ~At(x, "idle") /\ Stage(reqs[x]) /\ Mine(x) \in Row /\ reqs[x].pc = "store"
      /\ u \in Users
  BY UnderWay DEF StoreCode, At
<1>2. reqs[x].op = "phone" /\ reqs[x].arg \in Phones
  BY <1>1 DEF Stage
<1>3. e \in Code
  BY <1>1, <1>2 DEF Code
<1>4. codes \in Seq(Code) /\ Len(codes) \in Nat /\ DOMAIN codes = 1..Len(codes)
  BY DEF Typed, Tables
<1>5. /\ codes' \in Seq(Code) /\ Len(codes') = n /\ codes'[n] = e
      /\ \A d \in 1..Len(codes) : codes'[d] = codes[d]
  BY <1>3, <1>4, AppendProperties DEF StoreCode
<1>6. n \in 1..MaxCodes /\ DOMAIN codes' = 1..n
  BY <1>4, <1>5 DEF StoreCode, ProfilesAssumption
<1>7. row \in Row /\ row.token = n /\ row.phone = reqs[x].arg /\ ~row.verified /\ row.attempts = 0
  <2>1. n \in 0..MaxCodes /\ 0 \in 0..MaxAttempts
    BY <1>6 DEF ProfilesAssumption
  <2>2. QED
    BY <1>1, <1>2, <2>1 DEF Row, OrNone
<1>8. Write(x, row) /\ reqs' = [reqs EXCEPT ![x] = r]
  BY <1>5 DEF StoreCode
<1>9. KeepsRows /\ profiles'[u] = row
  BY <1>1, <1>7, <1>8, Writes
<1>10. r \in Req /\ Stage(r) /\ r.user = u /\ r.object = n /\ r.op = "phone"
  BY <1>1, <1>2, <1>6 DEF Req, Stage, Pcs, Ops
<1>11. Typed'
  <2> HIDE DEF r, row
  <2>1. reqs' \in [Clients -> {NoReq} \cup Req] /\ Stages'
    BY <1>7, <1>8, <1>9, <1>10, Becomes
  <2>2. QED
    BY <1>5, <1>6, <1>9, <2>1, TypedWithCodes DEF StoreCode
<1>12. \A v \in Users : v # u => profiles'[v] = profiles[v]
  BY <1>8 DEF Write, Typed, Tables
<1>13. \A v \in Users : Expected(v)'
  <2> TAKE v \in Users
  <2>1. CASE v = u
    <3>1. /\ codes'[n].user = u /\ codes'[n].phone = row.phone
          /\ codes'[n].misses = 0 /\ codes'[n].accepted = 0
      BY <1>5, <1>7
    <3>2. profiles'[v] = row /\ n \in 1..Len(codes')
      BY <1>5, <1>6, <1>9, <2>1
    <3> HIDE DEF row, n, e
    <3>3. QED
      BY <1>7, <2>1, <3>1, <3>2 DEF Expected
  <2>2. CASE v # u
    BY <1>4, <1>5, <1>6, <1>12, <2>2 DEF CodesOK, Expected
  <2>3. QED
    BY <2>1, <2>2
<1>14. ASSUME NEW y \in Clients, ~At(y, "idle")' PROVE Presents(y)'
  <2>1. CASE y = x
    <3>1. reqs'[x] = r
      BY <1>8 DEF Typed, Tables
    <3>2. QED
      BY <1>5, <1>6, <1>10, <2>1, <3>1 DEF Presents, At
  <2>2. CASE y # x
    <3>1. reqs'[y] = reqs[y]
      BY <1>8, <2>2 DEF Typed, Tables
    <3>2. QED
      BY <1>4, <1>5, <1>6, <1>14, <3>1 DEF CodesOK, Presents, At
  <2>3. QED
    BY <2>1, <2>2
<1>15. VerifiedIsProved'
  <2> SUFFICES ASSUME NEW v \in Users, profiles'[v] # NoRow, profiles'[v].verified
               PROVE  \E c \in DOMAIN codes' : /\ codes'[c].user = v
                                               /\ codes'[c].phone = profiles'[v].phone
                                               /\ codes'[c].presented
    BY DEF VerifiedIsProved
  <2>1. v # u
    BY <1>7, <1>9
  <2>2. QED
    BY <1>4, <1>5, <1>6, <1>12, <2>1 DEF CodesOK, VerifiedIsProved
<1>16. GuessesAreBounded'
  <2> SUFFICES ASSUME NEW c \in 1..n PROVE codes'[c].misses <= MaxAttempts /\ codes'[c].accepted <= 1
    BY <1>6 DEF GuessesAreBounded
  <2>1. CASE c = n
    BY <1>5, <2>1 DEF ProfilesAssumption
  <2>2. CASE c # n
    <3>1. c \in 1..Len(codes)
      BY <1>4, <2>2
    <3>2. QED
      BY <1>4, <1>5, <3>1 DEF CodesOK, GuessesAreBounded
  <2>3. QED
    BY <2>1, <2>2
<1>17. QED
  BY <1>11, <1>13, <1>14, <1>15, <1>16 DEF CodesOK

\* What an answer to a guess compares: the code expected now is the one read.
LEMMA AnswerFacts ==
  ASSUME Typed, CodesOK, NEW x \in Clients, reqs[x].pc \in {"miss", "accept"},
         StillExpected(Mine(x), reqs[x].seen)
  PROVE  /\ reqs[x] \in Req /\ reqs[x].user \in Users /\ Mine(x) \in Row /\ ~At(x, "idle")
         /\ Mine(x).attempts < MaxAttempts
         /\ Mine(x).token = reqs[x].seen.token
         /\ reqs[x].seen.token \in 1..Len(codes)
         /\ codes[reqs[x].seen.token] \in Code
         /\ codes[reqs[x].seen.token].user = reqs[x].user
         /\ codes[reqs[x].seen.token].phone = Mine(x).phone
         /\ codes[reqs[x].seen.token].misses = Mine(x).attempts
         /\ codes[reqs[x].seen.token].accepted = 0
<1>1. /\ reqs[x] \in Req /\ reqs[x].user \in Users /\ Mine(x) \in Row /\ ~At(x, "idle")
      /\ reqs[x].seen.token # 0
  BY UnderWay DEF At, Stage
<1>2. Expected(reqs[x].user)
  BY <1>1 DEF CodesOK
<1>3. Mine(x).token = reqs[x].seen.token /\ Mine(x).attempts < MaxAttempts
  BY DEF StillExpected
<1>4. reqs[x].seen.token \in 1..Len(codes)
  BY <1>1, <1>2, <1>3 DEF Expected, Mine
<1>5. QED
  BY <1>1, <1>2, <1>3, <1>4, CodeAt DEF Expected, Mine

LEMMA Discarded ==
  ASSUME Typed, CodesOK, NEW x \in Clients, End(x), UNCHANGED <<profiles, codes>>, UNCHANGED Others
  PROVE  Typed' /\ CodesOK'
<1>1. KeepsRows /\ KeepsPhones /\ KeepsAsked
  BY SameRows, SamePhones, AsksEnd
<1>2. Typed'
  BY <1>1, Ends, TypedIf
<1>3. QED
  BY <1>1, <1>2, CodesKept

\* A code is answered: no other row expects it.
LEMMA Answered ==
  ASSUME Typed, CodesOK, NEW x \in Clients, reqs[x].pc \in {"miss", "accept"},
         StillExpected(Mine(x), reqs[x].seen), End(x),
         UNCHANGED <<replica, settings, chosen, avatars, erased, ops>>,
         NEW row \in Row, Write(x, row), row.phone = Mine(x).phone,
         NEW e \in Code, codes' = [codes EXCEPT ![reqs[x].seen.token] = e],
         e.user = reqs[x].user, e.phone = Mine(x).phone, e.misses <= MaxAttempts, e.accepted <= 1,
         e.presented = codes[reqs[x].seen.token].presented,
         row.token = 0 \/ (row.token = reqs[x].seen.token /\ row.attempts = e.misses /\ e.accepted = 0),
         row.verified => Mine(x).verified \/ e.presented
  PROVE  Typed' /\ CodesOK'
<1> DEFINE u == reqs[x].user
           c == reqs[x].seen.token
<1>1. /\ reqs[x] \in Req /\ u \in Users /\ Mine(x) \in Row /\ ~At(x, "idle")
      /\ c \in 1..Len(codes) /\ codes[c].user = u /\ Mine(x).token = c
  BY AnswerFacts
<1>2. /\ codes' \in Seq(Code) /\ Len(codes') = Len(codes) /\ DOMAIN codes' = DOMAIN codes
      /\ codes'[c] = e
      /\ \A d \in 1..Len(codes) : d # c => codes'[d] = codes[d]
  BY <1>1, CodeWritten
<1>3. KeepsRows /\ profiles'[u] = row
  BY <1>1, Writes
<1>4. Typed'
  BY <1>2, <1>3, Ends, TypedWithCodes DEF Typed, Tables
<1>5. \A v \in Users : v # u => profiles'[v] = profiles[v]
  BY DEF Write, Typed, Tables
<1>6. DOMAIN codes = 1..Len(codes)
  BY DEF Typed, Tables
<1>7. \A d \in 1..Len(codes) :
        /\ codes'[d].user = codes[d].user /\ codes'[d].phone = codes[d].phone
        /\ codes'[d].presented = codes[d].presented
  <2>1. codes[c].phone = Mine(x).phone
    BY AnswerFacts
  <2>2. QED
    BY <1>1, <1>2, <2>1
<1>8. \A v \in Users : Expected(v)'
  <2> TAKE v \in Users
  <2>1. CASE v = u
    BY <1>1, <1>2, <1>3, <2>1 DEF Expected
  <2>2. CASE v # u
    <3>1. Expected(v) /\ profiles'[v] = profiles[v]
      BY <1>5, <2>2 DEF CodesOK
    <3>2. profiles[v] \in Row /\ profiles[v].token # 0 => profiles[v].token # c
      BY <1>1, <2>2, <3>1 DEF Expected
    <3>3. QED
      BY <1>2, <3>1, <3>2 DEF Expected
  <2>3. QED
    BY <2>1, <2>2
<1>9. KeepsAsked
  BY AsksEnd
<1>10. \A y \in Clients : ~At(y, "idle")' => Presents(y)'
  BY <1>2, <1>7, <1>9 DEF KeepsAsked, CodesOK, Presents, At, NoReq
<1>11. VerifiedIsProved'
  <2> SUFFICES ASSUME NEW v \in Users, profiles'[v] # NoRow, profiles'[v].verified
               PROVE  \E d \in DOMAIN codes' : /\ codes'[d].user = v
                                               /\ codes'[d].phone = profiles'[v].phone
                                               /\ codes'[d].presented
    BY DEF VerifiedIsProved
  <2>1. CASE v = u /\ e.presented
    BY <1>1, <1>2, <1>3, <1>6, <2>1
  <2>2. CASE v = u /\ Mine(x).verified
    <3>1. Mine(x) # NoRow
      BY <1>1, Rows
    <3>2. PICK d \in DOMAIN codes : codes[d].user = u /\ codes[d].phone = Mine(x).phone /\ codes[d].presented
      BY <1>1, <2>2, <3>1 DEF CodesOK, VerifiedIsProved, Mine
    <3>3. QED
      BY <1>2, <1>3, <1>6, <1>7, <2>2, <3>2
  <2>3. CASE v # u
    <3>1. PICK d \in DOMAIN codes : codes[d].user = v /\ codes[d].phone = profiles[v].phone /\ codes[d].presented
      BY <1>5, <2>3 DEF CodesOK, VerifiedIsProved
    <3>2. QED
      BY <1>2, <1>5, <1>6, <1>7, <2>3, <3>1
  <2>4. QED
    BY <1>3, <2>1, <2>2, <2>3
<1>12. GuessesAreBounded'
  BY <1>2, <1>6 DEF CodesOK, GuessesAreBounded
<1>13. QED
  BY <1>4, <1>8, <1>10, <1>11, <1>12 DEF CodesOK

LEMMA CountMissInv ==
  ASSUME ProfilesAssumption, Typed, CodesOK, NEW x \in Clients, CountMiss(x) PROVE Typed' /\ CodesOK'
<1> DEFINE c == reqs[x].seen.token
           e == [codes[c] EXCEPT !.misses = @ + 1]
           row == [Mine(x) EXCEPT !.attempts = @ + 1]
<1>1. reqs[x].pc = "miss" /\ End(x) /\ UNCHANGED <<replica, settings, chosen, avatars, erased, ops>>
  BY DEF CountMiss, At
<1>2. CASE ~StillExpected(Mine(x), reqs[x].seen)
  <2>1. UNCHANGED <<profiles, codes>> /\ UNCHANGED Others
    BY <1>1, <1>2 DEF CountMiss, Others
  <2>2. QED
    BY <1>1, <2>1, Discarded
<1>3. CASE StillExpected(Mine(x), reqs[x].seen)
  <2>1. /\ Mine(x) \in Row /\ Mine(x).attempts < MaxAttempts /\ codes[c] \in Code
        /\ codes[c].misses = Mine(x).attempts /\ codes[c].accepted = 0
        /\ codes[c].user = reqs[x].user /\ codes[c].phone = Mine(x).phone /\ Mine(x).token = c
    BY <1>1, <1>3, AnswerFacts
  <2>2. Mine(x).attempts + 1 \in 0..MaxAttempts
    BY <2>1 DEF Row, ProfilesAssumption
  <2>3. /\ row \in Row /\ row.phone = Mine(x).phone /\ row.token = c
        /\ row.attempts = Mine(x).attempts + 1 /\ row.verified = Mine(x).verified
    BY <2>1, <2>2 DEF Row
  <2>4. /\ e \in Code /\ e.user = codes[c].user /\ e.phone = codes[c].phone
        /\ e.misses = codes[c].misses + 1 /\ e.accepted = 0 /\ e.presented = codes[c].presented
    BY <2>1 DEF Code
  <2>5. Write(x, row) /\ codes' = [codes EXCEPT ![c] = e]
    BY <1>3 DEF CountMiss
  <2>6. e.misses <= MaxAttempts /\ e.accepted <= 1 /\ row.attempts = e.misses
    BY <2>1, <2>2, <2>3, <2>4
  <2>7. QED
    BY <1>1, <1>3, <2>1, <2>3, <2>4, <2>5, <2>6, Answered
<1>4. QED
  BY <1>2, <1>3

LEMMA AcceptCodeInv ==
  ASSUME ProfilesAssumption, Typed, CodesOK, NEW x \in Clients, AcceptCode(x) PROVE Typed' /\ CodesOK'
<1> DEFINE c == reqs[x].seen.token
           e == [codes[c] EXCEPT !.accepted = @ + 1]
           row == [Mine(x) EXCEPT !.verified = TRUE, !.token = 0, !.expired = FALSE,
                                  !.recent = FALSE, !.attempts = 0]
<1>1. reqs[x].pc = "accept" /\ End(x) /\ UNCHANGED <<replica, settings, chosen, avatars, erased, ops>>
  BY DEF AcceptCode, At
<1>2. CASE ~StillExpected(Mine(x), reqs[x].seen)
  <2>1. UNCHANGED <<profiles, codes>> /\ UNCHANGED Others
    BY <1>1, <1>2 DEF AcceptCode, Others
  <2>2. QED
    BY <1>1, <2>1, Discarded
<1>3. CASE StillExpected(Mine(x), reqs[x].seen)
  <2>1. /\ Mine(x) \in Row /\ Mine(x).attempts < MaxAttempts /\ codes[c] \in Code /\ ~At(x, "idle")
        /\ codes[c].misses = Mine(x).attempts /\ codes[c].accepted = 0 /\ c \in 1..Len(codes)
        /\ codes[c].user = reqs[x].user /\ codes[c].phone = Mine(x).phone /\ Mine(x).token = c
    BY <1>1, <1>3, AnswerFacts
  <2>2. codes[c].presented
    <3>1. reqs[x].arg = c /\ reqs[x].op = "verify"
      BY <1>1, <2>1, UnderWay DEF Stage
    <3>2. QED
      BY <2>1, <3>1 DEF CodesOK, Presents
  <2>3. row \in Row /\ row.phone = Mine(x).phone /\ row.token = 0
    <3>1. 0 \in 0..MaxCodes /\ 0 \in 0..MaxAttempts
      BY DEF ProfilesAssumption
    <3>2. QED
      BY <2>1, <3>1 DEF Row
  <2>4. /\ e \in Code /\ e.user = codes[c].user /\ e.phone = codes[c].phone
        /\ e.misses = codes[c].misses /\ e.accepted = 1 /\ e.presented
    BY SMTT(30), <2>1, <2>2 DEF Code
  <2>5. Write(x, row) /\ codes' = [codes EXCEPT ![c] = e]
    BY <1>3 DEF AcceptCode
  <2>6. e.misses <= MaxAttempts /\ e.accepted <= 1
    BY <2>1, <2>4 DEF Row, ProfilesAssumption
  <2> HIDE DEF e, row
  <2>7. QED
    BY <1>1, <1>3, <2>1, <2>2, <2>3, <2>4, <2>5, <2>6, Answered
<1>4. QED
  BY <1>2, <1>3

\* What Ask lets a user ask for.
Asked(u, op, arg) ==
  /\ op \in Ops
  /\ op \in {"me", "avatar", "noavatar"} => arg = None
  /\ op = "profile" => arg \in Changes
  /\ op = "settings" => arg \in Choices
  /\ op = "phone" => arg \in Phones
  /\ op = "verify" => arg \in Presentable(u)

LEMMA AskAsks ==
  ASSUME NEW x \in Clients, NEW u \in Users, Ask(x, u)
  PROVE  \E tok \in Token : \E op, arg : Asked(u, op, arg) /\ Receive(x, u, op, arg, tok)
<1>1. PICK tok \in Token :
        \/ \E op \in {"me", "avatar", "noavatar"} : Receive(x, u, op, None, tok)
        \/ \E arg \in Changes : Receive(x, u, "profile", arg, tok)
        \/ \E arg \in Choices : Receive(x, u, "settings", arg, tok)
        \/ \E n \in Phones : Receive(x, u, "phone", n, tok)
        \/ \E c \in Presentable(u) : Receive(x, u, "verify", c, tok)
  BY DEF Ask
<1>2. /\ \A op \in {"me", "avatar", "noavatar"} : Asked(u, op, None)
      /\ \A arg \in Changes : Asked(u, "profile", arg)
      /\ \A arg \in Choices : Asked(u, "settings", arg)
      /\ \A n \in Phones : Asked(u, "phone", n)
      /\ \A c \in Presentable(u) : Asked(u, "verify", c)
  BY DEF Asked, Ops
<1>3. QED
  BY <1>1, <1>2

LEMMA ReceiveInv ==
  ASSUME ProfilesAssumption, Typed, CodesOK, NEW x \in Clients, NEW u \in Users, NEW op, NEW arg,
         NEW tok \in Token, Asked(u, op, arg), Receive(x, u, op, arg, tok)
  PROVE  Typed' /\ CodesOK'
<1> DEFINE r == [pc |-> "ensure", op |-> op, user |-> u, arg |-> arg,
                 tok |-> tok, seen |-> NoRow, object |-> <<u, ops'>>]
           c == arg
           e == [codes[c] EXCEPT !.presented = TRUE]
<1>1. reqs' = [reqs EXCEPT ![x] = r] /\ UNCHANGED profiles /\ KeepsRows
  BY SameRows DEF Receive
<1>2. ops' \in 1..MaxOps /\ codes \in Seq(Code) /\ DOMAIN codes = 1..Len(codes) /\ Len(codes) \in Nat
  BY DEF Receive, Typed, Tables, ProfilesAssumption
<1>3. op = "verify" => arg \in 0..MaxCodes /\ (arg # 0 => arg \in 1..Len(codes))
  BY <1>2 DEF Asked, Presentable, Typed, Tables, ProfilesAssumption
<1>4. r \in Req /\ Stage(r)
  <2>1. <<u, ops'>> \in Avatars
    BY <1>2 DEF Avatars
  <2>2. op \in Ops /\ arg \in {None} \cup Changes \cup Choices \cup Phones \cup (0..MaxCodes)
    BY <1>3 DEF Asked, Ops
  <2>3. r \in Req
    BY <2>1, <2>2 DEF Req, Pcs
  <2>4. Stage(r)
    BY <1>3, <2>1 DEF Stage, Asked, Ops
  <2>5. QED
    BY <2>3, <2>4
<1>5. reqs' \in [Clients -> {NoReq} \cup Req] /\ Stages'
  BY <1>1, <1>4, Becomes
<1>6. /\ codes' \in Seq(Code) /\ Len(codes') = Len(codes) /\ DOMAIN codes' = DOMAIN codes
      /\ \A d \in 1..Len(codes) :
           /\ codes'[d].user = codes[d].user /\ codes'[d].phone = codes[d].phone
           /\ codes[d].presented => codes'[d].presented
           /\ codes'[d].misses = codes[d].misses /\ codes'[d].accepted = codes[d].accepted
      /\ op = "verify" /\ arg # 0 => codes'[arg].presented
  <2>1. CASE op = "verify" /\ arg # 0
    <3>1. c \in 1..Len(codes) /\ codes[c] \in Code
      BY <1>3, <2>1, CodeAt
    <3>2. /\ e \in Code /\ e.user = codes[c].user /\ e.phone = codes[c].phone /\ e.presented
          /\ e.misses = codes[c].misses /\ e.accepted = codes[c].accepted
      BY <3>1 DEF Code
    <3>3. codes' = [codes EXCEPT ![c] = e]
      BY <2>1 DEF Receive
    <3>4. /\ codes' \in Seq(Code) /\ Len(codes') = Len(codes) /\ DOMAIN codes' = DOMAIN codes
          /\ codes'[c] = e
          /\ \A d \in 1..Len(codes) : d # c => codes'[d] = codes[d]
      BY <3>1, <3>2, <3>3, CodeWritten
    <3> HIDE DEF e
    <3>5. QED
      BY <3>2, <3>4
  <2>2. CASE ~(op = "verify" /\ arg # 0)
    BY <1>2, <2>2 DEF Receive
  <2>3. QED
    BY <2>1, <2>2
<1>7. Typed'
  BY <1>1, <1>2, <1>5, <1>6, ProfilesAssumption DEF Receive, Typed, Tables, KeepsRows, ProfilesAssumption
<1>8. \A v \in Users : Expected(v)'
  BY <1>1, <1>6 DEF CodesOK, Expected
<1>9. ASSUME NEW y \in Clients, ~At(y, "idle")' PROVE Presents(y)'
  <2>1. CASE y = x
    <3>1. reqs'[x] = r
      BY <1>1 DEF Typed, Tables
    <3>2. QED
      BY <1>3, <1>6, <2>1, <3>1 DEF Presents, At
  <2>2. CASE y # x
    <3>1. reqs'[y] = reqs[y]
      BY <1>1, <2>2 DEF Typed, Tables
    <3>2. QED
      BY <1>6, <1>9, <3>1 DEF CodesOK, Presents, At
  <2>3. QED
    BY <2>1, <2>2
<1>10. VerifiedIsProved' /\ GuessesAreBounded'
  BY <1>1, <1>2, <1>6 DEF CodesOK, VerifiedIsProved, GuessesAreBounded
<1>11. QED
  BY <1>7, <1>8, <1>9, <1>10 DEF CodesOK

LEMMA SameAsked == ASSUME Typed, UNCHANGED reqs PROVE KeepsAsked
<1>1. \A y \in Clients : reqs[y] \in Req \/ reqs[y] = NoReq
  BY DEF Typed, Tables
<1>2. QED
  BY <1>1, Rows DEF KeepsAsked, At

LEMMA ElapseInv ==
  ASSUME ProfilesAssumption, Typed, CodesOK, NEW u \in Users, Elapse(u) PROVE Typed' /\ CodesOK'
<1>1. UNCHANGED <<codes, reqs, ops>> /\ KeepsAsked
  BY SameAsked DEF Elapse, CooldownEnds, CodeExpires, Replicate, Anonymize
<1>2. /\ profiles \in [Users -> {NoRow} \cup Row]
      /\ replica \in [Users -> OrNone(Phones)]
      /\ settings \in [Users -> {NoRow} \cup Settings]
      /\ chosen \in [Users -> Chosen]
  BY DEF Typed, Tables
<1>3. ASSUME KeepsRows PROVE Stages'
  <2> SUFFICES ASSUME NEW y \in Clients, reqs[y].pc # "idle"
               PROVE  /\ Stage(reqs[y])
                      /\ reqs[y].pc \notin {"ensure", "provision"} => profiles'[reqs[y].user] \in Row
    BY <1>1 DEF Stages, At, Mine, Stage
  <2>1. QED
    BY <1>3, UnderWay DEF KeepsRows, At, Mine
<1>4. CASE CooldownEnds(u) \/ CodeExpires(u)
  <2>1. profiles[u] \in Row
    BY <1>2, <1>4 DEF CooldownEnds, CodeExpires
  <2>2. \/ profiles' = [profiles EXCEPT ![u] = [profiles[u] EXCEPT !.recent = FALSE]]
        \/ profiles' = [profiles EXCEPT ![u] = [profiles[u] EXCEPT !.expired = TRUE]]
    BY <1>4 DEF CooldownEnds, CodeExpires
  <2>3. /\ [profiles[u] EXCEPT !.recent = FALSE] \in Row
        /\ [profiles[u] EXCEPT !.expired = TRUE] \in Row
    BY <2>1 DEF Row
  <2>4. PICK new \in Row : /\ profiles' = [profiles EXCEPT ![u] = new]
                           /\ new.token = profiles[u].token /\ new.phone = profiles[u].phone
                           /\ new.attempts = profiles[u].attempts /\ new.verified = profiles[u].verified
    <3>1. CASE profiles' = [profiles EXCEPT ![u] = [profiles[u] EXCEPT !.recent = FALSE]]
      <4> DEFINE n == [profiles[u] EXCEPT !.recent = FALSE]
      <4>1. /\ n.token = profiles[u].token /\ n.phone = profiles[u].phone
            /\ n.attempts = profiles[u].attempts /\ n.verified = profiles[u].verified
        BY <2>1 DEF Row
      <4>2. profiles' = [profiles EXCEPT ![u] = n] /\ n \in Row
        BY <2>3, <3>1
      <4> HIDE DEF n
      <4>3. QED
        BY <4>1, <4>2
    <3>2. CASE profiles' = [profiles EXCEPT ![u] = [profiles[u] EXCEPT !.expired = TRUE]]
      <4> DEFINE n == [profiles[u] EXCEPT !.expired = TRUE]
      <4>1. /\ n.token = profiles[u].token /\ n.phone = profiles[u].phone
            /\ n.attempts = profiles[u].attempts /\ n.verified = profiles[u].verified
        BY <2>1 DEF Row
      <4>2. profiles' = [profiles EXCEPT ![u] = n] /\ n \in Row
        BY <2>3, <3>2
      <4> HIDE DEF n
      <4>3. QED
        BY <4>1, <4>2
    <3>3. QED
      BY <2>2, <3>1, <3>2
  <2>5. KeepsRows /\ profiles'[u] = new /\ \A v \in Users : v # u => profiles'[v] = profiles[v]
    BY <1>2, <2>4 DEF KeepsRows
  <2>6. KeepsPhones
    BY <2>1, <2>4, <2>5 DEF KeepsPhones
  <2>7. Typed'
    BY <1>1, <1>3, <1>4, <2>5 DEF CooldownEnds, CodeExpires, Typed, Tables, KeepsRows
  <2>8. QED
    BY <1>1, <2>6, <2>7, CodesKept
<1>5. CASE Replicate(u)
  <2>1. VerifiedNumber(u) \in OrNone(Phones)
    BY <1>2 DEF VerifiedNumber, Row, OrNone
  <2>2. KeepsRows /\ KeepsPhones /\ replica' \in [Users -> OrNone(Phones)]
    BY <1>2, <1>5, <2>1, SameRows, SamePhones DEF Replicate
  <2>3. Typed'
    BY <1>3, <1>5, <2>2 DEF Replicate, Typed, Tables
  <2>4. QED
    BY <1>1, <2>2, <2>3, CodesKept
<1>6. CASE Anonymize(u)
  <2> DEFINE new == NewRow([iat |-> 0, email |-> None, verified |-> FALSE])
             row == [new EXCEPT !.private = profiles[u].private]
  <2>1. profiles[u] \in Row
    BY <1>2, <1>6 DEF Anonymize
  <2>2. row \in Row /\ row.token = 0 /\ ~row.verified
    <3>1. 0 \in 0..MaxCodes /\ 0 \in 0..MaxAttempts /\ 0 \in 0..MaxIat
      BY DEF ProfilesAssumption
    <3>2. profiles[u].private \in BOOLEAN
      BY <2>1 DEF Row
    <3>3. new = [row |-> TRUE, email |-> None, synced |-> 0, name |-> None,
                 private |-> FALSE, avatar |-> None, phone |-> None,
                 verified |-> FALSE, token |-> 0, attempts |-> 0, recent |-> FALSE, expired |-> FALSE]
      BY Zenon DEF NewRow
    <3> HIDE DEF new
    <3>4. new \in Row /\ new.token = 0 /\ ~new.verified
      BY <3>1, <3>3 DEF Row, OrNone
    <3>5. QED
      BY <3>2, <3>4 DEF Row
  <2>3. profiles' = [profiles EXCEPT ![u] = row]
    BY <1>6 DEF Anonymize
  <2> HIDE DEF row
  <2>4. KeepsRows /\ KeepsPhones
    BY <1>2, <2>2, <2>3 DEF KeepsRows, KeepsPhones
  <2>5. settings' \in [Users -> {NoRow} \cup Settings] /\ chosen' \in [Users -> Chosen]
    BY <1>2, <1>6 DEF Anonymize, Chosen
  <2>6. Typed'
    BY <1>3, <1>6, <2>4, <2>5 DEF Anonymize, Typed, Tables, KeepsRows
  <2>7. QED
    BY <1>1, <2>4, <2>6, CodesKept
<1>7. QED
  BY <1>4, <1>5, <1>6 DEF Elapse

\* The types and the codes are preserved by every step.
LEMMA NextCodes ==
  ASSUME ProfilesAssumption, Typed, CodesOK, [Next]_vars PROVE Typed' /\ CodesOK'
<1>1. ASSUME NEW x \in Clients, Step(x) PROVE Typed' /\ CodesOK'
  BY <1>1, PlainCodes, StoreCodeInv, SendCodeInv, CountMissInv, AcceptCodeInv DEF Step, Plain
<1>2. ASSUME NEW x \in Clients, NEW u \in Users, Ask(x, u) PROVE Typed' /\ CodesOK'
  BY <1>2, AskAsks, ReceiveInv
<1>3. ASSUME NEW u \in Users, Elapse(u) PROVE Typed' /\ CodesOK'
  BY <1>3, ElapseInv
<1>4. CASE UNCHANGED vars
  <2>1. Typed'
    BY <1>4 DEF vars, Typed, Tables, Stages, At, Mine, Stage
  <2>2. CodesOK'
    BY <1>4 DEF vars, CodesOK, Expected, Presents, At, VerifiedIsProved, GuessesAreBounded
  <2>3. QED
    BY <2>1, <2>2
<1>5. QED
  BY <1>1, <1>2, <1>3, <1>4 DEF Next

-----------------------------------------------------------------------------
(* Avatars: what the steps that handle none leave alone. *)

\* No row comes to refer to an object that it did not refer to.
KeepsAvatars ==
  \A u \in Users : profiles'[u] \in Row =>
    \/ profiles'[u].avatar = None
    \/ profiles[u] \in Row /\ profiles'[u].avatar = profiles[u].avatar

\* A request keeps its object, and sees what it saw or what its user's row has.
KeepsHandled ==
  \A y \in Clients :
    \/ reqs'[y] = NoReq
    \/ /\ ~At(y, "idle")
       /\ reqs'[y].op = reqs[y].op /\ reqs'[y].user = reqs[y].user
       /\ reqs[y].op \in {"avatar", "noavatar"} => reqs'[y].object = reqs[y].object
       /\ reqs'[y].pc = "attach" => At(y, "attach")
       /\ reqs'[y].pc = "remove" <=> At(y, "remove")
       /\ reqs'[y].pc = "undo" <=> At(y, "undo")
       /\ reqs'[y].seen \in Row =>
            \/ reqs'[y].seen.avatar = None
            \/ reqs[y].seen \in Row /\ reqs'[y].seen.avatar = reqs[y].seen.avatar
            \/ profiles[reqs[y].user] \in Row
               /\ reqs'[y].seen.avatar = profiles[reqs[y].user].avatar

LEMMA ObjectIsNotNone == ASSUME ProfilesAssumption, Typed, NEW u \in Users PROVE None \notin Owned(u)
<1>1. Owned(u) \subseteq Users \X (1..MaxOps)
  BY DEF Owned, Typed, Tables, ProfilesAssumption
<1>2. QED
  BY <1>1 DEF ProfilesAssumption

LEMMA AvatarsKept ==
  ASSUME ProfilesAssumption, Typed, Typed', AvatarsOK, KeepsAvatars, KeepsHandled,
         avatars \subseteq avatars', UNCHANGED ops
  PROVE  AvatarsOK'
<1>1. ASSUME NEW y \in Clients, reqs'[y].pc # "idle"
      PROVE  /\ ~At(y, "idle") /\ reqs[y].user \in Users /\ reqs'[y].user = reqs[y].user
             /\ reqs'[y].op = reqs[y].op
             /\ Handles(y) => reqs'[y].object = reqs[y].object
             /\ reqs'[y].pc = "attach" => At(y, "attach")
             /\ reqs'[y].pc = "remove" <=> At(y, "remove")
             /\ reqs'[y].pc = "undo" <=> At(y, "undo")
  BY <1>1, UnderWay DEF KeepsHandled, NoReq, Handles
<1>2. /\ \A y \in Clients : Handles(y)' => Handles(y)
      /\ \A y \in Clients : Makes(y)' => Makes(y) /\ Handles(y)
      /\ \A y \in Clients : At(y, "remove")' => At(y, "remove") /\ Handles(y)
      /\ \A y \in Clients : At(y, "attach")' => At(y, "attach") /\ Handles(y)
  <2>1. \A y \in Clients : At(y, "remove") \/ At(y, "attach") => Handles(y)
    BY UnderWay DEF At, Stage, Handles
  <2>2. QED
    BY <1>1, <2>1 DEF Handles, Makes, At
<1>3. ops' = ops
  OBVIOUS
<1>4. ObjectsOK'
  <2>1. ASSUME NEW u \in Users, profiles'[u] \in Row, profiles'[u].avatar # None
        PROVE  profiles'[u].avatar \in Owned(u)'
    BY <1>3, <2>1 DEF KeepsAvatars, AvatarsOK, ObjectsOK, Owned
  <2>2. ASSUME NEW y \in Clients, reqs'[y].pc # "idle", reqs'[y].seen \in Row, reqs'[y].seen.avatar # None
        PROVE  (reqs[y].seen.avatar \in Owned(reqs[y].user))'
    <3>1. /\ ~At(y, "idle") /\ reqs[y].user \in Users /\ reqs'[y].user = reqs[y].user
      BY <1>1, <2>2
    <3>2. \/ reqs[y].seen \in Row /\ reqs'[y].seen.avatar = reqs[y].seen.avatar
          \/ profiles[reqs[y].user] \in Row /\ reqs'[y].seen.avatar = profiles[reqs[y].user].avatar
      BY <2>2 DEF KeepsHandled, NoReq
    <3>3. QED
      BY <1>3, <2>2, <3>1, <3>2 DEF AvatarsOK, ObjectsOK, Owned
  <2>3. ASSUME NEW y \in Clients, Handles(y)' PROVE (reqs[y].object \in Owned(reqs[y].user))'
    BY <1>1, <1>2, <1>3, <2>3 DEF AvatarsOK, ObjectsOK, Handles, At, Owned
  <2>4. ASSUME NEW y \in Clients, At(y, "attach")' PROVE reqs'[y].object \in avatars'
    BY <1>1, <1>2, <2>4 DEF AvatarsOK, ObjectsOK, Handles, At
  <2>5. QED
    BY <2>1, <2>2, <2>3, <2>4 DEF ObjectsOK, At
<1>5. \A y \in Clients : Handles(y)' => /\ reqs'[y].object = reqs[y].object
                                        /\ reqs[y].object # None
  <2>1. \A y \in Clients : Handles(y) => reqs[y].object # None
    BY UnderWay, ObjectIsNotNone DEF AvatarsOK, ObjectsOK, Handles
  <2>2. QED
    BY <1>1, <1>2, <2>1 DEF Handles, At
<1>6. ObjectsApart'
  <2>1. ASSUME NEW y \in Clients, Makes(y)' \/ At(y, "remove")', NEW u \in Users,
               Refers(profiles[u], reqs[y].object)'
        PROVE  FALSE
    <3>1. /\ Makes(y) \/ At(y, "remove")
          /\ reqs'[y].object = reqs[y].object /\ reqs[y].object # None
      BY <1>1, <1>2, <1>5, <2>1 DEF Handles, Makes, At
    <3>2. profiles[u] \in Row /\ profiles[u].avatar = reqs[y].object
      BY <2>1, <3>1 DEF KeepsAvatars, Refers
    <3>3. QED
      BY <3>1, <3>2 DEF AvatarsOK, ObjectsApart, Refers
  <2>2. ASSUME NEW x \in Clients, NEW y \in Clients, Makes(x)', ~At(y, "idle")',
               Refers(reqs[y].seen, reqs[x].object)'
        PROVE  FALSE
    <3>1. /\ Makes(x) /\ reqs'[x].object = reqs[x].object /\ reqs[x].object # None
          /\ ~At(y, "idle") /\ reqs[y].user \in Users
      BY <1>1, <1>2, <1>5, <2>2 DEF Handles, Makes, At
    <3>2. \/ reqs[y].seen \in Row /\ reqs[y].seen.avatar = reqs[x].object
          \/ profiles[reqs[y].user] \in Row /\ profiles[reqs[y].user].avatar = reqs[x].object
      BY <2>2, <3>1 DEF KeepsHandled, Refers, At, NoReq
    <3>3. QED
      BY <3>1, <3>2 DEF AvatarsOK, ObjectsApart, Refers
  <2>3. ASSUME NEW x \in Clients, NEW y \in Clients, x # y, Makes(x)', Handles(y)'
        PROVE  reqs'[y].object # reqs'[x].object
    <3>1. /\ Makes(x) /\ Handles(y) /\ Handles(x)'
          /\ reqs'[x].object = reqs[x].object /\ reqs'[y].object = reqs[y].object
      BY <1>2, <1>5, <2>3 DEF Handles, Makes, At
    <3>2. QED
      BY <2>3, <3>1 DEF AvatarsOK, ObjectsApart
  <2>4. QED
    BY <2>1, <2>2, <2>3 DEF ObjectsApart
<1>7. QED
  BY <1>4, <1>6 DEF AvatarsOK

LEMMA SameAvatars == ASSUME UNCHANGED profiles PROVE KeepsAvatars
BY DEF KeepsAvatars

LEMMA WritesAvatars ==
  ASSUME Typed, NEW x \in Clients, ~At(x, "idle"), NEW row, Write(x, row),
         row.avatar = None \/ (Mine(x) \in Row /\ row.avatar = Mine(x).avatar)
  PROVE  KeepsAvatars
<1>1. profiles' = [profiles EXCEPT ![reqs[x].user] = row] /\ reqs[x].user \in Users
  BY UnderWay DEF Write
<1>2. \A u \in Users : profiles'[u] = (IF u = reqs[x].user THEN row ELSE profiles[u])
  BY <1>1 DEF Typed, Tables
<1>3. QED
  BY <1>2 DEF KeepsAvatars, Mine

LEMMA HandledEnd ==
  ASSUME Typed, NEW x \in Clients, End(x) \/ UNCHANGED reqs
  PROVE  KeepsHandled
<1>1. \A y \in Clients : reqs[y] \in Req \/ reqs[y] = NoReq
  BY DEF Typed, Tables
<1>2. \A y \in Clients : reqs'[y] = NoReq \/ reqs'[y] = reqs[y]
  BY DEF Typed, Tables, End
<1>3. QED
  BY <1>1, <1>2, Rows DEF KeepsHandled, At

LEMMA HandledGo ==
  ASSUME Typed, NEW x \in Clients, ~At(x, "idle"), NEW r \in Req, reqs' = [reqs EXCEPT ![x] = r],
         r.op = reqs[x].op, r.user = reqs[x].user,
         r.object = reqs[x].object \/ reqs[x].op \notin {"avatar", "noavatar"},
         r.pc \notin {"attach", "remove", "undo"}, reqs[x].pc \notin {"remove", "undo"},
         r.seen \in Row =>
           \/ r.seen.avatar = None
           \/ reqs[x].seen \in Row /\ r.seen.avatar = reqs[x].seen.avatar
           \/ profiles[reqs[x].user] \in Row /\ r.seen.avatar = profiles[reqs[x].user].avatar
  PROVE  KeepsHandled
<1>1. \A y \in Clients : reqs[y] \in Req \/ reqs[y] = NoReq
  BY DEF Typed, Tables
<1>2. \A y \in Clients : reqs'[y] = (IF y = x THEN r ELSE reqs[y])
  BY DEF Typed, Tables
<1>3. QED
  BY <1>1, <1>2, Rows DEF KeepsHandled, At

LEMMA HandledGoto ==
  ASSUME Typed, NEW x \in Clients, ~At(x, "idle"), NEW pc \in Pcs, Goto(x, pc),
         pc \notin {"attach", "remove", "undo"}, reqs[x].pc \notin {"remove", "undo"}
  PROVE  KeepsHandled
<1> DEFINE r == [reqs[x] EXCEPT !.pc = pc]
<1>1. reqs[x] \in Req
  BY UnderWay
<1>2. /\ r \in Req /\ r.pc = pc /\ r.op = reqs[x].op /\ r.user = reqs[x].user
      /\ r.object = reqs[x].object /\ r.seen = reqs[x].seen
  BY <1>1 DEF Req
<1>3. reqs' = [reqs EXCEPT ![x] = r]
  BY DEF Goto
<1> HIDE DEF r
<1>4. QED
  BY <1>2, <1>3, HandledGo

LEMMA HandledEnsured ==
  ASSUME Typed, NEW x \in Clients, reqs[x].pc \in {"ensure", "provision", "sync"},
         NEW row \in Row, Ensured(x, row),
         row.avatar = None \/ (Mine(x) \in Row /\ row.avatar = Mine(x).avatar)
  PROVE  KeepsHandled
<1> DEFINE r == [reqs[x] EXCEPT !.pc = reqs[x].op, !.seen = row]
<1>1. reqs[x] \in Req /\ ~At(x, "idle")
  BY UnderWay DEF At
<1>2. CASE reqs[x].op = "me"
  BY <1>2, HandledEnd DEF Ensured
<1>3. CASE reqs[x].op # "me"
  <2>1. /\ r \in Req /\ r.op = reqs[x].op /\ r.user = reqs[x].user /\ r.object = reqs[x].object
        /\ r.pc \notin {"attach", "remove", "undo"} /\ r.seen = row
    <3>1. reqs[x].op \in Ops \ {"me"}
      BY <1>1, <1>3 DEF Req
    <3>2. reqs[x].op \in Pcs /\ reqs[x].op \notin {"attach", "remove", "undo"}
      BY <3>1 DEF Pcs, Ops
    <3>3. r \in Req
      BY <1>1, <3>2 DEF Req
    <3>4. r.pc = reqs[x].op /\ r.op = reqs[x].op /\ r.user = reqs[x].user /\ r.object = reqs[x].object
          /\ r.seen = row
      BY <1>1 DEF Req
    <3>5. QED
      BY <3>2, <3>3, <3>4
  <2>2. reqs' = [reqs EXCEPT ![x] = r]
    BY <1>3 DEF Ensured
  <2> HIDE DEF r
  <2>3. QED
    BY <1>1, <2>1, <2>2, HandledGo DEF Mine
<1>4. QED
  BY <1>2, <1>3

\* The steps of a request that handle no avatar.
Quiet(x) ==
  \/ FindProfile(x) \/ Provision(x) \/ SyncIdentity(x)
  \/ UpdateProfile(x)
  \/ LookUpPhone(x) \/ StoreCode(x) \/ SendCode(x) \/ ClearVerification(x)
  \/ CheckCode(x) \/ CountMiss(x) \/ AcceptCode(x)
  \/ UpdateSettings(x)

LEMMA QuietFacts ==
  ASSUME Typed, NEW x \in Clients, Quiet(x)
  PROVE  /\ reqs[x] \in Req /\ ~At(x, "idle") /\ Stage(reqs[x])
         /\ reqs[x].pc \notin {"ensure", "provision"} => Mine(x) \in Row
         /\ reqs[x].pc \notin {"remove", "undo"}
         /\ UNCHANGED <<avatars, ops>>
<1>1. ~At(x, "idle") /\ reqs[x].pc \notin {"remove", "undo"} /\ UNCHANGED <<avatars, ops>>
  BY DEF Quiet, FindProfile, Provision, SyncIdentity, UpdateProfile, LookUpPhone, StoreCode, SendCode,
         ClearVerification, CheckCode, CountMiss, AcceptCode, UpdateSettings, At
<1>2. QED
  BY <1>1, UnderWay

LEMMA QuietAvatars ==
  ASSUME ProfilesAssumption, Typed, NEW x \in Clients, Quiet(x) PROVE KeepsAvatars
<1>1. /\ reqs[x] \in Req /\ ~At(x, "idle")
      /\ reqs[x].pc \notin {"ensure", "provision"} => Mine(x) \in Row
  BY QuietFacts
<1>2. ASSUME NEW row, Write(x, row), Mine(x) \in Row, row.avatar = Mine(x).avatar PROVE KeepsAvatars
  BY <1>1, <1>2, WritesAvatars
<1>3. ASSUME UNCHANGED profiles PROVE KeepsAvatars
  BY <1>3, SameAvatars
<1>4. CASE Provision(x)
  <2>1. NewRow(reqs[x].tok).avatar = None
    BY DEF NewRow
  <2>2. Write(x, NewRow(reqs[x].tok)) \/ UNCHANGED profiles
    BY <1>4 DEF Provision
  <2>3. QED
    BY <1>1, <1>3, <2>1, <2>2, WritesAvatars
<1>5. CASE SyncIdentity(x)
  <2> DEFINE row == [Mine(x) EXCEPT !.email = EmailOf(reqs[x].tok, reqs[x].seen),
                                    !.synced = reqs[x].tok.iat]
  <2>1. Write(x, row) /\ Mine(x) \in Row
    BY <1>1, <1>5 DEF SyncIdentity, At
  <2>2. row.avatar = Mine(x).avatar
    BY <2>1 DEF Row
  <2>3. QED
    BY <1>2, <2>1, <2>2
<1>6. CASE UpdateProfile(x)
  <2> DEFINE row == [Mine(x) EXCEPT !.name = Supplied(reqs[x].arg.name, reqs[x].seen.name),
                                    !.private = Supplied(reqs[x].arg.private, reqs[x].seen.private)]
  <2>1. (Write(x, row) \/ UNCHANGED profiles) /\ Mine(x) \in Row
    BY <1>1, <1>6 DEF UpdateProfile, At
  <2>2. row.avatar = Mine(x).avatar
    BY <2>1 DEF Row
  <2>3. QED
    BY <1>2, <1>3, <2>1, <2>2
<1>7. CASE StoreCode(x)
  <2> DEFINE row == [Mine(x) EXCEPT !.phone = reqs[x].arg, !.verified = FALSE, !.token = Len(codes'),
                                    !.attempts = 0, !.recent = TRUE, !.expired = FALSE]
  <2>1. Write(x, row) /\ Mine(x) \in Row
    BY <1>1, <1>7 DEF StoreCode, At
  <2>2. row.avatar = Mine(x).avatar
    BY <2>1 DEF Row
  <2>3. QED
    BY <1>2, <2>1, <2>2
<1>8. CASE ClearVerification(x)
  <2> DEFINE row == [Mine(x) EXCEPT !.token = 0, !.expired = FALSE, !.recent = FALSE, !.attempts = 0]
  <2>1. Write(x, row) /\ Mine(x) \in Row
    BY <1>1, <1>8 DEF ClearVerification, At
  <2>2. row.avatar = Mine(x).avatar
    BY <2>1 DEF Row
  <2>3. QED
    BY <1>2, <2>1, <2>2
<1>9. CASE CountMiss(x)
  <2> DEFINE row == [Mine(x) EXCEPT !.attempts = @ + 1]
  <2>1. (Write(x, row) \/ UNCHANGED profiles) /\ Mine(x) \in Row
    BY <1>1, <1>9 DEF CountMiss, At
  <2>2. row.avatar = Mine(x).avatar
    BY <2>1 DEF Row
  <2>3. QED
    BY <1>2, <1>3, <2>1, <2>2
<1>10. CASE AcceptCode(x)
  <2> DEFINE row == [Mine(x) EXCEPT !.verified = TRUE, !.token = 0, !.expired = FALSE,
                                    !.recent = FALSE, !.attempts = 0]
  <2>1. (Write(x, row) \/ UNCHANGED profiles) /\ Mine(x) \in Row
    BY <1>1, <1>10 DEF AcceptCode, At
  <2>2. row.avatar = Mine(x).avatar
    BY <2>1 DEF Row
  <2>3. QED
    BY <1>2, <1>3, <2>1, <2>2
<1>11. CASE FindProfile(x) \/ LookUpPhone(x) \/ SendCode(x) \/ CheckCode(x) \/ UpdateSettings(x)
  BY <1>3, <1>11 DEF FindProfile, LookUpPhone, SendCode, CheckCode, UpdateSettings
<1>12. QED
  BY <1>4, <1>5, <1>6, <1>7, <1>8, <1>9, <1>10, <1>11 DEF Quiet

LEMMA QuietHandled ==
  ASSUME ProfilesAssumption, Typed, NEW x \in Clients, Quiet(x) PROVE KeepsHandled
<1>1. /\ reqs[x] \in Req /\ ~At(x, "idle") /\ Stage(reqs[x]) /\ reqs[x].pc \notin {"remove", "undo"}
      /\ reqs[x].pc \notin {"ensure", "provision"} => Mine(x) \in Row
  BY QuietFacts
<1>2. End(x) => KeepsHandled
  BY HandledEnd
<1>3. \A pc \in Pcs \ {"attach", "remove", "undo"} : Goto(x, pc) => KeepsHandled
  BY <1>1, HandledGoto
<1>4. CASE FindProfile(x)
  <2> DEFINE r == [reqs[x] EXCEPT !.pc = "sync", !.seen = Mine(x)]
  <2>1. Mine(x) \in {NoRow} \cup Row /\ reqs[x].pc = "ensure"
    BY <1>1, <1>4 DEF Req, Mine, Typed, Tables, FindProfile, At
  <2>2. \/ Goto(x, "provision")
        \/ Mine(x) \in Row /\ reqs' = [reqs EXCEPT ![x] = r]
        \/ Mine(x) \in Row /\ Ensured(x, Mine(x))
    BY <1>4, <2>1 DEF FindProfile
  <2>3. CASE Mine(x) \in Row /\ reqs' = [reqs EXCEPT ![x] = r]
    <3>1. /\ r \in Req /\ r.op = reqs[x].op /\ r.user = reqs[x].user /\ r.object = reqs[x].object
          /\ r.pc = "sync" /\ r.seen = Mine(x)
      BY <1>1, <2>3 DEF Req, Pcs
    <3> HIDE DEF r
    <3>2. QED
      BY <1>1, <2>3, <3>1, HandledGo DEF Mine
  <2>4. CASE Mine(x) \in Row /\ Ensured(x, Mine(x))
    BY <2>1, <2>4, HandledEnsured
  <2>5. "provision" \in Pcs \ {"attach", "remove", "undo"}
    BY DEF Pcs
  <2>6. QED
    BY <1>3, <2>2, <2>3, <2>4, <2>5
<1>5. CASE Provision(x)
  <2>1. /\ NewRow(reqs[x].tok) \in Row /\ "ensure" \in Pcs \ {"attach", "remove", "undo"}
        /\ reqs[x].pc = "provision"
    BY <1>1, <1>5, NewRowType DEF Req, Pcs, Provision, At
  <2>2. NewRow(reqs[x].tok).avatar = None
    BY DEF NewRow
  <2>3. QED
    BY <1>3, <1>5, <2>1, <2>2, HandledEnsured DEF Provision
<1>6. CASE SyncIdentity(x)
  <2> DEFINE row == [Mine(x) EXCEPT !.email = EmailOf(reqs[x].tok, reqs[x].seen),
                                    !.synced = reqs[x].tok.iat]
  <2>1. Mine(x) \in Row /\ Write(x, row) /\ Ensured(x, row) /\ reqs[x].pc = "sync"
    BY <1>1, <1>6 DEF SyncIdentity, At
  <2>2. row.row /\ row.avatar = Mine(x).avatar
    BY <2>1 DEF Row
  <2>3. row \in Row
    BY <1>1, <1>6, <2>1, <2>2, SyncIdentityTyped, Written
  <2> HIDE DEF row
  <2>4. QED
    BY <2>1, <2>2, <2>3, HandledEnsured
<1>7. CASE StoreCode(x)
  <2> DEFINE r == [reqs[x] EXCEPT !.pc = "send", !.object = Len(codes) + 1]
  <2>1. /\ codes \in Seq(Code) /\ Len(codes) \in Nat /\ Len(codes) + 1 \in 1..MaxCodes
        /\ reqs[x].op = "phone" /\ reqs[x].arg \in Phones /\ reqs[x].user \in Users
    BY <1>1, <1>7 DEF StoreCode, At, Stage, Typed, Tables, ProfilesAssumption, Req
  <2>2. Len(codes') = Len(codes) + 1
    BY <1>7, <2>1, AppendProperties DEF StoreCode, Code
  <2>3. reqs' = [reqs EXCEPT ![x] = r]
    BY <1>7, <2>2 DEF StoreCode
  <2>4. /\ r \in Req /\ r.op = reqs[x].op /\ r.user = reqs[x].user /\ r.pc = "send"
        /\ r.seen = reqs[x].seen
    BY <1>1, <2>1 DEF Req, Pcs
  <2> HIDE DEF r
  <2>5. QED
    BY <1>1, <2>1, <2>3, <2>4, HandledGo
<1>8. CASE LookUpPhone(x) \/ SendCode(x) \/ CheckCode(x)
  <2>1. {"store", "clear", "miss", "accept"} \subseteq Pcs \ {"attach", "remove", "undo"}
    BY DEF Pcs
  <2>2. End(x) \/ \E pc \in {"store", "clear", "miss", "accept"} : Goto(x, pc)
    BY <1>8 DEF LookUpPhone, SendCode, CheckCode
  <2>3. QED
    BY <1>2, <1>3, <2>1, <2>2
<1>9. CASE UpdateProfile(x) \/ ClearVerification(x) \/ CountMiss(x) \/ AcceptCode(x) \/ UpdateSettings(x)
  BY <1>2, <1>9 DEF UpdateProfile, ClearVerification, CountMiss, AcceptCode, UpdateSettings
<1>10. QED
  BY <1>4, <1>5, <1>6, <1>7, <1>8, <1>9 DEF Quiet

LEMMA QuietInv ==
  ASSUME ProfilesAssumption, Typed, Typed', AvatarsOK, NEW x \in Clients, Quiet(x) PROVE AvatarsOK'
BY QuietFacts, QuietAvatars, QuietHandled, AvatarsKept

-----------------------------------------------------------------------------
(* Avatars: the steps that store, refer to and remove objects. *)

LEMMA Removing ==
  ASSUME Typed, NEW y \in Clients
  PROVE  /\ At(y, "remove") \/ At(y, "undo") \/ At(y, "attach") => Handles(y)
         /\ At(y, "attach") => Makes(y)
         /\ Makes(y) => Handles(y)
BY UnderWay DEF At, Stage, Handles, Makes

LEMMA OwnersDiffer ==
  ASSUME NEW u, NEW v, u # v, NEW o, o \in Owned(u) PROVE o \notin Owned(v)
BY DEF Owned

LEMMA PutAvatarInv ==
  ASSUME Typed, Typed', AvatarsOK, NEW x \in Clients, PutAvatar(x) PROVE AvatarsOK'
<1> DEFINE r == [reqs[x] EXCEPT !.pc = "attach"]
<1>1. reqs[x] \in Req /\ reqs[x].pc = "avatar" /\ reqs[x].op = "avatar"
  BY UnderWay DEF PutAvatar, At, Stage, Ops
<1>2. /\ r.pc = "attach" /\ r.op = "avatar" /\ r.user = reqs[x].user /\ r.seen = reqs[x].seen
      /\ r.object = reqs[x].object
  BY <1>1 DEF Req
<1>3. \A y \in Clients : reqs'[y] = IF y = x THEN r ELSE reqs[y]
  BY DEF PutAvatar, Goto, Typed, Tables
<1> HIDE DEF r
<1>4. /\ \A y \in Clients : ~At(y, "idle")' <=> ~At(y, "idle")
      /\ \A y \in Clients : Handles(y)' <=> Handles(y)
      /\ \A y \in Clients : Makes(y)' <=> Makes(y)
      /\ \A y \in Clients : At(y, "remove")' <=> At(y, "remove")
      /\ \A y \in Clients : /\ reqs'[y].user = reqs[y].user /\ reqs'[y].seen = reqs[y].seen
                            /\ reqs'[y].object = reqs[y].object
  BY <1>1, <1>2, <1>3 DEF At, Handles, Makes
<1>5. /\ UNCHANGED <<profiles, ops>> /\ avatars \subseteq avatars' /\ reqs[x].object \in avatars'
  BY DEF PutAvatar
<1>6. ObjectsOK'
  <2>1. \A y \in Clients : At(y, "attach")' => reqs'[y].object \in avatars'
    BY <1>2, <1>3, <1>5 DEF AvatarsOK, ObjectsOK, At
  <2>2. QED
    BY <1>4, <1>5, <2>1 DEF AvatarsOK, ObjectsOK, Owned
<1>7. ObjectsApart'
  BY <1>4, <1>5 DEF AvatarsOK, ObjectsApart, Refers
<1>8. QED
  BY <1>6, <1>7 DEF AvatarsOK

\* The row is written, with this request's object or none, and what was seen is removed.
LEMMA Replaced ==
  ASSUME ProfilesAssumption, Typed, Typed', AvatarsOK, NEW x \in Clients,
         reqs[x].pc \in {"attach", "noavatar"}, NEW row, Write(x, row), RemoveSeen(x),
         row.avatar = None \/ (At(x, "attach") /\ row.avatar = reqs[x].object),
         UNCHANGED <<avatars, ops>>
  PROVE  AvatarsOK'
<1> DEFINE u == reqs[x].user
           a == reqs[x].seen.avatar
           r == [reqs[x] EXCEPT !.pc = "remove", !.object = a]
<1>1. /\ reqs[x] \in Req /\ u \in Users /\ reqs[x].seen \in Row /\ ~At(x, "idle") /\ Handles(x)
      /\ reqs[x].op \in {"avatar", "noavatar"}
  BY UnderWay DEF At, Stage, Handles, Ops
<1>2. \A v \in Users : profiles'[v] = IF v = u THEN row ELSE profiles[v]
  BY <1>1 DEF Write, Typed, Tables
<1>3. row \in Row \/ row = NoRow
  BY <1>1, <1>2 DEF Typed, Tables
<1>4. CASE a = None
  <2>1. \A y \in Clients : reqs'[y] = IF y = x THEN NoReq ELSE reqs[y]
    BY <1>4 DEF RemoveSeen, End, Typed, Tables
  <2>2. /\ \A y \in Clients : ~At(y, "idle")' => y # x /\ ~At(y, "idle") /\ reqs'[y] = reqs[y]
        /\ \A y \in Clients : Handles(y)' => y # x /\ Handles(y) /\ reqs'[y] = reqs[y]
        /\ \A y \in Clients : Makes(y)' => y # x /\ Makes(y) /\ reqs'[y] = reqs[y]
        /\ \A y \in Clients : At(y, "remove")' => y # x /\ At(y, "remove") /\ reqs'[y] = reqs[y]
        /\ \A y \in Clients : At(y, "attach")' => y # x /\ At(y, "attach") /\ reqs'[y] = reqs[y]
    BY <2>1 DEF At, Handles, Makes, NoReq
  <2>3. ObjectsOK'
    <3>1. ASSUME NEW v \in Users, profiles'[v] \in Row, profiles'[v].avatar # None
          PROVE  profiles'[v].avatar \in Owned(v)'
      BY <1>1, <1>2, <3>1 DEF AvatarsOK, ObjectsOK, Owned, At
    <3>2. QED
      BY <2>2, <3>1 DEF AvatarsOK, ObjectsOK, Owned
  <2>4. ObjectsApart'
    <3>1. ASSUME NEW y \in Clients, Makes(y)' \/ At(y, "remove")', NEW v \in Users,
                 Refers(profiles[v], reqs[y].object)'
          PROVE  FALSE
      <4>1. /\ y # x /\ reqs'[y] = reqs[y] /\ Handles(y)
            /\ Makes(y) \/ At(y, "remove")
        BY <2>2, <3>1, Removing
      <4>2. CASE v # u
        BY <1>2, <3>1, <4>1, <4>2 DEF AvatarsOK, ObjectsApart, Refers
      <4>3. CASE v = u
        <5>1. row.avatar = reqs[y].object
          BY <1>2, <3>1, <4>1, <4>3 DEF Refers
        <5>2. reqs[y].object # None
          BY <4>1, UnderWay, ObjectIsNotNone DEF AvatarsOK, ObjectsOK, Handles
        <5>3. Makes(x) /\ reqs[x].object = reqs[y].object
          BY <5>1, <5>2, Removing
        <5>4. QED
          BY <4>1, <5>3 DEF AvatarsOK, ObjectsApart
      <4>4. QED
        BY <4>2, <4>3
    <3>2. QED
      BY <2>2, <3>1 DEF AvatarsOK, ObjectsApart, Refers
  <2>5. QED
    BY <2>3, <2>4 DEF AvatarsOK
<1>5. CASE a # None
  <2>1. /\ r.pc = "remove" /\ r.op = reqs[x].op /\ r.user = u /\ r.seen = reqs[x].seen /\ r.object = a
    BY <1>1 DEF Req
  <2>2. \A y \in Clients : reqs'[y] = IF y = x THEN r ELSE reqs[y]
    BY <1>5 DEF RemoveSeen, Typed, Tables
  <2> HIDE DEF r
  <2>3. a \in Owned(u)
    BY <1>1, <1>5 DEF AvatarsOK, ObjectsOK
  <2>4. /\ \A y \in Clients : ~At(y, "idle")' => /\ ~At(y, "idle")
                                                 /\ reqs'[y].user = reqs[y].user
                                                 /\ reqs'[y].seen = reqs[y].seen
        /\ \A y \in Clients : y # x => reqs'[y] = reqs[y]
        /\ \A y \in Clients : Handles(y)' => Handles(y)
        /\ \A y \in Clients : Makes(y)' => y # x /\ Makes(y)
        /\ \A y \in Clients : y # x /\ At(y, "remove")' => At(y, "remove")
        /\ \A y \in Clients : At(y, "attach")' => y # x /\ At(y, "attach")
        /\ reqs'[x].object = a
    BY <1>1, <2>1, <2>2 DEF At, Handles, Makes
  <2>5. ObjectsOK'
    <3>1. ASSUME NEW v \in Users, profiles'[v] \in Row, profiles'[v].avatar # None
          PROVE  profiles'[v].avatar \in Owned(v)'
      BY <1>1, <1>2, <3>1 DEF AvatarsOK, ObjectsOK, Owned, At
    <3>2. ASSUME NEW y \in Clients, Handles(y)' PROVE (reqs[y].object \in Owned(reqs[y].user))'
      BY <2>1, <2>2, <2>3, <2>4, <3>2 DEF AvatarsOK, ObjectsOK, Owned
    <3>3. ASSUME NEW y \in Clients, At(y, "attach")' PROVE (reqs[y].object \in avatars)'
      BY <2>4, <3>3 DEF AvatarsOK, ObjectsOK
    <3>4. ASSUME NEW y \in Clients, ~At(y, "idle")', reqs'[y].seen \in Row, reqs'[y].seen.avatar # None
          PROVE  (reqs[y].seen.avatar \in Owned(reqs[y].user))'
      BY <2>4, <3>4 DEF AvatarsOK, ObjectsOK, Owned
    <3>5. QED
      BY <3>1, <3>2, <3>3, <3>4 DEF ObjectsOK
  <2>6. ObjectsApart'
    <3>1. ASSUME NEW y \in Clients, Makes(y)' \/ At(y, "remove")', NEW v \in Users,
                 Refers(profiles[v], reqs[y].object)'
          PROVE  FALSE
      <4>1. CASE y = x
        <5>1. profiles'[v] \in Row /\ profiles'[v].avatar = a
          BY <2>4, <3>1, <4>1 DEF Refers
        <5>2. CASE v = u
          <6>1. Makes(x) /\ reqs[x].object = a
            BY <1>2, <1>5, <5>1, <5>2, Removing
          <6>2. QED
            BY <1>1, <6>1 DEF AvatarsOK, ObjectsApart, Refers
        <5>3. CASE v # u
          <6>1. a \in Owned(v)
            BY <1>2, <1>5, <5>1, <5>3 DEF AvatarsOK, ObjectsOK
          <6>2. QED
            BY <2>3, <5>3, <6>1, OwnersDiffer
        <5>4. QED
          BY <5>2, <5>3
      <4>2. CASE y # x
        <5>1. (Makes(y) \/ At(y, "remove")) /\ reqs'[y] = reqs[y] /\ Handles(y)
          BY <2>4, <3>1, <4>2, Removing
        <5>2. CASE v # u
          BY <1>2, <3>1, <5>1, <5>2 DEF AvatarsOK, ObjectsApart, Refers
        <5>3. CASE v = u
          <6>1. row.avatar = reqs[y].object
            BY <1>2, <3>1, <5>1, <5>3 DEF Refers
          <6>2. reqs[y].object # None
            BY <5>1, UnderWay, ObjectIsNotNone DEF AvatarsOK, ObjectsOK, Handles
          <6>3. Makes(x) /\ reqs[x].object = reqs[y].object
            BY <6>1, <6>2, Removing
          <6>4. QED
            BY <4>2, <5>1, <6>3 DEF AvatarsOK, ObjectsApart
        <5>4. QED
          BY <5>2, <5>3
      <4>3. QED
        BY <4>1, <4>2
    <3>2. ASSUME NEW y \in Clients, NEW z \in Clients, Makes(y)', ~At(z, "idle")',
                 Refers(reqs[z].seen, reqs[y].object)'
          PROVE  FALSE
      BY <2>4, <3>2 DEF AvatarsOK, ObjectsApart, Refers
    <3>3. ASSUME NEW y \in Clients, NEW z \in Clients, y # z, Makes(y)', Handles(z)'
          PROVE  reqs'[z].object # reqs'[y].object
      <4>1. Makes(y) /\ reqs'[y] = reqs[y] /\ Handles(z)
        BY <2>4, <3>3
      <4>2. CASE z = x
        BY <1>1, <2>4, <4>1, <4>2 DEF AvatarsOK, ObjectsApart, Refers
      <4>3. CASE z # x
        BY <2>4, <3>3, <4>1, <4>3 DEF AvatarsOK, ObjectsApart
      <4>4. QED
        BY <4>2, <4>3
    <3>4. QED
      BY <3>1, <3>2, <3>3 DEF ObjectsApart
  <2>7. QED
    BY <2>5, <2>6 DEF AvatarsOK
<1>6. QED
  BY <1>4, <1>5

\* The upload is to undo what it may have written.
LEMMA AttachFailsInv ==
  ASSUME Typed, Typed', AvatarsOK, NEW x \in Clients, At(x, "attach"), Goto(x, "undo"),
         NEW row, row.avatar = reqs[x].object, Write(x, row) \/ UNCHANGED profiles,
         UNCHANGED <<avatars, ops>>
  PROVE  AvatarsOK'
<1> DEFINE r == [reqs[x] EXCEPT !.pc = "undo"]
           u == reqs[x].user
<1>1. reqs[x] \in Req /\ reqs[x].op = "avatar" /\ Makes(x) /\ Handles(x) /\ reqs[x].pc = "attach"
  BY UnderWay, Removing DEF At, Stage
<1>2. /\ r.pc = "undo" /\ r.op = "avatar" /\ r.user = u /\ r.seen = reqs[x].seen
      /\ r.object = reqs[x].object
  BY <1>1 DEF Req
<1>3. \A y \in Clients : reqs'[y] = IF y = x THEN r ELSE reqs[y]
  BY DEF Goto, Typed, Tables
<1> HIDE DEF r
<1>4. /\ \A y \in Clients : ~At(y, "idle")' <=> ~At(y, "idle")
      /\ \A y \in Clients : Handles(y)' <=> Handles(y)
      /\ \A y \in Clients : Makes(y)' => y # x /\ Makes(y)
      /\ \A y \in Clients : At(y, "remove")' => y # x /\ At(y, "remove")
      /\ \A y \in Clients : At(y, "attach")' => At(y, "attach")
      /\ \A y \in Clients : /\ reqs'[y].user = reqs[y].user /\ reqs'[y].seen = reqs[y].seen
                            /\ reqs'[y].object = reqs[y].object
  BY <1>1, <1>2, <1>3 DEF At, Handles, Makes
<1>5. \A v \in Users : \/ profiles'[v] = profiles[v]
                       \/ v = u /\ profiles'[v].avatar = reqs[x].object
  BY <1>1 DEF Write, Typed, Tables, Req
<1>6. ObjectsOK'
  <2>1. reqs[x].object \in Owned(u)
    BY <1>1 DEF AvatarsOK, ObjectsOK
  <2>2. ASSUME NEW v \in Users, profiles'[v] \in Row, profiles'[v].avatar # None
        PROVE  profiles'[v].avatar \in Owned(v)'
    BY <1>5, <2>1, <2>2 DEF AvatarsOK, ObjectsOK, Owned
  <2>3. QED
    BY <1>4, <2>2 DEF AvatarsOK, ObjectsOK, Owned
<1>7. ObjectsApart'
  <2>1. ASSUME NEW y \in Clients, Makes(y)' \/ At(y, "remove")', NEW v \in Users,
               Refers(profiles[v], reqs[y].object)'
        PROVE  FALSE
    <3>1. /\ y # x /\ (Makes(y) \/ At(y, "remove")) /\ Handles(y)
          /\ reqs'[y].object = reqs[y].object
      BY <1>4, <2>1, Removing
    <3>2. reqs[y].object # reqs[x].object
      BY <1>1, <3>1 DEF AvatarsOK, ObjectsApart
    <3>3. QED
      BY <1>5, <2>1, <3>1, <3>2 DEF AvatarsOK, ObjectsApart, Refers
  <2>2. QED
    BY <1>4, <2>1 DEF AvatarsOK, ObjectsApart, Refers
<1>8. QED
  BY <1>6, <1>7 DEF AvatarsOK

LEMMA RemoveAvatarInv ==
  ASSUME Typed, Typed', AvatarsOK, NEW x \in Clients, RemoveAvatar(x) PROVE AvatarsOK'
<1> DEFINE o == reqs[x].object
<1>1. Handles(x) /\ UNCHANGED <<profiles, ops>> /\ avatars \ {o} \subseteq avatars'
  BY Removing DEF RemoveAvatar
<1>2. \A y \in Clients : reqs'[y] = IF y = x THEN NoReq ELSE reqs[y]
  BY DEF RemoveAvatar, End, Typed, Tables
<1>3. /\ \A y \in Clients : ~At(y, "idle")' => y # x /\ ~At(y, "idle") /\ reqs'[y] = reqs[y]
      /\ \A y \in Clients : Handles(y)' => y # x /\ Handles(y) /\ reqs'[y] = reqs[y]
      /\ \A y \in Clients : Makes(y)' => y # x /\ Makes(y) /\ reqs'[y] = reqs[y]
      /\ \A y \in Clients : At(y, "remove")' => y # x /\ At(y, "remove") /\ reqs'[y] = reqs[y]
      /\ \A y \in Clients : At(y, "attach")' => y # x /\ At(y, "attach") /\ reqs'[y] = reqs[y]
  BY <1>2 DEF At, Handles, Makes, NoReq
<1>4. ObjectsOK'
  <2>1. ASSUME NEW y \in Clients, At(y, "attach"), y # x PROVE reqs[y].object \in avatars'
    <3>1. reqs[y].object # o
      BY <1>1, <2>1, Removing DEF AvatarsOK, ObjectsApart
    <3>2. QED
      BY <1>1, <2>1, <3>1 DEF AvatarsOK, ObjectsOK
  <2>2. QED
    BY <1>1, <1>3, <2>1 DEF AvatarsOK, ObjectsOK, Owned
<1>5. ObjectsApart'
  BY <1>1, <1>3 DEF AvatarsOK, ObjectsApart, Refers
<1>6. QED
  BY <1>4, <1>5 DEF AvatarsOK

LEMMA HandlingInv ==
  ASSUME ProfilesAssumption, Typed, Typed', AvatarsOK, NEW x \in Clients,
         PutAvatar(x) \/ AttachAvatar(x) \/ DetachAvatar(x) \/ RemoveAvatar(x)
  PROVE  AvatarsOK'
<1>1. CASE AttachAvatar(x)
  <2> DEFINE row == [Mine(x) EXCEPT !.avatar = reqs[x].object]
  <2>1. At(x, "attach") /\ Mine(x) \in Row /\ UNCHANGED <<avatars, ops>>
    BY <1>1, UnderWay DEF AttachAvatar, At
  <2>2. row.avatar = reqs[x].object
    BY <2>1 DEF Row
  <2>3. \/ Write(x, row) /\ RemoveSeen(x)
        \/ Goto(x, "undo") /\ (Write(x, row) \/ UNCHANGED profiles)
    BY <1>1 DEF AttachAvatar
  <2> HIDE DEF row
  <2>4. QED
    BY <2>1, <2>2, <2>3, Replaced, AttachFailsInv DEF At
<1>2. CASE DetachAvatar(x)
  <2> DEFINE row == [Mine(x) EXCEPT !.avatar = None]
  <2>1. At(x, "noavatar") /\ Mine(x) \in Row /\ UNCHANGED <<avatars, ops>> /\ Write(x, row) /\ RemoveSeen(x)
    BY <1>2, UnderWay DEF DetachAvatar, At
  <2>2. row.avatar = None
    BY <2>1 DEF Row
  <2> HIDE DEF row
  <2>3. QED
    BY <2>1, <2>2, Replaced DEF At
<1>3. QED
  BY <1>1, <1>2, PutAvatarInv, RemoveAvatarInv

\* The object of a new request is one that nobody has heard of.
LEMMA ReceiveAvatars ==
  ASSUME ProfilesAssumption, Typed, Typed', AvatarsOK, NEW x \in Clients, NEW u \in Users, NEW op,
         NEW arg, NEW tok \in Token, Receive(x, u, op, arg, tok)
  PROVE  AvatarsOK'
<1> DEFINE o == <<u, ops + 1>>
           r == [pc |-> "ensure", op |-> op, user |-> u, arg |-> arg,
                 tok |-> tok, seen |-> NoRow, object |-> o]
<1>1. ops \in Nat /\ ops' = ops + 1 /\ UNCHANGED <<profiles, avatars>>
  BY DEF Receive, Typed, Tables, ProfilesAssumption
<1>2. \A y \in Clients : reqs'[y] = IF y = x THEN r ELSE reqs[y]
  BY <1>1 DEF Receive, Typed, Tables
<1>3. /\ At(x, "idle")
      /\ \A y \in Clients : y # x => reqs'[y] = reqs[y]
      /\ reqs'[x].pc = "ensure" /\ reqs'[x].user = u /\ reqs'[x].object = o
      /\ reqs'[x].seen = NoRow /\ reqs'[x].op = op
  BY <1>2 DEF Receive
<1>4. o \in Owned(u)' /\ \A v \in Users : Owned(v) \subseteq Owned(v)' /\ o \notin Owned(v)
  BY <1>1 DEF Owned
<1> HIDE DEF r, o
<1>5. ObjectsOK'
  <2>1. ASSUME NEW v \in Users, profiles'[v] \in Row, profiles'[v].avatar # None
        PROVE  profiles'[v].avatar \in Owned(v)'
    BY <1>1, <1>4, <2>1 DEF AvatarsOK, ObjectsOK
  <2>2. ASSUME NEW y \in Clients, ~At(y, "idle")', reqs'[y].seen \in Row, reqs'[y].seen.avatar # None
        PROVE  (reqs[y].seen.avatar \in Owned(reqs[y].user))'
    <3>1. y # x /\ reqs'[y] = reqs[y] /\ ~At(y, "idle")
      BY <1>3, <2>2, Rows DEF At
    <3>2. reqs[y].seen.avatar \in Owned(reqs[y].user) /\ reqs[y].user \in Users
      BY <2>2, <3>1, UnderWay DEF AvatarsOK, ObjectsOK
    <3>3. QED
      BY <1>1, <3>1, <3>2 DEF Owned
  <2>3. ASSUME NEW y \in Clients, Handles(y)' PROVE (reqs[y].object \in Owned(reqs[y].user))'
    <3>1. CASE y = x
      BY <1>3, <1>4, <3>1 DEF Owned
    <3>2. CASE y # x
      <4>1. reqs'[y] = reqs[y] /\ Handles(y)
        BY <1>3, <2>3, <3>2 DEF Handles, At
      <4>2. reqs[y].object \in Owned(reqs[y].user)
        BY <4>1 DEF AvatarsOK, ObjectsOK
      <4>3. QED
        BY <1>1, <4>1, <4>2 DEF Owned
    <3>3. QED
      BY <3>1, <3>2
  <2>4. ASSUME NEW y \in Clients, At(y, "attach")' PROVE (reqs[y].object \in avatars)'
    BY <1>1, <1>3, <2>4 DEF AvatarsOK, ObjectsOK, At
  <2>5. QED
    BY <2>1, <2>2, <2>3, <2>4 DEF ObjectsOK
<1>6. ObjectsApart'
  <2>1. ASSUME NEW y \in Clients, Makes(y)' \/ At(y, "remove")', NEW v \in Users,
               Refers(profiles[v], reqs[y].object)'
        PROVE  FALSE
    <3>1. CASE y = x
      <4>1. profiles[v] \in Row /\ profiles[v].avatar = o
        BY <1>1, <1>3, <2>1, <3>1 DEF Refers
      <4>2. o # None
        BY <1>4, ObjectIsNotNone, <1>1, ProfilesAssumption DEF Owned, Typed, Tables, ProfilesAssumption, o
      <4>3. QED
        BY <1>4, <4>1, <4>2 DEF AvatarsOK, ObjectsOK
    <3>2. CASE y # x
      BY <1>1, <1>3, <2>1, <3>2 DEF AvatarsOK, ObjectsApart, Refers, Makes, At
    <3>3. QED
      BY <3>1, <3>2
  <2>2. ASSUME NEW y \in Clients, NEW z \in Clients, Makes(y)', ~At(z, "idle")',
               Refers(reqs[z].seen, reqs[y].object)'
        PROVE  FALSE
    <3>1. z # x /\ reqs'[z] = reqs[z] /\ ~At(z, "idle") /\ reqs[z].seen \in Row /\ reqs[z].user \in Users
      BY <1>3, <2>2, Rows, UnderWay DEF Refers, At
    <3>2. CASE y = x
      <4>1. reqs[z].seen.avatar = o
        BY <1>3, <2>2, <3>1, <3>2 DEF Refers
      <4>2. o # None
        BY <1>4, ObjectIsNotNone, <1>1, ProfilesAssumption DEF Owned, Typed, Tables, ProfilesAssumption, o
      <4>3. QED
        BY <1>4, <3>1, <4>1, <4>2 DEF AvatarsOK, ObjectsOK
    <3>3. CASE y # x
      BY <1>3, <2>2, <3>1, <3>3 DEF AvatarsOK, ObjectsApart, Refers, Makes, At
    <3>4. QED
      BY <3>2, <3>3
  <2>3. ASSUME NEW y \in Clients, NEW z \in Clients, y # z, Makes(y)', Handles(z)'
        PROVE  reqs'[z].object # reqs'[y].object
    <3>1. \A w \in Clients : w # x /\ Handles(w)' =>
            /\ Handles(w) /\ reqs'[w] = reqs[w] /\ reqs[w].user \in Users
            /\ reqs[w].object \in Owned(reqs[w].user)
      BY <1>3, UnderWay DEF AvatarsOK, ObjectsOK, Handles, At
    <3>2. Handles(y)'
      BY <2>3 DEF Makes, Handles
    <3>3. CASE y = x \/ z = x
      BY <1>3, <1>4, <2>3, <3>1, <3>2, <3>3
    <3>4. CASE y # x /\ z # x
      <4>1. Makes(y)
        BY <1>3, <2>3, <3>4 DEF Makes, At
      <4>2. QED
        BY <2>3, <3>1, <3>2, <3>4, <4>1 DEF AvatarsOK, ObjectsApart
    <3>5. QED
      BY <3>3, <3>4
  <2>4. QED
    BY <2>1, <2>2, <2>3 DEF ObjectsApart
<1>7. QED
  BY <1>5, <1>6 DEF AvatarsOK

LEMMA ElapseAvatars ==
  ASSUME ProfilesAssumption, Typed, Typed', AvatarsOK, NEW u \in Users, Elapse(u)
  PROVE  AvatarsOK'
<1>1. UNCHANGED <<reqs, ops>>
  BY DEF Elapse, CooldownEnds, CodeExpires, Replicate, Anonymize
<1>2. CASE CooldownEnds(u) \/ CodeExpires(u) \/ Replicate(u)
  <2>1. KeepsAvatars
    <3>1. CASE Replicate(u)
      BY <3>1, SameAvatars DEF Replicate
    <3>2. CASE CooldownEnds(u) \/ CodeExpires(u)
      <4>1. profiles[u] \in Row /\ \A v \in Users : v # u => profiles'[v] = profiles[v]
        BY <3>2 DEF CooldownEnds, CodeExpires, Typed, Tables
      <4>2. \/ profiles'[u] = [profiles[u] EXCEPT !.recent = FALSE]
            \/ profiles'[u] = [profiles[u] EXCEPT !.expired = TRUE]
        BY <3>2 DEF CooldownEnds, CodeExpires, Typed, Tables
      <4>3. profiles'[u].avatar = profiles[u].avatar
        <5>1. /\ [profiles[u] EXCEPT !.recent = FALSE].avatar = profiles[u].avatar
              /\ [profiles[u] EXCEPT !.expired = TRUE].avatar = profiles[u].avatar
          BY <4>1 DEF Row
        <5>2. QED
          BY <4>2, <5>1
      <4>4. QED
        BY <4>1, <4>3 DEF KeepsAvatars
    <3>3. QED
      BY <1>2, <3>1, <3>2
  <2>2. ASSUME NEW x \in Clients PROVE KeepsHandled
    BY <1>1, HandledEnd
  <2>3. KeepsHandled
    BY <2>2 DEF KeepsHandled
  <2>4. avatars' = avatars
    BY <1>2 DEF CooldownEnds, CodeExpires, Replicate
  <2>5. QED
    BY <1>1, <2>1, <2>3, <2>4, AvatarsKept
<1>3. CASE Anonymize(u)
  <2> DEFINE new == NewRow([iat |-> 0, email |-> None, verified |-> FALSE])
             row == [new EXCEPT !.private = profiles[u].private]
             o == profiles[u].avatar
  <2>1. row.avatar = None
    BY DEF NewRow
  <2>2. \A v \in Users : profiles'[v] = IF v = u THEN row ELSE profiles[v]
    BY <1>3 DEF Anonymize, Typed, Tables
  <2>3. avatars' = avatars \ {o} /\ profiles[u] \in Row
    BY <1>3 DEF Anonymize, Typed, Tables
  <2> HIDE DEF row
  <2>4. ObjectsOK'
    <3>1. ASSUME NEW v \in Users, profiles'[v] \in Row, profiles'[v].avatar # None
          PROVE  (profiles[v].avatar \in Owned(v))'
      BY <1>1, <2>1, <2>2, <3>1 DEF AvatarsOK, ObjectsOK, Owned
    <3>2. ASSUME NEW y \in Clients, At(y, "attach") PROVE reqs[y].object \in avatars'
      <4>1. reqs[y].object # o
        BY <2>3, <3>2, Removing DEF AvatarsOK, ObjectsApart, Refers
      <4>2. QED
        BY <2>3, <3>2, <4>1 DEF AvatarsOK, ObjectsOK
    <3>3. QED
      BY <1>1, <3>1, <3>2 DEF AvatarsOK, ObjectsOK, Owned, At, Handles
  <2>5. ObjectsApart'
    <3>1. ASSUME NEW y \in Clients, Makes(y) \/ At(y, "remove"), NEW v \in Users
          PROVE  ~(profiles'[v] \in Row /\ profiles'[v].avatar = reqs[y].object)
      <4>1. Handles(y) /\ reqs[y].object # None
        BY <3>1, Removing, UnderWay, ObjectIsNotNone DEF AvatarsOK, ObjectsOK, Handles
      <4>2. QED
        BY <2>1, <2>2, <3>1, <4>1 DEF AvatarsOK, ObjectsApart, Refers
    <3>2. QED
      BY <1>1, <3>1 DEF AvatarsOK, ObjectsApart, Refers, Makes, Handles, At
  <2>6. QED
    BY <2>4, <2>5 DEF AvatarsOK
<1>4. QED
  BY <1>2, <1>3 DEF Elapse

LEMMA NextAvatars ==
  ASSUME ProfilesAssumption, Typed, Typed', AvatarsOK, [Next]_vars PROVE AvatarsOK'
<1>1. ASSUME NEW x \in Clients, Step(x) PROVE AvatarsOK'
  BY <1>1, QuietInv, HandlingInv DEF Step, Quiet
<1>2. ASSUME NEW x \in Clients, NEW u \in Users, Ask(x, u) PROVE AvatarsOK'
  BY <1>2, AskAsks, ReceiveAvatars
<1>3. ASSUME NEW u \in Users, Elapse(u) PROVE AvatarsOK'
  BY <1>3, ElapseAvatars
<1>4. CASE UNCHANGED vars
  <2>1. ObjectsOK'
    BY <1>4 DEF vars, AvatarsOK, ObjectsOK, Owned, At, Handles
  <2>2. ObjectsApart'
    BY <1>4 DEF vars, AvatarsOK, ObjectsApart, Refers, At, Makes, Handles
  <2>3. QED
    BY <2>1, <2>2 DEF AvatarsOK
<1>5. QED
  BY <1>1, <1>2, <1>3, <1>4 DEF Next

-----------------------------------------------------------------------------
(* Avatars: which steps can leave a row without its object. *)

\* The condition under which Dangles(u) is allowed to become true.
Undone(u) ==
  \/ Dangles(u) /\ profiles'[u].avatar = profiles[u].avatar
  \/ \E x \in Clients : At(x, "undo") /\ reqs[x].object = profiles'[u].avatar

LEMMA KeepsStored ==
  ASSUME Typed, KeepsAvatars, avatars \subseteq avatars', NEW u \in Users,
         profiles' \in [Users -> {NoRow} \cup Row], Dangles(u)'
  PROVE  Undone(u)
<1>1. profiles'[u] \in Row /\ profiles'[u].avatar # None /\ profiles'[u].avatar \notin avatars'
  BY DEF Dangles
<1>2. profiles[u] \in Row /\ profiles'[u].avatar = profiles[u].avatar
  BY <1>1 DEF KeepsAvatars
<1>3. QED
  BY <1>1, <1>2, Rows DEF Dangles, Undone

LEMMA StepLoses ==
  ASSUME ProfilesAssumption, Typed, Typed', AvatarsOK, NEW x \in Clients, Step(x),
         NEW u \in Users, Dangles(u)'
  PROVE  Undone(u)
<1>1. reqs[x] \in Req /\ reqs[x].user \in Users
  <2>1. reqs[x].pc # "idle"
    BY DEF Step, FindProfile, Provision, SyncIdentity, UpdateProfile, PutAvatar, AttachAvatar,
           DetachAvatar, RemoveAvatar, LookUpPhone, StoreCode, SendCode, ClearVerification,
           CheckCode, CountMiss, AcceptCode, UpdateSettings, At
  <2>2. QED
    BY <2>1, UnderWay DEF At
<1>2. profiles' \in [Users -> {NoRow} \cup Row]
  BY DEF Typed, Tables
<1>3. CASE Quiet(x)
  BY <1>2, <1>3, QuietFacts, QuietAvatars, KeepsStored
<1>4. CASE PutAvatar(x)
  BY <1>2, <1>4, SameAvatars, KeepsStored DEF PutAvatar
<1>5. CASE AttachAvatar(x) \/ DetachAvatar(x)
  <2> DEFINE row == [Mine(x) EXCEPT !.avatar = reqs[x].object]
             bare == [Mine(x) EXCEPT !.avatar = None]
  <2>1. Mine(x) \in Row /\ avatars' = avatars
    BY <1>1, <1>5, UnderWay DEF AttachAvatar, DetachAvatar, At
  <2>2. row.avatar = reqs[x].object /\ bare.avatar = None
    BY <2>1 DEF Row
  <2>3. \/ UNCHANGED profiles
        \/ Write(x, bare)
        \/ Write(x, row) /\ At(x, "attach")
    BY <1>5 DEF AttachAvatar, DetachAvatar
  <2> HIDE DEF row, bare
  <2>4. CASE UNCHANGED profiles
    BY <1>2, <2>1, <2>4, SameAvatars, KeepsStored
  <2>5. CASE \/ Write(x, bare)
             \/ Write(x, row) /\ At(x, "attach")
    <3>1. CASE u = reqs[x].user
      <4>1. profiles'[u] = bare \/ (profiles'[u] = row /\ reqs[x].object \in avatars)
        BY <1>1, <2>5, <3>1 DEF Write, Typed, Tables, AvatarsOK, ObjectsOK
      <4>2. QED
        BY <2>1, <2>2, <4>1 DEF Dangles
    <3>2. CASE u # reqs[x].user
      <4>1. profiles'[u] = profiles[u]
        BY <1>1, <2>5, <3>2 DEF Write, Typed, Tables
      <4>2. QED
        BY <2>1, <4>1 DEF Dangles, Undone
    <3>3. QED
      BY <3>1, <3>2
  <2>6. QED
    BY <2>3, <2>4, <2>5
<1>6. CASE RemoveAvatar(x)
  <2> DEFINE o == reqs[x].object
  <2>1. profiles' = profiles /\ (avatars' = avatars \ {o} \/ avatars' = avatars)
    BY <1>6 DEF RemoveAvatar
  <2>2. profiles[u] \in Row /\ profiles[u].avatar # None /\ profiles[u].avatar \notin avatars'
    BY <1>2, <2>1 DEF Dangles
  <2>3. CASE profiles[u].avatar = o
    <3>1. At(x, "undo")
      BY <1>6, <2>2, <2>3 DEF RemoveAvatar, AvatarsOK, ObjectsApart, Refers
    <3>2. QED
      BY <2>1, <2>3, <3>1 DEF Undone
  <2>4. CASE profiles[u].avatar # o
    BY <2>1, <2>2, <2>4, Rows DEF Dangles, Undone
  <2>5. QED
    BY <2>3, <2>4
<1>7. QED
  BY <1>3, <1>4, <1>5, <1>6 DEF Step, Quiet

LEMMA ElapseLoses ==
  ASSUME ProfilesAssumption, Typed, AvatarsOK, NEW v \in Users, Elapse(v),
         NEW u \in Users, Dangles(u)'
  PROVE  Undone(u)
<1>1. CASE Replicate(v)
  BY <1>1 DEF Replicate, Dangles, Undone
<1>2. CASE CooldownEnds(v) \/ CodeExpires(v)
  <2>1. profiles[v] \in Row /\ avatars' = avatars
    BY <1>2 DEF CooldownEnds, CodeExpires, Typed, Tables
  <2>2. /\ [profiles[v] EXCEPT !.recent = FALSE].avatar = profiles[v].avatar
        /\ [profiles[v] EXCEPT !.expired = TRUE].avatar = profiles[v].avatar
    BY <2>1 DEF Row
  <2>3. profiles'[u] = profiles[u] \/ (u = v /\ profiles'[v].avatar = profiles[v].avatar)
    BY <1>2, <2>2 DEF CooldownEnds, CodeExpires, Typed, Tables
  <2>4. QED
    BY <2>1, <2>3, Rows DEF Dangles, Undone
<1>3. CASE Anonymize(v)
  <2> DEFINE row == [NewRow([iat |-> 0, email |-> None, verified |-> FALSE])
                       EXCEPT !.private = profiles[v].private]
  <2>1. row.avatar = None
    BY DEF NewRow
  <2>2. avatars' = avatars \ {profiles[v].avatar} /\ profiles' = [profiles EXCEPT ![v] = row]
    BY <1>3 DEF Anonymize
  <2>3. profiles[v] \in Row
    BY <1>3 DEF Anonymize, Typed, Tables
  <2> HIDE DEF row
  <2>4. u # v /\ profiles'[u] = profiles[u]
    BY <2>1, <2>2 DEF Dangles, Typed, Tables
  <2>5. profiles[u] \in Row /\ profiles[u].avatar # None
    BY <2>4 DEF Dangles, Typed, Tables
  <2>6. profiles[u].avatar # profiles[v].avatar
    BY <2>3, <2>4, <2>5, OwnersDiffer DEF AvatarsOK, ObjectsOK
  <2>7. QED
    BY <2>2, <2>4, <2>5, <2>6, Rows DEF Dangles, Undone
<1>4. QED
  BY <1>1, <1>2, <1>3 DEF Elapse

-----------------------------------------------------------------------------
(* Settings: the row agrees with what was supplied. *)

LEMMA SettingsKept ==
  ASSUME SettingsOK, UNCHANGED <<settings, chosen>> PROVE SettingsOK'
BY DEF SettingsOK

LEMMA UpdateSettingsInv ==
  ASSUME Typed, SettingsOK, NEW x \in Clients, UpdateSettings(x) PROVE SettingsOK'
<1> DEFINE u == reqs[x].user
           arg == reqs[x].arg
<1>1. u \in Users
  BY UnderWay DEF UpdateSettings, At
<1>2. /\ \A v \in Users : v # u => settings'[v] = settings[v] /\ chosen'[v] = chosen[v]
      /\ settings'[u] = Upsert(u, arg)
      /\ chosen'[u] = [theme |-> Supplied(arg.theme, chosen[u].theme),
                       language |-> Supplied(arg.language, chosen[u].language)]
  BY <1>1 DEF UpdateSettings, Typed, Tables
<1>3. /\ Stored(settings[u]).theme = chosen[u].theme
      /\ Stored(settings[u]).language = chosen[u].language
  BY <1>1 DEF SettingsOK, Stored, Defaults
<1>4. /\ settings'[u].theme = chosen'[u].theme
      /\ settings'[u].language = chosen'[u].language
      /\ settings'[u] # NoRow
  BY <1>2, <1>3 DEF Upsert, Merge, NoRow
<1>5. QED
  BY <1>2, <1>4 DEF SettingsOK

LEMMA NextSettings ==
  ASSUME Typed, SettingsOK, [Next]_vars PROVE SettingsOK'
<1>1. ASSUME NEW x \in Clients, Step(x) PROVE SettingsOK'
  <2>1. CASE UpdateSettings(x)
    BY <2>1, UpdateSettingsInv
  <2>2. CASE UNCHANGED <<settings, chosen>>
    BY <2>2, SettingsKept
  <2>3. QED
    BY <1>1, <2>1, <2>2
       DEF Step, FindProfile, Provision, SyncIdentity, UpdateProfile, PutAvatar, AttachAvatar,
           DetachAvatar, RemoveAvatar, LookUpPhone, StoreCode, SendCode, ClearVerification,
           CheckCode, CountMiss, AcceptCode
<1>2. ASSUME NEW x \in Clients, NEW u \in Users, Ask(x, u) PROVE SettingsOK'
  <2>1. UNCHANGED <<settings, chosen>>
    BY <1>2, AskAsks DEF Receive
  <2>2. QED
    BY <2>1, SettingsKept
<1>3. ASSUME NEW u \in Users, Elapse(u) PROVE SettingsOK'
  <2>1. CASE Anonymize(u)
    <3>1. /\ \A v \in Users : v # u => settings'[v] = settings[v] /\ chosen'[v] = chosen[v]
          /\ settings'[u] = NoRow /\ chosen'[u] = [theme |-> "dark", language |-> "pl"]
      BY <2>1 DEF Anonymize, Typed, Tables
    <3>2. QED
      BY <3>1 DEF SettingsOK
  <2>2. CASE UNCHANGED <<settings, chosen>>
    BY <2>2, SettingsKept
  <2>3. QED
    BY <1>3, <2>1, <2>2 DEF Elapse, CooldownEnds, CodeExpires, Replicate
<1>4. CASE UNCHANGED vars
  BY <1>4, SettingsKept DEF vars
<1>5. QED
  BY <1>1, <1>2, <1>3, <1>4 DEF Next

-----------------------------------------------------------------------------
(* The theorems. *)

LEMMA InitInv == ASSUME ProfilesAssumption, Init PROVE Inv
<1>1. Tables
  BY EmptySeq DEF Init, Tables, OrNone, Chosen, ProfilesAssumption
<1>2. \A x \in Clients : At(x, "idle")
  BY DEF Init, At, NoReq
<1>3. Typed
  BY <1>1, <1>2 DEF Typed, Stages
<1>4. \A u \in Users : profiles[u] = NoRow /\ profiles[u] \notin Row
  BY Rows DEF Init
<1>5. CodesOK
  <2>1. DOMAIN codes = {}
    BY EmptySeq DEF Init
  <2>2. QED
    BY <1>2, <1>4, <2>1 DEF CodesOK, Expected, Presents, VerifiedIsProved, GuessesAreBounded
<1>6. AvatarsOK
  <2>1. \A x \in Clients : ~At(x, "attach") /\ ~At(x, "remove")
    BY <1>2 DEF At
  <2>2. QED
    BY <1>2, <1>4, <2>1 DEF AvatarsOK, ObjectsOK, ObjectsApart, Handles, Makes
<1>7. SettingsOK
  BY DEF Init, SettingsOK
<1>8. QED
  BY <1>3, <1>5, <1>6, <1>7 DEF Inv

LEMMA NextInv == ASSUME ProfilesAssumption, Inv, [Next]_vars PROVE Inv'
<1>1. Typed' /\ CodesOK'
  BY NextCodes DEF Inv
<1>2. AvatarsOK'
  BY <1>1, NextAvatars DEF Inv
<1>3. SettingsOK'
  BY NextSettings DEF Inv
<1>4. QED
  BY <1>1, <1>2, <1>3 DEF Inv

LEMMA Invariant == Spec => []Inv
<1>1. Init => Inv
  BY ProfilesAssumption, InitInv
<1>2. Inv /\ [Next]_vars => Inv'
  BY ProfilesAssumption, NextInv
<1>3. QED
  BY <1>1, <1>2, PTL DEF Spec

(* The tables of Profiles keep their types in every behaviour: rows that     *)
(* requests write back, codes that are drawn, objects that are stored.       *)
THEOREM TypeCorrect == Spec => []TypeOK
<1>1. Inv => TypeOK
  BY DEF Inv, Typed, Tables, TypeOK
<1>2. QED
  BY <1>1, Invariant, PTL

(* A verified number is one whose code its user has presented, however many  *)
(* requests of however many users overlap (requestPhoneVerification,         *)
(* verifyPhone, clearPhoneVerification).                                     *)
THEOREM VerificationIsProved == Spec => []VerifiedIsProved
<1>1. Inv => VerifiedIsProved
  BY DEF Inv, CodesOK
<1>2. QED
  BY <1>1, Invariant, PTL

(* A code answers at most MaxAttempts wrong guesses and verifies at most one *)
(* number, whatever requests read the attempts together (verifyPhone).       *)
THEOREM GuessesHaveABound == Spec => []GuessesAreBounded
<1>1. Inv => GuessesAreBounded
  BY DEF Inv, CodesOK
<1>2. QED
  BY <1>1, Invariant, PTL

(* Whatever uploads, deletions, failed updates and lost answers overlap, a   *)
(* profile is left without the object it refers to by nothing but the upload *)
(* that stored it (uploadAvatar, deleteAvatar, removeAvatar).                *)
THEOREM AvatarsStayStored == Spec => OnlyItsUploadRemovesAnAvatar
<1>1. Inv /\ [Next]_vars => [\A u \in Users : Dangles(u)' => Undone(u)]_vars
  <2> SUFFICES ASSUME Inv, Next, NEW u \in Users, Dangles(u)' PROVE Undone(u)
    OBVIOUS
  <2>0. Typed'
    BY ProfilesAssumption, NextCodes DEF Inv
  <2>1. CASE \E x \in Clients : Step(x)
    BY <2>0, <2>1, ProfilesAssumption, StepLoses DEF Inv
  <2>2. CASE \E x \in Clients, v \in Users : Ask(x, v)
    <3>1. UNCHANGED <<profiles, avatars>>
      BY <2>2, AskAsks DEF Receive
    <3>2. QED
      BY <3>1 DEF Dangles, Undone
  <2>3. CASE \E v \in Users : Elapse(v)
    BY <2>3, ProfilesAssumption, ElapseLoses DEF Inv
  <2>4. QED
    BY <2>1, <2>2, <2>3 DEF Next
<1>2. QED
  BY <1>1, Invariant, PTL DEF Spec, OnlyItsUploadRemovesAnAvatar, Undone

(* Fields of the settings that an update omits keep their values, whatever   *)
(* updates overlap (UserSettingsService's upsert).                           *)
THEOREM SettingsStayChosen == Spec => []SettingsAreChosen
<1>1. Inv => SettingsAreChosen
  BY DEF Inv, SettingsOK, SettingsAreChosen
<1>2. QED
  BY <1>1, Invariant, PTL
=============================================================================
