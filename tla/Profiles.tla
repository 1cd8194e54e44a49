------------------------------ MODULE Profiles ------------------------------
(***************************************************************************)
(* ProfileService and UserSettingsService: provisioning a profile on the   *)
(* first request, its fields, its avatar, the verification of its phone    *)
(* number, and the account's settings.                                     *)
(*                                                                         *)
(* No operation here runs in a transaction.  A request reads the profile,  *)
(* decides on what it has read and then writes with single statements; one *)
(* step per statement or call, so that requests of one user interleave.    *)
(* The verified-number lookup goes to the read replica, which may lag.     *)
(* Mail delivery and object storage, external, may fail; a message whose   *)
(* delivery failed may have arrived.  Two codes drawn are taken to differ. *)
(***************************************************************************)
EXTENDS Integers, FiniteSets, Sequences

CONSTANTS
  Users,        \* Keycloak subjects
  Phones,       \* phone numbers
  Names,        \* usernames
  Emails,       \* e-mail addresses
  Clients,      \* requests in flight
  MaxAttempts,  \* PHONE_VERIFICATION_MAX_ATTEMPTS
  MaxIat,       \* bound on the times at which tokens are issued
  MaxCodes,     \* bound on the codes drawn
  MaxOps,       \* bound on the number of requests
  None          \* null

ASSUME ProfilesAssumption ==
  /\ MaxAttempts \in Nat \ {0}
  /\ MaxIat \in Nat \ {0}
  /\ MaxCodes \in Nat
  /\ MaxOps \in Nat
  /\ None \notin Phones \cup Names \cup Emails \cup BOOLEAN \cup (Users \X (1..MaxOps))

VARIABLES
  profiles,   \* the profile of each user, or NoRow
  replica,    \* the verified number of each user on the read replica
  settings,   \* user_settings of each user, or NoRow
  chosen,     \* history: the settings each user last supplied
  avatars,    \* objects in the avatar bucket: <<owner, number>>
  codes,      \* history: the codes drawn, in order; a code is its index
  reqs,       \* the requests in flight
  erased,     \* users whose account has been anonymized
  ops         \* requests so far

vars == <<profiles, replica, settings, chosen, avatars, codes, reqs, erased, ops>>

OrNone(S) == S \cup {None}
Avatars == Users \X (1..MaxOps)
NoRow == [row |-> FALSE]

Row == [row: {TRUE},
        email: OrNone(Emails), synced: 0..MaxIat,
        name: OrNone(Names), private: BOOLEAN,
        avatar: OrNone(Avatars),
        phone: OrNone(Phones), verified: BOOLEAN,
        token: 0..MaxCodes,       \* the code expected, 0 for none
        attempts: 0..MaxAttempts,
        recent: BOOLEAN,          \* the code was sent within the cooldown
        expired: BOOLEAN]         \* its time is up

Settings == [row: {TRUE}, theme: {"light", "dark"}, language: {"pl", "en"}]
Code == [user: Users, phone: Phones,
         delivered: BOOLEAN,      \* the user may have received it
         presented: BOOLEAN,      \* the user has presented it since
         misses: Nat,             \* wrong guesses answered while it was expected
         accepted: Nat]           \* the times it has verified a number
Token == [iat: 1..MaxIat, email: Emails, verified: BOOLEAN]

\* What a request brings: a change of fields (None where omitted), a number or a code.
Changes == [name: OrNone(Names), private: OrNone(BOOLEAN)]
Choices == [theme: {None, "light", "dark"}, language: {None, "pl", "en"}]

NoReq == [pc |-> "idle"]

TypeOK ==
  /\ \A u \in Users : profiles[u] = NoRow \/ profiles[u] \in Row
  /\ replica \in [Users -> OrNone(Phones)]
  /\ \A u \in Users : settings[u] = NoRow \/ settings[u] \in Settings
  /\ avatars \subseteq Avatars
  /\ codes \in Seq(Code)
  /\ erased \subseteq Users
  /\ ops \in 0..MaxOps

-----------------------------------------------------------------------------
Init ==
  /\ profiles = [u \in Users |-> NoRow]
  /\ replica = [u \in Users |-> None]
  /\ settings = [u \in Users |-> NoRow]
  /\ chosen = [u \in Users |-> [theme |-> "dark", language |-> "pl"]]
  /\ avatars = {}
  /\ codes = <<>>
  /\ reqs = [x \in Clients |-> NoReq]
  /\ erased = {}
  /\ ops = 0

At(x, pc) == reqs[x].pc = pc
Mine(x) == profiles[reqs[x].user]
Goto(x, pc) == reqs' = [reqs EXCEPT ![x].pc = pc]
End(x) == reqs' = [reqs EXCEPT ![x] = NoReq]

\* One UPDATE of the user's row.
Write(x, row) == profiles' = [profiles EXCEPT ![reqs[x].user] = row]

Receive(x, u, op, arg, tok) ==
  /\ At(x, "idle")
  /\ ops < MaxOps
  /\ u \notin erased
  /\ ops' = ops + 1
  /\ reqs' = [reqs EXCEPT ![x] = [pc |-> "ensure", op |-> op, user |-> u, arg |-> arg,
                                  tok |-> tok, seen |-> NoRow, object |-> <<u, ops'>>]]
  /\ codes' = IF op = "verify" /\ arg # 0 THEN [codes EXCEPT ![arg].presented = TRUE] ELSE codes
  /\ UNCHANGED <<profiles, replica, settings, chosen, avatars, erased>>

-----------------------------------------------------------------------------
(* ensureProfile, the first part of every operation. *)

NewRow(tok) ==
  [row |-> TRUE, email |-> IF tok.verified THEN tok.email ELSE None, synced |-> tok.iat,
   name |-> None, private |-> FALSE, avatar |-> None, phone |-> None, verified |-> FALSE,
   token |-> 0, attempts |-> 0, recent |-> FALSE, expired |-> FALSE]

IdentityChanged(row, tok) ==
  tok.iat > row.synced /\ tok.verified /\ tok.email # row.email

Ensured(x, row) ==
  IF reqs[x].op = "me" THEN End(x)
  ELSE reqs' = [reqs EXCEPT ![x].pc = reqs[x].op, ![x].seen = row]

FindProfile(x) ==
  /\ At(x, "ensure")
  /\ IF Mine(x) = NoRow THEN Goto(x, "provision")
     ELSE IF IdentityChanged(Mine(x), reqs[x].tok)
          THEN reqs' = [reqs EXCEPT ![x].pc = "sync", ![x].seen = Mine(x)]
          ELSE Ensured(x, Mine(x))
  /\ UNCHANGED <<profiles, replica, settings, chosen, avatars, codes, erased, ops>>

\* The insert does nothing on a conflict; the row another request made is read.
Provision(x) ==
  /\ At(x, "provision")
  /\ IF Mine(x) = NoRow
     THEN Write(x, NewRow(reqs[x].tok)) /\ Ensured(x, NewRow(reqs[x].tok))
     ELSE Goto(x, "ensure") /\ UNCHANGED profiles
  /\ UNCHANGED <<replica, settings, chosen, avatars, codes, erased, ops>>

EmailOf(tok, seen) == IF tok.verified THEN tok.email ELSE seen.email

SyncIdentity(x) ==
  LET row == [Mine(x) EXCEPT !.email = EmailOf(reqs[x].tok, reqs[x].seen),
                             !.synced = reqs[x].tok.iat]
  IN /\ At(x, "sync")
     /\ Write(x, row)
     /\ Ensured(x, row)
     /\ UNCHANGED <<replica, settings, chosen, avatars, codes, erased, ops>>

-----------------------------------------------------------------------------
(* The fields of the profile. *)

Supplied(new, old) == IF new = None THEN old ELSE new

\* The fields that were not supplied are written back as they were read.
UpdateProfile(x) ==
  LET name == Supplied(reqs[x].arg.name, reqs[x].seen.name)
      taken == name # None /\ \E u \in Users \ {reqs[x].user} :
                                profiles[u] # NoRow /\ profiles[u].name = name
  IN /\ At(x, "profile")
     /\ IF taken THEN UNCHANGED profiles
        ELSE Write(x, [Mine(x) EXCEPT !.name = name,
                                      !.private = Supplied(reqs[x].arg.private, reqs[x].seen.private)])
     /\ End(x)
     /\ UNCHANGED <<replica, settings, chosen, avatars, codes, erased, ops>>

-----------------------------------------------------------------------------
(* The avatar: the object first, then the row, then the old object. *)

PutAvatar(x) ==
  /\ At(x, "avatar")
  /\ avatars' = avatars \cup {reqs[x].object}
  /\ Goto(x, "attach")
  /\ UNCHANGED <<profiles, replica, settings, chosen, codes, erased, ops>>

\* Mutant: what the row refers to now is removed, not what was read.
RemoveUpdated(x) == Goto(x, "remove")

\* After the row is written, the avatar read at the start is removed.
RemoveSeen(x) ==
  IF reqs[x].seen.avatar = None THEN End(x)
  ELSE reqs' = [reqs EXCEPT ![x].pc = "remove", ![x].object = reqs[x].seen.avatar]

\* An UPDATE that fails, or whose answer is lost once it has committed, is caught:
\* the upload removes the object it has stored.
AttachAvatar(x) ==
  LET row == [Mine(x) EXCEPT !.avatar = reqs[x].object]
  IN /\ At(x, "attach")
     /\ \/ Write(x, row) /\ RemoveSeen(x)
        \/ Write(x, row) /\ Goto(x, "undo")
        \/ UNCHANGED profiles /\ Goto(x, "undo")
     /\ UNCHANGED <<replica, settings, chosen, avatars, codes, erased, ops>>

DetachAvatar(x) ==
  /\ At(x, "noavatar")
  /\ Write(x, [Mine(x) EXCEPT !.avatar = None])
  /\ RemoveSeen(x)
  /\ UNCHANGED <<replica, settings, chosen, avatars, codes, erased, ops>>

\* removeAvatar: a failure is logged and nothing more.
RemoveAvatar(x) ==
  /\ At(x, "remove") \/ At(x, "undo")
  /\ \/ avatars' = avatars \ {reqs[x].object}
     \/ UNCHANGED avatars
  /\ End(x)
  /\ UNCHANGED <<profiles, replica, settings, chosen, codes, erased, ops>>

-----------------------------------------------------------------------------
(* Phone verification: requestPhoneVerification and verifyPhone. *)

\* A number is looked up on the read replica, the asker's own included.
LookUpPhone(x) ==
  /\ At(x, "phone")
  /\ IF \/ reqs[x].seen.recent
        \/ \E u \in Users : replica[u] = reqs[x].arg
        \/ reqs[x].seen.email = None
     THEN End(x)
     ELSE Goto(x, "store")
  /\ UNCHANGED <<profiles, replica, settings, chosen, avatars, codes, erased, ops>>

\* The code is drawn, and its hash stored with the number.
StoreCode(x) ==
  /\ At(x, "store")
  /\ Len(codes) < MaxCodes
  /\ codes' = Append(codes, [user |-> reqs[x].user, phone |-> reqs[x].arg, delivered |-> FALSE,
                             presented |-> FALSE, misses |-> 0, accepted |-> 0])
  /\ Write(x, [Mine(x) EXCEPT !.phone = reqs[x].arg, !.verified = FALSE, !.token = Len(codes'),
                              !.attempts = 0, !.recent = TRUE, !.expired = FALSE])
  /\ reqs' = [reqs EXCEPT ![x].pc = "send", ![x].object = Len(codes')]
  /\ UNCHANGED <<replica, settings, chosen, avatars, erased, ops>>

\* A delivery that fails, at any stage of the exchange, is cleared afterwards.
SendCode(x) ==
  /\ At(x, "send")
  /\ \/ codes' = [codes EXCEPT ![reqs[x].object].delivered = TRUE] /\ End(x)
     \/ codes' = [codes EXCEPT ![reqs[x].object].delivered = TRUE] /\ Goto(x, "clear")
     \/ UNCHANGED codes /\ Goto(x, "clear")
  /\ UNCHANGED <<profiles, replica, settings, chosen, avatars, erased, ops>>

\* clearPhoneVerification names the user only.
ClearVerification(x) ==
  /\ At(x, "clear")
  /\ Write(x, [Mine(x) EXCEPT !.token = 0, !.expired = FALSE, !.recent = FALSE, !.attempts = 0])
  /\ End(x)
  /\ UNCHANGED <<replica, settings, chosen, avatars, codes, erased, ops>>

\* The code presented is compared with the one read at the start.
CheckCode(x) ==
  LET seen == reqs[x].seen
  IN /\ At(x, "verify")
     /\ IF seen.token = 0 THEN End(x)
        ELSE IF seen.expired THEN Goto(x, "clear")
        ELSE IF seen.attempts >= MaxAttempts THEN End(x)
        ELSE Goto(x, IF reqs[x].arg = seen.token THEN "accept" ELSE "miss")
     /\ UNCHANGED <<profiles, replica, settings, chosen, avatars, codes, erased, ops>>

\* Mutants of the WHERE clause: the token, or the attempts, left out.
AnyToken(row, seen) == row.attempts < MaxAttempts
AnyAttempts(row, seen) == row.token = seen.token
StillExpected(row, seen) == row.token = seen.token /\ row.attempts < MaxAttempts

CountMiss(x) ==
  LET row == Mine(x)
  IN /\ At(x, "miss")
     /\ IF StillExpected(row, reqs[x].seen)
        THEN /\ Write(x, [row EXCEPT !.attempts = @ + 1])
             /\ codes' = [codes EXCEPT ![reqs[x].seen.token].misses = @ + 1]
        ELSE UNCHANGED <<profiles, codes>>
     /\ End(x)
     /\ UNCHANGED <<replica, settings, chosen, avatars, erased, ops>>

AcceptCode(x) ==
  LET row == Mine(x)
  IN /\ At(x, "accept")
     /\ IF StillExpected(row, reqs[x].seen)
        THEN /\ Write(x, [row EXCEPT !.verified = TRUE, !.token = 0, !.expired = FALSE,
                                     !.recent = FALSE, !.attempts = 0])
             /\ codes' = [codes EXCEPT ![reqs[x].seen.token].accepted = @ + 1]
        ELSE UNCHANGED <<profiles, codes>>
     /\ End(x)
     /\ UNCHANGED <<replica, settings, chosen, avatars, erased, ops>>

-----------------------------------------------------------------------------
(* Settings: one upsert that sets the fields supplied. *)

Merge(row, arg) ==
  [row |-> TRUE, theme |-> Supplied(arg.theme, row.theme),
   language |-> Supplied(arg.language, row.language)]

Defaults == [row |-> TRUE, theme |-> "dark", language |-> "pl"]
Stored(row) == IF row = NoRow THEN Defaults ELSE row

\* Mutant: the fields not supplied are written from the defaults.
UpsertAll(u, arg) == Merge(Defaults, arg)
Upsert(u, arg) == Merge(Stored(settings[u]), arg)

\* getSettings, which creates the row, is an update that supplies nothing.
UpdateSettings(x) ==
  LET u == reqs[x].user
      arg == reqs[x].arg
  IN /\ At(x, "settings")
     /\ settings' = [settings EXCEPT ![u] = Upsert(u, arg)]
     /\ chosen' = [chosen EXCEPT ![u] = [theme |-> Supplied(arg.theme, @.theme),
                                         language |-> Supplied(arg.language, @.language)]]
     /\ End(x)
     /\ UNCHANGED <<profiles, replica, avatars, codes, erased, ops>>

-----------------------------------------------------------------------------
(* Time, the replica and the erasure of the account. *)

CooldownEnds(u) ==
  /\ profiles[u] # NoRow /\ profiles[u].recent
  /\ profiles' = [profiles EXCEPT ![u].recent = FALSE]
  /\ UNCHANGED <<replica, settings, chosen, avatars, codes, reqs, erased, ops>>

CodeExpires(u) ==
  /\ profiles[u] # NoRow /\ profiles[u].token # 0 /\ ~profiles[u].expired
  /\ profiles' = [profiles EXCEPT ![u].expired = TRUE]
  /\ UNCHANGED <<replica, settings, chosen, avatars, codes, reqs, erased, ops>>

VerifiedNumber(u) ==
  IF profiles[u] # NoRow /\ profiles[u].verified THEN profiles[u].phone ELSE None

Replicate(u) ==
  /\ replica[u] # VerifiedNumber(u)
  /\ replica' = [replica EXCEPT ![u] = VerifiedNumber(u)]
  /\ UNCHANGED <<profiles, settings, chosen, avatars, codes, reqs, erased, ops>>

\* The grace period is over, and long before it the user's last request was.
Anonymize(u) ==
  /\ profiles[u] # NoRow /\ u \notin erased
  /\ \A x \in Clients : ~At(x, "idle") => reqs[x].user # u
  /\ erased' = erased \cup {u}
  /\ avatars' = avatars \ {profiles[u].avatar}
  /\ profiles' = [profiles EXCEPT ![u] = [NewRow([iat |-> 0, email |-> None, verified |-> FALSE])
                                           EXCEPT !.private = profiles[u].private]]
  /\ settings' = [settings EXCEPT ![u] = NoRow]
  /\ chosen' = [chosen EXCEPT ![u] = [theme |-> "dark", language |-> "pl"]]
  /\ UNCHANGED <<replica, codes, reqs, ops>>

-----------------------------------------------------------------------------
Step(x) ==
  \/ FindProfile(x) \/ Provision(x) \/ SyncIdentity(x)
  \/ UpdateProfile(x)
  \/ PutAvatar(x) \/ AttachAvatar(x) \/ DetachAvatar(x) \/ RemoveAvatar(x)
  \/ LookUpPhone(x) \/ StoreCode(x) \/ SendCode(x) \/ ClearVerification(x)
  \/ CheckCode(x) \/ CountMiss(x) \/ AcceptCode(x)
  \/ UpdateSettings(x)

\* A code presented is one the user has received, or a guess.
Presentable(u) == {0} \cup {c \in DOMAIN codes : codes[c].user = u /\ codes[c].delivered}

Ask(x, u) ==
  \E tok \in Token :
    \/ \E op \in {"me", "avatar", "noavatar"} : Receive(x, u, op, None, tok)
    \/ \E arg \in Changes : Receive(x, u, "profile", arg, tok)
    \/ \E arg \in Choices : Receive(x, u, "settings", arg, tok)
    \/ \E n \in Phones : Receive(x, u, "phone", n, tok)
    \/ \E c \in Presentable(u) : Receive(x, u, "verify", c, tok)

Elapse(u) == CooldownEnds(u) \/ CodeExpires(u) \/ Replicate(u) \/ Anonymize(u)

Next ==
  \/ \E x \in Clients : Step(x) \/ \E u \in Users : Ask(x, u)
  \/ \E u \in Users : Elapse(u)

Spec == Init /\ [][Next]_vars

-----------------------------------------------------------------------------
(* Properties. *)

(* A verified number is one to which a code was sent for this user, and the  *)
(* user has presented that code: whatever requests overlap, a code never     *)
(* verifies the number of another request (verifyPhone's WHERE clause).      *)
VerifiedIsProved ==
  \A u \in Users :
    profiles[u] # NoRow /\ profiles[u].verified =>
      \E c \in DOMAIN codes :
        /\ codes[c].user = u
        /\ codes[c].phone = profiles[u].phone
        /\ codes[c].presented

(* No more than PHONE_VERIFICATION_MAX_ATTEMPTS wrong guesses are answered   *)
(* against one code, however many requests read the attempts at the same     *)
(* time, and a code verifies one number once (verifyPhone).                  *)
GuessesAreBounded ==
  \A c \in DOMAIN codes : codes[c].misses <= MaxAttempts /\ codes[c].accepted <= 1

Dangles(u) ==
  profiles[u] # NoRow /\ profiles[u].avatar # None /\ profiles[u].avatar \notin avatars

(* Overlapping uploads and deletions, each of which removes the avatar it    *)
(* read at its start, never take from the bucket the one a profile refers    *)
(* to, and never let a profile refer to one that is gone.  The only request  *)
(* that does is the upload that stored it, when the answer to its UPDATE was *)
(* lost (uploadAvatar, deleteAvatar, removeAvatar).                          *)
OnlyItsUploadRemovesAnAvatar ==
  [][\A u \in Users : Dangles(u)' =>
       \/ Dangles(u) /\ profiles'[u].avatar = profiles[u].avatar
       \/ \E x \in Clients : At(x, "undo") /\ reqs[x].object = profiles'[u].avatar]_vars

(* The avatar a profile refers to is in the bucket, which that upload breaks *)
(* (uploadAvatar).                                                           *)
AvatarIsStored == \A u \in Users : ~Dangles(u)

(* Settings omitted from a partial update retain their values, whatever      *)
(* updates overlap (user-settings.controller.ts: "Only supplied fields are   *)
(* changed").                                                                *)
SettingsAreChosen ==
  \A u \in Users : settings[u] # NoRow =>
    /\ settings[u].theme = chosen[u].theme
    /\ settings[u].language = chosen[u].language

(* A number is verified for one account (profile.service.ts: "Check if phone *)
(* already verified for another account").                                   *)
PhoneVerifiedOnce ==
  \A u, v \in Users :
    u # v /\ VerifiedNumber(u) # None => VerifiedNumber(u) # VerifiedNumber(v)

(* Once an account is erased no avatar of it is left (README.md: the worker  *)
(* "usuwa PII profilu, telefon i OTP, avatar").                              *)
AvatarsAreErased ==
  \A u \in erased : \A o \in avatars : o[1] # u
=============================================================================
