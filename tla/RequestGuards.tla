--------------------------- MODULE RequestGuards ----------------------------
(***************************************************************************)
(* What a request passes before its handler runs: the global guards in     *)
(* their order (AppAuthGuard, AccountStatusGuard, AuthorizationGuard) and  *)
(* the route's RedisRateLimitGuard, whose fixed windows are counted in a   *)
(* Redis that every API replica shares.                                    *)
(*                                                                         *)
(* One guard is one step, one policy of the rate limiter is one step: the  *)
(* script in Redis is atomic, the policies of a route are not.  Redis,     *)
(* external, may be unreachable, may answer too late, and may be sent the  *)
(* script a second time when the connection was lost.  The signature of a  *)
(* token is checked by a library.  Durations are in ticks of the clock.    *)
(***************************************************************************)
EXTENDS Integers, FiniteSets, Sequences

CONSTANTS
  Subjects,   \* Keycloak subjects
  Inactive,   \* those whose account is not ACTIVE
  Addresses,  \* client addresses
  Clients,    \* requests in flight
  Exercised,  \* names of the routes the instance exercises
  UserLimit,  \* requests per window and user
  IpLimit,    \* requests per window and address
  Window,     \* length of a window, in ticks
  Second,     \* ticks in a second
  MaxCount    \* bound on the requests counted in a window beyond its limit

ASSUME RequestGuardsAssumption ==
  /\ Inactive \subseteq Subjects
  /\ UserLimit \in Nat \ {0} /\ IpLimit \in Nat \ {0}
  /\ Second \in Nat \ {0} /\ MaxCount \in Nat
  /\ Window \in Nat \ {0} /\ Window % Second = 0

-----------------------------------------------------------------------------
(* The routes and their metadata. *)

Policy(name, scope) == [name |-> name, scopes |-> {scope}]
PerUser(name) == <<Policy(name, "user")>>
PerIp(name) == <<Policy(name, "ip")>>
PerBoth(user, ip) == <<Policy(user, "user"), Policy(ip, "ip")>>

Route(name, auth, policies) ==
  [name |-> name, auth |-> auth, inactive |-> FALSE, roles |-> {}, policies |-> policies]

HealthRoutes == {Route(n, "public", <<>>) : n \in {"live", "liveness", "readiness"}}
MetricsRoutes == {Route("getMetrics", "public", <<>>)}

AccountRoutes ==
  {[Route(n, "required", <<>>) EXCEPT !.inactive = TRUE] :
     n \in {"getStatus", "deactivate", "reactivate", "requestDeletion", "cancelDeletion"}}

ProfileRoutes ==
  {Route(n, "required", <<>>) : n \in {"getProfile", "updateProfile", "deleteAvatar", "getProfileInfo"}}
  \cup {Route(n, "optional", <<>>) :
          n \in {"getProfileById", "listProfileCreatedEvents", "listProfileAttendingEvents"}}
  \cup {Route("uploadAvatar", "required", PerBoth("profile_avatar_user", "profile_avatar_ip")),
        Route("requestPhoneVerification", "required",
              PerBoth("phone_otp_request_user", "phone_otp_request_ip")),
        Route("verifyPhone", "required", PerBoth("phone_otp_verify_user", "phone_otp_verify_ip"))}

SettingsRoutes == {Route(n, "required", <<>>) : n \in {"getSettings", "updateSettings"}}

FollowRoutes ==
  {Route(n, "required", <<>>) : n \in {"listFollowing", "listFollowers", "unfollow"}}
  \cup {Route("follow", "required", PerUser("creator_follow_user"))}

BlockRoutes ==
  {Route(n, "required", <<>>) : n \in {"unblock", "list"}}
  \cup {Route("block", "required", PerUser("user_block_user"))}

ReportRoutes == {Route("report", "required", PerBoth("event_report_user", "event_report_ip"))}

EventCommandRoutes ==
  {Route(n, "required", <<>>) : n \in {"publishEvent", "cancelEvent", "archiveEvent"}}
  \cup {Route("createEvent", "required", PerBoth("event_create_user", "event_create_ip")),
        Route("requestPhotoUploads", "required",
              PerBoth("event_photo_upload_url_user", "event_photo_upload_url_ip")),
        Route("updateEvent", "required", PerUser("event_update_user")),
        Route("resubmitEvent", "required", PerUser("event_resubmit_user"))}

DiscoveryRoutes ==
  {Route("getMapEvents", "optional", PerIp("event_map_ip")),
   Route("searchEvents", "optional", PerIp("event_search_ip"))}

EventReadRoutes ==
  {Route(n, "required", <<>>) :
     n \in {"getMyStats", "listMyCreated", "listMyAttending", "listMyLiked", "listMySaved",
            "getViewerState"}}
  \cup {Route("getEventById", "optional", <<>>)}

EngagementRoutes ==
  {Route(n, "required", <<>>) : n \in {"likeEvent", "unlikeEvent", "saveEvent", "unsaveEvent", "setRsvp", "cancelRsvp"}}

CommentRoutes ==
  {Route(n, "optional", <<>>) : n \in {"listComments", "listLikes", "listParticipants"}}
  \cup {Route("listMentionSuggestions", "required", PerUser("event_comment_mentions_user")),
        Route("createComment", "required",
              PerBoth("event_comment_create_user", "event_comment_create_ip")),
        Route("updateComment", "required", PerUser("event_comment_update_user")),
        Route("deleteComment", "required", <<>>),
        Route("likeComment", "required", PerUser("event_comment_like_user")),
        Route("unlikeComment", "required", PerUser("event_comment_unlike_user"))}

Routes ==
  HealthRoutes \cup MetricsRoutes \cup AccountRoutes \cup ProfileRoutes \cup SettingsRoutes
  \cup FollowRoutes \cup BlockRoutes \cup ReportRoutes \cup EventCommandRoutes
  \cup DiscoveryRoutes \cup EventReadRoutes \cup EngagementRoutes \cup CommentRoutes

-----------------------------------------------------------------------------
(* Tokens, and the user a token stands for. *)

Nobody == "nobody"
Anonymous == [header |-> "none"]

\* header: absent, not of the form "Bearer ...", or a bearer token.
Credentials ==
  {Anonymous, [header |-> "malformed"]}
  \cup [header: {"bearer"}, signed: BOOLEAN, typ: {"Bearer", "ID"},
        aud: {"api", "other"}, sub: Subjects \cup {Nobody}, roles: {{}}]

\* bearerToken: a header that does not match counts as none.
BearerToken(cred) == IF cred.header = "bearer" THEN {cred} ELSE {}

IsApiAccessToken(tok) == tok.typ = "Bearer" /\ tok.aud = "api"
Verifies(tok) == tok.signed /\ IsApiAccessToken(tok)

-----------------------------------------------------------------------------
(* Counters in Redis. *)

Identities == ({"user"} \X Subjects) \cup ({"ip"} \X Addresses)
PolicyNames == {p.name : p \in UNION {{r.policies[i] : i \in DOMAIN r.policies} :
                                      r \in {q \in Routes : q.name \in Exercised}}}
Keys == PolicyNames \X Identities
LimitOf(key) == IF key[2][1] = "user" THEN UserLimit ELSE IpLimit

Absent == [count |-> 0, ttl |-> 0]
NoPromise == -1

VARIABLES
  counters,  \* each key's count and the ticks until it expires
  reqs,      \* the requests in flight
  passed,    \* history: who got through less than a window ago: which of its window, how long ago
  promised   \* history: ticks left of a Retry-After given in the window that lasts

vars == <<counters, reqs, passed, promised>>

NoReq == [pc |-> "idle"]

TypeOK ==
  /\ counters \in [Keys -> [count: Nat, ttl: 0..Window]]
  /\ \A k \in Keys : counters[k].count = 0 <=> counters[k].ttl = 0
  /\ passed \in [Keys -> SUBSET [nth: Nat, age: 0..(Window - 1)]]
  /\ promised \in [Keys -> -1..Window]

Init ==
  /\ counters = [k \in Keys |-> Absent]
  /\ reqs = [x \in Clients |-> NoReq]
  /\ passed = [k \in Keys |-> {}]
  /\ promised = [k \in Keys |-> NoPromise]

At(x, pc) == reqs[x].pc = pc
Goto(x, pc) == reqs' = [reqs EXCEPT ![x].pc = pc]
End(x) == reqs' = [reqs EXCEPT ![x] = NoReq]
redis == <<counters, passed, promised>>

Receive(x, route, cred, address) ==
  /\ At(x, "idle")
  /\ reqs' = [reqs EXCEPT ![x] = [pc |-> "auth", route |-> route, cred |-> cred, ip |-> address,
                                  user |-> Nobody, charged |-> 0,
                                  counted |-> 0]]
  /\ UNCHANGED redis

\* AppAuthGuard: a token that is supplied is verified, on optional routes too.
Authenticate(x) ==
  LET r == reqs[x]
      token == BearerToken(r.cred)
  IN /\ At(x, "auth")
     /\ IF r.route.auth = "public" \/ (token = {} /\ r.route.auth = "optional")
        THEN Goto(x, "status")
        ELSE IF \E t \in token : Verifies(t) /\ t.sub # Nobody
             THEN reqs' = [reqs EXCEPT ![x].pc = "status", ![x].user = r.cred.sub]
             ELSE End(x)
     /\ UNCHANGED redis

\* AccountStatusGuard (the cache it reads through is in AccountLifecycle).
CheckStatus(x) ==
  /\ At(x, "status")
  /\ IF reqs[x].user \in Inactive /\ ~reqs[x].route.inactive THEN End(x) ELSE Goto(x, "roles")
  /\ UNCHANGED redis

\* AuthorizationGuard: no route of the application asks for a role.
Authorize(x) ==
  LET r == reqs[x]
  IN /\ At(x, "roles")
     /\ IF r.route.roles = {} \/ (r.user # Nobody /\ r.route.roles \subseteq r.cred.roles)
        THEN Goto(x, "limit")
        ELSE End(x)
     /\ UNCHANGED redis

-----------------------------------------------------------------------------
(* RedisRateLimitGuard: the policies of the route, one after the other. *)

NextPolicy(x) == reqs[x].route.policies[reqs[x].charged + 1]
KeysOf(x) ==
  {<<NextPolicy(x).name, <<s, IF s = "user" THEN reqs[x].user ELSE reqs[x].ip>>>> :
     s \in NextPolicy(x).scopes}

\* The script: INCR, and PEXPIRE when the key is new.
Incr(c) == [count |-> c.count + 1, ttl |-> IF c.ttl = 0 THEN Window ELSE c.ttl]

Charged(ks, c) == [k \in Keys |-> IF k \in ks THEN Incr(c[k]) ELSE c[k]]

\* Mutant: whole seconds only.
RoundedDown(ttl) == (ttl \div Second) * Second

\* Retry-After is in seconds, rounded up.
RetryAfter(ttl) == ((ttl + Second - 1) \div Second) * Second

\* Mutant: judged before the request is counted.
WithinLimitBefore(ks, c) == \A k \in ks : c[k].count - 1 <= LimitOf(k)

\* The largest count decides.
WithinLimit(ks, c) == \A k \in ks : c[k].count <= LimitOf(k)

Consume(x, c) ==
  LET ks == KeysOf(x)
  IN /\ counters' = c
     /\ IF WithinLimit(ks, c)
        THEN /\ reqs' = [reqs EXCEPT ![x].charged = @ + 1, ![x].counted = @ + 1]
             /\ passed' = [k \in Keys |-> IF k \in ks THEN passed[k] \cup {[nth |-> c[k].count, age |-> 0]}
                                            ELSE passed[k]]
             /\ UNCHANGED promised
        ELSE /\ End(x)
             /\ promised' = [k \in Keys |-> IF k \in ks /\ c[k].count > LimitOf(k)
                                            THEN RetryAfter(c[k].ttl) ELSE promised[k]]
             /\ UNCHANGED passed

\* Mutant: the limiter lets pass what it cannot count.
FailsOpen(x) == reqs' = [reqs EXCEPT ![x].charged = @ + 1] /\ UNCHANGED <<passed, promised>>

\* Redis is unreachable, or the answer is lost: a refusal.
Unavailable(x) == End(x) /\ UNCHANGED <<passed, promised>>

Unidentified(x) == "user" \in NextPolicy(x).scopes /\ reqs[x].user = Nobody

Limit(x) ==
  LET once == Charged(KeysOf(x), counters)
  IN /\ At(x, "limit")
     /\ reqs[x].charged < Len(reqs[x].route.policies)
     /\ \A k \in KeysOf(x) \cap Keys : counters[k].count < LimitOf(k) + MaxCount
     /\ IF Unidentified(x) THEN End(x) /\ UNCHANGED redis
        ELSE \/ Consume(x, once)
             \/ Consume(x, Charged(KeysOf(x), once))   \* the script was sent again
             \/ Unavailable(x) /\ UNCHANGED counters
             \/ Unavailable(x) /\ counters' = once

Handle(x) ==
  /\ At(x, "limit")
  /\ reqs[x].charged = Len(reqs[x].route.policies)
  /\ Goto(x, "handler")
  /\ UNCHANGED redis

Respond(x) == At(x, "handler") /\ End(x) /\ UNCHANGED redis

\* A tick later, and no longer than a window ago.
Aged(requests) == {[p EXCEPT !.age = @ + 1] : p \in {q \in requests : q.age < Window - 1}}

Tick ==
  LET left(n) == IF n <= 0 THEN n ELSE n - 1
  IN /\ \E k \in Keys : counters[k].ttl # 0 \/ passed[k] # {}
     /\ counters' = [k \in Keys |-> IF counters[k].ttl <= 1 THEN Absent
                                    ELSE [counters[k] EXCEPT !.ttl = @ - 1]]
     /\ passed' = [k \in Keys |-> Aged(passed[k])]
     /\ promised' = [k \in Keys |-> IF counters[k].ttl <= 1 THEN NoPromise ELSE left(promised[k])]
     /\ UNCHANGED reqs

Next ==
  \/ \E x \in Clients :
       \/ \E r \in Routes, cred \in Credentials, a \in Addresses :
            r.name \in Exercised /\ Receive(x, r, cred, a)
       \/ Authenticate(x) \/ CheckStatus(x) \/ Authorize(x)
       \/ Limit(x) \/ Handle(x) \/ Respond(x)
  \/ Tick

Spec == Init /\ [][Next]_vars

-----------------------------------------------------------------------------
(* Properties. *)

(* A handler runs for a route that is public, for nobody where anonymous     *)
(* access is allowed, or for the subject of a token that verifies and whose  *)
(* account may use the route; and every policy of the route has let it       *)
(* through, so that none is unlimited while Redis is down (the three guards  *)
(* and redis-rate-limit.guard.ts: "must not become unlimited").              *)
HandledAreAdmitted ==
  \A x \in Clients : At(x, "handler") =>
    LET r == reqs[x] IN
    /\ r.user = Nobody => r.route.auth # "required"
    /\ r.user # Nobody => /\ r.cred.sub = r.user
                          /\ Verifies(r.cred)
                          /\ r.user \in Inactive => r.route.inactive
    /\ r.counted = Len(r.route.policies)

(* In any stretch of time as long as a window, fewer than twice the limit    *)
(* get through for one identity, however many replicas and requests there    *)
(* are: windows begin with their first request (CONSUME_SCRIPT).             *)
RollingBound == \A k \in Keys : Cardinality(passed[k]) < 2 * LimitOf(k)

(* A client that waits for as long as Retry-After says finds the window that *)
(* refused it gone (consume's retryAfterSeconds, CONSUME_SCRIPT's ttl).      *)
RetryAfterIsHonest == \A k \in Keys : promised[k] # 0
=============================================================================
