------------------------- MODULE RequestGuardsProofs -------------------------
(***************************************************************************)
(* Proofs about RequestGuards, for any routes exercised, any number of     *)
(* requests and a Redis that fails at any point: what every guard has      *)
(* established stays established until the handler runs, a refusal never   *)
(* names a time at which the window that refused is still there, and within *)
(* the span of a window fewer than twice the limit get through.            *)
(***************************************************************************)
EXTENDS RequestGuards, FiniteSetTheorems, TLAPS

-----------------------------------------------------------------------------
(* What a request has shown by the time it has come to a stage. *)

Pcs == {"auth", "status", "roles", "limit", "handler"}

Req == [pc: Pcs, route: Routes, cred: Credentials, ip: Addresses,
        user: Subjects \cup {Nobody}, charged: Nat, counted: Nat]

Admitted(r) ==
  /\ r \in Req
  /\ r.pc = "auth" => r.user = Nobody
  /\ r.pc # "auth" /\ r.user = Nobody => r.route.auth # "required"
  /\ r.user # Nobody => r.cred.sub = r.user /\ Verifies(r.cred)
  /\ r.pc \notin {"auth", "status"} /\ r.user # Nobody /\ r.user \in Inactive => r.route.inactive
  /\ r.counted = r.charged
  /\ r.pc = "handler" => r.charged = Len(r.route.policies)

Admissions ==
  /\ DOMAIN reqs = Clients
  /\ reqs = [x \in Clients |-> reqs[x]]
  /\ \A x \in Clients : reqs[x] = NoReq \/ Admitted(reqs[x])

LEMMA Stages == NoReq.pc = "idle" /\ \A r \in Req : r.pc \in Pcs /\ r.pc # "idle"
BY DEF NoReq, Req, Pcs

\* One request takes the form r.
LEMMA RequestGoes ==
  ASSUME Admissions, NEW x \in Clients, NEW r, r = NoReq \/ Admitted(r),
         reqs' = [reqs EXCEPT ![x] = r]
  PROVE  Admissions'
BY DEF Admissions

LEMMA RequestUnderWay ==
  ASSUME Admissions, NEW x \in Clients, ~At(x, "idle") PROVE Admitted(reqs[x])
BY Stages DEF Admissions, At

\* A step from one stage to another that leaves the rest of the request alone.
LEMMA RequestMoves ==
  ASSUME Admissions, NEW x \in Clients, NEW pc \in Pcs, Goto(x, pc), Admitted([reqs[x] EXCEPT !.pc = pc])
  PROVE  Admissions'
BY RequestGoes DEF Goto

LEMMA RequestEnds == ASSUME Admissions, NEW x \in Clients, End(x) PROVE Admissions'
BY RequestGoes DEF End

LEMMA ReceiveAdmits ==
  ASSUME Admissions, NEW x \in Clients, NEW route \in Routes, NEW cred \in Credentials,
         NEW address \in Addresses, Receive(x, route, cred, address)
  PROVE  Admissions'
<1> DEFINE r == [pc |-> "auth", route |-> route, cred |-> cred, ip |-> address,
                 user |-> Nobody, charged |-> 0, counted |-> 0]
<1>1. r \in Req
  BY DEF Req, Pcs
<1>2. Admitted(r)
  BY <1>1 DEF Admitted
<1>3. QED
  BY <1>2, RequestGoes DEF Receive

LEMMA AuthenticateAdmits ==
  ASSUME Admissions, NEW x \in Clients, Authenticate(x) PROVE Admissions'
<1> DEFINE r == reqs[x]
           token == BearerToken(r.cred)
<1>1. Admitted(r) /\ r.pc = "auth" /\ r \in Req /\ r.user = Nobody /\ r.counted = r.charged
  BY RequestUnderWay DEF Authenticate, At, Admitted
<1>2. CASE End(x)
  BY <1>2, RequestEnds
<1>3. CASE Goto(x, "status") /\ (r.route.auth = "public" \/ r.route.auth = "optional")
  <2> DEFINE s == [r EXCEPT !.pc = "status"]
  <2>1. /\ s \in Req /\ s.pc = "status" /\ s.user = Nobody /\ s.route = r.route
        /\ s.counted = s.charged
    BY <1>1 DEF Req, Pcs
  <2> HIDE DEF s
  <2>2. Admitted(s)
    BY <1>3, <2>1 DEF Admitted
  <2>3. QED
    BY <1>3, <2>2, RequestMoves DEF Pcs, s
<1>4. CASE /\ \E t \in token : Verifies(t) /\ t.sub # Nobody
           /\ reqs' = [reqs EXCEPT ![x].pc = "status", ![x].user = r.cred.sub]
  <2> DEFINE s == [r EXCEPT !.pc = "status", !.user = r.cred.sub]
  <2>1. token = {r.cred} /\ r.cred.header = "bearer" /\ Verifies(r.cred) /\ r.cred.sub # Nobody
    BY <1>4 DEF BearerToken
  <2>2. r.cred \in [header: {"bearer"}, signed: BOOLEAN, typ: {"Bearer", "ID"},
                    aud: {"api", "other"}, sub: Subjects \cup {Nobody}, roles: {{}}]
    BY <1>1, <2>1 DEF Req, Credentials, Anonymous
  <2>3. r.cred.sub \in Subjects \cup {Nobody}
    BY <2>2
  <2>4. /\ s \in Req /\ s.pc = "status" /\ s.user = r.cred.sub /\ s.cred = r.cred
        /\ s.counted = s.charged
    BY <1>1, <2>3 DEF Req, Pcs
  <2>5. reqs' = [reqs EXCEPT ![x] = s]
    BY <1>4
  <2> HIDE DEF s
  <2>6. Admitted(s)
    BY <2>1, <2>4 DEF Admitted
  <2>7. QED
    BY <2>5, <2>6, RequestGoes
<1>5. QED
  BY <1>2, <1>3, <1>4 DEF Authenticate

LEMMA GuardsAdmit ==
  ASSUME Admissions, NEW x \in Clients, CheckStatus(x) \/ Authorize(x) \/ Handle(x) \/ Respond(x)
  PROVE  Admissions'
<1> DEFINE r == reqs[x]
<1>1. Admitted(r) /\ r \in Req
  BY RequestUnderWay DEF CheckStatus, Authorize, Handle, Respond, At, Admitted
<1>2. ASSUME NEW pc \in {"roles", "limit", "handler"}, Goto(x, pc), r.pc # "auth",
             r.pc = "status" => ~(r.user \in Inactive /\ ~r.route.inactive),
             pc = "handler" => r.charged = Len(r.route.policies)
      PROVE  Admissions'
  <2> DEFINE s == [r EXCEPT !.pc = pc]
  <2>1. /\ s \in Req /\ s.pc = pc /\ s.user = r.user /\ s.cred = r.cred /\ s.route = r.route
        /\ s.counted = r.counted /\ s.charged = r.charged
    BY <1>1 DEF Req, Pcs
  <2> HIDE DEF s
  <2>2. Admitted(s)
    BY <1>1, <1>2, <2>1 DEF Admitted
  <2>3. QED
    BY <1>2, <2>2, RequestMoves DEF Pcs, s
<1>3. QED
  BY <1>2, RequestEnds DEF CheckStatus, Authorize, Handle, Respond, At

LEMMA LimitAdmits == ASSUME Admissions, NEW x \in Clients, Limit(x) PROVE Admissions'
<1> DEFINE r == reqs[x]
           s == [r EXCEPT !.charged = @ + 1, !.counted = @ + 1]
<1>1. Admitted(r) /\ r \in Req /\ r.pc = "limit"
  BY RequestUnderWay DEF Limit, At, Admitted
<1>2. CASE End(x)
  BY <1>2, RequestEnds
<1>3. CASE reqs' = [reqs EXCEPT ![x].charged = @ + 1, ![x].counted = @ + 1]
  <2> DEFINE n == r.charged + 1
             m == r.counted + 1
             t == [r EXCEPT !.charged = n, !.counted = m]
  <2>0. n \in Nat /\ m \in Nat
    BY <1>1 DEF Req
  <2> HIDE DEF n, m
  <2>a. /\ t \in Req /\ t.pc = "limit" /\ t.user = r.user /\ t.cred = r.cred /\ t.route = r.route
        /\ t.counted = m /\ t.charged = n
    BY <1>1, <2>0 DEF Req, Pcs
  <2>b. s = t
    BY DEF n, m
  <2> HIDE DEF t
  <2>1. /\ s \in Req /\ s.pc = "limit" /\ s.user = r.user /\ s.cred = r.cred /\ s.route = r.route
        /\ s.counted = r.counted + 1 /\ s.charged = r.charged + 1
    BY <2>a, <2>b DEF n, m
  <2>2. reqs' = [reqs EXCEPT ![x] = s]
    BY <1>3
  <2> HIDE DEF s
  <2>3. Admitted(s)
    BY <1>1, <2>1 DEF Admitted
  <2>4. QED
    BY <2>2, <2>3, RequestGoes
<1>4. QED
  BY <1>2, <1>3 DEF Limit, Consume, Unavailable

LEMMA NextAdmits == ASSUME Admissions, [Next]_vars PROVE Admissions'
<1>1. CASE Tick \/ UNCHANGED vars
  BY <1>1 DEF Tick, vars, Admissions
<1>2. CASE \E x \in Clients, r \in Routes, cred \in Credentials, a \in Addresses :
             Receive(x, r, cred, a)
  BY <1>2, ReceiveAdmits
<1>3. CASE \E x \in Clients :
             \/ Authenticate(x) \/ CheckStatus(x) \/ Authorize(x)
             \/ Limit(x) \/ Handle(x) \/ Respond(x)
  BY <1>3, AuthenticateAdmits, GuardsAdmit, LimitAdmits
<1>4. QED
  BY <1>1, <1>2, <1>3 DEF Next

(* No handler runs unless the three guards and every policy of its route     *)
(* have let the request through: AppAuthGuard, AccountStatusGuard,           *)
(* AuthorizationGuard and RedisRateLimitGuard, for any routes, tokens and    *)
(* failures of Redis.                                                        *)
THEOREM GuardsAdmitOnly == Spec => []HandledAreAdmitted
<1>1. Init => Admissions
  BY DEF Init, Admissions
<1>2. Admissions /\ [Next]_vars => Admissions'
  BY NextAdmits
<1>3. Admissions => HandledAreAdmitted
  <2> SUFFICES ASSUME Admissions, NEW x \in Clients, At(x, "handler")
               PROVE  LET r == reqs[x] IN
                      /\ r.user = Nobody => r.route.auth # "required"
                      /\ r.user # Nobody => /\ r.cred.sub = r.user
                                            /\ Verifies(r.cred)
                                            /\ r.user \in Inactive => r.route.inactive
                      /\ r.counted = Len(r.route.policies)
    BY DEF HandledAreAdmitted
  <2>1. Admitted(reqs[x]) /\ reqs[x].pc = "handler"
    BY RequestUnderWay DEF At
  <2>2. QED
    BY <2>1 DEF Admitted
<1>4. QED
  BY <1>1, <1>2, <1>3, PTL DEF Spec

-----------------------------------------------------------------------------
(* Retry-After. *)

\* A promise given in the window that lasts is no shorter than what is left of it.
Windows ==
  /\ counters \in [Keys -> [count: Nat, ttl: 0..Window]]
  /\ promised \in [Keys -> Int]
  /\ \A k \in Keys : promised[k] = NoPromise
                     \/ (counters[k].ttl >= 1 /\ promised[k] >= counters[k].ttl)

(* Seconds are rounded up: never less than the ticks that are left. *)
LEMMA RoundedUp ==
  ASSUME RequestGuardsAssumption, NEW ttl \in Nat
  PROVE  RetryAfter(ttl) \in Int /\ RetryAfter(ttl) >= ttl
<1> DEFINE n == ttl + Second - 1
<1>1. n \in Nat /\ Second \in Nat \ {0}
  BY DEF RequestGuardsAssumption
<1>2. n = Second * (n \div Second) + (n % Second) /\ n % Second \in 0..(Second - 1)
        /\ n \div Second \in Int
  BY <1>1
<1> DEFINE q == (n \div Second) * Second
<1>3. q \in Int /\ q = n - (n % Second)
  BY <1>1, <1>2
<1>4. QED
  BY <1>1, <1>2, <1>3 DEF RetryAfter

LEMMA WindowsBegin == ASSUME RequestGuardsAssumption, Init PROVE Windows
<1>1. Absent \in [count: Nat, ttl: 0..Window]
  BY DEF Absent, RequestGuardsAssumption
<1>2. QED
  BY <1>1 DEF Init, Windows, NoPromise

\* Counting a request once keeps the window it falls in, or begins one.
LEMMA CountingKeepsWindows ==
  ASSUME RequestGuardsAssumption, NEW c \in [Keys -> [count: Nat, ttl: 0..Window]], NEW ks
  PROVE  /\ Charged(ks, c) \in [Keys -> [count: Nat, ttl: 0..Window]]
         /\ \A k \in Keys : c[k].ttl >= 1 => Charged(ks, c)[k].ttl = c[k].ttl
         /\ \A k \in Keys \cap ks : Charged(ks, c)[k].ttl >= 1
<1>1. Window \in Nat /\ Window >= 1
  BY DEF RequestGuardsAssumption
<1>2. ASSUME NEW d \in [count: Nat, ttl: 0..Window]
      PROVE  /\ Incr(d) \in [count: Nat, ttl: 0..Window]
             /\ Incr(d).ttl >= 1
             /\ d.ttl >= 1 => Incr(d).ttl = d.ttl
  BY <1>1, <1>2 DEF Incr
<1>3. QED
  BY <1>2 DEF Charged

LEMMA ConsumeKeepsWindows ==
  ASSUME RequestGuardsAssumption, Windows, NEW x \in Clients,
         NEW c \in [Keys -> [count: Nat, ttl: 0..Window]], Consume(x, c),
         \A k \in Keys : counters[k].ttl >= 1 => c[k].ttl = counters[k].ttl,
         \A k \in Keys \cap KeysOf(x) : c[k].ttl >= 1
  PROVE  Windows'
<1>1. counters' = c
  BY DEF Consume
<1>2. CASE UNCHANGED promised
  BY <1>1, <1>2 DEF Windows
<1>3. CASE promised' = [k \in Keys |-> IF k \in KeysOf(x) /\ c[k].count > LimitOf(k)
                                       THEN RetryAfter(c[k].ttl) ELSE promised[k]]
  <2>1. \A k \in Keys : c[k].ttl \in Nat
    BY DEF RequestGuardsAssumption
  <2>2. \A k \in Keys : RetryAfter(c[k].ttl) \in Int /\ RetryAfter(c[k].ttl) >= c[k].ttl
    BY <2>1, RoundedUp
  <2>3. promised' \in [Keys -> Int]
    BY <1>3, <2>2 DEF Windows
  <2>4. ASSUME NEW k \in Keys
        PROVE  promised'[k] = NoPromise \/ (c[k].ttl >= 1 /\ promised'[k] >= c[k].ttl)
    <3>1. CASE k \in KeysOf(x) /\ c[k].count > LimitOf(k)
      BY <1>3, <2>2, <3>1
    <3>2. CASE ~(k \in KeysOf(x) /\ c[k].count > LimitOf(k))
      BY <1>3, <3>2 DEF Windows
    <3>3. QED
      BY <3>1, <3>2
  <2>5. QED
    BY <1>1, <2>3, <2>4 DEF Windows
<1>4. QED
  BY <1>2, <1>3 DEF Consume

LEMMA LimitKeepsWindows ==
  ASSUME RequestGuardsAssumption, Windows, NEW x \in Clients, Limit(x) PROVE Windows'
<1> DEFINE ks == KeysOf(x)
           once == Charged(ks, counters)
           twice == Charged(ks, once)
<1>1. counters \in [Keys -> [count: Nat, ttl: 0..Window]]
  BY DEF Windows
<1>2. /\ once \in [Keys -> [count: Nat, ttl: 0..Window]]
      /\ \A k \in Keys : counters[k].ttl >= 1 => once[k].ttl = counters[k].ttl
      /\ \A k \in Keys \cap ks : once[k].ttl >= 1
  BY <1>1, CountingKeepsWindows
<1>3. /\ twice \in [Keys -> [count: Nat, ttl: 0..Window]]
      /\ \A k \in Keys : once[k].ttl >= 1 => twice[k].ttl = once[k].ttl
      /\ \A k \in Keys \cap ks : twice[k].ttl >= 1
  BY <1>2, CountingKeepsWindows
<1>4. \A k \in Keys : counters[k].ttl >= 1 => twice[k].ttl = counters[k].ttl
  BY <1>2, <1>3
<1> HIDE DEF once, twice, ks
<1>5. CASE UNCHANGED redis
  BY <1>5 DEF redis, Windows
<1>6. CASE Consume(x, once)
  BY <1>2, <1>6, ConsumeKeepsWindows DEF ks
<1>7. CASE Consume(x, twice)
  BY <1>3, <1>4, <1>7, ConsumeKeepsWindows DEF ks
<1>8. CASE UNCHANGED promised /\ (UNCHANGED counters \/ counters' = once)
  BY <1>2, <1>8 DEF Windows
<1>9. QED
  BY <1>5, <1>6, <1>7, <1>8 DEF Limit, Unavailable, ks, once, twice

LEMMA TickKeepsWindows ==
  ASSUME RequestGuardsAssumption, Windows, Tick PROVE Windows'
<1> DEFINE left(n) == IF n <= 0 THEN n ELSE n - 1
<1>1. Window \in Nat /\ Absent \in [count: Nat, ttl: 0..Window]
  BY DEF Absent, RequestGuardsAssumption
<1>2. /\ counters' = [k \in Keys |-> IF counters[k].ttl <= 1 THEN Absent
                                     ELSE [counters[k] EXCEPT !.ttl = @ - 1]]
      /\ promised' = [k \in Keys |-> IF counters[k].ttl <= 1 THEN NoPromise ELSE left(promised[k])]
  BY DEF Tick
<1>3. ASSUME NEW k \in Keys
      PROVE  /\ counters'[k] \in [count: Nat, ttl: 0..Window]
             /\ promised'[k] \in Int
             /\ promised'[k] = NoPromise
                \/ (counters'[k].ttl >= 1 /\ promised'[k] >= counters'[k].ttl)
  <2>1. counters[k] \in [count: Nat, ttl: 0..Window] /\ promised[k] \in Int
    BY DEF Windows
  <2>2. CASE counters[k].ttl <= 1
    BY <1>1, <1>2, <2>2 DEF NoPromise
  <2>3. CASE counters[k].ttl > 1
    <3>1. /\ counters'[k] = [counters[k] EXCEPT !.ttl = @ - 1]
          /\ promised'[k] = left(promised[k])
      BY <1>2, <2>1, <2>3
    <3>2. /\ counters'[k] \in [count: Nat, ttl: 0..Window]
          /\ counters'[k].ttl = counters[k].ttl - 1 /\ counters'[k].ttl >= 1
      BY <1>1, <2>1, <2>3, <3>1
    <3>3. promised[k] = NoPromise \/ promised[k] >= counters[k].ttl
      BY DEF Windows
    <3>4. QED
      BY <2>1, <2>3, <3>1, <3>2, <3>3 DEF NoPromise
  <2>4. QED
    BY <2>1, <2>2, <2>3, <1>1
<1>4. QED
  BY <1>2, <1>3 DEF Windows

(* A refusal's Retry-After, in whole seconds, never ends before the window   *)
(* that refused: consume's retryAfterSeconds and CONSUME_SCRIPT, also when   *)
(* the script is sent twice or its answer is lost.                           *)
THEOREM RefusalsAreHonest == Spec => []RetryAfterIsHonest
<1> USE RequestGuardsAssumption
<1>1. Init => Windows
  BY WindowsBegin
<1>2. Windows /\ [Next]_vars => Windows'
  <2> SUFFICES ASSUME Windows, [Next]_vars PROVE Windows'
    OBVIOUS
  <2>1. CASE UNCHANGED redis
    BY <2>1 DEF redis, Windows
  <2>2. CASE UNCHANGED vars
    BY <2>2 DEF vars, Windows
  <2>3. CASE Tick
    BY <2>3, TickKeepsWindows
  <2>4. CASE \E x \in Clients : Limit(x)
    BY <2>4, LimitKeepsWindows
  <2>5. QED
    BY <2>1, <2>2, <2>3, <2>4
       DEF Next, Receive, Authenticate, CheckStatus, Authorize, Handle, Respond
<1>3. Windows => RetryAfterIsHonest
  <2> SUFFICES ASSUME Windows, NEW k \in Keys PROVE promised[k] # 0
    BY DEF RetryAfterIsHonest
  <2>1. counters[k].ttl \in Int /\ promised[k] \in Int
    BY DEF Windows
  <2>2. QED
    BY <2>1 DEF Windows, NoPromise
<1>4. QED
  BY <1>1, <1>2, <1>3, PTL DEF Spec


-----------------------------------------------------------------------------
(* How many get through within a window's length.                          *)

Counter == [count: Nat, ttl: 0..Window]
Passages == [nth: Nat, age: 0..(Window - 1)]

\* Those who got through in the window that lasts, and those before them.
Current(ps, c) == {p \in ps : c.ttl >= 1 /\ p.age <= Window - c.ttl}
Earlier(ps, c) == ps \ Current(ps, c)

Apart(ps) == \A p, q \in ps : p.nth = q.nth => p = q

\* No two of a window share their place in it, and its first is forgotten by
\* the time the next window may begin.
InPlace(ps, c, limit) ==
  /\ c.ttl = 0 <=> c.count = 0
  /\ \A p \in ps : p.nth \in 1..limit
  /\ \A p \in ps : c.ttl = 0 => p.age >= 1
  /\ \A p \in Current(ps, c) : /\ p.nth <= c.count
                               /\ p.nth = 1 => p.age = Window - c.ttl
  /\ \A p \in Earlier(ps, c) : p.nth >= 2
  /\ Apart(Current(ps, c))
  /\ Apart(Earlier(ps, c))

Places ==
  /\ counters \in [Keys -> Counter]
  /\ passed \in [Keys -> SUBSET Passages]
  /\ \A k \in Keys : InPlace(passed[k], counters[k], LimitOf(k))

LEMMA LimitsArePositive ==
  ASSUME RequestGuardsAssumption, NEW k \in Keys PROVE LimitOf(k) \in Nat \ {0}
BY DEF RequestGuardsAssumption, LimitOf

LEMMA CountersCount ==
  ASSUME RequestGuardsAssumption, NEW c \in Counter
  PROVE  /\ Incr(c) \in Counter
         /\ Incr(c).count = c.count + 1
         /\ Incr(c).ttl = IF c.ttl = 0 THEN Window ELSE c.ttl
BY DEF RequestGuardsAssumption, Counter, Incr

\* Who got through before is where it was when one more request is counted.
LEMMA CountingKeepsWhoIsCurrent ==
  ASSUME RequestGuardsAssumption, NEW c \in Counter, NEW ps \in SUBSET Passages, NEW limit,
         InPlace(ps, c, limit)
  PROVE  Current(ps, Incr(c)) = Current(ps, c) /\ Earlier(ps, Incr(c)) = Earlier(ps, c)
<1>1. \A p \in ps : p.age \in Int
  BY DEF Passages
<1>2. Window \in Nat /\ Window >= 1 /\ c.ttl \in Nat
  BY DEF RequestGuardsAssumption, Counter
<1>3. CASE c.ttl = 0
  <2>1. \A p \in ps : p.age >= 1
    BY <1>3 DEF InPlace
  <2>2. Incr(c).ttl = Window
    BY <1>3, CountersCount
  <2>3. QED
    BY <1>1, <1>2, <1>3, <2>1, <2>2 DEF Current, Earlier
<1>4. CASE c.ttl # 0
  <2>1. Incr(c).ttl = c.ttl
    BY <1>4, CountersCount
  <2>2. QED
    BY <2>1 DEF Current, Earlier
<1>5. QED
  BY <1>3, <1>4

LEMMA CountingKeepsPlaces ==
  ASSUME RequestGuardsAssumption, NEW c \in Counter, NEW ps \in SUBSET Passages, NEW limit,
         InPlace(ps, c, limit)
  PROVE  InPlace(ps, Incr(c), limit)
<1> DEFINE d == Incr(c)
<1>1. /\ Window \in Nat /\ Window >= 1 /\ c.ttl \in Nat /\ c.count \in Nat
      /\ d.count = c.count + 1
      /\ d.ttl = IF c.ttl = 0 THEN Window ELSE c.ttl
  BY CountersCount DEF RequestGuardsAssumption, Counter
<1>2. Current(ps, d) = Current(ps, c) /\ Earlier(ps, d) = Earlier(ps, c)
  BY CountingKeepsWhoIsCurrent
<1> HIDE DEF d
<1>3. d.ttl # 0 /\ d.count # 0
  BY <1>1
<1>4. ASSUME NEW p \in Current(ps, c)
      PROVE  p.nth <= d.count /\ (p.nth = 1 => p.age = Window - d.ttl)
  <2>1. c.ttl >= 1 /\ p.nth <= c.count /\ p.nth \in Nat /\ (p.nth = 1 => p.age = Window - c.ttl)
    BY DEF Current, InPlace, Passages
  <2>2. QED
    BY <1>1, <2>1
<1>5. QED
  BY <1>2, <1>3, <1>4 DEF InPlace, d

\* One more gets through: its place in the window is its own.
LEMMA EnteringKeepsPlaces ==
  ASSUME RequestGuardsAssumption, NEW c \in Counter, NEW ps \in SUBSET Passages,
         NEW limit \in Nat \ {0}, InPlace(ps, c, limit), Incr(c).count <= limit
  PROVE  LET new == [nth |-> Incr(c).count, age |-> 0]
         IN  ps \cup {new} \in SUBSET Passages /\ InPlace(ps \cup {new}, Incr(c), limit)
<1> DEFINE d == Incr(c)
           new == [nth |-> d.count, age |-> 0]
           qs == ps \cup {new}
<1>1. /\ Window \in Nat /\ Window >= 1 /\ c.ttl \in 0..Window /\ c.count \in Nat
      /\ d.count = c.count + 1
      /\ d.ttl = IF c.ttl = 0 THEN Window ELSE c.ttl
  BY CountersCount DEF RequestGuardsAssumption, Counter
<1>2. InPlace(ps, d, limit)
  BY CountingKeepsPlaces
<1>3. Current(ps, d) = Current(ps, c)
  BY CountingKeepsWhoIsCurrent
<1>a. d.count <= limit
  OBVIOUS
<1> HIDE DEF d
<1>4. new \in Passages /\ new.nth = d.count /\ new.age = 0 /\ new.nth \in 1..limit
  BY <1>1, <1>a DEF Passages
<1> HIDE DEF new
<1>5. /\ Current(qs, d) = Current(ps, d) \cup {new}
      /\ Earlier(qs, d) \subseteq Earlier(ps, d)
  BY <1>1, <1>4 DEF Current, Earlier
<1>6. \A p \in Current(ps, d) : p.nth < new.nth
  <2>1. \A p \in Current(ps, c) : p.nth <= c.count /\ p.nth \in Nat
    BY DEF InPlace, Current, Passages
  <2>2. QED
    BY <1>1, <1>3, <1>4, <2>1
<1>7. Apart(Current(qs, d)) /\ Apart(Earlier(qs, d))
  <2>1. Apart(Current(ps, d)) /\ Apart(Earlier(ps, d))
    BY <1>2 DEF InPlace
  <2>2. \A p \in Current(ps, d) : p.nth # new.nth
    <3> SUFFICES ASSUME NEW p \in Current(ps, d) PROVE p.nth # new.nth
      OBVIOUS
    <3>1. p.nth \in Nat /\ new.nth \in Nat
      BY <1>1, <1>4 DEF Current, Passages
    <3>2. QED
      BY <1>6, <3>1
  <2>3. QED
    BY <1>5, <2>1, <2>2 DEF Apart
<1>8. /\ d.ttl = 0 <=> d.count = 0
      /\ \A p \in qs : p.nth \in 1..limit
      /\ \A p \in qs : d.ttl = 0 => p.age >= 1
  BY <1>1, <1>2, <1>4 DEF InPlace
<1>9. ASSUME NEW p \in Current(qs, d)
      PROVE  p.nth <= d.count /\ (p.nth = 1 => p.age = Window - d.ttl)
  <2>1. CASE p \in Current(ps, d)
    BY <1>2, <2>1 DEF InPlace
  <2>2. CASE p = new
    <3>1. c.ttl = 0 <=> c.count = 0
      BY DEF InPlace
    <3>2. QED
      BY <1>1, <1>4, <2>2, <3>1
  <2>3. QED
    BY <1>5, <2>1, <2>2
<1>10. \A p \in Earlier(qs, d) : p.nth >= 2
  BY <1>2, <1>5 DEF InPlace
<1>11. InPlace(qs, d, limit)
  BY <1>7, <1>8, <1>9, <1>10 DEF InPlace
<1>12. QED
  BY <1>4, <1>11 DEF d, new


(* The counter of a key when the clock ticks. *)
Left(c) == IF c.ttl <= 1 THEN Absent ELSE [c EXCEPT !.ttl = @ - 1]

LEMMA CountersTick ==
  ASSUME RequestGuardsAssumption, NEW c \in Counter
  PROVE  /\ Left(c) \in Counter
         /\ c.ttl <= 1 => Left(c).count = 0 /\ Left(c).ttl = 0
         /\ c.ttl > 1 => Left(c).count = c.count /\ Left(c).ttl = c.ttl - 1
BY DEF RequestGuardsAssumption, Counter, Left, Absent

Older(p) == [p EXCEPT !.age = @ + 1]

LEMMA GrownOlder ==
  ASSUME RequestGuardsAssumption, NEW p \in Passages
  PROVE  /\ Older(p).nth = p.nth /\ Older(p).age = p.age + 1
         /\ p.age < Window - 1 => Older(p) \in Passages
BY DEF RequestGuardsAssumption, Passages, Older

LEMMA AgedAreOlder ==
  ASSUME NEW ps, NEW p
  PROVE  p \in Aged(ps) <=> \E q \in ps : q.age < Window - 1 /\ p = Older(q)
BY DEF Aged, Older

\* A tick: nobody changes place, and the first of a window that ends is
\* forgotten with it.
LEMMA TickingKeepsPlaces ==
  ASSUME RequestGuardsAssumption, NEW c \in Counter, NEW ps \in SUBSET Passages,
         NEW limit \in Nat \ {0}, InPlace(ps, c, limit)
  PROVE  Aged(ps) \in SUBSET Passages /\ InPlace(Aged(ps), Left(c), limit)
<1> DEFINE d == Left(c)
           qs == Aged(ps)
<1>1. Window \in Nat /\ Window >= 1 /\ c.ttl \in 0..Window /\ c.count \in Nat
  BY DEF RequestGuardsAssumption, Counter
<1>2. /\ c.ttl <= 1 => d.count = 0 /\ d.ttl = 0
      /\ c.ttl > 1 => d.count = c.count /\ d.ttl = c.ttl - 1
  BY CountersTick
<1> HIDE DEF d
<1>3. ASSUME NEW q \in ps, q.age < Window - 1, NEW p, p = Older(q)
      PROVE  /\ p \in Passages /\ p.nth = q.nth /\ p.age = q.age + 1
             /\ q.age \in Nat /\ q.nth \in Nat
  BY <1>3, GrownOlder DEF Passages
<1>4. \A p \in qs : \E q \in ps : q.age < Window - 1 /\ p = Older(q)
  BY AgedAreOlder
<1> HIDE DEF qs
<1>5. /\ qs \in SUBSET Passages
      /\ \A p \in qs : p.nth \in 1..limit
      /\ \A p \in qs : p.age >= 1
  BY <1>3, <1>4 DEF InPlace
<1>6. d.ttl = 0 <=> d.count = 0
  BY <1>1, <1>2 DEF InPlace
<1>7. CASE c.ttl > 1
  <2>1. ASSUME NEW q \in ps, q.age < Window - 1, NEW p \in qs, p = Older(q)
        PROVE  /\ p \in Current(qs, d) <=> q \in Current(ps, c)
               /\ p \in Earlier(qs, d) <=> q \in Earlier(ps, c)
    <3>1. p.age = q.age + 1 /\ q.age \in Nat
      BY <1>3, <2>1
    <3>2. QED
      BY <1>1, <1>2, <1>7, <3>1 DEF Current, Earlier
  <2>2. ASSUME NEW p \in Current(qs, d)
        PROVE  p.nth <= d.count /\ (p.nth = 1 => p.age = Window - d.ttl)
    <3>1. PICK q \in ps : q.age < Window - 1 /\ p = Older(q)
      BY <1>4 DEF Current
    <3>2. q \in Current(ps, c)
      BY <2>1, <3>1 DEF Current
    <3>3. q.nth <= c.count /\ (q.nth = 1 => q.age = Window - c.ttl)
      BY <3>2 DEF InPlace
    <3>4. p.nth = q.nth /\ p.age = q.age + 1 /\ q.age \in Nat /\ q.nth \in Nat
      BY <1>3, <3>1
    <3>5. QED
      BY <1>1, <1>2, <1>7, <3>3, <3>4
  <2>3. ASSUME NEW p \in Earlier(qs, d) PROVE p.nth >= 2
    <3>1. PICK q \in ps : q.age < Window - 1 /\ p = Older(q)
      BY <1>4 DEF Earlier
    <3>2. q \in Earlier(ps, c) /\ p.nth = q.nth
      BY <1>3, <2>1, <3>1 DEF Earlier
    <3>3. QED
      BY <3>2 DEF InPlace
  <2>4. ASSUME NEW p1 \in qs, NEW p2 \in qs, p1.nth = p2.nth,
               \/ p1 \in Current(qs, d) /\ p2 \in Current(qs, d)
               \/ p1 \in Earlier(qs, d) /\ p2 \in Earlier(qs, d)
        PROVE  p1 = p2
    <3>1. PICK q1 \in ps : q1.age < Window - 1 /\ p1 = Older(q1)
      BY <1>4
    <3>2. PICK q2 \in ps : q2.age < Window - 1 /\ p2 = Older(q2)
      BY <1>4
    <3>3. q1.nth = q2.nth
      BY <1>3, <2>4, <3>1, <3>2
    <3>4. \/ q1 \in Current(ps, c) /\ q2 \in Current(ps, c)
          \/ q1 \in Earlier(ps, c) /\ q2 \in Earlier(ps, c)
      BY <2>1, <2>4, <3>1, <3>2
    <3>5. q1 = q2
      BY <3>3, <3>4 DEF InPlace, Apart
    <3>6. QED
      BY <3>1, <3>2, <3>5
  <2>5. Apart(Current(qs, d)) /\ Apart(Earlier(qs, d))
    BY <2>4 DEF Apart, Current, Earlier
  <2>6. InPlace(qs, d, limit)
    BY <1>5, <1>6, <2>2, <2>3, <2>5 DEF InPlace
  <2>7. QED
    BY <1>5, <2>6 DEF d, qs
<1>8. CASE c.ttl <= 1
  <2>1. Current(qs, d) = {} /\ Earlier(qs, d) = qs
    BY <1>2, <1>8 DEF Current, Earlier
  <2>2. ASSUME NEW q \in ps, q.age < Window - 1
        PROVE  \/ c.ttl = 1 /\ q \in Current(ps, c) /\ q.nth # 1
               \/ c.ttl = 0 /\ q \in Earlier(ps, c)
    <3>1. q.age \in Nat
      BY DEF Passages
    <3>2. CASE c.ttl = 0
      BY <3>2 DEF Current, Earlier
    <3>3. CASE c.ttl = 1
      <4>1. q \in Current(ps, c)
        BY <1>1, <2>2, <3>1, <3>3 DEF Current
      <4>2. q.nth = 1 => q.age = Window - c.ttl
        BY <4>1 DEF InPlace
      <4>3. QED
        BY <1>1, <2>2, <3>1, <3>3, <4>1, <4>2
    <3>4. QED
      BY <1>1, <1>8, <3>2, <3>3
  <2>3. ASSUME NEW p \in qs PROVE p.nth >= 2
    <3>1. PICK q \in ps : q.age < Window - 1 /\ p = Older(q)
      BY <1>4
    <3>2. p.nth = q.nth /\ q.nth \in 1..limit
      BY <1>3, <3>1 DEF InPlace
    <3>3. q.nth # 1
      <4>1. CASE q \in Earlier(ps, c)
        <5>1. q.nth >= 2
          BY <4>1 DEF InPlace
        <5>2. QED
          BY <3>2, <5>1
      <4>2. CASE q.nth # 1
        BY <4>2
      <4>3. QED
        BY <2>2, <3>1, <4>1, <4>2
    <3>4. QED
      BY <3>2, <3>3
  <2>4. ASSUME NEW p1 \in qs, NEW p2 \in qs, p1.nth = p2.nth PROVE p1 = p2
    <3>1. PICK q1 \in ps : q1.age < Window - 1 /\ p1 = Older(q1)
      BY <1>4
    <3>2. PICK q2 \in ps : q2.age < Window - 1 /\ p2 = Older(q2)
      BY <1>4
    <3>3. q1.nth = q2.nth
      BY <1>3, <2>4, <3>1, <3>2
    <3>4. \/ q1 \in Current(ps, c) /\ q2 \in Current(ps, c)
          \/ q1 \in Earlier(ps, c) /\ q2 \in Earlier(ps, c)
      BY <2>2, <3>1, <3>2
    <3>5. q1 = q2
      BY <3>3, <3>4 DEF InPlace, Apart
    <3>6. QED
      BY <3>1, <3>2, <3>5
  <2>5. Apart(Current(qs, d)) /\ Apart(Earlier(qs, d))
    BY <2>1, <2>4 DEF Apart
  <2>6. InPlace(qs, d, limit)
    BY <1>5, <1>6, <2>1, <2>3, <2>5 DEF InPlace
  <2>7. QED
    BY <1>5, <2>6 DEF d, qs
<1>9. QED
  BY <1>1, <1>7, <1>8

\* Requests with places of their own among so many are no more than so many.
LEMMA AsManyAsPlaces ==
  ASSUME NEW ps \in SUBSET Passages, NEW lo \in Nat, NEW hi \in Nat, lo <= hi + 1,
         \A p \in ps : p.nth \in lo..hi, Apart(ps)
  PROVE  IsFiniteSet(ps) /\ Cardinality(ps) \in Nat /\ Cardinality(ps) <= hi - lo + 1
<1> DEFINE f == [p \in ps |-> p.nth]
<1>1. f \in Injection(ps, lo..hi)
  BY DEF Injection, IsInjective, Apart
<1>2. IsFiniteSet(lo..hi) /\ Cardinality(lo..hi) = hi - lo + 1
  BY FS_Interval
<1> HIDE DEF f
<1>3. IsFiniteSet(ps) /\ Cardinality(ps) <= Cardinality(lo..hi)
  BY <1>1, <1>2, FS_Injection
<1>4. Cardinality(ps) \in Nat
  BY <1>3, FS_CardinalityType
<1>5. QED
  BY <1>2, <1>3, <1>4

LEMMA FewerThanTwice ==
  ASSUME RequestGuardsAssumption, NEW c \in Counter, NEW ps \in SUBSET Passages,
         NEW limit \in Nat \ {0}, InPlace(ps, c, limit)
  PROVE  Cardinality(ps) < 2 * limit
<1> DEFINE now == Current(ps, c)
           old == Earlier(ps, c)
<1>1. now \in SUBSET Passages /\ old \in SUBSET Passages /\ ps = now \cup old /\ now \cap old = {}
  BY DEF Current, Earlier
<1>2. /\ \A p \in now : p.nth \in 1..limit
      /\ \A p \in old : p.nth \in 1..limit /\ p.nth >= 2
      /\ Apart(now) /\ Apart(old)
  BY DEF InPlace, Current, Earlier
<1> HIDE DEF now, old
<1>3. \A p \in old : p.nth \in 2..limit
  BY <1>2
<1>4. IsFiniteSet(now) /\ Cardinality(now) \in Nat /\ Cardinality(now) <= limit
  <2>1. 1 <= limit + 1 /\ limit - 1 + 1 = limit
    OBVIOUS
  <2>2. QED
    BY <1>1, <1>2, <2>1, AsManyAsPlaces
<1>5. IsFiniteSet(old) /\ Cardinality(old) \in Nat /\ Cardinality(old) <= limit - 1
  <2>1. 2 <= limit + 1 /\ limit - 2 + 1 = limit - 1
    OBVIOUS
  <2>2. QED
    BY <1>1, <1>2, <1>3, <2>1, AsManyAsPlaces
<1>6. Cardinality(ps) = Cardinality(now) + Cardinality(old) - Cardinality({})
  BY <1>1, <1>4, <1>5, FS_Union
<1>7. Cardinality({}) = 0
  BY FS_EmptySet
<1>8. QED
  BY <1>4, <1>5, <1>6, <1>7


LEMMA PlacesBegin == ASSUME RequestGuardsAssumption, Init PROVE Places
<1>1. Absent \in Counter /\ Absent.count = 0 /\ Absent.ttl = 0
  BY DEF Absent, Counter, RequestGuardsAssumption
<1>2. \A k \in Keys : InPlace({}, Absent, LimitOf(k))
  BY <1>1 DEF InPlace, Current, Earlier, Apart
<1>3. QED
  BY <1>1, <1>2 DEF Init, Places

LEMMA TickKeepsPlaces == ASSUME RequestGuardsAssumption, Places, Tick PROVE Places'
<1>1. /\ counters' = [k \in Keys |-> Left(counters[k])]
      /\ passed' = [k \in Keys |-> Aged(passed[k])]
  BY DEF Tick, Left
<1>2. ASSUME NEW k \in Keys
      PROVE  /\ Left(counters[k]) \in Counter
             /\ Aged(passed[k]) \in SUBSET Passages
             /\ InPlace(Aged(passed[k]), Left(counters[k]), LimitOf(k))
  <2>1. counters[k] \in Counter /\ passed[k] \in SUBSET Passages /\ LimitOf(k) \in Nat \ {0}
        /\ InPlace(passed[k], counters[k], LimitOf(k))
    BY LimitsArePositive DEF Places
  <2>2. QED
    BY <2>1, CountersTick, TickingKeepsPlaces
<1>3. QED
  BY <1>1, <1>2 DEF Places

\* What counting the request once, or twice, does to the windows.
Counted(c) ==
  /\ c \in [Keys -> Counter]
  /\ \A k \in Keys : InPlace(passed[k], c[k], LimitOf(k))

LEMMA ChargingCounts ==
  ASSUME RequestGuardsAssumption, Places, NEW c, Counted(c), NEW ks
  PROVE  /\ Counted(Charged(ks, c))
         /\ \A k \in Keys \cap ks : Charged(ks, c)[k] = Incr(c[k])
         /\ \A k \in Keys \ ks : Charged(ks, c)[k] = c[k]
<1> DEFINE d == Charged(ks, c)
<1>1. \A k \in Keys : d[k] = IF k \in ks THEN Incr(c[k]) ELSE c[k]
  BY DEF Charged
<1>2. ASSUME NEW k \in Keys
      PROVE  d[k] \in Counter /\ InPlace(passed[k], d[k], LimitOf(k))
  <2>1. c[k] \in Counter /\ passed[k] \in SUBSET Passages /\ InPlace(passed[k], c[k], LimitOf(k))
    BY DEF Counted, Places
  <2>2. Incr(c[k]) \in Counter /\ InPlace(passed[k], Incr(c[k]), LimitOf(k))
    BY <2>1, CountersCount, CountingKeepsPlaces
  <2>3. QED
    BY <1>1, <2>1, <2>2
<1>3. d \in [Keys -> Counter]
  <2>1. d = [k \in Keys |-> d[k]]
    BY DEF Charged
  <2> HIDE DEF d
  <2>2. QED
    BY <1>2, <2>1
<1>4. QED
  BY <1>1, <1>2, <1>3 DEF Counted

LEMMA ConsumeKeepsPlaces ==
  ASSUME RequestGuardsAssumption, Places, NEW x \in Clients, NEW b, Counted(b),
         Consume(x, Charged(KeysOf(x), b))
  PROVE  Places'
<1> DEFINE ks == KeysOf(x)
           c == Charged(ks, b)
<1>1. /\ Counted(c)
      /\ \A k \in Keys \cap ks : c[k] = Incr(b[k])
      /\ \A k \in Keys \ ks : c[k] = b[k]
  BY ChargingCounts
<1>2. /\ counters' = c
      /\ IF WithinLimit(ks, c)
         THEN passed' = [k \in Keys |-> IF k \in ks
                                        THEN passed[k] \cup {[nth |-> c[k].count, age |-> 0]}
                                        ELSE passed[k]]
         ELSE UNCHANGED passed
  BY DEF Consume
<1> HIDE DEF c, ks
<1>3. CASE UNCHANGED passed
  BY <1>1, <1>2, <1>3 DEF Places, Counted
<1>4. CASE WithinLimit(ks, c)
  <2>1. passed' = [k \in Keys |-> IF k \in ks
                                  THEN passed[k] \cup {[nth |-> c[k].count, age |-> 0]}
                                  ELSE passed[k]]
    BY <1>2, <1>4
  <2>2. ASSUME NEW k \in Keys
        PROVE  passed'[k] \in SUBSET Passages /\ InPlace(passed'[k], c[k], LimitOf(k))
    <3>1. /\ b[k] \in Counter /\ passed[k] \in SUBSET Passages /\ LimitOf(k) \in Nat \ {0}
          /\ InPlace(passed[k], b[k], LimitOf(k))
      BY LimitsArePositive DEF Counted, Places
    <3>2. CASE k \in ks
      <4>1. Incr(b[k]).count <= LimitOf(k) /\ c[k] = Incr(b[k])
        BY <1>1, <1>4, <3>2 DEF WithinLimit
      <4>2. passed'[k] = passed[k] \cup {[nth |-> Incr(b[k]).count, age |-> 0]}
        BY <2>1, <3>2, <4>1
      <4>3. QED
        BY SMTT(30), <3>1, <4>1, <4>2, EnteringKeepsPlaces
    <3>3. CASE k \notin ks
      BY <1>1, <2>1, <3>1, <3>3
    <3>4. QED
      BY <3>2, <3>3
  <2>3. passed' \in [Keys -> SUBSET Passages]
    <3>1. passed' = [k \in Keys |-> passed'[k]]
      BY <2>1
    <3>2. QED
      BY <2>2, <3>1
  <2>4. QED
    BY <1>1, <1>2, <2>2, <2>3 DEF Places, Counted
<1>5. QED
  BY <1>2, <1>3, <1>4

LEMMA LimitKeepsPlaces ==
  ASSUME RequestGuardsAssumption, Places, NEW x \in Clients, Limit(x) PROVE Places'
<1> DEFINE once == Charged(KeysOf(x), counters)
<1>1. Counted(counters)
  BY DEF Counted, Places
<1>2. Counted(once)
  BY <1>1, ChargingCounts
<1>3. CASE UNCHANGED redis
  BY <1>3 DEF redis, Places
<1>4. CASE Consume(x, once)
  BY <1>1, <1>4, ConsumeKeepsPlaces
<1>5. CASE Consume(x, Charged(KeysOf(x), once))
  BY <1>2, <1>5, ConsumeKeepsPlaces
<1>6. CASE UNCHANGED passed /\ (UNCHANGED counters \/ counters' = once)
  BY <1>1, <1>2, <1>6 DEF Places, Counted
<1>7. QED
  BY <1>3, <1>4, <1>5, <1>6 DEF Limit, Unavailable

(* In any stretch of time as long as a window, fewer than twice the limit    *)
(* get through for one identity, whatever the window, the limits and the     *)
(* number of requests, also when the script is sent twice or its answer is   *)
(* lost: windows begin with their first request (CONSUME_SCRIPT), so when    *)
(* the next begins the first has left the stretch.                           *)
THEOREM WindowsHaveABound == Spec => []RollingBound
<1> USE RequestGuardsAssumption
<1>1. Init => Places
  BY PlacesBegin
<1>2. Places /\ [Next]_vars => Places'
  <2> SUFFICES ASSUME Places, [Next]_vars PROVE Places'
    OBVIOUS
  <2>1. CASE UNCHANGED redis
    BY <2>1 DEF redis, Places
  <2>2. CASE UNCHANGED vars
    BY <2>2 DEF vars, Places
  <2>3. CASE Tick
    BY <2>3, TickKeepsPlaces
  <2>4. CASE \E x \in Clients : Limit(x)
    BY <2>4, LimitKeepsPlaces
  <2>5. QED
    BY <2>1, <2>2, <2>3, <2>4
       DEF Next, Receive, Authenticate, CheckStatus, Authorize, Handle, Respond
<1>3. Places => RollingBound
  <2> SUFFICES ASSUME Places, NEW k \in Keys
               PROVE  Cardinality(passed[k]) < 2 * LimitOf(k)
    BY DEF RollingBound
  <2>1. /\ counters[k] \in Counter /\ passed[k] \in SUBSET Passages /\ LimitOf(k) \in Nat \ {0}
        /\ InPlace(passed[k], counters[k], LimitOf(k))
    BY LimitsArePositive DEF Places
  <2>2. QED
    BY <2>1, FewerThanTwice
<1>4. QED
  BY <1>1, <1>2, <1>3, PTL DEF Spec
=============================================================================
