------------------------------ MODULE Follows ------------------------------
(***************************************************************************)
(* Follows and blocks: CreatorFollowService and the block repository, with *)
(* the rows of creator_follows and user_blocks and the two counters kept   *)
(* on each profile.                                                        *)
(*                                                                         *)
(* A request is a process.  Its checks are statements of their own; its    *)
(* transaction takes one step per statement that may wait for another      *)
(* transaction, and what it wrote (ins, del, bumped) shows to others at    *)
(* Commit only.  PostgreSQL, external, contributes row locks held to the   *)
(* commit, unique indexes whose conflicting insert waits for the other     *)
(* transaction, and the abort of a transaction in a cycle of waits.        *)
(***************************************************************************)
EXTENDS Integers, FiniteSets, Sequences

CONSTANTS
  Users,      \* Keycloak subjects, each with a profile
  Creators,   \* those with a verified phone and an event that is not archived
  Clients,    \* requests in flight
  Commands,   \* the operations the instance exercises
  MaxOps      \* bound on the number of requests

Pairs == {p \in Users \X Users : p[1] # p[2]}

ASSUME FollowsAssumption ==
  /\ IsFiniteSet(Users)
  /\ Creators \subseteq Users
  /\ Commands \subseteq {"follow", "unfollow", "block", "unblock", "deactivate", "reactivate",
                      "erase"}
  /\ MaxOps \in Nat

VARIABLES
  active,     \* the users whose profile is ACTIVE
  erased,     \* the users whose account has been anonymized
  following,  \* profiles.following_count
  followers,  \* profiles.followers_count
  follows,    \* creator_follows, committed: <<follower, followee>>
  blocks,     \* user_blocks, committed: <<blocker, blocked>>
  txs,        \* what each request holds
  ops         \* requests so far

vars == <<active, erased, following, followers, follows, blocks, txs, ops>>
accounts == <<active, erased>>
counters == <<following, followers>>

Bump == [counter: {"following", "followers"}, user: Users]

Tx == [pc: {"idle", "check", "insert", "delete", "bar", "sever", "update"},
       op: Commands \cup {"none"},
       pair: Users \X Users,        \* <<who asks, the target>>
       ins: SUBSET Pairs,           \* follows inserted
       del: SUBSET Pairs,           \* follows deleted
       bar: SUBSET Pairs,           \* blocks inserted
       todo: Seq(Bump),             \* counters still to be updated
       bumped: SUBSET Bump,         \* counters updated, their rows locked
       barred: BOOLEAN]             \* history: a block has been there since the request came

NoTx == [pc |-> "idle", op |-> "none", pair |-> <<>>, ins |-> {}, del |-> {},
         bar |-> {}, todo |-> <<>>, bumped |-> {}, barred |-> FALSE]

TypeOK ==
  /\ erased \subseteq Users
  /\ active \subseteq Users \ erased
  /\ following \in [Users -> Nat]
  /\ followers \in [Users -> Nat]
  /\ follows \subseteq Pairs
  /\ blocks \subseteq Pairs
  /\ \A x \in Clients : txs[x] = NoTx \/ (txs[x] \in Tx /\ txs[x].pc # "idle")
  /\ ops \in 0..MaxOps

-----------------------------------------------------------------------------
(* Locks. *)

Holds(x, p) == p \in txs[x].ins \cup txs[x].del
Locks(x, u) == \E b \in txs[x].bumped : b.user = u

(* The row of a pair, or of a user's profile, is not in another transaction. *)
PairFree(x, p) == \A y \in Clients \ {x} : ~Holds(y, p)
RowFree(x, u) == \A y \in Clients \ {x} : ~Locks(y, u)
BlockFree(x, p) == \A y \in Clients \ {x} : p \notin txs[y].bar

Between(p) == {p, <<p[2], p[1]>>}
Barred(p) == Between(p) \cap blocks # {}

(* Mutant: only the asker's own block counts. *)
IsBlockedByAsker(p) == p \in blocks

IsBlockedBetween(p) == Between(p) \cap blocks # {}

(* Mutant: the counters the wrong way round. *)
BumpsSwapped(p) == <<[counter |-> "following", user |-> p[2]],
                     [counter |-> "followers", user |-> p[1]]>>

(* The two counters a follow is in, the follower's first. *)
BumpsOf(p) == <<[counter |-> "following", user |-> p[1]],
                [counter |-> "followers", user |-> p[2]]>>

Enter(x, t) == txs' = [txs EXCEPT ![x] = t]
Rollback(x) == Enter(x, NoTx) /\ UNCHANGED <<accounts, following, followers, follows, blocks, ops>>

-----------------------------------------------------------------------------
Init ==
  /\ active = Users
  /\ erased = {}
  /\ following = [u \in Users |-> 0]
  /\ followers = [u \in Users |-> 0]
  /\ follows = {}
  /\ blocks = {}
  /\ txs = [x \in Clients |-> NoTx]
  /\ ops = 0

Receive(x, op, p, pc) ==
  /\ op \in Commands
  /\ txs[x].pc = "idle"
  /\ ops < MaxOps
  /\ ops' = ops + 1
  /\ Enter(x, [NoTx EXCEPT !.pc = pc, !.op = op, !.pair = p,
                           !.barred = Barred(p)])
  /\ UNCHANGED <<accounts, counters, follows, blocks>>

(* follow: the target is a creator whose account is active. *)
FindFollowable(x) ==
  \E p \in Pairs :
    /\ p[2] \in active \cap Creators
    /\ Receive(x, "follow", p, "check")

(* follow: isBlockedBetween, on the primary but before the transaction. *)
CheckBlock(x) ==
  /\ txs[x].pc = "check"
  /\ IF IsBlockedBetween(txs[x].pair)
     THEN Rollback(x)
     ELSE /\ Enter(x, [txs[x] EXCEPT !.pc = "insert"])
          /\ UNCHANGED <<accounts, counters, follows, blocks, ops>>

(* follow: INSERT ... ON CONFLICT DO NOTHING. *)
InsertFollow(x) ==
  LET p == txs[x].pair
  IN /\ txs[x].pc = "insert"
     /\ PairFree(x, p)
     /\ Enter(x, IF p \in follows
                 THEN [txs[x] EXCEPT !.pc = "update"]
                 ELSE [txs[x] EXCEPT !.pc = "update", !.ins = {p}, !.todo = BumpsOf(p)])
     /\ UNCHANGED <<accounts, counters, follows, blocks, ops>>

FindFollowed(x) == \E p \in Pairs : Receive(x, "unfollow", p, "delete")

(* unfollow: DELETE ... RETURNING. *)
DeleteFollow(x) ==
  LET p == txs[x].pair
  IN /\ txs[x].pc = "delete"
     /\ PairFree(x, p)
     /\ Enter(x, IF p \in follows
                 THEN [txs[x] EXCEPT !.pc = "update", !.del = {p}, !.todo = BumpsOf(p)]
                 ELSE [txs[x] EXCEPT !.pc = "update"])
     /\ UNCHANGED <<accounts, counters, follows, blocks, ops>>

(* block: the target's account is active; nobody blocks himself. *)
FindBlockable(x) == \E p \in Pairs : p[2] \in active /\ Receive(x, "block", p, "bar")

InsertBlock(x) ==
  LET p == txs[x].pair
  IN /\ txs[x].pc = "bar"
     /\ BlockFree(x, p)
     /\ Enter(x, IF p \in blocks
                 THEN [txs[x] EXCEPT !.pc = "update"]
                 ELSE [txs[x] EXCEPT !.pc = "sever", !.bar = {p}])
     /\ UNCHANGED <<accounts, counters, follows, blocks, ops>>

(* The rows a DELETE returns come in any order, their counters row by row. *)
Orders(gone) ==
  IF gone = {} THEN {<<>>}
  ELSE {IF pq[1] = pq[2] THEN BumpsOf(pq[1]) ELSE BumpsOf(pq[1]) \o BumpsOf(pq[2]) :
          pq \in {r \in gone \X gone : {r[1], r[2]} = gone}}

(* block: the follows of both directions are deleted, those this statement
   can see: a follow another transaction has inserted is not among them. *)
Sever(x) ==
  LET gone == Between(txs[x].pair) \cap follows
  IN /\ txs[x].pc = "sever"
     /\ \A p \in gone : PairFree(x, p)
     /\ \E order \in Orders(gone) :
          Enter(x, [txs[x] EXCEPT !.pc = "update", !.del = gone, !.todo = order])
     /\ UNCHANGED <<accounts, counters, follows, blocks, ops>>

(* One UPDATE of a profile. A follow insists that the account is still active
   and gives up otherwise; removals do not look. *)
UpdateCounter(x) ==
  /\ txs[x].pc = "update"
  /\ txs[x].todo # <<>>
  /\ RowFree(x, Head(txs[x].todo).user)
  /\ IF txs[x].op = "follow" /\ Head(txs[x].todo).user \notin active
     THEN Rollback(x)
     ELSE /\ Enter(x, [txs[x] EXCEPT !.todo = Tail(@), !.bumped = @ \cup {Head(txs[x].todo)}])
          /\ UNCHANGED <<accounts, counters, follows, blocks, ops>>

Sum1(n) == n + 1
Less1(n) == IF n = 0 THEN 0 ELSE n - 1

(* What a committed transaction has made of one counter. *)
Counted(t, counter, u, n) ==
  IF [counter |-> counter, user |-> u] \notin t.bumped THEN n
  ELSE IF t.ins # {} THEN Sum1(n) ELSE Less1(n)

Commit(x) ==
  LET t == txs[x]
  IN /\ t.pc = "update"
     /\ t.todo = <<>>
     /\ follows' = (follows \cup t.ins) \ t.del
     /\ blocks' = blocks \cup t.bar
     /\ following' = [u \in Users |-> Counted(t, "following", u, following[u])]
     /\ followers' = [u \in Users |-> Counted(t, "followers", u, followers[u])]
     /\ txs' = [txs EXCEPT ![x] = NoTx]
     /\ UNCHANGED <<accounts, ops>>

(* unblock is one statement. Requests that came while the block was there are
   no longer barred by it. *)
Unblock(x) ==
  \E p \in Pairs :
    /\ "unblock" \in Commands
    /\ ops < MaxOps
    /\ txs[x].pc = "idle"
    /\ p \in blocks
    /\ blocks' = blocks \ {p}
    /\ ops' = ops + 1
    /\ txs' = [y \in Clients |->
                 IF txs[y].pair \in Between(p) THEN [txs[y] EXCEPT !.barred = FALSE] ELSE txs[y]]
    /\ UNCHANGED <<accounts, counters, follows>>

(* The account lifecycle's UPDATE of a profile's status. *)
SetActive(u) ==
  /\ ops < MaxOps
  /\ ops' = ops + 1
  /\ \A y \in Clients : ~Locks(y, u)
  /\ \/ "deactivate" \in Commands /\ u \in active /\ active' = active \ {u}
     \/ "reactivate" \in Commands /\ u \notin active \cup erased
        /\ active' = active \cup {u}
  /\ UNCHANGED <<erased, counters, follows, blocks, txs>>

(* The deletion worker's anonymizeDomainData, as far as blocks and accounts go:
   follows and their counters stay. *)
Anonymize(u) ==
  LET lifted == {p \in blocks : u \in {p[1], p[2]}}
  IN /\ "erase" \in Commands
     /\ ops < MaxOps
     /\ u \notin active \cup erased
     /\ \A y \in Clients : ~Locks(y, u)
     /\ erased' = erased \cup {u}
     /\ blocks' = blocks \ lifted
     /\ ops' = ops + 1
     /\ txs' = [y \in Clients |->
                  IF txs[y].pair # <<>> /\ Between(txs[y].pair) \cap lifted # {}
                  THEN [txs[y] EXCEPT !.barred = FALSE] ELSE txs[y]]
     /\ UNCHANGED <<active, counters, follows>>

-----------------------------------------------------------------------------
(* PostgreSQL: whom a statement waits for, and the victim of a deadlock. *)

Awaits(x) ==
  CASE txs[x].pc \in {"insert", "delete"} -> {y \in Clients \ {x} : Holds(y, txs[x].pair)}
    [] txs[x].pc = "bar" -> {y \in Clients \ {x} : txs[x].pair \in txs[y].bar}
    [] txs[x].pc = "sever" ->
         {y \in Clients \ {x} : \E p \in Between(txs[x].pair) \cap follows : Holds(y, p)}
    [] txs[x].pc = "update" /\ txs[x].todo # <<>> ->
         {y \in Clients \ {x} : Locks(y, Head(txs[x].todo).user)}
    [] OTHER -> {}

InCycle(x) ==
  \E S \in SUBSET Clients :
    /\ x \in S
    /\ \A y \in S : Awaits(y) \cap S # {} /\ \E z \in S : y \in Awaits(z)

DeadlockAborts(x) == InCycle(x) /\ Rollback(x)

(* The connection is lost, or the process dies, before the commit. *)
ConnectionLost(x) == txs[x].pc # "idle" /\ Rollback(x)

Step(x) ==
  \/ CheckBlock(x) \/ InsertFollow(x) \/ DeleteFollow(x) \/ InsertBlock(x)
  \/ Sever(x) \/ UpdateCounter(x) \/ Commit(x)

Ask(x) ==
  \/ FindFollowable(x) \/ FindFollowed(x) \/ FindBlockable(x) \/ Unblock(x)
  \/ Step(x) \/ DeadlockAborts(x) \/ ConnectionLost(x)

Next ==
  \/ \E x \in Clients : Ask(x)
  \/ \E u \in Users : SetActive(u) \/ Anonymize(u)

Spec == Init /\ [][Next]_vars

-----------------------------------------------------------------------------
(* The counters of every profile count exactly the follows that are there,
   whatever follows, unfollows, blocks, deadlocks and lost connections
   interleave: the clamp of greatest(count - 1, 0) never bites. *)
CountersAgree ==
  \A u \in Users :
    /\ following[u] = Cardinality({p \in follows : p[1] = u})
    /\ followers[u] = Cardinality({p \in follows : p[2] = u})

(* A block that was in place when a follow was asked for, and has stayed, is
   never followed over: user-block.repository reads the primary for this. *)
BlockHolds ==
  \A x \in Clients : txs[x].ins # {} => ~txs[x].barred

(* The rows two transactions have written are disjoint: no follow is counted
   in or out by two of them. *)
WritersAreApart ==
  \A x, y \in Clients : x # y =>
    /\ \A p \in Pairs : ~(Holds(x, p) /\ Holds(y, p))
    /\ \A u \in Users : ~(Locks(x, u) /\ Locks(y, u))

(* Whoever is blocked follows nobody who blocked him, and is not followed. *)
BlockedDoNotFollow == \A p \in blocks : Between(p) \cap follows = {}
=============================================================================
