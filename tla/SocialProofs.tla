----------------------------- MODULE SocialProofs -----------------------------
(***************************************************************************)
(* Proofs about Follows and Comments, for any number of users, requests    *)
(* and comments, whatever commits, deadlocks and lost connections          *)
(* interleave: the counters of profiles and of comments count the rows     *)
(* there are, a block is not followed over, mentions are announced once    *)
(* and replies join live threads.                                          *)
(***************************************************************************)
EXTENDS Comments, FiniteSetTheorems, SequenceTheorems, TLAPS

-----------------------------------------------------------------------------
(* Follows: what a transaction has written agrees with what it found.      *)

(* The counters that the writing of these follows touches.                 *)
Due(ps) == {b \in Bump : \E p \in ps : b.user = IF b.counter = "following" THEN p[1] ELSE p[2]}

FollowTables ==
  /\ following \in [Users -> Nat]
  /\ followers \in [Users -> Nat]
  /\ follows \subseteq Pairs
  /\ blocks \subseteq Pairs

TxOK(t) ==
  /\ t \in Tx /\ t.pc # "idle" /\ t.pair \in Pairs
  /\ t.ins \subseteq {t.pair} \ follows
  /\ t.del \subseteq Between(t.pair) \cap follows
  /\ t.ins = {} \/ t.del = {}
  /\ t.ins # {} => t.op = "follow"
  /\ t.pc # "update" => t.ins = {} /\ t.del = {}
  /\ Range(t.todo) \cup t.bumped = Due(t.ins \cup t.del)
  /\ t.pc \in {"check", "insert"} => t.op = "follow"
  /\ t.barred => Barred(t.pair)
  /\ t.op = "follow" /\ t.pc # "check" => ~t.barred

TxsOK ==
  /\ txs = [x \in Clients |-> txs[x]]
  /\ \A x \in Clients : txs[x] = NoTx \/ TxOK(txs[x])

PairsApart == \A x, y \in Clients : x # y => \A p \in Pairs : ~(Holds(x, p) /\ Holds(y, p))

FollowsInv == FollowTables /\ TxsOK /\ PairsApart /\ CountersAgree

-----------------------------------------------------------------------------
(* Comments: what a writer knows still holds under its lock.               *)

Locking == {"insert", "replace", "store"}

CommentTables ==
  /\ ops \in Nat
  /\ active \subseteq Users
  /\ ConversationTypeOK
  /\ \A m \in Ids : ~Exists(m) => comments[m].parent = None
  /\ \A p \in mentions : Exists(p[1])
  /\ \A n \in outbox : Exists(n.comment) /\ n.request <= ops

WriterOK(w) ==
  /\ w.user \in Users
  /\ w.request \in 1..ops
  /\ w.pc # "idle" /\ w.pc \notin {"create", "insert"} => w.comment \in Ids
  /\ w.comment \in Ids => Exists(w.comment)
  /\ w.pc = "insert" /\ w.comment # None => Live(w.comment)
  /\ w.pc = "replace" => w.known = {v \in Users : <<w.comment, v>> \in mentions}
  /\ w.pc = "store" => w.count = comments[w.comment].likesCount
  /\ \A n \in outbox : n.request # w.request

WritersOK ==
  /\ \A x \in Writers : writers[x].pc # "idle" => WriterOK(writers[x])
  /\ \A x, y \in Writers : x # y /\ writers[x].pc # "idle" /\ writers[y].pc # "idle" =>
       /\ writers[x].request # writers[y].request
       /\ writers[x].pc \in Locking /\ writers[y].pc \in Locking
            => writers[x].comment # writers[y].comment \/ writers[x].comment = None

CommentsInv == CommentTables /\ WritersOK /\ LikesAgree

-----------------------------------------------------------------------------
(* Lemmas about the operators.                                             *)

LEMMA PairsFacts ==
  ASSUME NEW p \in Pairs
  PROVE  /\ p \in Users \X Users /\ p[1] \in Users /\ p[2] \in Users /\ p[1] # p[2]
         /\ <<p[2], p[1]>> \in Pairs /\ p = <<p[1], p[2]>>
         /\ p \in Between(p) /\ Between(p) \subseteq Pairs
<1>1. p \in Users \X Users /\ p[1] # p[2]
  BY DEF Pairs
<1>2. p[1] \in Users /\ p[2] \in Users /\ p = <<p[1], p[2]>>
  BY <1>1
<1>3. <<p[2], p[1]>> \in Pairs
  BY <1>1, <1>2 DEF Pairs
<1>4. QED
  BY <1>1, <1>2, <1>3 DEF Between

LEMMA FollowsAreFinite ==
  ASSUME FollowsAssumption, NEW S \in SUBSET Pairs PROVE IsFiniteSet(S)
<1>1. IsFiniteSet(Users \X Users)
  BY FS_Product DEF FollowsAssumption
<1>2. S \subseteq Users \X Users
  BY DEF Pairs
<1>3. QED
  BY <1>1, <1>2, FS_Subset

(* The counters of a follow, those of two, and what is left after the first *)
(* of them.                                                                *)
LEMMA BumpsAreDue ==
  ASSUME NEW p \in Pairs
  PROVE  BumpsOf(p) \in Seq(Bump) /\ Range(BumpsOf(p)) = Due({p})
<1> DEFINE a == [counter |-> "following", user |-> p[1]]
           b == [counter |-> "followers", user |-> p[2]]
<1>1. a \in Bump /\ b \in Bump
  BY PairsFacts DEF Bump
<1>2. BumpsOf(p) = <<a, b>>
  BY DEF BumpsOf
<1>3. <<a, b>> \in Seq(Bump) /\ Range(<<a, b>>) = {a, b}
  <2> HIDE DEF a, b
  <2>1. <<a, b>> \in Seq(Bump) /\ Len(<<a, b>>) = 2
    BY <1>1
  <2>2. Range(<<a, b>>) = {<<a, b>>[i] : i \in 1..2}
    BY <2>1, RangeEquality
  <2>3. QED
    BY <2>1, <2>2
<1>4. Due({p}) = {a, b}
  <2>1. a \in Due({p}) /\ b \in Due({p})
    BY <1>1 DEF Due
  <2>2. ASSUME NEW c \in Due({p}) PROVE c = a \/ c = b
    <3>1. c \in Bump /\ c.user = IF c.counter = "following" THEN p[1] ELSE p[2]
      BY DEF Due
    <3>2. c.counter \in {"following", "followers"} /\ c = [counter |-> c.counter, user |-> c.user]
      BY <3>1 DEF Bump
    <3>3. QED
      BY <3>1, <3>2
  <2>3. QED
    BY <2>1, <2>2
<1>5. QED
  BY <1>2, <1>3, <1>4

LEMMA OrdersAreDue ==
  ASSUME NEW gone \in SUBSET Pairs, NEW order \in Orders(gone)
  PROVE  order \in Seq(Bump) /\ Range(order) = Due(gone)
<1>1. CASE gone = {}
  <2>1. order = <<>>
    BY <1>1 DEF Orders
  <2>2. order \in Seq(Bump) /\ Len(order) = 0
    BY <2>1, EmptySeq
  <2>3. Range(order) = {order[i] : i \in 1..Len(order)}
    BY <2>2, RangeEquality
  <2>4. Range(order) = {}
    BY <2>2, <2>3
  <2>5. QED
    BY <1>1, <2>2, <2>4 DEF Due
<1>2. CASE gone # {}
  <2>1. PICK pq \in gone \X gone : /\ {pq[1], pq[2]} = gone
                                   /\ order = IF pq[1] = pq[2] THEN BumpsOf(pq[1])
                                              ELSE BumpsOf(pq[1]) \o BumpsOf(pq[2])
    BY <1>2 DEF Orders
  <2>2. pq[1] \in Pairs /\ pq[2] \in Pairs
    BY <2>1
  <2>3. CASE pq[1] = pq[2]
    BY <2>1, <2>2, <2>3, BumpsAreDue
  <2>4. CASE pq[1] # pq[2]
    <3>1. /\ BumpsOf(pq[1]) \in Seq(Bump) /\ BumpsOf(pq[2]) \in Seq(Bump)
          /\ Range(BumpsOf(pq[1])) = Due({pq[1]}) /\ Range(BumpsOf(pq[2])) = Due({pq[2]})
      BY <2>2, BumpsAreDue
    <3>2. /\ order \in Seq(Bump)
          /\ Range(order) = Range(BumpsOf(pq[1])) \cup Range(BumpsOf(pq[2]))
      BY <2>1, <2>4, <3>1, RangeConcatenation, ConcatProperties
    <3>3. Due({pq[1]}) \cup Due({pq[2]}) = Due({pq[1], pq[2]})
      BY DEF Due
    <3>4. QED
      BY <2>1, <3>1, <3>2, <3>3
  <2>5. QED
    BY <2>3, <2>4
<1>3. QED
  BY <1>1, <1>2

LEMMA HeadOfTodo ==
  ASSUME NEW todo \in Seq(Bump), todo # <<>>
  PROVE  /\ Head(todo) \in Bump /\ Tail(todo) \in Seq(Bump)
         /\ Range(todo) = {Head(todo)} \cup Range(Tail(todo))
<1>1. /\ Head(todo) \in Bump /\ Tail(todo) \in Seq(Bump) /\ Len(Tail(todo)) = Len(todo) - 1
      /\ \A i \in 1..Len(Tail(todo)) : Tail(todo)[i] = todo[i + 1]
  BY HeadTailProperties
<1>2. Len(todo) \in Nat \ {0} /\ Head(todo) = todo[1]
  BY EmptySeq
<1>3. /\ Range(todo) = {todo[i] : i \in 1..Len(todo)}
      /\ Range(Tail(todo)) = {Tail(todo)[i] : i \in 1..Len(Tail(todo))}
  BY <1>1, RangeEquality
<1>4. ASSUME NEW i \in 1..Len(todo) PROVE todo[i] \in {Head(todo)} \cup Range(Tail(todo))
  <2>1. CASE i = 1
    BY <1>2, <2>1
  <2>2. CASE i # 1
    <3>1. i - 1 \in 1..Len(Tail(todo)) /\ Tail(todo)[i - 1] = todo[(i - 1) + 1]
      BY <1>1, <1>2, <2>2
    <3>2. todo[(i - 1) + 1] = todo[i]
      BY <1>2
    <3>3. QED
      BY <1>3, <3>1, <3>2
  <2>3. QED
    BY <2>1, <2>2
<1>5. ASSUME NEW i \in 1..Len(Tail(todo)) PROVE Tail(todo)[i] \in Range(todo)
  BY <1>1, <1>2, <1>3
<1>6. Head(todo) \in Range(todo)
  BY <1>2, <1>3
<1>7. QED
  BY <1>1, <1>3, <1>4, <1>5, <1>6

-----------------------------------------------------------------------------
(* Follows, step by step.                                                  *)

LEMMA NobodyWritesYet == Due({}) = {} /\ Range(<<>>) = {} /\ <<>> \in Seq(Bump)
<1>1. <<>> \in Seq(Bump) /\ Len(<<>>) = 0
  BY EmptySeq
<1>2. Range(<<>>) = {<<>>[i] : i \in 1..Len(<<>>)}
  BY <1>1, RangeEquality
<1>3. Range(<<>>) = {}
  BY <1>1, <1>2
<1>4. QED
  BY <1>1, <1>3 DEF Due

LEMMA Busy ==
  ASSUME FollowsInv, NEW x \in Clients, txs[x].pc # "idle" PROVE TxOK(txs[x])
BY DEF FollowsInv, TxsOK, NoTx

LEMMA HoldersApart ==
  ASSUME FollowsInv, NEW x \in Clients, NEW p \in Pairs, Holds(x, p) PROVE PairFree(x, p)
BY DEF FollowsInv, PairsApart, PairFree

LEMMA WrittenPairs ==
  ASSUME NEW t, TxOK(t) PROVE t.ins \subseteq Pairs /\ t.del \subseteq Pairs
BY PairsFacts DEF TxOK

(* A step within one transaction: nothing shows to others yet, and what it *)
(* comes to hold nobody else held.                                         *)
LEMMA TxGoes ==
  ASSUME FollowsInv, NEW x \in Clients, NEW t, t = NoTx \/ TxOK(t), Enter(x, t),
         UNCHANGED <<counters, follows, blocks>>,
         \A p \in (t.ins \cup t.del) \cap Pairs : PairFree(x, p)
  PROVE  FollowsInv'
<1>1. FollowTables'
  BY DEF FollowsInv, FollowTables, counters
<1>2. CountersAgree'
  BY DEF FollowsInv, CountersAgree, counters
<1>3. /\ txs' = [y \in Clients |-> txs'[y]]
      /\ txs'[x] = t /\ \A y \in Clients \ {x} : txs'[y] = txs[y]
  BY DEF FollowsInv, TxsOK, Enter
<1>4. follows' = follows /\ blocks' = blocks
  OBVIOUS
<1>5. TxsOK'
  <2>1. ASSUME NEW y \in Clients PROVE (txs[y] = NoTx \/ TxOK(txs[y]))'
    <3>1. txs'[y] = NoTx \/ TxOK(txs'[y])
      BY <1>3 DEF FollowsInv, TxsOK
    <3>2. QED
      BY <3>1, <1>4 DEF TxOK, Barred
  <2>2. QED
    BY <1>3, <2>1 DEF TxsOK
<1>6. PairsApart'
  BY <1>3 DEF FollowsInv, PairsApart, PairFree, Holds
<1>7. QED
  BY <1>1, <1>2, <1>5, <1>6 DEF FollowsInv

LEMMA TxEnds ==
  ASSUME FollowsInv, NEW x \in Clients, Enter(x, NoTx), UNCHANGED <<counters, follows, blocks>>
  PROVE  FollowsInv'
BY TxGoes DEF NoTx

LEMMA FindGoes ==
  ASSUME FollowsInv, NEW x \in Clients, FindFollowable(x) \/ FindFollowed(x) \/ FindBlockable(x)
  PROVE  FollowsInv'
<1>1. PICK p \in Pairs, op \in {"follow", "unfollow", "block"}, pc \in {"check", "delete", "bar"} :
        Receive(x, op, p, pc) /\ (op = "follow" <=> pc = "check")
  BY DEF FindFollowable, FindFollowed, FindBlockable
<1> DEFINE t == [NoTx EXCEPT !.pc = pc, !.op = op, !.pair = p, !.barred = Barred(p)]
<1>2. /\ t.pc = pc /\ t.op = op /\ t.pair = p /\ t.barred = Barred(p) /\ t.ins = {} /\ t.del = {}
      /\ t.todo = <<>> /\ t.bumped = {}
  BY DEF NoTx
<1>3. t \in Tx
  <2>1. op \in Commands /\ p \in Users \X Users /\ Barred(p) \in BOOLEAN
    BY <1>1, PairsFacts DEF Receive, Barred
  <2>2. QED
    BY <2>1, NobodyWritesYet DEF NoTx, Tx
<1> HIDE DEF t
<1>4. TxOK(t)
  BY <1>1, <1>2, <1>3, NobodyWritesYet DEF TxOK
<1>5. QED
  BY <1>1, <1>2, <1>4, TxGoes DEF Receive, t

LEMMA CheckBlockGoes ==
  ASSUME FollowsInv, NEW x \in Clients, CheckBlock(x) PROVE FollowsInv'
<1>1. CASE IsBlockedBetween(txs[x].pair)
  BY <1>1, TxEnds DEF CheckBlock, Rollback, counters
<1>2. CASE ~IsBlockedBetween(txs[x].pair)
  <2> DEFINE t == [txs[x] EXCEPT !.pc = "insert"]
  <2>1. TxOK(txs[x]) /\ txs[x] \in Tx /\ txs[x].pc = "check" /\ txs[x].op = "follow"
    BY Busy DEF CheckBlock, TxOK
  <2>2. /\ t \in Tx /\ t.pc = "insert" /\ t.op = "follow" /\ t.pair = txs[x].pair
        /\ t.ins = txs[x].ins /\ t.del = txs[x].del /\ t.todo = txs[x].todo
        /\ t.bumped = txs[x].bumped /\ t.barred = txs[x].barred
    BY <2>1 DEF Tx
  <2>3. ~txs[x].barred
    BY <1>2, <2>1 DEF TxOK, Barred, IsBlockedBetween
  <2> HIDE DEF t
  <2>4. TxOK(t) /\ t.ins = {} /\ t.del = {}
    BY <2>1, <2>2, <2>3 DEF TxOK
  <2>5. QED
    BY <1>2, <2>4, TxGoes DEF CheckBlock, t
<1>3. QED
  BY <1>1, <1>2

(* A statement that finds its row free, and has written or deleted the     *)
(* follows ws when it returns.                                             *)
LEMMA WriteGoes ==
  ASSUME FollowsInv, NEW x \in Clients, TxOK(txs[x]), txs[x].pc # "update", txs[x].pc # "check",
         NEW ins, NEW del, NEW todo \in Seq(Bump),
         ins \subseteq {txs[x].pair} \ follows, del \subseteq Between(txs[x].pair) \cap follows,
         ins = {} \/ del = {}, ins # {} => txs[x].op = "follow",
         Range(todo) = Due(ins \cup del),
         \A p \in ins \cup del : PairFree(x, p),
         NEW t, t = [txs[x] EXCEPT !.pc = "update", !.ins = ins, !.del = del, !.todo = todo],
         Enter(x, t),
         UNCHANGED <<counters, follows, blocks>>
  PROVE  FollowsInv'
<1>1. txs[x] \in Tx /\ txs[x].pair \in Pairs /\ txs[x].ins = {} /\ txs[x].del = {}
  BY DEF TxOK
<1>2. ins \subseteq Pairs /\ del \subseteq Pairs
  BY <1>1, PairsFacts
<1>3. /\ t \in Tx /\ t.pc = "update" /\ t.op = txs[x].op /\ t.pair = txs[x].pair
      /\ t.ins = ins /\ t.del = del /\ t.todo = todo
      /\ t.bumped = txs[x].bumped /\ t.barred = txs[x].barred
  BY <1>1, <1>2 DEF Tx
<1>4. t.bumped = {}
  BY <1>1, <1>3, NobodyWritesYet DEF TxOK
<1>5. TxOK(t)
  BY <1>1, <1>3, <1>4 DEF TxOK
<1>6. QED
  BY <1>3, <1>5, TxGoes

LEMMA FollowChanges ==
  ASSUME FollowsInv, NEW x \in Clients, InsertFollow(x) \/ DeleteFollow(x) PROVE FollowsInv'
<1> DEFINE t == txs[x]
           p == t.pair
<1>1. TxOK(t) /\ t \in Tx /\ t.pc # "update" /\ t.pc # "check" /\ p \in Pairs
      /\ t.ins = {} /\ t.del = {} /\ Range(t.todo) = {} /\ t.bumped = {}
  <2>1. TxOK(t) /\ t \in Tx /\ t.pc \in {"insert", "delete"}
    <3>1. txs[x].pc \in {"insert", "delete"}
      BY DEF InsertFollow, DeleteFollow
    <3>2. TxOK(txs[x])
      BY <3>1, Busy
    <3>3. QED
      BY <3>1, <3>2 DEF TxOK
  <2>2. /\ p \in Pairs /\ t.ins = {} /\ t.del = {}
        /\ Range(t.todo) \cup t.bumped = Due(t.ins \cup t.del)
    BY <2>1 DEF TxOK
  <2> HIDE DEF t
  <2>3. Range(t.todo) \cup t.bumped = {}
    BY <2>2, NobodyWritesYet
  <2>4. QED
    BY <2>1, <2>2, <2>3
<1>2. BumpsOf(p) \in Seq(Bump) /\ Range(BumpsOf(p)) = Due({p}) /\ p \in Between(p)
  BY <1>1, BumpsAreDue, PairsFacts
<1>3. PairFree(x, p) /\ UNCHANGED <<counters, follows, blocks>>
  BY DEF InsertFollow, DeleteFollow
<1>4. CASE Enter(x, [t EXCEPT !.pc = "update"])
  <2> DEFINE s == [t EXCEPT !.pc = "update"]
  <2>1. /\ s \in Tx /\ s.pc = "update" /\ s.op = t.op /\ s.pair = p /\ s.ins = {} /\ s.del = {}
        /\ s.todo = t.todo /\ s.bumped = {} /\ s.barred = t.barred
    BY <1>1 DEF Tx
  <2> HIDE DEF s
  <2>2. TxOK(s)
    BY <1>1, <2>1, NobodyWritesYet DEF TxOK
  <2>3. QED
    BY <1>3, <1>4, <2>1, <2>2, TxGoes DEF s
<1>5. CASE /\ InsertFollow(x) /\ p \notin follows
           /\ Enter(x, [t EXCEPT !.pc = "update", !.ins = {p}, !.todo = BumpsOf(p)])
  <2>1. t.op = "follow"
    BY <1>1, <1>5 DEF InsertFollow, TxOK
  <2> DEFINE s == [t EXCEPT !.pc = "update", !.ins = {p}, !.todo = BumpsOf(p)]
  <2>2. s = [t EXCEPT !.pc = "update", !.ins = {p}, !.del = {}, !.todo = BumpsOf(p)]
    BY <1>1 DEF Tx
  <2> HIDE DEF s
  <2>3. {p} \subseteq {p} \ follows /\ {} \subseteq Between(p) \cap follows /\ {p} \cup {} = {p}
    BY <1>5
  <2>4. Enter(x, s)
    BY <1>5 DEF s
  <2>5. QED
    BY <1>1, <1>2, <1>3, <2>1, <2>2, <2>3, <2>4, WriteGoes
<1>6. CASE /\ p \in follows
           /\ Enter(x, [t EXCEPT !.pc = "update", !.del = {p}, !.todo = BumpsOf(p)])
  <2> DEFINE s == [t EXCEPT !.pc = "update", !.del = {p}, !.todo = BumpsOf(p)]
  <2>1. s = [t EXCEPT !.pc = "update", !.ins = {}, !.del = {p}, !.todo = BumpsOf(p)]
    BY <1>1 DEF Tx
  <2> HIDE DEF s
  <2>2. {} \subseteq {p} \ follows /\ {p} \subseteq Between(p) \cap follows /\ {} \cup {p} = {p}
    BY <1>2, <1>6
  <2>3. Enter(x, s)
    BY <1>6 DEF s
  <2>4. QED
    BY <1>1, <1>2, <1>3, <2>1, <2>2, <2>3, WriteGoes
<1>7. QED
  BY <1>4, <1>5, <1>6 DEF InsertFollow, DeleteFollow

LEMMA InsertBlockGoes ==
  ASSUME FollowsInv, NEW x \in Clients, InsertBlock(x) PROVE FollowsInv'
<1> DEFINE t == txs[x]
           p == t.pair
<1>1. TxOK(t) /\ t \in Tx /\ t.pc = "bar" /\ p \in Pairs
  BY Busy DEF InsertBlock, TxOK
<1>2. PICK s : /\ s = [t EXCEPT !.pc = "update"] \/ s = [t EXCEPT !.pc = "sever", !.bar = {p}]
               /\ Enter(x, s) /\ UNCHANGED <<counters, follows, blocks>>
  BY DEF InsertBlock
<1>3. /\ s \in Tx /\ s.pc \in {"update", "sever"} /\ s.op = t.op /\ s.pair = p
      /\ s.ins = t.ins /\ s.del = t.del
      /\ s.todo = t.todo /\ s.bumped = t.bumped /\ s.barred = t.barred
  <2>1. CASE s = [t EXCEPT !.pc = "update"]
    BY <1>1, <2>1 DEF Tx
  <2>2. CASE s = [t EXCEPT !.pc = "sever", !.bar = {p}]
    <3> DEFINE bar == {p}
    <3>1. bar \in SUBSET Pairs /\ s = [t EXCEPT !.pc = "sever", !.bar = bar]
      BY <1>1, <2>2
    <3> HIDE DEF bar
    <3>2. QED
      BY <1>1, <3>1 DEF Tx
  <2>3. QED
    BY <1>2, <2>1, <2>2
<1>4. TxOK(s) /\ s.ins = {} /\ s.del = {}
  BY <1>1, <1>3 DEF TxOK
<1>5. QED
  BY <1>2, <1>4, TxGoes

LEMMA SeverGoes ==
  ASSUME FollowsInv, NEW x \in Clients, Sever(x) PROVE FollowsInv'
<1> DEFINE t == txs[x]
           gone == Between(t.pair) \cap follows
<1>1. TxOK(t) /\ t \in Tx /\ t.pc = "sever" /\ t.ins = {} /\ t.pair \in Pairs
  BY Busy DEF Sever, TxOK
<1>2. PICK order \in Orders(gone) :
        Enter(x, [t EXCEPT !.pc = "update", !.del = gone, !.todo = order])
  BY DEF Sever
<1>3. gone \in SUBSET Pairs
  BY <1>1, PairsFacts
<1>4. order \in Seq(Bump) /\ Range(order) = Due({} \cup gone)
  BY <1>3, OrdersAreDue
<1>5. [t EXCEPT !.pc = "update", !.del = gone, !.todo = order]
      = [t EXCEPT !.pc = "update", !.ins = {}, !.del = gone, !.todo = order]
  BY <1>1 DEF Tx
<1>6. (\A p \in {} \cup gone : PairFree(x, p)) /\ UNCHANGED <<counters, follows, blocks>>
  BY DEF Sever
<1>7. QED
  BY <1>1, <1>2, <1>4, <1>5, <1>6, WriteGoes

LEMMA UpdateCounterGoes ==
  ASSUME FollowsInv, NEW x \in Clients, UpdateCounter(x) PROVE FollowsInv'
<1> DEFINE t == txs[x]
           s == [t EXCEPT !.todo = Tail(@), !.bumped = @ \cup {Head(t.todo)}]
<1>1. TxOK(t) /\ t \in Tx /\ t.pc = "update" /\ t.todo # <<>> /\ t.todo \in Seq(Bump)
  BY Busy DEF UpdateCounter, TxOK, Tx
<1>2. CASE Rollback(x)
  BY <1>2, TxEnds DEF Rollback, counters
<1>3. CASE Enter(x, s) /\ UNCHANGED <<accounts, counters, follows, blocks, ops>>
  <2>1. /\ Head(t.todo) \in Bump /\ Tail(t.todo) \in Seq(Bump)
        /\ Range(t.todo) = {Head(t.todo)} \cup Range(Tail(t.todo))
    BY <1>1, HeadOfTodo
  <2>2. /\ s \in Tx /\ s.pc = "update" /\ s.op = t.op /\ s.pair = t.pair
        /\ s.ins = t.ins /\ s.del = t.del
        /\ s.todo = Tail(t.todo) /\ s.bumped = t.bumped \cup {Head(t.todo)}
        /\ s.barred = t.barred
    BY <1>1, <2>1 DEF Tx
  <2>3. \A p \in (t.ins \cup t.del) \cap Pairs : PairFree(x, p)
    BY <1>1, HoldersApart DEF Holds
  <2> HIDE DEF s
  <2>4. TxOK(s)
    BY <1>1, <2>1, <2>2 DEF TxOK
  <2>5. QED
    BY <1>3, <2>2, <2>3, <2>4, TxGoes
<1>4. QED
  BY <1>2, <1>3 DEF UpdateCounter

(* One follow more, or one less, in a set of follows that is counted.      *)
LEMMA CountOne ==
  ASSUME FollowsAssumption, NEW S \in SUBSET Pairs, NEW p \in Pairs
  PROVE  /\ Cardinality(S) \in Nat
         /\ p \notin S => Cardinality(S \cup {p}) = Sum1(Cardinality(S))
         /\ p \in S => Cardinality(S \ {p}) = Less1(Cardinality(S))
<1>1. IsFiniteSet(S)
  BY FollowsAreFinite
<1>2. Cardinality(S) \in Nat /\ (p \in S => Cardinality(S) # 0)
  BY <1>1, FS_CardinalityType, FS_EmptySet
<1>3. p \notin S => Cardinality(S \cup {p}) = Cardinality(S) + 1
  BY <1>1, FS_AddElement
<1>4. p \in S => Cardinality(S \ {p}) = Cardinality(S) - 1
  BY <1>1, FS_RemoveElement
<1>5. QED
  BY <1>2, <1>3, <1>4 DEF Sum1, Less1

(* What Commit makes of the counters of a user: Out and In are the follows *)
(* that they count.                                                        *)
Counting(counter, u, F) == {p \in F : IF counter = "following" THEN p[1] = u ELSE p[2] = u}

LEMMA CommitCounts ==
  ASSUME FollowsAssumption, FollowsInv, NEW x \in Clients, txs[x].pc = "update",
         txs[x].todo = <<>>, NEW counter \in {"following", "followers"}, NEW u \in Users
  PROVE  Counted(txs[x], counter, u, Cardinality(Counting(counter, u, follows)))
         = Cardinality(Counting(counter, u, (follows \cup txs[x].ins) \ txs[x].del))
<1> DEFINE t == txs[x]
           S == Counting(counter, u, follows)
           T == Counting(counter, u, (follows \cup t.ins) \ t.del)
           b == [counter |-> counter, user |-> u]
           Hit(p) == IF counter = "following" THEN p[1] = u ELSE p[2] = u
<1>1. /\ TxOK(t) /\ t.pair \in Pairs /\ t.ins \subseteq {t.pair} \ follows
      /\ t.del \subseteq Between(t.pair) \cap follows /\ (t.ins = {} \/ t.del = {})
  BY Busy DEF TxOK
<1>2. t.bumped = Due(t.ins \cup t.del)
  BY <1>1, NobodyWritesYet DEF TxOK
<1>3. b \in Bump /\ (b \in t.bumped <=> \E p \in t.ins \cup t.del : Hit(p))
  BY <1>2 DEF Due, Bump
<1>4. S \in SUBSET Pairs /\ follows \subseteq Pairs
  BY DEF Counting, FollowsInv, FollowTables
<1>5. CASE b \notin t.bumped
  <2>1. S = T
    BY <1>3, <1>5 DEF Counting
  <2>2. QED
    BY <1>5, <2>1 DEF Counted
<1>6. CASE b \in t.bumped
  <2>1. PICK p \in t.ins \cup t.del : Hit(p)
    BY <1>3, <1>6
  <2>2. p \in Pairs
    BY <1>1, WrittenPairs
  <2>3. CASE t.ins # {}
    <3>1. t.ins = {p} /\ t.del = {} /\ p \notin S
      BY <1>1, <2>1, <2>3 DEF Counting
    <3>2. T = S \cup {p}
      BY <2>1, <3>1 DEF Counting
    <3>3. Counted(t, counter, u, Cardinality(S)) = Sum1(Cardinality(S))
      BY <1>6, <2>3 DEF Counted
    <3>4. QED
      BY <1>4, <2>2, <3>1, <3>2, <3>3, CountOne
  <2>4. CASE t.ins = {}
    <3>1. p \in t.del /\ p \in S
      BY <1>1, <2>1, <2>4 DEF Counting
    <3>2. \A q \in t.del : Hit(q) => q = p
      BY <1>1, <2>1, <3>1, PairsFacts DEF Between
    <3>3. T = S \ {p}
      BY <2>4, <3>1, <3>2 DEF Counting
    <3>4. Counted(t, counter, u, Cardinality(S)) = Less1(Cardinality(S))
      BY <1>6, <2>4 DEF Counted
    <3>5. QED
      BY <1>4, <2>2, <3>1, <3>3, <3>4, CountOne
  <2>5. QED
    BY <2>3, <2>4
<1>7. QED
  BY <1>5, <1>6

LEMMA CommitGoes ==
  ASSUME FollowsAssumption, FollowsInv, NEW x \in Clients, Commit(x) PROVE FollowsInv'
<1> DEFINE t == txs[x]
<1>1. /\ TxOK(t) /\ t \in Tx /\ t.pair \in Pairs /\ t.ins \subseteq Pairs /\ t.del \subseteq Pairs
      /\ t.bar \subseteq Pairs
  BY Busy, WrittenPairs DEF Commit, TxOK, Tx
<1>2. /\ follows' = (follows \cup t.ins) \ t.del /\ blocks' = blocks \cup t.bar
      /\ following' = [u \in Users |-> Counted(t, "following", u, following[u])]
      /\ followers' = [u \in Users |-> Counted(t, "followers", u, followers[u])]
      /\ txs' = [txs EXCEPT ![x] = NoTx]
  BY DEF Commit
<1>3. /\ txs' = [y \in Clients |-> txs'[y]] /\ txs'[x] = NoTx
      /\ \A y \in Clients \ {x} : txs'[y] = txs[y]
  BY <1>2 DEF FollowsInv, TxsOK
<1>4. \A u \in Users :
        /\ {p \in follows : p[1] = u} = Counting("following", u, follows)
        /\ {p \in follows : p[2] = u} = Counting("followers", u, follows)
        /\ {p \in follows' : p[1] = u} = Counting("following", u, follows')
        /\ {p \in follows' : p[2] = u} = Counting("followers", u, follows')
  BY DEF Counting
<1>5. \A u \in Users :
        /\ following[u] = Cardinality(Counting("following", u, follows))
        /\ followers[u] = Cardinality(Counting("followers", u, follows))
  BY <1>4 DEF FollowsInv, CountersAgree
<1>6. \A u \in Users :
        /\ following'[u] = Cardinality(Counting("following", u, follows'))
        /\ followers'[u] = Cardinality(Counting("followers", u, follows'))
  <2> TAKE u \in Users
  <2>1. t.pc = "update" /\ t.todo = <<>>
    BY DEF Commit
  <2>2. /\ Counted(t, "following", u, Cardinality(Counting("following", u, follows)))
           = Cardinality(Counting("following", u, (follows \cup t.ins) \ t.del))
        /\ Counted(t, "followers", u, Cardinality(Counting("followers", u, follows)))
           = Cardinality(Counting("followers", u, (follows \cup t.ins) \ t.del))
    BY <2>1, CommitCounts
  <2>3. QED
    BY <1>2, <1>5, <2>2
<1>7. CountersAgree'
  BY <1>4, <1>6 DEF CountersAgree
<1>8. FollowTables'
  <2>1. follows' \subseteq Pairs /\ blocks' \subseteq Pairs
    BY <1>1, <1>2 DEF FollowsInv, FollowTables
  <2>2. \A u \in Users : /\ Counting("following", u, follows') \in SUBSET Pairs
                         /\ Counting("followers", u, follows') \in SUBSET Pairs
    BY <2>1 DEF Counting
  <2>3. \A u \in Users : following'[u] \in Nat /\ followers'[u] \in Nat
    BY <1>6, <2>2, FollowsAreFinite, FS_CardinalityType
  <2>4. QED
    BY <1>2, <2>1, <2>3 DEF FollowTables
<1>9. TxsOK'
  <2>1. ASSUME NEW y \in Clients PROVE (txs[y] = NoTx \/ TxOK(txs[y]))'
    <3>1. CASE y = x \/ txs[y] = NoTx
      BY <1>3, <3>1
    <3>2. CASE y # x /\ txs[y] # NoTx
      <4>1. TxOK(txs[y]) /\ txs'[y] = txs[y]
        BY <1>3, <3>2 DEF FollowsInv, TxsOK
      <4>2. \A p \in Pairs : ~(Holds(x, p) /\ Holds(y, p))
        BY <3>2 DEF FollowsInv, PairsApart
      <4>3. txs[y].ins \subseteq Pairs /\ txs[y].del \subseteq Pairs
        BY <4>1, WrittenPairs
      <4>4. txs[y].ins \cap follows' = {} /\ txs[y].del \subseteq follows'
        BY <1>2, <4>1, <4>2, <4>3 DEF TxOK, Holds
      <4>5. Barred(txs[y].pair) => Between(txs[y].pair) \cap blocks' # {}
        BY <1>2 DEF Barred
      <4>6. QED
        BY <4>1, <4>4, <4>5 DEF TxOK, Barred
    <3>3. QED
      BY <3>1, <3>2
  <2>2. QED
    BY <1>3, <2>1 DEF TxsOK
<1>10. PairsApart'
  BY <1>3 DEF FollowsInv, PairsApart, Holds, NoTx
<1>11. QED
  BY <1>7, <1>8, <1>9, <1>10 DEF FollowsInv

(* Blocks are lifted: every request that one of them barred is told so.    *)
LEMMA LiftGoes ==
  ASSUME FollowsInv, NEW lifted \in SUBSET Pairs, blocks' = blocks \ lifted,
         UNCHANGED <<counters, follows>>,
         DOMAIN txs' = Clients, txs' = [y \in Clients |-> txs'[y]],
         \A y \in Clients : txs'[y] = txs[y] \/ txs'[y] = [txs[y] EXCEPT !.barred = FALSE],
         \A y \in Clients : TxOK(txs[y]) /\ Between(txs[y].pair) \cap lifted # {}
                              => txs'[y] = [txs[y] EXCEPT !.barred = FALSE]
  PROVE  FollowsInv'
<1>1. FollowTables' /\ CountersAgree' /\ follows' = follows
  BY DEF FollowsInv, FollowTables, CountersAgree, counters
<1>2. ASSUME NEW y \in Clients, txs[y] = NoTx PROVE txs'[y] = NoTx
  BY <1>2 DEF NoTx
<1>3. ASSUME NEW y \in Clients, TxOK(txs[y])
      PROVE  /\ TxOK(txs[y])'
             /\ txs'[y].ins = txs[y].ins /\ txs'[y].del = txs[y].del
  <2> DEFINE t == txs[y]
             s == txs'[y]
  <2>1. t \in Tx
    BY <1>3 DEF TxOK
  <2>2. /\ s \in Tx /\ s.pc = t.pc /\ s.op = t.op /\ s.pair = t.pair /\ s.ins = t.ins
        /\ s.del = t.del /\ s.todo = t.todo /\ s.bumped = t.bumped
        /\ s.barred => t.barred
    <3>1. CASE s = t
      BY <2>1, <3>1
    <3>2. CASE s = [t EXCEPT !.barred = FALSE]
      BY <2>1, <3>2 DEF Tx
    <3>3. QED
      BY <3>1, <3>2
  <2>3. s.barred => Between(s.pair) \cap blocks' # {}
    <3>1. CASE Between(t.pair) \cap lifted # {}
      BY <1>3, <2>1, <3>1 DEF Tx
    <3>2. CASE Between(t.pair) \cap lifted = {}
      BY <1>3, <2>2, <3>2 DEF TxOK, Barred
    <3>3. QED
      BY <3>1, <3>2
  <2>4. QED
    BY <1>1, <1>3, <2>2, <2>3 DEF TxOK, Barred
<1>4. TxsOK'
  BY <1>2, <1>3 DEF FollowsInv, TxsOK
<1>5. PairsApart'
  <2>1. \A y \in Clients : txs'[y].ins = txs[y].ins /\ txs'[y].del = txs[y].del
    BY <1>2, <1>3 DEF FollowsInv, TxsOK
  <2>2. QED
    BY <2>1 DEF FollowsInv, PairsApart, Holds
<1>6. QED
  BY <1>1, <1>4, <1>5 DEF FollowsInv

LEMMA UnblockGoes ==
  ASSUME FollowsInv, NEW x \in Clients, Unblock(x) PROVE FollowsInv'
<1>1. PICK p \in Pairs :
        /\ blocks' = blocks \ {p}
        /\ UNCHANGED <<counters, follows>>
        /\ txs' = [y \in Clients |->
                     IF txs[y].pair \in Between(p) THEN [txs[y] EXCEPT !.barred = FALSE] ELSE txs[y]]
  BY DEF Unblock
<1>2. ASSUME NEW y \in Clients, TxOK(txs[y]), Between(txs[y].pair) \cap {p} # {}
      PROVE  txs[y].pair \in Between(p)
  BY <1>2, PairsFacts DEF TxOK, Between
<1>3. {p} \in SUBSET Pairs
  OBVIOUS
<1>4. QED
  BY <1>1, <1>2, <1>3, LiftGoes

LEMMA AnonymizeGoes ==
  ASSUME FollowsInv, NEW u \in Users, Anonymize(u) PROVE FollowsInv'
<1> DEFINE lifted == {p \in blocks : u \in {p[1], p[2]}}
<1>1. /\ blocks' = blocks \ lifted
      /\ UNCHANGED <<counters, follows>>
      /\ txs' = [y \in Clients |->
                   IF txs[y].pair # <<>> /\ Between(txs[y].pair) \cap lifted # {}
                   THEN [txs[y] EXCEPT !.barred = FALSE] ELSE txs[y]]
  BY DEF Anonymize
<1>2. ASSUME NEW y \in Clients, TxOK(txs[y]) PROVE txs[y].pair # <<>>
  <2>1. txs[y].pair \in Users \X Users
    BY <1>2, PairsFacts DEF TxOK
  <2>2. QED
    BY <2>1
<1>3. lifted \in SUBSET Pairs
  BY DEF FollowsInv, FollowTables
<1> HIDE DEF lifted
<1>4. QED
  BY <1>1, <1>2, <1>3, LiftGoes

LEMMA FollowsBegin == ASSUME FollowsAssumption, Init PROVE FollowsInv
<1>1. FollowTables
  BY DEF Init, FollowTables
<1>2. TxsOK /\ PairsApart
  BY DEF Init, TxsOK, PairsApart, Holds, NoTx
<1>3. CountersAgree
  BY FS_EmptySet DEF Init, CountersAgree
<1>4. QED
  BY <1>1, <1>2, <1>3 DEF FollowsInv

LEMMA FollowsStand ==
  ASSUME FollowsInv, UNCHANGED <<counters, follows, blocks, txs>> PROVE FollowsInv'
BY DEF FollowsInv, FollowTables, TxsOK, TxOK, Barred, PairsApart, Holds, CountersAgree, counters

LEMMA FollowsNext ==
  ASSUME FollowsAssumption, FollowsInv, Next PROVE FollowsInv'
<1>1. ASSUME NEW x \in Clients, Step(x) PROVE FollowsInv'
  BY <1>1, CheckBlockGoes, FollowChanges, InsertBlockGoes, SeverGoes, UpdateCounterGoes,
     CommitGoes DEF Step
<1>2. ASSUME NEW x \in Clients, DeadlockAborts(x) \/ ConnectionLost(x) PROVE FollowsInv'
  BY <1>2, TxEnds DEF DeadlockAborts, ConnectionLost, Rollback, counters
<1>3. ASSUME NEW x \in Clients, Ask(x) PROVE FollowsInv'
  BY <1>1, <1>2, <1>3, FindGoes, UnblockGoes DEF Ask
<1>4. ASSUME NEW u \in Users, SetActive(u) PROVE FollowsInv'
  BY <1>4, FollowsStand DEF SetActive
<1>5. QED
  BY <1>3, <1>4, AnonymizeGoes DEF Next

-----------------------------------------------------------------------------
(* Comments, step by step.                                                 *)

LEMMA RowFacts ==
  ASSUME CommentTables
  PROVE  /\ comments \in [Ids -> Row] /\ likes \subseteq Ids \X Users
         /\ mentions \subseteq Ids \X Users /\ outbox \subseteq Notice
         /\ writers \in [Writers -> Writer]
BY DEF CommentTables, ConversationTypeOK

(* What may happen at any time: requests about follows, blocks and accounts, *)
(* and the deletion of comments nobody has locked.                         *)
LEMMA Standing ==
  ASSUME CommentsInv, ops' \in Nat, ops' >= ops, active' \subseteq Users,
         UNCHANGED <<likes, mentions, outbox>>,
         writers' \in [Writers -> Writer],
         \A x \in Writers :
           /\ writers'[x].pc = writers[x].pc /\ writers'[x].user = writers[x].user
           /\ writers'[x].comment = writers[x].comment /\ writers'[x].known = writers[x].known
           /\ writers'[x].count = writers[x].count /\ writers'[x].request = writers[x].request,
         comments' \in [Ids -> Row],
         \A m \in Ids :
           /\ comments'[m].author = comments[m].author /\ comments'[m].parent = comments[m].parent
           /\ comments'[m].likesCount = comments[m].likesCount
           /\ comments'[m].deleted # comments[m].deleted => ~Locked(m)
  PROVE  CommentsInv'
<1>1. /\ likes' = likes /\ mentions' = mentions /\ outbox' = outbox
      /\ likes \subseteq Ids \X Users /\ mentions \subseteq Ids \X Users /\ outbox \subseteq Notice
  BY RowFacts DEF CommentsInv
<1>2. \A m \in Ids : Exists(m)' <=> Exists(m)
  BY DEF Exists
<1>3. CommentTables'
  <2>1. ConversationTypeOK'
    BY <1>1 DEF ConversationTypeOK
  <2>2. \A m \in Ids : ~Exists(m)' => comments'[m].parent = None
    BY <1>2 DEF CommentsInv, CommentTables
  <2>3. \A p \in mentions' : Exists(p[1])'
    BY <1>1, <1>2 DEF CommentsInv, CommentTables
  <2>4. \A n \in outbox' : Exists(n.comment)' /\ n.request <= ops'
    <3> TAKE n \in outbox'
    <3>1. n \in outbox /\ n \in Notice /\ ops \in Nat
      BY <1>1 DEF CommentsInv, CommentTables
    <3>2. n.comment \in Ids /\ n.request \in Nat
      BY <3>1 DEF Notice
    <3>3. Exists(n.comment) /\ n.request <= ops
      BY <3>1 DEF CommentsInv, CommentTables
    <3>4. QED
      BY <1>2, <3>1, <3>2, <3>3
  <2>5. QED
    BY <2>1, <2>2, <2>3, <2>4 DEF CommentTables
<1>4. ASSUME NEW x \in Writers, writers[x].pc # "idle" PROVE WriterOK(writers[x])'
  <2>1. /\ WriterOK(writers[x]) /\ writers[x] \in Writer /\ ops \in Nat
        /\ writers[x].comment \in Ids \cup {None}
    BY <1>4, RowFacts DEF CommentsInv, WritersOK, CommentTables, Writer
  <2>2. writers[x].pc = "insert" /\ writers[x].comment # None => Live(writers[x].comment)'
    <3>1. SUFFICES ASSUME writers[x].pc = "insert", writers[x].comment # None
                   PROVE  Live(writers[x].comment)'
      OBVIOUS
    <3>2. Locked(writers[x].comment) /\ Live(writers[x].comment) /\ writers[x].comment \in Ids
      BY <2>1, <3>1 DEF WriterOK, Locked
    <3>3. QED
      BY <1>2, <3>2 DEF Live, Exists
  <2>3. QED
    BY <1>1, <1>2, <2>1, <2>2 DEF WriterOK
<1>5. WritersOK'
  BY <1>4 DEF CommentsInv, WritersOK
<1>6. LikesAgree'
  <2>1. likes' = likes /\ \A m \in Ids : comments'[m].likesCount = comments[m].likesCount
    BY <1>1
  <2>2. LikesAgree
    BY DEF CommentsInv
  <2>3. QED
    BY <2>1, <2>2 DEF LikesAgree
<1>7. QED
  BY <1>3, <1>5, <1>6 DEF CommentsInv

LEMMA BarredOnly ==
  ASSUME CommentTables, StillBarred
  PROVE  /\ writers' \in [Writers -> Writer]
         /\ \A x \in Writers :
              /\ writers'[x].pc = writers[x].pc /\ writers'[x].user = writers[x].user
              /\ writers'[x].comment = writers[x].comment /\ writers'[x].known = writers[x].known
              /\ writers'[x].count = writers[x].count /\ writers'[x].request = writers[x].request
<1>1. \A x \in Writers :
        LET barred == {v \in writers[x].barred : Between(<<writers[x].user, v>>) \cap blocks' # {}}
        IN /\ writers'[x] = [writers[x] EXCEPT !.barred = barred]
           /\ barred \in SUBSET Users
  BY RowFacts DEF StillBarred, Writer
<1>2. \A x \in Writers : writers[x] \in Writer
  BY RowFacts
<1>3. DOMAIN writers' = Writers /\ writers' = [x \in Writers |-> writers'[x]]
  BY DEF StillBarred
<1>4. ASSUME NEW x \in Writers
      PROVE  /\ writers'[x] \in Writer
             /\ writers'[x].pc = writers[x].pc /\ writers'[x].user = writers[x].user
             /\ writers'[x].comment = writers[x].comment /\ writers'[x].known = writers[x].known
             /\ writers'[x].count = writers[x].count /\ writers'[x].request = writers[x].request
  <2> DEFINE barred == {v \in writers[x].barred : Between(<<writers[x].user, v>>) \cap blocks' # {}}
  <2>1. writers'[x] = [writers[x] EXCEPT !.barred = barred] /\ barred \in SUBSET Users
    BY <1>1
  <2>2. writers[x] \in Writer
    BY <1>2
  <2> HIDE DEF barred
  <2>3. QED
    BY <2>1, <2>2 DEF Writer
<1>5. QED
  BY <1>3, <1>4

(* The tables stay, and one writer becomes w, which is idle, or knows and  *)
(* locks what it should.                                                   *)
LEMMA WriterGoes ==
  ASSUME CommentsInv, NEW x \in Writers, NEW w \in Writer, Become(x, w),
         UNCHANGED <<active, comments, likes, mentions, outbox>>, ops' \in Nat, ops' >= ops,
         w.pc = "idle" \/ WriterOK(writers[x])',
         w.pc # "idle" => \A y \in Writers \ {x} : writers[y].pc # "idle" =>
           /\ writers[y].request # w.request
           /\ writers[y].pc \in Locking /\ w.pc \in Locking
                => writers[y].comment # w.comment \/ w.comment = None
  PROVE  CommentsInv'
<1>1. /\ writers' \in [Writers -> Writer] /\ writers'[x] = w
      /\ \A y \in Writers \ {x} : writers'[y] = writers[y]
  BY RowFacts DEF CommentsInv, Become
<1>2. /\ active' = active /\ comments' = comments /\ likes' = likes /\ mentions' = mentions
      /\ outbox' = outbox
  OBVIOUS
<1>3. CommentTables'
  <2>1. ConversationTypeOK'
    BY <1>1, <1>2, RowFacts DEF CommentsInv, ConversationTypeOK
  <2>2. \A n \in outbox' : n.request <= ops'
    <3> TAKE n \in outbox'
    <3>1. n \in Notice /\ n.request <= ops /\ ops \in Nat
      BY <1>2, RowFacts DEF CommentsInv, CommentTables
    <3>2. n.request \in Nat
      BY <3>1 DEF Notice
    <3>3. QED
      BY <3>1, <3>2
  <2>3. QED
    BY <1>2, <2>1, <2>2 DEF CommentsInv, CommentTables, Exists
<1>4. ASSUME NEW y \in Writers, writers'[y].pc # "idle" PROVE WriterOK(writers[y])'
  <2>1. CASE y = x
    BY <1>1, <1>4, <2>1
  <2>2. CASE y # x
    <3>1. WriterOK(writers[y]) /\ writers'[y] = writers[y] /\ ops \in Nat
      BY <1>1, <1>4, <2>2 DEF CommentsInv, WritersOK, CommentTables
    <3>2. QED
      BY <1>2, <3>1 DEF WriterOK, Exists, Live
  <2>3. QED
    BY <2>1, <2>2
<1>5. WritersOK'
  <2>1. ASSUME NEW y \in Writers, NEW z \in Writers, y # z, writers'[y].pc # "idle",
               writers'[z].pc # "idle"
        PROVE  /\ writers'[y].request # writers'[z].request
               /\ writers'[y].pc \in Locking /\ writers'[z].pc \in Locking
                    => writers'[y].comment # writers'[z].comment \/ writers'[y].comment = None
    <3>1. CASE y = x
      BY <1>1, <2>1, <3>1
    <3>2. CASE z = x
      BY <1>1, <2>1, <3>2
    <3>3. CASE y # x /\ z # x
      BY <1>1, <2>1, <3>3 DEF CommentsInv, WritersOK
    <3>4. QED
      BY <3>1, <3>2, <3>3
  <2>2. QED
    BY <1>4, <2>1 DEF WritersOK
<1>6. LikesAgree'
  BY <1>2 DEF CommentsInv, LikesAgree
<1>7. QED
  BY <1>3, <1>5, <1>6 DEF CommentsInv

LEMMA Idle == NoWriter \in Writer /\ NoWriter.pc = "idle"
BY DEF NoWriter, Writer

LEMMA WriterEnds ==
  ASSUME CommentsInv, NEW x \in Writers, Reject(x), UNCHANGED vars PROVE CommentsInv'
BY WriterGoes, Idle DEF Reject, Finish, vars, accounts, CommentsInv, CommentTables

LEMMA NobodyWrites == ASSUME CommentsAssumption PROVE None \notin Users /\ None \notin Ids
BY DEF CommentsAssumption

LEMMA Writing ==
  ASSUME CommentsInv, NEW x \in Writers, writers[x].pc # "idle"
  PROVE  WriterOK(writers[x]) /\ writers[x] \in Writer
BY RowFacts DEF CommentsInv, WritersOK

(* A request arrives, with a number of its own.                            *)
LEMMA ArriveGoes ==
  ASSUME CommentsAssumption, CommentsInv, NEW x \in Writers, NEW w, Arrive(x, w),
         w \in Writer, w.pc \in {"create", "edit", "like"}, w.user \in Users,
         w.pc # "create" => w.comment \in Ids,
         w.comment \in Ids => Exists(w.comment)
  PROVE  CommentsInv'
<1> DEFINE v == [w EXCEPT !.request = ops + 1, !.barred = BarredFrom(w.user)]
<1>1. /\ ops' = ops + 1 /\ ops \in Nat /\ Become(x, v)
      /\ UNCHANGED <<active, comments, likes, mentions, outbox>>
  BY DEF Arrive, accounts, CommentsInv, CommentTables
<1>2. BarredFrom(w.user) \in SUBSET Users /\ ops + 1 \in Nat
  BY <1>1 DEF BarredFrom
<1>3. /\ v \in Writer /\ v.pc = w.pc /\ v.user = w.user /\ v.comment = w.comment
      /\ v.request = ops + 1
  BY <1>2 DEF Writer
<1> HIDE DEF v
<1>4. writers'[x] = v
  BY <1>1, RowFacts DEF Become, CommentsInv
<1>5. \A n \in outbox' : n.request # v.request
  <2> TAKE n \in outbox'
  <2>1. n \in Notice /\ n.request <= ops
    BY <1>1, RowFacts DEF CommentsInv, CommentTables
  <2>2. n.request \in Nat
    BY <2>1 DEF Notice
  <2>3. QED
    BY <1>1, <1>3, <2>1, <2>2
<1>6. WriterOK(writers[x])'
  <2>1. comments' = comments /\ writers'[x] = v
    BY <1>1, <1>4
  <2>2. v.comment \in Ids => comments'[v.comment].author # None
    BY <1>3, <2>1 DEF Exists
  <2>3. v.request \in 1..ops'
    BY <1>1, <1>3
  <2>4. QED
    BY <1>3, <1>5, <2>1, <2>2, <2>3 DEF WriterOK, Exists
<1>7. ASSUME NEW y \in Writers \ {x}, writers[y].pc # "idle"
      PROVE  writers[y].request # v.request /\ v.pc \notin Locking
  <2>1. writers[y].request \in 1..ops
    BY <1>7, Writing DEF WriterOK
  <2>2. QED
    BY <1>1, <1>3, <2>1 DEF Locking
<1>8. ops' \in Nat /\ ops' >= ops
  BY <1>1
<1>9. QED
  BY <1>1, <1>3, <1>6, <1>7, <1>8, WriterGoes

LEMMA ReceiveGoes ==
  ASSUME CommentsAssumption, CommentsInv, NEW x \in Writers, NEW u \in Users,
         ReceiveComment(x, u) \/ ReceiveEdit(x, u) \/ ReceiveLike(x, u)
  PROVE  CommentsInv'
<1>1. CASE ReceiveComment(x, u)
  <2>1. PICK parent \in {m \in Ids : Exists(m)} \cup {None}, body \in Bodies :
          Arrive(x, [NoWriter EXCEPT !.pc = "create", !.user = u, !.comment = parent,
                                     !.body = body])
    BY <1>1 DEF ReceiveComment
  <2>2. PICK w : w = [NoWriter EXCEPT !.pc = "create", !.user = u, !.comment = parent,
                                      !.body = body]
    OBVIOUS
  <2>3. parent \in Ids \cup {None} /\ body \in SUBSET Users /\ (parent \in Ids => Exists(parent))
    BY NobodyWrites DEF CommentsAssumption
  <2>4. w \in Writer /\ w.pc = "create" /\ w.user = u /\ w.comment = parent
    BY <2>2, <2>3 DEF NoWriter, Writer
  <2>5. Arrive(x, w) /\ (w.comment \in Ids => Exists(w.comment))
    BY <2>1, <2>2, <2>3, <2>4
  <2>6. QED
    BY <2>4, <2>5, ArriveGoes
<1>2. CASE ReceiveEdit(x, u)
  <2>1. PICK m \in Ids, body \in Bodies :
          /\ Exists(m)
          /\ Arrive(x, [NoWriter EXCEPT !.pc = "edit", !.user = u, !.comment = m, !.body = body])
    BY <1>2 DEF ReceiveEdit
  <2>2. PICK w : w = [NoWriter EXCEPT !.pc = "edit", !.user = u, !.comment = m, !.body = body]
    OBVIOUS
  <2>3. body \in SUBSET Users
    BY DEF CommentsAssumption
  <2>4. w \in Writer /\ w.pc = "edit" /\ w.user = u /\ w.comment = m
    BY <2>2, <2>3 DEF NoWriter, Writer
  <2>5. Arrive(x, w) /\ (w.comment \in Ids => Exists(w.comment))
    BY <2>1, <2>2, <2>4
  <2>6. QED
    BY <2>4, <2>5, ArriveGoes
<1>3. CASE ReceiveLike(x, u)
  <2>1. PICK m \in Ids, liked \in BOOLEAN :
          /\ Live(m)
          /\ Arrive(x, [NoWriter EXCEPT !.pc = "like", !.user = u, !.comment = m, !.liked = liked])
    BY <1>3 DEF ReceiveLike
  <2>2. PICK w : w = [NoWriter EXCEPT !.pc = "like", !.user = u, !.comment = m, !.liked = liked]
    OBVIOUS
  <2>3. w \in Writer /\ w.pc = "like" /\ w.user = u /\ w.comment = m
    BY <2>2 DEF NoWriter, Writer
  <2>4. Arrive(x, w) /\ (w.comment \in Ids => Exists(w.comment))
    BY <2>1, <2>2, <2>3 DEF Live
  <2>5. QED
    BY <2>3, <2>4, ArriveGoes
<1>4. QED
  BY <1>1, <1>2, <1>3

(* The row of the comment is locked.                                       *)
LEMMA LockGoes ==
  ASSUME CommentsAssumption, CommentsInv, NEW x \in Writers, writers[x].pc # "idle",
         NEW w \in Writer, Become(x, w), UNCHANGED <<comments, likes, mentions, outbox>>,
         UNCHANGED vars, w.pc \in Locking, w.user = writers[x].user,
         w.comment = writers[x].comment, w.request = writers[x].request,
         w.pc # "insert" => w.comment \in Ids,
         w.comment # None => ~Locked(w.comment) /\ Live(w.comment),
         w.pc = "replace" => w.known = {v \in Users : <<w.comment, v>> \in mentions},
         w.pc = "store" => w.count = comments[w.comment].likesCount
  PROVE  CommentsInv'
<1>1. WriterOK(writers[x])
  BY Writing
<1>2. ops' = ops /\ active' = active /\ ops \in Nat
  BY DEF vars, accounts, CommentsInv, CommentTables
<1>3. writers'[x] = w
  BY RowFacts DEF Become, CommentsInv
<1>4. WriterOK(writers[x])'
  BY <1>1, <1>2, <1>3 DEF WriterOK, Exists, Live, Locking
<1>5. ASSUME NEW y \in Writers \ {x}, writers[y].pc # "idle"
      PROVE  /\ writers[y].request # w.request
             /\ writers[y].pc \in Locking => writers[y].comment # w.comment \/ w.comment = None
  <2>1. writers[y].request # w.request
    BY <1>5 DEF CommentsInv, WritersOK
  <2>2. w.comment # None /\ writers[y].pc \in Locking => writers[y].comment # w.comment
    BY DEF Locked, Locking
  <2>3. QED
    BY <2>1, <2>2
<1>6. QED
  BY <1>2, <1>4, <1>5, WriterGoes

LEMMA LockStepGoes ==
  ASSUME CommentsAssumption, CommentsInv, NEW x \in Writers,
         LockParent(x) \/ EditComment(x) \/ LockComment(x)
  PROVE  CommentsInv'
<1> DEFINE t == writers[x]
<1>1. t \in Writer /\ WriterOK(t) /\ t.pc # "idle" /\ UNCHANGED vars
  BY Writing DEF LockParent, EditComment, LockComment
<1>2. CASE Reject(x)
  BY <1>1, <1>2, WriterEnds
<1>3. CASE LockParent(x) /\ ~Reject(x)
  <2>1. PICK w : w = [t EXCEPT !.pc = "insert"]
    OBVIOUS
  <2>2. /\ Become(x, w) /\ UNCHANGED <<comments, likes, mentions, outbox>>
        /\ t.comment # None => ~Locked(t.comment) /\ Live(t.comment)
    BY <1>3, <2>1 DEF LockParent
  <2>3. w \in Writer /\ w.pc = "insert" /\ w.user = t.user /\ w.comment = t.comment
        /\ w.request = t.request
    BY <1>1, <2>1 DEF Writer
  <2>4. QED
    BY <1>1, <2>2, <2>3, LockGoes DEF Locking
<1>4. CASE EditComment(x) /\ ~Reject(x)
  <2> DEFINE known == {v \in Users : <<t.comment, v>> \in mentions}
  <2>1. PICK w : w = [t EXCEPT !.pc = "replace", !.known = known]
    OBVIOUS
  <2>2. /\ Become(x, w) /\ UNCHANGED <<comments, likes, mentions, outbox>>
        /\ ~Locked(t.comment) /\ Live(t.comment) /\ t.comment \in Ids
    BY <1>1, <1>4, <2>1 DEF EditComment, WriterOK
  <2>3. known \in SUBSET Users
    OBVIOUS
  <2> HIDE DEF known
  <2>4. w \in Writer /\ w.pc = "replace" /\ w.user = t.user /\ w.comment = t.comment
        /\ w.request = t.request /\ w.known = known
    BY <1>1, <2>1, <2>3 DEF Writer
  <2>5. QED
    BY <1>1, <2>2, <2>4, LockGoes DEF Locking, known
<1>5. CASE LockComment(x) /\ ~Reject(x)
  <2> DEFINE count == comments[t.comment].likesCount
  <2>1. PICK w : w = [t EXCEPT !.pc = "store", !.count = count]
    OBVIOUS
  <2>2. /\ Become(x, w) /\ UNCHANGED <<comments, likes, mentions, outbox>>
        /\ ~Locked(t.comment) /\ Live(t.comment) /\ t.comment \in Ids
    BY <1>1, <1>5, <2>1 DEF LockComment, WriterOK
  <2>3. count \in Nat
    BY <2>2, RowFacts DEF CommentsInv, Row
  <2> HIDE DEF count
  <2>4. w \in Writer /\ w.pc = "store" /\ w.user = t.user /\ w.comment = t.comment
        /\ w.request = t.request /\ w.count = count
    BY <1>1, <2>1, <2>3 DEF Writer
  <2>5. QED
    BY <1>1, <2>2, <2>4, LockGoes DEF Locking, count
<1>6. QED
  BY <1>2, <1>3, <1>4, <1>5

(* A writer commits: what it does to comments other than its own is to add *)
(* one, and the rows it leaves in the outbox bear its number.              *)
LEMMA WriterCommits ==
  ASSUME CommentsAssumption, CommentsInv, NEW x \in Writers, writers[x].pc \in Locking,
         Finish(x), UNCHANGED vars,
         comments' \in [Ids -> Row], likes' \subseteq Ids \X Users,
         mentions' \subseteq Ids \X Users, outbox' \subseteq Notice,
         \A m \in Ids :
           /\ Exists(m) => Exists(m)' /\ comments'[m].deleted = comments[m].deleted
           /\ ~Exists(m)' => comments'[m].parent = None
           /\ Exists(m) /\ m # writers[x].comment =>
                /\ comments'[m].likesCount = comments[m].likesCount
                /\ \A v \in Users : <<m, v>> \in mentions' <=> <<m, v>> \in mentions,
         \A p \in mentions' : Exists(p[1])',
         \A n \in outbox' \ outbox : Exists(n.comment)' /\ n.request = writers[x].request,
         LikesAgree'
  PROVE  CommentsInv'
<1>1. /\ writers' \in [Writers -> Writer] /\ writers'[x] = NoWriter
      /\ \A y \in Writers \ {x} : writers'[y] = writers[y]
  BY RowFacts, Idle DEF CommentsInv, Finish, Become
<1>2. ops' = ops /\ active' = active /\ ops \in Nat /\ active \subseteq Users
  BY DEF vars, accounts, CommentsInv, CommentTables
<1>3. WriterOK(writers[x]) /\ writers[x] \in Writer
  BY Writing DEF Locking
<1>4. CommentTables'
  <2>1. \A n \in outbox : Exists(n.comment)' /\ n.request <= ops
    BY RowFacts DEF CommentsInv, CommentTables, Notice
  <2>2. \A n \in outbox' : Exists(n.comment)' /\ n.request <= ops'
    BY <1>2, <1>3, <2>1 DEF WriterOK
  <2>3. ConversationTypeOK'
    BY <1>1 DEF ConversationTypeOK
  <2>4. QED
    BY <1>2, <2>2, <2>3 DEF CommentTables
<1>5. ASSUME NEW y \in Writers, writers'[y].pc # "idle"
      PROVE  /\ y # x /\ writers'[y] = writers[y] /\ writers[y].pc # "idle"
             /\ WriterOK(writers[y]) /\ writers[y] \in Writer
             /\ writers[y].request # writers[x].request
  <2>1. y # x /\ writers'[y] = writers[y]
    BY <1>1, <1>5, Idle
  <2>2. QED
    BY <1>5, <2>1, Writing DEF CommentsInv, WritersOK, Locking
<1>6. ASSUME NEW y \in Writers, writers'[y].pc # "idle" PROVE WriterOK(writers[y])'
  <2> DEFINE m == writers[y].comment
  <2>1. /\ writers'[y] = writers[y] /\ WriterOK(writers[y]) /\ writers[y] \in Writer
        /\ writers[y].request # writers[x].request
    BY <1>5, <1>6
  <2>2. m \in Ids \cup {None}
    BY <2>1 DEF Writer
  <2>3. m \in Ids => Exists(m)'
    BY <2>1 DEF WriterOK
  <2>4. writers[y].pc = "insert" /\ m # None => Live(m)'
    BY <2>1, <2>2, <2>3 DEF WriterOK, Live
  <2>5. ASSUME writers[y].pc \in {"replace", "store"}
        PROVE  /\ m \in Ids /\ comments'[m].likesCount = comments[m].likesCount
               /\ \A v \in Users : <<m, v>> \in mentions' <=> <<m, v>> \in mentions
    <3>1. m \in Ids /\ Exists(m)
      BY <2>1, <2>5 DEF WriterOK
    <3>2. m # writers[x].comment
      BY <1>5, <1>6, <2>5, <3>1, NobodyWrites DEF CommentsInv, WritersOK, Locking
    <3>3. QED
      BY <3>1, <3>2
  <2>6. writers[y].pc = "replace" => writers[y].known = {v \in Users : <<m, v>> \in mentions'}
    BY <2>1, <2>5 DEF WriterOK
  <2>7. writers[y].pc = "store" => writers[y].count = comments'[m].likesCount
    BY <2>1, <2>5 DEF WriterOK
  <2>8. \A n \in outbox' : n.request # writers[y].request
    BY <2>1 DEF WriterOK
  <2> HIDE DEF m
  <2>9. QED
    BY <1>2, <2>1, <2>3, <2>4, <2>6, <2>7, <2>8 DEF WriterOK, m
<1>7. WritersOK'
  BY <1>5, <1>6 DEF CommentsInv, WritersOK
<1>8. QED
  BY <1>4, <1>7 DEF CommentsInv

(* The rows of the outbox that a writer leaves.                            *)
LEMMA Told ==
  ASSUME NEW type \in {"replied", "liked", "mentioned"}, NEW m \in Ids, NEW w \in Writer,
         w.user \in Users, NEW recipients \in SUBSET Users
  PROVE  /\ Tell(type, m, w, recipients) \subseteq Notice
         /\ \A n \in Tell(type, m, w, recipients) :
              /\ n.type = type /\ n.comment = m /\ n.request = w.request
              /\ n.recipient \in recipients
         /\ \A v \in recipients :
              \E n \in Tell(type, m, w, recipients) :
                n.type = type /\ n.comment = m /\ n.recipient = v /\ n.request = w.request
<1> DEFINE notice(v) == [type |-> type, comment |-> m, actor |-> w.user, recipient |-> v,
                         request |-> w.request, late |-> v \in w.barred]
<1>1. Tell(type, m, w, recipients) = {notice(v) : v \in recipients}
  BY DEF Tell
<1>2. w.request \in Nat
  BY DEF Writer
<1>3. ASSUME NEW v \in recipients
      PROVE  /\ notice(v) \in Notice /\ notice(v).type = type /\ notice(v).comment = m
             /\ notice(v).request = w.request /\ notice(v).recipient = v
  BY <1>2 DEF Notice
<1> HIDE DEF notice
<1>4. QED
  BY <1>1, <1>3

LEMMA ReplacedFacts ==
  ASSUME CommentTables, NEW m \in Ids, NEW named \in SUBSET Users
  PROVE  /\ Replaced(m, named) \subseteq Ids \X Users
         /\ \A p \in Replaced(m, named) : p[1] = m \/ p \in mentions
         /\ \A v \in Users : <<m, v>> \in Replaced(m, named) <=> v \in named
         /\ \A i \in Ids \ {m} : \A v \in Users :
              <<i, v>> \in Replaced(m, named) <=> <<i, v>> \in mentions
BY RowFacts DEF Replaced

LEMMA MentionableFacts ==
  ASSUME NEW u, NEW body \in SUBSET Users
  PROVE  Mentionable(u, body) \in SUBSET Users /\ u \notin Mentionable(u, body)
BY DEF Mentionable

-----------------------------------------------------------------------------
(* The three writing steps, and what they announce.                        *)

Announced ==
  \A m \in Ids, v \in Users :
    /\ <<m, v>> \in mentions' \ mentions =>
         \E n \in outbox' \ outbox :
           n.type \in {"mentioned", "replied"} /\ n.comment = m /\ n.recipient = v
    /\ (\E n \in outbox' \ outbox : n.type \in {"mentioned"} /\ n.comment = m /\ n.recipient = v)
         => <<m, v>> \in mentions' \ mentions

RepliesLive ==
  \A m \in Ids : ~Exists(m) /\ comments'[m].parent # None => Live(comments'[m].parent)

LEMMA InsertGoes ==
  ASSUME CommentsAssumption, CommentsInv, NEW x \in Writers, InsertComment(x)
  PROVE  CommentsInv' /\ Announced /\ RepliesLive
<1> DEFINE w == writers[x]
           u == w.user
           parent == w.comment
           told == IF parent = None THEN {} ELSE {comments[parent].author}
           named == Mentionable(u, w.body)
           first(m) == Tell("mentioned", m, w, named \ told)
           second(m) == Tell("replied", m, w, told \ {u})
<1>1. /\ w.pc = "insert" /\ WriterOK(w) /\ w \in Writer /\ u \in Users
      /\ parent \in Ids \cup {None} /\ w.body \in SUBSET Users
  BY Writing DEF InsertComment, WriterOK, Writer
<1>2. PICK m \in Ids :
        /\ ~Exists(m)
        /\ comments' = [comments EXCEPT ![m].author = u, ![m].parent = parent]
        /\ mentions' = Replaced(m, named)
        /\ outbox' = outbox \cup first(m) \cup second(m)
  BY DEF InsertComment
<1>3. Finish(x) /\ UNCHANGED vars /\ likes' = likes
  BY DEF InsertComment
<1>4. /\ comments \in [Ids -> Row] /\ CommentTables
      /\ \A i \in Ids : ~Exists(i) => comments[i].parent = None
      /\ outbox \subseteq Notice /\ likes \subseteq Ids \X Users
  BY RowFacts DEF CommentsInv, CommentTables
<1>5. /\ comments' \in [Ids -> Row] /\ comments'[m].author = u /\ comments'[m].parent = parent
      /\ comments'[m].likesCount = comments[m].likesCount
      /\ \A i \in Ids \ {m} : comments'[i] = comments[i]
  <2>1. comments' = [comments EXCEPT ![m] = [comments[m] EXCEPT !.author = u, !.parent = parent]]
    BY <1>2, <1>4
  <2>2. PICK r : r = [comments[m] EXCEPT !.author = u, !.parent = parent]
    OBVIOUS
  <2>3. comments[m] \in Row
    BY <1>4
  <2>4. r \in Row /\ r.author = u /\ r.parent = parent /\ r.likesCount = comments[m].likesCount
    BY <1>1, <2>2, <2>3 DEF Row
  <2>5. comments' = [comments EXCEPT ![m] = r]
    BY <2>1, <2>2
  <2>6. QED
    BY <1>4, <2>4, <2>5
<1>6. parent \in Ids => Live(parent) /\ parent # m
  BY <1>1, <1>2, NobodyWrites DEF WriterOK, Live
<1>7. told \in SUBSET Users /\ named \in SUBSET Users /\ u \notin named
  BY <1>1, <1>4, <1>6, MentionableFacts DEF Row, Live, Exists
<1> HIDE DEF told, named
<1>8. /\ first(m) \subseteq Notice /\ second(m) \subseteq Notice
      /\ \A n \in first(m) : n.type = "mentioned" /\ n.comment = m /\ n.request = w.request
                             /\ n.recipient \in named \ told
      /\ \A n \in second(m) : n.type = "replied" /\ n.comment = m /\ n.request = w.request
      /\ \A v \in named \ told : \E n \in first(m) : n.type = "mentioned" /\ n.comment = m
                                   /\ n.recipient = v /\ n.request = w.request
      /\ \A v \in told \ {u} : \E n \in second(m) : n.type = "replied" /\ n.comment = m
                                   /\ n.recipient = v /\ n.request = w.request
  BY <1>1, <1>7, Told
<1> HIDE DEF first, second
<1>9. \A n \in first(m) \cup second(m) : n \in outbox' /\ n \notin outbox
  BY <1>1, <1>2, <1>8 DEF WriterOK
<1>10. /\ mentions' \subseteq Ids \X Users
       /\ \A p \in mentions' : p[1] = m \/ p \in mentions
       /\ \A v \in Users : <<m, v>> \in mentions' <=> v \in named
       /\ \A i \in Ids \ {m} : \A v \in Users : <<i, v>> \in mentions' <=> <<i, v>> \in mentions
  BY <1>2, <1>4, <1>7, ReplacedFacts
<1>11. \A v \in Users : <<m, v>> \notin mentions
  BY <1>2 DEF CommentsInv, CommentTables
<1>12. CommentsInv'
  <2>1. Exists(m)' /\ \A i \in Ids \ {m} : Exists(i)' <=> Exists(i)
    BY <1>1, <1>5, NobodyWrites DEF Exists
  <2>2. /\ \A p \in mentions' : Exists(p[1])'
        /\ \A n \in outbox' \ outbox : Exists(n.comment)' /\ n.request = w.request
    BY <1>2, <1>8, <1>10, <2>1 DEF CommentsInv, CommentTables
  <2>3. \A i \in Ids :
           /\ Exists(i) => Exists(i)' /\ comments'[i].deleted = comments[i].deleted
           /\ ~Exists(i)' => comments'[i].parent = None
           /\ Exists(i) /\ i # w.comment =>
                /\ comments'[i].likesCount = comments[i].likesCount
                /\ \A v \in Users : <<i, v>> \in mentions' <=> <<i, v>> \in mentions
    BY <1>2, <1>4, <1>5, <1>10, <2>1
  <2>4. LikesAgree'
    BY <1>3, <1>5 DEF CommentsInv, LikesAgree
  <2>5. outbox' \subseteq Notice /\ likes' \subseteq Ids \X Users
    BY <1>2, <1>3, <1>4, <1>8
  <2>6. QED
    BY <1>1, <1>3, <1>5, <1>10, <2>2, <2>3, <2>4, <2>5, WriterCommits DEF Locking
<1>13. Announced
  <2> SUFFICES ASSUME NEW i \in Ids, NEW v \in Users
               PROVE  /\ <<i, v>> \in mentions' \ mentions =>
                           \E n \in outbox' \ outbox :
                             n.type \in {"mentioned", "replied"} /\ n.comment = i /\ n.recipient = v
                      /\ (\E n \in outbox' \ outbox :
                            n.type \in {"mentioned"} /\ n.comment = i /\ n.recipient = v)
                           => <<i, v>> \in mentions' \ mentions
    BY DEF Announced
  <2>1. ASSUME <<i, v>> \in mentions' \ mentions
        PROVE  \E n \in outbox' \ outbox :
                 n.type \in {"mentioned", "replied"} /\ n.comment = i /\ n.recipient = v
    <3>1. i = m /\ v \in named /\ v # u
      BY <1>7, <1>10, <2>1
    <3>2. PICK n \in first(m) \cup second(m) :
            n.type \in {"mentioned", "replied"} /\ n.comment = m /\ n.recipient = v
      BY <1>8, <3>1
    <3>3. QED
      BY <1>9, <3>1, <3>2
  <2>2. ASSUME NEW n \in outbox' \ outbox,
               n.type \in {"mentioned"} /\ n.comment = i /\ n.recipient = v
        PROVE  <<i, v>> \in mentions' \ mentions
    <3>1. n \in first(m)
      BY <1>2, <1>8, <2>2
    <3>2. i = m /\ v \in named
      BY <1>8, <2>2, <3>1
    <3>3. QED
      BY <1>10, <1>11, <3>2
  <2>3. QED
    BY <2>1, <2>2
<1>14. RepliesLive
  <2> SUFFICES ASSUME NEW i \in Ids, ~Exists(i), comments'[i].parent # None
               PROVE  Live(comments'[i].parent)
    BY DEF RepliesLive
  <2>1. i = m
    BY <1>4, <1>5
  <2>2. QED
    BY <1>1, <1>5, <1>6, <2>1
<1>15. QED
  BY <1>12, <1>13, <1>14

LEMMA ReplaceGoes ==
  ASSUME CommentsAssumption, CommentsInv, NEW x \in Writers, ReplaceMentions(x)
  PROVE  CommentsInv' /\ Announced /\ RepliesLive
<1> DEFINE w == writers[x]
           m == w.comment
           named == Mentionable(w.user, w.body)
           rows == Tell("mentioned", m, w, named \ w.known)
<1>1. /\ w.pc = "replace" /\ WriterOK(w) /\ w \in Writer /\ w.user \in Users /\ m \in Ids
      /\ Exists(m) /\ w.body \in SUBSET Users /\ w.known = {v \in Users : <<m, v>> \in mentions}
  BY Writing DEF ReplaceMentions, WriterOK, Writer
<1>2. /\ mentions' = Replaced(m, named) /\ outbox' = outbox \cup rows
      /\ Finish(x) /\ UNCHANGED vars /\ comments' = comments /\ likes' = likes
  BY DEF ReplaceMentions
<1>3. /\ comments \in [Ids -> Row] /\ CommentTables
      /\ \A i \in Ids : ~Exists(i) => comments[i].parent = None
      /\ outbox \subseteq Notice /\ likes \subseteq Ids \X Users
  BY RowFacts DEF CommentsInv, CommentTables
<1>4. named \in SUBSET Users
  BY <1>1, MentionableFacts
<1> HIDE DEF named
<1>5. /\ rows \subseteq Notice
      /\ \A n \in rows : n.type = "mentioned" /\ n.comment = m /\ n.request = w.request
                         /\ n.recipient \in named \ w.known
      /\ \A v \in named \ w.known : \E n \in rows : n.type = "mentioned" /\ n.comment = m
                                      /\ n.recipient = v /\ n.request = w.request
  <2>1. PICK fresh : fresh = named \ w.known
    OBVIOUS
  <2>2. fresh \in SUBSET Users /\ rows = Tell("mentioned", m, w, fresh)
    BY <1>4, <2>1
  <2>3. /\ Tell("mentioned", m, w, fresh) \subseteq Notice
        /\ \A n \in Tell("mentioned", m, w, fresh) :
             /\ n.type = "mentioned" /\ n.comment = m /\ n.request = w.request
             /\ n.recipient \in fresh
        /\ \A v \in fresh :
             \E n \in Tell("mentioned", m, w, fresh) :
               n.type = "mentioned" /\ n.comment = m /\ n.recipient = v /\ n.request = w.request
    BY <1>1, <2>2, Told
  <2> HIDE DEF rows
  <2>4. QED
    BY <2>1, <2>2, <2>3
<1> HIDE DEF rows
<1>6. \A n \in rows : n \in outbox' /\ n \notin outbox
  BY <1>1, <1>2, <1>5 DEF WriterOK
<1>7. /\ mentions' \subseteq Ids \X Users
      /\ \A p \in mentions' : p[1] = m \/ p \in mentions
      /\ \A v \in Users : <<m, v>> \in mentions' <=> v \in named
      /\ \A i \in Ids \ {m} : \A v \in Users : <<i, v>> \in mentions' <=> <<i, v>> \in mentions
  BY <1>1, <1>2, <1>3, <1>4, ReplacedFacts
<1>8. CommentsInv'
  <2>1. \A i \in Ids : Exists(i)' <=> Exists(i)
    BY <1>2 DEF Exists
  <2>2. /\ \A p \in mentions' : Exists(p[1])'
        /\ \A n \in outbox' \ outbox : Exists(n.comment)' /\ n.request = w.request
    BY <1>1, <1>2, <1>3, <1>5, <1>7, <2>1, RowFacts DEF CommentTables
  <2>3. \A i \in Ids :
           /\ Exists(i) => Exists(i)' /\ comments'[i].deleted = comments[i].deleted
           /\ ~Exists(i)' => comments'[i].parent = None
           /\ Exists(i) /\ i # w.comment =>
                /\ comments'[i].likesCount = comments[i].likesCount
                /\ \A v \in Users : <<i, v>> \in mentions' <=> <<i, v>> \in mentions
    BY <1>2, <1>3, <1>7, <2>1
  <2>4. LikesAgree'
    BY <1>2 DEF CommentsInv, LikesAgree
  <2>5. /\ outbox' \subseteq Notice /\ likes' \subseteq Ids \X Users
        /\ comments' \in [Ids -> Row] /\ w.pc \in Locking
    BY <1>1, <1>2, <1>3, <1>5 DEF Locking
  <2>6. QED
    BY <1>2, <1>7, <2>2, <2>3, <2>4, <2>5, WriterCommits
<1>9. Announced
  <2> SUFFICES ASSUME NEW i \in Ids, NEW v \in Users
               PROVE  /\ <<i, v>> \in mentions' \ mentions =>
                           \E n \in outbox' \ outbox :
                             n.type \in {"mentioned", "replied"} /\ n.comment = i /\ n.recipient = v
                      /\ (\E n \in outbox' \ outbox :
                            n.type \in {"mentioned"} /\ n.comment = i /\ n.recipient = v)
                           => <<i, v>> \in mentions' \ mentions
    BY DEF Announced
  <2>1. v \in w.known <=> <<m, v>> \in mentions
    BY <1>1
  <2>2. ASSUME <<i, v>> \in mentions' \ mentions
        PROVE  \E n \in outbox' \ outbox :
                 n.type \in {"mentioned", "replied"} /\ n.comment = i /\ n.recipient = v
    <3>1. i = m /\ v \in named \ w.known
      BY <1>7, <2>1, <2>2
    <3>2. QED
      BY <1>5, <1>6, <3>1
  <2>3. ASSUME NEW n \in outbox' \ outbox,
               n.type \in {"mentioned"} /\ n.comment = i /\ n.recipient = v
        PROVE  <<i, v>> \in mentions' \ mentions
    <3>1. i = m /\ v \in named \ w.known
      BY <1>2, <1>5, <2>3
    <3>2. QED
      BY <1>7, <2>1, <3>1
  <2>4. QED
    BY <2>2, <2>3
<1>10. RepliesLive
  BY <1>2, <1>3 DEF RepliesLive
<1>11. QED
  BY <1>8, <1>9, <1>10

(* A like more or less is one more or less to count.                       *)
LEMMA LikesCount ==
  ASSUME FollowsAssumption, NEW S \in SUBSET Users, NEW u \in Users
  PROVE  /\ Cardinality(S) \in Nat
         /\ u \notin S => Cardinality(S \cup {u}) = Sum1(Cardinality(S))
         /\ u \in S => Cardinality(S \ {u}) = Less1(Cardinality(S))
<1>1. IsFiniteSet(S)
  BY FS_Subset DEF FollowsAssumption
<1>2. Cardinality(S) \in Nat /\ (u \in S => Cardinality(S) # 0)
  BY <1>1, FS_CardinalityType, FS_EmptySet
<1>3. u \notin S => Cardinality(S \cup {u}) = Cardinality(S) + 1
  BY <1>1, FS_AddElement
<1>4. u \in S => Cardinality(S \ {u}) = Cardinality(S) - 1
  BY <1>1, FS_RemoveElement
<1>5. QED
  BY <1>2, <1>3, <1>4 DEF Sum1, Less1

LEMMA StoreGoes ==
  ASSUME FollowsAssumption, CommentsAssumption, CommentsInv, NEW x \in Writers, StoreLike(x)
  PROVE  CommentsInv' /\ Announced /\ RepliesLive
<1> DEFINE w == writers[x]
           m == w.comment
           u == w.user
           like == <<m, u>>
           changed == w.liked # (like \in likes)
           fans == {v \in Users : <<m, v>> \in likes}
           count == IF ~changed THEN comments[m].likesCount
                    ELSE IF w.liked THEN Sum1(w.count) ELSE Less1(w.count)
           rows == Tell("liked", m, w, {comments[m].author} \ {u})
<1>1. /\ w.pc = "store" /\ WriterOK(w) /\ w \in Writer /\ u \in Users /\ m \in Ids
      /\ Exists(m) /\ w.count = comments[m].likesCount /\ w.liked \in BOOLEAN
  BY Writing DEF StoreLike, WriterOK, Writer
<1>2. /\ Finish(x) /\ UNCHANGED vars /\ mentions' = mentions
      /\ likes' = IF w.liked THEN likes \cup {like} ELSE likes \ {like}
      /\ comments' = IF ~changed THEN comments
                     ELSE [comments EXCEPT ![m].likesCount =
                             IF w.liked THEN Sum1(w.count) ELSE Less1(w.count)]
      /\ outbox' = IF changed /\ w.liked THEN outbox \cup rows ELSE outbox
  BY DEF StoreLike
<1>3. /\ comments \in [Ids -> Row] /\ CommentTables /\ mentions \subseteq Ids \X Users
      /\ \A i \in Ids : ~Exists(i) => comments[i].parent = None
      /\ outbox \subseteq Notice /\ likes \subseteq Ids \X Users
  BY RowFacts DEF CommentsInv, CommentTables
<1>4. comments[m].likesCount \in Nat /\ w.count \in Nat /\ comments[m] \in Row
  BY <1>1, <1>3 DEF Row
<1>5. /\ comments' \in [Ids -> Row] /\ comments'[m].likesCount = count
      /\ \A i \in Ids : /\ comments'[i].author = comments[i].author
                        /\ comments'[i].parent = comments[i].parent
                        /\ comments'[i].deleted = comments[i].deleted
                        /\ i # m => comments'[i].likesCount = comments[i].likesCount
  <2>1. CASE ~changed
    BY <1>2, <1>3, <2>1
  <2>2. CASE changed
    <3>1. count \in Nat
      BY <1>4, <2>2 DEF Sum1, Less1
    <3>2. comments' = [comments EXCEPT ![m].likesCount = count]
      BY <1>2, <2>2
    <3> HIDE DEF count
    <3>3. QED
      BY <1>1, <1>3, <3>1, <3>2 DEF Row
  <2>3. QED
    BY <2>1, <2>2
<1>6. /\ rows \subseteq Notice
      /\ \A n \in rows : n.type = "liked" /\ n.comment = m /\ n.request = w.request
  <2>1. comments[m].author \in Users
    BY <1>1, <1>4 DEF Row, Exists
  <2>2. {comments[m].author} \ {u} \in SUBSET Users
    BY <2>1
  <2>3. QED
    BY <1>1, <2>2, Told
<1> HIDE DEF rows
<1>7. comments'[m].likesCount = Cardinality({v \in Users : <<m, v>> \in likes'})
  <2>1. comments[m].likesCount = Cardinality(fans)
    BY <1>1 DEF CommentsInv, LikesAgree
  <2>2. fans \in SUBSET Users /\ (u \in fans <=> like \in likes)
    BY <1>1
  <2>3. {v \in Users : <<m, v>> \in likes'} = IF w.liked THEN fans \cup {u} ELSE fans \ {u}
    BY <1>1, <1>2
  <2> HIDE DEF fans
  <2>4. CASE w.liked /\ u \in fans
    <3>1. ~changed /\ fans \cup {u} = fans
      <4>1. w.liked = TRUE /\ (like \in likes) = TRUE
        BY <1>1, <2>2, <2>4
      <4>2. fans \cup {u} = fans
        BY <2>4
      <4>3. QED
        BY <4>1, <4>2
    <3>2. count = comments[m].likesCount
      BY <3>1
    <3>3. {v \in Users : <<m, v>> \in likes'} = fans
      BY <2>3, <2>4, <3>1
    <3>4. QED
      BY <1>5, <2>1, <3>2, <3>3
  <2>5. CASE w.liked /\ u \notin fans
    <3>1. changed
      BY <2>2, <2>5
    <3>2. Cardinality(fans \cup {u}) = Sum1(Cardinality(fans))
      BY <1>1, <2>2, <2>5, LikesCount
    <3>3. QED
      BY <1>1, <1>5, <2>1, <2>3, <2>5, <3>1, <3>2
  <2>6. CASE ~w.liked /\ u \notin fans
    <3>1. ~changed /\ fans \ {u} = fans
      BY <1>1, <2>2, <2>6
    <3>2. count = comments[m].likesCount
      BY <3>1
    <3>3. {v \in Users : <<m, v>> \in likes'} = fans
      BY <2>3, <2>6, <3>1
    <3>4. QED
      BY <1>5, <2>1, <3>2, <3>3
  <2>7. CASE ~w.liked /\ u \in fans
    <3>1. changed
      BY <1>1, <2>2, <2>7
    <3>2. Cardinality(fans \ {u}) = Less1(Cardinality(fans))
      BY <1>1, <2>2, <2>7, LikesCount
    <3>3. QED
      BY <1>1, <1>5, <2>1, <2>3, <2>7, <3>1, <3>2
  <2>8. QED
    BY <2>4, <2>5, <2>6, <2>7
<1>8. LikesAgree'
  <2> SUFFICES ASSUME NEW i \in Ids
               PROVE  comments'[i].likesCount = Cardinality({v \in Users : <<i, v>> \in likes'})
    BY DEF LikesAgree
  <2>1. CASE i = m
    BY <1>7, <2>1
  <2>2. CASE i # m
    <3>1. {v \in Users : <<i, v>> \in likes'} = {v \in Users : <<i, v>> \in likes}
      BY <1>2, <2>2
    <3>2. QED
      BY <1>5, <2>2, <3>1 DEF CommentsInv, LikesAgree
  <2>3. QED
    BY <2>1, <2>2
<1>9. outbox \subseteq outbox' /\ \A n \in outbox' \ outbox : n \in rows
  BY <1>2
<1>10. CommentsInv'
  <2>1. \A i \in Ids : Exists(i)' <=> Exists(i)
    BY <1>5 DEF Exists
  <2>2. /\ \A p \in mentions' : Exists(p[1])'
        /\ \A n \in outbox' \ outbox : Exists(n.comment)' /\ n.request = w.request
    BY <1>1, <1>2, <1>3, <1>6, <1>9, <2>1 DEF CommentTables
  <2>3. \A i \in Ids :
           /\ Exists(i) => Exists(i)' /\ comments'[i].deleted = comments[i].deleted
           /\ ~Exists(i)' => comments'[i].parent = None
           /\ Exists(i) /\ i # w.comment =>
                /\ comments'[i].likesCount = comments[i].likesCount
                /\ \A v \in Users : <<i, v>> \in mentions' <=> <<i, v>> \in mentions
    BY <1>2, <1>3, <1>5, <2>1
  <2>4. outbox' \subseteq Notice
    BY <1>2, <1>3, <1>6
  <2>5. likes' \subseteq Ids \X Users /\ mentions' \subseteq Ids \X Users /\ w.pc \in Locking
    BY <1>1, <1>2, <1>3 DEF Locking
  <2>6. QED
    BY <1>2, <1>5, <1>8, <2>2, <2>3, <2>4, <2>5, WriterCommits
<1>11. Announced
  BY <1>2, <1>6, <1>9 DEF Announced
<1>12. RepliesLive
  BY <1>3, <1>5 DEF RepliesLive
<1>13. QED
  BY <1>10, <1>11, <1>12

-----------------------------------------------------------------------------
(* Every step.                                                             *)

(* A step that neither mentions, nor tells, nor adds a comment.            *)
LEMMA NothingNew ==
  ASSUME CommentTables, mentions' = mentions, outbox' = outbox,
         \A m \in Ids : comments'[m].parent = comments[m].parent
  PROVE  Announced /\ RepliesLive
BY DEF CommentTables, Announced, RepliesLive

LEMMA WritersStep ==
  ASSUME FollowsAssumption, CommentsAssumption, CommentsInv, NEW x \in Writers,
         \/ \E u \in Users : ReceiveComment(x, u) \/ ReceiveEdit(x, u) \/ ReceiveLike(x, u)
         \/ LockParent(x) \/ InsertComment(x) \/ EditComment(x) \/ ReplaceMentions(x)
         \/ LockComment(x) \/ StoreLike(x) \/ WriterLost(x)
  PROVE  /\ CommentsInv' /\ Announced /\ RepliesLive
         /\ UNCHANGED <<counters, follows, blocks, txs>>
<1>1. CommentTables
  BY DEF CommentsInv
<1>2. CASE \E u \in Users : ReceiveComment(x, u) \/ ReceiveEdit(x, u) \/ ReceiveLike(x, u)
  <2>1. CommentsInv'
    BY <1>2, ReceiveGoes
  <2>2. /\ comments' = comments /\ mentions' = mentions /\ outbox' = outbox
        /\ UNCHANGED <<counters, follows, blocks, txs>>
    BY <1>2 DEF ReceiveComment, ReceiveEdit, ReceiveLike, Arrive
  <2>3. QED
    BY <1>1, <2>1, <2>2, NothingNew
<1>3. CASE LockParent(x) \/ EditComment(x) \/ LockComment(x) \/ WriterLost(x)
  <2>1. CommentsInv'
    BY <1>3, LockStepGoes, WriterEnds DEF WriterLost
  <2>2. UNCHANGED <<comments, mentions, outbox>> /\ UNCHANGED vars
    BY <1>3 DEF LockParent, EditComment, LockComment, WriterLost, Reject
  <2>3. /\ comments' = comments /\ mentions' = mentions /\ outbox' = outbox
        /\ UNCHANGED <<counters, follows, blocks, txs>>
    BY <2>2 DEF vars, counters
  <2>4. QED
    BY <1>1, <2>1, <2>3, NothingNew
<1>4. CASE InsertComment(x) \/ ReplaceMentions(x) \/ StoreLike(x)
  <2>1. UNCHANGED vars
    BY <1>4 DEF InsertComment, ReplaceMentions, StoreLike
  <2>2. UNCHANGED <<counters, follows, blocks, txs>>
    BY <2>1 DEF vars, counters
  <2>3. QED
    BY <1>4, <2>2, InsertGoes, ReplaceGoes, StoreGoes
<1>5. QED
  BY <1>2, <1>3, <1>4

LEMMA DeleteGoes ==
  ASSUME CommentsInv, NEW m \in Ids, DeleteComment(m)
  PROVE  /\ CommentsInv' /\ Announced /\ RepliesLive
         /\ UNCHANGED <<counters, follows, blocks, txs>>
<1>1. /\ ~Locked(m) /\ ops' = ops + 1 /\ active' = active
      /\ comments' = [comments EXCEPT ![m].deleted = TRUE]
      /\ UNCHANGED <<counters, follows, blocks, txs>>
      /\ UNCHANGED <<likes, mentions, outbox>> /\ writers' = writers
  BY DEF DeleteComment, accounts
<1>2. /\ CommentTables /\ ops \in Nat /\ active \subseteq Users
      /\ comments \in [Ids -> Row] /\ writers \in [Writers -> Writer]
  BY RowFacts DEF CommentsInv, CommentTables
<1>3. /\ comments' \in [Ids -> Row]
      /\ \A i \in Ids :
           /\ comments'[i].author = comments[i].author /\ comments'[i].parent = comments[i].parent
           /\ comments'[i].likesCount = comments[i].likesCount
           /\ comments'[i].deleted # comments[i].deleted => ~Locked(i)
  BY <1>1, <1>2 DEF Row
<1>4. CommentsInv'
  <2>1. ops' \in Nat /\ ops' >= ops /\ active' \subseteq Users
    BY <1>1, <1>2
  <2>2. /\ writers' \in [Writers -> Writer]
        /\ \A x \in Writers :
             /\ writers'[x].pc = writers[x].pc /\ writers'[x].user = writers[x].user
             /\ writers'[x].comment = writers[x].comment /\ writers'[x].known = writers[x].known
             /\ writers'[x].count = writers[x].count /\ writers'[x].request = writers[x].request
    BY <1>1, <1>2
  <2>3. QED
    BY <1>1, <1>3, <2>1, <2>2, Standing
<1>5. Announced /\ RepliesLive
  BY <1>1, <1>2, <1>3, NothingNew
<1>6. QED
  BY <1>1, <1>4, <1>5

(* What requests about follows, blocks and accounts do to the clock and to *)
(* the accounts.                                                           *)
LEMMA Elsewhere ==
  ASSUME CommentTables,
         \/ \E x \in Clients : Ask(x)
         \/ \E u \in Users : SetActive(u) \/ Anonymize(u)
  PROVE  ops' \in Nat /\ ops' >= ops /\ active' \subseteq Users
<1>1. ops \in Nat /\ active \subseteq Users
  BY DEF CommentTables
<1>2. CASE \E x \in Clients : Ask(x)
  <2>1. active' = active /\ (ops' = ops \/ ops' = ops + 1)
    <3>1. PICK x \in Clients : Ask(x)
      BY <1>2
    <3>2. CASE FindFollowable(x) \/ FindFollowed(x) \/ FindBlockable(x) \/ Unblock(x)
      BY <3>2 DEF FindFollowable, FindFollowed, FindBlockable, Unblock, Receive, accounts
    <3>3. CASE Step(x)
      BY <3>3 DEF Step, Rollback, CheckBlock, InsertFollow, DeleteFollow, InsertBlock, Sever,
                  UpdateCounter, Commit, accounts
    <3>4. CASE DeadlockAborts(x) \/ ConnectionLost(x)
      BY <3>4 DEF DeadlockAborts, ConnectionLost, Rollback, accounts
    <3>5. QED
      BY <3>1, <3>2, <3>3, <3>4 DEF Ask
  <2>2. QED
    BY <1>1, <2>1
<1>3. CASE \E u \in Users : SetActive(u) \/ Anonymize(u)
  <2>1. ops' = ops + 1 /\ active' \subseteq Users
    BY <1>1, <1>3 DEF SetActive, Anonymize
  <2>2. QED
    BY <1>1, <2>1
<1>4. QED
  BY <1>2, <1>3

LEMMA ElsewhereGoes ==
  ASSUME CommentsInv,
         \/ \E x \in Clients : Ask(x)
         \/ \E u \in Users : SetActive(u),
         StillBarred, UNCHANGED <<comments, likes, mentions, outbox>>
  PROVE  CommentsInv' /\ Announced /\ RepliesLive
<1>1. CommentTables /\ comments \in [Ids -> Row]
  BY RowFacts DEF CommentsInv
<1>2. ops' \in Nat /\ ops' >= ops /\ active' \subseteq Users
  BY <1>1, Elsewhere
<1>3. CommentsInv'
  BY <1>1, <1>2, BarredOnly, Standing
<1>4. QED
  BY <1>1, <1>3, NothingNew

LEMMA EraseGoes ==
  ASSUME CommentsInv, NEW u \in Users, Anonymize(u), EraseComments(u), StillBarred,
         UNCHANGED <<likes, mentions, outbox>>
  PROVE  CommentsInv' /\ Announced /\ RepliesLive
<1> DEFINE own == {m \in Ids : comments[m].author = u /\ Live(m)}
<1>1. CommentTables /\ comments \in [Ids -> Row]
  BY RowFacts DEF CommentsInv
<1>2. ops' \in Nat /\ ops' >= ops /\ active' \subseteq Users
  BY <1>1, Elsewhere
<1>3. /\ \A m \in own : ~Locked(m)
      /\ comments' = [m \in Ids |-> IF m \in own THEN [comments[m] EXCEPT !.deleted = TRUE]
                                    ELSE comments[m]]
  BY DEF EraseComments
<1> HIDE DEF own
<1>4. /\ comments' \in [Ids -> Row]
      /\ \A i \in Ids :
           /\ comments'[i].author = comments[i].author /\ comments'[i].parent = comments[i].parent
           /\ comments'[i].likesCount = comments[i].likesCount
           /\ comments'[i].deleted # comments[i].deleted => ~Locked(i)
  BY <1>1, <1>3 DEF Row
<1>5. CommentsInv'
  BY <1>1, <1>2, <1>4, BarredOnly, Standing
<1>6. QED
  BY <1>1, <1>4, <1>5, NothingNew

LEMMA CommentsBegin == ASSUME FollowsAssumption, SocialInit PROVE CommentsInv
<1>1. /\ comments = [m \in Ids |-> NoRow] /\ likes = {} /\ mentions = {} /\ outbox = {}
      /\ writers = [x \in Writers |-> NoWriter] /\ active = Users /\ ops = 0
  BY DEF SocialInit, ConversationInit, Init
<1>2. NoRow \in Row /\ NoRow.parent = None /\ NoRow.likesCount = 0
  BY DEF NoRow, Row
<1>3. CommentTables
  BY <1>1, <1>2, Idle DEF CommentTables, ConversationTypeOK
<1>4. WritersOK
  BY <1>1, Idle DEF WritersOK
<1>5. LikesAgree
  <2>1. \A m \in Ids : {u \in Users : <<m, u>> \in likes} = {}
    BY <1>1
  <2>2. QED
    BY <1>1, <1>2, <2>1, FS_EmptySet DEF LikesAgree
<1>6. QED
  BY <1>3, <1>4, <1>5 DEF CommentsInv

LEMMA SocialStep ==
  ASSUME FollowsAssumption, CommentsAssumption, FollowsInv, CommentsInv, SocialNext
  PROVE  FollowsInv' /\ CommentsInv' /\ Announced /\ RepliesLive
<1>1. CASE /\ \/ \E x \in Clients : Ask(x)
              \/ \E u \in Users : SetActive(u)
           /\ StillBarred
           /\ UNCHANGED <<comments, likes, mentions, outbox>>
  <2>1. Next
    BY <1>1 DEF Next
  <2>2. QED
    BY <1>1, <2>1, FollowsNext, ElsewhereGoes
<1>2. ASSUME NEW u \in Users, Anonymize(u), EraseComments(u), StillBarred,
             UNCHANGED <<likes, mentions, outbox>>
      PROVE  FollowsInv' /\ CommentsInv' /\ Announced /\ RepliesLive
  <2>1. Next
    BY <1>2 DEF Next
  <2>2. QED
    BY <1>2, <2>1, FollowsNext, EraseGoes
<1>3. CASE ConversationNext
  BY <1>3, WritersStep, DeleteGoes, FollowsStand DEF ConversationNext
<1>4. QED
  BY <1>1, <1>2, <1>3 DEF SocialNext

LEMMA SocialStutter ==
  ASSUME FollowsInv, CommentsInv, UNCHANGED <<vars, conversation>> PROVE FollowsInv' /\ CommentsInv'
<1>1. /\ UNCHANGED <<counters, follows, blocks, txs>>
      /\ ops' = ops /\ active' = active /\ comments' = comments /\ likes' = likes
      /\ mentions' = mentions /\ outbox' = outbox /\ writers' = writers
  BY DEF vars, accounts, counters, conversation
<1>2. FollowsInv'
  BY <1>1, FollowsStand
<1>3. CommentTables'
  BY <1>1 DEF CommentsInv, CommentTables, ConversationTypeOK, Exists
<1>4. WritersOK' /\ LikesAgree'
  BY <1>1 DEF CommentsInv, WritersOK, WriterOK, LikesAgree, Exists, Live
<1>5. QED
  BY <1>2, <1>3, <1>4 DEF CommentsInv

LEMMA SocialAlways == SocialSpec => [](FollowsInv /\ CommentsInv)
<1>1. SocialInit => FollowsInv /\ CommentsInv
  BY FollowsAssumption, FollowsBegin, CommentsBegin DEF SocialInit
<1>2. FollowsInv /\ CommentsInv /\ [SocialNext]_<<vars, conversation>>
        => FollowsInv' /\ CommentsInv'
  BY FollowsAssumption, CommentsAssumption, SocialStep, SocialStutter
<1>3. QED
  BY <1>1, <1>2, PTL DEF SocialSpec

-----------------------------------------------------------------------------
(* The counters of every profile count exactly the follows that are there, *)
(* whatever follows, unfollows, blocks, erasures, deadlocks and lost       *)
(* connections interleave: what a transaction changes in memory is what it *)
(* has inserted or deleted, and no two of them have the same follow.       *)
THEOREM ProfileCountersAgree == SocialSpec => []CountersAgree
<1>1. FollowsInv => CountersAgree
  BY DEF FollowsInv
<1>2. QED
  BY <1>1, SocialAlways, PTL

(* A follow request that met a block which has stayed ever since has not   *)
(* inserted a row: isBlockedBetween is asked before the transaction begins, *)
(* of the primary and for both directions.                                 *)
THEOREM BlocksHold == SocialSpec => []BlockHolds
<1>1. FollowsInv => BlockHolds
  <2> SUFFICES ASSUME FollowsInv, NEW x \in Clients, txs[x].ins # {} PROVE ~txs[x].barred
    BY DEF BlockHolds
  <2>1. TxOK(txs[x])
    BY DEF FollowsInv, TxsOK, NoTx
  <2>2. txs[x].op = "follow" /\ txs[x].pc = "update"
    BY <2>1 DEF TxOK
  <2>3. QED
    BY <2>1, <2>2 DEF TxOK
<1>2. QED
  BY <1>1, SocialAlways, PTL

(* likes_count of every comment counts its likes: setLike computes it from *)
(* what it has read under the row's lock, which nobody else can change.    *)
THEOREM CommentLikesAgree == SocialSpec => []LikesAgree
<1>1. CommentsInv => LikesAgree
  BY DEF CommentsInv
<1>2. QED
  BY <1>1, SocialAlways, PTL

(* Whoever comes to be mentioned is told by the same commit, and nobody is *)
(* told of a mention he had, although edits of a comment overlap with other *)
(* edits, likes, deletions and erasures of it.                             *)
THEOREM MentionsAnnounced == SocialSpec => MentionsAreAnnouncedOnce
<1>1. FollowsInv /\ CommentsInv /\ [SocialNext]_<<vars, conversation>> =>
        [\A m \in Ids, v \in Users :
           LET told(types) == \E n \in outbox' \ outbox :
                                n.type \in types /\ n.comment = m /\ n.recipient = v
           IN /\ <<m, v>> \in mentions' \ mentions => told({"mentioned", "replied"})
              /\ told({"mentioned"}) => <<m, v>> \in mentions' \ mentions]_<<vars, conversation>>
  <2>1. SUFFICES ASSUME FollowsInv, CommentsInv, SocialNext
                 PROVE  \A m \in Ids, v \in Users :
                          LET told(types) == \E n \in outbox' \ outbox :
                                n.type \in types /\ n.comment = m /\ n.recipient = v
                          IN /\ <<m, v>> \in mentions' \ mentions => told({"mentioned", "replied"})
                             /\ told({"mentioned"}) => <<m, v>> \in mentions' \ mentions
    OBVIOUS
  <2>2. Announced
    BY <2>1, FollowsAssumption, CommentsAssumption, SocialStep
  <2>3. QED
    BY <2>2 DEF Announced
<1>2. QED
  BY <1>1, SocialAlways, PTL DEF SocialSpec, MentionsAreAnnouncedOnce

(* A reply is stored under a parent that is live at that moment, although  *)
(* the request named it before: create locks it and looks again.           *)
THEOREM RepliesJoin == SocialSpec => RepliesJoinLiveThreads
<1>1. FollowsInv /\ CommentsInv /\ [SocialNext]_<<vars, conversation>> =>
        [\A m \in Ids :
           ~Exists(m) /\ comments'[m].parent # None
             => Live(comments'[m].parent)]_<<vars, conversation>>
  BY FollowsAssumption, CommentsAssumption, SocialStep DEF RepliesLive
<1>2. QED
  BY <1>1, SocialAlways, PTL DEF SocialSpec, RepliesJoinLiveThreads
=============================================================================
