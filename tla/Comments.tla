----------------------------- MODULE Comments -----------------------------
(***************************************************************************)
(* Conversations under one event: comments, replies of one level, edits,   *)
(* likes of comments, mentions, and the comment.* rows they leave in the   *)
(* outbox (DrizzleEventCommentRepository and its four handlers).  Blocks   *)
(* and accounts are those of Follows.                                      *)
(*                                                                         *)
(* A writer is a request.  Its handler's checks are one step, the          *)
(* statement that locks a comment's row is one, and the rest of the        *)
(* transaction, which nothing can come between, is one.  A body is the set *)
(* of users it names; more than MAX_MENTIONS names do not occur.           *)
(***************************************************************************)
EXTENDS Follows

CONSTANTS
  Organizer,   \* of the event the conversation belongs to
  Ids,         \* ids of comments
  Writers,     \* requests about comments in flight
  Bodies,      \* the bodies requests bring: sets of users named
  None         \* no user, no comment

ASSUME CommentsAssumption ==
  /\ Organizer \in Users
  /\ Bodies \subseteq SUBSET Users
  /\ None \notin Users \cup Ids

VARIABLES
  comments,   \* event_comments
  likes,      \* event_comment_likes
  mentions,   \* event_comment_mentions
  outbox,     \* comment.replied, comment.liked and comment.mentioned rows
  writers     \* what each request holds

conversation == <<comments, likes, mentions, outbox, writers>>

Row == [author: Users \cup {None}, parent: Ids \cup {None}, likesCount: Nat, deleted: BOOLEAN]
NoRow == [author |-> None, parent |-> None, likesCount |-> 0, deleted |-> FALSE]

Notice == [type: {"replied", "liked", "mentioned"}, comment: Ids, actor: Users,
           recipient: Users, request: Nat, late: BOOLEAN]

Writer == [pc: {"idle", "create", "insert", "edit", "replace", "like", "store"},
           user: Users \cup {None},
           comment: Ids \cup {None},   \* the comment, or the parent of a new one
           body: SUBSET Users,
           known: SUBSET Users,        \* mentions found before they are replaced
           count: Nat,                 \* likes_count as read
           liked: BOOLEAN,
           request: Nat,               \* history: which request this is
           barred: SUBSET Users]       \* history: users blocked from or by this one throughout

NoWriter == [pc |-> "idle", user |-> None, comment |-> None, body |-> {}, known |-> {},
             count |-> 0, liked |-> FALSE, request |-> 0, barred |-> {}]

ConversationTypeOK ==
  /\ comments \in [Ids -> Row]
  /\ likes \subseteq Ids \X Users
  /\ mentions \subseteq Ids \X Users
  /\ outbox \subseteq Notice
  /\ writers \in [Writers -> Writer]

-----------------------------------------------------------------------------
Exists(m) == comments[m].author # None
Live(m) == Exists(m) /\ ~comments[m].deleted
Blocked(u, v) == u # v /\ IsBlockedBetween(<<u, v>>)
BarredFrom(u) == {v \in Users \ {u} : Barred(<<u, v>>)}

(* Mutant: the statement reads the row without FOR UPDATE. *)
NeverLocked(m) == FALSE

(* The row lock of a comment, held from the locking statement to the commit. *)
Locked(m) == \E x \in Writers : writers[x].pc \in {"insert", "replace", "store"}
                                /\ writers[x].comment = m

Become(x, w) == writers' = [writers EXCEPT ![x] = w]
Finish(x) == Become(x, NoWriter)
Reject(x) == Finish(x) /\ UNCHANGED <<comments, likes, mentions, outbox>>

Arrive(x, w) ==
  /\ writers[x].pc = "idle"
  /\ ops < MaxOps
  /\ ops' = ops + 1
  /\ Become(x, [w EXCEPT !.request = ops + 1, !.barred = BarredFrom(w.user)])
  /\ UNCHANGED <<accounts, counters, follows, blocks, txs, comments, likes, mentions, outbox>>

(* The outbox rows a writer leaves for these recipients. *)
Tell(type, m, w, recipients) ==
  {[type |-> type, comment |-> m, actor |-> w.user, recipient |-> v,
    request |-> w.request, late |-> v \in w.barred] : v \in recipients}

(* replaceMentions: of the users a body names, those who have a live comment
   here, whose account is active, and who neither block the author nor are
   blocked by him. *)
Mentionable(u, body) ==
  {v \in body \cap active :
     /\ v # u
     /\ ~Blocked(u, v)
     /\ \E m \in Ids : comments[m].author = v /\ Live(m)}

Replaced(m, users) == {p \in mentions : p[1] # m} \cup ({m} \X users)

-----------------------------------------------------------------------------
ConversationInit ==
  /\ comments = [m \in Ids |-> NoRow]
  /\ likes = {}
  /\ mentions = {}
  /\ outbox = {}
  /\ writers = [x \in Writers |-> NoWriter]

(* CreateEventCommentHandler: the event is available, its organizer and the
   author do not block each other. *)
ReceiveComment(x, u) ==
  \E parent \in {m \in Ids : Exists(m)} \cup {None}, body \in Bodies :
    /\ ~Blocked(u, Organizer)
    /\ Arrive(x, [NoWriter EXCEPT !.pc = "create", !.user = u, !.comment = parent, !.body = body])

(* create: the author's profile, then the parent FOR UPDATE: a live comment
   that is no reply itself. *)
LockParent(x) ==
  LET m == writers[x].comment
  IN /\ writers[x].pc = "create"
     /\ m # None => ~Locked(m)
     /\ IF writers[x].user \in active /\ (m # None => Live(m) /\ comments[m].parent = None)
        THEN /\ Become(x, [writers[x] EXCEPT !.pc = "insert"])
             /\ UNCHANGED <<comments, likes, mentions, outbox>>
        ELSE Reject(x)
     /\ UNCHANGED vars

(* create: the comment, its mentions and the rows for whoever it concerns,
   committed. The author of the parent is told of the reply only. *)
InsertComment(x) ==
  LET u == writers[x].user
      parent == writers[x].comment
      told == IF parent = None THEN {} ELSE {comments[parent].author}
      named == Mentionable(u, writers[x].body)
  IN /\ writers[x].pc = "insert"
     /\ \E m \in {i \in Ids : ~Exists(i)} :
          /\ comments' = [comments EXCEPT ![m].author = u, ![m].parent = parent]
          /\ mentions' = Replaced(m, named)
          /\ outbox' = outbox \cup Tell("mentioned", m, writers[x], named \ told)
                              \cup Tell("replied", m, writers[x], told \ {u})
     /\ Finish(x)
     /\ UNCHANGED <<likes, vars>>

ReceiveEdit(x, u) ==
  \E m \in Ids, body \in Bodies :
    /\ Exists(m)
    /\ Arrive(x, [NoWriter EXCEPT !.pc = "edit", !.user = u, !.comment = m, !.body = body])

(* updateOwned: the UPDATE finds and locks the author's live comment; the
   mentions it has are read under the lock. *)
EditComment(x) ==
  LET m == writers[x].comment
  IN /\ writers[x].pc = "edit"
     /\ ~Locked(m)
     /\ IF Live(m) /\ comments[m].author = writers[x].user
        THEN /\ Become(x, [writers[x] EXCEPT !.pc = "replace",
                             !.known = {v \in Users : <<m, v>> \in mentions}])
             /\ UNCHANGED <<comments, likes, mentions, outbox>>
        ELSE Reject(x)
     /\ UNCHANGED vars

(* updateOwned: replaceMentions tells those who were not mentioned before. *)
ReplaceMentions(x) ==
  LET m == writers[x].comment
      u == writers[x].user
      named == Mentionable(u, writers[x].body)
  IN /\ writers[x].pc = "replace"
     /\ mentions' = Replaced(m, named)
     /\ outbox' = outbox \cup Tell("mentioned", m, writers[x], named \ writers[x].known)
     /\ Finish(x)
     /\ UNCHANGED <<comments, likes, vars>>

(* SetEventCommentLikeHandler: the comment is live, and neither its author nor
   the organizer and the user block each other. *)
ReceiveLike(x, u) ==
  \E m \in Ids, liked \in BOOLEAN :
    /\ Live(m)
    /\ ~Blocked(u, Organizer)
    /\ ~Blocked(u, comments[m].author)
    /\ Arrive(x, [NoWriter EXCEPT !.pc = "like", !.user = u, !.comment = m, !.liked = liked])

(* setLike: SELECT ... FOR UPDATE. *)
LockComment(x) ==
  LET m == writers[x].comment
  IN /\ writers[x].pc = "like"
     /\ ~Locked(m)
     /\ IF Live(m)
        THEN /\ Become(x, [writers[x] EXCEPT !.pc = "store", !.count = comments[m].likesCount])
             /\ UNCHANGED <<comments, likes, mentions, outbox>>
        ELSE Reject(x)
     /\ UNCHANGED vars

(* setLike: the like inserted or deleted, the count that was read changed by
   one if that did anything, the author told of a new like. *)
StoreLike(x) ==
  LET m == writers[x].comment
      like == <<m, writers[x].user>>
      changed == writers[x].liked # (like \in likes)
  IN /\ writers[x].pc = "store"
     /\ likes' = IF writers[x].liked THEN likes \cup {like} ELSE likes \ {like}
     /\ comments' = IF ~changed THEN comments
                    ELSE [comments EXCEPT ![m].likesCount =
                            IF writers[x].liked THEN Sum1(writers[x].count)
                            ELSE Less1(writers[x].count)]
     /\ outbox' = IF changed /\ writers[x].liked
                  THEN outbox \cup Tell("liked", m, writers[x],
                                        {comments[m].author} \ {writers[x].user})
                  ELSE outbox
     /\ Finish(x)
     /\ UNCHANGED <<mentions, vars>>

(* deleteOwned: one UPDATE, and the outbox row of EventStats. *)
DeleteComment(m) ==
  /\ Live(m)
  /\ ~Locked(m)
  /\ ops < MaxOps
  /\ ops' = ops + 1
  /\ comments' = [comments EXCEPT ![m].deleted = TRUE]
  /\ UNCHANGED <<accounts, counters, follows, blocks, txs, likes, mentions, outbox, writers>>

(* The rest of Anonymize: all comments of the author at once; likes, mentions
   and the counts stay. *)
EraseComments(u) ==
  LET own == {m \in Ids : comments[m].author = u /\ Live(m)}
  IN /\ \A m \in own : ~Locked(m)
     /\ comments' = [m \in Ids |-> IF m \in own THEN [comments[m] EXCEPT !.deleted = TRUE]
                                   ELSE comments[m]]

WriterLost(x) == writers[x].pc # "idle" /\ Reject(x) /\ UNCHANGED vars

ConversationNext ==
  \/ \E x \in Writers :
       \/ \E u \in Users : ReceiveComment(x, u) \/ ReceiveEdit(x, u) \/ ReceiveLike(x, u)
       \/ LockParent(x) \/ InsertComment(x) \/ EditComment(x) \/ ReplaceMentions(x)
       \/ LockComment(x) \/ StoreLike(x) \/ WriterLost(x)
  \/ \E m \in Ids : DeleteComment(m)

(* Lifting a block ends what it barred, for the requests about comments too. *)
StillBarred ==
  writers' = [x \in Writers |->
                [writers[x] EXCEPT !.barred =
                   {v \in @ : Between(<<writers[x].user, v>>) \cap blocks' # {}}]]

SocialNext ==
  \/ /\ \/ \E x \in Clients : Ask(x)
        \/ \E u \in Users : SetActive(u)
     /\ StillBarred
     /\ UNCHANGED <<comments, likes, mentions, outbox>>
  \/ \E u \in Users :
       Anonymize(u) /\ EraseComments(u) /\ StillBarred /\ UNCHANGED <<likes, mentions, outbox>>
  \/ ConversationNext

SocialInit == Init /\ ConversationInit

SocialSpec == SocialInit /\ [][SocialNext]_<<vars, conversation>>

-----------------------------------------------------------------------------
(* The counter of every comment counts exactly its likes, through overlapping
   likes, edits, deletions and erasures: setLike computes it in memory, under
   the lock. *)
LikesAgree ==
  \A m \in Ids : comments[m].likesCount = Cardinality({u \in Users : <<m, u>> \in likes})

(* Whoever comes to be mentioned is told, once: by comment.mentioned, or by
   comment.replied if the comment answers his; and nobody is told who was
   mentioned already, although edits of one comment overlap. *)
MentionsAreAnnouncedOnce ==
  [][\A m \in Ids, v \in Users :
       LET told(types) == \E n \in outbox' \ outbox :
                            n.type \in types /\ n.comment = m /\ n.recipient = v
       IN /\ <<m, v>> \in mentions' \ mentions => told({"mentioned", "replied"})
          /\ told({"mentioned"}) => <<m, v>> \in mentions' \ mentions]_<<vars, conversation>>

(* A thread that was deleted gets no new replies: a reply is stored under a
   comment that is live at that moment, although it was looked up before. *)
RepliesJoinLiveThreads ==
  [][\A m \in Ids :
       ~Exists(m) /\ comments'[m].parent # None
         => Live(comments'[m].parent)]_<<vars, conversation>>

(* Nobody hears of a comment from someone with whom a block has stood since
   before the request came: README.md promises that a block works in both
   directions for new interactions. *)
BlockedStayUnheard == \A n \in outbox : ~n.late
=============================================================================
