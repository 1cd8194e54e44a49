---------------------------- MODULE EventReview ----------------------------
(***************************************************************************)
(* What the events module promises about the publication of an event,      *)
(* without versions, transactions, queues or processes: an event is        *)
(* reviewed, published, revised, cancelled and archived one step at a      *)
(* time, and only what was approved can become public.                     *)
(***************************************************************************)
EXTENDS Naturals

CONSTANT Events

VARIABLES
  phase,     \* where each event is in its life
  content,   \* revision of each event's editable content
  approved   \* revision approved last

rvars == <<phase, content, approved>>

Live == {"draft", "inReview", "ready", "public"}
Phases == Live \cup {"none", "cancelled", "archived", "erased"}

Init ==
  /\ phase = [e \in Events |-> "none"]
  /\ content = [e \in Events |-> 0]
  /\ approved = [e \in Events |-> 0]

Move(e, from, to) ==
  /\ phase[e] \in from
  /\ phase' = [phase EXCEPT ![e] = to]

Submit(e) == Move(e, {"none"}, "inReview") /\ UNCHANGED <<content, approved>>

(* A revision takes the event back to a draft with content not seen before. *)
Revise(e) ==
  /\ Move(e, Live, "draft")
  /\ content'[e] > content[e]
  /\ \A f \in Events \ {e} : content'[f] = content[f]
  /\ UNCHANGED approved

Resubmit(e) == Move(e, {"draft"}, "inReview") /\ UNCHANGED <<content, approved>>

(* An approval under way when the account is erased is carried out: it      *)
(* brings the event back, though there is nobody left to publish it.        *)
Approve(e) ==
  /\ Move(e, {"inReview", "erased"}, "ready")
  /\ approved' = [approved EXCEPT ![e] = content[e]]
  /\ UNCHANGED content

Publish(e) == Move(e, {"ready"}, "public") /\ UNCHANGED <<content, approved>>

Cancel(e) == Move(e, Live, "cancelled") /\ UNCHANGED <<content, approved>>

Archive(e) == Move(e, Live \cup {"cancelled"}, "archived") /\ UNCHANGED <<content, approved>>

(* All the events of an account go with it. *)
Erase(es) ==
  /\ \A e \in es : phase[e] \notin {"none", "erased"}
  /\ phase' = [e \in Events |-> IF e \in es THEN "erased" ELSE phase[e]]
  /\ UNCHANGED <<content, approved>>

Next ==
  \/ \E e \in Events :
       \/ Submit(e) \/ Revise(e) \/ Resubmit(e) \/ Approve(e) \/ Publish(e) \/ Cancel(e)
       \/ Archive(e)
  \/ \E es \in SUBSET Events : Erase(es)

Spec == Init /\ [][Next]_rvars

(* Only approved content is public. *)
PublicIsApproved ==
  \A e \in Events : phase[e] \in {"ready", "public"} => approved[e] = content[e]

=============================================================================
