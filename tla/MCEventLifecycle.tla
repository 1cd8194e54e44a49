-------------------------- MODULE MCEventLifecycle --------------------------
(* Instances of EventLifecycle for TLC. *)
EXTENDS EventLifecycle, TLC

(* Handlers, workers, events and photos are interchangeable: every property  *)
(* of the runs that use this quantifies over all of them, and none of those  *)
(* runs checks liveness.                                                     *)
Symmetry ==
  Permutations(Handlers) \cup Permutations(Workers) \cup
  Permutations(Events) \cup Permutations(Photos)

(* Bound of EL_Review and EL_Revise, which are not about lost submissions:   *)
(* the queue remembers its failed jobs.                                      *)
FailedJobsStay == \A r \in Rows : jobs[r].state # "forgotten"

(* Bound of EL_Revise: two events and two requests race as long as the       *)
(* pipeline has nothing to do; from then on one of each races with it.       *)
Begun == {e \in Events : events[e].status # "NONE" \/ \E h \in Handlers : procs[h].ev = e}
Busy == {h \in Handlers : procs[h].pc # "idle"}
OneRacesThePipeline ==
  \/ Cardinality(Begun) <= 1 /\ Cardinality(Busy) <= 1
  \/ /\ \A r \in Rows : jobs[r].state = "none"
     /\ \A d \in Dispatchers : claims[d] = {}

=============================================================================
