---------------------------- MODULE MCEventStats ----------------------------
(* Instances of EventStats for TLC. *)
EXTENDS EventStats, TLC

(* Users, events, connections, comments and projectors are interchangeable  *)
(* in the runs without liveness: every property quantifies over all of them. *)
Symmetry ==
  Permutations(Users) \cup Permutations(Events) \cup Permutations(Clients) \cup
  Permutations(Comments) \cup Permutations(Projectors)

=============================================================================
