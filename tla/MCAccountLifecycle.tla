------------------------- MODULE MCAccountLifecycle -------------------------
(* Instances of AccountLifecycle for TLC. *)
EXTENDS AccountLifecycle, TLC

(* Rows, requests, workers and guard checks are interchangeable in the runs *)
(* without liveness: every property quantifies over all of them.            *)
Symmetry ==
  Permutations(Profiles) \cup Permutations(Deletions) \cup Permutations(Handlers) \cup
  Permutations(Workers) \cup Permutations(Guards)

=============================================================================
