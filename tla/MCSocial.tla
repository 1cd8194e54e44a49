------------------------------ MODULE MCSocial ------------------------------
(* Instances of Comments, and with it of Follows, for TLC. *)
EXTENDS Comments, TLC

(* Requests and ids are interchangeable: the properties quantify over them and
   no definition picks one. *)
Symmetry == Permutations(Clients) \cup Permutations(Writers) \cup Permutations(Ids)
=============================================================================
