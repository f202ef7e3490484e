--------------------------- MODULE MCUpdateServer ---------------------------
(* Instances of UpdateServer for TLC. *)
EXTENDS UpdateServer, TLC

(* Download goroutines differ in nothing but their name. *)
Symmetry == Permutations(Downloads)
=============================================================================
