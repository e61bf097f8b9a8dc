---------------------------- MODULE MCSessions ----------------------------
(* Instances of Sessions for TLC. *)
EXTENDS Sessions, TLC

\* Requests are interchangeable: only safety is checked under it.
Symmetry == Permutations(Request)
=============================================================================
