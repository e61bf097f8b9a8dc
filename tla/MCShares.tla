------------------------------ MODULE MCShares ------------------------------
(* Instances of Shares for TLC. *)
EXTENDS Shares, TLC

\* A link that expires before it is made, and one that can expire in an instance.
MCLifetime == {-1, 1}
MCMaxDownloads == {2, Nothing}

\* Requests are interchangeable: only safety is checked under it.
Symmetry == Permutations(Request)
=============================================================================
