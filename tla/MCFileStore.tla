--------------------------- MODULE MCFileStore ---------------------------
(* Concurrent requests and faults: instances of FileStore for TLC. *)
EXTENDS FileStore, TLC

\* Requests are interchangeable: only invariants are checked under it.
Symmetry == Permutations(Request)
=============================================================================
