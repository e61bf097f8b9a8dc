------------------------- MODULE MCFileStoreSerial -------------------------
(* An instance of FileStoreSerial for TLC. *)
EXTENDS FileStoreSerial

CONSTANTS r1, r2, r3

\* Two files of one instant and a later one.
TwoInstants == [r \in {r1, r2, r3} |-> IF r = r3 THEN 2 ELSE 1]

Pages == {-1, 2, Nothing}

Limits == {0, 2, Nothing}
=============================================================================
