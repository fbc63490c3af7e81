----------------------------- MODULE MCWorkEmmc -----------------------------
(* WorkEmmc with a buffer of three sectors on an eMMC of nine: partitions of
   two, three and four sectors, one of them below the lowest accepted
   offset, and an empty one; images shorter and longer than the
   largest partition. *)
EXTENDS WorkEmmc
MCDisk0 == [s \in Sector |-> s]
MCBuf0 == [i \in 0 .. Chunk - 1 |-> 50 + i]
MCImage(n) == [i \in 1 .. n |-> 100 + i]
MCImages == {MCImage(2), MCImage(5)}
MCValue == 0 .. 200
MCEntry == {
    [off |-> 1, sz |-> 2, code |-> 3, active |-> 0],
    [off |-> 3, sz |-> 3, code |-> 3, active |-> 0],
    [off |-> 4, sz |-> 0, code |-> 3, active |-> 1],
    [off |-> 4, sz |-> 4, code |-> 3, active |-> 1],
    [off |-> 4, sz |-> 2, code |-> 2, active |-> 0]}
=============================================================================
