-------------------------------- MODULE Rcf ---------------------------------
(***************************************************************************)
(* The layout of vita-bootanim's animation files after the header: for the *)
(* logo, if there is one, and for each frame a size word and the gzipped   *)
(* stream of that size.  pc/mkanim.c writes it, kernel/main.c walks it.    *)
(* A body is a sequence of units: a size word stands for four bytes, a     *)
(* stream for as many units as its size.                                   *)
(***************************************************************************)
EXTENDS Integers, Sequences

Logo == -1  \* the full resolution picture, first stream of the body

Unit == [kind : {"size", "gz"}, of : Int, n : Nat]
Word(n) == [kind |-> "size", of |-> 0, n |-> n]
Piece(i, k) == [kind |-> "gz", of |-> i, n |-> k]

(* The size word at offset o, and the offset behind the stream it announces. *)
SizeAt(b, o) == IF o + 1 \in 1 .. Len(b) /\ b[o + 1].kind = "size" THEN b[o + 1].n ELSE 0
After(b, o) == o + 1 + SizeAt(b, o)

(* The complete stream of frame i is at offset o. *)
FrameAt(b, o, i) ==
    /\ SizeAt(b, o) > 0 /\ After(b, o) <= Len(b)
    /\ \A k \in 1 .. SizeAt(b, o) : b[o + 1 + k] = Piece(i, k)

(* Where a walk over the size words finds frame i. *)
Start(b, logo) ==
    LET s[i \in Nat] ==
          IF i = 0 THEN (IF logo THEN After(b, 0) ELSE 0) ELSE After(b, s[i - 1])
    IN s

(* The body holds the logo if there is one, and the frames 0 to count - 1. *)
Intact(b, count, logo) ==
    /\ logo => FrameAt(b, 0, Logo)
    /\ \A i \in 0 .. count - 1 : FrameAt(b, Start(b, logo)[i], i)
=============================================================================
