----------------------------- MODULE SlideShow ------------------------------
(***************************************************************************)
(* What an animation promises of its frames: n of them are drawn in their  *)
(* order, over and over when again is set, until the show is over.  The    *)
(* file that says how many there are is read before the first one.         *)
(***************************************************************************)
EXTENDS Integers

VARIABLES at, n, again, over

Init == at = -1 /\ n = 0 /\ ~again /\ ~over

Open == at = -1 /\ ~over /\ UNCHANGED <<at, over>>

Draw ==
    /\ ~over /\ UNCHANGED <<n, again, over>>
    /\ \/ at' = at + 1 /\ at + 1 < n
       \/ again /\ at = n - 1 /\ at' = 0

End == ~over /\ over' /\ UNCHANGED <<at, n, again>>

Next == Open \/ Draw \/ End

Safety == Init /\ [][Next]_<<at, n, again, over>>
=============================================================================
