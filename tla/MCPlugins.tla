----------------------------- MODULE MCPlugins -----------------------------
(***************************************************************************)
(* The gate on a storage of four sectors, the third a gap between its two  *)
(* guarded regions; two cores that print past the end of the screen; the   *)
(* test program and two other threads on two modules; the dialog and       *)
(* another process, two lives of the settings core, one refused hook in    *)
(* each batch.                                                             *)
(***************************************************************************)
EXTENDS Plugins, TLC

CONSTANTS T1, T2, t0, t1, t2, c1, c2, dialog, other

MCThreads == {T1, T2}
MCUserThread == {t0, t1, t2}
MCCore == {c1, c2}
MCProc == {dialog, other}
Symmetry == Permutations(MCThreads) \cup Permutations({t1, t2}) \cup Permutations(MCCore)
=============================================================================
