----------------------------- MODULE MCRecovery -----------------------------
(* Recovery with two custom paths: the whole eMMC under its own name, and a
   storage no menu entry names. *)
EXTENDS Recovery
MCCustomPaths == {Entire, "sdstor0:uma-pp-act-a"}
=============================================================================
