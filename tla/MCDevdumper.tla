---------------------------- MODULE MCDevdumper -----------------------------
(***************************************************************************)
(* Every dump that can be compiled in, one after the other, and then two   *)
(* devices of up to five sectors through a buffer of two.                  *)
(***************************************************************************)
EXTENDS Devdumper
=============================================================================
