----------------------------- MODULE MCSdifGate -----------------------------
(* SdifGate on a storage of five sectors: boot block 0..1, a gap of one
   sector, a second guarded region of sector 3, one free sector. *)
EXTENDS SdifGate, TLC
Symmetry == Permutations(Threads)
=============================================================================
