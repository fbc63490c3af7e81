----------------------------- MODULE MCAnimation -----------------------------
(***************************************************************************)
(* Two runs of mkanim on animations of up to three frames, then two        *)
(* sessions of the installer with two faults between them, the settings    *)
(* plugin and the user's own boot.rcf.                                     *)
(***************************************************************************)
EXTENDS Animation
=============================================================================
