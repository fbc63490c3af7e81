----------------------------- MODULE MediumLock -----------------------------
(***************************************************************************)
(* What recoVery promises of the storage it works on: at any time it is in *)
(* the hands of the USB host, of the menu's raw copier, or of nobody; it   *)
(* never passes from one to the other directly.                            *)
(***************************************************************************)
VARIABLE holder

Init == holder = "free"

Take(who) == holder = "free" /\ holder' = who
Release(who) == holder = who /\ holder' = "free"

Next == \E who \in {"host", "menu"} : Take(who) \/ Release(who)

Spec == Init /\ [][Next]_holder
=============================================================================
