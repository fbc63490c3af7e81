------------------------------- MODULE Unpack -------------------------------
(***************************************************************************)
(* What the caller of ZipExtract may count on, whatever the archive holds  *)
(* and whatever fails: entries are unpacked in their order, one at a time; *)
(* what was left behind is never touched again; and nothing is touched    *)
(* before there is an archive or once the result is there.                 *)
(***************************************************************************)
EXTENDS Integers

CONSTANT MaxEntries   \* the longest archive

VARIABLES
    stage,   \* "off", "busy", "over"
    count,   \* entries of the archive
    at,      \* entry that is being unpacked
    got,     \* "none", "part" or "whole", for each entry
    result   \* "ok" or "error", once over

uvars == <<stage, count, at, got, result>>

Entries == 1 .. MaxEntries
Untouched == [k \in Entries |-> "none"]

Init == stage = "off" /\ count = 0 /\ at = 0 /\ got = Untouched /\ result = "ok"

Begin ==
    /\ stage = "off" /\ stage' = "busy"
    /\ count' \in Entries /\ at' = 1 /\ got' = Untouched /\ result' = "ok"

(* There is no archive, or nothing in it. *)
Refuse ==
    /\ stage = "off" /\ stage' = "over"
    /\ count' = 0 /\ at' = 1 /\ got' = Untouched /\ result' \in {"ok", "error"}

Touch ==
    /\ stage = "busy" /\ at <= count
    /\ \E g \in {"part", "whole"} : got' = [got EXCEPT ![at] = g]
    /\ UNCHANGED <<stage, count, at, result>>

Advance == stage = "busy" /\ at' = at + 1 /\ UNCHANGED <<stage, count, got, result>>

End ==
    /\ stage = "busy" /\ stage' = "over" /\ result' \in {"ok", "error"}
    /\ UNCHANGED <<count, at, got>>

Forget ==
    /\ stage = "over" /\ stage' = "off"
    /\ count' = 0 /\ at' = 0 /\ got' = Untouched /\ result' = "ok"

Next == Begin \/ Refuse \/ Touch \/ Advance \/ End \/ Forget

Spec == Init /\ [][Next]_uvars
=============================================================================
