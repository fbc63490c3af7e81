----------------------------- MODULE Devdumper ------------------------------
(***************************************************************************)
(* devdumper: source/main.c as a whole.  With the buffer in hand,          *)
(* module_start goes through the dumps of module F00d, which call that of  *)
(* module NvsDump, and then dumps the devices (DevDump).                   *)
(***************************************************************************)
EXTENDS DevDump, F00d

CONSTANTS SecureBlocks, PlainBlocks  \* of the NVS

ASSUME NvsDumpAssumption == SecureBlocks \in Nat /\ PlainBlocks \in Nat

(* Variables of dump_nvs: npc and ni are its pc and its i. *)
VARIABLES npc, sm, given, do_unload_sm, holder, ni, sc_pbuf, snvs, nvs, file, bad

nvars == <<npc, sm, given, do_unload_sm, holder, ni, sc_pbuf, snvs, nvs, file, bad>>
dvars == <<vars, fvars, nvars>>

Nvs == INSTANCE NvsDump WITH pc <- npc, i <- ni

DTypeOK == TypeOK /\ FTypeOK /\ Nvs!TypeOK

DInit == Init /\ FInit /\ Nvs!Init

(* module_start is at the dumps that precede the devices'. *)
Before == pc = "next" /\ dev = 0 /\ ~Gone

CallNvs ==
    /\ At({"dump_nvs"}) /\ Nvs!Call(prog = "nvs")
    /\ UNCHANGED <<vars, fvars>>
ReturnNvs == Nvs!Return /\ NvsDumped /\ UNCHANGED vars

Part1 ==
    \/ Before /\ FStep /\ UNCHANGED <<vars, nvars>>
    \/ Before /\ CallNvs
    \/ ReturnNvs
NvsStep == Nvs!Dump /\ UNCHANGED <<vars, fvars>>
Acquires == Nvs!Acquire /\ UNCHANGED <<vars, fvars>>
Releases == Nvs!OtherRelease /\ UNCHANGED <<vars, fvars>>
Others == Nvs!Others /\ UNCHANGED <<vars, fvars>>
Devices == ~Before /\ Next /\ UNCHANGED <<fvars, nvars>>

DNext == Part1 \/ NvsStep \/ Others \/ Devices

(* The dumper never stops by itself; others give the NVS back, and who waits for
   it by asking again and again gets it at last. *)
DSpec ==
    /\ DInit /\ [][DNext]_dvars
    /\ WF_dvars(Part1 \/ NvsStep \/ Devices) /\ WF_dvars(Releases) /\ SF_dvars(Acquires)

-----------------------------------------------------------------------------
(* dump_nvs's two properties, of the dumper as a whole: the NVS and the security
   module it takes are given back, and what it writes is what it read. *)
NvsPaired == Nvs!Paired
NvsFileTrue == Nvs!FileTrue
=============================================================================
