-------------------------------- MODULE F00d --------------------------------
(***************************************************************************)
(* devdumper: source/f00d.c and the bookkeeping of source/nmprunner.h that *)
(* its two dumps go through: a block of memory that is shared with the     *)
(* security processor, and a security module that is started and stopped.  *)
(* What runs on that processor is external: a program that was copied whole*)
(* leaves its results in memory of its own.                                *)
(***************************************************************************)
EXTENDS Integers, Sequences

CONSTANT Build  \* parts of module_start that are compiled in

ASSUME F00dAssumption == Build \subseteq {"kr", "nvs", "nvs_nof00d"}

VARIABLES
    fw,        \* the firmware is one the programs are made for
    todo,      \* parts of module_start still to come
    prog,      \* the part that runs, or "none"
    fstep,     \* the call it is at
    NMPbuid,   \* "none", "block", or "failed": the number of an error
    running,   \* security modules started and not stopped
    ram,       \* what is in each area of the shared memory
    dump,      \* the files of the keyring and the bus
    fret       \* what each part returned

fvars == <<fw, todo, prog, fstep, NMPbuid, running, ram, dump, fret>>

Parts == {"kr", "nvs", "nvs_nof00d"}
(* The order the parts run in. *)
Order == [kr |-> 1, nvs |-> 2, nvs_nof00d |-> 3]

(* The calls of f00d_dump_kr_xbar with NMPrun_default, and of f00d_dump_nvs. *)
Calls == [
    kr |-> <<"exploit_init", "configure", "reserve", "stage2", "main", "free", "jump",
             "stop", "reserve_out", "file_kr", "file_xbar", "free_out">>,
    nvs |-> <<"reserve", "firmware", "exploit_init", "configure", "stage2", "main",
              "jump", "free", "dump_nvs", "stop">>,
    nvs_nof00d |-> <<"dump_nvs">>]

Areas == {"kr", "nvs", "out"}

FTypeOK ==
    /\ fw \in BOOLEAN /\ todo \subseteq Parts /\ prog \in Parts \cup {"none"} /\ fstep \in 0 .. 12
    /\ NMPbuid \in {"none", "block", "failed"} /\ running \in Nat
    /\ ram \in [Areas -> SUBSET {"stage2", "main", "result"}]
    /\ dump \in [{"kr", "xbar"} -> {"none", "result", "short", "other"}]
    /\ fret \in [Parts -> {"none", "ok", "error"}]

FInit ==
    /\ fw \in BOOLEAN
    /\ todo = Build
    /\ prog = "none" /\ fstep = 0
    /\ NMPbuid = "none" /\ running = 0
    /\ ram = [a \in Areas |-> {}] /\ dump = [f \in {"kr", "xbar"} |-> "none"]
    /\ fret = [p \in Parts |-> "none"]

-----------------------------------------------------------------------------
FBegin ==
    /\ prog = "none" /\ fstep' = 1
    /\ \E p \in todo :
          /\ \A q \in todo : Order[p] <= Order[q]
          /\ prog' = p /\ todo' = todo \ {p}
    /\ UNCHANGED <<fw, NMPbuid, running, ram, dump, fret>>

At(calls) == prog # "none" /\ Calls[prog][fstep] \in calls
FEnd(r) == prog' = "none" /\ fstep' = 0 /\ fret' = [fret EXCEPT ![prog] = r]
Ahead ==
    IF fstep = Len(Calls[prog]) THEN FEnd("ok")
    ELSE fstep' = fstep + 1 /\ UNCHANGED <<prog, fret>>
(* A call that fails ends the part, whatever the part has taken by then. *)
Fail == FEnd("error")

(* The firmware is looked at after the memory has been reserved, and after a
   security module has been started. *)
NMPexploit_init ==
    /\ At({"exploit_init"})
    /\ \/ running' = running + 1 /\ IF fw THEN Ahead ELSE Fail
       \/ Fail /\ UNCHANGED running
    /\ UNCHANGED <<fw, todo, NMPbuid, ram, dump>>

Firmware ==
    /\ At({"firmware", "configure"}) /\ IF fw THEN Ahead ELSE Fail
    /\ UNCHANGED <<fw, todo, NMPbuid, running, ram, dump>>

Area == IF At({"reserve_out", "free_out"}) THEN "out" ELSE prog
Clear(a) == [ram EXCEPT ![a] = {}]
(* variant: the memory the results are in is cleared as well *)
ClearsAll == At({"reserve", "reserve_out"})
(* smset of NMPreserve_commem *)
Clears == At({"reserve"})

(* An allocation that fails leaves a number that is not -1. *)
NMPreserve_commem ==
    /\ At({"reserve", "reserve_out"})
    /\ \/ /\ NMPbuid = "none" /\ NMPbuid' = "block" /\ Ahead
          /\ ram' = IF Clears THEN Clear(Area) ELSE ram
       \/ NMPbuid = "none" /\ NMPbuid' = "failed" /\ Fail /\ UNCHANGED ram
       \/ NMPbuid # "none" /\ Fail /\ UNCHANGED <<NMPbuid, ram>>
    /\ UNCHANGED <<fw, todo, running, dump>>

(* Both copies fit. *)
NMPcopy ==
    /\ At({"stage2", "main"}) /\ Ahead
    /\ ram' = [ram EXCEPT ![prog] = @ \cup {Calls[prog][fstep]}]
    /\ UNCHANGED <<fw, todo, NMPbuid, running, dump>>

(* Before the program has run, its memory is freed as it is. *)
Wipes == prog = "nvs" \/ At({"free_out"})
NMPfree_commem ==
    /\ At({"free", "free_out"}) /\ NMPbuid' = "none" /\ Ahead
    /\ ram' = IF Wipes THEN Clear(Area) ELSE ram
    /\ UNCHANGED <<fw, todo, running, dump>>

(* The program runs, or the call fails. *)
NMPf00d_jump ==
    /\ At({"jump"})
    /\ \/ /\ Ahead
          /\ ram' = IF prog = "kr" /\ {"stage2", "main"} \subseteq ram.kr
                    THEN [ram EXCEPT !.out = {"result"}] ELSE ram
       \/ Fail /\ UNCHANGED ram
    /\ UNCHANGED <<fw, todo, NMPbuid, running, dump>>

(* variant: the module is left running after the dump *)
StopNot == running
(* ksceSblSmCommStopSm, whose result is not looked at. *)
Stop == running - 1
StopSm ==
    /\ At({"stop"}) /\ Ahead /\ running' = Stop
    /\ UNCHANGED <<fw, todo, NMPbuid, ram, dump>>

(* What is written is not counted. *)
NMPfile_op ==
    /\ \E f \in {"kr", "xbar"} :
          /\ At({IF f = "kr" THEN "file_kr" ELSE "file_xbar"})
          /\ \/ /\ Ahead
                /\ \E w \in {"short", IF ram.out = {"result"} THEN "result" ELSE "other"} :
                      dump' = [dump EXCEPT ![f] = w]
             \/ Fail /\ UNCHANGED dump
    /\ UNCHANGED <<fw, todo, NMPbuid, running, ram>>

(* dump_nvs has returned; it has no result. *)
NvsDumped ==
    /\ At({"dump_nvs"}) /\ Ahead
    /\ UNCHANGED <<fw, todo, NMPbuid, running, ram, dump>>

(* What the parts left lies where it is, and nothing that follows looks at it:
   it is let go here. *)
Gone ==
    /\ todo = {} /\ prog = "none" /\ NMPbuid = "none" /\ running = 0
    /\ ram = [a \in Areas |-> {}] /\ dump = [f \in {"kr", "xbar"} |-> "none"]
    /\ fret = [p \in Parts |-> "none"]
LetGo ==
    /\ prog = "none" /\ todo = {} /\ ~Gone
    /\ NMPbuid' = "none" /\ running' = 0
    /\ ram' = [a \in Areas |-> {}] /\ dump' = [f \in {"kr", "xbar"} |-> "none"]
    /\ fret' = [p \in Parts |-> "none"]
    /\ fw' = TRUE /\ UNCHANGED <<todo, prog, fstep>>

FStep == FBegin \/ NMPexploit_init \/ Firmware \/ NMPreserve_commem \/ NMPcopy
         \/ NMPfree_commem \/ NMPf00d_jump \/ StopSm \/ NMPfile_op \/ LetGo

-----------------------------------------------------------------------------
(* The files of the keyring and the bus hold what the program left, or are cut
   by a write that was not counted: the memory it ran in and the one its results
   are in are each cleared at the right moments only. *)
DumpTrue == \A f \in {"kr", "xbar"} : dump[f] # "other"

(* A part that returned 0 has given back what it took: memory that is still
   reserved, or a security module that still runs, between two parts was left by
   one that returned an error. *)
LeftTold ==
    prog = "none" /\ (NMPbuid # "none" \/ running > 0)
        => \E p \in Parts : fret[p] = "error"
=============================================================================
