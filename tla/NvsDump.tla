------------------------------ MODULE NvsDump ------------------------------
(***************************************************************************)
(* devdumper: source/nvs.c, dump_nvs.  The secure blocks of the NVS are    *)
(* fetched through a security module, which is loaded for it unless the    *)
(* caller has one; the plain blocks are read, in halves, while the NVS is  *)
(* acquired; then all of it is written to a file, as far as it will go.    *)
(***************************************************************************)
EXTENDS Integers

CONSTANTS
    SecureBlocks,  \* 0x20
    PlainBlocks    \* 0x3B

VARIABLES
    pc,
    sm,      \* the security module: "off", "callers", "ours", "stopped"
    given,   \* the caller has a module loaded (ctx is not -1)
    do_unload_sm,
    holder,  \* who has acquired the NVS: "none", "us", "other"
    i,
    sc_pbuf, \* the request to the security module: the block in it
    snvs,    \* secure part of the work buffer
    nvs,     \* plain part of the work buffer, in halves
    file,    \* the dump: NoFile, or as much as was written
    bad      \* (history) a call about a secure block failed

Zero == -1   \* what memset leaves
Junk == -2   \* what a failed exchange with the module leaves
Secure == 0 .. SecureBlocks - 1
Half == 0 .. 2 * PlainBlocks - 1   \* blocks of 0x10 bytes, as they are read
NoFile == [there |-> FALSE, secure |-> <<>>, plain |-> <<>>]

(* The file with the first n of the work buffer's blocks, counted as they were
   fetched: a write may take less than it is given. *)
Lengths == 0 .. SecureBlocks + 2 * PlainBlocks
Written(n) ==
    [there |-> TRUE,
     secure |-> [b \in {x \in Secure : x < n} |-> snvs[b]],
     plain |-> [h \in {x \in Half : SecureBlocks + x < n} |-> nvs[h]]]

TypeOK ==
    /\ pc \in {"off", "load", "secure", "ask", "acquire", "plain", "release", "write", "exit", "done"}
    /\ sm \in {"off", "callers", "ours", "stopped"}
    /\ given \in BOOLEAN /\ do_unload_sm \in BOOLEAN
    /\ holder \in {"none", "us", "other"}
    /\ i \in Nat
    /\ sc_pbuf \in Secure \cup {Zero, Junk}
    /\ snvs \in [Secure -> Secure \cup {Zero, Junk}]
    /\ nvs \in [Half -> Half \cup {Zero}]
    /\ file = NoFile \/ \E n \in Lengths : file = Written(n)
    /\ bad \subseteq Secure

Init ==
    /\ pc = "off" /\ given = FALSE /\ sm = "off"
    /\ do_unload_sm = FALSE /\ holder = "none"
    /\ i = 0 /\ sc_pbuf = Junk
    /\ snvs = [b \in Secure |-> Zero] /\ nvs = [h \in Half |-> Zero]
    /\ file = NoFile /\ bad = {}

-----------------------------------------------------------------------------
(* Called with the caller's security module, or with ctx = -1. *)
Call(ctx) ==
    /\ pc = "off" /\ given' = ctx
    /\ IF ctx THEN pc' = "secure" /\ sm' = "callers" ELSE pc' = "load" /\ sm' = "off"
    /\ holder' \in {"none", "other"}
    /\ UNCHANGED <<do_unload_sm, i, sc_pbuf, snvs, nvs, file, bad>>

LoadSm ==
    /\ pc = "load"
    /\ \/ sm' = "ours" /\ do_unload_sm' = TRUE /\ pc' = "secure"
       \/ UNCHANGED <<sm, do_unload_sm>> /\ pc' = "exit"
    /\ UNCHANGED <<given, holder, i, sc_pbuf, snvs, nvs, file, bad>>

(* variant: the request is not cleared for the next block *)
RequestKept == sc_pbuf
(* STEP 0 *)
Request == Zero

MoreSecure == i < SecureBlocks

NextSecure ==
    /\ pc = "secure"
    /\ \/ MoreSecure /\ sc_pbuf' = Request /\ pc' = "ask" /\ UNCHANGED i
       \/ i = SecureBlocks /\ i' = 0 /\ pc' = "acquire" /\ UNCHANGED sc_pbuf
    /\ UNCHANGED <<sm, given, do_unload_sm, holder, snvs, nvs, file, bad>>

NextBlock == i + 1

(* STEPs 1 to 3: none that fails ends the loop, and what the request holds
   then is copied out. *)
AskSecure ==
    /\ pc = "ask" /\ pc' = "secure"
    /\ \/ sc_pbuf' = i /\ UNCHANGED bad
       \/ sc_pbuf' \in {sc_pbuf, Junk} /\ bad' = bad \cup {i}
    /\ snvs' = [snvs EXCEPT ![i] = sc_pbuf']
    /\ i' = NextBlock
    /\ UNCHANGED <<sm, given, do_unload_sm, holder, nvs, file>>

(* STEP 0: waits until nobody else has acquired the NVS. *)
Acquire ==
    /\ pc = "acquire" /\ holder = "none"
    /\ holder' = "us" /\ pc' = "plain"
    /\ UNCHANGED <<sm, given, do_unload_sm, i, sc_pbuf, snvs, nvs, file, bad>>

(* variant: a failing read leaves the NVS acquired *)
FreeOnErrorNot == holder
FreeOnError == "none"

AfterError == "exit"

(* STEPs 2 and 3 read half a block each; the first that fails ends the dump. *)
ReadPlain ==
    /\ pc = "plain"
    /\ \/ /\ i \in Half /\ nvs' = [nvs EXCEPT ![i] = i]
          /\ i' = i + 1 /\ UNCHANGED <<pc, holder>>
       \/ /\ i \in Half /\ UNCHANGED <<nvs, i>>
          /\ holder' = FreeOnError /\ pc' = AfterError
       \/ /\ i \notin Half /\ pc' = "release" /\ UNCHANGED <<nvs, i, holder>>
    /\ UNCHANGED <<sm, given, do_unload_sm, sc_pbuf, snvs, file, bad>>

Release ==
    /\ pc = "release" /\ holder' = "none" /\ pc' = "write"
    /\ UNCHANGED <<sm, given, do_unload_sm, i, sc_pbuf, snvs, nvs, file, bad>>

(* The open may fail, or the write stop short anywhere: its result is ignored. *)
WriteFile ==
    /\ pc = "write" /\ pc' = "exit"
    /\ file' = NoFile \/ \E n \in Lengths : file' = Written(n)
    /\ UNCHANGED <<sm, given, do_unload_sm, holder, i, sc_pbuf, snvs, nvs, bad>>

Stopped == IF do_unload_sm THEN "stopped" ELSE sm

Exit ==
    /\ pc = "exit" /\ pc' = "done"
    /\ sm' = Stopped
    /\ UNCHANGED <<given, do_unload_sm, holder, i, sc_pbuf, snvs, nvs, file, bad>>

(* Everything of the call is gone but the file, which nothing touches again. *)
Return ==
    /\ pc = "done" /\ pc' = "off" /\ given' = FALSE /\ sm' = "off"
    /\ do_unload_sm' = FALSE /\ holder' = "none" /\ i' = 0 /\ sc_pbuf' = Junk
    /\ snvs' = [b \in Secure |-> Zero] /\ nvs' = [h \in Half |-> Zero]
    /\ file' = NoFile /\ bad' = {}

(* The rest of the system uses the NVS as well. *)
OtherAcquire ==
    /\ pc # "off" /\ holder = "none" /\ holder' = "other"
    /\ UNCHANGED <<pc, sm, given, do_unload_sm, i, sc_pbuf, snvs, nvs, file, bad>>
OtherRelease ==
    /\ holder = "other" /\ holder' = "none"
    /\ UNCHANGED <<pc, sm, given, do_unload_sm, i, sc_pbuf, snvs, nvs, file, bad>>

Dump == LoadSm \/ NextSecure \/ AskSecure \/ Acquire \/ ReadPlain \/ Release
        \/ WriteFile \/ Exit
Others == OtherAcquire \/ OtherRelease

-----------------------------------------------------------------------------
(* The NVS is ours exactly while halves are read, wherever the reading ends; a
   security module loaded here is stopped at every exit, the caller's is not. *)
Paired ==
    /\ (pc \in {"plain", "release"}) <=> (holder = "us")
    /\ pc = "done" => IF given THEN sm = "callers" ELSE sm \in {"off", "stopped"}

(* However short the write fell, the plain blocks in the file are those of
   their places, a secure block that was fetched is that block, and a failed one
   never shows another's contents. *)
FileTrue ==
    file.there =>
        /\ \A h \in DOMAIN file.plain : file.plain[h] = h
        /\ \A b \in DOMAIN file.secure :
             file.secure[b] = b \/ (b \in bad /\ file.secure[b] \in {Zero, Junk})
=============================================================================
