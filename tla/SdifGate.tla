------------------------------ MODULE SdifGate ------------------------------
(***************************************************************************)
(* The eMMC gate that recoVery's boot patch puts in front of SceSdif's     *)
(* sector I/O: recoVery/src/patch/kernel.c, sdif_read_sector_mmc_patched   *)
(* and sdif_write_sector_mmc_patched.  Two flags, both down at boot, are   *)
(* set by calling the same entry points with the context 0xCAFEBABE.  The  *)
(* gate takes no lock: the flag is tested when a call comes in and the     *)
(* transfer happens later, so another thread may move the flag in between. *)
(***************************************************************************)
EXTENDS Integers

CONSTANTS
    Threads,    \* kernel threads that may be inside the hooks at a time
    BootEnd,    \* 0x200: first sector after the boot block
    SecondLo,   \* 0x4000: last sector before the second guarded region
    SecondHi,   \* 0x8000: first sector after it
    LastSector, \* last sector of a storage device
    Counts      \* values of nSectors the callers use

ASSUME GateAssumption ==
    /\ BootEnd \in Nat /\ SecondLo \in Nat /\ SecondHi \in Nat
    /\ 1 < BootEnd /\ BootEnd <= SecondLo /\ SecondLo < SecondHi
    /\ LastSector \in Nat \ {0}
    /\ Counts \subseteq Nat

VARIABLES
    gateR,   \* g_allow_bread
    gateW,   \* g_allow_bwrite
    call,    \* what each thread does inside the hooks
    sneaked  \* (history) eMMC sectors written by calls that met a closed gate

vars == <<gateR, gateW, call, sneaked>>

Sector    == 0 .. LastSector
BootBlock == 0 .. BootEnd - 1
Protected == BootBlock \cup (SecondLo + 1 .. SecondHi - 1)
Span(s, n) == s .. s + n - 1

NoData == [i \in {} |-> 0]
Idle   == [op |-> "idle", mmc |-> FALSE, s |-> 0, n |-> 0, asked |-> FALSE, got |-> NoData]

(***************************************************************************)
(* The two tests of the gate.  mmc says that ctx is the internal eMMC, the *)
(* context get_sd_context_part_validate_mmc(0) returns.                    *)
(***************************************************************************)
ReadDiverted(mmc, s, n, allow) == s = 0 /\ allow = 0 /\ n > 0 /\ mmc
(* variant: the second region is forgotten *)
WriteRefusedFirst(s, allow) == s < BootEnd /\ allow = 0
WriteRefused(s, allow) ==
    (s < BootEnd \/ (s < SecondHi /\ s > SecondLo)) /\ allow = 0

(* What a caller's buffer may hold: the sectors delivered, by position. *)
Data == UNION {[D -> Sector] : D \in SUBSET Sector}

Call == [op : {"idle", "read", "mbr", "mbrRest", "write", "refused", "done"},
         mmc : BOOLEAN, s : Sector, n : Nat, asked : BOOLEAN, got : Data]

TypeOK ==
    /\ gateR \in {0, 1} /\ gateW \in {0, 1}
    /\ sneaked \subseteq Sector
    /\ call \in [Threads -> Call]
    /\ \A t \in Threads : DOMAIN call[t].got \subseteq 0 .. call[t].n - 1

-----------------------------------------------------------------------------
Init ==
    /\ gateR = 0 /\ gateW = 0
    /\ call = [t \in Threads |-> Idle]
    /\ sneaked = {}

(* The magic context: the flag takes the value of nSectors. *)
AskRead(k)  == gateR' = k /\ UNCHANGED <<gateW, call, sneaked>>
AskWrite(k) == gateW' = k /\ UNCHANGED <<gateR, call, sneaked>>

Enter(t, op, mmc, s, n, asked) ==
    call' = [call EXCEPT ![t] = [op |-> op, mmc |-> mmc, s |-> s, n |-> n,
                                 asked |-> asked, got |-> NoData]]

(* sdif_read_sector_mmc_patched up to the choice of what to read. *)
CallRead(t, mmc, s, n) ==
    /\ call[t].op = "idle"
    /\ s + n - 1 <= LastSector
    /\ Enter(t, IF ReadDiverted(mmc, s, n, gateR) THEN "mbr" ELSE "read",
             mmc, s, n, gateR # 0)
    /\ UNCHANGED <<gateR, gateW, sneaked>>

(* sdif_write_sector_mmc_patched up to the refusal or the transfer. *)
CallWrite(t, mmc, s, n) ==
    /\ call[t].op = "idle"
    /\ s + n - 1 <= LastSector
    /\ Enter(t, IF WriteRefused(s, gateW) THEN "refused" ELSE "write",
             mmc, s, n, gateW # 0)
    /\ UNCHANGED <<gateR, gateW, sneaked>>

Step(t, op, got) ==
    /\ call' = [call EXCEPT ![t].op = op, ![t].got = got]
    /\ UNCHANGED <<gateR, gateW>>

(* The plain read: it fills the buffer or fails. *)
DoRead(t) ==
    /\ call[t].op = "read"
    /\ \E ok \in BOOLEAN :
         Step(t, "done", IF ok THEN [i \in 0 .. call[t].n - 1 |-> call[t].s + i]
                               ELSE NoData)
    /\ UNCHANGED sneaked

(* The first half of a diverted read: sector 1 in place of sector 0. *)
DoMbr(t) ==
    /\ call[t].op = "mbr"
    /\ \/ /\ call[t].n > 1
          /\ Step(t, "mbrRest", [i \in {0} |-> 1])
       \/ /\ call[t].n <= 1
          /\ Step(t, "done", [i \in {0} |-> 1])
       \/ Step(t, "done", NoData)
    /\ UNCHANGED sneaked

(* variant: the second half goes on after the sector just delivered *)
DoMbrRestSkip(t) ==
    /\ call[t].op = "mbrRest"
    /\ \/ Step(t, "done", [i \in 0 .. call[t].n - 1 |->
                              IF i = 0 THEN call[t].got[0] ELSE 1 + i])
       \/ Step(t, "done", call[t].got)
    /\ UNCHANGED sneaked
(* The second half: nSectors - 1 sectors from sector 1, one sector further
   into the buffer. *)
DoMbrRest(t) ==
    /\ call[t].op = "mbrRest"
    /\ \/ Step(t, "done", [i \in 0 .. call[t].n - 1 |->
                              IF i = 0 THEN call[t].got[0] ELSE 1 + (i - 1)])
       \/ Step(t, "done", call[t].got)
    /\ UNCHANGED sneaked

(* The transfer of an admitted write; a failing one changes nothing. *)
DoWrite(t) ==
    /\ call[t].op = "write"
    /\ Step(t, "done", NoData)
    /\ \/ sneaked' = IF call[t].mmc /\ ~call[t].asked
                     THEN sneaked \cup Span(call[t].s, call[t].n) ELSE sneaked
       \/ UNCHANGED sneaked

Return(t) ==
    /\ call[t].op \in {"done", "refused"}
    /\ call' = [call EXCEPT ![t] = Idle]
    /\ UNCHANGED <<gateR, gateW, sneaked>>

Next ==
    \/ \E k \in {0, 1} : AskRead(k) \/ AskWrite(k)
    \/ \E t \in Threads :
         \/ \E mmc \in BOOLEAN, s \in Sector, n \in Counts :
              CallRead(t, mmc, s, n) \/ CallWrite(t, mmc, s, n)
         \/ DoRead(t) \/ DoMbr(t) \/ DoMbrRest(t) \/ DoWrite(t) \/ Return(t)

Spec == Init /\ [][Next]_vars

-----------------------------------------------------------------------------
(* A read of the eMMC that met the closed gate never delivers sector 0, the
   MBR, whatever its length and whenever the flag moves: "block from reading
   mbr unless prev asked" (kernel.c:57).  *)
MbrHidden ==
    \A t \in Threads :
      (call[t].op = "done" /\ call[t].mmc /\ ~call[t].asked) =>
        \A i \in DOMAIN call[t].got : call[t].got[i] # 0

(* Every position of the buffer holds the sector the caller asked for, except
   that the first of a read of the eMMC which met the closed gate at sector 0
   holds sector 1: the MBR is hidden, and hiding it disturbs nothing else.  *)
ReadExact ==
    \A t \in Threads :
      call[t].op = "done" =>
        \A i \in DOMAIN call[t].got :
          call[t].got[i] =
            IF i = 0 /\ call[t].s = 0 /\ call[t].mmc /\ ~call[t].asked THEN 1
            ELSE call[t].s + i

(* No write that met the closed gate reaches a sector of the boot block, at
   any length and however the flag is moved while it is under way.  *)
BootBlockSafe == sneaked \cap BootBlock = {}

(* The second guarded region is reached past the closed gate only by a write
   that starts in the unguarded sectors between the two regions.  *)
SecondRegionReachedFromGap ==
    [][\A t \in Threads :
         (DoWrite(t) /\ (sneaked' \ sneaked) \cap Protected # {}) =>
            call[t].s \in BootEnd .. SecondLo]_vars

(* What kernel.c:78 says of the write hook, "block from writing boot sectors
   unless prev asked": no guarded sector is ever written by a call that met
   the closed gate.  The hook tests the first sector of a transfer only, so a
   longer transfer runs into the second region.  *)
BootSectorsNeedAsking == sneaked \cap Protected = {}
=============================================================================
