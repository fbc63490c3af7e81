--------------------------- MODULE Plugins_proofs ---------------------------
(***************************************************************************)
(* What the parts of Plugins guarantee for any threads, cores, storages,   *)
(* modules, hooks and processes: first each by itself, then as they run    *)
(* in Plugins, which is shown to take no step that is not one of theirs.   *)
(***************************************************************************)
EXTENDS Plugins, FiniteSetTheorems, TLAPS

-----------------------------------------------------------------------------
(*****************************************************************************)
(* recoVery's gate: any threads, storage, regions and lengths of a transfer. *)
(*****************************************************************************)
(* What a call that met the closed gate is known to be about to do. *)
CallOK(c) ==
    /\ c.op # "idle" => c.s + c.n - 1 <= LastSector
    /\ (c.op = "write" /\ ~c.asked) =>
         ~(c.s < BootEnd \/ (c.s < SecondHi /\ c.s > SecondLo))
    /\ (c.op = "read" /\ c.mmc /\ ~c.asked /\ c.n > 0) => c.s # 0
    /\ c.op \in {"mbr", "mbrRest"} => c.s = 0 /\ c.mmc /\ ~c.asked /\ c.n > 0
    /\ c.op = "mbrRest" => c.n > 1 /\ c.got = [i \in {0} |-> 1]
    /\ c.op = "done" =>
         \A i \in DOMAIN c.got :
           /\ (c.mmc /\ ~c.asked) => c.got[i] # 0
           /\ \/ c.got[i] = c.s + i
              \/ i = 0 /\ c.s = 0 /\ c.mmc /\ ~c.asked /\ c.got[i] = 1

(* The inductive invariant. *)
GateInv ==
    /\ TypeOK
    /\ \A t \in Threads : CallOK(call[t])
    /\ sneaked \cap BootBlock = {}

(* An untouched buffer is a legal one. *)
LEMMA NoDataIsData ==
    NoData \in Data /\ DOMAIN NoData = {}
<1>1. NoData \in [{} -> Sector] BY DEF NoData
<1> QED BY <1>1 DEF Data, NoData

(* A full buffer of in-range sectors is data. *)
LEMMA FullIsData ==
    ASSUME NEW n \in Nat, NEW f, n - 1 <= LastSector,
           f \in [0 .. n - 1 -> Sector]
    PROVE  f \in Data /\ DOMAIN f = 0 .. n - 1
<1>1. 0 .. n - 1 \in SUBSET Sector BY GateAssumption DEF Sector
<1> QED BY <1>1 DEF Data

(* The gate starts in the invariant. *)
LEMMA GateInit == Init => GateInv
<1> SUFFICES ASSUME Init PROVE GateInv OBVIOUS
<1>1. Idle \in Call
  BY NoDataIsData, GateAssumption DEF Idle, Call, Sector
<1>2. TypeOK BY <1>1, NoDataIsData DEF Init, TypeOK, Idle
<1>3. CallOK(Idle) BY NoDataIsData DEF CallOK, Idle
<1> QED BY <1>2, <1>3 DEF Init, GateInv

(* Coming in through either hook: the test of the gate sets what is known. *)
LEMMA GateEnter ==
    ASSUME GateInv, NEW t \in Threads, NEW mmc \in BOOLEAN, NEW s \in Sector,
           NEW n \in Counts, CallRead(t, mmc, s, n) \/ CallWrite(t, mmc, s, n)
    PROVE  GateInv'
<1>0. n \in Nat /\ s \in Int BY GateAssumption DEF Sector
<1> DEFINE c == call'[t]
<1>1. \E op \in {"mbr", "read", "refused", "write"}, asked \in BOOLEAN :
         /\ c = [op |-> op, mmc |-> mmc, s |-> s, n |-> n, asked |-> asked, got |-> NoData]
         /\ call' = [call EXCEPT ![t] = c]
         /\ s + n - 1 <= LastSector
         /\ op = "mbr" => ReadDiverted(mmc, s, n, gateR) /\ ~asked
         /\ op = "read" => ~ReadDiverted(mmc, s, n, gateR) /\ (asked <=> gateR # 0)
         /\ op = "write" => ~WriteRefused(s, gateW) /\ (asked <=> gateW # 0)
  <2>1. CASE CallRead(t, mmc, s, n)
    BY <2>1 DEF CallRead, Enter, GateInv, TypeOK, ReadDiverted
  <2>2. CASE CallWrite(t, mmc, s, n)
    BY <2>2 DEF CallWrite, Enter, GateInv, TypeOK
  <2> QED BY <2>1, <2>2
<1>2. UNCHANGED <<gateR, gateW, sneaked>> BY DEF CallRead, CallWrite
<1>3. c \in Call
  BY <1>0, <1>1, NoDataIsData DEF Call
<1>4. TypeOK'
  BY <1>1, <1>2, <1>3, NoDataIsData DEF GateInv, TypeOK
<1>5. CallOK(c)
  BY <1>0, <1>1, NoDataIsData DEF CallOK, ReadDiverted, WriteRefused, GateInv, TypeOK
<1>6. \A u \in Threads : CallOK(call'[u])
  BY <1>1, <1>5 DEF GateInv, TypeOK
<1> QED BY <1>2, <1>4, <1>6 DEF GateInv

(* A step of thread t that only moves its own call to a state that is OK. *)
LEMMA GateStep ==
    ASSUME GateInv, NEW t \in Threads, NEW op, NEW got \in Data,
           op \in {"mbrRest", "done"},
           call[t].op \in {"read", "mbr", "mbrRest", "write"},
           Step(t, op, got),
           DOMAIN got \subseteq 0 .. call[t].n - 1,
           op = "mbrRest" => call[t].op = "mbr" /\ call[t].n > 1 /\ got = [i \in {0} |-> 1],
           op = "done" => \A i \in DOMAIN got :
              /\ (call[t].mmc /\ ~call[t].asked) => got[i] # 0
              /\ \/ got[i] = call[t].s + i
                 \/ i = 0 /\ call[t].s = 0 /\ call[t].mmc /\ ~call[t].asked /\ got[i] = 1,
           sneaked' \subseteq Sector, sneaked' \cap BootBlock = {}
    PROVE  GateInv'
<1> DEFINE c == [call[t] EXCEPT !.op = op, !.got = got]
<1>1. call[t] \in Call /\ CallOK(call[t]) BY DEF GateInv, TypeOK
<1>2. call' = [call EXCEPT ![t] = c] BY DEF Step, GateInv, TypeOK, Call
<1>3. c \in Call BY <1>1 DEF Call
<1>4. CallOK(c) BY <1>1 DEF CallOK, Call
<1>5. TypeOK' BY <1>2, <1>3, <1>1 DEF GateInv, TypeOK, Step, Call
<1>6. \A u \in Threads : CallOK(call'[u]) BY <1>2, <1>4 DEF GateInv, TypeOK
<1> QED BY <1>5, <1>6 DEF GateInv

(* A buffer holding sector 1 at position 0 is a legal one. *)
LEMMA OneIsData ==
    /\ [i \in {0} |-> 1] \in Data
    /\ DOMAIN [i \in {0} |-> 1] = {0} /\ [i \in {0} |-> 1][0] = 1
<1>1. {0} \in SUBSET Sector /\ 1 \in Sector BY GateAssumption DEF Sector
<1>2. [i \in {0} |-> 1] \in [{0} -> Sector] BY <1>1
<1> QED BY <1>1, <1>2 DEF Data

(* Every step of the hooks keeps the invariant. *)
LEMMA GateNext == GateInv /\ [Next]_vars => GateInv'
<1> SUFFICES ASSUME GateInv, [Next]_vars PROVE GateInv' OBVIOUS
<1>1. ASSUME NEW k \in {0, 1}, AskRead(k) \/ AskWrite(k) PROVE GateInv'
  BY <1>1 DEF AskRead, AskWrite, GateInv, TypeOK
<1>2. ASSUME NEW t \in Threads, NEW mmc \in BOOLEAN, NEW s \in Sector, NEW n \in Counts,
             CallRead(t, mmc, s, n) \/ CallWrite(t, mmc, s, n)
      PROVE  GateInv'
  BY <1>2, GateEnter
<1>t. ASSUME NEW t \in Threads
      PROVE  /\ call[t] \in Call /\ CallOK(call[t])
             /\ call[t].s \in Int /\ call[t].n \in Nat /\ call[t].s \in Sector
             /\ call[t].mmc \in BOOLEAN /\ call[t].asked \in BOOLEAN
  BY GateAssumption DEF GateInv, TypeOK, Call, Sector
<1>3. ASSUME NEW t \in Threads, DoRead(t) PROVE GateInv'
  <2> DEFINE full == [i \in 0 .. call[t].n - 1 |-> call[t].s + i]
  <2>0. call[t].op = "read" /\ call[t].s + call[t].n - 1 <= LastSector
    BY <1>3, <1>t DEF DoRead, CallOK
  <2>1. CASE Step(t, "done", full)
    <3>1. full \in [0 .. call[t].n - 1 -> Sector]
      BY <2>0, <1>t, GateAssumption DEF Sector
    <3>2. full \in Data /\ DOMAIN full = 0 .. call[t].n - 1
      <4>1. call[t].n - 1 <= LastSector BY <2>0, <1>t, GateAssumption DEF Sector
      <4> QED BY <3>1, <4>1, <1>t, FullIsData
    <3>3. \A i \in 0 .. call[t].n - 1 :
            (call[t].mmc /\ ~call[t].asked) => call[t].s + i # 0
      <4>1. (call[t].mmc /\ ~call[t].asked /\ call[t].n > 0) => call[t].s # 0
        BY <2>0, <1>t DEF CallOK
      <4>2. call[t].s >= 0 BY <1>t, GateAssumption DEF Sector
      <4> QED BY <4>1, <4>2, <1>t
    <3>4. sneaked' = sneaked BY <1>3 DEF DoRead
    <3> QED BY <2>0, <2>1, <3>2, <3>3, <3>4, GateStep DEF GateInv, TypeOK
  <2>2. CASE Step(t, "done", NoData)
    <3>4. sneaked' = sneaked BY <1>3 DEF DoRead
    <3> QED BY <2>0, <2>2, <3>4, NoDataIsData, GateStep DEF GateInv, TypeOK
  <2> QED BY <1>3, <2>1, <2>2 DEF DoRead
<1>4. ASSUME NEW t \in Threads, DoMbr(t) PROVE GateInv'
  <2> DEFINE one == [i \in {0} |-> 1]
  <2>0. /\ call[t].op = "mbr" /\ call[t].s = 0 /\ call[t].n > 0
        /\ call[t].mmc /\ ~call[t].asked /\ call[t].n - 1 <= LastSector
    BY <1>4, <1>t DEF DoMbr, CallOK
  <2>1. sneaked' = sneaked BY <1>4 DEF DoMbr
  <2>2. CASE call[t].n > 1 /\ Step(t, "mbrRest", one)
    BY <2>0, <2>1, <2>2, <1>t, OneIsData, GateStep DEF GateInv, TypeOK
  <2>3. CASE Step(t, "done", one)
    BY <2>0, <2>1, <2>3, <1>t, OneIsData, GateStep DEF GateInv, TypeOK
  <2>4. CASE Step(t, "done", NoData)
    BY <2>0, <2>1, <2>4, <1>t, NoDataIsData, GateStep DEF GateInv, TypeOK
  <2> QED BY <1>4, <2>2, <2>3, <2>4 DEF DoMbr
<1>5. ASSUME NEW t \in Threads, DoMbrRest(t) PROVE GateInv'
  <2> DEFINE all == [i \in 0 .. call[t].n - 1 |->
                       IF i = 0 THEN call[t].got[0] ELSE 1 + (i - 1)]
  <2>0. /\ call[t].op = "mbrRest" /\ call[t].s = 0 /\ call[t].n > 1
        /\ call[t].mmc /\ ~call[t].asked /\ call[t].n - 1 <= LastSector
        /\ call[t].got = [i \in {0} |-> 1]
    BY <1>5, <1>t DEF DoMbrRest, CallOK
  <2>1. sneaked' = sneaked BY <1>5 DEF DoMbrRest
  <2>2. CASE Step(t, "done", all)
    <3>1. all \in [0 .. call[t].n - 1 -> Sector]
      BY <2>0, <1>t, OneIsData, GateAssumption DEF Sector
    <3>2. all \in Data /\ DOMAIN all = 0 .. call[t].n - 1
      BY <3>1, <2>0, <1>t, FullIsData
    <3>3. \A i \in 0 .. call[t].n - 1 : all[i] = IF i = 0 THEN 1 ELSE i
      BY <2>0, <1>t, OneIsData
    <3> HIDE DEF all
    <3>4. \A i \in DOMAIN all :
             /\ all[i] # 0
             /\ all[i] = call[t].s + i \/ (i = 0 /\ all[i] = 1)
      BY <2>0, <3>2, <3>3
    <3> QED BY <2>0, <2>1, <2>2, <3>2, <3>4, <1>t, GateStep DEF GateInv, TypeOK
  <2>3. CASE Step(t, "done", call[t].got)
    BY <2>0, <2>1, <2>3, <1>t, OneIsData, GateStep DEF GateInv, TypeOK
  <2> QED BY <1>5, <2>2, <2>3 DEF DoMbrRest
<1>6. ASSUME NEW t \in Threads, DoWrite(t) PROVE GateInv'
  <2>0. /\ call[t].op = "write" /\ Step(t, "done", NoData)
        /\ call[t].s + call[t].n - 1 <= LastSector
    BY <1>6, <1>t DEF DoWrite, CallOK
  <2>1. CASE sneaked' = sneaked
    BY <2>0, <2>1, <1>t, NoDataIsData, GateStep DEF GateInv, TypeOK
  <2>2. CASE /\ ~call[t].asked
             /\ sneaked' = sneaked \cup Span(call[t].s, call[t].n)
    <3>1. call[t].s >= BootEnd
      BY <2>0, <2>2, <1>t, GateAssumption DEF CallOK
    <3>2. Span(call[t].s, call[t].n) \subseteq Sector
      BY <2>0, <1>t, GateAssumption DEF Span, Sector
    <3>3. Span(call[t].s, call[t].n) \cap BootBlock = {}
      BY <3>1, <1>t, GateAssumption DEF Span, BootBlock
    <3>4. sneaked' \subseteq Sector /\ sneaked' \cap BootBlock = {}
      BY <2>2, <3>2, <3>3 DEF GateInv, TypeOK
    <3> QED BY <2>0, <3>4, <1>t, NoDataIsData, GateStep
  <2> QED BY <1>6, <2>1, <2>2 DEF DoWrite
<1>7. ASSUME NEW t \in Threads, Return(t) PROVE GateInv'
  <2>1. Idle \in Call /\ CallOK(Idle) /\ DOMAIN Idle.got = {}
    BY NoDataIsData, GateAssumption DEF Idle, Call, Sector, CallOK
  <2>2. TypeOK' BY <1>7, <2>1 DEF Return, GateInv, TypeOK
  <2>3. \A u \in Threads : CallOK(call'[u])
    BY <1>7, <2>1 DEF Return, GateInv, TypeOK
  <2> QED BY <1>7, <2>2, <2>3 DEF Return, GateInv
<1>8. CASE UNCHANGED vars
  BY <1>8 DEF vars, GateInv, TypeOK
<1> QED BY <1>1, <1>2, <1>3, <1>4, <1>5, <1>6, <1>7, <1>8 DEF Next

(* GateInv holds in every state. *)
LEMMA GateInductive == Spec => []GateInv
BY GateInit, GateNext, PTL DEF Spec

(* The flags, the calls under way and the written sectors are what they are
   meant to be; in particular no read delivers more than was asked for. *)
THEOREM GateTypeCorrect == Spec => []TypeOK
<1>1. GateInv => TypeOK BY DEF GateInv
<1> QED BY <1>1, GateInductive, PTL

(* "block from reading mbr unless prev asked" (kernel.c:57): however long the
   read and however many threads, the MBR is never delivered by a call that
   met the closed gate. *)
THEOREM MbrStaysHidden == Spec => []MbrHidden
<1>1. GateInv => MbrHidden BY DEF GateInv, CallOK, MbrHidden
<1> QED BY <1>1, GateInductive, PTL

(* The diversion of the MBR leaves every other position of the buffer right. *)
THEOREM ReadsExact == Spec => []ReadExact
<1>1. GateInv => ReadExact BY DEF GateInv, CallOK, ReadExact
<1> QED BY <1>1, GateInductive, PTL

(* The boot block proper is safe from transfers of every length. *)
THEOREM BootBlockStaysSafe == Spec => []BootBlockSafe
<1>1. GateInv => BootBlockSafe BY DEF GateInv, BootBlockSafe
<1> QED BY <1>1, GateInductive, PTL

(* The only hole of the gate: a write that changes a guarded sector without
   the grant starts between the two guarded regions. *)
THEOREM HoleIsTheGap == Spec => SecondRegionReachedFromGap
<1>1. GateInv /\ [Next]_vars =>
        [\A t \in Threads :
           (DoWrite(t) /\ (sneaked' \ sneaked) \cap Protected # {}) =>
              call[t].s \in BootEnd .. SecondLo]_vars
  <2> SUFFICES ASSUME GateInv, NEW t \in Threads, DoWrite(t),
                      (sneaked' \ sneaked) \cap Protected # {}
               PROVE  call[t].s \in BootEnd .. SecondLo
    OBVIOUS
  <2>1. /\ call[t].op = "write" /\ ~call[t].asked
        /\ sneaked' = sneaked \cup Span(call[t].s, call[t].n)
    BY DEF DoWrite
  <2>2. /\ call[t].s \in Int /\ call[t].n \in Nat
        /\ call[t].s >= BootEnd
        /\ ~(call[t].s < SecondHi /\ call[t].s > SecondLo)
    BY <2>1, GateAssumption DEF GateInv, TypeOK, Call, CallOK, Sector
  <2>3. PICK x \in Protected : x \in Span(call[t].s, call[t].n) BY <2>1
  <2> QED BY <2>2, <2>3, GateAssumption DEF Span, Protected, BootBlock
<1> QED BY <1>1, GateInductive, PTL DEF Spec, SecondRegionReachedFromGap

-----------------------------------------------------------------------------
(*****************************************************************************)
(* vlog: any cores and lines.                                                *)
(*****************************************************************************)
LogStage == {"out", "test", "reset", "mark", "draw", "load", "store", "wrap", "clear"}

LogTyped ==
    /\ pos \in Int /\ reg \in [Core -> Int]
    /\ at \in [Core -> LogStage]

(* A caller that is bound to find its row behind the last one. *)
Returns(c) == at[c] = "clear" \/ (at[c] = "wrap" /\ reg[c] > Bottom)

(* PosHeals is not inductive: a caller about to test may find a smaller copy.
   Whoever stores a row behind the last one does not. *)
LogInv ==
    /\ LogTyped
    /\ Top <= pos /\ \A c \in Core : Top <= reg[c]
    /\ pos > Bottom => \E c \in Core : Returns(c)

(* Initially every row is the first. *)
LEMMA LogInitInv == LogInit => LogInv
BY DEF LogInit, LogInv, LogTyped, LogStage, Top, Bottom

(* Where pos and every copy stay, who was bound to return still is. *)
LEMMA RowKept ==
    ASSUME LogInv, NEW c \in Core, NEW from, NEW to,
           Goes(c, from, to), to \in LogStage, from \notin {"wrap", "clear"},
           UNCHANGED <<pos, reg>>
    PROVE  LogInv'
<1>1. LogTyped' BY DEF LogInv, LogTyped, Goes
<1>2. (Top <= pos /\ \A d \in Core : Top <= reg[d])' BY DEF LogInv
<1>3. ASSUME NEW d \in Core, Returns(d) PROVE Returns(d)'
  BY <1>3 DEF Returns, Goes, LogInv, LogTyped
<1>4. (pos > Bottom => \E d \in Core : Returns(d))' BY <1>3 DEF LogInv
<1> QED BY <1>1, <1>2, <1>4 DEF LogInv

(* Every step of a caller keeps the invariant. *)
LEMMA CallerLogInv ==
    ASSUME LogInv, NEW c \in Core, KernelDebugPrintfCallback(c) PROVE LogInv'
<1> USE DEF Top, Bottom, RowStep
<1>1. CASE PrintLine(c) BY <1>1, RowKept DEF PrintLine, LogStage
<1>2. CASE TestMark(c) BY <1>2, RowKept DEF TestMark, LogStage
<1>3. CASE SetMark(c) BY <1>3, RowKept DEF SetMark, LogStage
<1>4. CASE BlitString(c) BY <1>4, RowKept DEF BlitString, LogStage
<1>5. CASE ResetPos(c)
  <2>1. pos' = Top /\ reg' = reg /\ Goes(c, "reset", "mark") BY <1>5 DEF ResetPos
  <2> QED BY <2>1 DEF LogInv, LogTyped, Goes, LogStage
<1>6. CASE Wrap(c)
  <2>1. pos' = Top /\ reg' = reg /\ Goes(c, "clear", "out") BY <1>6 DEF Wrap
  <2> QED BY <2>1 DEF LogInv, LogTyped, Goes, LogStage
<1>7. CASE Load(c)
  <2>1. pos' = pos /\ reg' = [reg EXCEPT ![c] = pos] /\ Goes(c, "load", "store")
    BY <1>7 DEF Load
  <2>2. LogTyped' BY <2>1 DEF LogInv, LogTyped, Goes, LogStage
  <2>3. (Top <= pos /\ \A d \in Core : Top <= reg[d])' BY <2>1 DEF LogInv, LogTyped
  <2>4. ASSUME NEW d \in Core, Returns(d) PROVE Returns(d)'
    BY <2>1, <2>4 DEF Returns, Goes, LogInv, LogTyped
  <2> QED BY <2>1, <2>2, <2>3, <2>4 DEF LogInv
<1>8. CASE Store(c)
  <2>1. /\ pos' = reg[c] + RowStep /\ reg' = [reg EXCEPT ![c] = reg[c] + RowStep]
        /\ Goes(c, "store", "wrap")
    BY <1>8 DEF Store
  <2>2. LogTyped' BY <2>1 DEF LogInv, LogTyped, Goes, LogStage
  <2>3. (Top <= pos /\ \A d \in Core : Top <= reg[d])' BY <2>1 DEF LogInv, LogTyped
  <2>4. reg'[c] = pos' /\ at'[c] = "wrap" BY <2>1 DEF LogInv, LogTyped, Goes
  <2>5. (pos > Bottom => Returns(c))' BY <2>4 DEF Returns
  <2> QED BY <2>2, <2>3, <2>5 DEF LogInv
<1>9. CASE TestRow(c)
  <2>1. PICK p \in {reg[c], pos} : IF Behind(p) THEN Goes(c, "wrap", "clear")
                                                ELSE Goes(c, "wrap", "out")
    BY <1>9 DEF TestRow
  <2>2. pos' = pos /\ reg' = [reg EXCEPT ![c] = Top] BY <1>9 DEF TestRow
  <2>3. LogTyped' BY <2>1, <2>2 DEF LogInv, LogTyped, Goes, LogStage
  <2>4. (Top <= pos /\ \A d \in Core : Top <= reg[d])' BY <2>2 DEF LogInv, LogTyped
  <2>5. ASSUME pos > Bottom, NEW d \in Core, Returns(d) PROVE Returns(d)'
    <3>1. CASE d # c BY <2>1, <2>2, <2>5, <3>1 DEF Returns, Goes, LogInv, LogTyped
    <3>2. CASE d = c
      <4>1. reg[c] > Bottom BY <2>1, <2>5, <3>2 DEF Returns, Goes
      <4>2. Goes(c, "wrap", "clear") BY <2>1, <2>5, <4>1 DEF Behind
      <4>3. at'[c] = "clear" BY <4>2 DEF Goes, LogInv, LogTyped
      <4> QED BY <3>2, <4>3 DEF Returns
    <3> QED BY <3>1, <3>2
  <2> QED BY <2>2, <2>3, <2>4, <2>5 DEF LogInv
<1> QED BY <1>1, <1>2, <1>3, <1>4, <1>5, <1>6, <1>7, <1>8, <1>9
  DEF KernelDebugPrintfCallback

(* So does every step. *)
LEMMA LogNextInv == LogInv /\ [LogNext]_lvars => LogInv'
<1> SUFFICES ASSUME LogInv, [LogNext]_lvars PROVE LogInv' OBVIOUS
<1>1. ASSUME NEW c \in Core, KernelDebugPrintfCallback(c) PROVE LogInv' BY <1>1, CallerLogInv
<1>2. CASE Overdraw BY <1>2 DEF Overdraw, LogInv, LogTyped, Returns
<1>3. CASE UNCHANGED lvars BY <1>3 DEF lvars, LogInv, LogTyped, Returns
<1> QED BY <1>1, <1>2, <1>3 DEF LogNext

(* However many cores print, and wherever they take turns in the callback, an
   overrun of pos has a caller still to take it back. *)
THEOREM PosHealsHolds == LogSpec => []PosHeals
<1>1. LogInv => PosHeals BY DEF LogInv, PosHeals, Returns
<1> QED BY <1>1, LogInitInv, LogNextInv, PTL DEF LogSpec

-----------------------------------------------------------------------------
(*****************************************************************************)
(* pdbridge: any threads and modules.                                        *)
(*****************************************************************************)
(* Ids that have been given out. *)
IdsKnown ==
    /\ uids \in Nat /\ DOMAIN kernel \subseteq 1 .. uids
    /\ modids \in [Index -> 0 .. uids]

CallsShaped ==
    /\ syscall \in [Thread ->
           [op : {"none", "load", "stop"}, index : Index,
            at : {"test", "kernel", "record", "return"}, uid : Int, ret : Int]]
    /\ \A t \in Thread : syscall[t].uid \in 0 .. uids

Pending(t) == syscall[t].op # "none" /\ syscall[t].at \in {"kernel", "record"}

(* A load that has yet to record its id is alone in knowing it. *)
Loads ==
    \A t \in Thread : At(t, "load", "record") =>
        /\ syscall[t].uid \in DOMAIN kernel /\ kernel[syscall[t].uid] = syscall[t].index
        /\ \A j \in Index : modids[j] # syscall[t].uid
        /\ \A s \in Thread \ {t} : Pending(s) => syscall[s].uid # syscall[t].uid

(* A stop unloads modules of its own index only; what it has unloaded is gone. *)
Stops ==
    \A t \in Thread :
        /\ At(t, "stop", "kernel") /\ syscall[t].uid \in DOMAIN kernel
             => kernel[syscall[t].uid] = syscall[t].index
        /\ At(t, "stop", "record") => syscall[t].uid \notin DOMAIN kernel /\ syscall[t].uid # 0

BridgeInv == IdsKnown /\ CallsShaped /\ Loads /\ Stops /\ NoStaleEntry

LEMMA BridgeInitInv == BridgeInit => BridgeInv
<1> SUFFICES ASSUME BridgeInit PROVE BridgeInv
    OBVIOUS
<1>1. IdsKnown
    BY DEF BridgeInit, IdsKnown
<1>2. CallsShaped
    BY PdBridgeAssumption DEF BridgeInit, CallsShaped, NoCall
<1>3. Loads /\ Stops
    BY DEF BridgeInit, Loads, Stops, At, NoCall
<1>4. NoStaleEntry
    BY DEF BridgeInit, NoStaleEntry
<1> QED
    BY <1>1, <1>2, <1>3, <1>4 DEF BridgeInv

(* Only the four steps of a call change the table, the kernel or a call that
   is under way. *)
LEMMA Outside ==
    ASSUME BridgeInv, [BridgeNext]_bvars, ~ \E t \in Thread : Serve(t)
    PROVE  /\ UNCHANGED <<modids, kernel, uids>>
           /\ CallsShaped'
           /\ \A t \in Thread : Pending(t) \/ Pending(t)' => syscall'[t] = syscall[t]
<1>a. CallsShaped
    BY DEF BridgeInv
<1>1. CASE UNCHANGED bvars
    BY <1>a, <1>1 DEF bvars, CallsShaped
<1>2. CASE UNCHANGED <<modids, kernel, uids, syscall>>
    BY <1>a, <1>2 DEF CallsShaped
<1>3. ASSUME NEW t \in Thread, NEW op \in {"load", "stop"}, NEW i \in Index, EnterCall(t, op, i)
      PROVE  /\ UNCHANGED <<modids, kernel, uids>> /\ CallsShaped'
             /\ \A s \in Thread : Pending(s) \/ Pending(s)' => syscall'[s] = syscall[s]
  <2>1. UNCHANGED <<modids, kernel, uids>>
    BY <1>3 DEF EnterCall
  <2>2. DEFINE c == [op |-> op, index |-> i, at |-> "test", uid |-> 0, ret |-> -1]
  <2>3. syscall[t].op = "none" /\ syscall' = [syscall EXCEPT ![t] = c]
    BY <1>3 DEF EnterCall
  <2>4. CallsShaped'
    BY <1>a, <2>1, <2>3, BridgeInv DEF BridgeInv, IdsKnown, CallsShaped
  <2> QED
    BY <1>a, <2>1, <2>3, <2>4 DEF CallsShaped, Pending
<1>4. ASSUME NEW t \in Thread, syscall[t].at = "return", syscall' = [syscall EXCEPT ![t] = NoCall],
             UNCHANGED <<modids, kernel, uids>>
      PROVE  /\ CallsShaped'
             /\ \A s \in Thread : Pending(s) \/ Pending(s)' => syscall'[s] = syscall[s]
  <2>1. CallsShaped'
    BY <1>a, <1>4, PdBridgeAssumption DEF BridgeInv, IdsKnown, CallsShaped, NoCall
  <2> QED
    BY <1>a, <1>4, <2>1 DEF CallsShaped, Pending, NoCall
<1>5. CASE \E t \in Thread : OtherCalls(t)
    BY <1>3, <1>5 DEF OtherCalls
<1>6. CASE \E t \in Thread : OtherReturns(t)
    BY <1>4, <1>6 DEF OtherReturns
<1>7. CASE TestLoad \/ TestStop
    BY <1>3, <1>7, PdBridgeAssumption DEF TestLoad, TestStop
<1>8. CASE TestLoaded \/ TestStopped
    BY <1>4, <1>8, PdBridgeAssumption DEF TestLoaded, TestStopped
<1>9. CASE TestKeys
    BY <1>2, <1>9 DEF TestKeys
<1> QED
    BY <1>1, <1>5, <1>6, <1>7, <1>8, <1>9 DEF BridgeNext, TestStep

LEMMA StepOutside ==
    ASSUME BridgeInv, [BridgeNext]_bvars, ~ \E t \in Thread : Serve(t)
    PROVE  BridgeInv'
<1>1. /\ UNCHANGED <<modids, kernel, uids>> /\ CallsShaped'
      /\ \A t \in Thread : Pending(t) \/ Pending(t)' => syscall'[t] = syscall[t]
    BY Outside
<1>2. IdsKnown'
    BY <1>1 DEF BridgeInv, IdsKnown
<1>3. \A t \in Thread : At(t, "load", "record")' => At(t, "load", "record") /\ syscall'[t] = syscall[t]
    BY <1>1 DEF At, Pending
<1>4. \A t \in Thread : At(t, "stop", "record")' => At(t, "stop", "record") /\ syscall'[t] = syscall[t]
    BY <1>1 DEF At, Pending
<1>5. \A t \in Thread : At(t, "stop", "kernel")' => At(t, "stop", "kernel") /\ syscall'[t] = syscall[t]
    BY <1>1 DEF At, Pending
<1>6. Loads'
    BY <1>1, <1>3 DEF BridgeInv, Loads, Pending
<1>7. Stops'
    BY <1>1, <1>4, <1>5 DEF BridgeInv, Stops
<1>8. NoStaleEntry'
  <2>1. \A i \in Index : \A t \in Busy(i) :
          At(t, "stop", "record") => /\ t \in Busy(i)' /\ At(t, "stop", "record")'
                                     /\ syscall'[t].uid = syscall[t].uid
    BY <1>1 DEF Busy, At, Pending
  <2> QED
    BY <1>1, <2>1 DEF BridgeInv, NoStaleEntry
<1> QED
    BY <1>1, <1>2, <1>6, <1>7, <1>8 DEF BridgeInv

(* What a step of a call does to the calls: only its own changes. *)
LEMMA OthersKept ==
    ASSUME BridgeInv, NEW t \in Thread, Serve(t)
    PROVE  \A s \in Thread \ {t} : syscall'[s] = syscall[s]
BY DEF BridgeInv, CallsShaped, Serve, Test, KernelLoad, KernelStop, Record, Move

LEMMA StepTest ==
    ASSUME BridgeInv, NEW t \in Thread, Test(t)
    PROVE  BridgeInv'
<1>a. IdsKnown /\ CallsShaped /\ Loads /\ Stops /\ NoStaleEntry
    BY DEF BridgeInv
<1>b. UNCHANGED <<modids, kernel, uids>>
    BY DEF Test
<1>1. PICK c : c = syscall[t]
    OBVIOUS
<1>2. /\ c.op \in {"load", "stop"} /\ c.at = "test" /\ c.index \in Index
      /\ c.uid \in 0 .. uids /\ c.ret \in Int
    BY <1>a, <1>1 DEF Test, CallsShaped
<1>3. /\ syscall'[t].op = c.op /\ syscall'[t].index = c.index /\ syscall'[t].ret = c.ret
      /\ \/ syscall'[t].at = "return" /\ syscall'[t].uid = c.uid
         \/ syscall'[t].at = "kernel" /\ syscall'[t].uid = modids[c.index]
    BY <1>a, <1>1 DEF Test, CallsShaped, Move
<1>4. IdsKnown'
    BY <1>a, <1>b DEF IdsKnown
<1>5. CallsShaped'
  <2>1. modids[c.index] \in 0 .. uids /\ uids \in Nat
    BY <1>a, <1>2 DEF IdsKnown
  <2>2. syscall' = [syscall EXCEPT ![t].at = "kernel", ![t].uid = modids[c.index]]
        \/ syscall' = [syscall EXCEPT ![t].at = "return"]
    BY <1>1 DEF Test, Move
  <2> QED
    BY <1>a, <1>b, <2>1, <2>2 DEF CallsShaped
<1>6. \A s \in Thread \ {t} : syscall'[s] = syscall[s]
    BY OthersKept DEF Serve
<1>7. Loads'
  <2> SUFFICES ASSUME NEW s \in Thread, At(s, "load", "record")'
      PROVE  /\ syscall'[s].uid \in DOMAIN kernel /\ kernel[syscall'[s].uid] = syscall'[s].index
             /\ \A j \in Index : modids[j] # syscall'[s].uid
             /\ \A r \in Thread \ {s} : Pending(r)' => syscall'[r].uid # syscall'[s].uid
    BY <1>b DEF Loads
  <2>1. s # t /\ syscall'[s] = syscall[s] /\ At(s, "load", "record")
    BY <1>3, <1>6 DEF At
  <2>2. /\ syscall[s].uid \in DOMAIN kernel /\ kernel[syscall[s].uid] = syscall[s].index
        /\ \A j \in Index : modids[j] # syscall[s].uid
        /\ \A r \in Thread \ {s} : Pending(r) => syscall[r].uid # syscall[s].uid
    BY <1>a, <2>1 DEF Loads
  <2>3. ASSUME NEW r \in Thread \ {s}, Pending(r)' PROVE syscall'[r].uid # syscall'[s].uid
    <3>1. CASE r = t
      BY <1>2, <1>3, <2>1, <2>2, <2>3, <3>1 DEF Pending
    <3>2. CASE r # t
      BY <1>6, <2>1, <2>2, <2>3, <3>2 DEF Pending
    <3> QED
      BY <3>1, <3>2
  <2> QED
    BY <2>1, <2>2, <2>3
<1>8. Stops'
  <2>1. ASSUME At(t, "stop", "kernel")', syscall'[t].uid \in DOMAIN kernel
        PROVE  kernel[syscall'[t].uid] = syscall'[t].index
    <3>1. syscall'[t].uid = modids[c.index] /\ 0 \notin DOMAIN kernel
      BY <1>a, <1>3, <2>1 DEF At, IdsKnown
    <3>2. CASE kernel[modids[c.index]] = c.index
      BY <1>3, <3>1, <3>2
    <3>3. CASE \E s \in Busy(c.index) : At(s, "stop", "record") /\ syscall[s].uid = modids[c.index]
      BY <1>a, <2>1, <3>1, <3>3 DEF Stops, Busy
    <3> QED
      BY <1>a, <1>2, <2>1, <3>1, <3>2, <3>3 DEF NoStaleEntry
  <2>2. ~At(t, "stop", "record")'
    BY <1>3 DEF At
  <2> QED
    BY <1>a, <1>b, <1>6, <2>1, <2>2 DEF Stops, At
<1>9. NoStaleEntry'
  <2>1. \A i \in Index : \A s \in Busy(i) :
          At(s, "stop", "record") => /\ s \in Busy(i)' /\ At(s, "stop", "record")'
                                     /\ syscall'[s].uid = syscall[s].uid
    BY <1>1, <1>2, <1>6 DEF Busy, At
  <2> QED
    BY <1>a, <1>b, <2>1 DEF NoStaleEntry
<1> QED
    BY <1>4, <1>5, <1>7, <1>8, <1>9 DEF BridgeInv

LEMMA StepKernelLoad ==
    ASSUME BridgeInv, NEW t \in Thread, KernelLoad(t)
    PROVE  BridgeInv'
<1>a. IdsKnown /\ CallsShaped /\ Loads /\ Stops /\ NoStaleEntry
    BY DEF BridgeInv
<1>b. syscall[t].op = "load" /\ syscall[t].at = "kernel" /\ modids' = modids
    BY DEF KernelLoad, At
<1>c. syscall[t].index \in Index /\ uids \in Nat
    BY <1>a DEF CallsShaped, IdsKnown
<1>d. \A s \in Thread \ {t} : syscall'[s] = syscall[s]
    BY OthersKept DEF Serve
<1>e. \A i \in Index : \A s \in Busy(i) :
          At(s, "stop", "record") => /\ s \in Busy(i)' /\ At(s, "stop", "record")'
                                     /\ syscall'[s].uid = syscall[s].uid
    BY <1>b, <1>d DEF Busy, At
<1>1. CASE syscall' = [syscall EXCEPT ![t].at = "return"] /\ UNCHANGED <<uids, kernel>>
  <2>1. /\ syscall'[t].op = "load" /\ syscall'[t].at = "return"
    BY <1>a, <1>b, <1>1 DEF CallsShaped
  <2>2. IdsKnown' /\ CallsShaped'
    BY <1>a, <1>b, <1>1 DEF IdsKnown, CallsShaped
  <2>3. Loads'
    BY <1>a, <1>b, <1>1, <1>d, <2>1 DEF Loads, At, Pending
  <2>4. Stops'
    BY <1>a, <1>1, <1>d, <2>1 DEF Stops, At
  <2>5. NoStaleEntry'
    BY <1>a, <1>b, <1>1, <1>e DEF NoStaleEntry
  <2> QED
    BY <2>2, <2>3, <2>4, <2>5 DEF BridgeInv
<1>2. CASE /\ uids' = uids + 1
           /\ kernel' = [u \in DOMAIN kernel \cup {uids'} |->
                           IF u = uids' THEN syscall[t].index ELSE kernel[u]]
           /\ syscall' = [syscall EXCEPT ![t].at = "record", ![t].uid = uids', ![t].ret = uids']
  <2>1. /\ syscall'[t].op = "load" /\ syscall'[t].at = "record"
        /\ syscall'[t].uid = uids + 1 /\ syscall'[t].index = syscall[t].index
    BY <1>a, <1>b, <1>2 DEF CallsShaped
  <2>2. /\ DOMAIN kernel' = DOMAIN kernel \cup {uids + 1}
        /\ kernel'[uids + 1] = syscall[t].index
        /\ uids + 1 \notin DOMAIN kernel
        /\ \A u \in DOMAIN kernel : kernel'[u] = kernel[u]
    BY <1>a, <1>2 DEF IdsKnown
  <2>3. /\ \A j \in Index : modids[j] \in 0 .. uids /\ modids[j] # uids + 1
        /\ \A s \in Thread : syscall[s].uid \in 0 .. uids /\ syscall[s].uid # uids + 1
    BY <1>a DEF IdsKnown, CallsShaped
  <2>4. IdsKnown'
    BY <1>a, <1>b, <1>2, <2>2 DEF IdsKnown
  <2>5. CallsShaped'
    BY <1>a, <1>2, <1>c DEF CallsShaped
  <2>6. Loads'
    <3>1. \A s \in Thread \ {t} : At(s, "load", "record")' =>
             /\ syscall'[s].uid \in DOMAIN kernel' /\ kernel'[syscall'[s].uid] = syscall'[s].index
             /\ \A j \in Index : modids'[j] # syscall'[s].uid
             /\ \A r \in Thread \ {s} : Pending(r)' => syscall'[r].uid # syscall'[s].uid
      BY <1>a, <1>b, <1>d, <2>1, <2>2, <2>3 DEF Loads, At, Pending
    <3>2. /\ syscall'[t].uid \in DOMAIN kernel' /\ kernel'[syscall'[t].uid] = syscall'[t].index
          /\ \A j \in Index : modids'[j] # syscall'[t].uid
          /\ \A r \in Thread \ {t} : syscall'[r].uid # syscall'[t].uid
      BY <1>b, <1>d, <2>1, <2>2, <2>3
    <3> QED
      BY <3>1, <3>2 DEF Loads
  <2>7. Stops'
    BY <1>a, <1>d, <2>1, <2>2, <2>3 DEF Stops, At
  <2>8. NoStaleEntry'
    BY <1>a, <1>b, <1>e, <2>2 DEF NoStaleEntry
  <2> QED
    BY <2>4, <2>5, <2>6, <2>7, <2>8 DEF BridgeInv
<1> QED
    BY <1>1, <1>2 DEF KernelLoad, Move

(* A call's record stays one when its progress, id and result change. *)
LEMMA RecordKept ==
    ASSUME NEW O, NEW I, NEW A, NEW U, NEW u \in U, NEW z \in U, "record" \in A,
           NEW r \in [op : O, index : I, at : A, uid : U, ret : U]
    PROVE  [r EXCEPT !.at = "record", !.uid = u, !.ret = z]
               \in [op : O, index : I, at : A, uid : U, ret : U]
OBVIOUS

(* Whichever id a stop passes on, read before its test or after it, it is none
   or one of a module of its own index. *)
LEMMA OwnStopped ==
    ASSUME BridgeInv, NEW t \in Thread, At(t, "stop", "kernel"),
           NEW uid \in {syscall[t].uid, modids[syscall[t].index]}, uid \in DOMAIN kernel
    PROVE  kernel[uid] = syscall[t].index
<1>a. IdsKnown /\ CallsShaped /\ Stops /\ NoStaleEntry /\ syscall[t].index \in Index
    BY DEF BridgeInv, CallsShaped
<1>1. CASE uid = syscall[t].uid
    BY <1>a, <1>1 DEF Stops
<1>2. CASE uid = modids[syscall[t].index]
  <2>1. ~ \E s \in Busy(syscall[t].index) : At(s, "stop", "record") /\ syscall[s].uid = uid
    BY <1>a DEF Stops, Busy
  <2>2. uid # 0
    BY <1>a DEF IdsKnown
  <2> QED
    BY <1>a, <1>2, <2>1, <2>2 DEF NoStaleEntry
<1> QED
    BY <1>1, <1>2

LEMMA StepKernelStop ==
    ASSUME BridgeInv, NEW t \in Thread, KernelStop(t)
    PROVE  BridgeInv'
<1>a. IdsKnown /\ CallsShaped /\ Loads /\ Stops /\ NoStaleEntry
    BY DEF BridgeInv
<1>b. syscall[t].op = "stop" /\ syscall[t].at = "kernel" /\ UNCHANGED <<modids, uids>>
    BY DEF KernelStop, At
<1>c. syscall[t].index \in Index /\ uids \in Nat
    BY <1>a DEF CallsShaped, IdsKnown
<1>d. \A s \in Thread \ {t} : syscall'[s] = syscall[s]
    BY OthersKept DEF Serve
<1>e. \A i \in Index : \A s \in Busy(i) :
          At(s, "stop", "record") => /\ s \in Busy(i)' /\ At(s, "stop", "record")'
                                     /\ syscall'[s].uid = syscall[s].uid
    BY <1>b, <1>d DEF Busy, At
<1>1. CASE syscall' = [syscall EXCEPT ![t].at = "return"] /\ UNCHANGED kernel
  <2>1. syscall'[t].at = "return"
    BY <1>a, <1>1 DEF CallsShaped
  <2>2. IdsKnown' /\ CallsShaped'
    BY <1>a, <1>b, <1>1 DEF IdsKnown, CallsShaped
  <2>3. Loads'
    BY <1>a, <1>b, <1>1, <1>d, <2>1 DEF Loads, At, Pending
  <2>4. Stops'
    BY <1>a, <1>1, <1>d, <2>1 DEF Stops, At
  <2>5. NoStaleEntry'
    BY <1>a, <1>b, <1>1, <1>e DEF NoStaleEntry
  <2> QED
    BY <2>2, <2>3, <2>4, <2>5 DEF BridgeInv
<1>2. ASSUME NEW uid \in {syscall[t].uid, modids[syscall[t].index]}, uid \in DOMAIN kernel,
             kernel' = [u \in DOMAIN kernel \ {uid} |-> kernel[u]],
             syscall' = [syscall EXCEPT ![t].at = "record", ![t].uid = uid, ![t].ret = 0]
      PROVE  BridgeInv'
  <2>1. /\ syscall'[t].op = "stop" /\ syscall'[t].at = "record"
        /\ syscall'[t].uid = uid /\ syscall'[t].index = syscall[t].index
    BY <1>a, <1>b, <1>2 DEF CallsShaped
  <2>2. /\ DOMAIN kernel' = DOMAIN kernel \ {uid}
        /\ \A u \in DOMAIN kernel' : kernel'[u] = kernel[u]
    BY <1>2
  <2>3. uid \in 1 .. uids
    BY <1>a, <1>2 DEF IdsKnown
  <2>4. kernel[uid] = syscall[t].index
    BY <1>b, <1>2, OwnStopped DEF At
  <2>5. IdsKnown'
    BY <1>a, <1>b, <2>2 DEF IdsKnown
  <2>6. CallsShaped'
    <3>1. uid \in Int /\ uid \in 0 .. uids
      BY <1>c, <2>3
    <3> DEFINE R == [op : {"none", "load", "stop"}, index : Index,
                     at : {"test", "kernel", "record", "return"}, uid : Int, ret : Int]
    <3>2. syscall \in [Thread -> R]
      BY <1>a DEF CallsShaped
    <3>3. [syscall[t] EXCEPT !.at = "record", !.uid = uid, !.ret = 0] \in R
      <4>1. syscall[t] \in R /\ 0 \in Int
        BY <3>2
      <4> QED
        BY <3>1, <4>1, RecordKept
    <3>4. syscall' = [syscall EXCEPT ![t] = [syscall[t] EXCEPT !.at = "record", !.uid = uid, !.ret = 0]]
      BY <1>2, <3>2
    <3>5. syscall' \in [Thread -> R]
      <4> HIDE DEF R
      <4> QED BY <3>2, <3>3, <3>4
    <3>6. \A s \in Thread : syscall'[s].uid \in 0 .. uids'
      BY <1>a, <1>b, <1>d, <2>1, <3>1 DEF CallsShaped
    <3> QED
      BY <3>5, <3>6 DEF CallsShaped
  <2>7. \A s \in Thread \ {t} : At(s, "load", "record") => syscall[s].uid # uid
    <3>1. Pending(t)
      BY <1>b DEF Pending
    <3> QED
      BY <1>a, <1>c, <1>2, <3>1 DEF Loads
  <2>8. Loads'
    BY <1>a, <1>b, <1>d, <2>1, <2>2, <2>7 DEF Loads, At, Pending
  <2>9. Stops'
    BY <1>a, <1>d, <2>1, <2>2, <2>3 DEF Stops, At
  <2>10. NoStaleEntry'
    <3> SUFFICES ASSUME NEW i \in Index, modids[i] # 0
        PROVE  \/ modids[i] \in DOMAIN kernel' /\ kernel'[modids[i]] = i
               \/ \E s \in Busy(i)' : At(s, "stop", "record")' /\ syscall'[s].uid = modids[i]
      BY <1>b DEF NoStaleEntry
    <3>1. CASE modids[i] \in DOMAIN kernel /\ kernel[modids[i]] = i
      <4>1. CASE modids[i] = uid
        <5>1. t \in Busy(i)' /\ At(t, "stop", "record")' /\ syscall'[t].uid = modids[i]
          BY <2>1, <2>4, <3>1, <4>1 DEF Busy, At
        <5> QED
          BY <5>1
      <4>2. CASE modids[i] # uid
        BY <2>2, <3>1, <4>2
      <4> QED
        BY <4>1, <4>2
    <3>2. CASE \E s \in Busy(i) : At(s, "stop", "record") /\ syscall[s].uid = modids[i]
      BY <1>e, <3>2
    <3> QED
      BY <1>a, <3>1, <3>2 DEF NoStaleEntry
  <2> QED
    BY <2>5, <2>6, <2>8, <2>9, <2>10 DEF BridgeInv
<1> QED
    BY <1>1, <1>2 DEF KernelStop, Move

LEMMA StepRecord ==
    ASSUME BridgeInv, NEW t \in Thread, Record(t)
    PROVE  BridgeInv'
<1>a. IdsKnown /\ CallsShaped /\ Loads /\ Stops /\ NoStaleEntry
    BY DEF BridgeInv
<1>b. /\ syscall[t].op \in {"load", "stop"} /\ syscall[t].at = "record"
      /\ UNCHANGED <<kernel, uids>>
      /\ syscall' = [syscall EXCEPT ![t].at = "return"]
    BY <1>a DEF Record, CallsShaped, Move
<1>c. syscall[t].index \in Index /\ syscall[t].uid \in 0 .. uids /\ uids \in Nat
    BY <1>a DEF CallsShaped, IdsKnown
<1>d. \A s \in Thread \ {t} : syscall'[s] = syscall[s]
    BY OthersKept DEF Serve
<1>e. syscall'[t].at = "return"
    BY <1>a, <1>b DEF CallsShaped
<1>f. Entry(t) \in 0 .. uids /\ modids' = [modids EXCEPT ![syscall[t].index] = Entry(t)]
    BY <1>c DEF Record, Entry
<1>g. /\ modids'[syscall[t].index] = Entry(t)
      /\ \A i \in Index : i # syscall[t].index => modids'[i] = modids[i]
    BY <1>a, <1>c, <1>f DEF IdsKnown
<1>1. IdsKnown'
    BY <1>a, <1>b, <1>f DEF IdsKnown
<1>2. CallsShaped'
    BY <1>a, <1>b DEF CallsShaped
<1>3. Loads'
  <2> SUFFICES ASSUME NEW s \in Thread, At(s, "load", "record")'
      PROVE  /\ syscall'[s].uid \in DOMAIN kernel /\ kernel[syscall'[s].uid] = syscall'[s].index
             /\ \A j \in Index : modids'[j] # syscall'[s].uid
             /\ \A r \in Thread \ {s} : Pending(r)' => syscall'[r].uid # syscall'[s].uid
    BY <1>b DEF Loads
  <2>1. s # t /\ syscall'[s] = syscall[s] /\ At(s, "load", "record")
    BY <1>d, <1>e DEF At
  <2>2. /\ syscall[s].uid \in DOMAIN kernel /\ kernel[syscall[s].uid] = syscall[s].index
        /\ \A j \in Index : modids[j] # syscall[s].uid
        /\ \A r \in Thread \ {s} : Pending(r) => syscall[r].uid # syscall[s].uid
    BY <1>a, <2>1 DEF Loads
  <2>3. Entry(t) # syscall[s].uid
    <3>1. CASE syscall[t].op = "load"
      BY <1>b, <2>1, <2>2, <3>1 DEF Entry, Pending
    <3>2. CASE syscall[t].op # "load"
      BY <1>a, <2>2, <3>2 DEF Entry, IdsKnown
    <3> QED
      BY <3>1, <3>2
  <2>4. \A r \in Thread \ {s} : Pending(r)' => Pending(r) /\ syscall'[r] = syscall[r]
    BY <1>d, <1>e DEF Pending
  <2> QED
    BY <1>g, <2>1, <2>2, <2>3, <2>4
<1>4. Stops'
    BY <1>a, <1>b, <1>d, <1>e DEF Stops, At
<1>5. NoStaleEntry'
  <2> SUFFICES ASSUME NEW i \in Index, modids'[i] # 0
      PROVE  \/ modids'[i] \in DOMAIN kernel /\ kernel[modids'[i]] = i
             \/ \E s \in Busy(i)' : At(s, "stop", "record")' /\ syscall'[s].uid = modids'[i]
    BY <1>b DEF NoStaleEntry
  <2>1. CASE i = syscall[t].index
    <3>1. syscall[t].op = "load" /\ modids'[i] = syscall[t].uid
      BY <1>b, <1>g, <2>1 DEF Entry
    <3> QED
      BY <1>a, <1>b, <2>1, <3>1 DEF Loads, At
  <2>2. CASE i # syscall[t].index
    <3>1. modids'[i] = modids[i]
      BY <1>g, <2>2
    <3>2. \A s \in Busy(i) : s # t /\ s \in Thread
      BY <2>2 DEF Busy
    <3>3. \A s \in Busy(i) : syscall'[s] = syscall[s] /\ s \in Busy(i)'
      BY <1>d, <3>2 DEF Busy
    <3> QED
      BY <1>a, <3>1, <3>3 DEF NoStaleEntry, At
  <2> QED
    BY <2>1, <2>2
<1> QED
    BY <1>1, <1>2, <1>3, <1>4, <1>5 DEF BridgeInv

LEMMA BridgeInductive == BridgeSpec => []BridgeInv
<1>1. BridgeInv /\ [BridgeNext]_bvars => BridgeInv'
    BY StepOutside, StepTest, StepKernelLoad, StepKernelStop, StepRecord DEF Serve
<1> QED
    BY <1>1, BridgeInitInv, PTL DEF BridgeSpec

(* However calls overlap, an entry of the table names a loaded module of its
   index or is about to be cleared, for any threads and any modules. *)
THEOREM EntriesFresh == BridgeSpec => []NoStaleEntry
<1>1. BridgeInv => NoStaleEntry
    BY DEF BridgeInv
<1> QED
    BY <1>1, BridgeInductive, PTL

(* The modules of an index, and what its entry says they are. *)
OfIndex(i) == {u \in DOMAIN kernel : kernel[u] = i}
Named(i) == {modids[i]} \ {0}

(* TableExact is about the time between calls.  While the only call of an index
   is under way, its entry is exact up to the call to the kernel and again once
   it has been recorded. *)
Exact(i) ==
    /\ \A s, t \in Busy(i) : s = t
    /\ (\A t \in Busy(i) : syscall[t].at # "record") => OfIndex(i) = Named(i)
    /\ \A t \in Busy(i) :
         /\ At(t, "load", "kernel") => modids[i] = 0
         /\ At(t, "load", "record") => OfIndex(i) = {syscall[t].uid}
         /\ At(t, "stop", "kernel") => modids[i] = syscall[t].uid
         /\ At(t, "stop", "record") => OfIndex(i) = {}
TableInv == \A i \in Index : i \notin crossed => Exact(i)

(* Calls of other indices change nothing of an index. *)
LEMMA ExactKept ==
    ASSUME NEW i \in Index, Exact(i), modids'[i] = modids[i], OfIndex(i)' = OfIndex(i),
           Busy(i)' = Busy(i), \A t \in Busy(i) : syscall'[t] = syscall[t]
    PROVE  Exact(i)'
BY DEF Exact, Named, At

(* A step of a call stays with its index. *)
LEMMA ServedIndex ==
    ASSUME BridgeInv, NEW t \in Thread, Serve(t)
    PROVE  /\ crossed' = crossed /\ syscall[t].index \in Index
           /\ \A i \in Index : Busy(i)' = Busy(i)
           /\ t \in Busy(syscall[t].index)
           /\ syscall'[t].op = syscall[t].op /\ syscall'[t].index = syscall[t].index
           /\ \A s \in Thread \ {t} : syscall'[s] = syscall[s]
<1>a. CallsShaped /\ IdsKnown BY DEF BridgeInv
<1>1. \A s \in Thread \ {t} : syscall'[s] = syscall[s] BY OthersKept
<1>2. syscall[t].op # "none" /\ syscall[t].index \in Index
  BY <1>a DEF CallsShaped, Serve, Test, KernelLoad, KernelStop, Record, At
<1>3. syscall'[t].op = syscall[t].op /\ syscall'[t].index = syscall[t].index
  <2>1. CASE Test(t) BY <1>a, <2>1 DEF Test, Move, CallsShaped
  <2>2. CASE KernelLoad(t) BY <1>a, <2>2 DEF KernelLoad, Move, CallsShaped
  <2>3. CASE KernelStop(t) BY <1>a, <2>3 DEF KernelStop, Move, CallsShaped
  <2>4. CASE Record(t) BY <1>a, <2>4 DEF Record, Move, CallsShaped
  <2> QED BY <2>1, <2>2, <2>3, <2>4 DEF Serve
<1>4. \A i \in Index : Busy(i)' = Busy(i)
  <2> SUFFICES ASSUME NEW i \in Index, NEW s \in Thread
               PROVE  (s \in Busy(i))' <=> s \in Busy(i)
    BY DEF Busy
  <2>1. syscall'[s].op = syscall[s].op /\ syscall'[s].index = syscall[s].index BY <1>1, <1>3
  <2> QED BY <2>1 DEF Busy
<1>5. crossed' = crossed BY DEF Serve, Test, KernelLoad, KernelStop, Record
<1>6. t \in Busy(syscall[t].index) BY <1>2 DEF Busy
<1> QED BY <1>1, <1>2, <1>3, <1>4, <1>5, <1>6

(* What is left to show of a step of a call: its own index. *)
LEMMA OwnIndexLeft ==
    ASSUME BridgeInv, TableInv, NEW t \in Thread, Serve(t),
           NEW i \in Index, i = syscall[t].index,
           \A j \in Index \ {i} : modids'[j] = modids[j] /\ OfIndex(j)' = OfIndex(j),
           Exact(i) => Exact(i)'
    PROVE  TableInv'
<1> SUFFICES ASSUME NEW j \in Index, j \notin crossed' PROVE Exact(j)' BY DEF TableInv
<1>1. Exact(j) BY ServedIndex DEF TableInv
<1>2. CASE j = i BY <1>1, <1>2
<1>3. CASE j # i
  <2>1. Busy(j)' = Busy(j) /\ \A s \in Busy(j) : syscall'[s] = syscall[s]
    BY <1>3, ServedIndex DEF Busy
  <2> QED BY <1>1, <1>3, <2>1, ExactKept
<1> QED BY <1>2, <1>3

(* What a step of the only call of its index has to keep. *)
LEMMA OnlyCall ==
    ASSUME NEW i \in Index, NEW t \in Busy(i), \A s, u \in Busy(i) : s = u,
           Busy(i)' = Busy(i),
           syscall'[t].at # "record" => OfIndex(i)' = Named(i)',
           At(t, "load", "kernel")' => modids'[i] = 0,
           At(t, "load", "record")' => OfIndex(i)' = {syscall'[t].uid},
           At(t, "stop", "kernel")' => modids'[i] = syscall'[t].uid,
           At(t, "stop", "record")' => OfIndex(i)' = {}
    PROVE  Exact(i)'
<1>1. \A s \in Busy(i)' : s = t OBVIOUS
<1> QED BY <1>1 DEF Exact

(* The test lets a load through where there is no entry, and a stop where there
   is one. *)
LEMMA TableTest ==
    ASSUME BridgeInv, TableInv, NEW t \in Thread, Test(t) PROVE TableInv'
<1>a. CallsShaped /\ IdsKnown BY DEF BridgeInv
<1>b. Serve(t) BY DEF Serve
<1>i. PICK i \in Index : i = syscall[t].index BY <1>b, ServedIndex
<1>c. t \in Busy(i) /\ Busy(i)' = Busy(i) /\ syscall'[t].op = syscall[t].op
  BY <1>b, <1>i, ServedIndex
<1>1. UNCHANGED <<modids, kernel>> /\ syscall[t].at = "test" BY DEF Test
<1>2. \A j : OfIndex(j)' = OfIndex(j) /\ Named(j)' = Named(j)
  BY <1>1 DEF OfIndex, Named
<1>3. \/ syscall'[t].at = "return"
      \/ /\ syscall'[t].at = "kernel" /\ syscall'[t].uid = modids[i]
         /\ syscall[t].op = "load" => modids[i] = 0
  BY <1>a, <1>i DEF Test, MayLoad, Move, CallsShaped
<1>4. ASSUME Exact(i) PROVE Exact(i)'
  <2>1. OfIndex(i) = Named(i) /\ \A s, u \in Busy(i) : s = u
    BY <1>1, <1>4, <1>c DEF Exact
  <2> QED BY <1>1, <1>2, <1>3, <1>c, <2>1, OnlyCall DEF At
<1>5. \A j \in Index : modids'[j] = modids[j] BY <1>1
<1> QED BY <1>2, <1>4, <1>5, <1>b, <1>i, OwnIndexLeft

(* A module that was started is the only one of its index. *)
LEMMA TableLoad ==
    ASSUME BridgeInv, TableInv, NEW t \in Thread, KernelLoad(t) PROVE TableInv'
<1>a. CallsShaped /\ IdsKnown BY DEF BridgeInv
<1>b. Serve(t) BY DEF Serve
<1>i. PICK i \in Index : i = syscall[t].index BY <1>b, ServedIndex
<1>c. t \in Busy(i) /\ Busy(i)' = Busy(i) /\ syscall'[t].op = syscall[t].op
  BY <1>b, <1>i, ServedIndex
<1>1. modids' = modids /\ syscall[t].at = "kernel" /\ syscall[t].op = "load"
  BY DEF KernelLoad, At
<1>2. CASE syscall' = [syscall EXCEPT ![t].at = "return"] /\ UNCHANGED <<uids, kernel>>
  <2>1. syscall'[t].at = "return" BY <1>a, <1>2 DEF CallsShaped
  <2>2. \A j : OfIndex(j)' = OfIndex(j) /\ Named(j)' = Named(j) BY <1>1, <1>2 DEF OfIndex, Named
  <2>3. ASSUME Exact(i) PROVE Exact(i)'
    <3>1. OfIndex(i) = Named(i) /\ \A s, u \in Busy(i) : s = u
      BY <1>1, <2>3, <1>c DEF Exact
    <3> QED BY <1>c, <2>1, <2>2, <3>1, OnlyCall DEF At
  <2>4. \A j \in Index : modids'[j] = modids[j] BY <1>1
  <2> QED BY <2>2, <2>3, <2>4, <1>b, <1>i, OwnIndexLeft
<1>3. CASE /\ uids' = uids + 1
           /\ kernel' = [u \in DOMAIN kernel \cup {uids'} |->
                           IF u = uids' THEN syscall[t].index ELSE kernel[u]]
           /\ syscall' = [syscall EXCEPT ![t].at = "record", ![t].uid = uids', ![t].ret = uids']
  <2>1. syscall'[t].at = "record" /\ syscall'[t].uid = uids + 1 BY <1>a, <1>3 DEF CallsShaped
  <2>2. uids + 1 \notin DOMAIN kernel BY <1>a DEF IdsKnown
  <2>3. OfIndex(i)' = OfIndex(i) \cup {uids + 1} BY <1>i, <1>3, <2>2 DEF OfIndex
  <2>4. \A j \in Index \ {i} : OfIndex(j)' = OfIndex(j)
    <3> SUFFICES ASSUME NEW j \in Index \ {i}, NEW u
                 PROVE  u \in OfIndex(j)' <=> u \in OfIndex(j)
      OBVIOUS
    <3>1. CASE u = uids + 1 BY <1>i, <1>3, <2>2, <3>1 DEF OfIndex
    <3>2. CASE u # uids + 1 BY <1>3, <3>2 DEF OfIndex
    <3> QED BY <3>1, <3>2
  <2>5. ASSUME Exact(i) PROVE Exact(i)'
    <3>1. OfIndex(i) = Named(i) /\ modids[i] = 0 /\ \A s, u \in Busy(i) : s = u
      BY <1>1, <2>5, <1>c DEF Exact, At
    <3>2. OfIndex(i)' = {uids + 1} BY <2>3, <3>1 DEF Named
    <3> QED BY <1>1, <1>c, <2>1, <3>1, <3>2, OnlyCall DEF At
  <2>6. \A j \in Index : modids'[j] = modids[j] BY <1>1
  <2> QED BY <2>4, <2>5, <2>6, <1>b, <1>i, OwnIndexLeft
<1> QED BY <1>2, <1>3 DEF KernelLoad, Move

(* A module that was stopped was the only one of its index. *)
LEMMA TableStop ==
    ASSUME BridgeInv, TableInv, NEW t \in Thread, KernelStop(t) PROVE TableInv'
<1>a. CallsShaped /\ IdsKnown BY DEF BridgeInv
<1>b. Serve(t) BY DEF Serve
<1>i. PICK i \in Index : i = syscall[t].index BY <1>b, ServedIndex
<1>c. t \in Busy(i) /\ Busy(i)' = Busy(i) /\ syscall'[t].op = syscall[t].op
  BY <1>b, <1>i, ServedIndex
<1>1. modids' = modids /\ At(t, "stop", "kernel") BY DEF KernelStop
<1>2. CASE syscall' = [syscall EXCEPT ![t].at = "return"] /\ UNCHANGED kernel
  <2>1. syscall'[t].at = "return" BY <1>a, <1>2 DEF CallsShaped
  <2>2. \A j : OfIndex(j)' = OfIndex(j) /\ Named(j)' = Named(j) BY <1>1, <1>2 DEF OfIndex, Named
  <2>3. ASSUME Exact(i) PROVE Exact(i)'
    <3>1. OfIndex(i) = Named(i) /\ \A s, u \in Busy(i) : s = u
      BY <1>1, <2>3, <1>c DEF Exact, At
    <3> QED BY <1>c, <2>1, <2>2, <3>1, OnlyCall DEF At
  <2>4. \A j \in Index : modids'[j] = modids[j] BY <1>1
  <2> QED BY <2>2, <2>3, <2>4, <1>b, <1>i, OwnIndexLeft
<1>3. ASSUME NEW uid \in {syscall[t].uid, modids[syscall[t].index]}, uid \in DOMAIN kernel,
             kernel' = [u \in DOMAIN kernel \ {uid} |-> kernel[u]],
             syscall' = [syscall EXCEPT ![t].at = "record", ![t].uid = uid, ![t].ret = 0]
      PROVE  TableInv'
  <2>1. syscall'[t].at = "record" BY <1>a, <1>3 DEF CallsShaped
  <2>2. kernel[uid] = i BY <1>i, <1>1, <1>3, OwnStopped
  <2>3. OfIndex(i)' = OfIndex(i) \ {uid} BY <1>3 DEF OfIndex
  <2>4. \A j \in Index \ {i} : OfIndex(j)' = OfIndex(j)
    <3> SUFFICES ASSUME NEW j \in Index \ {i}, NEW u
                 PROVE  u \in OfIndex(j)' <=> u \in OfIndex(j)
      OBVIOUS
    <3> QED BY <1>3, <2>2 DEF OfIndex
  <2>5. ASSUME Exact(i) PROVE Exact(i)'
    <3>1. OfIndex(i) = Named(i) /\ modids[i] = syscall[t].uid /\ \A s, u \in Busy(i) : s = u
      BY <1>1, <2>5, <1>c DEF Exact, At
    <3>2. OfIndex(i)' = {} BY <1>i, <1>3, <2>3, <3>1 DEF Named
    <3>3. syscall'[t].op = "stop" BY <1>1, <1>c DEF At
    <3> QED BY <1>c, <2>1, <3>1, <3>2, <3>3, OnlyCall DEF At
  <2>6. \A j \in Index : modids'[j] = modids[j] BY <1>1
  <2> QED BY <2>4, <2>5, <2>6, <1>b, <1>i, OwnIndexLeft
<1> QED BY <1>2, <1>3 DEF KernelStop, Move

(* The entry is put right before the call returns. *)
LEMMA TableRecord ==
    ASSUME BridgeInv, TableInv, NEW t \in Thread, Record(t) PROVE TableInv'
<1>a. CallsShaped /\ IdsKnown /\ Loads BY DEF BridgeInv
<1>b. Serve(t) BY DEF Serve
<1>i. PICK i \in Index : i = syscall[t].index BY <1>b, ServedIndex
<1>c. t \in Busy(i) /\ Busy(i)' = Busy(i)
  BY <1>b, <1>i, ServedIndex
<1>1. /\ kernel' = kernel /\ syscall[t].op \in {"load", "stop"} /\ syscall[t].at = "record"
      /\ modids' = [modids EXCEPT ![i] = Entry(t)] /\ syscall'[t].at = "return"
  BY <1>a, <1>i DEF Record, CallsShaped, Move
<1>2. \A j : OfIndex(j)' = OfIndex(j) BY <1>1 DEF OfIndex
<1>3. modids'[i] = Entry(t) /\ \A j \in Index \ {i} : modids'[j] = modids[j]
  BY <1>a, <1>c, <1>1 DEF IdsKnown
<1>4. ASSUME Exact(i) PROVE Exact(i)'
  <2>1. /\ \A s, u \in Busy(i) : s = u
        /\ syscall[t].op = "load" => OfIndex(i) = {syscall[t].uid}
        /\ syscall[t].op = "stop" => OfIndex(i) = {}
    BY <1>1, <1>c, <1>4 DEF Exact, At
  <2>2. syscall[t].op = "load" => syscall[t].uid # 0 BY <1>a, <1>1 DEF Loads, At, IdsKnown
  <2>3. OfIndex(i)' = Named(i)' BY <1>1, <1>2, <1>3, <2>1, <2>2 DEF Named, Entry
  <2> QED BY <1>1, <1>c, <2>1, <2>3, OnlyCall DEF At
<1> QED BY <1>2, <1>3, <1>4, <1>b, <1>i, OwnIndexLeft

(* A call begins where none is, or is counted as crossed; one that returns was
   neither before the kernel nor before the record. *)
LEMMA TableOutside ==
    ASSUME BridgeInv, TableInv, [BridgeNext]_bvars, ~ \E t \in Thread : Serve(t)
    PROVE  TableInv'
<1>a. CallsShaped BY DEF BridgeInv
<1>b. UNCHANGED <<modids, kernel>> BY Outside
<1>c. \A j : OfIndex(j)' = OfIndex(j) /\ Named(j)' = Named(j) BY <1>b DEF OfIndex, Named
<1>1. ASSUME NEW t \in Thread, NEW op \in {"load", "stop"}, NEW i \in Index, EnterCall(t, op, i)
      PROVE  TableInv'
  <2>1. /\ syscall[t].op = "none" /\ (i \notin crossed' => Busy(i) = {})
        /\ crossed \subseteq crossed'
        /\ syscall' = [syscall EXCEPT ![t] = [op |-> op, index |-> i, at |-> "test",
                                              uid |-> 0, ret |-> -1]]
    BY <1>1 DEF EnterCall
  <2>2. /\ syscall'[t].op = op /\ syscall'[t].index = i /\ syscall'[t].at = "test"
        /\ \A s \in Thread \ {t} : syscall'[s] = syscall[s]
    BY <1>a, <2>1 DEF CallsShaped
  <2> SUFFICES ASSUME NEW j \in Index, j \notin crossed' PROVE Exact(j)' BY DEF TableInv
  <2>3. Exact(j) BY <2>1 DEF TableInv
  <2>4. CASE j = i
    <3>1. Busy(i) = {} BY <2>1, <2>4
    <3>2. Busy(i)' = {t} BY <1>1, <2>2, <3>1 DEF Busy
    <3>3. OfIndex(i) = Named(i) BY <2>3, <2>4, <3>1 DEF Exact
    <3> QED BY <1>c, <2>2, <2>4, <3>2, <3>3 DEF Exact, At
  <2>5. CASE j # i
    <3>1. Busy(j)' = Busy(j) BY <2>1, <2>2, <2>5 DEF Busy
    <3>2. \A s \in Busy(j) : syscall'[s] = syscall[s] BY <2>1, <2>2 DEF Busy
    <3> QED BY <1>b, <1>c, <2>3, <3>1, <3>2, ExactKept
  <2> QED BY <2>4, <2>5
<1>2. ASSUME NEW t \in Thread, syscall[t].at = "return", crossed' = crossed,
             syscall' = [syscall EXCEPT ![t] = NoCall]
      PROVE  TableInv'
  <2>1. /\ syscall'[t].op = "none"
        /\ \A s \in Thread \ {t} : syscall'[s] = syscall[s]
    BY <1>a, <1>2 DEF CallsShaped, NoCall
  <2> SUFFICES ASSUME NEW j \in Index, j \notin crossed PROVE Exact(j)' BY <1>2 DEF TableInv
  <2>2. Exact(j) BY DEF TableInv
  <2>3. Busy(j)' \subseteq Busy(j) /\ \A s \in Busy(j)' : syscall'[s] = syscall[s]
    BY <2>1 DEF Busy
  <2>4. \A s \in Busy(j) \ Busy(j)' : s = t BY <2>1 DEF Busy
  <2>5. (\A s \in Busy(j)' : syscall'[s].at # "record") => OfIndex(j)' = Named(j)'
    BY <1>2, <1>c, <2>2, <2>3, <2>4 DEF Exact
  <2> QED BY <1>b, <1>c, <2>2, <2>3, <2>5 DEF Exact, At
<1>3. CASE UNCHANGED <<syscall, crossed>>
  <2>1. \A j : Busy(j)' = Busy(j) BY <1>3 DEF Busy
  <2> QED BY <1>3, <1>b, <1>c, <2>1, ExactKept DEF TableInv
<1>4. CASE UNCHANGED bvars BY <1>3, <1>4 DEF bvars
<1>5. ASSUME NEW t \in Thread, OtherCalls(t) \/ OtherReturns(t) PROVE TableInv'
  BY <1>1, <1>2, <1>5 DEF OtherCalls, OtherReturns
<1>6. CASE TestStep
  BY <1>1, <1>2, <1>3, <1>6, PdBridgeAssumption
  DEF TestStep, TestLoad, TestLoaded, TestKeys, TestStop, TestStopped
<1> QED BY <1>4, <1>5, <1>6 DEF BridgeNext

(* The table is right between calls as long as those for one index do not
   overlap, whatever the others do, for any threads and any modules. *)
THEOREM TableIsExact == BridgeSpec => []TableExact
<1>1. BridgeInit => TableInv
  BY DEF BridgeInit, TableInv, Exact, OfIndex, Named, Busy, NoCall
<1>2. BridgeInv /\ TableInv /\ [BridgeNext]_bvars => TableInv'
  BY TableOutside, TableTest, TableLoad, TableStop, TableRecord DEF Serve
<1>3. TableInv => TableExact
  BY DEF TableInv, Exact, TableExact, OfIndex, Named
<1> QED BY <1>1, <1>2, <1>3, BridgeInductive, PTL DEF BridgeSpec

-----------------------------------------------------------------------------
(*****************************************************************************)
(* The hooks of a settings plugin: any of them refused, any lives of the core. *)
(*****************************************************************************)
(* The hook on unloading is not refused: without it the core's hooks stay. *)
ToldOfUnload == g_hooks[1] # "failed"

HooksTyped ==
    /\ g_hooks \in [Hooks -> {"zero", "failed"} \cup Id]
    /\ live \in [Hooks -> Int]
    /\ {core, modid} \subseteq BOOLEAN

(* An id is held as long as taiHEN keeps the hook. *)
One(i) ==
    \/ live[i] = 1 /\ g_hooks[i] = "held"
    \/ live[i] = 0 /\ g_hooks[i] # "held"

HooksOff == plug = "off" => \A i \in Hooks : live[i] = 0 /\ g_hooks[i] = "zero"
HooksOn == plug = "on" => live[1] = 1
HooksStopped == plug = "stopped" => \A i \in Hooks : live[i] = 0
WithCore == \A i \in CoreHooks : live[i] # 0 => core /\ modid

(* HooksPaired does not say that the second release of an id finds nothing,
   nor that the core was seen to come. *)
HooksInv ==
    /\ HooksTyped /\ HooksOff /\ plug \in {"off", "on", "stopped"}
    /\ ToldOfUnload => (\A i \in Hooks : One(i)) /\ HooksOn /\ HooksStopped /\ WithCore

(* Hook 0 and hook 1 are among them. *)
LEMMA FirstTwo == 0 \in Hooks /\ 1 \in Hooks /\ CoreHooks \subseteq Hooks
BY SettingsHooksAssumption DEF CoreHooks

(* Initially there are none. *)
LEMMA HooksInitInv == HooksInit => HooksInv
<1> SUFFICES ASSUME HooksInit PROVE HooksInv OBVIOUS
<1>1. plug = "off" /\ core = FALSE /\ modid = FALSE BY DEF HooksInit
<1>2. \A i \in Hooks : live[i] = 0 /\ g_hooks[i] = "zero" BY DEF HooksInit
<1>3. HooksTyped
  <2>1. g_hooks \in [Hooks -> {"zero", "failed"} \cup Id] BY DEF HooksInit
  <2>2. live \in [Hooks -> Int] BY DEF HooksInit
  <2>3. {core, modid} \subseteq BOOLEAN BY <1>1
  <2> QED BY <2>1, <2>2, <2>3 DEF HooksTyped
<1>4. \A i \in Hooks : One(i) BY <1>2 DEF One
<1>5. WithCore BY <1>2, FirstTwo DEF WithCore
<1> QED BY <1>1, <1>2, <1>3, <1>4, <1>5 DEF HooksInv, HooksOff, HooksOn, HooksStopped

(* What a batch of placings does to an index. *)
LEMMA PlacedHooks ==
    ASSUME NEW I \in SUBSET Hooks, NEW R \in SUBSET I, Place(I, R), HooksTyped
    PROVE  /\ g_hooks' \in [Hooks -> {"zero", "failed"} \cup Id]
           /\ live' \in [Hooks -> Int]
           /\ \A i \in Hooks \ I : g_hooks'[i] = g_hooks[i] /\ live'[i] = live[i]
           /\ \A i \in I : One(i) /\ live[i] = 0 =>
                    \/ live'[i] = 1 /\ g_hooks'[i] = "held"
                    \/ live'[i] = 0 /\ g_hooks'[i] = "failed"
<1> USE DEF Place, HooksTyped, Id
<1>1. g_hooks' \in [Hooks -> {"zero", "failed"} \cup Id] OBVIOUS
<1>2. live' \in [Hooks -> Int] OBVIOUS
<1>3. \A i \in Hooks \ I : g_hooks'[i] = g_hooks[i] /\ live'[i] = live[i] OBVIOUS
<1>4. ASSUME NEW i \in I, One(i), live[i] = 0
      PROVE  \/ live'[i] = 1 /\ g_hooks'[i] = "held"
             \/ live'[i] = 0 /\ g_hooks'[i] = "failed"
  BY <1>4 DEF One
<1> QED BY <1>1, <1>2, <1>3, <1>4

(* What a release of a batch does to an index, released before or not. *)
LEMMA ReleasedHooks ==
    ASSUME NEW I \in SUBSET Hooks, Release(I), HooksTyped
    PROVE  /\ g_hooks' \in [Hooks -> {"zero", "failed"} \cup Id]
           /\ live' \in [Hooks -> Int]
           /\ \A i \in Hooks \ I : g_hooks'[i] = g_hooks[i] /\ live'[i] = live[i]
           /\ \A i \in I : One(i) => live'[i] = 0 /\ g_hooks'[i] # "held"
           /\ \A i \in Hooks : g_hooks[i] = "failed" => g_hooks'[i] = "failed"
BY DEF Release, HooksTyped, One, Id

(* The plugin is started. *)
LEMMA StartHooksInv ==
    ASSUME HooksInv, NEW R \in SUBSET {0, 1}, ModuleStart(R) PROVE HooksInv'
<1>1. /\ plug = "off" /\ plug' = "on" /\ Place({0, 1}, R)
      /\ core' = core /\ modid' = modid
  BY DEF ModuleStart
<1>2. {0, 1} \in SUBSET Hooks BY FirstTwo
<1>3. \A i \in Hooks : live[i] = 0 /\ One(i) BY <1>1 DEF HooksInv, HooksOff, One
<1>4. HooksTyped BY DEF HooksInv
<1>5. /\ g_hooks' \in [Hooks -> {"zero", "failed"} \cup Id] /\ live' \in [Hooks -> Int]
      /\ \A i \in Hooks \ {0, 1} : g_hooks'[i] = g_hooks[i] /\ live'[i] = live[i]
      /\ \A i \in {0, 1} : One(i) /\ live[i] = 0 =>
               \/ live'[i] = 1 /\ g_hooks'[i] = "held"
               \/ live'[i] = 0 /\ g_hooks'[i] = "failed"
  BY <1>1, <1>2, <1>4, PlacedHooks
<1>6. HooksTyped' BY <1>1, <1>4, <1>5 DEF HooksTyped
<1>7. ASSUME NEW i \in Hooks PROVE One(i)'
  <2>1. CASE i \in {0, 1} BY <1>2, <1>3, <1>5, <2>1 DEF One
  <2>2. CASE i \notin {0, 1} BY <1>3, <1>5, <2>2 DEF One
  <2> QED BY <2>1, <2>2
<1>8. ToldOfUnload' => HooksOn' BY <1>2, <1>3, <1>5 DEF ToldOfUnload, HooksOn
<1>9. WithCore' BY <1>3, <1>5, FirstTwo DEF WithCore, CoreHooks
<1> QED BY <1>1, <1>6, <1>7, <1>8, <1>9 DEF HooksInv, HooksOff, HooksStopped

(* The core comes: its hooks are placed only where none is left. *)
LEMMA LoadHooksInv ==
    ASSUME HooksInv, NEW R \in SUBSET CoreHooks, LoadCore(R) PROVE HooksInv'
<1>1. ~core /\ core' = TRUE /\ plug' = plug BY DEF LoadCore
<1>2. HooksTyped BY DEF HooksInv
<1>3. CASE ~Sees(0)
  <2>1. modid' = modid /\ g_hooks' = g_hooks /\ live' = live BY <1>3 DEF LoadCore
  <2> QED BY <1>1, <2>1 DEF HooksInv, HooksTyped, HooksOff, HooksOn, HooksStopped, WithCore, One, ToldOfUnload, CoreHooks
<1>4. CASE Sees(0)
  <2>1. modid' = TRUE /\ Place(CoreHooks, R) BY <1>4 DEF LoadCore
  <2>2. /\ g_hooks' \in [Hooks -> {"zero", "failed"} \cup Id] /\ live' \in [Hooks -> Int]
        /\ \A i \in Hooks \ CoreHooks : g_hooks'[i] = g_hooks[i] /\ live'[i] = live[i]
        /\ \A i \in CoreHooks : One(i) /\ live[i] = 0 =>
              \/ live'[i] = 1 /\ g_hooks'[i] = "held"
              \/ live'[i] = 0 /\ g_hooks'[i] = "failed"
    BY <1>2, <2>1, FirstTwo, PlacedHooks
  <2>3. 1 \in Hooks \ CoreHooks BY FirstTwo DEF CoreHooks
  <2>4. g_hooks'[1] = g_hooks[1] /\ live'[1] = live[1] BY <2>2, <2>3
  <2>5. plug # "off" BY <1>4, FirstTwo DEF HooksInv, HooksOff, Sees
  <2>6. HooksTyped' BY <1>1, <1>2, <2>1, <2>2 DEF HooksTyped
  <2>7. ASSUME ToldOfUnload PROVE (\A i \in Hooks : One(i))' /\ HooksOn' /\ HooksStopped' /\ WithCore'
    <3>1. (\A i \in Hooks : One(i)) /\ HooksOn /\ HooksStopped /\ WithCore BY <2>7 DEF HooksInv
    <3>2. plug # "stopped" BY <1>4, <3>1, FirstTwo DEF HooksStopped, Sees
    <3>3. \A i \in CoreHooks : live[i] = 0 BY <1>1, <3>1 DEF WithCore
    <3>4. ASSUME NEW i \in Hooks PROVE One(i)'
      <4>1. CASE i \in CoreHooks BY <2>2, <3>1, <3>3, <4>1 DEF One
      <4>2. CASE i \notin CoreHooks BY <2>2, <3>1, <4>2 DEF One
      <4> QED BY <4>1, <4>2
    <3>5. HooksOn' BY <1>1, <2>4, <3>1 DEF HooksOn
    <3>6. HooksStopped' BY <1>1, <3>2 DEF HooksStopped
    <3>7. WithCore' BY <1>1, <2>1 DEF WithCore
    <3> QED BY <3>4, <3>5, <3>6, <3>7
  <2>8. ToldOfUnload' => ToldOfUnload BY <2>4 DEF ToldOfUnload
  <2>9. HooksOff' /\ plug' \in {"off", "on", "stopped"} BY <1>1, <2>5 DEF HooksOff, HooksInv
  <2> QED BY <2>6, <2>7, <2>8, <2>9 DEF HooksInv
<1> QED BY <1>3, <1>4

(* The core goes, and its hooks before it. *)
LEMMA UnloadHooksInv == ASSUME HooksInv, UnloadCore PROVE HooksInv'
<1>1. core /\ core' = FALSE /\ plug' = plug BY DEF UnloadCore
<1>2. HooksTyped BY DEF HooksInv
<1>3. CASE ~(Sees(1) /\ modid)
  <2>1. modid' = modid /\ g_hooks' = g_hooks /\ live' = live BY <1>3 DEF UnloadCore
  <2>2. ASSUME ToldOfUnload PROVE \A i \in CoreHooks : live[i] = 0
    <3>1. HooksOn /\ HooksStopped /\ WithCore BY <2>2 DEF HooksInv
    <3>2. CASE ~modid BY <3>1, <3>2 DEF WithCore
    <3>3. CASE ~Sees(1)
      <4>1. plug # "on" BY <3>1, <3>3 DEF Sees, HooksOn
      <4>2. plug = "off" \/ plug = "stopped" BY <4>1 DEF HooksInv
      <4>3. \A i \in Hooks : live[i] = 0 BY <3>1, <4>2 DEF HooksStopped, HooksInv, HooksOff
      <4> QED BY <4>3, FirstTwo
    <3> QED BY <1>3, <3>2, <3>3
  <2>3. ToldOfUnload' <=> ToldOfUnload BY <2>1 DEF ToldOfUnload
  <2>4. HooksTyped' BY <1>1, <1>2, <2>1 DEF HooksTyped
  <2>5. HooksOff' /\ plug' \in {"off", "on", "stopped"} BY <1>1, <2>1 DEF HooksOff, HooksInv
  <2>6. ToldOfUnload' => (\A i \in Hooks : One(i))' /\ HooksOn' /\ HooksStopped'
    BY <1>1, <2>1, <2>3 DEF HooksInv, One, HooksOn, HooksStopped
  <2>7. ToldOfUnload' => WithCore' BY <2>1, <2>2, <2>3 DEF WithCore, CoreHooks
  <2> QED BY <2>4, <2>5, <2>6, <2>7 DEF HooksInv
<1>4. CASE Sees(1) /\ modid
  <2>1. modid' = FALSE /\ Release(CoreHooks) BY <1>4 DEF UnloadCore, UnloadReleases
  <2>2. /\ g_hooks' \in [Hooks -> {"zero", "failed"} \cup Id] /\ live' \in [Hooks -> Int]
        /\ \A i \in Hooks \ CoreHooks : g_hooks'[i] = g_hooks[i] /\ live'[i] = live[i]
        /\ \A i \in CoreHooks : One(i) => live'[i] = 0 /\ g_hooks'[i] # "held"
    BY <1>2, <2>1, FirstTwo, ReleasedHooks
  <2>3. 1 \in Hooks \ CoreHooks BY FirstTwo DEF CoreHooks
  <2>4. g_hooks'[1] = g_hooks[1] /\ live'[1] = live[1] BY <2>2, <2>3
  <2>5. plug # "off" BY <1>4, FirstTwo DEF HooksInv, HooksOff, Sees
  <2>6. HooksTyped' BY <1>1, <1>2, <2>1, <2>2 DEF HooksTyped
  <2>7. ASSUME ToldOfUnload PROVE (\A i \in Hooks : One(i))' /\ HooksOn' /\ HooksStopped' /\ WithCore'
    <3>1. (\A i \in Hooks : One(i)) /\ HooksOn /\ HooksStopped BY <2>7 DEF HooksInv
    <3>2. plug # "stopped" BY <1>4, <3>1, FirstTwo DEF HooksStopped, Sees
    <3>3. ASSUME NEW i \in Hooks PROVE One(i)'
      <4>1. CASE i \in CoreHooks BY <2>2, <3>1, <4>1 DEF One
      <4>2. CASE i \notin CoreHooks BY <2>2, <3>1, <4>2 DEF One
      <4> QED BY <4>1, <4>2
    <3>4. HooksOn' BY <1>1, <2>4, <3>1 DEF HooksOn
    <3>5. HooksStopped' BY <1>1, <3>2 DEF HooksStopped
    <3>6. WithCore'
      <4>1. \A i \in CoreHooks : live'[i] = 0 BY <2>2, <3>1, FirstTwo
      <4> QED BY <4>1 DEF WithCore, CoreHooks
    <3> QED BY <3>3, <3>4, <3>5, <3>6
  <2>8. ToldOfUnload' => ToldOfUnload BY <2>4 DEF ToldOfUnload
  <2>9. HooksOff' /\ plug' \in {"off", "on", "stopped"} BY <1>1, <2>5 DEF HooksOff, HooksInv
  <2> QED BY <2>6, <2>7, <2>8, <2>9 DEF HooksInv
<1> QED BY <1>3, <1>4

(* The plugin is stopped, and lets go of every index, whatever it lets go of
   twice. *)
LEMMA StopHooksInv == ASSUME HooksInv, ModuleStop PROVE HooksInv'
<1>1. /\ plug' = "stopped" /\ Release(Hooks)
      /\ core' = core /\ modid' = modid
  BY DEF ModuleStop
<1>2. HooksTyped BY DEF HooksInv
<1>3. /\ g_hooks' \in [Hooks -> {"zero", "failed"} \cup Id] /\ live' \in [Hooks -> Int]
      /\ \A i \in Hooks : One(i) => live'[i] = 0 /\ g_hooks'[i] # "held"
      /\ \A i \in Hooks : g_hooks[i] = "failed" => g_hooks'[i] = "failed"
  BY <1>1, <1>2, ReleasedHooks
<1>4. ToldOfUnload' => ToldOfUnload BY <1>3, FirstTwo DEF ToldOfUnload
<1>5. ToldOfUnload' => \A i \in Hooks : live'[i] = 0 /\ g_hooks'[i] # "held" BY <1>3, <1>4 DEF HooksInv
<1>6. HooksTyped' BY <1>1, <1>2, <1>3 DEF HooksTyped
<1>7. ToldOfUnload' => (\A i \in Hooks : One(i))' /\ HooksStopped' BY <1>5 DEF One, HooksStopped
<1>8. ToldOfUnload' => WithCore'
  <2>1. ToldOfUnload' => \A i \in CoreHooks : live'[i] = 0 BY <1>5, FirstTwo
  <2> QED BY <2>1 DEF WithCore, CoreHooks
<1> QED BY <1>1, <1>6, <1>7, <1>8 DEF HooksInv, HooksOff, HooksOn

(* Every step keeps the invariant. *)
LEMMA HooksNextInv == HooksInv /\ [HooksNext]_hvars => HooksInv'
<1> SUFFICES ASSUME HooksInv, [HooksNext]_hvars PROVE HooksInv' OBVIOUS
<1>1. ASSUME NEW R \in SUBSET {0, 1}, ModuleStart(R) PROVE HooksInv' BY <1>1, StartHooksInv
<1>2. ASSUME NEW R \in SUBSET CoreHooks, LoadCore(R) PROVE HooksInv' BY <1>2, LoadHooksInv
<1>3. CASE UnloadCore BY <1>3, UnloadHooksInv
<1>4. CASE ModuleStop BY <1>4, StopHooksInv
<1>5. CASE UNCHANGED hvars
  BY <1>5 DEF hvars, HooksInv, HooksTyped, HooksOff, HooksOn, HooksStopped, WithCore, One, ToldOfUnload, CoreHooks
<1> QED BY <1>1, <1>2, <1>3, <1>4, <1>5 DEF HooksNext

(* Whatever hooks but that on unloading are refused, and however often the core
   comes and goes, no index has two hooks and no hook outlives its core or the
   plugin. *)
THEOREM HooksPairedHolds == HooksSpec => []HooksPaired
<1>1. HooksInv => HooksPaired
  <2> SUFFICES ASSUME HooksInv, ToldOfUnload PROVE HooksPaired BY DEF HooksPaired, ToldOfUnload
  <2>1. (\A i \in Hooks : One(i)) /\ HooksOn /\ HooksStopped /\ WithCore BY DEF HooksInv
  <2>2. ASSUME NEW i \in Hooks PROVE live[i] <= 1
    <3>1. One(i) BY <2>1
    <3> QED BY <3>1 DEF One
  <2>3. core \/ \A i \in CoreHooks : live[i] = 0 BY <2>1 DEF WithCore
  <2>4. plug = "stopped" => \A i \in Hooks : live[i] = 0 BY <2>1 DEF HooksStopped
  <2> QED BY <2>2, <2>3, <2>4 DEF HooksPaired
<1> QED BY <1>1, HooksInitInv, HooksNextInv, PTL DEF HooksSpec

-----------------------------------------------------------------------------
(*****************************************************************************)
(* storageFormat: any processes, with the Settings dialog among them.        *)
(*****************************************************************************)

(* LoadedOnce counts; what makes it so is who may be in the kernel's hook: as
   long as the hook is there, whoever has got the plugin is still in it, and
   before the kernel plugin is there nobody is. *)
Once == ~crowded => \A p, q \in Inside \cup has : p = q
FormatInv ==
    /\ proc \in [Proc -> {"none", "new", "load", "release", "started"}] /\ has \subseteq Proc
    /\ app = "load" => starthook = "none" /\ Inside = {} /\ has = {}
    /\ app \in {"load", "launch"} => proc[Dialog] = "none"
    /\ starthook = "live" => has \subseteq Inside
    /\ Once

(* Initially no process is there. *)
LEMMA FormatInitInv == FormatInit => FormatInv
<1> SUFFICES ASSUME FormatInit PROVE FormatInv OBVIOUS
<1>1. /\ proc = [p \in Proc |-> "none"] /\ has = {} /\ app = "load" /\ starthook = "none"
  BY DEF FormatInit
<1>2. Inside = {} BY <1>1 DEF Inside
<1> QED BY <1>1, <1>2, StorageFormatAssumption DEF FormatInv, Once

(* A step that does not start, load or release: the application may only go
   on, and the hook may only go. *)
LEMMA FormatKept ==
    ASSUME FormatInv, UNCHANGED <<proc, has, crowded>>,
           app' # "load", app' = "launch" => app = "load",
           starthook' = "live" => starthook = "live" \/ app = "load"
    PROVE  FormatInv'
BY DEF FormatInv, Once, Inside

(* A step that leaves the application and the loader alone. *)
LEMMA FormatSame ==
    ASSUME FormatInv, UNCHANGED <<app, starthook, proc, has, crowded>> PROVE FormatInv'
BY DEF FormatInv, Once, Inside

(* A step in the start of a process. *)
LEMMA StartFormatInv == ASSUME FormatInv, NEW p \in Proc, Start(p) PROVE FormatInv'
<1> USE StorageFormatAssumption
<1>1. CASE StartOther(p)
  <2>1. /\ app' = app /\ starthook' = starthook /\ has' = has /\ crowded' = crowded
        /\ p # Dialog /\ proc[p] = "none" /\ proc' = [proc EXCEPT ![p] = "new"]
    BY <1>1 DEF StartOther
  <2>2. Inside' = Inside BY <2>1 DEF FormatInv, Inside
  <2> QED BY <2>1, <2>2 DEF FormatInv, Once
<1>2. CASE EnterStart(p)
  <2>1. app' = app /\ starthook' = starthook /\ has' = has BY <1>2 DEF EnterStart
  <2>2. CASE starthook = "live"
    <3>1. /\ proc[p] = "new" /\ proc' = [proc EXCEPT ![p] = "load"]
          /\ crowded' = (crowded \/ Inside # {})
      BY <1>2, <2>2 DEF EnterStart, Moves
    <3>2. Inside' = Inside \cup {p} BY <3>1 DEF FormatInv, Inside
    <3>3. app # "load" /\ has \subseteq Inside BY <2>2 DEF FormatInv
    <3>4. Once' BY <2>1, <3>1, <3>2, <3>3 DEF Once
    <3> QED BY <2>1, <3>1, <3>2, <3>3, <3>4 DEF FormatInv
  <2>3. CASE starthook # "live"
    <3>1. /\ proc[p] = "new" /\ proc' = [proc EXCEPT ![p] = "started"] /\ crowded' = crowded
      BY <1>2, <2>3 DEF EnterStart, Moves
    <3>2. Inside' = Inside BY <3>1 DEF FormatInv, Inside
    <3> QED BY <2>1, <3>1, <3>2 DEF FormatInv, Once
  <2> QED BY <2>2, <2>3
<1>3. CASE LoadUserPlugin(p)
  <2>1. /\ app' = app /\ starthook' = starthook /\ crowded' = crowded
        /\ has' \in {has, has \cup {p}}
        /\ proc[p] = "load" /\ proc' = [proc EXCEPT ![p] = "release"]
    BY <1>3 DEF LoadUserPlugin, Moves
  <2>2. Inside' = Inside /\ p \in Inside BY <2>1 DEF FormatInv, Inside
  <2>3. Once' BY <2>1, <2>2 DEF FormatInv, Once
  <2> QED BY <2>1, <2>2, <2>3 DEF FormatInv
<1>4. CASE Leave(p)
  <2>1. /\ app' = app /\ starthook' = "gone" /\ crowded' = crowded /\ has' = has
        /\ proc[p] = "release" /\ proc' = [proc EXCEPT ![p] = "started"]
    BY <1>4 DEF Leave, ReleaseStart, Moves
  <2>2. Inside' \subseteq Inside /\ p \in Inside BY <2>1 DEF FormatInv, Inside
  <2>3. Once' BY <2>1, <2>2 DEF FormatInv, Once
  <2> QED BY <2>1, <2>2, <2>3 DEF FormatInv
<1> QED BY <1>1, <1>2, <1>3, <1>4 DEF Start

(* So does every step. *)
LEMMA FormatNextInv == FormatInv /\ [FormatNext]_fvars => FormatInv'
<1> SUFFICES ASSUME FormatInv, [FormatNext]_fvars PROVE FormatInv' OBVIOUS
<1>1. CASE LoadKernelPlugin BY <1>1, FormatKept DEF LoadKernelPlugin
<1>2. CASE LaunchDialog
  <2>1. /\ app = "launch" /\ app' = "wait" /\ UNCHANGED <<starthook, has, crowded>>
        /\ proc' = [proc EXCEPT ![Dialog] = "new"]
    BY <1>2 DEF LaunchDialog
  <2>2. proc[Dialog] = "none" BY <2>1 DEF FormatInv
  <2>3. Inside' = Inside BY <2>1, <2>2 DEF FormatInv, Inside
  <2> QED BY <2>1, <2>3 DEF FormatInv, Once
<1>3. CASE UnloadKernelPlugin \/ ColdReset
  BY <1>3, FormatKept DEF UnloadKernelPlugin, ColdReset, loader
<1>4. ASSUME NEW p \in Proc, Start(p) PROVE FormatInv' BY <1>4, StartFormatInv
<1>5. CASE OnButtonReboot BY <1>5, FormatKept DEF OnButtonReboot, loader
<1>6. CASE Menu /\ ~OnButtonReboot
  <2>1. UNCHANGED <<app, loader>>
    BY <1>6 DEF Menu, HooksCome, HooksGo, CoreComes, CoreGoes, InitPluginFunctions, SetTarget,
                OnButtonFormat, McfStart, FormatGen, McfStop
  <2> QED BY <2>1, FormatSame DEF loader
<1>7. CASE UNCHANGED fvars BY <1>7, FormatSame DEF fvars, loader
<1> QED BY <1>1, <1>2, <1>3, <1>4, <1>5, <1>6, <1>7 DEF FormatNext

(* Whatever processes are started beside the dialog, and whatever the user
   does in it, the user plugin comes into one of them at most, unless two were
   in the kernel's hook at a time. *)
THEOREM LoadedOnceHolds == FormatSpec => []LoadedOnce
<1>1. FormatInv => LoadedOnce
  <2> SUFFICES ASSUME FormatInv, ~crowded PROVE Cardinality(has) <= 1 BY DEF LoadedOnce
  <2>1. CASE has = {} BY <2>1, FS_EmptySet
  <2>2. CASE has # {}
    <3>1. PICK p : p \in has BY <2>2
    <3>2. has = {p} BY <3>1 DEF FormatInv, Once
    <3> QED BY <3>2, FS_Singleton
  <2> QED BY <2>1, <2>2
<1> QED BY <1>1, FormatInitInv, FormatNextInv, PTL DEF FormatSpec

-----------------------------------------------------------------------------
(*****************************************************************************)
(* The parts as they run: in Plugins, and the hooks within storageFormat.    *)
(*****************************************************************************)

(* What storageFormat does to its hooks is a step of theirs, or none. *)
LEMMA FormatHooks == FormatSpec => HooksSpec
<1>1. FormatInit => HooksInit BY DEF FormatInit
<1>2. [FormatNext]_fvars => [HooksNext]_hvars
  <2> SUFFICES ASSUME [FormatNext]_fvars PROVE [HooksNext]_hvars OBVIOUS
  <2>1. CASE UNCHANGED fvars BY <2>1 DEF fvars
  <2>2. CASE LoadKernelPlugin \/ LaunchDialog \/ UnloadKernelPlugin \/ ColdReset
    BY <2>2 DEF LoadKernelPlugin, LaunchDialog, UnloadKernelPlugin, ColdReset
  <2>3. ASSUME NEW p \in Proc, Start(p) PROVE [HooksNext]_hvars
    BY <2>3 DEF Start, StartOther, EnterStart, LoadUserPlugin, Leave
  <2>4. CASE HooksCome BY <2>4 DEF HooksCome, In, HooksNext
  <2>5. CASE HooksGo BY <2>5 DEF HooksGo, HooksNext
  <2>6. CASE CoreComes BY <2>6 DEF CoreComes, In, HooksNext
  <2>7. CASE CoreGoes BY <2>7 DEF CoreGoes, HooksNext
  <2>8. CASE InitPluginFunctions \/ SetTarget \/ OnButtonFormat \/ OnButtonReboot
             \/ McfStart \/ FormatGen \/ McfStop
    BY <2>8 DEF InitPluginFunctions, SetTarget, OnButtonFormat, OnButtonReboot, McfStart,
                FormatGen, McfStop
  <2> QED BY <2>1, <2>2, <2>3, <2>4, <2>5, <2>6, <2>7, <2>8 DEF FormatNext, Menu
<1> QED BY <1>1, <1>2, PTL DEF FormatSpec, HooksSpec

(* Plugins adds no step to those of its parts. *)
THEOREM PartsRefined == PSpec => Spec /\ LogSpec /\ BridgeSpec /\ FormatSpec
<1>1. PInit => Init /\ LogInit /\ BridgeInit /\ FormatInit BY DEF PInit
<1>2. [PNext]_pvars => [Next]_vars BY DEF PNext, pvars
<1>3. [PNext]_pvars => [LogNext]_lvars BY DEF PNext, pvars
<1>4. [PNext]_pvars => [BridgeNext]_bvars BY DEF PNext, pvars
<1>5. [PNext]_pvars => [FormatNext]_fvars BY DEF PNext, pvars
<1> QED BY <1>1, <1>2, <1>3, <1>4, <1>5, PTL DEF PSpec, Spec, LogSpec, BridgeSpec, FormatSpec

(* So all that was shown of the parts holds of Plugins, as its run checks it. *)
THEOREM PluginsSafe ==
    PSpec => /\ []ReadExact /\ SecondRegionReachedFromGap /\ []PosHeals
             /\ []NoStaleEntry /\ []TableExact /\ []HooksPaired /\ []LoadedOnce
BY PartsRefined, FormatHooks, ReadsExact, HoleIsTheGap, PosHealsHolds, EntriesFresh,
   TableIsExact, HooksPairedHolds, LoadedOnceHolds, PTL
=============================================================================
