-------------------------- MODULE WorkEmmc_proofs --------------------------
(***************************************************************************)
(* What work_emmc guarantees for every buffer size, partition table, eMMC  *)
(* and image.                                                              *)
(***************************************************************************)
EXTENDS WorkEmmc, TLAPS

Active == pc \in {"open", "loop", "moved"}

(* Where the transfers stand in the middle of a copy. *)
Progress ==
    /\ pc # "idle" => buf # NULL
    /\ pc \in {"lookup", "open"} => base = disk /\ copied = 0 /\ pos = 0 /\ ~fault
    /\ pc = "lookup" => job.id >= 3
    /\ pc = "moved" => Amount > 0
    /\ job.off + job.size <= LastSector + 1
    /\ copied > 0 => job.off >= MinOff

(* What the buffer and the file hold as long as no transfer failed. *)
Contents ==
    /\ (pc = "loop" /\ job.flash /\ ~fault) =>
         pos = Minimum(copied, Len(img))
    /\ (pc = "moved" /\ job.flash /\ ~fault) =>
         /\ pos = Minimum(copied + Amount, Len(img))
         /\ \A i \in 0 .. Amount - 1 : copied + i < Len(img) => buf[i] = img[copied + i + 1]
    /\ (pc = "moved" /\ ~job.flash /\ ~fault) =>
         \A i \in 0 .. Amount - 1 : buf[i] = disk[job.off + copied + i]
    /\ (pc \in {"loop", "moved"} /\ ~job.flash /\ ~fault) => Len(out) = copied
    /\ (pc \in {"loop", "moved"} /\ job.flash) => pos <= Len(img)

(* The inductive invariant. *)
IInv ==
    /\ TypeOK /\ TargetRequested /\ Progress /\ Contents
    /\ (Active => job.off >= MinOff)
    /\ BootUntouched /\ FlashConfined /\ ImageLands /\ DumpExact

(* A turn moves a positive number of sectors that fits in the buffer and in
   what is left, until nothing is left. *)
LEMMA AmountBounds ==
    ASSUME TypeOK
    PROVE  /\ Amount \in Nat /\ Amount <= Chunk
           /\ copied + Amount <= job.size
           /\ Amount = 0 => copied = job.size
<1>1. job.size \in Nat /\ copied \in Nat /\ copied <= job.size BY DEF TypeOK, Job
<1>2. Chunk \in Nat /\ Chunk > 0 BY WorkEmmcAssumption
<1> QED BY <1>1, <1>2 DEF Amount

(* What a shortened transfer may move. *)
LEMMA MinimumStep ==
    ASSUME NEW c \in Nat, NEW n \in Nat, NEW l \in Nat
    PROVE  Minimum(c, l) + Minimum(n, l - Minimum(c, l)) = Minimum(c + n, l)
BY DEF Minimum

(* Positions in the buffer of the sectors of a turn. *)
LEMMA TurnIndex ==
    ASSUME NEW o \in Nat, NEW c \in Nat, NEW n \in Nat, NEW k \in Nat, n <= k,
           NEW s \in o + c .. o + c + n - 1
    PROVE  s - o - c \in 0 .. k - 1
OBVIOUS

(* The sectors of a turn belong to the partition and to the eMMC. *)
LEMMA TurnRange ==
    ASSUME NEW o \in Nat, NEW c \in Nat, NEW n \in Nat, NEW z \in Nat, NEW e \in Int,
           c + n <= z, o + z <= e + 1
    PROVE  /\ o + c .. o + c + n - 1 \subseteq 0 .. e
           /\ o + c .. o + c + n - 1 \subseteq o .. o + z - 1
OBVIOUS

(* One of these sectors. *)
LEMMA TurnMember ==
    ASSUME NEW o \in Nat, NEW c \in Nat, NEW n \in Nat, NEW z \in Nat, NEW e \in Int,
           c + n <= z, o + z <= e + 1, NEW i \in Nat, i < n
    PROVE  o + c + i \in 0 .. e
OBVIOUS

(* The program starts in the invariant. *)
LEMMA InitOK == Init => IInv
<1> SUFFICES ASSUME Init PROVE IInv OBVIOUS
<1>1. TypeOK
  <2>1. <<>> \in Seq(Value) OBVIOUS
  <2>2. NoJob \in Job BY DEF NoJob, Job
  <2>3. copied <= job.size BY DEF Init, NoJob
  <2>4. fault \in BOOLEAN BY Zenon DEF Init
  <2>5. job \in Job BY <2>2 DEF Init
  <2>6. pc \in {"idle", "lookup", "open", "loop", "moved"} BY DEF Init
  <2>7. table \in [1 .. Slots -> Entry] /\ copied \in Nat /\ pos \in Nat /\ calls \in Nat
    BY DEF Init
  <2>8. img \in Seq(Value) /\ out \in Seq(Value) BY <2>1 DEF Init
  <2> QED BY <2>3, <2>4, <2>5, <2>6, <2>7, <2>8, WorkEmmcAssumption DEF Init, TypeOK
<1>2. Progress /\ Contents /\ TargetRequested /\ ~Active
  BY WorkEmmcAssumption DEF Init, NoJob, Progress, Contents, TargetRequested, Active
<1>3. BootUntouched /\ FlashConfined /\ ImageLands /\ DumpExact
  BY DEF Init, NoJob, BootUntouched, FlashConfined, ImageLands, DumpExact
<1> QED BY <1>1, <1>2, <1>3 DEF IInv

(* An accepted call keeps the invariant. *)
LEMMA StartOK ==
    ASSUME IInv, NEW flash \in BOOLEAN, NEW active \in {0, 1, 2}, NEW id \in Ids,
           Start(flash, active, id)
    PROVE  IInv'
<1> USE DEF Start
<1>i. /\ TypeOK /\ TargetRequested /\ Progress /\ Contents
      /\ Active => job.off >= MinOff
      /\ BootUntouched /\ FlashConfined /\ ImageLands /\ DumpExact
  BY DEF IInv
<1>1. TypeOK'
  <2>1. job' \in Job /\ job'.size = 0
    BY WorkEmmcAssumption DEF Job
  <2>2. fault' \in BOOLEAN BY Zenon
  <2>3. copied' \in Nat /\ copied' <= job'.size /\ pos' \in Nat BY <2>1
  <2> QED BY <1>i, <2>1, <2>2, <2>3 DEF TypeOK
<1>2. Progress' /\ Contents' /\ TargetRequested' /\ ~Active'
  BY <1>i, WorkEmmcAssumption DEF Progress, Contents, TargetRequested, Active, Refused
<1>3. BootUntouched' /\ FlashConfined' /\ ImageLands' /\ DumpExact'
  BY <1>i DEF BootUntouched, FlashConfined, ImageLands, DumpExact
<1> QED BY <1>1, <1>2, <1>3 DEF IInv

(* Looking the partition up keeps the invariant. *)
LEMMA LookupOK == IInv /\ Lookup => IInv'
<1> SUFFICES ASSUME IInv, Lookup PROVE IInv' OBVIOUS
<1>i. /\ TypeOK /\ TargetRequested /\ Progress /\ Contents
      /\ Active => job.off >= MinOff
      /\ BootUntouched /\ FlashConfined /\ ImageLands /\ DumpExact
  BY DEF IInv
<1>0. copied = 0 /\ job.id >= 3 /\ base = disk /\ pos = 0 /\ ~fault
  BY <1>i DEF Lookup, Progress
<1>1. CASE pc' = "idle" /\ UNCHANGED job
  <2>1. TypeOK' BY <1>i, <1>1 DEF Lookup, TypeOK
  <2>2. Progress' /\ Contents' /\ TargetRequested' /\ ~Active'
    BY <1>i, <1>0, <1>1 DEF Lookup, Progress, Contents, TargetRequested, Active
  <2>3. BootUntouched' /\ FlashConfined' /\ ImageLands' /\ DumpExact'
    BY <1>i, <1>0, <1>1 DEF Lookup, BootUntouched, FlashConfined, ImageLands, DumpExact
  <2> QED BY <2>1, <2>2, <2>3 DEF IInv
<1>2. ASSUME NEW i \in LastMatch, ~Unusable(table[i]), pc' = "open",
             job' = [job EXCEPT !.off = table[i].off, !.size = table[i].sz]
      PROVE  IInv'
  <2>1. /\ i \in 1 .. Slots /\ table[i].active = job.active /\ table[i].code = job.id
        /\ table[i] \in Entry
    BY <1>i, <1>2 DEF LastMatch, TypeOK
  <2>2. /\ table[i] \in [off : Nat, sz : Nat, code : Nat, active : Nat]
        /\ table[i].off + table[i].sz <= LastSector + 1
        /\ table[i].off >= MinOff
    <3>1. /\ Entry \subseteq [off : Nat, sz : Nat, code : Nat, active : Nat]
          /\ \A e \in Entry : e.off + e.sz <= LastSector + 1
          /\ MinOff \in Nat
      BY WorkEmmcAssumption
    <3>2. table[i] \in [off : Nat, sz : Nat, code : Nat, active : Nat] BY <2>1, <3>1
    <3>3. table[i].off + table[i].sz <= LastSector + 1 BY <2>1, <3>1
    <3>4. table[i].off \in Nat BY <3>2
    <3>5. table[i].off >= MinOff BY <1>2, <3>1, <3>4 DEF Unusable
    <3> QED BY <3>2, <3>3, <3>5
  <2>3. TypeOK'
    <3>1. job' \in Job /\ job'.size \in Nat
      <4>1. job \in Job BY <1>i DEF TypeOK
      <4>2. table[i].off \in Nat /\ table[i].sz \in Nat BY <2>2
      <4> QED BY <1>2, <4>1, <4>2 DEF Job
    <3>2. UNCHANGED <<table, copied, pos, buf, disk, img, out, base, stale, calls, fault>>
      BY DEF Lookup
    <3>3. copied' <= job'.size BY <1>0, <3>1, <3>2
    <3> QED BY <1>i, <1>2, <3>1, <3>2, <3>3 DEF TypeOK
  <2>4. /\ job'.off = table[i].off /\ job'.size = table[i].sz
        /\ job'.id = job.id /\ job'.active = job.active /\ job'.flash = job.flash
    BY <1>i, <1>2 DEF TypeOK, Job
  <2>5. TargetRequested'
    <3>1. table'[i] = [off |-> job'.off, sz |-> job'.size, code |-> job'.id,
                       active |-> job'.active]
      BY <2>1, <2>2, <2>4 DEF Lookup
    <3> QED BY <1>i, <1>0, <2>1, <2>4, <3>1 DEF TargetRequested
  <2>6. Progress' /\ Contents' /\ (job.off >= MinOff)'
    BY <1>i, <1>0, <1>2, <2>2, <2>4 DEF Lookup, Progress, Contents
  <2>7. BootUntouched' /\ FlashConfined' /\ ImageLands' /\ DumpExact'
    <3>1. disk' = disk /\ base' = disk /\ copied' = 0
      BY <1>0 DEF Lookup
    <3>2. 0 .. copied' - 1 = {} /\ ~(copied' > 0) BY <3>1
    <3> QED BY <1>i, <3>1, <3>2 DEF BootUntouched, FlashConfined, ImageLands, DumpExact
  <2> QED BY <1>2, <2>3, <2>5, <2>6, <2>7 DEF IInv
<1> QED BY <1>1, <1>2 DEF Lookup

(* Opening the file keeps the invariant. *)
LEMMA OpenOK == IInv /\ Open => IInv'
<1> SUFFICES ASSUME IInv, Open PROVE IInv' OBVIOUS
<1> USE DEF Open
<1>i. /\ TypeOK /\ TargetRequested /\ Progress /\ Contents
      /\ Active => job.off >= MinOff
      /\ BootUntouched /\ FlashConfined /\ ImageLands /\ DumpExact
  BY DEF IInv
<1>0. copied = 0 /\ base = disk /\ pos = 0 /\ ~fault BY <1>i DEF Progress
<1>1. img' \in Seq(Value) /\ out' \in Seq(Value)
  <2>1. <<>> \in Seq(Value) OBVIOUS
  <2> QED BY <1>i, <2>1, WorkEmmcAssumption DEF TypeOK
<1>2. TypeOK' BY <1>i, <1>1 DEF TypeOK
<1>3. Len(img') \in Nat BY <1>1
<1>4. Progress' /\ TargetRequested' /\ (Active => job.off >= MinOff)'
  BY <1>i, <1>0 DEF Progress, TargetRequested, Active
<1>5. Contents'
  BY <1>i, <1>0, <1>3 DEF Contents, Minimum
<1>6. BootUntouched' /\ FlashConfined' /\ ImageLands' /\ DumpExact'
  BY <1>i, <1>0 DEF BootUntouched, FlashConfined, ImageLands, DumpExact, TypeOK
<1> QED BY <1>2, <1>4, <1>5, <1>6 DEF IInv

(* Filling the buffer from the image keeps the invariant. *)
LEMMA FileToBufOK == IInv /\ FileToBuf => IInv'
<1> SUFFICES ASSUME IInv, FileToBuf PROVE IInv' OBVIOUS
<1>i. /\ TypeOK /\ TargetRequested /\ Progress /\ Contents
      /\ Active => job.off >= MinOff
      /\ BootUntouched /\ FlashConfined /\ ImageLands /\ DumpExact
  BY DEF IInv
<1>0. /\ Amount \in Nat /\ Amount <= Chunk /\ Amount > 0
      /\ copied \in Nat /\ pos \in Nat /\ Len(img) \in Nat /\ pos <= Len(img)
      /\ job.flash /\ pc = "loop" /\ img \in Seq(Value)
      /\ buf \in [0 .. Chunk - 1 -> Value]
  BY <1>i, AmountBounds DEF FileToBuf, TypeOK, Contents, Progress
<1> DEFINE most == Minimum(Amount, Len(img) - pos)
<1>1. PICK got \in 0 .. most :
        /\ buf' = FromFile(got) /\ pos' = pos + got /\ fault' = (fault \/ got < most)
  BY DEF FileToBuf
<1>2. most \in Nat /\ most <= Amount /\ most <= Len(img) - pos
  BY <1>0 DEF Minimum
<1>3. UNCHANGED <<table, job, copied, disk, img, out, base, stale, calls>> /\ pc' = "moved"
  BY DEF FileToBuf
<1>4. FromFile(got) \in [0 .. Chunk - 1 -> Value]
  BY <1>0, <1>1, <1>2, WorkEmmcAssumption DEF FromFile
<1>5. TypeOK' BY <1>i, <1>0, <1>1, <1>2, <1>3, <1>4 DEF TypeOK
<1>6. Amount' = Amount BY <1>3 DEF Amount
<1>7. Progress' /\ TargetRequested' /\ (Active => job.off >= MinOff)'
  BY <1>i, <1>0, <1>1, <1>3, <1>4, <1>6, WorkEmmcAssumption DEF Progress, TargetRequested, Active
<1>8. Contents'
  <2>1. pos' <= Len(img)' BY <1>0, <1>1, <1>2, <1>3
  <2>2. ASSUME ~fault'
        PROVE  /\ pos' = Minimum(copied + Amount, Len(img))
               /\ \A i \in 0 .. Amount - 1 :
                    copied + i < Len(img) => buf'[i] = img[copied + i + 1]
    <3>0. ~fault /\ ~(got < most) BY <1>1, <2>2, Zenon
    <3>1. ~fault /\ got = most BY <3>0, <1>2
    <3>2. pos = Minimum(copied, Len(img)) BY <1>i, <1>0, <3>1 DEF Contents
    <3>3. pos' = Minimum(copied + Amount, Len(img))
      <4>1. pos' = pos + most BY <1>1, <3>1
      <4> QED BY <1>0, <4>1, <3>2, MinimumStep
    <3>4. ASSUME NEW i \in 0 .. Amount - 1, copied + i < Len(img)
          PROVE  buf'[i] = img[copied + i + 1]
      <4>1. pos = copied /\ i < got BY <1>0, <3>1, <3>2, <3>4 DEF Minimum
      <4>2. i \in 0 .. Chunk - 1 BY <1>0, WorkEmmcAssumption
      <4> QED BY <1>1, <4>1, <4>2 DEF FromFile
    <3> QED BY <3>3, <3>4
  <2> QED BY <1>i, <1>0, <1>3, <1>6, <2>1, <2>2 DEF Contents
<1>9. BootUntouched' /\ FlashConfined' /\ ImageLands' /\ DumpExact'
  BY <1>i, <1>0, <1>1, <1>3 DEF BootUntouched, FlashConfined, ImageLands, DumpExact
<1> QED BY <1>5, <1>7, <1>8, <1>9 DEF IInv

(* A flash turn writes inside the partition, at or above the lowest offset. *)
LEMMA BufToDiskOK == IInv /\ BufToDisk => IInv'
<1> SUFFICES ASSUME IInv, BufToDisk PROVE IInv' OBVIOUS
<1>i. /\ TypeOK /\ TargetRequested /\ Progress /\ Contents
      /\ Active => job.off >= MinOff
      /\ BootUntouched /\ FlashConfined /\ ImageLands /\ DumpExact
  BY DEF IInv
<1> DEFINE n == Amount
           a == job.off + copied
<1>0. /\ n \in Nat /\ n <= Chunk /\ n > 0 /\ copied + n <= job.size
      /\ copied \in Nat /\ Len(img) \in Nat /\ job \in Job
      /\ job.off \in Nat /\ job.size \in Nat /\ job.off >= MinOff
      /\ job.off + job.size <= LastSector + 1
      /\ job.flash /\ pc = "moved" /\ buf \in [0 .. Chunk - 1 -> Value]
  BY <1>i, AmountBounds DEF BufToDisk, TypeOK, Job, Progress, Active
<1>1. /\ UNCHANGED <<table, job, pos, buf, img, out, base, stale, calls>>
      /\ pc' = "loop" /\ copied' = copied + n
  BY DEF BufToDisk, Advance
<1>2. \/ disk' = ToDisk /\ fault' = fault
      \/ disk' = disk /\ fault' = TRUE
  BY DEF BufToDisk
<1>3. Turn(n) = a .. a + n - 1 BY DEF Turn
<1>4. /\ a .. a + n - 1 \subseteq Sector
      /\ a .. a + n - 1 \subseteq job.off .. job.off + job.size - 1
  <2> HIDE DEF n
  <2>1. LastSector \in Int BY WorkEmmcAssumption
  <2> QED BY <1>0, <2>1, TurnRange DEF Sector
<1>5. \A s \in Sector : ToDisk[s] = IF s \in a .. a + n - 1
                                   THEN buf[s - job.off - copied] ELSE disk[s]
  BY <1>3 DEF ToDisk
<1>6. ToDisk \in [Sector -> Value]
  <2>1. \A s \in a .. a + n - 1 : s - job.off - copied \in 0 .. Chunk - 1
    BY <1>0, WorkEmmcAssumption, TurnIndex
  <2> QED BY <1>i, <1>0, <1>3, <2>1 DEF ToDisk, TypeOK
<1>7. fault' \in BOOLEAN /\ disk' \in [Sector -> Value]
  BY <1>i, <1>2, <1>6 DEF TypeOK
<1>8. TypeOK' BY <1>i, <1>0, <1>1, <1>7 DEF TypeOK
<1>9. Progress' /\ TargetRequested' /\ (Active => job.off >= MinOff)'
  BY <1>i, <1>0, <1>1 DEF Progress, TargetRequested, Active
<1>10. \A s \in Sector : s \notin a .. a + n - 1 => disk'[s] = disk[s]
  BY <1>2, <1>5
<1>11. BootUntouched'
  <2>1. \A s \in 0 .. MinOff - 1 : s \notin a .. a + n - 1
    BY <1>0, WorkEmmcAssumption
  <2> QED BY <1>i, <1>10, <2>1 DEF BootUntouched
<1>12. FlashConfined'
  BY <1>i, <1>1, <1>4, <1>10 DEF FlashConfined
<1>13. ImageLands'
  <2> SUFFICES ASSUME ~fault', NEW i \in 0 .. copied + n - 1, i < Len(img)
               PROVE  disk'[job.off + i] = img[i + 1]
    BY <1>i, <1>0, <1>1 DEF ImageLands
  <2>1. ~fault /\ disk' = ToDisk BY <1>2
  <2>2. job.off + i \in Sector
    <3>1. LastSector \in Int BY WorkEmmcAssumption
    <3>2. i \in Nat /\ i < job.size BY <1>0
    <3>3. job.off \in Nat /\ job.off + job.size <= LastSector + 1 BY <1>0
    <3>4. job.size \in Nat BY <1>0
    <3> QED BY <3>1, <3>2, <3>3, <3>4 DEF Sector
  <2>3. CASE i < copied
    <3>1. job.off + i \notin a .. a + n - 1 BY <1>0, <2>3
    <3>2. i \in 0 .. copied - 1 BY <1>0, <2>3
    <3> QED BY <1>i, <1>0, <1>10, <2>1, <2>2, <3>1, <3>2 DEF ImageLands
  <2>4. CASE i >= copied
    <3>1. job.off + i \in a .. a + n - 1 BY <1>0, <2>4
    <3>2. i - copied \in 0 .. n - 1 /\ copied + (i - copied) = i BY <1>0, <2>4
    <3>3. buf[i - copied] = img[i + 1] BY <1>i, <1>0, <2>1, <3>2 DEF Contents
    <3>4. (job.off + i) - job.off - copied = i - copied BY <1>0
    <3>5. ToDisk[job.off + i] = buf[(job.off + i) - job.off - copied]
      BY <1>5, <2>2, <3>1
    <3> QED BY <2>1, <3>3, <3>4, <3>5
  <2> QED BY <1>0, <2>3, <2>4
<1>14. Contents' /\ DumpExact'
  <2>1. pos' <= Len(img)' BY <1>i, <1>0, <1>1 DEF Contents
  <2>2. ~fault' => pos' = Minimum(copied', Len(img'))
    BY <1>i, <1>0, <1>1, <1>2 DEF Contents
  <2> QED BY <1>i, <1>0, <1>1, <2>1, <2>2 DEF Contents, DumpExact
<1> QED BY <1>8, <1>9, <1>11, <1>12, <1>13, <1>14 DEF IInv

(* Filling the buffer from the eMMC keeps the invariant. *)
LEMMA DiskToBufOK == IInv /\ DiskToBuf => IInv'
<1> SUFFICES ASSUME IInv, DiskToBuf PROVE IInv' OBVIOUS
<1>i. /\ TypeOK /\ TargetRequested /\ Progress /\ Contents
      /\ Active => job.off >= MinOff
      /\ BootUntouched /\ FlashConfined /\ ImageLands /\ DumpExact
  BY DEF IInv
<1>0. /\ Amount \in Nat /\ Amount <= Chunk /\ Amount > 0 /\ copied + Amount <= job.size
      /\ copied \in Nat /\ job.off \in Nat /\ job.size \in Nat
      /\ job.off + job.size <= LastSector + 1
      /\ ~job.flash /\ pc = "loop" /\ buf \in [0 .. Chunk - 1 -> Value]
  BY <1>i, AmountBounds DEF DiskToBuf, TypeOK, Job, Progress
<1>1. /\ UNCHANGED <<table, job, copied, pos, disk, img, out, base, stale, calls>>
      /\ pc' = "moved"
  BY DEF DiskToBuf
<1>2. \/ buf' = FromDisk /\ fault' = fault
      \/ buf' = buf /\ fault' = TRUE
  BY DEF DiskToBuf
<1>3. FromDisk \in [0 .. Chunk - 1 -> Value]
  <2>1. \A i \in 0 .. Chunk - 1 : i < Amount => job.off + copied + i \in Sector
    <3>1. LastSector \in Int BY WorkEmmcAssumption
    <3>2. ASSUME NEW i \in 0 .. Chunk - 1, i < Amount PROVE i \in Nat BY WorkEmmcAssumption
    <3> QED BY <1>0, <3>1, <3>2, TurnMember DEF Sector
  <2>2. disk \in [Sector -> Value] BY <1>i DEF TypeOK
  <2>3. ASSUME NEW i \in 0 .. Chunk - 1
        PROVE  (IF i < Amount THEN disk[job.off + copied + i] ELSE buf[i]) \in Value
    <3>1. i < Amount => disk[job.off + copied + i] \in Value BY <2>1, <2>2, <2>3
    <3>2. buf[i] \in Value BY <1>0, <2>3
    <3> QED BY <3>1, <3>2
  <2> QED BY <2>3 DEF FromDisk
<1>4. buf' \in [0 .. Chunk - 1 -> Value] /\ fault' \in BOOLEAN
  BY <1>i, <1>0, <1>2, <1>3 DEF TypeOK
<1>5. Amount' = Amount BY <1>1 DEF Amount
<1>6. TypeOK' BY <1>i, <1>1, <1>4 DEF TypeOK
<1>7. Progress' /\ TargetRequested' /\ (Active => job.off >= MinOff)'
  BY <1>i, <1>0, <1>1, <1>4, <1>5, WorkEmmcAssumption DEF Progress, TargetRequested, Active
<1>8. Contents'
  <2>1. ASSUME ~fault', NEW i \in 0 .. Amount - 1
        PROVE  buf'[i] = disk[job.off + copied + i]
    <3>1. i \in 0 .. Chunk - 1 /\ i < Amount BY <1>0, WorkEmmcAssumption
    <3> QED BY <1>2, <2>1, <3>1 DEF FromDisk
  <2>2. ~fault' => Len(out)' = copied' BY <1>i, <1>0, <1>1, <1>2 DEF Contents
  <2> QED BY <1>i, <1>0, <1>1, <1>5, <2>1, <2>2 DEF Contents
<1>9. BootUntouched' /\ FlashConfined' /\ ImageLands' /\ DumpExact'
  BY <1>i, <1>0, <1>1, <1>2 DEF BootUntouched, FlashConfined, ImageLands, DumpExact
<1> QED BY <1>6, <1>7, <1>8, <1>9 DEF IInv

(* Appending to the dump keeps the invariant. *)
LEMMA BufToFileOK == IInv /\ BufToFile => IInv'
<1> SUFFICES ASSUME IInv, BufToFile PROVE IInv' OBVIOUS
<1>i. /\ TypeOK /\ TargetRequested /\ Progress /\ Contents
      /\ Active => job.off >= MinOff
      /\ BootUntouched /\ FlashConfined /\ ImageLands /\ DumpExact
  BY DEF IInv
<1>0. /\ Amount \in Nat /\ Amount <= Chunk /\ Amount > 0 /\ copied + Amount <= job.size
      /\ copied \in Nat /\ pos \in Nat /\ job.size \in Nat /\ job.off \in Nat
      /\ job.off >= MinOff
      /\ ~job.flash /\ pc = "moved" /\ buf \in [0 .. Chunk - 1 -> Value]
      /\ out \in Seq(Value) /\ Len(out) \in Nat
  BY <1>i, AmountBounds DEF BufToFile, TypeOK, Job, Progress, Active
<1>1. PICK put \in 0 .. Amount :
        /\ out' = out \o [i \in 1 .. put |-> buf[i - 1]]
        /\ pos' = pos + put
        /\ fault' = (fault \/ put < Amount)
  BY DEF BufToFile
<1> DEFINE add == [i \in 1 .. put |-> buf[i - 1]]
<1>2. /\ UNCHANGED <<table, job, buf, disk, img, base, stale, calls>>
      /\ pc' = "loop" /\ copied' = copied + Amount
  BY DEF BufToFile, Advance
<1>3. add \in Seq(Value) /\ Len(add) = put
  <2>1. \A i \in 1 .. put : i - 1 \in 0 .. Chunk - 1
    BY <1>0, WorkEmmcAssumption
  <2>2. add \in [1 .. put -> Value] BY <1>0, <2>1
  <2>3. put \in Nat BY <1>0
  <2> QED BY <2>2, <2>3
<1>4. out' \in Seq(Value) /\ Len(out') = Len(out) + put
  BY <1>0, <1>1, <1>3
<1>5. fault' \in BOOLEAN BY <1>1, Zenon
<1>6. TypeOK' BY <1>i, <1>0, <1>1, <1>2, <1>4, <1>5 DEF TypeOK
<1>7. Progress' /\ TargetRequested' /\ (Active => job.off >= MinOff)'
  BY <1>i, <1>0, <1>2 DEF Progress, TargetRequested, Active
<1>8. ASSUME ~fault' PROVE ~fault /\ put = Amount
  <2>1. ~fault /\ ~(put < Amount) BY <1>1, <1>8, Zenon
  <2> QED BY <1>0, <2>1
<1>9. Contents' BY <1>i, <1>0, <1>2, <1>4, <1>8 DEF Contents
<1>10. DumpExact'
  <2> SUFFICES ASSUME ~fault'
               PROVE  /\ Len(out') = copied + Amount
                      /\ \A i \in 0 .. copied + Amount - 1 : out'[i + 1] = disk[job.off + i]
    BY <1>i, <1>0, <1>2 DEF DumpExact
  <2>1. Len(out) = copied BY <1>i, <1>0, <1>8 DEF Contents
  <2>2. ASSUME NEW i \in 0 .. copied + Amount - 1
        PROVE  out'[i + 1] = disk[job.off + i]
    <3>1. CASE i < copied
      <4>1. out'[i + 1] = out[i + 1] BY <1>0, <1>1, <1>3, <2>1, <3>1
      <4>2. out[i + 1] = disk[job.off + i] BY <1>i, <1>0, <1>8, <3>1 DEF DumpExact
      <4> QED BY <4>1, <4>2
    <3>2. CASE i >= copied
      <4>1. i + 1 - copied \in 1 .. put /\ i - copied \in 0 .. Amount - 1
        BY <1>0, <1>8, <3>2
      <4>2. out'[i + 1] = add[i + 1 - copied]
        <5> HIDE DEF add
        <5>1. i + 1 \in Len(out) + 1 .. Len(out) + Len(add) /\ i + 1 - Len(out) = i + 1 - copied
          BY <1>0, <1>3, <2>1, <4>1, <3>2
        <5>2. out' = out \o add BY <1>1 DEF add
        <5> QED BY <1>0, <1>3, <5>1, <5>2
      <4>3. add[i + 1 - copied] = buf[i - copied]
        <5>1. (i + 1 - copied) - 1 = i - copied BY <1>0
        <5> QED BY <4>1, <5>1
      <4>4. buf[i - copied] = disk[job.off + copied + (i - copied)]
        BY <1>i, <1>0, <1>8, <4>1 DEF Contents
      <4>5. job.off + copied + (i - copied) = job.off + i BY <1>0
      <4> QED BY <4>2, <4>3, <4>4, <4>5
    <3> QED BY <1>0, <3>1, <3>2
  <2> QED BY <1>4, <1>8, <2>1, <2>2
<1>11. BootUntouched' /\ FlashConfined' /\ ImageLands'
  BY <1>i, <1>0, <1>2 DEF BootUntouched, FlashConfined, ImageLands
<1> QED BY <1>6, <1>7, <1>9, <1>10, <1>11 DEF IInv

(* Closing keeps the invariant. *)
LEMMA CloseOK == IInv /\ Close => IInv'
<1> SUFFICES ASSUME IInv, Close PROVE IInv' OBVIOUS
<1>1. TypeOK' BY DEF IInv, Close, TypeOK
<1>2. Progress' /\ Contents' /\ TargetRequested' /\ (Active => job.off >= MinOff)'
  BY DEF IInv, Close, Progress, Contents, TargetRequested, Active
<1>3. BootUntouched' /\ FlashConfined' /\ ImageLands' /\ DumpExact'
  BY DEF IInv, Close, BootUntouched, FlashConfined, ImageLands, DumpExact
<1> QED BY <1>1, <1>2, <1>3 DEF IInv

(* A stuttering step keeps the invariant. *)
LEMMA IdleOK == IInv /\ UNCHANGED vars => IInv'
<1> SUFFICES ASSUME IInv, UNCHANGED vars PROVE IInv' OBVIOUS
<1>1. TypeOK' BY DEF IInv, vars, TypeOK
<1>2. Progress' /\ Contents' /\ TargetRequested' /\ (Active => job.off >= MinOff)'
  BY DEF IInv, vars, Progress, Contents, TargetRequested, Active, Amount
<1>3. BootUntouched' /\ FlashConfined' /\ ImageLands' /\ DumpExact'
  BY DEF IInv, vars, BootUntouched, FlashConfined, ImageLands, DumpExact
<1> QED BY <1>1, <1>2, <1>3 DEF IInv

(* IInv holds in every state. *)
LEMMA Inductive == Spec => []IInv
<1>1. IInv /\ [Next]_vars => IInv'
  <2> SUFFICES ASSUME IInv, [Next]_vars PROVE IInv' OBVIOUS
  <2>1. ASSUME NEW flash \in BOOLEAN, NEW active \in {0, 1, 2}, NEW id \in Ids,
               Start(flash, active, id)
        PROVE  IInv'
    BY <2>1, StartOK
  <2>2. ASSUME NEW active \in {0, 1, 2}, NEW id \in Ids, Refuse(active, id)
        PROVE  IInv'
    BY <2>2, IdleOK DEF Refuse
  <2> QED BY <2>1, <2>2, LookupOK, OpenOK, FileToBufOK, BufToDiskOK, DiskToBufOK,
             BufToFileOK, CloseOK, IdleOK DEF Next, Work
<1> QED BY <1>1, InitOK, PTL DEF Spec

(* The loop's counters and buffers stay in their ranges. *)
THEOREM TypeCorrect == Spec => []TypeOK
<1>1. IInv => TypeOK BY DEF IInv
<1> QED BY <1>1, Inductive, PTL

(* "make sure that its not touching boot stuff" (main.c:135), for every
   partition table, image and sequence of commands. *)
THEOREM BootStaysUntouched == Spec => []BootUntouched
<1>1. IInv => BootUntouched BY DEF IInv
<1> QED BY <1>1, Inductive, PTL

(* A flash writes inside the partition that was looked up only. *)
THEOREM FlashStaysConfined == Spec => []FlashConfined
<1>1. IInv => FlashConfined BY DEF IInv
<1> QED BY <1>1, Inductive, PTL

(* The partition worked on is one the table lists for the command. *)
THEOREM TargetIsRequested == Spec => []TargetRequested
<1>1. IInv => TargetRequested BY DEF IInv
<1> QED BY <1>1, Inductive, PTL

(* Without failures the image lands sector by sector. *)
THEOREM ImageAlwaysLands == Spec => []ImageLands
<1>1. IInv => ImageLands BY DEF IInv
<1> QED BY <1>1, Inductive, PTL

(* Without failures the dump is the partition. *)
THEOREM DumpIsExact == Spec => []DumpExact
<1>1. IInv => DumpExact BY DEF IInv
<1> QED BY <1>1, Inductive, PTL

(* The copy ends only when every sector of the partition was gone through. *)
THEOREM AllIsCopied == Spec => CopiesAll
<1>1. IInv /\ [Next]_vars => [pc = "loop" /\ pc' = "idle" => copied = job.size]_vars
  <2> SUFFICES ASSUME IInv, Next, pc = "loop", pc' = "idle" PROVE copied = job.size
    OBVIOUS
  <2>1. Close
    BY DEF Next, Work, Start, Refuse, vars, Lookup, Open, FileToBuf, BufToDisk,
           DiskToBuf, BufToFile
  <2> QED BY <2>1, AmountBounds DEF Close, IInv
<1> QED BY <1>1, Inductive, PTL DEF Spec, CopiesAll

(***************************************************************************)
(* What a flash leaves, sector by sector, the continuation of a short      *)
(* image included.                                                         *)
(***************************************************************************)

(* Sectors of image im up to m that pass through place j of the buffer, the
   last of some, and what is at j when the image was read up to c: a sector of
   it, or what the buffer st held before. *)
Before(im, m, j) == {k \in 0 .. m : k < Len(im) /\ k % Chunk = j}
Last(S) == CHOOSE k \in S : \A l \in S : l <= k
Held(im, st, c, j) ==
    IF Before(im, c - 1, j) = {} THEN st[j] ELSE im[Last(Before(im, c - 1, j)) + 1]

(* Whole turns lie before c. *)
Turned(c) == \E q \in Nat : c = q * Chunk

(* FlashExact is not inductive: what a turn writes is what the buffer holds, of
   this and of earlier turns, and only whole turns come before another one. *)
FlashInv ==
    /\ pc \in {"lookup", "open"} => stale = buf
    /\ job.flash /\ ~fault /\ pc \in {"loop", "moved"} /\ Amount > 0 =>
         /\ Turned(copied)
         /\ \A j \in 0 .. Chunk - 1 :
              buf[j] = Held(img, stale, IF pc = "loop" THEN copied ELSE copied + Amount, j)
    /\ FlashExact

(* The place in the buffer of a sector of a turn, and of no other. *)
LEMMA Placed ==
    ASSUME NEW n \in Nat, n > 0, NEW q \in Nat, NEW d \in 0 .. n - 1
    PROVE  (q * n + d) % n = d
OBVIOUS

(* Within a turn a place belongs to one sector. *)
LEMMA OnlyPlaced ==
    ASSUME NEW n \in Nat, n > 0, NEW q \in Nat, NEW j \in 0 .. n - 1,
           NEW k \in Nat, k >= q * n, k < q * n + n, k % n = j
    PROVE  k = q * n + j
<1> DEFINE d == k - q * n
<1>1. q * n \in Nat OBVIOUS
<1>2. d \in 0 .. n - 1 /\ k = q * n + d BY <1>1
<1>3. (q * n + d) % n = d BY <1>2, Placed
<1>4. d = j BY <1>2, <1>3
<1> QED BY <1>2, <1>4

(* A turn of d sectors that reads sector c + j of the image has it at j. *)
LEMMA HeldNew ==
    ASSUME NEW im \in Seq(Value), NEW st, NEW c \in Nat, Turned(c),
           NEW d \in 0 .. Chunk, NEW j \in 0 .. Chunk - 1, j < d, c + j < Len(im)
    PROVE  Held(im, st, c + d, j) = im[c + j + 1]
<1>0. Chunk \in Nat /\ Chunk > 0 BY WorkEmmcAssumption
<1>q. PICK q \in Nat : c = q * Chunk BY DEF Turned
<1>1. c \in Nat /\ Len(im) \in Nat /\ j \in Nat /\ d \in Nat /\ d <= Chunk BY <1>0
<1> DEFINE before == Before(im, c + d - 1, j)
<1>2. (c + j) % Chunk = j BY <1>0, <1>q, Placed
<1>3. c + j \in before BY <1>1, <1>2 DEF Before
<1>4. ASSUME NEW k \in before PROVE k <= c + j
  <2>1. k \in Nat /\ k < c + Chunk /\ k % Chunk = j BY <1>0, <1>1 DEF Before
  <2>2. CASE k < c BY <1>1, <2>1, <2>2
  <2>3. CASE k >= c
    <3>1. k = c + j BY <1>0, <1>q, <2>1, <2>3, OnlyPlaced
    <3> QED BY <1>1, <3>1
  <2> QED BY <1>1, <2>1, <2>2, <2>3
<1>5. \A k \in before : k \in Nat BY <1>1 DEF Before
<1>6. ASSUME NEW k \in before, \A l \in before : l <= k PROVE k = c + j
  <2>1. c + j <= k /\ k <= c + j BY <1>3, <1>4, <1>6
  <2> QED BY <1>1, <1>5, <2>1
<1> HIDE DEF before
<1>7. Last(before) = c + j BY <1>3, <1>4, <1>6 DEF Last
<1>8. before # {} BY <1>3
<1>9. Held(im, st, c + d, j) = im[Last(before) + 1] BY <1>8 DEF Held, before
<1> QED BY <1>7, <1>9

(* Otherwise the place keeps what it held. *)
LEMMA HeldOld ==
    ASSUME NEW im \in Seq(Value), NEW st, NEW c \in Nat, Turned(c),
           NEW d \in 0 .. Chunk, NEW j \in 0 .. Chunk - 1, ~(j < d /\ c + j < Len(im))
    PROVE  Held(im, st, c + d, j) = Held(im, st, c, j)
<1>0. Chunk \in Nat /\ Chunk > 0 BY WorkEmmcAssumption
<1>q. PICK q \in Nat : c = q * Chunk BY DEF Turned
<1>1. c \in Nat /\ Len(im) \in Nat /\ j \in Nat /\ d \in Nat /\ d <= Chunk BY <1>0
<1>2. ASSUME NEW k \in 0 .. c + d - 1, k < Len(im), k % Chunk = j PROVE k \in 0 .. c - 1
  <2> SUFFICES ASSUME k >= c PROVE FALSE BY <1>1
  <2>0. k \in Nat /\ k < c + Chunk BY <1>0, <1>1
  <2>1. k = c + j BY <1>0, <1>2, <1>q, <2>0, OnlyPlaced
  <2> QED BY <1>1, <1>2, <2>1
<1>3. Before(im, c + d - 1, j) = Before(im, c - 1, j)
  <2>1. 0 .. c - 1 \subseteq 0 .. c + d - 1 BY <1>1
  <2> QED BY <1>2, <2>1 DEF Before
<1> QED BY <1>3 DEF Held

(* Flashed, in terms of what lies before a sector. *)
LEMMA FlashedIs ==
    \A i : Flashed(i) = IF Before(img, i, i % Chunk) = {} THEN stale[i % Chunk]
                        ELSE img[Last(Before(img, i, i % Chunk)) + 1]
BY Zenon DEF Flashed, Before, Last

(* What sector c + j is to hold is what is at j when it is written. *)
LEMMA HeldFlashed ==
    ASSUME img \in Seq(Value), NEW c \in Nat, Turned(c),
           NEW d \in 0 .. Chunk, NEW j \in 0 .. Chunk - 1, j < d
    PROVE  Flashed(c + j) = Held(img, stale, c + d, j)
<1>0. Chunk \in Nat /\ Chunk > 0 BY WorkEmmcAssumption
<1>q. PICK q \in Nat : c = q * Chunk BY DEF Turned
<1>1. c \in Nat /\ Len(img) \in Nat /\ j \in Nat /\ d \in Nat /\ d <= Chunk BY <1>0
<1>2. (c + j) % Chunk = j BY <1>0, <1>q, Placed
<1>3. ASSUME NEW k \in 0 .. c + d - 1, k % Chunk = j PROVE k \in 0 .. c + j
  <2>1. CASE k < c BY <1>1, <2>1
  <2>2. CASE k >= c
    <3>0. k \in Nat /\ k < c + Chunk BY <1>0, <1>1
    <3>1. k = c + j BY <1>0, <1>3, <1>q, <2>2, <3>0, OnlyPlaced
    <3> QED BY <1>1, <3>1
  <2> QED BY <1>1, <2>1, <2>2
<1>4. Before(img, c + d - 1, j) = Before(img, c + j, j)
  <2>1. 0 .. c + j \subseteq 0 .. c + d - 1 BY <1>1
  <2> QED BY <1>3, <2>1 DEF Before
<1>5. Flashed(c + j) = IF Before(img, c + j, j) = {} THEN stale[j] ELSE img[Last(Before(img, c + j, j)) + 1]
  BY <1>2, FlashedIs
<1> QED BY <1>4, <1>5 DEF Held

(* Before the first turn the buffer holds what it held. *)
LEMMA HeldFirst == \A im, st, j : Held(im, st, 0, j) = st[j]
<1>1. \A im, j : Before(im, 0 - 1, j) = {}
  <2>1. 0 .. 0 - 1 = {} OBVIOUS
  <2> QED BY <2>1 DEF Before
<1> QED BY <1>1 DEF Held

(* It depends on the image and on the buffer at the start only. *)
LEMMA FlashedSame == ASSUME UNCHANGED <<img, stale>> PROVE \A i : Flashed(i)' = Flashed(i)
<1>1. (\A i : Flashed(i) = IF Before(img, i, i % Chunk) = {} THEN stale[i % Chunk]
                          ELSE img[Last(Before(img, i, i % Chunk)) + 1])'
  BY FlashedIs, PTL
<1> QED BY <1>1, FlashedIs

(* A step that leaves disk and image alone leaves FlashExact alone. *)
LEMMA FlashKept ==
    ASSUME FlashExact, UNCHANGED <<job, disk, img, stale>>, copied' \in {copied, 0}, fault => fault'
    PROVE  FlashExact'
<1>1. copied' = 0 => 0 .. copied' - 1 = {} OBVIOUS
<1>2. \A i : Flashed(i)' = Flashed(i) BY FlashedSame
<1> QED BY <1>1, <1>2 DEF FlashExact

(* Every step of a flash, and of anything else, keeps it. *)
LEMMA FlashStep == IInv /\ FlashInv /\ [Next]_vars => FlashInv'
<1> SUFFICES ASSUME IInv, FlashInv, [Next]_vars PROVE FlashInv' OBVIOUS
<1>i. /\ TypeOK /\ Progress /\ Contents /\ FlashExact
      /\ job \in Job /\ copied \in Nat /\ copied <= job.size /\ Chunk \in Nat /\ Chunk > 0
      /\ img \in Seq(Value) /\ Len(img) \in Nat
  BY WorkEmmcAssumption DEF IInv, FlashInv, TypeOK
<1>z. 0 .. 0 - 1 = {} OBVIOUS
<1>1. ASSUME NEW flash \in BOOLEAN, NEW active \in {0, 1, 2}, NEW id \in Ids,
             Start(flash, active, id)
      PROVE  FlashInv'
  BY <1>1, <1>z DEF Start, FlashInv, FlashExact
<1>2. CASE Lookup
  <2>1. copied = 0 /\ stale = buf BY <1>2, <1>i DEF Lookup, Progress, FlashInv
  <2>2. copied' = 0 /\ stale' = buf' /\ pc' \in {"idle", "open"} BY <1>2, <2>1 DEF Lookup
  <2> QED BY <1>z, <2>2 DEF FlashInv, FlashExact
<1>3. CASE Open
  <2>1. copied = 0 /\ stale = buf BY <1>3, <1>i DEF Open, Progress, FlashInv
  <2>2. copied' = 0 /\ stale' = buf' /\ pc' \in {"idle", "loop"} BY <1>3, <2>1 DEF Open
  <2>3. Turned(copied')
    <3>1. 0 = 0 * Chunk /\ 0 \in Nat BY <1>i
    <3> QED BY <2>2, <3>1 DEF Turned
  <2>4. \A j \in 0 .. Chunk - 1 : buf'[j] = Held(img', stale', copied', j) BY <2>2, HeldFirst
  <2>5. FlashExact' BY <1>z, <2>2 DEF FlashExact
  <2> QED BY <2>2, <2>3, <2>4, <2>5 DEF FlashInv
<1>4. CASE FileToBuf
  <2>0. /\ Amount \in Nat /\ Amount <= Chunk /\ Amount > 0 /\ copied + Amount <= job.size
        /\ pos \in Nat /\ pos <= Len(img) /\ job.flash /\ pc = "loop"
        /\ buf \in [0 .. Chunk - 1 -> Value]
    BY <1>4, <1>i, AmountBounds DEF FileToBuf, TypeOK, Contents, Progress
  <2> DEFINE most == Minimum(Amount, Len(img) - pos)
  <2>1. PICK got \in 0 .. most :
          /\ buf' = FromFile(got) /\ fault' = (fault \/ got < most)
    BY <1>4 DEF FileToBuf
  <2>2. /\ UNCHANGED <<job, copied, disk, img, stale>> /\ pc' = "moved"
    BY <1>4 DEF FileToBuf
  <2>3. Amount' = Amount BY <2>2 DEF Amount
  <2>4. FlashExact'
    <3>1. fault => fault' BY <2>1, Zenon
    <3> QED BY <1>i, <2>2, <3>1, FlashKept
  <2>5. ASSUME ~fault' PROVE ~fault /\ got = most
    <3>1. ~fault /\ ~(got < most) BY <2>1, <2>5, Zenon
    <3>2. most \in Nat BY <1>i, <2>0 DEF Minimum
    <3> QED BY <3>1, <3>2
  <2>6. ASSUME ~fault'
        PROVE  Turned(copied) /\ \A j \in 0 .. Chunk - 1 : buf'[j] = Held(img, stale, copied + Amount, j)
    <3>1. ~fault /\ got = most BY <2>5, <2>6
    <3>2. Turned(copied) /\ \A j \in 0 .. Chunk - 1 : buf[j] = Held(img, stale, copied, j)
      BY <2>0, <3>1 DEF FlashInv
    <3>4. pos = Minimum(copied, Len(img)) BY <1>i, <2>0, <3>1 DEF Contents
    <3>5. ASSUME NEW j \in 0 .. Chunk - 1 PROVE buf'[j] = Held(img, stale, copied + Amount, j)
      <4>1. buf'[j] = IF j < got THEN img[pos + j + 1] ELSE buf[j] BY <2>1 DEF FromFile
      <4>2. Amount \in 0 .. Chunk BY <2>0
      <4>3. j < got <=> j < Amount /\ copied + j < Len(img)
        BY <1>i, <2>0, <3>1, <3>4 DEF Minimum
      <4>4. j < got => pos = copied BY <1>i, <2>0, <3>1, <3>4, <4>3 DEF Minimum
      <4>5. CASE j < got
        <5>1. Held(img, stale, copied + Amount, j) = img[copied + j + 1]
          BY <1>i, <3>2, <4>2, <4>3, <4>5, HeldNew
        <5> QED BY <4>1, <4>4, <4>5, <5>1
      <4>6. CASE ~(j < got)
        <5>1. Held(img, stale, copied + Amount, j) = Held(img, stale, copied, j)
          BY <1>i, <3>2, <4>2, <4>3, <4>6, HeldOld
        <5> QED BY <3>2, <4>1, <4>6, <5>1
      <4> QED BY <4>5, <4>6
    <3> QED BY <3>2, <3>5
  <2>7. ASSUME ~fault' PROVE Turned(copied') BY <2>2, <2>6, <2>7
  <2> QED BY <2>2, <2>3, <2>4, <2>6, <2>7 DEF FlashInv
<1>5. CASE BufToDisk
  <2>0. /\ Amount \in Nat /\ Amount <= Chunk /\ Amount > 0 /\ copied + Amount <= job.size
        /\ job.off \in Nat /\ job.size \in Nat /\ job.flash /\ pc = "moved"
        /\ job.off + job.size <= LastSector + 1
    BY <1>5, <1>i, AmountBounds DEF BufToDisk, Progress, Job
  <2>1. /\ UNCHANGED <<job, buf, img, stale>> /\ pc' = "loop" /\ copied' = copied + Amount
    BY <1>5 DEF BufToDisk, Advance
  <2>2. \/ disk' = ToDisk /\ fault' = fault
        \/ fault' = TRUE
    BY <1>5 DEF BufToDisk
  <2> SUFFICES ASSUME ~fault'
               PROVE  /\ (Amount > 0)' =>
                           /\ Turned(copied')
                           /\ \A j \in 0 .. Chunk - 1 : buf'[j] = Held(img', stale', copied', j)
                      /\ FlashExact'
    BY <2>1 DEF FlashInv, FlashExact
  <2>3. disk' = ToDisk /\ ~fault BY <2>2
  <2>4. Turned(copied) /\ \A j \in 0 .. Chunk - 1 : buf[j] = Held(img, stale, copied + Amount, j)
    BY <2>0, <2>3 DEF FlashInv
  <2>5. PICK q \in Nat : copied = q * Chunk BY <2>4 DEF Turned
  <2>6. ASSUME (Amount > 0)' PROVE Turned(copied')
    <3>1. Amount = Chunk
      <4>1. copied' # job.size BY <1>i, <2>0, <2>1, <2>6 DEF Amount
      <4> QED BY <1>i, <2>0, <2>1, <4>1 DEF Amount
    <3>2. copied' = (q + 1) * Chunk /\ q + 1 \in Nat
      <4>1. (q + 1) * Chunk = q * Chunk + Chunk BY <1>i
      <4> QED BY <2>1, <2>5, <3>1, <4>1
    <3> QED BY <3>2 DEF Turned
  <2>7. \A j \in 0 .. Chunk - 1 : buf'[j] = Held(img', stale', copied', j) BY <2>1, <2>4
  <2>8. ASSUME NEW i \in 0 .. copied + Amount - 1 PROVE disk'[job.off + i] = Flashed(i)
    <3>1. job.off + i \in Sector
      <4>1. LastSector \in Int BY WorkEmmcAssumption
      <4>2. i \in Nat /\ i < job.size BY <1>i, <2>0
      <4> QED BY <2>0, <4>1, <4>2 DEF Sector
    <3>2. disk'[job.off + i] = IF job.off + i \in Turn(Amount) THEN buf[(job.off + i) - job.off - copied]
                               ELSE disk[job.off + i]
      <4>1. \A s \in Sector : disk'[s] = IF s \in Turn(Amount) THEN buf[s - job.off - copied] ELSE disk[s]
        BY <2>3 DEF ToDisk
      <4> QED BY <3>1, <4>1
    <3>3. CASE i < copied
      <4>1. job.off + i \notin Turn(Amount) BY <1>i, <2>0, <3>3 DEF Turn
      <4>2. i \in 0 .. copied - 1 BY <1>i, <3>3
      <4>3. disk[job.off + i] = Flashed(i) BY <1>i, <2>0, <2>3, <4>2 DEF FlashExact
      <4> QED BY <3>2, <4>1, <4>3
    <3>4. CASE i >= copied
      <4> DEFINE j == i - copied
      <4>1. j \in 0 .. Chunk - 1 /\ j < Amount /\ i = copied + j /\ Amount \in 0 .. Chunk
        BY <1>i, <2>0, <3>4
      <4>2. job.off + i \in Turn(Amount) BY <1>i, <2>0, <3>4 DEF Turn
      <4>3. (job.off + i) - job.off - copied = j BY <1>i, <2>0
      <4>4. disk'[job.off + i] = buf[j] BY <3>2, <4>2, <4>3
      <4>5. Flashed(copied + j) = Held(img, stale, copied + Amount, j)
        BY <1>i, <2>4, <4>1, HeldFlashed
      <4> QED BY <2>4, <4>1, <4>4, <4>5
    <3> QED BY <1>i, <2>0, <3>3, <3>4
  <2>9. FlashExact'
    <3>1. \A i : Flashed(i)' = Flashed(i) BY <2>1, FlashedSame
    <3>2. job'.off = job.off /\ copied' = copied + Amount BY <2>1
    <3>3. ASSUME NEW i \in 0 .. copied' - 1 PROVE disk'[job'.off + i] = Flashed(i)'
      <4>1. i \in 0 .. copied + Amount - 1 BY <1>i, <2>0, <3>2
      <4> QED BY <2>8, <3>1, <3>2, <4>1
    <3> QED BY <3>3 DEF FlashExact
  <2> QED BY <2>6, <2>7, <2>9
<1>6. CASE DiskToBuf \/ BufToFile
  <2>1. ~job.flash /\ job' = job /\ pc' \in {"loop", "moved"}
    BY <1>6 DEF DiskToBuf, BufToFile
  <2> QED BY <2>1 DEF FlashInv, FlashExact
<1>7. CASE Close
  <2>1. UNCHANGED <<job, disk, img, stale, copied, fault>> /\ pc' = "idle" BY <1>7 DEF Close
  <2>2. FlashExact' BY <1>i, <2>1, FlashKept
  <2> QED BY <2>1, <2>2 DEF FlashInv
<1>8. CASE UNCHANGED vars
  <2>1. UNCHANGED <<pc, job, disk, img, stale, buf, copied, fault>> BY <1>8 DEF vars
  <2>2. FlashExact' BY <1>i, <2>1, FlashKept
  <2>3. Amount' = Amount BY <2>1 DEF Amount
  <2> QED BY <2>1, <2>2, <2>3 DEF FlashInv
<1>9. ASSUME NEW active \in {0, 1, 2}, NEW id \in Ids, Refuse(active, id) PROVE FlashInv'
  BY <1>8, <1>9 DEF Refuse
<1> QED BY <1>1, <1>2, <1>3, <1>4, <1>5, <1>6, <1>7, <1>8, <1>9 DEF Next, Work

(* A flash without failures leaves the image on the partition, sector by sector,
   for every buffer size and image, and where the image is too short whatever
   earlier turns and calls left in the buffer (the loop of main.c). *)
THEOREM FlashIsExact == Spec => []FlashExact
<1>1. Init => FlashInv
  <2>1. 0 .. 0 - 1 = {} OBVIOUS
  <2> QED BY <2>1 DEF Init, FlashInv, FlashExact
<1>2. FlashInv => FlashExact BY DEF FlashInv
<1> QED BY <1>1, <1>2, FlashStep, Inductive, PTL DEF Spec
=============================================================================
