-------------------------- MODULE Devdumper_proofs --------------------------
(***************************************************************************)
(* Proofs about the whole dumper for any buffer, number of retries, device *)
(* sizes and number of devices, any build and any sizes of the NVS: the    *)
(* device dumps (DevDump), the bookkeeping around the security processor   *)
(* (F00d) and the dump of the NVS (NvsDump), each by itself and as a part  *)
(* of Devdumper.                                                           *)
(***************************************************************************)
EXTENDS Devdumper, TLAPS

(* The dump of the devices, fairness aside. *)
DevSafety == Init /\ [][Next]_vars

-----------------------------------------------------------------------------
(* Facts about the numbers and sequences of a dump.                        *)

(* The sum of the first loop's test does not wrap for the sizes assumed. *)
LEMMA NoWrap ==
    ASSUME size \in Sizes, copied \in Nat, copied <= size
    PROVE  (copied + Chunk) % Word = copied + Chunk
<1>1. size \in Nat /\ Chunk \in Nat /\ Word \in Nat /\ size + Chunk < Word
    BY DevDumpAssumption
<1>2. ASSUME NEW a \in Nat, NEW w \in Nat, a < w PROVE a % w = a
    BY <1>2
<1>3. copied + Chunk \in Nat /\ copied + Chunk < Word
    BY <1>1
<1> QED
    BY <1>1, <1>2, <1>3

LEMMA Complement ==
    ASSUME NEW n \in Nat, NEW r \in 0 .. n
    PROVE  n - r \in 0 .. n
OBVIOUS

LEMMA DataOf ==
    ASSUME NEW d \in Nat, NEW s \in Nat
    PROVE  Of(d, s) \in Data /\ Zero \in Data /\ Part \in Data
BY DEF Of, Zero, Part, Data

(* Appending keeps what is there and puts the turn behind it. *)
LEMMA Appended ==
    ASSUME NEW S, NEW o \in Seq(S), NEW n \in Nat, NEW w \in [1 .. n -> S]
    PROVE  /\ o \o w \in Seq(S)
           /\ Len(o \o w) = Len(o) + n
           /\ \A k \in 1 .. Len(o) : (o \o w)[k] = o[k]
           /\ \A k \in 1 .. n : (o \o w)[Len(o) + k] = w[k]
<1>1. w \in Seq(S) /\ Len(w) = n
    OBVIOUS
<1>2. Len(o) \in Nat
    OBVIOUS
<1> QED
    BY <1>1, <1>2

-----------------------------------------------------------------------------
(* Where a dump stands.                                                    *)

Dumping == {"loop", "read", "sbs", "write"}

Sized == pc \in Dumping \cup {"open"} => size \in Sizes

Fresh == pc = "mbr" => copied = 0

Turned ==
    pc \in {"read", "sbs", "write"} =>
        IF rest THEN 0 < size - copied /\ size - copied <= Chunk
                ELSE copied + Chunk <= size

Counting == pc = "sbs" => i <= Amount /\ failed = Retries - retry_count

PlaceInv == TypeOK /\ Sized /\ Fresh /\ Turned /\ Counting

LEMMA AmountRange ==
    ASSUME TypePlace, Turned, pc \in {"read", "sbs", "write"}
    PROVE  Amount \in 1 .. Chunk /\ copied + Amount <= size
BY DevDumpAssumption DEF TypePlace, Turned, Amount

LEMMA WrittenType ==
    ASSUME TypeData, NEW n \in 0 .. Chunk
    PROVE  Written(n) \in [1 .. n -> Data]
<1>1. Chunk \in Nat /\ buf \in [Slot -> Data]
    BY DevDumpAssumption DEF TypeData
<1>2. \A k \in 1 .. n : k - 1 \in Slot
    BY <1>1 DEF Slot
<1> QED
    BY <1>1, <1>2 DEF Written

LEMMA Wrote ==
    ASSUME Write, Amount \in Nat
    PROVE  \E n \in 0 .. Amount : out' = out \o Written(n)
<1>1. CASE out' = out \o Written(Amount)
    BY <1>1
<1>2. CASE \E n \in 0 .. Amount - 1 : out' = out \o Written(n)
    BY <1>2
<1> QED
    BY <1>1, <1>2 DEF Write

LEMMA InitPlace == Init => PlaceInv
<1> SUFFICES ASSUME Init PROVE PlaceInv
    OBVIOUS
<1>1. TypeControl
    BY DEF Init, TypeControl
<1>2. TypePlace
    BY DEF Init, TypePlace
<1>3. TypeSector
    BY DevDumpAssumption DEF Init, TypeSector
<1>4. TypeData
    BY DataOf DEF Init, TypeData
<1>5. Sized /\ Fresh /\ Turned /\ Counting
    BY DEF Init, Sized, Fresh, Turned, Counting, Dumping
<1> QED
    BY <1>1, <1>2, <1>3, <1>4, <1>5 DEF PlaceInv, TypeOK

(* The control part of the type holds by the form of each action. *)
LEMMA StepControl == TypeControl /\ [Next]_vars => TypeControl'
<1> SUFFICES ASSUME TypeControl, [Next]_vars PROVE TypeControl'
    OBVIOUS
<1>1. CASE Alloc
    BY <1>1 DEF TypeControl, Alloc, Go, KeepDump, place
<1>2. CASE NextDevice
    BY <1>2 DEF TypeControl, NextDevice, Go, place
<1>3. CASE Probe
    BY <1>3 DEF TypeControl, Probe, Go, Return
<1>4. CASE Open
    BY <1>4 DEF TypeControl, Open, Go, Return, place
<1>5. CASE Turn
    BY <1>5 DEF TypeControl, Turn, Go
<1>6. CASE ReadBulk
    BY <1>6 DEF TypeControl, ReadBulk, Go, place
<1>7. CASE ReadSector
    BY <1>7 DEF TypeControl, ReadSector, place
<1>8. CASE SectorsRead
    BY <1>8 DEF TypeControl, SectorsRead, Go, KeepDump, place
<1>9. CASE Write
    BY <1>9 DEF TypeControl, Write, Go, Return, ClosedOnError
<1>10. CASE Close
    BY <1>10 DEF TypeControl, Close, Go, Return, place
<1>11. CASE Free
    BY <1>11 DEF TypeControl, Free, Go, KeepDump, place
<1>12. CASE UNCHANGED vars
    BY <1>12 DEF TypeControl, vars, place
<1> QED
    BY <1>1, <1>2, <1>3, <1>4, <1>5, <1>6, <1>7, <1>8, <1>9, <1>10, <1>11, <1>12 DEF Next

(* What the actions leave alone. *)
LEMMA Frames ==
    ASSUME [Next]_vars
    PROVE  /\ ~Probe /\ ~NextDevice => UNCHANGED size
           /\ ~Write /\ ~NextDevice => UNCHANGED <<copied, out>>
           /\ ~NextDevice => UNCHANGED dev
           /\ ~NextDevice /\ ~Write => UNCHANGED short
           /\ ~NextDevice /\ ~ReadSector => UNCHANGED lost
           /\ ~ReadBulk /\ ~ReadSector => UNCHANGED sector
           /\ ~Probe /\ ~ReadBulk /\ ~ReadSector => UNCHANGED buf
           /\ ~NextDevice /\ ~Turn => UNCHANGED rest
BY DEF Next, vars, place, Alloc, KeepDump, NextDevice, Probe, Open, Turn, ReadBulk,
   ReadSector, SectorsRead, Write, Close, Free

LEMMA StepPlace == PlaceInv /\ [Next]_vars => PlaceInv'
<1> SUFFICES ASSUME PlaceInv, [Next]_vars PROVE PlaceInv'
    OBVIOUS
<1>a. /\ TypeControl /\ TypePlace /\ TypeSector /\ TypeData
      /\ Sized /\ Fresh /\ Turned /\ Counting
    BY DEF PlaceInv, TypeOK
<1>b. Chunk \in Nat /\ Chunk > 0 /\ Retries \in Nat /\ Sizes \subseteq Nat
    BY DevDumpAssumption
<1>1. TypeControl'
    BY <1>a, StepControl
<1>2. TypePlace'
  <2>1. dev' \in Nat /\ size' \in Nat /\ copied' \in Nat /\ copied' <= size'
    <3>1. CASE NextDevice
      BY <1>a, <3>1 DEF NextDevice, TypePlace, place
    <3>2. CASE Probe
      <4>1. copied = 0 /\ copied' = 0 /\ dev' = dev
        BY <1>a, <3>2 DEF Probe, Fresh
      <4>2. size' = size \/ size' \in Sizes
        BY <3>2 DEF Probe
      <4>3. dev \in Nat /\ size' \in Nat
        BY <1>a, <1>b, <4>2 DEF TypePlace
      <4> QED
        BY <4>1, <4>3
    <3>3. CASE Write
      <4>1. Amount \in 1 .. Chunk /\ copied + Amount <= size
        BY <1>a, <3>3, AmountRange DEF Write
      <4>2. dev' = dev /\ size' = size /\ (copied' = copied \/ copied' = copied + Amount)
        BY <3>3 DEF Write
      <4> QED
        BY <1>a, <1>b, <4>1, <4>2 DEF TypePlace
    <3>4. CASE ~NextDevice /\ ~Probe /\ ~Write
      BY <1>a, <3>4, Frames DEF TypePlace
    <3> QED
      BY <3>1, <3>2, <3>3, <3>4
  <2>2. lost' \subseteq Nat
    <3>1. CASE NextDevice
      BY <1>a, <3>1 DEF NextDevice, TypePlace
    <3>2. CASE ReadSector
      <4>1. lost' = lost \/ lost' = lost \cup {copied + i}
        BY <3>2 DEF ReadSector
      <4>2. copied + i \in Nat
        BY <1>a DEF TypePlace, TypeSector
      <4> QED
        BY <1>a, <4>1, <4>2 DEF TypePlace
    <3>3. CASE ~NextDevice /\ ~ReadSector
      BY <1>a, <3>3, Frames DEF TypePlace
    <3> QED
      BY <3>1, <3>2, <3>3
  <2> QED
    BY <2>1, <2>2 DEF TypePlace
<1>3. TypeSector' /\ Counting'
  <2>1. CASE ReadBulk
    <3>1. Amount \in 1 .. Chunk /\ Amount' = Amount
      BY <1>a, <2>1, AmountRange DEF ReadBulk, Amount, place
    <3>2. TypeSector'
      BY <1>a, <1>b, <2>1 DEF ReadBulk, TypeSector, sector
    <3> QED
      BY <1>b, <2>1, <3>1, <3>2 DEF ReadBulk, Counting, Go
  <2>2. CASE ReadSector
    <3>1. Amount \in 1 .. Chunk /\ Amount' = Amount /\ i < Amount
      BY <1>a, <2>2, AmountRange DEF ReadSector, Amount, place, TypePlace, TypeSector
    <3>2. i' \in Nat /\ i' <= Amount
      BY <1>a, <1>b, <2>2, <3>1 DEF ReadSector, NextSector, TypeSector
    <3>3. retry_count' \in 0 .. Retries /\ failed' = Retries - retry_count'
      BY <1>a, <1>b, <2>2 DEF ReadSector, NextSector, RetriesAnew, TypeSector, Counting
    <3>4. i' <= Chunk
      BY <1>b, <3>1, <3>2
    <3>5. failed' \in 0 .. Retries
      BY <1>b, <3>3, Complement
    <3> QED
      BY <3>1, <3>2, <3>3, <3>4, <3>5 DEF TypeSector, Counting
  <2>3. CASE UNCHANGED vars
    BY <1>a, <2>3 DEF vars, place, sector, TypeSector, Counting, Amount
  <2>4. CASE Next /\ ~ReadBulk /\ ~ReadSector
    <3>1. TypeSector'
      BY <1>a, <2>4, Frames DEF TypeSector, sector
    <3>2. pc' # "sbs"
      BY <2>4
      DEF Next, vars, Alloc, NextDevice, Probe, Open, Turn, SectorsRead, Write, Close, Free,
          Go, Return
    <3> QED
      BY <3>1, <3>2 DEF Counting
  <2> QED
    BY <2>1, <2>2, <2>3, <2>4
<1>4. TypeData'
  <2>1. buf' \in [Slot -> Data]
    <3>1. CASE Probe
      BY <1>a, <3>1, DataOf DEF Probe, TypeData, TypePlace, Cleared
    <3>2. CASE ReadBulk
      <4>1. \A k \in Slot : Of(dev, copied + k) \in Data /\ Zero \in Data
        BY <1>a, <1>b, DataOf DEF TypePlace, Slot
      <4>2. buf \in [Slot -> Data]
        BY <1>a DEF TypeData
      <4>3. Bulk(Amount) \in [Slot -> Data]
        BY <4>1, <4>2 DEF Bulk
      <4>4. ClearedFor(Amount) \in [Slot -> Data]
        BY <4>1, <4>2 DEF ClearedFor
      <4> QED
        BY <3>2, <4>3, <4>4 DEF ReadBulk
    <3>3. CASE ReadSector
      <4>1. Of(dev, copied + i) \in Data /\ Part \in Data
        BY <1>a, DataOf DEF TypePlace, TypeSector
      <4> QED
        BY <1>a, <3>3, <4>1 DEF ReadSector, TypeData
    <3>4. CASE ~Probe /\ ~ReadBulk /\ ~ReadSector
      BY <1>a, <3>4, Frames DEF TypeData
    <3> QED
      BY <3>1, <3>2, <3>3, <3>4
  <2>2. out' \in Seq(Data)
    <3>1. CASE NextDevice
      <4>1. out' = out \/ out' = <<>>
        BY <3>1 DEF NextDevice
      <4>2. <<>> \in Seq(Data)
        OBVIOUS
      <4> QED
        BY <1>a, <4>1, <4>2 DEF TypeData
    <3>2. CASE Probe
      BY <1>a, <3>2 DEF Probe, TypeData
    <3>3. CASE Write
      <4>1. Amount \in 1 .. Chunk
        BY <1>a, <3>3, AmountRange DEF Write
      <4>2. PICK n \in 0 .. Amount : out' = out \o Written(n)
        BY <3>3, <4>1, <1>b, Wrote
      <4>3. n \in 0 .. Chunk /\ n \in Nat
        BY <1>b, <4>1
      <4> QED
        BY <1>a, <4>2, <4>3, WrittenType, Appended DEF TypeData
    <3>4. CASE ~NextDevice /\ ~Probe /\ ~Write
      BY <1>a, <3>4, Frames DEF TypeData
    <3> QED
      BY <3>1, <3>2, <3>3, <3>4
  <2> QED
    BY <2>1, <2>2 DEF TypeData
<1>5. Sized' /\ Turned'
  <2>1. CASE Probe
    BY <2>1 DEF Probe, Sized, Turned, Dumping, Go, Return
  <2>2. CASE Turn
    <3>1. size \in Sizes /\ copied \in Nat /\ size \in Nat /\ copied <= size
      BY <1>a, <2>2 DEF Turn, Sized, TypePlace, Dumping
    <3>2. (copied + Chunk) % Word = copied + Chunk
      BY <3>1, NoWrap
    <3>3. Turned'
      BY <1>b, <2>2, <3>1, <3>2 DEF Turn, Turned, Full, Rest, Go
    <3>4. Sized'
      BY <2>2, <3>1 DEF Turn, Sized
    <3> QED
      BY <3>3, <3>4
  <2>3. CASE Alloc \/ NextDevice \/ Open \/ Write \/ Close \/ Free
    BY <1>a, <2>3
    DEF Alloc, NextDevice, Open, Write, Close, Free, KeepDump, Sized, Turned, Dumping,
        Go, Return, place
  <2>4. CASE ReadBulk \/ ReadSector \/ SectorsRead \/ UNCHANGED vars
    BY <1>a, <2>4
    DEF ReadBulk, ReadSector, SectorsRead, vars, KeepDump, Sized, Turned, Dumping, Go, place
  <2> QED
    BY <2>1, <2>2, <2>3, <2>4 DEF Next
<1>6. Fresh'
    BY <1>a
    DEF Next, vars, Alloc, NextDevice, Probe, Open, Turn, ReadBulk, ReadSector, SectorsRead,
        Write, Close, Free, KeepDump, place, Go, Return, Fresh
<1> QED
    BY <1>1, <1>2, <1>3, <1>4, <1>5, <1>6 DEF PlaceInv, TypeOK

(* At every step of dump_sce_dev the place in the device is where the turn, its
   amount and the retries say. *)
THEOREM PlaceCorrect == DevSafety => []PlaceInv
BY InitPlace, StepPlace, PTL DEF DevSafety

(* Type correctness of the dumper, for every value of the constants. *)
THEOREM TypeCorrect == DevSafety => []TypeOK
<1>1. PlaceInv => TypeOK
    BY DEF PlaceInv
<1> QED
    BY <1>1, PlaceCorrect, PTL

(* A sector is given up after as many failing reads as the build allows. *)
THEOREM RetriesUsed == DevSafety => Retried
<1>1. PlaceInv /\ [Next]_vars => [\A s \in lost' \ lost : failed = Retries]_vars
  <2> SUFFICES ASSUME PlaceInv, Next, NEW s \in lost' \ lost PROVE failed = Retries
    OBVIOUS
  <2>1. CASE ReadSector
    BY <2>1, DevDumpAssumption DEF ReadSector, PlaceInv, TypeOK, TypeSector, Counting
  <2>2. CASE ~ReadSector
    BY <2>2, Frames DEF NextDevice
  <2> QED
    BY <2>1, <2>2
<1> QED
    BY <1>1, PlaceCorrect, PTL DEF DevSafety, Retried

-----------------------------------------------------------------------------
(* Files and the buffer are released.                                      *)

FilesInv ==
    /\ pc \in {"start", "mbr", "open", "next", "free", "done"} => ~fd
    /\ pc = "done" => mem # "held"

(* Between devices no file is open, and the buffer is given back. *)
THEOREM ReleasedCorrect == DevSafety => []Released
<1>1. Init => FilesInv
    BY DEF Init, FilesInv
<1>2. FilesInv /\ [Next]_vars => FilesInv'
  <2> SUFFICES ASSUME FilesInv, [Next]_vars PROVE FilesInv'
    OBVIOUS
  <2>1. CASE Alloc \/ NextDevice \/ Free
    BY <2>1 DEF FilesInv, Alloc, NextDevice, Free, Go, KeepDump
  <2>2. CASE Probe \/ Open \/ Write \/ Close
    BY <2>2 DEF FilesInv, Probe, Open, Write, Close, Go, Return, ClosedOnError
  <2>3. CASE Turn \/ ReadBulk \/ ReadSector \/ SectorsRead \/ UNCHANGED vars
    BY <2>3 DEF FilesInv, Turn, ReadBulk, ReadSector, SectorsRead, vars, Go, KeepDump
  <2> QED
    BY <2>1, <2>2, <2>3 DEF Next
<1>3. FilesInv => Released
    BY DEF FilesInv, Released
<1> QED
    BY <1>1, <1>2, <1>3, PTL DEF DevSafety

-----------------------------------------------------------------------------
(* A dump is whole: the file is as long as what was copied, and that is the *)
(* device when the turns are over.                                         *)

Begun == pc = "start" => size = 0 /\ out = <<>>
Positioned ==
    pc \in Dumping \cup {"mbr", "open", "close"} /\ ~short => Len(out) = copied
Ended == pc = "close" => copied = size
WholeInv == Begun /\ Positioned /\ Ended /\ Whole

LEMMA InitWhole == Init => WholeInv
BY DEF Init, WholeInv, Begun, Positioned, Ended, Whole, Dumping

LEMMA StepWhole == PlaceInv /\ WholeInv /\ [Next]_vars => WholeInv'
<1> SUFFICES ASSUME PlaceInv, WholeInv, [Next]_vars PROVE WholeInv'
    OBVIOUS
<1>a. /\ TypePlace /\ TypeData /\ Sized /\ Turned
      /\ Begun /\ Positioned /\ Ended /\ Whole
    BY DEF PlaceInv, TypeOK, WholeInv
<1>b. Len(<<>>) = 0
    OBVIOUS
<1>1. Begun'
    BY <1>a
    DEF Next, vars, Alloc, NextDevice, Probe, Open, Turn, ReadBulk, ReadSector, SectorsRead,
        Write, Close, Free, KeepDump, place, Go, Return, Begun
<1>2. Positioned'
  <2>1. CASE Write
    <3>1. Amount \in 1 .. Chunk
      BY <1>a, <2>1, AmountRange DEF Write
    <3>2. CASE out' = out \o Written(Amount) /\ copied' = copied + Amount /\ short' = short
      <4>1. Amount \in 0 .. Chunk /\ Amount \in Nat
        BY <3>1, DevDumpAssumption
      <4>2. Len(out') = Len(out) + Amount
        BY <1>a, <3>2, <4>1, WrittenType, Appended DEF TypeData
      <4> QED
        BY <1>a, <2>1, <3>2, <4>2 DEF Write, Positioned, Dumping
    <3>3. CASE short' = TRUE \/ pc' = "next"
      BY <3>3 DEF Positioned, Dumping
    <3> QED
      BY <2>1, <3>2, <3>3 DEF Write, Return, Go
  <2>2. CASE NextDevice
    BY <1>b, <2>2 DEF NextDevice, Positioned, Dumping, Go
  <2>3. CASE ~Write /\ ~NextDevice
    <3>1. out' = out /\ copied' = copied /\ short' = short
      BY <2>3, Frames
    <3>2. pc' \in Dumping \cup {"mbr", "open", "close"}
            => pc \in Dumping \cup {"mbr", "open", "close"}
      BY <2>3
      DEF Next, vars, Alloc, Probe, Open, Turn, ReadBulk, ReadSector, SectorsRead, Close,
          Free, Go, Return, Dumping
    <3> QED
      BY <1>a, <3>1, <3>2 DEF Positioned
  <2> QED
    BY <2>1, <2>2, <2>3
<1>3. Ended'
  <2>1. CASE Turn
    <3>1. size \in Sizes /\ copied \in Nat /\ size \in Nat /\ copied <= size
      BY <1>a, <2>1 DEF Turn, Sized, TypePlace, Dumping
    <3>2. (copied + Chunk) % Word = copied + Chunk /\ Chunk \in Nat
      BY <3>1, NoWrap, DevDumpAssumption
    <3> QED
      BY <2>1, <3>1, <3>2 DEF Turn, Ended, Full, Rest, Go
  <2>2. CASE Write
    <3>1. rest => Amount = size - copied
      BY DEF Amount
    <3> QED
      BY <1>a, <2>2, <3>1 DEF Write, Ended, Go, Return, TypePlace
  <2>3. CASE ~Turn /\ ~Write
    BY <1>a, <2>3
    DEF Next, vars, Alloc, NextDevice, Probe, Open, ReadBulk, ReadSector, SectorsRead,
        Close, Free, KeepDump, place, Go, Return, Ended
  <2> QED
    BY <2>1, <2>2, <2>3
<1>4. Whole'
  <2>1. CASE Alloc
    BY <1>a, <1>b, <2>1 DEF Alloc, KeepDump, place, Whole, Begun
  <2>2. CASE Close
    BY <1>a, <2>2 DEF Close, place, Whole, Ended, Positioned, Return, Go
  <2>3. CASE Probe \/ Open \/ Write
    BY <2>3 DEF Probe, Open, Write, Return, Go, Whole
  <2>4. CASE NextDevice \/ Turn \/ ReadBulk \/ ReadSector \/ SectorsRead \/ Free
    BY <2>4 DEF NextDevice, Turn, ReadBulk, ReadSector, SectorsRead, Free, Go, Whole
  <2>5. CASE UNCHANGED vars
    BY <1>a, <2>5 DEF vars, place, Whole
  <2> QED
    BY <2>1, <2>2, <2>3, <2>4, <2>5 DEF Next
<1> QED
    BY <1>1, <1>2, <1>3, <1>4 DEF WholeInv

(* The file is as long as what was copied, as long as no write was short. *)
THEOREM WholeInvariant == DevSafety => []WholeInv
BY PlaceCorrect, InitWhole, StepWhole, PTL DEF DevSafety

(* A dump that returned 0 has every sector of the device. *)
THEOREM WholeCorrect == DevSafety => []Whole
<1>1. WholeInv => Whole
    BY DEF WholeInv
<1> QED
    BY <1>1, WholeInvariant, PTL

-----------------------------------------------------------------------------
(* A dump is honest: what the buffer holds when it is written, or has read *)
(* again so far, is the device's or was given up.                          *)

KeptAt(k) ==
    buf[k] = Of(dev, copied + k) \/ (copied + k \in lost /\ buf[k].what # "data")
HeldToWrite == pc = "write" => \A k \in 0 .. Amount - 1 : KeptAt(k)
HeldSoFar == pc = "sbs" => \A k \in 0 .. i - 1 : KeptAt(k)
BehindClear == pc = "sbs" => \A k \in i .. Amount - 1 : buf[k].what # "data"
HonestInv == HeldToWrite /\ HeldSoFar /\ BehindClear /\ Honest

LEMMA InitHonest == Init => HonestInv
BY DEF Init, HonestInv, HeldToWrite, HeldSoFar, BehindClear, Honest

LEMMA StepBuffer ==
    ASSUME PlaceInv, HonestInv, [Next]_vars
    PROVE  (HeldToWrite /\ HeldSoFar /\ BehindClear)'
<1>a. /\ TypePlace /\ TypeSector /\ TypeData /\ Turned /\ Counting
      /\ HeldToWrite /\ HeldSoFar /\ BehindClear
    BY DEF PlaceInv, TypeOK, HonestInv
<1>b. Chunk \in Nat
    BY DevDumpAssumption
<1>1. CASE ReadBulk
  <2>1. /\ Amount \in 1 .. Chunk /\ Amount' = Amount /\ dev' = dev /\ copied' = copied
    BY <1>a, <1>1, AmountRange DEF ReadBulk, Amount, place
  <2>2. \A k \in 0 .. Amount - 1 : k \in Slot /\ k < Amount
    BY <1>b, <2>1 DEF Slot
  <2>3. CASE pc' = "write" /\ buf' = Bulk(Amount)
    <3>1. \A k \in 0 .. Amount - 1 : buf'[k] = Of(dev, copied + k)
      BY <2>2, <2>3 DEF Bulk
    <3> QED
      BY <2>1, <2>3, <3>1 DEF HeldToWrite, HeldSoFar, BehindClear, KeptAt
  <2>4. CASE pc' = "sbs" /\ i' = 0 /\ buf' = ClearedFor(Amount)
    <3>1. \A k \in 0 .. Amount - 1 : buf'[k] = Zero
      BY <2>2, <2>4 DEF ClearedFor
    <3>2. Zero.what # "data"
      BY DEF Zero
    <3>3. 0 .. i' - 1 = {}
      BY <2>4
    <3> QED
      BY <2>1, <2>4, <3>1, <3>2, <3>3 DEF HeldToWrite, HeldSoFar, BehindClear
  <2> QED
    BY <1>1, <2>3, <2>4 DEF ReadBulk, Go
<1>2. CASE ReadSector
  <2>1. /\ pc = "sbs" /\ pc' = "sbs" /\ dev' = dev /\ copied' = copied
        /\ Amount' = Amount /\ i < Amount
    BY <1>2 DEF ReadSector, Amount, place
  <2>2. Amount \in 1 .. Chunk /\ i \in Nat /\ i \in Slot /\ copied \in Nat
    BY <1>a, <1>b, <2>1, AmountRange DEF TypePlace, TypeSector, Slot
  <2>3. \A k \in Slot : k # i => buf'[k] = buf[k]
    BY <1>2, <1>a DEF ReadSector, TypeData
  <2>4. lost \subseteq lost'
    BY <1>2 DEF ReadSector
  <2>5. \A k \in 0 .. i - 1 : k \in Slot /\ k # i
    BY <1>b, <2>2, <2>1 DEF Slot
  <2>6. \A k \in 0 .. i - 1 : KeptAt(k)'
    BY <1>a, <2>1, <2>3, <2>4, <2>5 DEF HeldSoFar, KeptAt
  <2>7. \A k \in i + 1 .. Amount - 1 : buf'[k].what # "data"
    <3>1. \A k \in i + 1 .. Amount - 1 : k \in Slot /\ k # i /\ k \in i .. Amount - 1
      BY <1>b, <2>2 DEF Slot
    <3> QED
      BY <1>a, <2>1, <2>3, <3>1 DEF BehindClear
  <2>8. buf[i].what # "data"
    BY <1>a, <2>1, <2>2 DEF BehindClear
  <2>9. Part.what # "data"
    BY DEF Part
  <2>10. CASE i' = i
    <3>1. buf' = buf \/ buf' = [buf EXCEPT ![i] = Part]
      BY <1>2, <2>2, <2>10 DEF ReadSector, NextSector
    <3>2. buf'[i].what # "data"
      BY <1>a, <2>2, <2>8, <2>9, <3>1 DEF TypeData
    <3>3. \A k \in i .. Amount - 1 : k = i \/ k \in i + 1 .. Amount - 1
      BY <2>2
    <3> QED
      BY <2>1, <2>6, <2>7, <2>10, <3>2, <3>3 DEF HeldToWrite, HeldSoFar, BehindClear
  <2>11. CASE i' = i + 1
    <3>1. \A k \in {i} : KeptAt(k)'
      <4>1. CASE buf' = [buf EXCEPT ![i] = Of(dev, copied + i)]
        BY <1>a, <2>1, <2>2, <4>1 DEF KeptAt, TypeData
      <4>2. CASE lost' = lost \cup {copied + i}
                 /\ (buf' = buf \/ buf' = [buf EXCEPT ![i] = Part])
        <5>1. buf'[i].what # "data"
          BY <1>a, <2>2, <2>8, <2>9, <4>2 DEF TypeData
        <5> QED
          BY <2>1, <4>2, <5>1 DEF KeptAt
      <4> QED
        BY <1>2, <2>2, <2>11, <4>1, <4>2 DEF ReadSector
    <3>2. \A k \in 0 .. i' - 1 : k = i \/ k \in 0 .. i - 1
      BY <2>2, <2>11
    <3> QED
      BY <2>1, <2>6, <2>7, <2>11, <3>1, <3>2 DEF HeldToWrite, HeldSoFar, BehindClear
  <2> QED
    BY <1>2, <2>10, <2>11 DEF ReadSector, NextSector
<1>3. CASE SectorsRead
  <2>1. /\ pc = "sbs" /\ i = Amount /\ pc' = "write" /\ buf' = buf /\ lost' = lost
        /\ dev' = dev /\ copied' = copied /\ Amount' = Amount
    BY <1>3 DEF SectorsRead, KeepDump, place, Go, Amount
  <2> QED
    BY <1>a, <2>1 DEF HeldToWrite, HeldSoFar, BehindClear, KeptAt
<1>4. CASE UNCHANGED vars
    BY <1>a, <1>4 DEF vars, place, sector, HeldToWrite, HeldSoFar, BehindClear, KeptAt, Amount
<1>5. CASE Next /\ ~ReadBulk /\ ~ReadSector /\ ~SectorsRead
  <2>1. pc' \notin {"write", "sbs"}
    BY <1>5 DEF Next, Alloc, NextDevice, Probe, Open, Turn, Write, Close, Free, Go, Return
  <2> QED
    BY <2>1 DEF HeldToWrite, HeldSoFar, BehindClear
<1> QED
    BY <1>1, <1>2, <1>3, <1>4, <1>5

LEMMA StepHonest ==
    ASSUME PlaceInv, WholeInv, HonestInv, [Next]_vars
    PROVE  Honest'
<1>a. TypePlace /\ TypeData /\ Turned /\ Positioned /\ HeldToWrite /\ Honest
    BY DEF PlaceInv, TypeOK, WholeInv, HonestInv
<1>1. CASE Write
  <2>1. Amount \in 1 .. Chunk /\ Chunk \in Nat /\ pc = "write"
    BY <1>a, <1>1, AmountRange, DevDumpAssumption DEF Write
  <2>2. PICK n \in 0 .. Amount : out' = out \o Written(n)
    BY <1>1, <2>1, Wrote
  <2>3. dev' = dev /\ lost' = lost /\ (~short' => ~short)
    BY <1>1 DEF Write
  <2>4. n \in Nat /\ n \in 0 .. Chunk
    BY <2>1
  <2>5. /\ Len(out') = Len(out) + n
        /\ \A k \in 1 .. Len(out) : out'[k] = out[k]
        /\ \A k \in 1 .. n : out'[Len(out) + k] = Written(n)[k]
    BY <1>a, <2>2, <2>4, WrittenType, Appended DEF TypeData
  <2> SUFFICES ASSUME ~short', NEW k \in 1 .. Len(out')
      PROVE out'[k] = Of(dev, k - 1) \/ (k - 1 \in lost /\ out'[k].what # "data")
    BY <2>3 DEF Honest
  <2>6. Len(out) = copied /\ copied \in Nat
    BY <1>a, <2>1, <2>3 DEF Positioned, Dumping, TypePlace
  <2>7. CASE k \in 1 .. Len(out)
    BY <1>a, <2>3, <2>5, <2>7 DEF Honest
  <2>8. CASE k \notin 1 .. Len(out)
    <3>1. /\ k - copied \in 1 .. n /\ k = copied + (k - copied)
          /\ k - copied - 1 \in 0 .. Amount - 1
          /\ copied + (k - copied - 1) = k - 1
      BY <2>1, <2>4, <2>5, <2>6, <2>8
    <3>2. out'[k] = Written(n)[k - copied]
      BY <2>5, <2>6, <3>1
    <3>3. out'[k] = buf[k - copied - 1]
      BY <3>1, <3>2 DEF Written
    <3>4. KeptAt(k - copied - 1)
      BY <1>a, <2>1, <3>1 DEF HeldToWrite
    <3> QED
      BY <3>1, <3>3, <3>4 DEF KeptAt
  <2> QED
    BY <2>7, <2>8
<1>2. CASE NextDevice
  <2>1. out' = <<>> \/ (out' = out /\ dev' = dev /\ lost' = lost /\ short' = short)
    BY <1>2 DEF NextDevice, place
  <2>2. 1 .. Len(<<>>) = {}
    OBVIOUS
  <2> QED
    BY <1>a, <2>1, <2>2 DEF Honest
<1>3. CASE ~Write /\ ~NextDevice
  <2>1. out' = out /\ dev' = dev /\ short' = short
    BY <1>3, Frames
  <2>2. lost \subseteq lost'
    BY <1>3, Frames DEF ReadSector
  <2> QED
    BY <1>a, <2>1, <2>2 DEF Honest
<1> QED
    BY <1>1, <1>2, <1>3

(* Every sector in a dump is the device's sector of that number or was given
   up, for every buffer size, number of retries and size of the device. *)
THEOREM HonestCorrect == DevSafety => []Honest
<1>1. PlaceInv /\ WholeInv /\ HonestInv /\ [Next]_vars => HonestInv'
    BY StepBuffer, StepHonest DEF HonestInv
<1>2. HonestInv => Honest
    BY DEF HonestInv
<1> QED
    BY <1>1, <1>2, InitHonest, PlaceCorrect, WholeInvariant, PTL DEF DevSafety
(* Both together. *)
THEOREM DumpsFaithful == DevSafety => []DumpFaithful
<1>1. Honest /\ Whole => DumpFaithful
    BY DEF DumpFaithful
<1> QED
    BY <1>1, HonestCorrect, WholeCorrect, PTL

-----------------------------------------------------------------------------
(* The bookkeeping around the security processor (F00d).                   *)

(* Part p is at one of the calls numbered in S. *)
In(p, S) == prog = p /\ fstep \in S

FPlaced ==
    /\ prog \in Parts \cup {"none"}
    /\ prog = "none" => fstep = 0
    /\ prog # "none" => fstep \in 1 .. Len(Calls[prog])

(* A part runs once: nothing is said of it before it has ended. *)
FOnce ==
    /\ todo \subseteq Parts /\ fret \in [Parts -> {"none", "ok", "error"}]
    /\ \A p \in todo : fret[p] = "none"
    /\ prog # "none" => prog \notin todo /\ fret[prog] = "none"

(* What a part has taken as long as none returned an error. *)
Reserves == In("kr", 4 .. 6) \/ In("kr", 10 .. 12) \/ In("nvs", 2 .. 8)
Starts == In("kr", 2 .. 8) \/ In("nvs", 4 .. 10)
Taken ==
    /\ NMPbuid = IF Reserves THEN "block" ELSE "none"
    /\ running = IF Starts THEN 1 ELSE 0
FTaken == (\E p \in Parts : fret[p] = "error") \/ Taken

FCounted == running \in Nat /\ (Starts => running > 0)

(* What the program is copied to, and what it leaves. *)
FCopied ==
    /\ ram \in [Areas -> SUBSET {"stage2", "main", "result"}]
    /\ In("kr", 5 .. 7) => "stage2" \in ram["kr"]
    /\ In("kr", 6 .. 7) => "main" \in ram["kr"]
    /\ In("kr", 8 .. 12) => ram["out"] = {"result"}

FDumped == dump \in [{"kr", "xbar"} -> {"none", "result", "short"}]

FInv == FPlaced /\ FOnce /\ FTaken /\ FCounted /\ FCopied /\ FDumped

FNext == FStep \/ NvsDumped

(* Which call a part is at. *)
LEMMA CallAt ==
    ASSUME FPlaced, prog # "none"
    PROVE  /\ At({"exploit_init"}) <=> (In("kr", {1}) \/ In("nvs", {3}))
           /\ At({"firmware", "configure"}) <=> (In("kr", {2}) \/ In("nvs", {2, 4}))
           /\ At({"reserve"}) <=> (In("kr", {3}) \/ In("nvs", {1}))
           /\ At({"reserve_out"}) <=> In("kr", {9})
           /\ At({"reserve", "reserve_out"}) <=> (In("kr", {3, 9}) \/ In("nvs", {1}))
           /\ At({"stage2", "main"}) <=> (In("kr", {4, 5}) \/ In("nvs", {5, 6}))
           /\ At({"free", "free_out"}) <=> (In("kr", {6, 12}) \/ In("nvs", {8}))
           /\ At({"free_out"}) <=> In("kr", {12})
           /\ At({"reserve_out", "free_out"}) <=> In("kr", {9, 12})
           /\ At({"jump"}) <=> (In("kr", {7}) \/ In("nvs", {7}))
           /\ At({"stop"}) <=> (In("kr", {8}) \/ In("nvs", {10}))
           /\ At({"file_kr"}) <=> In("kr", {10})
           /\ At({"file_xbar"}) <=> In("kr", {11})
           /\ At({"dump_nvs"}) <=> (In("nvs", {9}) \/ In("nvs_nof00d", {1}))
           /\ Calls["kr"][4] = "stage2" /\ Calls["kr"][5] = "main"
           /\ Len(Calls[prog]) = (IF prog = "kr" THEN 12 ELSE IF prog = "nvs" THEN 10 ELSE 1)
<1>1. CASE prog = "kr"
  <2>1. fstep \in 1 .. 12 BY <1>1 DEF FPlaced, Calls
  <2> QED BY <1>1, <2>1 DEF At, In, Calls
<1>2. CASE prog = "nvs"
  <2>1. fstep \in 1 .. 10 BY <1>2 DEF FPlaced, Calls
  <2> QED BY <1>2, <2>1 DEF At, In, Calls
<1>3. CASE prog = "nvs_nof00d"
  <2>1. fstep = 1 BY <1>3 DEF FPlaced, Calls
  <2> QED BY <1>3, <2>1 DEF At, In, Calls
<1> QED BY <1>1, <1>2, <1>3 DEF FPlaced, Parts

Erred == \E p \in Parts : fret[p] = "error"

(* Going on to the next call or ending keeps a part's bookkeeping. *)
LEMMA Forward ==
    ASSUME FPlaced, FOnce, prog # "none", Ahead \/ Fail, todo' = todo
    PROVE  /\ FPlaced' /\ FOnce'
           /\ Erred => Erred'
           /\ Fail => Erred'
           /\ Ahead => IF fstep = Len(Calls[prog]) THEN prog' = "none"
                       ELSE prog' = prog /\ fstep' = fstep + 1
           /\ Fail => prog' = "none"
<1>1. prog \in Parts /\ fstep \in 1 .. Len(Calls[prog]) /\ Len(Calls[prog]) \in Nat
  BY CallAt DEF FPlaced
<1>2. CASE prog' = prog /\ fstep' = fstep + 1 /\ fret' = fret /\ Ahead /\ ~Fail
  <2>1. fstep # Len(Calls[prog]) BY <1>2, <1>1 DEF Ahead, FEnd, Parts
  <2> QED BY <1>1, <1>2, <2>1 DEF FPlaced, FOnce, Erred
<1>3. ASSUME NEW r \in {"ok", "error"}, FEnd(r) PROVE FPlaced' /\ FOnce' /\ (Erred => Erred') /\ (r = "error" => Erred')
  <2>1. prog' = "none" /\ fret' = [fret EXCEPT ![prog] = r] BY <1>3 DEF FEnd
  <2>2. FPlaced' BY <2>1, <1>1, <1>3 DEF FPlaced, FEnd
  <2>3. FOnce' BY <2>1, <1>1 DEF FOnce, Parts
  <2>4. Erred => Erred'
    <3> SUFFICES ASSUME NEW p \in Parts, fret[p] = "error" PROVE fret'[p] = "error" BY DEF Erred
    <3>1. p # prog BY <1>1 DEF FOnce
    <3> QED BY <3>1, <2>1 DEF FOnce
  <2>5. r = "error" => fret'[prog] = "error" BY <2>1, <1>1 DEF FOnce
  <2> QED BY <2>2, <2>3, <2>4, <2>5, <1>1 DEF Erred
<1>4. CASE Fail
  <2>1. FEnd("error") BY <1>4 DEF Fail
  <2>2. ~Ahead BY <2>1, <1>1, <1>3 DEF Ahead, FEnd, FOnce, Erred, Parts
  <2> QED BY <2>1, <2>2, <1>3, <1>4 DEF FEnd
<1>5. CASE ~Fail
  <2>1. CASE fstep = Len(Calls[prog])
    <3>1. FEnd("ok") BY <2>1, <1>5 DEF Ahead
    <3> QED BY <3>1, <1>3, <1>5, <2>1 DEF FEnd
  <2>2. CASE fstep # Len(Calls[prog])
    BY <2>2, <1>5, <1>2 DEF Ahead
  <2> QED BY <2>1, <2>2
<1> QED BY <1>4, <1>5

LEMMA FInit_FInv == FInit => FInv
<1> SUFFICES ASSUME FInit PROVE FInv OBVIOUS
<1>1. FPlaced /\ FOnce BY F00dAssumption DEF FInit, FPlaced, FOnce, Parts
<1>2. FTaken /\ FCounted /\ FCopied /\ FDumped
  BY DEF FInit, FTaken, Taken, FCounted, FCopied, FDumped, In, Reserves, Starts, Areas
<1> QED BY <1>1, <1>2 DEF FInv

LEMMA FPlacedStep ==
    ASSUME FPlaced, FOnce, [FNext]_fvars
    PROVE  FPlaced' /\ FOnce' /\ (prog # "none" /\ Erred => Erred')
<1>1. CASE FBegin
  <2>1. PICK p \in todo : prog' = p /\ todo' = todo \ {p} /\ fstep' = 1 /\ fret' = fret
    BY <1>1 DEF FBegin
  <2>2. p \in Parts /\ fret[p] = "none" BY <2>1 DEF FOnce
  <2>3. Len(Calls["kr"]) = 12 /\ Len(Calls["nvs"]) = 10 /\ Len(Calls["nvs_nof00d"]) = 1 BY DEF Calls
  <2>5. prog' # "none" BY <2>1, <2>2 DEF Parts
  <2>8. ASSUME NEW q \in Parts PROVE 1 \in 1 .. Len(Calls[q])
    <3>1. Len(Calls[q]) \in {1, 10, 12} BY <2>3 DEF Parts
    <3>2. \A n \in {1, 10, 12} : 1 \in 1 .. n OBVIOUS
    <3> QED BY <3>1, <3>2
  <2>7. fstep' \in 1 .. Len(Calls[prog']) BY <2>1, <2>2, <2>8
  <2>6. FPlaced' BY <2>1, <2>2, <2>5, <2>7 DEF FPlaced
  <2>4. FOnce' BY <2>1, <2>2 DEF FOnce
  <2> QED BY <1>1, <2>4, <2>6 DEF FBegin
<1>2. CASE LetGo
  BY <1>2 DEF LetGo, FPlaced, FOnce, Parts
<1>3. CASE UNCHANGED fvars
  BY <1>3 DEF fvars, FPlaced, FOnce, Erred
<1>4. CASE NMPexploit_init \/ Firmware \/ NMPreserve_commem \/ NMPcopy \/ NMPfree_commem
           \/ NMPf00d_jump \/ StopSm \/ NMPfile_op \/ NvsDumped
  <2>1. prog # "none" /\ todo' = todo /\ (Ahead \/ Fail)
    BY <1>4 DEF At, NMPexploit_init, Firmware, NMPreserve_commem, NMPcopy, NMPfree_commem,
       NMPf00d_jump, StopSm, NMPfile_op, NvsDumped
  <2> QED BY <2>1, Forward
<1> QED BY <1>1, <1>2, <1>3, <1>4 DEF FNext, FStep

(* The numbers of the calls at which a part has something. *)
LEMMA FCountedStep ==
    ASSUME FPlaced, FOnce, FCounted, [FNext]_fvars
    PROVE  FCounted'
<1>1. CASE FBegin \/ LetGo
  BY <1>1 DEF FBegin, LetGo, FCounted, Starts, In
<1>2. CASE UNCHANGED fvars
  BY <1>2 DEF fvars, FCounted, Starts, In
<1>3. CASE NMPexploit_init
  <2>1. In("kr", {1}) \/ In("nvs", {3}) BY <1>3, CallAt DEF NMPexploit_init, At
  <2>2. (Ahead /\ running' = running + 1) \/ (Fail /\ running' \in {running, running + 1})
    BY <1>3 DEF NMPexploit_init
  <2>3. CASE Ahead /\ running' = running + 1
    BY <2>3 DEF FCounted
  <2>4. CASE Fail /\ running' \in {running, running + 1}
    BY <2>4 DEF FCounted, Fail, FEnd, Starts, In
  <2> QED BY <2>2, <2>3, <2>4
<1>4. CASE StopSm
  <2>0. prog # "none" BY <1>4 DEF StopSm, At
  <2>1. In("kr", {8}) \/ In("nvs", {10}) BY <1>4, <2>0, CallAt DEF StopSm
  <2>2. running > 0 /\ running' = running - 1 BY <1>4, <2>1 DEF StopSm, Stop, FCounted, Starts, In
  <2>3. ~Starts'
    <3>1. Ahead /\ todo' = todo BY <1>4 DEF StopSm
    <3>2. prog' = "none" \/ In("kr", {9})' BY <2>0, <2>1, <3>1, Forward, CallAt DEF In
    <3> QED BY <3>2 DEF Starts, In
  <2> QED BY <2>2, <2>3 DEF FCounted
<1>5. CASE Firmware \/ NMPreserve_commem \/ NMPcopy \/ NMPfree_commem
           \/ NMPf00d_jump \/ NMPfile_op \/ NvsDumped
  <2>1. prog # "none" /\ todo' = todo /\ (Ahead \/ Fail) /\ running' = running
    BY <1>5 DEF At, Firmware, NMPreserve_commem, NMPcopy, NMPfree_commem,
       NMPf00d_jump, NMPfile_op, NvsDumped
  <2>2. ~In("kr", {1}) /\ ~In("nvs", {3})
    <3>1. ~At({"exploit_init"})
      BY <1>5, <2>1, CallAt DEF At, In, Firmware, NMPreserve_commem, NMPcopy,
         NMPfree_commem, NMPf00d_jump, NMPfile_op, NvsDumped
    <3> QED BY <2>1, <3>1, CallAt
  <2>3. prog' = "none" \/ (prog' = prog /\ fstep' = fstep + 1 /\ fstep \in Nat /\ fstep # 0)
    <3>1. fstep \in 1 .. Len(Calls[prog]) /\ Len(Calls[prog]) \in Nat BY <2>1, CallAt DEF FPlaced
    <3> QED BY <2>1, <3>1, Forward
  <2>4. Starts' => Starts BY <2>2, <2>3 DEF Starts, In
  <2> QED BY <2>1, <2>4 DEF FCounted
<1> QED BY <1>1, <1>2, <1>3, <1>4, <1>5 DEF FNext, FStep

(* The block and the module are the part's as long as nothing failed. *)
LEMMA FTakenStep ==
    ASSUME FPlaced, FOnce, FTaken, [FNext]_fvars
    PROVE  FTaken'
<1>1. CASE FBegin
  <2>1. Taken /\ prog = "none" => Taken'
    BY <1>1 DEF FBegin, Taken, Reserves, Starts, In
  <2> QED BY <1>1, <2>1 DEF FBegin, FTaken, Erred
<1>2. CASE LetGo
  BY <1>2 DEF LetGo, FTaken, Taken, Reserves, Starts, In
<1>3. CASE UNCHANGED fvars
  BY <1>3 DEF fvars, FTaken, Taken, Reserves, Starts, In
<1>4. CASE NMPexploit_init \/ Firmware \/ NMPreserve_commem \/ NMPcopy \/ NMPfree_commem
           \/ NMPf00d_jump \/ StopSm \/ NMPfile_op \/ NvsDumped
  <2>1. prog # "none" /\ todo' = todo /\ (Ahead \/ Fail)
    BY <1>4 DEF At, NMPexploit_init, Firmware, NMPreserve_commem, NMPcopy, NMPfree_commem,
       NMPf00d_jump, StopSm, NMPfile_op, NvsDumped
  <2>2. CASE Erred \/ Fail
    BY <2>1, <2>2, Forward DEF FTaken, Erred
  <2>3. CASE ~Erred /\ ~Fail
    <3>1. Taken /\ Ahead BY <2>1, <2>3 DEF FTaken, Erred
    <3>2. fstep \in 1 .. Len(Calls[prog]) /\ prog \in Parts BY <2>1 DEF FPlaced
    <3>3. IF fstep = Len(Calls[prog]) THEN prog' = "none" ELSE prog' = prog /\ fstep' = fstep + 1
      BY <2>1, <3>1, Forward
    <3>4. Len(Calls[prog]) = (IF prog = "kr" THEN 12 ELSE IF prog = "nvs" THEN 10 ELSE 1)
      BY <2>1, CallAt
    <3>5. CASE NMPexploit_init
      <4>1. In("kr", {1}) \/ In("nvs", {3}) BY <3>5, <2>1, CallAt DEF NMPexploit_init
      <4>2. running' = running + 1 /\ NMPbuid' = NMPbuid
        BY <3>5, <2>3 DEF NMPexploit_init
      <4> QED BY <3>1, <3>3, <3>4, <4>1, <4>2 DEF FTaken, Taken, Reserves, Starts, In
    <3>6. CASE StopSm
      <4>1. In("kr", {8}) \/ In("nvs", {10}) BY <3>6, <2>1, CallAt DEF StopSm
      <4>2. running' = running - 1 /\ NMPbuid' = NMPbuid BY <3>6 DEF StopSm, Stop
      <4> QED BY <3>1, <3>3, <3>4, <4>1, <4>2 DEF FTaken, Taken, Reserves, Starts, In
    <3>7. CASE NMPreserve_commem
      <4>1. In("kr", {3, 9}) \/ In("nvs", {1}) BY <3>7, <2>1, CallAt DEF NMPreserve_commem
      <4>2. running' = running /\ NMPbuid' = "block" BY <3>7, <2>3 DEF NMPreserve_commem
      <4> QED BY <3>1, <3>3, <3>4, <4>1, <4>2 DEF FTaken, Taken, Reserves, Starts, In
    <3>8. CASE NMPfree_commem
      <4>1. In("kr", {6, 12}) \/ In("nvs", {8}) BY <3>8, <2>1, CallAt DEF NMPfree_commem
      <4>2. running' = running /\ NMPbuid' = "none" BY <3>8 DEF NMPfree_commem
      <4> QED BY <3>1, <3>3, <3>4, <4>1, <4>2 DEF FTaken, Taken, Reserves, Starts, In
    <3>9. CASE Firmware \/ NMPcopy \/ NMPf00d_jump \/ NMPfile_op \/ NvsDumped
      <4>1. running' = running /\ NMPbuid' = NMPbuid
        BY <3>9 DEF Firmware, NMPcopy, NMPf00d_jump, NMPfile_op, NvsDumped
      <4>2. \/ In("kr", {2, 4, 5, 7, 10, 11}) \/ In("nvs", {2, 4, 5, 6, 7, 9})
            \/ In("nvs_nof00d", {1})
        <5>1. CASE Firmware BY <5>1, <2>1, CallAt DEF Firmware, In
        <5>2. CASE NMPcopy BY <5>2, <2>1, CallAt DEF NMPcopy, In
        <5>3. CASE NMPf00d_jump BY <5>3, <2>1, CallAt DEF NMPf00d_jump, In
        <5>4. CASE NMPfile_op
          <6>1. At({"file_kr"}) \/ At({"file_xbar"}) BY <5>4 DEF NMPfile_op
          <6> QED BY <6>1, <2>1, CallAt DEF In
        <5>5. CASE NvsDumped BY <5>5, <2>1, CallAt DEF NvsDumped, In
        <5> QED BY <3>9, <5>1, <5>2, <5>3, <5>4, <5>5
      <4> QED BY <3>1, <3>3, <3>4, <4>1, <4>2 DEF FTaken, Taken, Reserves, Starts, In
    <3> QED BY <1>4, <3>5, <3>6, <3>7, <3>8, <3>9
  <2> QED BY <2>2, <2>3
<1> QED BY <1>1, <1>2, <1>3, <1>4 DEF FNext, FStep

(* What is in the shared memory when the program runs and when it has run. *)
LEMMA FCopiedStep ==
    ASSUME FPlaced, FOnce, FCopied, [FNext]_fvars
    PROVE  FCopied'
<1>0. {"kr", "nvs", "out"} = Areas BY DEF Areas
<1>1. CASE FBegin
  BY <1>1 DEF FBegin, FCopied, In
<1>2. CASE LetGo
  BY <1>2 DEF LetGo, FCopied, In
<1>3. CASE UNCHANGED fvars
  BY <1>3 DEF fvars, FCopied, In
<1>4. CASE NMPexploit_init \/ Firmware \/ NMPreserve_commem \/ NMPcopy \/ NMPfree_commem
           \/ NMPf00d_jump \/ StopSm \/ NMPfile_op \/ NvsDumped
  <2>1. prog # "none" /\ todo' = todo /\ (Ahead \/ Fail)
    BY <1>4 DEF At, NMPexploit_init, Firmware, NMPreserve_commem, NMPcopy, NMPfree_commem,
       NMPf00d_jump, StopSm, NMPfile_op, NvsDumped
  <2>2. fstep \in 1 .. Len(Calls[prog]) /\ prog \in Parts BY <2>1 DEF FPlaced
  <2>3. Len(Calls[prog]) = (IF prog = "kr" THEN 12 ELSE IF prog = "nvs" THEN 10 ELSE 1)
    BY <2>1, CallAt
  <2>4. prog' = "none" \/ (Ahead /\ prog' = prog /\ fstep' = fstep + 1)
    BY <2>1, Forward
  <2>5. CASE NMPexploit_init \/ Firmware \/ StopSm \/ NMPfile_op \/ NvsDumped
    <3>1. ram' = ram
      BY <2>5 DEF NMPexploit_init, Firmware, StopSm, NMPfile_op, NvsDumped
    <3>2. ~In("kr", {4, 5, 7})
      <4>1. CASE NMPexploit_init BY <4>1, <2>1, CallAt DEF NMPexploit_init, In
      <4>2. CASE Firmware BY <4>2, <2>1, CallAt DEF Firmware, In
      <4>3. CASE StopSm BY <4>3, <2>1, CallAt DEF StopSm, In
      <4>4. CASE NMPfile_op
        <5>1. At({"file_kr"}) \/ At({"file_xbar"}) BY <4>4 DEF NMPfile_op
        <5> QED BY <5>1, <2>1, CallAt DEF In
      <4>5. CASE NvsDumped BY <4>5, <2>1, CallAt DEF NvsDumped, In
      <4> QED BY <2>5, <4>1, <4>2, <4>3, <4>4, <4>5
    <3> QED BY <2>2, <2>3, <2>4, <3>1, <3>2 DEF FCopied, In
  <2>6. CASE NMPcopy
    <3>1. In("kr", {4, 5}) \/ In("nvs", {5, 6}) BY <2>6, <2>1, CallAt DEF NMPcopy
    <3>2. ram' = [ram EXCEPT ![prog] = @ \cup {Calls[prog][fstep]}] BY <2>6 DEF NMPcopy
    <3>3. Calls[prog][fstep] \in {"stage2", "main"} BY <2>6 DEF NMPcopy, At
    <3>4. Calls["kr"][4] = "stage2" /\ Calls["kr"][5] = "main" BY <2>1, CallAt
    <3>5. prog \in Areas BY <3>1 DEF In, Areas
    <3>6. ram' \in [Areas -> SUBSET {"stage2", "main", "result"}]
      BY <3>2, <3>3, <3>5 DEF FCopied
    <3> QED BY <2>4, <3>1, <3>2, <3>4, <3>5, <3>6 DEF FCopied, In
  <2>7. CASE NMPreserve_commem
    <3>1. In("kr", {3, 9}) \/ In("nvs", {1}) BY <2>7, <2>1, CallAt DEF NMPreserve_commem
    <3>2. CASE In("kr", {9})
      <4>1. ~Clears BY <3>2, <2>1, CallAt DEF Clears, In
      <4>2. ram' = ram BY <4>1, <2>7 DEF NMPreserve_commem
      <4> QED BY <2>4, <3>2, <4>2 DEF FCopied, In
    <3>3. CASE ~In("kr", {9})
      <4>1. Area = prog /\ prog \in Areas BY <3>1, <3>3, <2>1, CallAt DEF Area, In, Areas
      <4>2. ram' \in [Areas -> SUBSET {"stage2", "main", "result"}]
        BY <4>1, <2>7 DEF NMPreserve_commem, Clear, FCopied
      <4> QED BY <2>4, <3>1, <3>3, <4>2 DEF FCopied, In
    <3> QED BY <3>2, <3>3
  <2>8. CASE NMPfree_commem
    <3>1. In("kr", {6, 12}) \/ In("nvs", {8}) BY <2>8, <2>1, CallAt DEF NMPfree_commem
    <3>2. CASE In("kr", {6})
      <4>1. ~Wipes BY <3>2, <2>1, CallAt DEF Wipes, In
      <4>2. ram' = ram BY <4>1, <2>8 DEF NMPfree_commem
      <4> QED BY <2>4, <3>2, <4>2 DEF FCopied, In
    <3>3. CASE ~In("kr", {6})
      <4>1. Area \in Areas BY <3>1, <3>3, <2>1, CallAt DEF Area, In, Areas
      <4>2. ram' \in [Areas -> SUBSET {"stage2", "main", "result"}]
        BY <4>1, <2>8 DEF NMPfree_commem, Clear, FCopied
      <4> QED BY <2>2, <2>3, <2>4, <2>8, <3>1, <3>3, <4>2, Forward, <2>1 DEF FCopied, In, NMPfree_commem
    <3> QED BY <3>2, <3>3
  <2>9. CASE NMPf00d_jump
    <3>1. In("kr", {7}) \/ In("nvs", {7}) BY <2>9, <2>1, CallAt DEF NMPf00d_jump
    <3>2. CASE In("kr", {7})
      <4>1. {"stage2", "main"} \subseteq ram.kr BY <3>2 DEF FCopied, In
      <4>2. (prog' = "none" /\ ram' = ram) \/ ram' = [ram EXCEPT !.out = {"result"}]
        BY <2>9, <3>2, <4>1, <2>1, Forward DEF NMPf00d_jump, In
      <4> QED BY <2>4, <3>2, <4>2, <1>0 DEF FCopied, In
    <3>3. CASE In("nvs", {7})
      <4>1. ram' = ram BY <2>9, <3>3 DEF NMPf00d_jump, In
      <4> QED BY <2>4, <3>3, <4>1 DEF FCopied, In
    <3> QED BY <3>1, <3>2, <3>3
  <2> QED BY <1>4, <2>5, <2>6, <2>7, <2>8, <2>9
<1> QED BY <1>1, <1>2, <1>3, <1>4 DEF FNext, FStep

LEMMA FDumpedStep ==
    ASSUME FPlaced, FCopied, FDumped, [FNext]_fvars
    PROVE  FDumped'
<1>1. CASE NMPfile_op
  <2>0. prog # "none" BY <1>1 DEF NMPfile_op, At
  <2>1. At({"file_kr"}) \/ At({"file_xbar"}) BY <1>1 DEF NMPfile_op
  <2>4. In("kr", {10, 11}) BY <2>0, <2>1, CallAt DEF In
  <2>2. ram.out = {"result"} BY <2>4 DEF FCopied, In
  <2>3. PICK f \in {"kr", "xbar"} :
           dump' = dump \/ \E w \in {"short", "result"} : dump' = [dump EXCEPT ![f] = w]
    BY <1>1, <2>2 DEF NMPfile_op
  <2> QED BY <2>3 DEF FDumped
<1>2. CASE ~NMPfile_op
  <2>1. dump' = dump \/ dump' = [f \in {"kr", "xbar"} |-> "none"]
    BY <1>2 DEF FNext, FStep, fvars, FBegin, NMPexploit_init, Firmware, NMPreserve_commem, NMPcopy,
       NMPfree_commem, NMPf00d_jump, StopSm, LetGo, NvsDumped
  <2> QED BY <2>1 DEF FDumped
<1> QED BY <1>1, <1>2

LEMMA FStepInv == FInv /\ [FNext]_fvars => FInv'
BY FPlacedStep, FTakenStep, FCountedStep, FCopiedStep, FDumpedStep DEF FInv

(* What the dumper does of it is a step of the bookkeeping. *)
LEMMA FProjected == DSpec => FInit /\ [][FNext]_fvars
<1>1. DInit => FInit BY DEF DInit
<1>2. [DNext]_dvars => [FNext]_fvars
  BY DEF DNext, dvars, Part1, CallNvs, ReturnNvs, NvsStep, Others, Devices, FNext
<1> QED BY <1>1, <1>2, PTL DEF DSpec

(* What the parts of f00d.c have taken, and what lies in shared memory, is what
   the calls made so far account for. *)
THEOREM FInvariant == DSpec => []FInv
BY FProjected, FInit_FInv, FStepInv, PTL

(* The files of the keyring and the bus hold what the program left, or are cut,
   whatever is compiled in and wherever a call fails. *)
THEOREM DumpsTrue == DSpec => []DumpTrue
<1>1. FInv => DumpTrue BY DEF FInv, FDumped, DumpTrue
<1> QED BY <1>1, FInvariant, PTL

(* Memory that is still reserved, or a module that still runs, between two
   parts was left by one that returned an error. *)
THEOREM LeavingsTold == DSpec => []LeftTold
<1>1. FInv => LeftTold BY DEF FInv, FTaken, FCounted, Taken, Reserves, Starts, In, LeftTold
<1> QED BY <1>1, FInvariant, PTL

-----------------------------------------------------------------------------
(* The dump of the NVS (NvsDump).                                          *)

NTyped ==
    /\ ni \in Nat
    /\ sc_pbuf \in Nvs!Secure \cup {Nvs!Zero, Nvs!Junk}
    /\ snvs \in [Nvs!Secure -> Nvs!Secure \cup {Nvs!Zero, Nvs!Junk}]
    /\ nvs \in [Nvs!Half -> Nvs!Half \cup {Nvs!Zero}]
    /\ bad \subseteq Nvs!Secure

(* The security module: the caller's, or one that is stopped at the end. *)
NModule ==
    /\ npc \in {"secure", "ask", "acquire", "plain", "release", "write", "exit"} =>
         IF given THEN sm = "callers" /\ ~do_unload_sm
         ELSE sm = IF do_unload_sm THEN "ours" ELSE "off"
    /\ npc = "load" => ~given /\ sm = "off" /\ ~do_unload_sm
    /\ npc = "off" => ~do_unload_sm
    /\ npc = "done" => IF given THEN sm = "callers" ELSE sm \in {"off", "stopped"}

NHolds == npc \in {"plain", "release"} <=> holder = "us"

(* A secure block is itself, or failed. *)
SecureAt(b) == snvs[b] = b \/ (b \in bad /\ snvs[b] \in {Nvs!Zero, Nvs!Junk})

NSecure ==
    /\ npc \in {"off", "load"} => ni = 0
    /\ npc \in {"secure", "ask"} =>
         ni <= SecureBlocks /\ \A b \in Nvs!Secure : b < ni => SecureAt(b)
    /\ npc = "ask" => ni < SecureBlocks /\ sc_pbuf = Nvs!Zero
    /\ npc \in {"acquire", "plain", "release", "write"} => \A b \in Nvs!Secure : SecureAt(b)

NPlain ==
    /\ npc = "acquire" => ni = 0
    /\ npc = "plain" => \A h \in Nvs!Half : h < ni => nvs[h] = h
    /\ npc \in {"release", "write"} => \A h \in Nvs!Half : nvs[h] = h

NWritten ==
    /\ npc \notin {"exit", "done"} => file = Nvs!NoFile
    /\ Nvs!FileTrue

NInv == NTyped /\ NModule /\ NHolds /\ NSecure /\ NPlain /\ NWritten

NInit == Nvs!Init
NNext == (\E ctx \in BOOLEAN : Nvs!Call(ctx)) \/ Nvs!Dump \/ Nvs!Return \/ Nvs!Others

LEMMA NInit_NInv == NInit => NInv
<1> SUFFICES ASSUME NInit PROVE NInv OBVIOUS
<1>1. NTyped BY DEF NInit, Nvs!Init, NTyped
<1>2. NModule /\ NHolds BY DEF NInit, Nvs!Init, NModule, NHolds
<1>3. NSecure /\ NPlain BY DEF NInit, Nvs!Init, NSecure, NPlain
<1>4. NWritten BY DEF NInit, Nvs!Init, NWritten, Nvs!FileTrue, Nvs!NoFile
<1> QED BY <1>1, <1>2, <1>3, <1>4 DEF NInv

LEMMA NTypedStep == NTyped /\ NSecure /\ [NNext]_nvars => NTyped'
<1> SUFFICES ASSUME NTyped, NSecure, [NNext]_nvars PROVE NTyped' OBVIOUS
<1>1. CASE UNCHANGED nvars BY <1>1 DEF nvars, NTyped
<1>2. CASE (\E ctx \in BOOLEAN : Nvs!Call(ctx)) \/ Nvs!LoadSm \/ Nvs!Acquire \/ Nvs!Release
           \/ Nvs!WriteFile \/ Nvs!Exit \/ Nvs!Others
  BY <1>2 DEF NTyped, Nvs!Call, Nvs!LoadSm, Nvs!Acquire, Nvs!Release, Nvs!WriteFile, Nvs!Exit,
     Nvs!Others, Nvs!OtherAcquire, Nvs!OtherRelease
<1>3. CASE Nvs!NextSecure
  BY <1>3 DEF NTyped, Nvs!NextSecure, Nvs!Request
<1>4. CASE Nvs!AskSecure
  <2>1. ni \in Nvs!Secure BY <1>4, NvsDumpAssumption DEF Nvs!AskSecure, NSecure, NTyped, Nvs!Secure
  <2>2. sc_pbuf' \in Nvs!Secure \cup {Nvs!Zero, Nvs!Junk} /\ bad' \subseteq Nvs!Secure
    BY <1>4, <2>1 DEF Nvs!AskSecure, NTyped
  <2>3. snvs' = [snvs EXCEPT ![ni] = sc_pbuf'] /\ nvs' = nvs /\ ni' = ni + 1
    BY <1>4 DEF Nvs!AskSecure, Nvs!NextBlock
  <2> QED BY <2>1, <2>2, <2>3 DEF NTyped
<1>5. CASE Nvs!ReadPlain
  BY <1>5 DEF NTyped, Nvs!ReadPlain, Nvs!Half
<1>6. CASE Nvs!Return
  BY <1>6 DEF NTyped, Nvs!Return
<1> QED BY <1>1, <1>2, <1>3, <1>4, <1>5, <1>6 DEF NNext, Nvs!Dump

LEMMA NModuleStep == NModule /\ [NNext]_nvars => NModule'
<1> SUFFICES ASSUME NModule, [NNext]_nvars PROVE NModule' OBVIOUS
<1>1. CASE (\E ctx \in BOOLEAN : Nvs!Call(ctx)) \/ Nvs!LoadSm \/ Nvs!NextSecure \/ Nvs!AskSecure
  BY <1>1 DEF NModule, Nvs!Call, Nvs!LoadSm, Nvs!NextSecure, Nvs!AskSecure
<1>2. CASE Nvs!Acquire \/ Nvs!ReadPlain \/ Nvs!Release \/ Nvs!WriteFile
  BY <1>2 DEF NModule, Nvs!Acquire, Nvs!ReadPlain, Nvs!AfterError, Nvs!Release, Nvs!WriteFile
<1>3. CASE Nvs!Exit \/ Nvs!Return \/ Nvs!Others \/ UNCHANGED nvars
  BY <1>3 DEF NModule, Nvs!Exit, Nvs!Stopped, Nvs!Return, Nvs!Others, Nvs!OtherAcquire,
     Nvs!OtherRelease, nvars
<1> QED BY <1>1, <1>2, <1>3 DEF NNext, Nvs!Dump

LEMMA NHoldsStep == NHolds /\ [NNext]_nvars => NHolds'
BY DEF NHolds, NNext, Nvs!Dump, Nvs!Call, Nvs!LoadSm, Nvs!NextSecure, Nvs!AskSecure,
   Nvs!Acquire, Nvs!ReadPlain, Nvs!AfterError, Nvs!FreeOnError, Nvs!Release, Nvs!WriteFile,
   Nvs!Exit, Nvs!Return, Nvs!Others, Nvs!OtherAcquire, Nvs!OtherRelease, nvars

(* What is known of the secure blocks, of the plain ones and of the file. *)
LEMMA NSecureStep == NTyped /\ NSecure /\ [NNext]_nvars => NSecure'
<1> SUFFICES ASSUME NTyped, NSecure, [NNext]_nvars PROVE NSecure' OBVIOUS
<1>0. SecureBlocks \in Nat BY NvsDumpAssumption
<1>1. CASE Nvs!AskSecure
  <2>1. ni \in Nvs!Secure /\ npc' = "secure" /\ ni' = ni + 1 /\ sc_pbuf = Nvs!Zero
    BY <1>1, <1>0 DEF Nvs!AskSecure, NSecure, NTyped, Nvs!Secure, Nvs!NextBlock
  <2>2. snvs' = [snvs EXCEPT ![ni] = sc_pbuf'] /\ bad \subseteq bad'
    BY <1>1 DEF Nvs!AskSecure
  <2>3. snvs'[ni] = sc_pbuf' /\ \A b \in Nvs!Secure : b # ni => snvs'[b] = snvs[b]
    BY <2>1, <2>2 DEF NTyped
  <2>4. sc_pbuf' = ni \/ (sc_pbuf' \in {Nvs!Zero, Nvs!Junk} /\ ni \in bad')
    BY <1>1, <2>1 DEF Nvs!AskSecure
  <2>5. ASSUME NEW b \in Nvs!Secure, b < ni' PROVE SecureAt(b)'
    <3>1. CASE b = ni BY <2>3, <2>4, <3>1 DEF SecureAt
    <3>2. CASE b # ni
      <4>1. b < ni BY <2>1, <2>5, <3>2 DEF Nvs!Secure, NTyped
      <4>2. npc = "ask" BY <1>1 DEF Nvs!AskSecure
      <4>3. SecureAt(b) BY <4>1, <4>2 DEF NSecure
      <4> QED BY <4>3, <3>2, <2>2, <2>3 DEF SecureAt
    <3> QED BY <3>1, <3>2
  <2>6. ni' <= SecureBlocks BY <2>1, <1>0 DEF Nvs!Secure
  <2> QED BY <2>1, <2>5, <2>6 DEF NSecure
<1>2. CASE Nvs!NextSecure
  <2>1. snvs' = snvs /\ bad' = bad /\ npc = "secure" BY <1>2 DEF Nvs!NextSecure
  <2>2. \A b \in Nvs!Secure : b < SecureBlocks BY <1>0 DEF Nvs!Secure
  <2>3. CASE Nvs!MoreSecure /\ sc_pbuf' = Nvs!Zero /\ npc' = "ask" /\ ni' = ni
    BY <2>1, <2>3 DEF NSecure, SecureAt, Nvs!MoreSecure
  <2>4. CASE ni = SecureBlocks /\ npc' = "acquire"
    BY <2>1, <2>2, <2>4 DEF NSecure, SecureAt
  <2> QED BY <1>2, <2>3, <2>4 DEF Nvs!NextSecure, Nvs!Request
<1>3. CASE \E ctx \in BOOLEAN : Nvs!Call(ctx)
  BY <1>3, <1>0 DEF NSecure, Nvs!Call, Nvs!Secure
<1>4. CASE Nvs!LoadSm
  BY <1>4, <1>0 DEF NSecure, Nvs!LoadSm, Nvs!Secure
<1>5. CASE Nvs!Acquire \/ Nvs!ReadPlain \/ Nvs!Release \/ Nvs!WriteFile
  BY <1>5 DEF NSecure, SecureAt, Nvs!Acquire, Nvs!ReadPlain, Nvs!AfterError, Nvs!Release, Nvs!WriteFile
<1>6. CASE Nvs!Exit \/ Nvs!Return
  BY <1>6 DEF NSecure, Nvs!Exit, Nvs!Return
<1>7. CASE Nvs!Others \/ UNCHANGED nvars
  BY <1>7 DEF NSecure, SecureAt, Nvs!Others, Nvs!OtherAcquire, Nvs!OtherRelease, nvars
<1> QED BY <1>1, <1>2, <1>3, <1>4, <1>5, <1>6, <1>7 DEF NNext, Nvs!Dump

LEMMA NPlainStep == NTyped /\ NPlain /\ [NNext]_nvars => NPlain'
<1> SUFFICES ASSUME NTyped, NPlain, [NNext]_nvars PROVE NPlain' OBVIOUS
<1>0. PlainBlocks \in Nat BY NvsDumpAssumption
<1>1. CASE Nvs!ReadPlain
  <2>0. npc = "plain" /\ \A h \in Nvs!Half : h < ni => nvs[h] = h BY <1>1 DEF Nvs!ReadPlain, NPlain
  <2>1. CASE ni \in Nvs!Half /\ nvs' = [nvs EXCEPT ![ni] = ni] /\ ni' = ni + 1 /\ npc' = "plain"
    <3>1. \A h \in Nvs!Half : h < ni' => h = ni \/ h < ni BY <2>1, <1>0 DEF Nvs!Half
    <3> QED BY <2>0, <2>1, <3>1 DEF NPlain, NTyped
  <2>2. CASE ni \notin Nvs!Half /\ npc' = "release" /\ nvs' = nvs
    <3>1. \A h \in Nvs!Half : h < ni BY <2>2, <1>0 DEF Nvs!Half, NTyped
    <3> QED BY <2>0, <2>2, <3>1 DEF NPlain
  <2>3. CASE npc' = "exit" BY <2>3 DEF NPlain
  <2> QED BY <1>1, <2>0, <2>1, <2>2, <2>3 DEF Nvs!ReadPlain, Nvs!AfterError
<1>2. CASE Nvs!Acquire
  <2>1. \A h \in Nvs!Half : ~(h < 0) BY <1>0 DEF Nvs!Half
  <2> QED BY <1>2, <2>1 DEF Nvs!Acquire, NPlain
<1>3. CASE (\E ctx \in BOOLEAN : Nvs!Call(ctx)) \/ Nvs!LoadSm \/ Nvs!NextSecure \/ Nvs!AskSecure
  BY <1>3 DEF NPlain, Nvs!Call, Nvs!LoadSm, Nvs!NextSecure, Nvs!AskSecure
<1>4. CASE Nvs!Release \/ Nvs!WriteFile \/ Nvs!Exit \/ Nvs!Return
  BY <1>4 DEF NPlain, Nvs!Release, Nvs!WriteFile, Nvs!Exit, Nvs!Return
<1>5. CASE Nvs!Others \/ UNCHANGED nvars
  BY <1>5 DEF NPlain, Nvs!Others, Nvs!OtherAcquire, Nvs!OtherRelease, nvars
<1> QED BY <1>1, <1>2, <1>3, <1>4, <1>5 DEF NNext, Nvs!Dump

LEMMA NWrittenStep == NSecure /\ NPlain /\ NWritten /\ [NNext]_nvars => NWritten'
<1> SUFFICES ASSUME NSecure, NPlain, NWritten, [NNext]_nvars PROVE NWritten' OBVIOUS
<1>1. Nvs!NoFile.there = FALSE BY DEF Nvs!NoFile
<1>2. CASE Nvs!WriteFile
  <2>1. npc' = "exit" /\ bad' = bad
        /\ (file' = Nvs!NoFile \/ \E n \in Nvs!Lengths : file' = Nvs!Written(n))
    BY <1>2 DEF Nvs!WriteFile
  <2>2. (\A h \in Nvs!Half : nvs[h] = h) /\ (\A b \in Nvs!Secure : SecureAt(b))
    BY <1>2 DEF Nvs!WriteFile, NSecure, NPlain
  <2>3. ASSUME NEW n \in Nvs!Lengths, file' = Nvs!Written(n) PROVE Nvs!FileTrue'
    <3>1. file'.secure = [b \in {x \in Nvs!Secure : x < n} |-> snvs[b]]
          /\ file'.plain = [h \in {x \in Nvs!Half : SecureBlocks + x < n} |-> nvs[h]]
      BY <2>3 DEF Nvs!Written
    <3>2. \A h \in DOMAIN file'.plain : file'.plain[h] = h BY <3>1, <2>2
    <3>3. \A b \in DOMAIN file'.secure :
            b \in Nvs!Secure /\ file'.secure[b] = snvs[b]
      BY <3>1
    <3>4. \A b \in DOMAIN file'.secure :
            file'.secure[b] = b \/ (b \in bad' /\ file'.secure[b] \in {Nvs!Zero, Nvs!Junk})
      BY <3>3, <2>1, <2>2 DEF SecureAt
    <3> QED BY <3>2, <3>4 DEF Nvs!FileTrue
  <2> QED BY <1>1, <2>1, <2>3 DEF NWritten, Nvs!FileTrue
<1>3. CASE (\E ctx \in BOOLEAN : Nvs!Call(ctx)) \/ Nvs!LoadSm \/ Nvs!NextSecure \/ Nvs!AskSecure
           \/ Nvs!Acquire \/ Nvs!ReadPlain \/ Nvs!Release
  <2>1. file' = file /\ npc \notin {"exit", "done"}
    BY <1>3 DEF Nvs!Call, Nvs!LoadSm, Nvs!NextSecure, Nvs!AskSecure, Nvs!Acquire, Nvs!ReadPlain,
       Nvs!Release
  <2> QED BY <1>1, <2>1 DEF NWritten, Nvs!FileTrue
<1>4. CASE Nvs!Exit \/ Nvs!Return \/ Nvs!Others \/ UNCHANGED nvars
  BY <1>1, <1>4 DEF NWritten, Nvs!FileTrue, Nvs!Exit, Nvs!Return, Nvs!Others, Nvs!OtherAcquire,
     Nvs!OtherRelease, nvars
<1> QED BY <1>2, <1>3, <1>4 DEF NNext, Nvs!Dump

LEMMA NStepInv == NInv /\ [NNext]_nvars => NInv'
BY NTypedStep, NModuleStep, NHoldsStep, NSecureStep, NPlainStep, NWrittenStep DEF NInv

(* What the dumper does of the NVS is a step of its dump. *)
LEMMA NProjected == DSpec => NInit /\ [][NNext]_nvars
<1>1. DInit => NInit BY DEF DInit, NInit
<1>2. [DNext]_dvars => [NNext]_nvars
  BY DEF DNext, dvars, Part1, CallNvs, ReturnNvs, NvsStep, Others, Devices, NNext
<1> QED BY <1>1, <1>2, PTL DEF DSpec

(* Through every request of dump_nvs the lock, the security module and the
   contents of the work buffer are what its place in the function says. *)
THEOREM NInvariant == DSpec => []NInv
BY NProjected, NInit_NInv, NStepInv, PTL

(* The NVS is ours exactly while halves are read; a security module loaded here
   is stopped at every exit, the caller's is not. *)
THEOREM NvsIsPaired == DSpec => []NvsPaired
<1>1. NInv => NvsPaired BY DEF NInv, NHolds, NModule, NvsPaired, Nvs!Paired
<1> QED BY <1>1, NInvariant, PTL

(* The blocks in the dump, as far as it goes, are those of their places; no
   secure block shows another's contents. *)
THEOREM NvsFileIsTrue == DSpec => []NvsFileTrue
<1>1. NInv => NvsFileTrue BY DEF NInv, NWritten, NvsFileTrue
<1> QED BY <1>1, NInvariant, PTL

-----------------------------------------------------------------------------
(* The dumper as a whole.                                                  *)

LEMMA DevProjected == DSpec => DevSafety
<1>1. DInit => Init BY DEF DInit
<1>2. [DNext]_dvars => [Next]_vars
  BY DEF DNext, dvars, Part1, CallNvs, ReturnNvs, NvsStep, Others, Devices
<1> QED BY <1>1, <1>2, PTL DEF DSpec, DevSafety

(* The dump of the devices by itself keeps all that is said of it. *)
THEOREM DevDumpSafe == Spec => [](DumpFaithful /\ Released) /\ Retried
<1>1. Spec => DevSafety BY PTL DEF Spec, DevSafety
<1> QED BY <1>1, DumpsFaithful, ReleasedCorrect, RetriesUsed, PTL

(* And it does within the dumper, whatever the parts before it leave. *)
THEOREM DumpFaithfulHolds == DSpec => []DumpFaithful
BY DevProjected, DumpsFaithful, PTL

FTypedRest ==
    /\ fw \in BOOLEAN /\ NMPbuid \in {"none", "block", "failed"}

NTypedRest ==
    /\ npc \in {"off", "load", "secure", "ask", "acquire", "plain", "release", "write", "exit", "done"}
    /\ sm \in {"off", "callers", "ours", "stopped"}
    /\ given \in BOOLEAN /\ do_unload_sm \in BOOLEAN
    /\ holder \in {"none", "us", "other"}
    /\ file = Nvs!NoFile \/ \E n \in Nvs!Lengths : file = Nvs!Written(n)

(* Every variable of the dumper is of its type. *)
THEOREM DTypeCorrect == DSpec => []DTypeOK
<1>1. DSpec => []TypeOK BY DevProjected, TypeCorrect, PTL
<1>2. FInit => FTypedRest BY DEF FInit, FTypedRest
<1>3. FTypedRest /\ [FNext]_fvars => FTypedRest'
  BY DEF FTypedRest, FNext, FStep, fvars, FBegin, NMPexploit_init, Firmware, NMPreserve_commem,
     NMPcopy, NMPfree_commem, NMPf00d_jump, StopSm, NMPfile_op, LetGo, NvsDumped
<1>4. NInit => NTypedRest BY DEF NInit, Nvs!Init, NTypedRest
<1>5. NWritten /\ NTypedRest /\ [NNext]_nvars => NTypedRest'
  <2> SUFFICES ASSUME NWritten, NTypedRest, [NNext]_nvars PROVE NTypedRest' OBVIOUS
  <2>1. CASE (\E ctx \in BOOLEAN : Nvs!Call(ctx)) \/ Nvs!LoadSm
    <3>1. UNCHANGED <<file, snvs, nvs>> BY <2>1 DEF Nvs!Call, Nvs!LoadSm
    <3>2. (file = Nvs!NoFile \/ \E n \in Nvs!Lengths : file = Nvs!Written(n))'
      BY <3>1 DEF NTypedRest, Nvs!Written
    <3> QED BY <2>1, <3>2 DEF NTypedRest, Nvs!Call, Nvs!LoadSm
  <2>2. CASE Nvs!NextSecure \/ Nvs!Acquire \/ Nvs!Release \/ Nvs!Exit \/ Nvs!Others \/ UNCHANGED nvars
    <3>1. UNCHANGED <<file, snvs, nvs>>
      BY <2>2 DEF Nvs!NextSecure, Nvs!Acquire, Nvs!Release, Nvs!Exit, Nvs!Others,
         Nvs!OtherAcquire, Nvs!OtherRelease, nvars
    <3>2. (file = Nvs!NoFile \/ \E n \in Nvs!Lengths : file = Nvs!Written(n))'
      BY <3>1 DEF NTypedRest, Nvs!Written
    <3> QED BY <2>2, <3>2 DEF NTypedRest, Nvs!NextSecure, Nvs!Acquire, Nvs!Release, Nvs!Exit,
          Nvs!Stopped, Nvs!Others, Nvs!OtherAcquire, Nvs!OtherRelease, nvars
  <2>3. CASE Nvs!AskSecure \/ Nvs!ReadPlain
    <3>1. file = Nvs!NoFile /\ file' = file BY <2>3 DEF NWritten, Nvs!AskSecure, Nvs!ReadPlain
    <3> QED BY <2>3, <3>1 DEF NTypedRest, Nvs!AskSecure, Nvs!ReadPlain, Nvs!AfterError,
          Nvs!FreeOnError
  <2>4. CASE Nvs!WriteFile \/ Nvs!Return
    BY <2>4 DEF NTypedRest, Nvs!WriteFile, Nvs!Return, Nvs!Written
  <2> QED BY <2>1, <2>2, <2>3, <2>4 DEF NNext, Nvs!Dump
<1>6. FInv /\ FTypedRest => FTypeOK
  <2> SUFFICES ASSUME FInv, FTypedRest PROVE FTypeOK OBVIOUS
  <2>1. fstep \in 0 .. 12
    <3>1. CASE prog = "none"
      BY <3>1 DEF FInv, FPlaced
    <3>2. CASE prog # "none"
      BY <3>2, CallAt DEF FInv, FPlaced
    <3> QED BY <3>1, <3>2
  <2> QED BY <2>1 DEF FInv, FPlaced, FOnce, FCounted, FCopied, FDumped, FTypedRest, FTypeOK
<1>7. NInv /\ NTypedRest => Nvs!TypeOK
  BY DEF NInv, NTyped, NTypedRest, Nvs!TypeOK
<1>8. NInv => NWritten BY DEF NInv
<1> QED
  BY <1>1, <1>2, <1>3, <1>4, <1>5, <1>6, <1>7, <1>8, FProjected, NProjected, FInvariant,
     NInvariant, PTL DEF DTypeOK

(* What the run on the composed dumper checks, for every value of the constants
   and every build. *)
THEOREM DumperSafe ==
    DSpec => [](DumpFaithful /\ NvsPaired /\ NvsFileTrue /\ DumpTrue /\ LeftTold)
BY DumpFaithfulHolds, NvsIsPaired, NvsFileIsTrue, DumpsTrue, LeavingsTold, PTL
=============================================================================
