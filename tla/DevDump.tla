------------------------------ MODULE DevDump -------------------------------
(***************************************************************************)
(* devdumper: source/main.c and source/dev.c.  module_start obtains one    *)
(* buffer and dumps one device after the other through it into files.  A   *)
(* device is read a buffer at a time; a read that fails is done over,      *)
(* sector by sector, each sector with a few retries.                       *)
(***************************************************************************)
EXTENDS Integers, Sequences

CONSTANTS
    Chunk,      \* TEMP_MEMBLOCK_SIZE_BLOCKS: sectors in the buffer
    Retries,    \* DEV_SINGLE_SECTOR_RETRY_COUNT
    Word,       \* 2^32: the block counts are of 32 bits
    MaxDevices, \* bound on the devices a build dumps
    Sizes       \* what the devices' master blocks may say of their size

ASSUME DevDumpAssumption ==
    /\ Chunk \in Nat \ {0} /\ Retries \in Nat /\ Word \in Nat /\ MaxDevices \in Nat
    /\ Sizes \subseteq Nat /\ \A s \in Sizes : s + Chunk < Word

VARIABLES
    pc,
    rest,    \* the turn is the remainder
    mem,     \* the buffer: "none", "held", "freed"
    dev,     \* number of the device
    size,    \* device_size_blocks
    copied,
    i,       \* sector of the buffer read_dev_sbs is at
    retry_count,
    buf,
    fd,      \* a file is open
    out,     \* the file, a sector at a time
    ret,     \* what dump_sce_dev returned
    failed,  \* (history) failing reads of this sector in a row
    lost,    \* (history) sectors given up
    short    \* (history) a write took less than it was given

place == <<dev, size, copied, rest>>
sector == <<i, retry_count, failed>>
vars == <<pc, mem, place, sector, buf, fd, out, ret, lost, short>>

(* What a sector of the buffer holds: a device's sector, zeros, or whatever
   a failing read left. *)
Of(d, s) == [what |-> "data", dev |-> d, at |-> s]
Zero == [what |-> "zero", dev |-> 0, at |-> 0]
Part == [what |-> "part", dev |-> 0, at |-> 0]
Data == [what : {"data", "zero", "part"}, dev : Nat, at : Nat]

Slot == 0 .. Chunk - 1

TypeControl ==
    /\ pc \in {"start", "mbr", "open", "loop", "read", "sbs", "write", "close",
               "next", "free", "done"}
    /\ mem \in {"none", "held", "freed"}
    /\ {rest, fd, short} \subseteq BOOLEAN
    /\ ret \in {0, -1, -2, -3, -4, -6, -8}
TypePlace ==
    /\ dev \in Nat /\ size \in Nat /\ copied \in Nat /\ copied <= size
    /\ lost \subseteq Nat
TypeSector ==
    /\ i \in Nat /\ i <= Chunk
    /\ retry_count \in 0 .. Retries /\ failed \in 0 .. Retries
TypeData == buf \in [Slot -> Data] /\ out \in Seq(Data)

TypeOK == TypeControl /\ TypePlace /\ TypeSector /\ TypeData

Init ==
    /\ pc = "start" /\ mem = "none" /\ fd = FALSE
    /\ dev = 0 /\ size = 0 /\ copied = 0 /\ rest = FALSE
    /\ i = 0 /\ retry_count = 0 /\ failed = 0
    /\ buf = [k \in Slot |-> Part] /\ out = <<>>
    /\ ret = 0 /\ lost = {} /\ short = FALSE

-----------------------------------------------------------------------------
Go(to) == pc' = to
KeepDump == UNCHANGED <<place, sector, buf, fd, out, lost, short>>

Alloc ==
    /\ pc = "start"
    /\ \/ mem' = "held" /\ Go("next")
       \/ mem' = "none" /\ Go("done")
    /\ UNCHANGED ret /\ KeepDump

NextDevice ==
    /\ pc = "next"
    /\ \/ /\ dev < MaxDevices /\ dev' = dev + 1 /\ Go("mbr")
          /\ size' = 0 /\ copied' = 0 /\ rest' = FALSE
          /\ out' = <<>> /\ lost' = {} /\ short' = FALSE
       \/ Go("free") /\ UNCHANGED <<place, out, lost, short>>
    /\ UNCHANGED <<mem, sector, buf, fd, ret>>

(* dump_sce_dev returns: -1 without a device, -2 if its master block cannot be
   read, -3 if that is none of Sony's. *)
Return(code) == ret' = code /\ Go("next")

Cleared == [k \in Slot |-> Zero]

Probe ==
    /\ pc = "mbr"
    /\ \/ /\ size' \in Sizes \ {0}
          /\ buf' = Cleared /\ Go("open") /\ UNCHANGED ret
       \/ /\ \E code \in {-1, -2, -3} : Return(code)
          /\ \/ UNCHANGED buf
             \/ \E d \in {Zero, Part, Of(dev, 0)} : buf' = [buf EXCEPT ![0] = d]
          /\ UNCHANGED size
    /\ UNCHANGED <<mem, dev, copied, rest, sector, fd, out, lost, short>>

Open ==
    /\ pc = "open"
    /\ \/ fd' = TRUE /\ Go("loop") /\ UNCHANGED ret
       \/ Return(-4) /\ UNCHANGED fd
    /\ UNCHANGED <<mem, place, sector, buf, out, lost, short>>

(* The first loop goes on. *)
Full == (copied + Chunk) % Word <= size
Rest == copied < size /\ size - copied <= Chunk

Turn ==
    /\ pc = "loop"
    /\ \/ Full /\ rest' = FALSE /\ Go("read")
       \/ ~Full /\ Rest /\ rest' = TRUE /\ Go("read")
       \/ ~Full /\ ~Rest /\ Go("close") /\ UNCHANGED rest
    /\ UNCHANGED <<mem, ret, dev, size, copied, sector, buf, fd, out, lost, short>>

(* Sectors the turn reads: a full buffer or the remainder. *)
Amount == IF rest THEN size - copied ELSE Chunk

Bulk(n) == [k \in Slot |-> IF k < n THEN Of(dev, copied + k) ELSE buf[k]]

(* variant: the buffer is not cleared before the second try *)
ClearedNot(n) == buf
ClearedFor(n) == [k \in Slot |-> IF k < n THEN Zero ELSE buf[k]]

(* The whole turn at once, or the start of read_dev_sbs. *)
ReadBulk ==
    /\ pc = "read"
    /\ \/ /\ buf' = Bulk(Amount)
          /\ Go("write")
          /\ UNCHANGED sector
       \/ /\ buf' = ClearedFor(Amount)
          /\ Go("sbs")
          /\ i' = 0 /\ retry_count' = Retries /\ failed' = 0
    /\ UNCHANGED <<mem, place, fd, out, ret, lost, short>>

RetriesAnew == Retries

(* variant: a given up sector is begun again *)
NextSectorSame == i' = i /\ retry_count' = RetriesAnew /\ failed' = 0
NextSector == i' = i + 1 /\ retry_count' = RetriesAnew /\ failed' = 0

(* One turn of read_dev_sbs: the sector is there, is tried once more, or is
   given up and stays zeroed, or as the failing reads left it. *)
ReadSector ==
    /\ pc = "sbs" /\ i < Amount
    /\ \/ /\ buf' = [buf EXCEPT ![i] = Of(dev, copied + i)]
          /\ NextSector /\ UNCHANGED lost
       \/ /\ \/ UNCHANGED buf
             \/ buf' = [buf EXCEPT ![i] = Part]
          /\ IF retry_count # 0
               THEN /\ retry_count' = retry_count - 1 /\ failed' = failed + 1
                    /\ UNCHANGED <<i, lost>>
               ELSE /\ lost' = lost \cup {copied + i}
                    /\ NextSector
    /\ UNCHANGED <<pc, mem, place, fd, out, ret, short>>

SectorsRead ==
    /\ pc = "sbs" /\ i = Amount
    /\ Go("write")
    /\ UNCHANGED <<mem, ret>> /\ KeepDump

Written(n) == [k \in 1 .. n |-> buf[k - 1]]

ClosedOnError == FALSE

(* The turn is written.  A write that stops short of it is no error. *)
Write ==
    /\ pc = "write"
    /\ \/ /\ out' = out \o Written(Amount)
          /\ copied' = copied + Amount
          /\ Go(IF rest THEN "close" ELSE "loop")
          /\ UNCHANGED <<ret, fd, short>>
       \/ /\ \E n \in 0 .. Amount - 1 : out' = out \o Written(n)
          /\ copied' = copied + Amount
          /\ Go(IF rest THEN "close" ELSE "loop")
          /\ short' = TRUE
          /\ UNCHANGED <<ret, fd>>
       \/ /\ \E n \in 0 .. Amount - 1 : out' = out \o Written(n)
          /\ fd' = ClosedOnError /\ Return(IF rest THEN -8 ELSE -6)
          /\ UNCHANGED <<copied, short>>
    /\ UNCHANGED <<mem, dev, size, rest, sector, buf, lost>>

Close ==
    /\ pc = "close" /\ fd' = FALSE /\ Return(0)
    /\ UNCHANGED <<mem, place, sector, buf, out, lost, short>>

Free ==
    /\ pc = "free" /\ mem' = "freed" /\ Go("done")
    /\ UNCHANGED ret /\ KeepDump

Next == Alloc \/ NextDevice \/ Probe \/ Open \/ Turn \/ ReadBulk \/ ReadSector
        \/ SectorsRead \/ Write \/ Close \/ Free

Spec == Init /\ [][Next]_vars /\ WF_vars(Next)
-----------------------------------------------------------------------------
(* Every sector in the file is the device's sector of that number, unless it
   was given up; then it is zeros or what the failing reads left, and never
   data of another sector or another device that passed through the buffer. *)
Honest ==
    ~short =>
        \A k \in 1 .. Len(out) :
            out[k] = Of(dev, k - 1) \/ (k - 1 \in lost /\ out[k].what # "data")

(* A dump that returned 0 has every sector of the device, as long as the writes
   took what they were given. *)
Whole == pc = "next" /\ ret = 0 /\ ~short => Len(out) = size

(* What a dump contains, in short. *)
DumpFaithful == Honest /\ Whole

(* Between devices no file is open, and at the end the buffer is given back. *)
Released ==
    /\ pc \in {"mbr", "next", "free", "done"} => ~fd
    /\ pc = "done" => mem # "held"

(* A sector is given up after as many failing reads of it as the build allows. *)
Retried == [][\A s \in lost' \ lost : failed = Retries]_vars

(* The dump of all devices ends, whatever fails. *)
Ends == <>(pc = "done")
=============================================================================
