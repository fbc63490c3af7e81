------------------------------ MODULE WorkEmmc ------------------------------
(***************************************************************************)
(* recoVery's raw partition copier: recoVery/src/menu/main.c, work_emmc.   *)
(* It looks a partition up in the eMMC's master block and copies it to a   *)
(* file (a dump) or a file onto it (a flash), a buffer at a time and then  *)
(* the remainder.  No result of the copying calls is looked at, so every   *)
(* one of them may fail here without the loop noticing.                    *)
(***************************************************************************)
EXTENDS Integers, Sequences

CONSTANTS
    Chunk,      \* 0x8000: sectors in fsp_buf
    MinOff,     \* 0x8000: lowest partition offset accepted
    LastSector, \* last sector of the eMMC
    Slots,      \* 16: entries of the partition table
    Entry,      \* the entries the tables considered are made of
    Ids,        \* partition ids a command may name
    Value,      \* contents of a sector
    Disk0,      \* contents of the eMMC at boot
    Buf0,       \* what the allocator leaves in fsp_buf
    Images,     \* what sd0:toflash.img may hold, one value per sector
    NULL,       \* fsp_buf when its allocation failed
    MaxCalls    \* bound: accepted calls in a run

Sector == 0 .. LastSector

ASSUME WorkEmmcAssumption ==
    /\ Chunk \in Nat \ {0} /\ MinOff \in Nat /\ LastSector \in Nat
    /\ Slots \in Nat /\ Ids \subseteq Nat /\ MaxCalls \in Nat
    /\ Entry \subseteq [off : Nat, sz : Nat, code : Nat, active : Nat]
    /\ \A e \in Entry : e.off + e.sz <= LastSector + 1
    /\ Disk0 \in [Sector -> Value]
    /\ Buf0 \in [0 .. Chunk - 1 -> Value]
    /\ Images \subseteq Seq(Value)
    /\ NULL \notin [0 .. Chunk - 1 -> Value]

VARIABLES
    pc,      \* where work_emmc stands
    table,   \* the partition table the (gated) read of sector 0 yields
    job,     \* mode, part_id and active of the call, off and size looked up
    copied,  \* sectors copied so far
    pos,     \* file position, in sectors
    buf,     \* fsp_buf
    disk,    \* the eMMC
    img,     \* sd0:toflash.img, as long as it is open
    out,     \* sd0:dumped.img
    base,    \* (history) the eMMC when the partition was looked up
    stale,   \* (history) fsp_buf at that time
    calls,   \* (bound) calls accepted so far
    fault    \* (history) some transfer of this call failed or fell short

vars == <<pc, table, job, copied, pos, buf, disk, img, out, base, stale, calls, fault>>

Minimum(a, b) == IF a <= b THEN a ELSE b

Job == [flash : BOOLEAN, active : Nat, id : Nat, off : Nat, size : Nat]
NoJob == [flash |-> FALSE, active |-> 0, id |-> 0, off |-> 0, size |-> 0]

TypeOK ==
    /\ pc \in {"idle", "lookup", "open", "loop", "moved"}
    /\ table \in [1 .. Slots -> Entry]
    /\ job \in Job
    /\ copied \in Nat /\ copied <= job.size
    /\ pos \in Nat
    /\ buf \in [0 .. Chunk - 1 -> Value] \cup {NULL}
    /\ stale \in [0 .. Chunk - 1 -> Value] \cup {NULL}
    /\ disk \in [Sector -> Value] /\ base \in [Sector -> Value]
    /\ img \in Seq(Value) /\ out \in Seq(Value)
    /\ calls \in Nat /\ fault \in BOOLEAN

-----------------------------------------------------------------------------
Init ==
    /\ pc = "idle" /\ job = NoJob
    /\ table \in [1 .. Slots -> Entry]
    /\ copied = 0 /\ pos = 0
    /\ buf \in {Buf0, NULL} /\ stale = buf
    /\ disk = Disk0 /\ base = Disk0
    /\ img = <<>> /\ out = <<>> /\ calls = 0 /\ fault = FALSE

Refused(active, id) == id < 3 \/ active > 1 \/ buf = NULL

(* The call; a refused one returns at once. *)
Refuse(active, id) == pc = "idle" /\ Refused(active, id) /\ UNCHANGED vars
Start(flash, active, id) ==
    /\ pc = "idle"
    /\ ~Refused(active, id)
    /\ calls < MaxCalls /\ calls' = calls + 1
    /\ pc' = "lookup"
    /\ job' = [flash |-> flash, active |-> active, id |-> id, off |-> 0, size |-> 0]
    /\ copied' = 0 /\ pos' = 0 /\ fault' = FALSE
    /\ base' = disk /\ stale' = buf
    /\ UNCHANGED <<table, buf, disk, img, out>>

(* The scan does not stop at a match: the last one wins. *)
LastMatch ==
    LET match == {i \in 1 .. Slots : table[i].active = job.active /\ table[i].code = job.id}
    IN {i \in match : \A j \in match : j <= i}

(* variant: no lower bound on the offset *)
UnusableEmpty(e) == e.sz = 0
Unusable(e) == e.off < MinOff \/ e.sz = 0

(* A failing read of the table, no match, or a match that is not usable end
   the call. *)
Lookup ==
    /\ pc = "lookup"
    /\ \/ \E i \in LastMatch :
          /\ ~Unusable(table[i])
          /\ job' = [job EXCEPT !.off = table[i].off, !.size = table[i].sz]
          /\ pc' = "open"
       \/ pc' = "idle" /\ UNCHANGED job
    /\ UNCHANGED <<table, copied, pos, buf, disk, img, out, base, stale, calls, fault>>

(* Open sd0:toflash.img, or create sd0:dumped.img empty. *)
Open ==
    /\ pc = "open"
    /\ \/ /\ pc' = "loop"
          /\ IF job.flash THEN img' \in Images /\ UNCHANGED out
                          ELSE out' = <<>> /\ UNCHANGED img
       \/ pc' = "idle" /\ UNCHANGED <<img, out>>
    /\ UNCHANGED <<table, job, copied, pos, buf, disk, base, stale, calls, fault>>

(* What the next turn copies: a full buffer in the loop, the remainder in the
   test after it, nothing at the end. *)
Amount ==
    IF copied + Chunk <= job.size THEN Chunk
    ELSE IF copied < job.size /\ job.size - copied <= Chunk THEN job.size - copied
    ELSE 0

Advance == copied + Amount

(* variant: the file is read from its start on every turn *)
FromFileRewound(got) == [i \in 0 .. Chunk - 1 |-> IF i < got THEN img[i + 1] ELSE buf[i]]
FromFile(got) == [i \in 0 .. Chunk - 1 |-> IF i < got THEN img[pos + i + 1] ELSE buf[i]]

(* Flash: fill the buffer from the file.  At the end of the file, or on an
   error, the rest of the buffer keeps what it held. *)
FileToBuf ==
    /\ pc = "loop" /\ job.flash /\ Amount > 0
    /\ LET most == Minimum(Amount, Len(img) - pos)
       IN \E got \in 0 .. most :
            /\ buf' = FromFile(got)
            /\ pos' = pos + got
            /\ fault' = (fault \/ got < most)
    /\ pc' = "moved"
    /\ UNCHANGED <<table, job, copied, disk, img, out, base, stale, calls>>

Turn(n) == job.off + copied .. job.off + copied + n - 1
(* variant: the write is always a whole buffer *)
ToDiskWhole == [s \in Sector |-> IF s \in Turn(Chunk) THEN buf[s - job.off - copied] ELSE disk[s]]
ToDisk == [s \in Sector |-> IF s \in Turn(Amount) THEN buf[s - job.off - copied] ELSE disk[s]]

(* Flash: write the buffer to the eMMC; a failing write goes unnoticed. *)
BufToDisk ==
    /\ pc = "moved" /\ job.flash
    /\ \/ disk' = ToDisk /\ UNCHANGED fault
       \/ UNCHANGED disk /\ fault' = TRUE
    /\ copied' = Advance
    /\ pc' = "loop"
    /\ UNCHANGED <<table, job, pos, buf, img, out, base, stale, calls>>

(* variant: the dump reads the partition's first sectors on every turn *)
FromDiskFirst ==
    [i \in 0 .. Chunk - 1 |-> IF i < Amount THEN disk[job.off + i] ELSE buf[i]]
FromDisk ==
    [i \in 0 .. Chunk - 1 |-> IF i < Amount THEN disk[job.off + copied + i] ELSE buf[i]]

(* Dump: read the next sectors of the partition. *)
DiskToBuf ==
    /\ pc = "loop" /\ ~job.flash /\ Amount > 0
    /\ \/ buf' = FromDisk /\ UNCHANGED fault
       \/ UNCHANGED buf /\ fault' = TRUE
    /\ pc' = "moved"
    /\ UNCHANGED <<table, job, copied, pos, disk, img, out, base, stale, calls>>

(* Dump: append the buffer to the file; a full card shortens the append. *)
BufToFile ==
    /\ pc = "moved" /\ ~job.flash
    /\ \E put \in 0 .. Amount :
         /\ out' = out \o [i \in 1 .. put |-> buf[i - 1]]
         /\ pos' = pos + put
         /\ fault' = (fault \/ put < Amount)
    /\ copied' = Advance
    /\ pc' = "loop"
    /\ UNCHANGED <<table, job, buf, disk, img, base, stale, calls>>

Close ==
    /\ pc = "loop" /\ Amount = 0
    /\ pc' = "idle"
    /\ UNCHANGED <<table, job, copied, pos, buf, disk, img, out, base, stale, calls, fault>>

Work == Lookup \/ Open \/ FileToBuf \/ BufToDisk \/ DiskToBuf \/ BufToFile \/ Close
Next ==
    \/ \E flash \in BOOLEAN, active \in {0, 1, 2}, id \in Ids :
         Start(flash, active, id) \/ Refuse(active, id)
    \/ Work

(* The menu thread runs work_emmc to its end. *)
Spec == Init /\ [][Next]_vars

-----------------------------------------------------------------------------
(* However many flashes are asked for and whatever the partition table says,
   no sector below the lowest accepted offset changes: "make sure that its
   not touching boot stuff" (main.c:135).  *)
BootUntouched == \A s \in 0 .. MinOff - 1 : s \in Sector => disk[s] = Disk0[s]

(* A copy changes the eMMC inside the partition that was looked up only, with
   the last turn as short as what is left.  *)
FlashConfined ==
    \A s \in Sector : s \notin job.off .. job.off + job.size - 1 => disk[s] = base[s]

(* The partition worked on is one the table lists under the id and the active
   bit of the command, and never one of the boot partitions 0 to 2.  *)
TargetRequested ==
    pc \in {"open", "loop", "moved"} =>
      /\ job.id >= 3
      /\ \E i \in 1 .. Slots :
           table[i] = [off |-> job.off, sz |-> job.size, code |-> job.id, active |-> job.active]

(* What sector i of a flash holds when no transfer failed: the image's sector
   i; past the end of a short image, what earlier turns left at the same
   place of the buffer.  *)
Flashed(i) ==
    LET before == {k \in 0 .. i : k < Len(img) /\ k % Chunk = i % Chunk}
    IN IF before = {} THEN stale[i % Chunk]
       ELSE img[(CHOOSE k \in before : \A l \in before : l <= k) + 1]

(* A flash without failures puts every sector of the image that belongs to
   the part gone through in its place.  *)
ImageLands ==
    (job.flash /\ ~fault) =>
       \A i \in 0 .. copied - 1 : i < Len(img) => disk[job.off + i] = img[i + 1]

(* A flash without failures leaves the image on the partition, sector by
   sector, and a short image is continued with stale buffer contents.  *)
FlashExact ==
    (job.flash /\ ~fault) =>
       \A i \in 0 .. copied - 1 : disk[job.off + i] = Flashed(i)

(* A dump without failures is the partition's contents, sector by sector.  *)
DumpExact ==
    (~job.flash /\ ~fault /\ copied > 0) =>
       /\ Len(out) = copied
       /\ \A i \in 0 .. copied - 1 : out[i + 1] = disk[job.off + i]

(* The copy ends only when the whole partition has been gone through.  *)
CopiesAll == [][pc = "loop" /\ pc' = "idle" => copied = job.size]_vars
=============================================================================
