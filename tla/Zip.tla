-------------------------------- MODULE Zip ---------------------------------
(***************************************************************************)
(* bgvpk: source/Archives.c, the reader that unpacks a downloaded archive. *)
(* ZipOpen finds the central directory from the end of the file; ZipExtract*)
(* walks it entry by entry; ZipExtractCurrentFile reads an entry through a *)
(* small buffer into a large one and writes that out when it is full.      *)
(*                                                                         *)
(* Data is counted in units; a unit of packed data gives a unit of the     *)
(* file, and the k-th unit of a file is the number k.  No password is ever *)
(* passed, so nothing is decrypted.                                        *)
(***************************************************************************)
EXTENDS Integers, Sequences, FiniteSets

CONSTANTS
    Archives,    \* central directories: sequences of entries
    MaxEntries,  \* bound on their length
    InSize,      \* _ZIP_BUFFER_SIZE
    OutSize,     \* TMPBUF_SIZE
    Block,       \* _ZIP_BUF_READ_COMMENT
    MaxBack,     \* how far back the end record is searched (0xffff); the
                 \* first place that is looked at is four bytes back
    Layouts      \* archive files: their size and where the mark of an end
                 \* record stands in them

(* An entry: whether its name ends as a directory's does and has no directory
   in it, whether its record in the central directory and its own header are
   sound, how it is packed, its sizes and whether its sum is right. *)
Entry == [dir : BOOLEAN, top : BOOLEAN, record : BOOLEAN,
          header : BOOLEAN, method : {"stored", "deflated"},
          packed : Nat, size : Nat, crc : BOOLEAN]

ASSUME ZipAssumption ==
    /\ MaxEntries \in Nat /\ Archives \subseteq Seq(Entry)
    /\ \A a \in Archives : Len(a) <= MaxEntries
    /\ InSize \in Nat \ {0} /\ OutSize \in Nat \ {0}
    /\ Block \in Nat \ {0} /\ MaxBack \in Nat /\ MaxBack > 4
    /\ Layouts \subseteq [size : Nat, marks : SUBSET Nat]

VARIABLES
    zpc,
    layout, centralpos,  \* while the archive is being opened
    cd,             \* the central directory of the open archive
    zip,            \* the handle: "none", "open"
    i,              \* loop counter of ZipExtract
    numfile, currentfileok,
    cur,            \* currentzipfileinfo
    err,            \* result of ZipExtract
    entryerr,       \* result of ZipExtractCurrentFile
    buf,            \* units in the large buffer
    fresh,          \* units the running ZipReadCurrentFile has copied
    avail_out,
    fout,           \* the stream of the file that is written
    disk,           \* what the entries have become
    held,           \* allocations not freed
    faults          \* (history) something outside the archive failed

reading == <<cur, buf, fresh, avail_out>>
walk == <<cd, i, numfile, currentfileok>>
zipVars == <<zpc, layout, centralpos, zip, walk, reading, err, entryerr, fout,
             disk, held, faults>>

OK == 0
EOF_LIST == -100
ERRNO == -1
PARAM_ERROR == -102
BAD_FILE == -103
INTERNAL_ERROR == -104
CRC_ERROR == -105

Min2(a, b) == IF a < b THEN a ELSE b

Closed == [e |-> 0, restc |-> 0, restu |-> 0, avail |-> 0]
Nothing == [kind |-> "none", data |-> <<>>]
Blank == [k \in 1 .. MaxEntries |-> Nothing]
NoLayout == [size |-> 0, marks |-> {}]

ZipTypeOK ==
    /\ zpc \in {"off", "locate", "ready", "info", "alloc", "open", "fopen", "read",
                "copy", "write", "last", "close", "next", "ret"}
    /\ zip \in {"none", "open"} /\ cd \in Archives \cup {<<>>}
    /\ numfile \in 0 .. MaxEntries /\ i \in 0 .. MaxEntries
    /\ currentfileok \in BOOLEAN /\ faults \in BOOLEAN
    /\ cur \in [e : 0 .. MaxEntries, restc : Nat, restu : Nat, avail : 0 .. InSize]
    /\ {err, entryerr} \subseteq {OK, EOF_LIST, ERRNO, PARAM_ERROR, BAD_FILE,
                                  INTERNAL_ERROR, CRC_ERROR}
    /\ Len(buf) + Len(fresh) + avail_out <= OutSize
    /\ fout \in {"none", "null", "open"}
    /\ disk \in [1 .. MaxEntries -> [kind : {"none", "dir", "file"}, data : Seq(Nat)]]
    /\ held \subseteq {"handle", "tmp", "info", "in"}

ZipInit ==
    /\ zpc = "off" /\ layout = NoLayout /\ centralpos = 0
    /\ zip = "none" /\ cd = <<>> /\ i = 0 /\ numfile = 0 /\ currentfileok = FALSE
    /\ cur = Closed /\ buf = <<>> /\ fresh = <<>> /\ avail_out = 0
    /\ err = OK /\ entryerr = OK /\ fout = "none" /\ disk = Blank
    /\ held = {} /\ faults = FALSE

-----------------------------------------------------------------------------
(* Opening and closing. *)

(* A block of the file from the given place on has the mark there; the last
   in the block counts. *)
MarksIn(f, pos, n) == {p \in f.marks : pos <= p /\ p + 4 <= pos + n}
(* variant: the first in the block counts *)
InBlockFirst(f, pos, n) ==
    LET M == MarksIn(f, pos, n)
    IN IF M = {} THEN 0 ELSE CHOOSE p \in M : \A q \in M : p <= q
InBlock(f, pos, n) ==
    LET M == MarksIn(f, pos, n)
    IN IF M = {} THEN 0 ELSE CHOOSE p \in M : \A q \in M : q <= p

(* The search goes back a block at a time, each reading four bytes of the one
   after it, until there is a mark or it is far enough; place 0 is "none". *)
ZipLocateCentralDir(f) ==
    LET umaxback == Min2(MaxBack, f.size)
        back[ubackread \in 0 .. umaxback + Block + 4] ==
            IF ubackread >= umaxback THEN 0
            ELSE LET b == Min2(ubackread + Block, umaxback)
                     found == InBlock(f, f.size - b, Min2(Block + 4, b))
                 IN IF found # 0 THEN found ELSE back[b]
    IN back[4]

(* Opening the file and looking for the end record. *)
ZipLocate ==
    /\ layout' \in Layouts
    /\ centralpos' = ZipLocateCentralDir(layout')
    /\ zpc' = "locate"

(* The record of entry k can be read: it is sound and no reading fails. *)
InfoRead(k, ok) ==
    \/ ok = (k \in DOMAIN cd /\ cd[k].record) /\ UNCHANGED faults
    \/ ok = FALSE /\ faults' = TRUE

(* The rest of ZipOpen; without an end record, or with a bad one, there is no
   handle.  The result of ZipGotoFirstFile is not looked at. *)
ZipOpenFound ==
    /\ zpc = "locate" /\ zpc' = "ready"
    /\ layout' = NoLayout /\ centralpos' = 0
    /\ \/ /\ centralpos # 0 /\ zip' = "open" /\ held' = {"handle"}
          /\ cd' \in Archives /\ numfile' = 0
          /\ \/ currentfileok' = (cd' # <<>> /\ cd'[1].record) /\ UNCHANGED faults
             \/ currentfileok' = FALSE /\ faults' = TRUE
       \/ /\ zip' = "none" /\ cd' = <<>> /\ currentfileok' = FALSE
          /\ faults' = TRUE /\ UNCHANGED <<numfile, held>>
    /\ UNCHANGED <<i, reading, err, entryerr, fout, disk>>

(* ZipCloseCurrentFile: the sum is compared only when everything was read. *)
SumOk == cur.restu # 0 \/ cd[cur.e].crc
CloseResult == IF cur.e = 0 THEN PARAM_ERROR ELSE IF SumOk THEN OK ELSE CRC_ERROR
CurReleased == IF cur.e = 0 THEN held ELSE held \ {"info", "in"}

ZipClose ==
    /\ zip' = "none" /\ cur' = Closed /\ held' = CurReleased \ {"handle"}
    /\ cd' = <<>> /\ numfile' = 0 /\ currentfileok' = FALSE

-----------------------------------------------------------------------------
(* ZipExtract and ZipExtractCurrentFile. *)

(* The directory is made, the number of entries taken from the handle; without
   a handle there is none, and that is an error. *)
ZipExtract ==
    /\ zpc = "ready"
    /\ disk' = Blank /\ i' = 0
    /\ IF zip = "open" /\ Len(cd) > 0 THEN zpc' = "info" /\ err' = OK
       ELSE zpc' = "ret" /\ err' = IF zip = "open" THEN OK ELSE PARAM_ERROR
    /\ UNCHANGED <<layout, centralpos, zip, cd, numfile, currentfileok, reading,
                   entryerr, fout, held, faults>>

(* variant: always the first one *)
EnteredFirst == 1
(* The entry the handle is at. *)
Entered == numfile + 1

Info ==
    /\ zpc = "info"
    /\ \E ok \in BOOLEAN :
          /\ InfoRead(Entered, ok)
          /\ IF ok THEN zpc' = "alloc" /\ UNCHANGED entryerr
                   ELSE zpc' = "next" /\ entryerr' = ERRNO
    /\ UNCHANGED <<layout, centralpos, zip, walk, reading, err, fout, disk, held>>

(* Without memory the entry counts as done.  A directory is made and is done. *)
AllocTmp ==
    /\ zpc = "alloc"
    /\ \/ /\ zpc' = "next" /\ entryerr' = OK /\ faults' = TRUE
          /\ UNCHANGED <<disk, held>>
       \/ /\ cd[Entered].dir /\ zpc' = "next" /\ entryerr' = OK
          /\ disk' = [disk EXCEPT ![Entered].kind = "dir"]
          /\ UNCHANGED <<held, faults>>
       \/ /\ ~cd[Entered].dir /\ zpc' = "open" /\ held' = held \cup {"tmp"}
          /\ UNCHANGED <<entryerr, disk, faults>>
    /\ buf' = <<>> /\ fresh' = <<>> /\ avail_out' = 0
    /\ UNCHANGED <<layout, centralpos, zip, walk, cur, err, fout>>

(* The entry's own header agrees with its record. *)
Coherent == cd[Entered].header

(* ZipOpenCurrentFile; what it returns is not looked at. *)
ZipOpenCurrentFile ==
    /\ zpc = "open" /\ zpc' = "fopen"
    /\ \/ /\ currentfileok /\ Coherent
          /\ cur' = [e |-> Entered, restc |-> cd[Entered].packed,
                     restu |-> cd[Entered].size, avail |-> 0]
          /\ held' = held \cup {"info", "in"} /\ UNCHANGED faults
       \/ ~(currentfileok /\ Coherent) /\ UNCHANGED <<cur, held, faults>>
       \/ faults' = TRUE /\ UNCHANGED <<cur, held>>
    /\ UNCHANGED <<layout, centralpos, zip, walk, buf, fresh, avail_out, err,
                   entryerr, fout, disk>>

(* What stays when the file cannot be created: for a name without a directory
   mkdir_rec has made one of that name. *)
Uncreated(e) == IF e.top THEN "dir" ELSE "none"

(* The file is created, by way of mkdir_rec if its directory is not there. *)
OpenOut ==
    /\ zpc = "fopen" /\ zpc' = "read"
    /\ \/ /\ fout' = "open" /\ UNCHANGED faults
          /\ disk' = [disk EXCEPT ![Entered] = [kind |-> "file", data |-> <<>>]]
       \/ /\ fout' = "null" /\ faults' = TRUE
          /\ disk' = [disk EXCEPT ![Entered].kind = Uncreated(cd[Entered])]
    /\ UNCHANGED <<layout, centralpos, zip, walk, reading, err, entryerr, held>>

(* ZipReadCurrentFile, a turn of its loop at a time. *)
ReadBegin ==
    /\ zpc = "read"
    /\ IF cur.e = 0 THEN zpc' = "last" /\ UNCHANGED avail_out
       ELSE zpc' = "copy" /\ avail_out' = Min2(OutSize - Len(buf), cur.restu)
    /\ fresh' = <<>>
    /\ UNCHANGED <<layout, centralpos, zip, walk, cur, buf, err, entryerr, fout,
                   disk, held, faults>>

Reading == zpc = "copy" /\ avail_out > 0
KeepCopy == UNCHANGED <<layout, centralpos, zip, walk, err, entryerr, fout, disk, held>>

(* A negative result: the units copied in this call do not count. *)
ReadFails == zpc' = "last" /\ fresh' = <<>> /\ avail_out' = 0 /\ UNCHANGED buf

(* The result counts them; 0 ends the reading. *)
ReadReturns ==
    /\ buf' = buf \o fresh /\ fresh' = <<>> /\ avail_out' = 0
    /\ zpc' = IF fresh = <<>> THEN "last" ELSE "write"

Refill ==
    /\ Reading /\ cur.avail = 0 /\ cur.restc > 0
    /\ \/ LET n == Min2(InSize, cur.restc)
          IN /\ cur' = [cur EXCEPT !.avail = n, !.restc = @ - n]
             /\ UNCHANGED <<zpc, buf, fresh, avail_out, faults>>
       \/ ReadFails /\ faults' = TRUE /\ UNCHANGED cur
    /\ KeepCopy

(* Number of the next unit of the file. *)
Position == cd[cur.e].size - cur.restu

Copy ==
    /\ Reading /\ cur.avail > 0
    /\ LET n == Min2(avail_out, cur.avail)
       IN /\ fresh' = fresh \o [k \in 1 .. n |-> Position + k]
          /\ cur' = [cur EXCEPT !.avail = @ - n, !.restu = @ - n]
          /\ avail_out' = avail_out - n
    /\ UNCHANGED <<zpc, buf, faults>> /\ KeepCopy

(* There is no more data though the record promised some: stored data ends, a
   deflated stream ends or is found cut; a bad one may be noticed on the way. *)
DataEnds ==
    /\ Reading /\ cur.avail = 0 /\ cur.restc = 0
    /\ \/ ReadReturns
       \/ cd[cur.e].method = "deflated" /\ ReadFails
    /\ UNCHANGED <<cur, faults>> /\ KeepCopy

DataBad ==
    /\ Reading /\ cd[cur.e].method = "deflated" /\ ~cd[cur.e].crc
    /\ ReadFails
    /\ UNCHANGED <<cur, faults>> /\ KeepCopy

ReadEnd == zpc = "copy" /\ avail_out = 0 /\ ReadReturns
           /\ UNCHANGED <<cur, faults>> /\ KeepCopy

(* fwrite, whose result is not looked at.  Writing through the null pointer of
   a file that could not be created loses the data. *)
WriteOut(to) ==
    /\ zpc' = to /\ buf' = <<>>
    /\ \/ /\ fout = "open" /\ UNCHANGED faults
          /\ disk' = [disk EXCEPT ![Entered].data = @ \o buf]
       \/ /\ fout = "open" /\ faults' = TRUE
          /\ \E n \in 0 .. Len(buf) - 1 :
                disk' = [disk EXCEPT ![Entered].data = @ \o SubSeq(buf, 1, n)]
       \/ fout = "null" /\ UNCHANGED <<disk, faults>>

(* variant: a full buffer is not written out *)
FullNever == FALSE
Full == Len(buf) = OutSize

Flush ==
    /\ zpc = "write"
    /\ IF Full THEN WriteOut("read")
       ELSE zpc' = "read" /\ UNCHANGED <<buf, disk, faults>>
    /\ UNCHANGED <<layout, centralpos, zip, walk, cur, fresh, avail_out, err,
                   entryerr, fout, held>>

FlushLast ==
    /\ zpc = "last"
    /\ IF buf # <<>> THEN WriteOut("close")
       ELSE zpc' = "close" /\ UNCHANGED <<buf, disk, faults>>
    /\ fout' = "none"
    /\ UNCHANGED <<layout, centralpos, zip, walk, cur, fresh, avail_out, err,
                   entryerr, held>>

CloseEntry ==
    /\ zpc = "close" /\ zpc' = "next"
    /\ entryerr' = CloseResult /\ cur' = Closed
    /\ held' = CurReleased \ {"tmp"}
    /\ UNCHANGED <<layout, centralpos, zip, walk, buf, fresh, avail_out, err, fout,
                   disk, faults>>

(* ZipGotoNextFile *)
GotoNext ==
    IF ~currentfileok \/ numfile + 1 = Len(cd)
    THEN err' = EOF_LIST /\ UNCHANGED <<numfile, currentfileok, faults>>
    ELSE /\ numfile' = numfile + 1
         /\ \E ok \in BOOLEAN :
               /\ InfoRead(numfile + 2, ok)
               /\ currentfileok' = ok /\ err' = IF ok THEN OK ELSE ERRNO

(* The end of a turn of ZipExtract: an entry that failed ends the loop with the
   result as it is. *)
NextEntry ==
    /\ zpc = "next"
    /\ IF entryerr # OK \/ i + 1 = Len(cd)
       THEN zpc' = "ret" /\ UNCHANGED <<i, numfile, currentfileok, err, faults>>
       ELSE zpc' = "info" /\ i' = i + 1 /\ GotoNext
    /\ UNCHANGED <<layout, centralpos, zip, cd, reading, entryerr, fout, disk, held>>

(* The steps inside ZipOpen and ZipExtract. *)
ZipStep ==
    \/ ZipOpenFound \/ ZipExtract \/ Info \/ AllocTmp \/ ZipOpenCurrentFile
    \/ OpenOut \/ ReadBegin \/ Refill \/ Copy \/ DataEnds \/ DataBad \/ ReadEnd
    \/ Flush \/ FlushLast \/ CloseEntry \/ NextEntry

-----------------------------------------------------------------------------
Sound(e) == e.record /\ e.header /\ e.packed = e.size /\ e.crc
WholeFile(k) ==
    IF cd[k].dir THEN disk[k].kind = "dir"
    ELSE disk[k] = [kind |-> "file", data |-> [u \in 1 .. cd[k].size |-> u]]
AllWhole == \A k \in DOMAIN cd : WholeFile(k)

(* The search for the end record finds the last mark within reach (the first
   place of the file is out of its reach). *)
LocatedLast ==
    zpc = "locate" =>
        LET R == {p \in layout.marks : layout.size - MaxBack <= p /\ p + 4 <= layout.size
                                       /\ p > 0}
        IN centralpos = IF R = {} THEN 0 ELSE CHOOSE p \in R : \A q \in R : q <= p

(* A sound archive on a system where nothing fails comes out whole, and
   ZipExtract says so: the two buffers lose, repeat or swap nothing for any
   sizes. *)
UnpackedWhole ==
    zpc = "ret" /\ ~faults /\ (\A k \in DOMAIN cd : Sound(cd[k])) => AllWhole /\ err = OK

(* The walk as its caller sees it. *)
Stage == CASE zpc \in {"off", "locate", "ready"} -> "off"
           [] zpc = "ret" -> "over"
           [] OTHER -> "busy"
GotOf(k) == IF Stage = "off" \/ disk[k].kind = "none" THEN "none"
            ELSE IF k \in DOMAIN cd /\ WholeFile(k) THEN "whole" ELSE "part"
U == INSTANCE Unpack WITH
        stage <- Stage,
        count <- IF Stage = "off" THEN 0 ELSE Len(cd),
        at <- IF Stage = "off" THEN 0 ELSE numfile + 1,
        got <- [k \in 1 .. MaxEntries |-> GotOf(k)],
        result <- IF Stage = "over" /\ err # OK THEN "error" ELSE "ok"

(* ZipExtract takes the entries in their order and never touches one again that
   it left, nor anything outside of the walk over them. *)
UnpackSpec == U!Spec

(* Archives.h:124 promises that ZipExtract tells success from an error. *)
SuccessIsWhole == zpc = "ret" /\ err = OK => AllWhole
=============================================================================
