------------------------------ MODULE Recovery ------------------------------
(***************************************************************************)
(* recoVery's menu (recoVery/src/menu/main.c): the menu thread runs        *)
(* commands that move a USB mass-storage share from one storage to         *)
(* another, while SceUsbstorVStorDriver's thread answers the host.  The    *)
(* two meet in plain globals: mpath, the buffer custom_mpath, g_rwl and    *)
(* the two flags of the eMMC gate (module SdifGate), without a lock.       *)
(*                                                                         *)
(* The driver is outside the repository; it is modelled from how main.c    *)
(* uses it: vstor_start lets the driver call custom_vstor_gpx when a host  *)
(* turns up, and vstor_stop ends the session after the handlers that are   *)
(* under way ("make sure all handlers are done", main.c:414).              *)
(***************************************************************************)
EXTENDS Integers

CONSTANTS
    CustomPaths  \* paths sd0:cmp.recovery may hold

NoPath == "no path"  \* the empty string of a cleared custom_mpath

ASSUME CustomAssumption == CustomPaths \subseteq STRING \ {NoPath, "custom_mpath"}

VARIABLES
    \* the menu thread
    pc,        \* where lookdog and do_work stand
    select,    \* highlighted menu entry
    rw,        \* do_work's second argument: 0 circle, 1 cross, 2 triangle
    mpath,     \* global: what it points to, "custom_mpath" for the buffer
    custom,    \* contents of custom_mpath
    grw,       \* global g_rwl: TRUE for SCE_O_RDWR
    bread,     \* g_allow_bread of the gate
    bwrite,    \* g_allow_bwrite of the gate
    raw,       \* work_emmc: "none", "flash" or "dump"
    mbrFile,   \* where the contents of sd0:mbr.recovery come from
    \* the driver's thread
    vs,        \* the share: "stopped", "up", "stopping"
    imgp,      \* image name given with vstor_setimgp
    drv,       \* where custom_vstor_gpx stands, "rest" outside it
    perm,      \* permission of the driver's thread: "own" or "0x40"
    fd,        \* the image file the driver has open
    live,      \* a host session uses fd
    hostop,    \* host write under way, or "none"
    \* history
    dirty,     \* unsynced host writes: "clean", "late" (since the command
               \* began), "early" (some older than the command)
    agreed,    \* when the command began the open image was mpath's
    armed,     \* the triangle grant was given and its session is not replaced
    restarted  \* the last command restarted the share

menuVars == <<pc, select, rw, mpath, custom, grw, bread, bwrite, raw, mbrFile>>
driverVars == <<vs, imgp, drv, perm, fd, live, hostop>>
history == <<dirty, agreed, armed, restarted>>
vars == <<menuVars, driverVars, history>>

GcSd   == "sdstor0:ext-lp-ign-entire"
Entire == "sdstor0:int-lp-act-entire"
NoFile == [path |-> NoPath, rw |-> FALSE, real |-> FALSE]

(* Where a host write starts and ends: "boot" starts in a guarded sector, "over"
   starts in the gap below the second guarded region and runs into it, "data"
   touches no guarded sector. *)
HostWrites == {"data", "over", "boot"}
MenuSize == 9  \* the ninth entry, ">Mount EMMC", is drawn only when selected

(* The path SWAP_MPATH is given by each command that mounts. *)
Target == [c \in {1, 2, 3, 4, 5, 9} |->
    CASE c = 1 -> GcSd
      [] c = 2 -> "sdstor0:int-lp-ign-user"
      [] c = 3 -> "sdstor0:int-lp-act-os"
      [] c = 4 -> "sdstor0:int-lp-ign-vsh"
      [] c = 5 -> "custom_mpath"
      [] c = 9 -> Entire]

Path == {Target[c] : c \in {1, 2, 3, 4, 9}} \cup CustomPaths

(* The string mpath denotes now. *)
Mounted == IF mpath = "custom_mpath" THEN custom ELSE mpath

(* Where the commands' calls of ksceIoSync and vstor_stop lead. *)
(* variant: command 6 does not stop the share *)
AfterSyncNoStop ==
    [swap_sync |-> "swap_stop", c_sync |-> "c_clear", x_sync |-> "ccmd",
     l_sync |-> "load", e_sync |-> "e_stop", f_sync |-> "f_stop"]
AfterSync ==
    [swap_sync |-> "swap_stop", c_sync |-> "c_clear", x_sync |-> "x_stop",
     l_sync |-> "load", e_sync |-> "e_stop", f_sync |-> "f_stop"]
AfterStop ==
    [swap_stop |-> "assign", x_stop |-> "ccmd", e_stop |-> "reset", f_stop |-> "dead"]

(* The switch of do_work, per command. *)
(* variant: command 5 leaves the sync to SWAP_MPATH *)
CaseOfLateSync ==
    [c \in 1 .. MenuSize |->
        CASE c \in 1 .. 4 -> "swap_sync" [] c = 5 -> "c_clear" [] c = 6 -> "x_sync"
          [] c = 7 -> "l_sync" [] c = 8 -> "e_sync" [] c = 9 -> "askread"]
CaseOf ==
    [c \in 1 .. MenuSize |->
        CASE c \in 1 .. 4 -> "swap_sync" [] c = 5 -> "c_sync" [] c = 6 -> "x_sync"
          [] c = 7 -> "l_sync" [] c = 8 -> "e_sync" [] c = 9 -> "askread"]

PC == {"idle", "mode", "unread", "unwrite", "askread", "askwrite", "assign", "setimg",
       "start", "c_clear", "c_read", "ccmd", "raw", "dumpmbr", "load", "reset", "dead", "off"}
      \cup DOMAIN AfterSync \cup DOMAIN AfterStop

TypeOK ==
    /\ pc \in PC /\ select \in 1 .. MenuSize /\ rw \in 0 .. 2
    /\ mpath \in Path \cup {"custom_mpath"}
    /\ custom \in CustomPaths \cup {NoPath}
    /\ imgp \in Path \cup {NoPath}
    /\ grw \in BOOLEAN /\ bread \in BOOLEAN /\ bwrite \in BOOLEAN
    /\ raw \in {"none", "flash", "dump"}
    /\ mbrFile \in {"none", "sector 0", "sector 1", "stack"}
    /\ vs \in {"stopped", "up", "stopping"}
    /\ drv \in {"rest", "open", "verify"} /\ perm \in {"own", "0x40"}
    /\ fd \in [path : Path, rw : BOOLEAN, real : BOOLEAN] \cup {NoFile}
    /\ live \in BOOLEAN /\ hostop \in HostWrites \cup {"none"}
    /\ dirty \in {"clean", "late", "early"}
    /\ agreed \in BOOLEAN /\ armed \in BOOLEAN /\ restarted \in BOOLEAN

(* module_start up to lookdog: the game-card slot's card is shared first. *)
Init ==
    /\ pc = "idle" /\ select = 1 /\ rw = 0
    /\ mpath = GcSd /\ custom = NoPath /\ imgp = GcSd
    /\ grw = TRUE /\ bread = FALSE /\ bwrite = FALSE
    /\ raw = "none" /\ mbrFile = "none"
    /\ vs = "up" /\ drv = "rest" /\ perm = "own"
    /\ fd = NoFile /\ live = FALSE /\ hostop = "none"
    /\ dirty = "clean" /\ agreed = TRUE /\ armed = FALSE /\ restarted = TRUE

-----------------------------------------------------------------------------
(* The menu thread: lookdog. *)

Above(s) == IF s - 1 < 1 THEN MenuSize - 1 ELSE s - 1
Below(s) == IF s + 1 > MenuSize THEN 1 ELSE s + 1

Move ==
    /\ pc = "idle"
    /\ select' \in {Above(select), Below(select)}
    /\ UNCHANGED <<pc, rw, mpath, custom, grw, bread, bwrite, raw, mbrFile,
                   driverVars, history>>

Command(r) ==
    /\ pc = "idle" /\ pc' = "mode" /\ rw' = r
    /\ dirty' = IF dirty = "late" THEN "early" ELSE dirty
    /\ agreed' = (fd = NoFile \/ fd.path = Mounted)
    /\ restarted' = FALSE
    /\ UNCHANGED <<select, mpath, custom, grw, bread, bwrite, raw, mbrFile,
                   driverVars, armed>>

(* do_work: the access mode is set and the gate closed before anything else. *)
SetMode ==
    /\ pc = "mode" /\ pc' = "unread"
    /\ grw' = (rw # 0)
    /\ UNCHANGED <<select, rw, mpath, custom, bread, bwrite, raw, mbrFile,
                   driverVars, history>>

DropRead ==
    /\ pc = "unread" /\ pc' = "unwrite"
    /\ bread' = FALSE
    /\ UNCHANGED <<select, rw, mpath, custom, grw, bwrite, raw, mbrFile,
                   driverVars, history>>

(* variant: the write flag is left as it was *)
DropWriteNot ==
    /\ pc = "unwrite" /\ pc' = CaseOf[select]
    /\ UNCHANGED <<select, rw, mpath, custom, grw, bread, bwrite, raw, mbrFile,
                   driverVars, history>>
DropWrite ==
    /\ pc = "unwrite" /\ pc' = CaseOf[select]
    /\ bwrite' = FALSE
    /\ UNCHANGED <<select, rw, mpath, custom, grw, bread, raw, mbrFile,
                   driverVars, history>>

(* Command 9 opens the gate, for writes too when called with triangle. *)
AskRead ==
    /\ pc = "askread"
    /\ pc' = IF rw = 2 THEN "askwrite" ELSE "swap_sync"
    /\ bread' = TRUE
    /\ UNCHANGED <<select, rw, mpath, custom, grw, bwrite, raw, mbrFile,
                   driverVars, history>>

AskWrite ==
    /\ pc = "askwrite" /\ pc' = "swap_sync"
    /\ bwrite' = TRUE /\ armed' = TRUE
    /\ UNCHANGED <<select, rw, mpath, custom, grw, bread, raw, mbrFile,
                   driverVars, dirty, agreed, restarted>>

(* ksceIoSync(mpath, 0): it works by name, whatever image is really open. *)
Sync ==
    /\ pc \in DOMAIN AfterSync /\ pc' = AfterSync[pc]
    /\ dirty' = IF fd.path = Mounted THEN "clean" ELSE dirty
    /\ UNCHANGED <<select, rw, mpath, custom, grw, bread, bwrite, raw, mbrFile,
                   driverVars, agreed, armed, restarted>>

(* vstor_stop: no new handler starts, then the session ends. *)
StopAsk ==
    /\ pc \in DOMAIN AfterStop /\ vs = "up"
    /\ vs' = "stopping"
    /\ UNCHANGED <<menuVars, imgp, drv, perm, fd, live, hostop, history>>

StopDone ==
    /\ pc \in DOMAIN AfterStop /\ pc' = AfterStop[pc]
    /\ vs # "up" /\ drv = "rest" /\ hostop = "none"
    /\ vs' = "stopped" /\ live' = FALSE /\ fd' = NoFile
    /\ dirty' = "clean"
    /\ armed' = (armed /\ select = 9 /\ rw = 2)
    /\ UNCHANGED <<select, rw, mpath, custom, grw, bread, bwrite, raw, mbrFile,
                   imgp, drv, perm, hostop, agreed, restarted>>

(* The rest of SWAP_MPATH. *)
Assign ==
    /\ pc = "assign" /\ pc' = "setimg"
    /\ mpath' = Target[select]
    /\ UNCHANGED <<select, rw, custom, grw, bread, bwrite, raw, mbrFile,
                   driverVars, history>>

(* variant: the driver is not told *)
SetImgNot ==
    /\ pc = "setimg" /\ pc' = "start"
    /\ UNCHANGED <<select, rw, mpath, custom, grw, bread, bwrite, raw, mbrFile,
                   driverVars, history>>
SetImg ==
    /\ pc = "setimg" /\ pc' = "start"
    /\ imgp' = Mounted
    /\ UNCHANGED <<select, rw, mpath, custom, grw, bread, bwrite, raw, mbrFile,
                   vs, drv, perm, fd, live, hostop, history>>

Start ==
    /\ pc = "start" /\ pc' = "idle"
    /\ vs' = "up" /\ restarted' = TRUE
    /\ UNCHANGED <<select, rw, mpath, custom, grw, bread, bwrite, raw, mbrFile,
                   imgp, drv, perm, fd, live, hostop, dirty, agreed, armed>>

(* read_custom: the buffer is cleared first, then the file is looked for. *)
ClearCustom ==
    /\ pc = "c_clear" /\ pc' = "c_read"
    /\ custom' = NoPath
    /\ UNCHANGED <<select, rw, mpath, grw, bread, bwrite, raw, mbrFile,
                   driverVars, history>>

ReadCustom ==
    /\ pc = "c_read"
    /\ \/ pc' = "idle" /\ UNCHANGED custom           \* no sd0:cmp.recovery
       \/ pc' = "swap_sync" /\ custom' \in CustomPaths \cup {NoPath}
    /\ UNCHANGED <<select, rw, mpath, grw, bread, bwrite, raw, mbrFile,
                   driverVars, history>>

(* handle_ccmd: no command file, a mount or unmount, or arguments that are
   not digits lead back at once; F and D run work_emmc, the rest dump_mbr. *)
(* variant: without a command file the share is not started again *)
UserCommandLost ==
    /\ pc = "ccmd"
    /\ \/ pc' \in {"idle", "dumpmbr"} /\ UNCHANGED raw
       \/ pc' = "raw" /\ raw' \in {"flash", "dump"}
    /\ UNCHANGED <<select, rw, mpath, custom, grw, bread, bwrite, mbrFile,
                   driverVars, history>>
UserCommand ==
    /\ pc = "ccmd"
    /\ \/ pc' \in {"start", "dumpmbr"} /\ UNCHANGED raw
       \/ pc' = "raw" /\ raw' \in {"flash", "dump"}
    /\ UNCHANGED <<select, rw, mpath, custom, grw, bread, bwrite, mbrFile,
                   driverVars, history>>

RawDone ==
    /\ pc = "raw" /\ pc' = "start"
    /\ raw' = "none"
    /\ UNCHANGED <<select, rw, mpath, custom, grw, bread, bwrite, mbrFile,
                   driverVars, history>>

(* dump_mbr reads sector 0 through the gate; a failing read goes unnoticed and
   leaves the file with what was on the stack, a failing write leaves it empty,
   a failing open as it was. *)
DumpMbr ==
    /\ pc = "dumpmbr" /\ pc' = "start"
    /\ mbrFile' \in {IF bread THEN "sector 0" ELSE "sector 1", "stack", "none", mbrFile}
    /\ UNCHANGED <<select, rw, mpath, custom, grw, bread, bwrite, raw,
                   driverVars, history>>

(* Command 7 leaves the share as it is. *)
LoadSupply ==
    /\ pc = "load" /\ pc' = "idle"
    /\ UNCHANGED <<select, rw, mpath, custom, grw, bread, bwrite, raw, mbrFile,
                   driverVars, history>>

(* Command 8: the reset is asked for, and the thread goes on until it comes. *)
Reset ==
    /\ pc = "reset" /\ pc' = "f_sync"
    /\ UNCHANGED <<select, rw, mpath, custom, grw, bread, bwrite, raw, mbrFile,
                   driverVars, history>>

PowerOff ==
    /\ pc \in {"f_sync", "f_stop", "dead"} /\ pc' = "off"
    /\ UNCHANGED <<select, rw, mpath, custom, grw, bread, bwrite, raw, mbrFile,
                   driverVars, history>>

Menu ==
    \/ SetMode \/ DropRead \/ DropWrite \/ AskRead \/ AskWrite
    \/ Sync \/ StopAsk \/ StopDone \/ Assign \/ SetImg \/ Start
    \/ ClearCustom \/ ReadCustom \/ UserCommand \/ RawDone \/ DumpMbr
    \/ LoadSupply \/ Reset

-----------------------------------------------------------------------------
(* The driver's thread: custom_vstor_gpx. *)

(* The original handler answered 2, "no image yet". *)
GpxCall ==
    /\ vs = "up" /\ drv = "rest" /\ ~live
    /\ drv' = "open" /\ perm' = "0x40"
    /\ UNCHANGED <<menuVars, vs, imgp, fd, live, hostop, history>>

(* The image is opened under the globals of the moment. *)
GpxOpen ==
    /\ drv = "open"
    /\ \/ /\ Mounted # NoPath
          /\ fd' = [path |-> Mounted, rw |-> grw, real |-> FALSE]
          /\ drv' = "verify" /\ UNCHANGED perm
       \/ drv' = "rest" /\ perm' = "own" /\ UNCHANGED fd
    /\ UNCHANGED <<menuVars, vs, imgp, live, hostop, history>>

(* The first sector names the device's size; on the whole eMMC the gate
   decides which sector that is. *)
GpxServe ==
    /\ drv = "verify" /\ drv' = "rest"
    /\ fd' = [fd EXCEPT !.real = bread]
    /\ perm' = "own" /\ live' = TRUE
    /\ UNCHANGED <<menuVars, vs, imgp, hostop, history>>

(* variant: the error path keeps the raised permission *)
GpxDieRaised ==
    /\ drv = "verify" /\ drv' = "rest"
    /\ fd' = NoFile
    /\ UNCHANGED <<menuVars, vs, imgp, perm, live, hostop, history>>
(* "ded": no boot signature, or the image cannot be positioned. *)
GpxDie ==
    /\ drv = "verify" /\ drv' = "rest"
    /\ fd' = NoFile /\ perm' = "own"
    /\ UNCHANGED <<menuVars, vs, imgp, live, hostop, history>>

(* A host write that is let through: the hook looks at the first sector of the
   transfer only, and at the flag when it comes in.  Guarded sectors are within
   reach of a session of the whole eMMC. *)
HostWrite(k) ==
    /\ live /\ vs = "up" /\ hostop = "none" /\ fd.rw
    /\ k # "data" => fd.path = Entire
    /\ k = "boot" => bwrite
    /\ hostop' = k
    /\ UNCHANGED <<menuVars, vs, imgp, drv, perm, fd, live, history>>

HostDone ==
    /\ hostop # "none" /\ hostop' = "none"
    /\ dirty' = IF dirty = "early" THEN "early" ELSE "late"
    /\ UNCHANGED <<menuVars, vs, imgp, drv, perm, fd, live, agreed, armed, restarted>>

(* The cable is pulled; the driver drops the session. *)
Detach ==
    /\ live /\ vs = "up" /\ hostop = "none"
    /\ live' = FALSE /\ fd' = NoFile /\ dirty' = "clean"
    /\ UNCHANGED <<menuVars, vs, imgp, drv, perm, hostop, agreed, armed, restarted>>

Handlers == GpxOpen \/ GpxServe \/ GpxDie \/ HostDone

Next ==
    \/ Move \/ (\E r \in 0 .. 2 : Command(r)) \/ Menu \/ PowerOff
    \/ GpxCall \/ Handlers \/ Detach \/ \E k \in HostWrites : HostWrite(k)

(* The menu thread never sleeps for good inside a command and the driver's
   handlers finish: vstor_stop relies on it. *)
Spec == Init /\ [][Next]_vars /\ WF_vars(Menu) /\ WF_vars(Handlers)

-----------------------------------------------------------------------------
(* Between commands the driver has been told the path mpath denotes and any
   open image is that path's, as long as custom_mpath has not been cleared
   under it (see MountedPathCurrent).  *)
MountedPath ==
    (pc = "idle" /\ Mounted # NoPath) =>
       imgp = Mounted /\ (fd # NoFile => fd.path = Mounted)

(* main.c:38 says of mpath "currently mounted path".  When a custom path is
   mounted and command 5 does not find its file again, read_custom has already
   cleared the buffer mpath points to while the old session goes on.  *)
MountedPathCurrent == (pc = "idle" /\ live) => fd.path = Mounted

(* A session that the last command brought up has the access mode the screen
   shows, and on the whole eMMC took its size from the sector 0 the host will
   read, although both were set while the previous session was being served. *)
ControlsMatch ==
    (pc = "idle" /\ live /\ restarted) =>
       fd.rw = grw /\ (fd.path = Entire => fd.real = bread)

(* The session is of the storage and in the mode that the screen shows.  *)
SessionMatches == MountedPath /\ ControlsMatch

(* A host write that starts in a guarded sector is under way only under the
   grant given with triangle on the hidden entry, by that command's session or
   by the one it is replacing.  One that runs over into the second guarded
   region needs no grant (SdifGate, BootSectorsNeedAsking), but like the former
   a session of the whole eMMC open for writing, for as long as it lasts.
   While user commands work on the raw eMMC no grant is up, and nothing is
   being written for the host. *)
BootWriteArmed ==
    /\ hostop = "boot" => armed
    /\ hostop \in {"boot", "over"} => fd.path = Entire /\ fd.rw
    /\ pc \in {"ccmd", "raw", "dumpmbr"} => ~bwrite /\ ~armed /\ hostop = "none"

(* A session whose image was mpath's when a command began is not ended with
   host writes from before the command unsynced, also when the command reads
   the custom path into the buffer mpath points to.  *)
SyncBeforeStop ==
    [][(vs = "stopping" /\ vs' = "stopped" /\ agreed) => dirty # "early"]_vars

(* Outside custom_vstor_gpx the driver's thread has its own permission level
   again and no image is open that no session uses.  *)
DriverRestored == drv = "rest" => perm = "own" /\ (~live => fd = NoFile)

(* Whatever a command did, and wherever it returned early, the share is up
   again when the menu waits for a key.  *)
ShareBack == pc = "idle" => vs = "up"

(* When the closing sync and stop of module_start run nothing of the host is
   left: "make sure that there are no remaining ops" (main.c:413).  *)
NoRemainingOps == pc \in {"f_sync", "f_stop", "dead"} =>
    vs = "stopped" /\ hostop = "none" /\ drv = "rest" /\ fd = NoFile

(* The entry that opens the gate is reached by stepping down past the last
   visible one only, never by the wrap upwards.  *)
HiddenEntry == [][(select # 9 /\ select' = 9) => select = 8]_vars

(* Every command returns to the menu with the share up again, wherever it was
   left early, or ends in the reset.  *)
CommandReturns == pc = "mode" ~> (pc = "idle" /\ vs = "up") \/ pc \in {"dead", "off"}

(* main.c:183 calls dump_mbr "dump the emmc MBR".  do_work has closed the gate
   before, so the read of sector 0 yields sector 1.  *)
MbrDumpIsMbr == mbrFile # "sector 1"

Holder == IF raw # "none" THEN "menu" ELSE IF fd # NoFile THEN "host" ELSE "free"
Lock == INSTANCE MediumLock WITH holder <- Holder

(* The storage is never in the hands of the host and of the raw copier at a
   time, nor handed from one to the other without having been let go.  *)
MediumExclusive == Lock!Spec
=============================================================================
