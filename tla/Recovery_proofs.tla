-------------------------- MODULE Recovery_proofs --------------------------
(***************************************************************************)
(* What recoVery's menu and the driver's thread keep between them, for     *)
(* every set of custom paths.                                              *)
(***************************************************************************)
EXTENDS Recovery, TLAPS

UpAt      == {"idle", "mode", "unread", "unwrite", "askread", "askwrite", "swap_sync",
              "c_sync", "c_clear", "c_read", "x_sync", "l_sync", "load", "e_sync"}
StopAt    == {"swap_stop", "x_stop", "e_stop"}
StoppedAt == {"assign", "setimg", "start", "ccmd", "raw", "dumpmbr", "reset", "f_sync",
              "f_stop", "dead", "off"}

(* The share's state by the menu's position, and the selected entry by the
   branch of do_work the menu is in. *)
Shape ==
    /\ pc \in UpAt => vs = "up"
    /\ pc \in StopAt => vs \in {"up", "stopping"}
    /\ pc \in StoppedAt => vs = "stopped"
    /\ pc \in {"x_sync", "x_stop", "ccmd", "raw", "dumpmbr"} => select = 6
    /\ pc \in {"c_sync", "c_clear", "c_read"} => select = 5
    /\ pc \in {"l_sync", "load"} => select = 7
    /\ pc \in {"askread", "askwrite"} => select = 9
    /\ pc = "askwrite" => rw = 2
    /\ pc \in {"swap_sync", "swap_stop", "assign"} => select \in DOMAIN Target
    /\ raw # "none" <=> pc = "raw"

(* The driver's thread by its own position and the share's state. *)
Driver ==
    /\ vs = "stopped" => drv = "rest" /\ hostop = "none" /\ ~live /\ fd = NoFile
    /\ DriverRestored
    /\ drv # "rest" => ~live
    /\ drv = "open" => fd = NoFile
    /\ drv = "verify" => fd # NoFile
    /\ live => fd # NoFile
    /\ hostop # "none" => live
    /\ hostop \in {"boot", "over"} => fd.path = Entire /\ fd.rw

(* Where the write flag of the gate can be up. *)
Grants ==
    /\ bwrite => armed
    /\ pc \notin {"idle", "mode", "unread", "unwrite"} /\ bwrite => select = 9 /\ rw = 2
    /\ hostop = "boot" => armed
    /\ pc \in {"ccmd", "raw", "dumpmbr"} => ~bwrite /\ ~armed /\ hostop = "none"

(* The path the menu shows, the path the driver was told and the open image,
   outside the moments where SWAP_MPATH changes them. *)
Paths ==
    /\ (pc \notin {"swap_sync", "swap_stop", "assign", "setimg"} /\ Mounted # NoPath) =>
         imgp = Mounted /\ (fd # NoFile => fd.path = Mounted)
    /\ restarted => pc = "idle"
    /\ (pc = "idle" /\ restarted /\ fd # NoFile) => fd.rw = grw
    /\ (pc = "idle" /\ restarted /\ live /\ fd.path = Entire) => fd.real = bread

(* What is unsynced, until the sync of the command and from there on. *)
Syncs ==
    /\ dirty # "clean" => live
    /\ (agreed /\ pc \in {"mode", "unread", "unwrite", "askread", "askwrite", "swap_sync",
                          "c_sync", "x_sync", "l_sync", "e_sync"}) =>
         fd = NoFile \/ fd.path = Mounted \/ dirty # "early"
    /\ (agreed /\ pc \in {"swap_stop", "x_stop", "e_stop", "c_clear", "c_read"}) =>
         dirty # "early"

(* TypeOK, in parts small enough for the provers. *)
Flags ==
    /\ grw \in BOOLEAN /\ bread \in BOOLEAN /\ bwrite \in BOOLEAN /\ live \in BOOLEAN
    /\ agreed \in BOOLEAN /\ armed \in BOOLEAN /\ restarted \in BOOLEAN
Positions == UpAt \cup StopAt \cup StoppedAt
File == [path : Path, rw : BOOLEAN, real : BOOLEAN]
Names ==
    /\ select \in 1 .. 9 /\ rw \in 0 .. 2
    /\ mpath \in Path \cup {"custom_mpath"}
    /\ custom \in CustomPaths \cup {NoPath}
    /\ imgp \in Path \cup {NoPath}
Marks ==
    /\ raw \in {"none", "flash", "dump"}
    /\ mbrFile \in {"none", "sector 0", "sector 1", "stack"}
    /\ vs \in {"stopped", "up", "stopping"}
    /\ drv \in {"rest", "open", "verify"} /\ perm \in {"own", "0x40"}
    /\ hostop \in HostWrites \cup {"none"}
    /\ dirty \in {"clean", "late", "early"}
Opened == fd \in File \cup {NoFile}
Types == pc \in Positions /\ Names /\ Marks /\ Opened /\ Flags

(* The inductive invariant. *)
IInv == Types /\ Shape /\ Driver /\ Grants /\ Paths /\ Syncs

-----------------------------------------------------------------------------
(* Every path a command can mount is a real path, except command 5's buffer. *)
LEMMA PathFacts ==
    /\ GcSd \in Path /\ Entire \in Path
    /\ \A c \in {1, 2, 3, 4, 9} : Target[c] \in Path
    /\ Target[5] = "custom_mpath"
    /\ CustomPaths \subseteq Path
    /\ \A p \in Path : p # NoPath /\ p # "custom_mpath"
<1>1. \A c \in {1, 2, 3, 4, 9} : Target[c] \in Path BY DEF Path
<1>2. /\ Target[1] = GcSd /\ Target[9] = Entire /\ Target[5] = "custom_mpath"
      /\ Target[2] = "sdstor0:int-lp-ign-user" /\ Target[3] = "sdstor0:int-lp-act-os"
      /\ Target[4] = "sdstor0:int-lp-ign-vsh"
  BY DEF Target
<1>3. \A p \in CustomPaths : p # NoPath /\ p # "custom_mpath" BY CustomAssumption
<1>4. \A c \in {1, 2, 3, 4, 9} : Target[c] # NoPath /\ Target[c] # "custom_mpath"
  BY <1>2 DEF GcSd, Entire, NoPath
<1>5. \A p \in Path : p # NoPath /\ p # "custom_mpath" BY <1>3, <1>4 DEF Path
<1>6. GcSd \in Path /\ Entire \in Path BY <1>1, <1>2
<1> QED BY <1>1, <1>2, <1>5, <1>6 DEF Path

(* The parts together are the type invariant. *)
LEMMA TypeParts == TypeOK <=> Types
<1>1. Positions = PC
  BY DEF Positions, PC, UpAt, StopAt, StoppedAt, AfterSync, AfterStop
<1> QED BY <1>1 DEF TypeOK, Types, Names, Marks, Opened, Flags, File, MenuSize

(* What mpath denotes is a path, or nothing after read_custom's memset. *)
LEMMA MountedFacts == Names => Mounted \in Path \cup {NoPath}
BY PathFacts DEF Names, Mounted

(* The branches as facts about single positions. *)
LEMMA SyncFacts ==
    ASSUME Sync
    PROVE  \/ pc = "swap_sync" /\ pc' = "swap_stop"
           \/ pc = "c_sync" /\ pc' = "c_clear"
           \/ pc = "x_sync" /\ pc' = "x_stop"
           \/ pc = "l_sync" /\ pc' = "load"
           \/ pc = "e_sync" /\ pc' = "e_stop"
           \/ pc = "f_sync" /\ pc' = "f_stop"
BY DEF Sync, AfterSync

(* Where the menu can be while it stops the share. *)
LEMMA StopFacts ==
    /\ StopAsk => pc \in {"swap_stop", "x_stop", "e_stop", "f_stop"}
    /\ StopDone => \/ pc = "swap_stop" /\ pc' = "assign"
                   \/ pc = "x_stop" /\ pc' = "ccmd"
                   \/ pc = "e_stop" /\ pc' = "reset"
                   \/ pc = "f_stop" /\ pc' = "dead"
BY DEF StopAsk, StopDone, AfterStop

(* The switch of do_work. *)
LEMMA CaseFacts ==
    ASSUME Names, DropWrite
    PROVE  \/ select \in 1 .. 4 /\ pc' = "swap_sync"
           \/ select = 5 /\ pc' = "c_sync"
           \/ select = 6 /\ pc' = "x_sync"
           \/ select = 7 /\ pc' = "l_sync"
           \/ select = 8 /\ pc' = "e_sync"
           \/ select = 9 /\ pc' = "askread"
<1>1. select \in 1 .. 9 /\ pc' = CaseOf[select] BY DEF Names, DropWrite
<1> QED BY <1>1 DEF CaseOf, MenuSize

(* dump_mbr changes its file only. *)
LEMMA DumpFacts ==
    ASSUME DumpMbr
    PROVE  /\ pc = "dumpmbr" /\ pc' = "start"
           /\ UNCHANGED <<select, rw, mpath, custom, grw, bread, bwrite, raw, driverVars, history>>
BY DEF DumpMbr

(* module_start establishes the invariant. *)
LEMMA InitOK == Init => IInv
<1> SUFFICES ASSUME Init PROVE IInv OBVIOUS
<1>0. Flags /\ pc \in Positions BY Zenon DEF Init, Flags, Positions, UpAt
<1>1. Names /\ Marks /\ Opened
  <2>1. select \in 1 .. 9 /\ rw \in 0 .. 2 BY DEF Init
  <2>2. mpath \in Path /\ imgp \in Path /\ custom = NoPath BY PathFacts DEF Init
  <2>3. /\ raw = "none" /\ mbrFile = "none" /\ vs = "up" /\ drv = "rest"
        /\ perm = "own" /\ hostop = "none" /\ dirty = "clean"
    BY DEF Init
  <2>4. fd = NoFile BY DEF Init
  <2> QED BY <2>1, <2>2, <2>3, <2>4 DEF Names, Marks, Opened
<1>2. Shape BY DEF Init, Shape, UpAt, StopAt, StoppedAt
<1>3. Driver /\ Grants /\ Syncs
  BY DEF Init, Driver, DriverRestored, Grants, Syncs
<1>4. Paths BY DEF Init, Paths, Mounted, GcSd
<1> QED BY <1>0, <1>1, <1>2, <1>3, <1>4 DEF IInv, Types


-----------------------------------------------------------------------------
(* Types. *)

(* The menu entry, the paths and the command's mode keep their types. *)
LEMMA NamesNext == ASSUME Types, Shape, [Next]_vars PROVE Names'
<1>1. ASSUME SetMode \/ DropRead \/ DropWrite \/ AskRead \/ AskWrite \/ Sync \/
             StopAsk \/ StopDone \/ Start \/ UserCommand \/ RawDone \/ DumpMbr \/
             LoadSupply \/ Reset \/ PowerOff \/ GpxCall \/ GpxOpen \/ GpxServe \/
             GpxDie \/ HostDone \/ Detach \/
             (\E k \in HostWrites : HostWrite(k)) \/ UNCHANGED vars
      PROVE  UNCHANGED <<select, rw, mpath, custom, imgp>>
  BY <1>1 DEF
     SetMode, DropRead, DropWrite, AskRead, AskWrite, Sync, StopAsk, StopDone, Start,
     UserCommand, RawDone, DumpMbr, LoadSupply, Reset, PowerOff, GpxCall, GpxOpen,
     GpxServe, GpxDie, HostDone, Detach, HostWrite, vars, menuVars, driverVars, history
<1>2. ASSUME Names, Move PROVE Names'
  BY <1>2 DEF Move, Above, Below, MenuSize, driverVars, Names
<1>3. ASSUME Names, NEW r \in 0 .. 2, Command(r) PROVE Names'
  BY <1>3 DEF Command, driverVars, Names
<1>4. ASSUME Names, Shape, Assign PROVE Names'
  <2>1. select \in DOMAIN Target BY <1>4 DEF Assign, Shape
  <2>2. Target[select] \in Path \cup {"custom_mpath"} BY <2>1, PathFacts DEF Target
  <2> QED BY <1>4, <2>2 DEF Assign, driverVars, Names
<1>5. ASSUME Names, SetImg PROVE Names'
  BY <1>5, MountedFacts DEF SetImg, Names
<1>6. ASSUME Names, ClearCustom \/ ReadCustom PROVE Names'
  BY <1>6 DEF ClearCustom, ReadCustom, driverVars, Names
<1>7. Names BY DEF Types
<1>8. CASE UNCHANGED <<select, rw, mpath, custom, imgp>> BY <1>7, <1>8 DEF Names
<1> QED BY <1>1, <1>2, <1>3, <1>4, <1>5, <1>6, <1>7, <1>8 DEF Next, Menu, Handlers

(* The enumerated positions and marks keep their types. *)
LEMMA MarksNext == ASSUME Types, [Next]_vars PROVE Marks'
<1>1. ASSUME Marks, Sync \/ StopAsk \/ StopDone \/ Start \/ UserCommand \/ RawDone \/ DumpMbr
      PROVE  Marks'
  BY <1>1 DEF Sync, StopAsk, StopDone, Start, UserCommand, RawDone, DumpMbr,
     menuVars, driverVars, history, Marks
<1>2. ASSUME Marks, GpxCall \/ GpxOpen \/ GpxServe \/ GpxDie \/ HostDone \/ Detach
      PROVE  Marks'
  BY <1>2 DEF GpxCall, GpxOpen, GpxServe, GpxDie, HostDone, Detach,
     menuVars, driverVars, history, Marks
<1>3. ASSUME Marks, NEW r \in 0 .. 2, Command(r) PROVE Marks'
  BY <1>3 DEF Command, driverVars, Marks
<1>4. ASSUME Marks, NEW k \in HostWrites, HostWrite(k) PROVE Marks'
  BY <1>4 DEF HostWrite, menuVars, history, Marks
<1>5. ASSUME Move \/ SetMode \/ DropRead \/ DropWrite \/ AskRead \/ AskWrite \/
             Assign \/ SetImg \/ ClearCustom \/ ReadCustom \/ LoadSupply \/ Reset \/
             PowerOff \/ UNCHANGED vars
      PROVE  UNCHANGED <<raw, mbrFile, vs, drv, perm, hostop, dirty>>
  BY <1>5 DEF
     Move, SetMode, DropRead, DropWrite, AskRead, AskWrite, Assign, SetImg,
     ClearCustom, ReadCustom, LoadSupply, Reset, PowerOff, vars, menuVars, driverVars,
     history
<1>6. Marks BY DEF Types
<1>7. CASE UNCHANGED <<raw, mbrFile, vs, drv, perm, hostop, dirty>> BY <1>6, <1>7 DEF Marks
<1> QED BY <1>1, <1>2, <1>3, <1>4, <1>5, <1>6, <1>7 DEF Next, Menu, Handlers

(* What the driver has open keeps its type. *)
LEMMA OpenedNext == ASSUME Types, Driver, [Next]_vars PROVE Opened'
<1>1. ASSUME Move \/ SetMode \/ DropRead \/ DropWrite \/ AskRead \/ AskWrite \/ Sync \/
             StopAsk \/ Assign \/ SetImg \/ Start \/ ClearCustom \/ ReadCustom \/
             UserCommand \/ RawDone \/ DumpMbr \/ LoadSupply \/ Reset \/ PowerOff \/
             GpxCall \/ HostDone \/ (\E r \in 0 .. 2 : Command(r)) \/
             (\E k \in HostWrites : HostWrite(k)) \/ UNCHANGED vars
      PROVE  UNCHANGED <<fd>>
  BY <1>1 DEF
     Move, SetMode, DropRead, DropWrite, AskRead, AskWrite, Sync, StopAsk, Assign,
     SetImg, Start, ClearCustom, ReadCustom, UserCommand, RawDone, DumpMbr, LoadSupply,
     Reset, PowerOff, GpxCall, HostDone, Command, HostWrite, vars, menuVars,
     driverVars, history
<1>2. ASSUME StopDone \/ GpxDie \/ Detach PROVE fd' = NoFile
  BY <1>2 DEF StopDone, GpxDie, Detach
<1>3. ASSUME Names, Flags, Opened, GpxOpen PROVE Opened'
  <2>1. ASSUME Mounted # NoPath PROVE [path |-> Mounted, rw |-> grw, real |-> FALSE] \in File
    BY <1>3, <2>1, MountedFacts DEF File, Flags
  <2> QED BY <1>3, <2>1 DEF GpxOpen, Opened
<1>4. ASSUME Flags, Opened, Driver, GpxServe PROVE Opened'
  <2>1. fd' = [fd EXCEPT !.real = bread] BY <1>4 DEF GpxServe
  <2>2. fd \in File BY <1>4 DEF GpxServe, Driver, Opened
  <2> QED BY <1>4, <2>1, <2>2 DEF File, Flags, Opened
<1>5. Names /\ Flags /\ Opened BY DEF Types
<1> QED BY <1>1, <1>2, <1>3, <1>4, <1>5 DEF Opened, Next, Menu, Handlers

(* The Boolean flags stay Boolean. *)
LEMMA FlagsNext == ASSUME Types, [Next]_vars PROVE Flags'
<1>1. ASSUME Move \/ Sync \/ StopAsk \/ Assign \/ SetImg \/ ClearCustom \/
             ReadCustom \/ UserCommand \/ RawDone \/ DumpMbr \/ LoadSupply \/ Reset \/
             PowerOff \/ GpxCall \/ GpxOpen \/ GpxDie \/ HostDone \/
             (\E k \in HostWrites : HostWrite(k)) \/ UNCHANGED vars
      PROVE  UNCHANGED <<grw, bread, bwrite, live, agreed, armed, restarted>>
  BY <1>1 DEF
     Move, Sync, StopAsk, Assign, SetImg, ClearCustom, ReadCustom, UserCommand,
     RawDone, DumpMbr, LoadSupply, Reset, PowerOff, GpxCall, GpxOpen, GpxDie, HostDone,
     HostWrite, vars, menuVars, driverVars, history
<1>2. ASSUME Flags, NEW r \in 0 .. 2, Command(r) PROVE Flags'
  BY <1>2, Zenon DEF Command, driverVars, Flags
<1>3. ASSUME Flags, SetMode PROVE Flags'
  BY <1>3, Zenon DEF SetMode, driverVars, history, Flags
<1>4. ASSUME Flags, DropRead \/ DropWrite \/ AskRead PROVE Flags'
  BY <1>4, Zenon DEF DropRead, DropWrite, AskRead, driverVars, history, Flags
<1>5. ASSUME Flags, AskWrite PROVE Flags'
  BY <1>5, Zenon DEF AskWrite, driverVars, Flags
<1>6. ASSUME Flags, StopDone PROVE Flags'
  BY <1>6, Zenon DEF StopDone, Flags
<1>7. ASSUME Flags, Start PROVE Flags'
  BY <1>7, Zenon DEF Start, Flags
<1>8. ASSUME Flags, GpxServe \/ Detach PROVE Flags'
  BY <1>8, Zenon DEF GpxServe, Detach, menuVars, history, Flags
<1>9. Flags BY DEF Types
<1>10. CASE UNCHANGED <<grw, bread, bwrite, live, agreed, armed, restarted>>
  BY <1>9, <1>10, Zenon DEF Flags
<1> QED
  BY <1>1, <1>2, <1>3, <1>4, <1>5, <1>6, <1>7, <1>8, <1>9, <1>10 DEF Next, Menu, Handlers

(* The menu stays at a place of lookdog, do_work or module_start. *)
LEMMA PositionsNext == ASSUME Types, [Next]_vars PROVE pc' \in Positions
<1> USE DEF Positions, UpAt, StopAt, StoppedAt
<1>1. ASSUME Move \/ StopAsk \/ GpxCall \/ GpxOpen \/ GpxServe \/ GpxDie \/ HostDone \/
             Detach \/ (\E k \in HostWrites : HostWrite(k)) \/ UNCHANGED vars
      PROVE  UNCHANGED <<pc>>
  BY <1>1 DEF
     Move, StopAsk, GpxCall, GpxOpen, GpxServe, GpxDie, HostDone, Detach, HostWrite,
     vars, menuVars, driverVars, history
<1>2. ASSUME NEW r \in 0 .. 2, Command(r) PROVE pc' \in Positions
  BY <1>2 DEF Command
<1>3. ASSUME Names, DropWrite PROVE pc' \in Positions
  BY <1>3, CaseFacts
<1>4. ASSUME Sync PROVE pc' \in Positions
  BY <1>4, SyncFacts
<1>5. ASSUME StopDone PROVE pc' \in Positions
  BY <1>5, StopFacts
<1>6. ASSUME SetMode \/ DropRead \/ AskRead \/ AskWrite \/ Assign \/ SetImg \/ Start
      PROVE  pc' \in Positions
  BY <1>6 DEF SetMode, DropRead, AskRead, AskWrite, Assign, SetImg, Start
<1>7. ASSUME ClearCustom \/ ReadCustom \/ UserCommand \/ RawDone \/ DumpMbr \/ LoadSupply
             \/ Reset \/ PowerOff
      PROVE  pc' \in Positions
  BY <1>7 DEF ClearCustom, ReadCustom, UserCommand, RawDone, DumpMbr, LoadSupply, Reset, PowerOff
<1>8. pc \in Positions /\ Names BY DEF Types
<1> HIDE DEF Positions
<1> QED BY <1>1, <1>2, <1>3, <1>4, <1>5, <1>6, <1>7, <1>8 DEF Next, Menu, Handlers

(* All types together. *)
LEMMA TypesNext == ASSUME Types, Shape, Driver, [Next]_vars PROVE Types'
BY NamesNext, MarksNext, OpenedNext, FlagsNext, PositionsNext DEF Types

-----------------------------------------------------------------------------
(* The menu's position. *)

(* Shape is kept by every step. *)
LEMMA ShapeNext == ASSUME Types, Shape, [Next]_vars PROVE Shape'
<1> USE DEF UpAt, StopAt, StoppedAt
<1>1. ASSUME GpxCall \/ GpxOpen \/ GpxServe \/ GpxDie \/ HostDone \/ Detach \/
             (\E k \in HostWrites : HostWrite(k)) \/ UNCHANGED vars
      PROVE  UNCHANGED <<pc, vs, select, rw, raw>>
  BY <1>1 DEF
     GpxCall, GpxOpen, GpxServe, GpxDie, HostDone, Detach, HostWrite, vars, menuVars,
     driverVars, history
<1>2. ASSUME Shape, Move PROVE Shape'
  BY <1>2 DEF Move, driverVars, Shape
<1>3. ASSUME Shape, NEW r \in 0 .. 2, Command(r) PROVE Shape'
  BY <1>3 DEF Command, driverVars, Shape
<1>4. ASSUME Shape, SetMode \/ DropRead \/ AskRead \/ AskWrite PROVE Shape'
  BY <1>4 DEF SetMode, DropRead, AskRead, AskWrite, driverVars, Shape, Target
<1>5. ASSUME Names, Shape, DropWrite PROVE Shape'
  <2>1. vs' = vs /\ select' = select /\ raw' = raw /\ pc = "unwrite"
    BY <1>5 DEF DropWrite, driverVars
  <2> QED BY <1>5, <2>1, CaseFacts DEF Shape, Target
<1>6. ASSUME Shape, Sync PROVE Shape'
  <2>1. vs' = vs /\ select' = select /\ raw' = raw
    BY <1>6 DEF Sync, driverVars
  <2> QED BY <1>6, <2>1, SyncFacts DEF Shape
<1>7. ASSUME Shape, StopAsk PROVE Shape'
  <2>1. vs = "up" /\ vs' = "stopping" /\ UNCHANGED <<pc, select, rw, raw>>
    BY <1>7 DEF StopAsk, menuVars
  <2> QED BY <1>7, <2>1, StopFacts DEF Shape
<1>8. ASSUME Shape, StopDone PROVE Shape'
  <2>1. vs' = "stopped" /\ UNCHANGED <<select, rw, raw>>
    BY <1>8 DEF StopDone
  <2> QED BY <1>8, <2>1, StopFacts DEF Shape
<1>9. ASSUME Shape, Assign \/ SetImg \/ Start PROVE Shape'
  BY <1>9 DEF Assign, SetImg, Start, driverVars, Shape
<1>10. ASSUME Shape, ClearCustom \/ ReadCustom PROVE Shape'
  BY <1>10 DEF ClearCustom, ReadCustom, driverVars, Shape, Target
<1>11. ASSUME Shape, UserCommand \/ RawDone \/ DumpMbr PROVE Shape'
  BY <1>11 DEF UserCommand, RawDone, DumpMbr, driverVars, Shape
<1>12. ASSUME Shape, LoadSupply \/ Reset \/ PowerOff PROVE Shape'
  BY <1>12 DEF LoadSupply, Reset, PowerOff, driverVars, Shape
<1>13. Names BY DEF Types
<1>14. CASE UNCHANGED <<pc, vs, select, rw, raw>> BY <1>14 DEF Shape
<1> HIDE DEF UpAt, StopAt, StoppedAt
<1> QED
  BY <1>1, <1>2, <1>3, <1>4, <1>5, <1>6, <1>7, <1>8, <1>9, <1>10, <1>11, <1>12, <1>13, <1>14
     DEF Next, Menu, Handlers

-----------------------------------------------------------------------------
(* The driver's thread. *)

(* An open image differs from no image. *)
LEMMA FileFacts ==
    /\ \A f \in File : f # NoFile
    /\ NoFile.path = NoPath
<1>1. \A f \in File : f.path # NoPath BY PathFacts DEF File
<1>2. NoFile.path = NoPath BY DEF NoFile
<1> QED BY <1>1, <1>2

(* The two ways ksceIoOpen in custom_vstor_gpx can end. *)
LEMMA OpenFacts ==
    ASSUME Types, Driver, GpxOpen
    PROVE  \/ /\ drv' = "verify" /\ perm' = perm /\ Mounted # NoPath /\ Mounted \in Path
              /\ fd' # NoFile /\ fd'.path = Mounted /\ fd'.rw = grw
           \/ drv' = "rest" /\ perm' = "own" /\ fd' = fd /\ fd = NoFile
<1>1. ASSUME Mounted # NoPath, fd' = [path |-> Mounted, rw |-> grw, real |-> FALSE]
      PROVE  Mounted \in Path /\ fd' # NoFile /\ fd'.path = Mounted /\ fd'.rw = grw
  <2>1. Mounted \in Path BY <1>1, MountedFacts DEF Types
  <2>2. fd' \in File BY <1>1, <2>1, Zenon DEF File, Types, Flags
  <2> QED BY <1>1, <2>1, <2>2, FileFacts
<1> QED BY <1>1 DEF GpxOpen, Driver

(* Serving changes only what the first sector was taken from. *)
LEMMA ServeFacts ==
    ASSUME Types, Driver, GpxServe
    PROVE  fd' # NoFile /\ fd'.path = fd.path /\ fd'.rw = fd.rw /\ fd'.real = bread
<1>1. fd \in File BY DEF GpxServe, Driver, Types, Opened
<1>2. fd' = [fd EXCEPT !.real = bread] BY DEF GpxServe
<1>3. fd'.path = fd.path /\ fd'.rw = fd.rw /\ fd'.real = bread BY <1>1, <1>2 DEF File
<1>4. fd' # NoFile BY <1>1, <1>3, FileFacts, PathFacts DEF File
<1> QED BY <1>3, <1>4

(* Driver is kept by every step. *)
LEMMA DriverNext == ASSUME Types, Shape, Driver, [Next]_vars PROVE Driver'
<1>1. ASSUME Move \/ SetMode \/ DropRead \/ DropWrite \/ AskRead \/ AskWrite \/ Sync \/
             Assign \/ SetImg \/ ClearCustom \/ ReadCustom \/ UserCommand \/ RawDone \/
             DumpMbr \/ LoadSupply \/ Reset \/ PowerOff \/
             (\E r \in 0 .. 2 : Command(r)) \/ UNCHANGED vars
      PROVE  UNCHANGED <<vs, drv, hostop, live, fd, perm>>
  BY <1>1 DEF
     Move, SetMode, DropRead, DropWrite, AskRead, AskWrite, Sync, Assign, SetImg,
     ClearCustom, ReadCustom, UserCommand, RawDone, DumpMbr, LoadSupply, Reset,
     PowerOff, Command, vars, menuVars, driverVars, history
<1>2. ASSUME Driver, StopAsk \/ StopDone \/ Start PROVE Driver'
  BY <1>2 DEF StopAsk, StopDone, Start, Driver, DriverRestored
<1>3. ASSUME Driver, GpxCall PROVE Driver'
  BY <1>3 DEF GpxCall, Driver, DriverRestored
<1>4. ASSUME Types, Driver, GpxOpen PROVE Driver'
  <2>1. UNCHANGED <<vs, live, hostop>> /\ drv = "open" BY <1>4 DEF GpxOpen
  <2> QED BY <1>4, <2>1, OpenFacts DEF Driver, DriverRestored
<1>5. ASSUME Types, Driver, GpxServe PROVE Driver'
  <2>1. UNCHANGED <<vs, hostop>> /\ drv = "verify" /\ drv' = "rest" /\ perm' = "own" /\ live'
    BY <1>5 DEF GpxServe
  <2> QED BY <1>5, <2>1, ServeFacts DEF Driver, DriverRestored
<1>6. ASSUME Driver, GpxDie \/ HostDone \/ Detach PROVE Driver'
  BY <1>6 DEF GpxDie, HostDone, Detach, Driver, DriverRestored
<1>7. ASSUME Driver, NEW k \in HostWrites, HostWrite(k) PROVE Driver'
  BY <1>7 DEF HostWrite, Driver, DriverRestored
<1>8. CASE UNCHANGED <<vs, drv, hostop, live, fd, perm>> BY <1>8 DEF Driver, DriverRestored
<1> QED BY <1>1, <1>2, <1>3, <1>4, <1>5, <1>6, <1>7, <1>8 DEF Next, Menu, Handlers

-----------------------------------------------------------------------------
(* The grant to write guarded sectors. *)

(* Grants is kept by every step. *)
LEMMA GrantsNext == ASSUME Types, Shape, Driver, Grants, [Next]_vars PROVE Grants'
<1>1. ASSUME StopAsk \/ GpxCall \/ GpxOpen \/ GpxServe \/ GpxDie \/ Detach \/
             UNCHANGED vars
      PROVE  UNCHANGED <<pc, select, rw, bwrite, armed, hostop>>
  BY <1>1 DEF
     StopAsk, GpxCall, GpxOpen, GpxServe, GpxDie, Detach, vars, menuVars, driverVars,
     history
<1>2. ASSUME Grants, Move PROVE Grants'
  BY <1>2 DEF Move, driverVars, history, Grants
<1>3. ASSUME Grants, NEW r \in 0 .. 2, Command(r) PROVE Grants'
  BY <1>3 DEF Command, driverVars, Grants
<1>4. ASSUME Grants, SetMode \/ DropRead \/ AskRead PROVE Grants'
  BY <1>4 DEF SetMode, DropRead, AskRead, driverVars, history, Grants
<1>5. ASSUME Names, Grants, DropWrite PROVE Grants'
  <2>1. bwrite' = FALSE /\ UNCHANGED <<hostop, armed>> BY <1>5 DEF DropWrite, driverVars, history
  <2>2. pc' \notin {"ccmd", "raw", "dumpmbr"} BY <1>5, CaseFacts
  <2> QED BY <1>5, <2>1, <2>2 DEF Grants
<1>6. ASSUME Shape, Grants, AskWrite PROVE Grants'
  BY <1>6 DEF AskWrite, driverVars, Shape, Grants
<1>7. ASSUME Grants, Sync PROVE Grants'
  <2>1. UNCHANGED <<select, rw, bwrite, armed, hostop>> BY <1>7 DEF Sync, driverVars
  <2> QED BY <1>7, <2>1, SyncFacts DEF Grants
<1>8. ASSUME Shape, Grants, StopDone PROVE Grants'
  <2>1. /\ hostop = "none" /\ UNCHANGED <<select, rw, bwrite, hostop>>
        /\ armed' <=> armed /\ select = 9 /\ rw = 2
    BY <1>8 DEF StopDone
  <2> QED BY <1>8, <2>1, StopFacts DEF Shape, Grants
<1>9. ASSUME Grants, Assign \/ SetImg \/ Start \/ ClearCustom \/ ReadCustom PROVE Grants'
  BY <1>9 DEF Assign, SetImg, Start, ClearCustom, ReadCustom, driverVars, history,
     Grants
<1>10. ASSUME Grants, UserCommand PROVE Grants'
  <2>1. pc = "ccmd" /\ pc' \in {"start", "dumpmbr", "raw"} BY <1>10 DEF UserCommand
  <2>2. UNCHANGED <<select, rw, bwrite, armed, hostop>>
    BY <1>10 DEF UserCommand, driverVars, history
  <2> QED BY <1>10, <2>1, <2>2 DEF Grants
<1>11. ASSUME Grants, RawDone \/ DumpMbr \/ LoadSupply \/ Reset \/ PowerOff PROVE Grants'
  BY <1>11, DumpFacts DEF RawDone, LoadSupply, Reset, PowerOff, driverVars, history,
     Grants
<1>12. ASSUME Grants, HostDone PROVE Grants'
  BY <1>12 DEF HostDone, menuVars, Grants
<1>13. ASSUME Shape, Grants, NEW k \in HostWrites, HostWrite(k) PROVE Grants'
  <2>1. pc \notin {"ccmd", "raw", "dumpmbr"} BY <1>13 DEF HostWrite, Shape, StoppedAt
  <2> QED BY <1>13, <2>1 DEF HostWrite, menuVars, history, Grants
<1>14. CASE UNCHANGED <<pc, select, rw, bwrite, armed, hostop>>
  BY <1>14 DEF Grants
<1>15. Names BY DEF Types
<1> QED
  BY <1>1, <1>2, <1>3, <1>4, <1>5, <1>6, <1>7, <1>8, <1>9, <1>10, <1>11, <1>12, <1>13, <1>14, <1>15
     DEF Next, Menu, Handlers

-----------------------------------------------------------------------------
(* Paths. *)

(* Paths is kept by every step. *)
LEMMA PathsNext == ASSUME Types, Shape, Driver, Paths, [Next]_vars PROVE Paths'
<1> USE DEF Paths, Mounted
<1>1. ASSUME Move \/ StopAsk \/ GpxCall \/ HostDone \/
             (\E k \in HostWrites : HostWrite(k)) \/ UNCHANGED vars
      PROVE  UNCHANGED <<pc, mpath, custom, imgp, fd, grw, bread, live, restarted>>
  BY <1>1 DEF
     Move, StopAsk, GpxCall, HostDone, HostWrite, vars, menuVars, driverVars, history
<1>2. ASSUME Paths, NEW r \in 0 .. 2, Command(r) PROVE Paths'
  BY <1>2 DEF Command, driverVars
<1>3. ASSUME Paths, SetMode \/ DropRead \/ AskRead \/ AskWrite PROVE Paths'
  BY <1>3 DEF SetMode, DropRead, AskRead, AskWrite, driverVars, history
<1>4. ASSUME Names, Paths, DropWrite PROVE Paths'
  <2>1. UNCHANGED <<mpath, custom, imgp, fd, grw, bread, live, restarted>> /\ pc = "unwrite"
    BY <1>4 DEF DropWrite, driverVars, history
  <2>2. pc' # "idle" BY <1>4, CaseFacts
  <2> QED BY <1>4, <2>1, <2>2
<1>5. ASSUME Paths, Sync PROVE Paths'
  <2>1. UNCHANGED <<mpath, custom, imgp, fd, grw, bread, live, restarted>>
    BY <1>5 DEF Sync, driverVars
  <2>2. pc # "idle" /\ pc' # "idle" BY <1>5, SyncFacts
  <2>3. pc = "swap_sync" <=> pc' = "swap_stop" BY <1>5, SyncFacts
  <2>4. pc \notin {"swap_stop", "assign", "setimg"} BY <1>5, SyncFacts
  <2> QED BY <1>5, <2>1, <2>2, <2>3, <2>4
<1>6. ASSUME Paths, StopDone PROVE Paths'
  <2>1. UNCHANGED <<mpath, custom, imgp, grw, bread, restarted>> /\ fd' = NoFile
    BY <1>6 DEF StopDone
  <2>2. pc # "idle" /\ pc' # "idle" BY <1>6, StopFacts
  <2>3. pc = "swap_stop" => pc' = "assign" BY <1>6, StopFacts
  <2>4. pc \notin {"swap_sync", "assign", "setimg"} BY <1>6, StopFacts
  <2> QED BY <1>6, <2>1, <2>2, <2>3, <2>4
<1>7. ASSUME Paths, Assign PROVE Paths'
  BY <1>7 DEF Assign, history
<1>8. ASSUME Shape, Driver, Paths, SetImg PROVE Paths'
  <2>1. fd = NoFile BY <1>8 DEF SetImg, Shape, StoppedAt, Driver
  <2> QED BY <1>8, <2>1 DEF SetImg, history
<1>9. ASSUME Shape, Driver, Paths, Start PROVE Paths'
  <2>1. fd = NoFile /\ ~live BY <1>9 DEF Start, Shape, StoppedAt, Driver
  <2> QED BY <1>9, <2>1 DEF Start
<1>10. ASSUME Paths, ClearCustom PROVE Paths'
  BY <1>10 DEF ClearCustom, driverVars, history
<1>11. ASSUME Paths, ReadCustom PROVE Paths'
  BY <1>11 DEF ReadCustom, driverVars, history
<1>12. ASSUME Paths, UserCommand \/ RawDone \/ DumpMbr PROVE Paths'
  BY <1>12, DumpFacts DEF UserCommand, RawDone, driverVars, history
<1>13. ASSUME Paths, LoadSupply \/ Reset \/ PowerOff PROVE Paths'
  BY <1>13 DEF LoadSupply, Reset, PowerOff, driverVars, history
<1>14. ASSUME Types, Driver, Paths, GpxOpen PROVE Paths'
  <2>1. UNCHANGED <<pc, mpath, custom, imgp, grw, bread, live, restarted>> /\ ~live
    BY <1>14 DEF GpxOpen, menuVars, history, Driver
  <2> QED BY <1>14, <2>1, OpenFacts
<1>15. ASSUME Types, Driver, Paths, GpxServe PROVE Paths'
  <2>1. UNCHANGED <<pc, mpath, custom, imgp, grw, bread, restarted>> /\ fd # NoFile
    BY <1>15 DEF GpxServe, menuVars, history, Driver
  <2> QED BY <1>15, <2>1, ServeFacts
<1>16. ASSUME Driver, Paths, GpxDie \/ Detach PROVE Paths'
  <2>1. UNCHANGED <<pc, mpath, custom, imgp, grw, bread, restarted>> /\ fd' = NoFile /\ ~live'
    BY <1>16 DEF GpxDie, Detach, menuVars, history, Driver
  <2> QED BY <1>16, <2>1
<1>17. CASE UNCHANGED <<pc, mpath, custom, imgp, fd, grw, bread, live, restarted>>
  BY <1>17
<1>18. Names BY DEF Types
<1> HIDE DEF Paths, Mounted
<1> QED
  BY <1>1, <1>2, <1>3, <1>4, <1>5, <1>6, <1>7, <1>8, <1>9, <1>10, <1>11, <1>12, <1>13, <1>14,
     <1>15, <1>16, <1>17, <1>18 DEF Next, Menu, Handlers

-----------------------------------------------------------------------------
(* Unsynced writes. *)

(* Syncs is kept by every step. *)
LEMMA SyncsNext == ASSUME Types, Driver, Syncs, [Next]_vars PROVE Syncs'
<1> USE DEF Syncs
<1>1. ASSUME Move \/ StopAsk \/ GpxCall \/
             (\E k \in HostWrites : HostWrite(k)) \/ UNCHANGED vars
      PROVE  UNCHANGED <<pc, mpath, custom, fd, dirty, agreed, live>>
  BY <1>1 DEF
     Move, StopAsk, GpxCall, HostWrite, vars, menuVars, driverVars, history
<1>2. ASSUME Marks, Syncs, NEW r \in 0 .. 2, Command(r) PROVE Syncs'
  <2>1. /\ UNCHANGED <<mpath, custom, fd, live>> /\ pc' = "mode"
        /\ agreed' <=> fd = NoFile \/ fd.path = Mounted
        /\ dirty' # "clean" => dirty # "clean"
    BY <1>2 DEF Command, driverVars, Marks
  <2> QED BY <1>2, <2>1 DEF Mounted
<1>3. ASSUME Syncs, SetMode \/ DropRead \/ AskRead \/ AskWrite PROVE Syncs'
  BY <1>3 DEF SetMode, DropRead, AskRead, AskWrite, driverVars, history, Mounted
<1>4. ASSUME Names, Syncs, DropWrite PROVE Syncs'
  <2>1. UNCHANGED <<mpath, custom, fd, dirty, agreed, live>> /\ pc = "unwrite"
    BY <1>4 DEF DropWrite, driverVars, history
  <2>2. pc' \in {"swap_sync", "c_sync", "x_sync", "l_sync", "e_sync", "askread"}
    BY <1>4, CaseFacts
  <2> QED BY <1>4, <2>1, <2>2 DEF Mounted
<1>5. ASSUME Driver, Syncs, Sync PROVE Syncs'
  <2>1. UNCHANGED <<mpath, custom, fd, agreed, live>> BY <1>5 DEF Sync, driverVars
  <2>2. dirty' = IF fd.path = Mounted THEN "clean" ELSE dirty BY <1>5 DEF Sync
  <2>3. pc' \in {"swap_stop", "c_clear", "x_stop", "load", "e_stop", "f_stop"}
    BY <1>5, SyncFacts
  <2>4. pc' = "load" \/ pc' = "f_stop" \/ pc \in {"swap_sync", "c_sync", "x_sync", "e_sync"}
    BY <1>5, SyncFacts
  <2>5. live => fd # NoFile BY <1>5 DEF Driver
  <2> QED BY <1>5, <2>1, <2>2, <2>3, <2>4, <2>5
<1>6. ASSUME StopDone PROVE Syncs'
  <2>1. dirty' = "clean" BY <1>6 DEF StopDone
  <2> QED BY <2>1
<1>7. ASSUME Syncs, Assign \/ SetImg \/ Start PROVE Syncs'
  BY <1>7 DEF Assign, SetImg, Start, driverVars, history
<1>8. ASSUME Syncs, ClearCustom \/ ReadCustom PROVE Syncs'
  BY <1>8 DEF ClearCustom, ReadCustom, driverVars, history
<1>9. ASSUME Syncs, UserCommand \/ RawDone \/ DumpMbr PROVE Syncs'
  BY <1>9, DumpFacts DEF UserCommand, RawDone, driverVars, history
<1>10. ASSUME Syncs, LoadSupply \/ Reset \/ PowerOff PROVE Syncs'
  BY <1>10 DEF LoadSupply, Reset, PowerOff, driverVars, history
<1>11. ASSUME Types, Driver, Syncs, GpxOpen PROVE Syncs'
  <2>1. UNCHANGED <<pc, mpath, custom, dirty, agreed, live>> /\ Mounted' = Mounted
    BY <1>11 DEF GpxOpen, menuVars, history, Mounted
  <2> QED BY <1>11, <2>1, OpenFacts
<1>12. ASSUME Types, Driver, Syncs, GpxServe PROVE Syncs'
  <2>1. UNCHANGED <<pc, mpath, custom, dirty, agreed>> /\ live' /\ fd # NoFile
        /\ Mounted' = Mounted
    BY <1>12 DEF GpxServe, menuVars, history, Driver, Mounted
  <2> QED BY <1>12, <2>1, ServeFacts
<1>13. ASSUME Driver, Syncs, GpxDie \/ Detach PROVE Syncs'
  <2>1. fd' = NoFile /\ dirty' = "clean" BY <1>13 DEF GpxDie, Detach, history, Driver
  <2> QED BY <2>1
<1>14. ASSUME Driver, Syncs, HostDone PROVE Syncs'
  <2>1. UNCHANGED <<pc, mpath, custom, fd, agreed, live>> /\ live
    BY <1>14 DEF HostDone, menuVars, Driver
  <2>2. dirty' = IF dirty = "early" THEN "early" ELSE "late" BY <1>14 DEF HostDone
  <2> QED BY <1>14, <2>1, <2>2 DEF Mounted
<1>15. CASE UNCHANGED <<pc, mpath, custom, fd, dirty, agreed, live>>
  BY <1>15 DEF Mounted
<1>16. Names /\ Marks BY DEF Types
<1> HIDE DEF Syncs
<1> QED
  BY <1>1, <1>2, <1>3, <1>4, <1>5, <1>6, <1>7, <1>8, <1>9, <1>10, <1>11, <1>12, <1>13, <1>14,
     <1>15, <1>16 DEF Next, Menu, Handlers

-----------------------------------------------------------------------------
(* IInv holds in every state. *)
LEMMA Inductive == Spec => []IInv
<1>1. ASSUME IInv, [Next]_vars PROVE IInv'
  BY <1>1, TypesNext, ShapeNext, DriverNext, GrantsNext, PathsNext, SyncsNext DEF IInv
<1> QED BY InitOK, <1>1, PTL DEF Spec

(* Every variable of the menu and of the driver's thread stays in its range;
   the menu is at one of the places lookdog and do_work have.  *)
THEOREM TypeCorrect == Spec => []TypeOK
<1>1. IInv => TypeOK BY TypeParts DEF IInv
<1> QED BY Inductive, <1>1, PTL

(* Back in lookdog, the driver serves the path mpath denotes (main.c:8-15,
   58-60), unless custom_mpath was cleared under it. *)
THEOREM PathIsMounted == Spec => []MountedPath
<1>1. IInv => MountedPath BY DEF IInv, Paths, MountedPath
<1> QED BY Inductive, <1>1, PTL

(* After a command that restarted the share, a session has the access mode of
   g_rwl and, on the whole eMMC, the size read under the gate's setting. *)
THEOREM ControlsAreShown == Spec => []ControlsMatch
<1>1. IInv => ControlsMatch
  <2> SUFFICES ASSUME IInv, pc = "idle", live, restarted
               PROVE  fd.rw = grw /\ (fd.path = Entire => fd.real = bread)
    BY DEF ControlsMatch
  <2>1. fd # NoFile BY DEF IInv, Driver
  <2> QED BY <2>1 DEF IInv, Paths
<1> QED BY Inductive, <1>1, PTL

(* The session is the one the screen shows, in storage, mode and gate. *)
THEOREM SessionIsShown == Spec => []SessionMatches
<1>1. MountedPath /\ ControlsMatch => SessionMatches BY DEF SessionMatches
<1> QED BY <1>1, PathIsMounted, ControlsAreShown, PTL

(* No host write starts in a guarded sector without the triangle grant, or runs
   into one but in a session of the whole eMMC open for writing; and none is
   under way nor granted while handle_ccmd works on the raw eMMC. *)
THEOREM BootWritesAreArmed == Spec => []BootWriteArmed
<1>1. IInv => BootWriteArmed BY DEF IInv, Grants, Driver, BootWriteArmed
<1> QED BY Inductive, <1>1, PTL

(* Every way out of custom_vstor_gpx gives the permission back and leaves no
   file open that no session uses. *)
THEOREM DriverIsRestored == Spec => []DriverRestored
<1>1. IInv => DriverRestored BY DEF IInv, Driver
<1> QED BY Inductive, <1>1, PTL

(* Every way back to lookdog leaves the share up. *)
THEOREM ShareIsBack == Spec => []ShareBack
<1>1. IInv => ShareBack BY DEF IInv, Shape, UpAt, ShareBack
<1> QED BY Inductive, <1>1, PTL

(* The closing sync and stop of module_start find nothing of the host left. *)
THEOREM NoOpsRemain == Spec => []NoRemainingOps
<1>1. IInv => NoRemainingOps
  BY DEF IInv, Shape, StoppedAt, Driver, NoRemainingOps
<1> QED BY Inductive, <1>1, PTL

(* A session on mpath's storage is stopped only when what the host wrote before
   the command has been synced. *)
THEOREM SyncedBeforeStop == Spec => SyncBeforeStop
<1> DEFINE Stopped == vs = "stopping" /\ vs' = "stopped" /\ agreed => dirty # "early"
<1>1. ASSUME IInv, [Next]_vars, vs = "stopping", vs' = "stopped", agreed PROVE dirty # "early"
  <2>1. ASSUME Move \/ SetMode \/ DropRead \/ DropWrite \/ AskRead \/ AskWrite \/ Sync \/
               Assign \/ SetImg \/ ClearCustom \/ ReadCustom \/ UserCommand \/ RawDone \/
               DumpMbr \/ LoadSupply \/ Reset \/ PowerOff \/ GpxCall \/ GpxOpen \/
               GpxServe \/ GpxDie \/ HostDone \/ Detach \/
               (\E r \in 0 .. 2 : Command(r)) \/
               (\E k \in HostWrites : HostWrite(k)) \/ UNCHANGED vars
        PROVE  UNCHANGED <<vs>>
    BY <2>1 DEF
       Move, SetMode, DropRead, DropWrite, AskRead, AskWrite, Sync, Assign, SetImg,
       ClearCustom, ReadCustom, UserCommand, RawDone, DumpMbr, LoadSupply, Reset,
       PowerOff, GpxCall, GpxOpen, GpxServe, GpxDie, HostDone, Detach, Command,
       HostWrite, vars, menuVars, driverVars, history
  <2>2. StopDone
    BY <1>1, <2>1 DEF Next, Menu, Handlers, StopAsk, Start
  <2>3. pc \in {"swap_stop", "x_stop", "e_stop"}
    BY <1>1, <2>2, StopFacts DEF IInv, Shape, StoppedAt
  <2> QED BY <1>1, <2>3 DEF IInv, Syncs
<1>2. IInv /\ [Next]_vars => [Stopped]_vars BY <1>1
<1> QED BY Inductive, <1>2, PTL DEF Spec, SyncBeforeStop

(* lookdog's arithmetic reaches the ninth entry downwards only. *)
THEOREM EntryIsHidden == Spec => HiddenEntry
<1> DEFINE Down == select # 9 /\ select' = 9 => select = 8
<1>1. ASSUME IInv, [Next]_vars, select # 9, select' = 9 PROVE select = 8
  <2>1. ASSUME SetMode \/ DropRead \/ DropWrite \/ AskRead \/ AskWrite \/ Sync \/
               StopAsk \/ StopDone \/ Assign \/ SetImg \/ Start \/ ClearCustom \/
               ReadCustom \/ UserCommand \/ RawDone \/ DumpMbr \/ LoadSupply \/ Reset \/
               PowerOff \/ GpxCall \/ GpxOpen \/ GpxServe \/ GpxDie \/ HostDone \/
               Detach \/ (\E r \in 0 .. 2 : Command(r)) \/
               (\E k \in HostWrites : HostWrite(k)) \/ UNCHANGED vars
        PROVE  UNCHANGED <<select>>
    BY <2>1 DEF
       SetMode, DropRead, DropWrite, AskRead, AskWrite, Sync, StopAsk, StopDone, Assign,
       SetImg, Start, ClearCustom, ReadCustom, UserCommand, RawDone, DumpMbr, LoadSupply,
       Reset, PowerOff, GpxCall, GpxOpen, GpxServe, GpxDie, HostDone, Detach, Command,
       HostWrite, vars, menuVars, driverVars, history
  <2>2. ASSUME NEW r \in 0 .. 2, Command(r) PROVE select' = select BY <2>2 DEF Command
  <2>3. Move BY <1>1, <2>1, <2>2 DEF Next, Menu, Handlers
  <2>4. select \in 1 .. 9 BY <1>1 DEF IInv, Types, Names
  <2> QED BY <1>1, <2>3, <2>4 DEF Move, Above, Below, MenuSize
<1>2. IInv /\ [Next]_vars => [Down]_vars BY <1>1
<1> QED BY Inductive, <1>2, PTL DEF Spec, HiddenEntry

(* The menu and the driver's thread implement MediumLock:
   the storage passes between the host and the raw copier only through nobody. *)
THEOREM MediumIsExclusive == Spec => MediumExclusive
<1>1. Init => Lock!Init BY DEF Init, Holder, Lock!Init
<1>2. ASSUME IInv, IInv', [Next]_vars PROVE [Lock!Next]_Holder
  <2> USE DEF Holder, Lock!Next, Lock!Take, Lock!Release
  <2>1. ASSUME Move \/ SetMode \/ DropRead \/ DropWrite \/ AskRead \/ AskWrite \/ Sync \/
               StopAsk \/ Assign \/ SetImg \/ Start \/ ClearCustom \/ ReadCustom \/
               DumpMbr \/ LoadSupply \/ Reset \/ PowerOff \/ GpxCall \/ HostDone \/
               (\E r \in 0 .. 2 : Command(r)) \/
               (\E k \in HostWrites : HostWrite(k)) \/ UNCHANGED vars
        PROVE  UNCHANGED <<raw, fd>>
    BY <2>1 DEF
       Move, SetMode, DropRead, DropWrite, AskRead, AskWrite, Sync, StopAsk, Assign,
       SetImg, Start, ClearCustom, ReadCustom, DumpMbr, LoadSupply, Reset, PowerOff,
       GpxCall, HostDone, Command, HostWrite, vars, menuVars, driverVars, history
  <2>2. ASSUME StopDone \/ GpxDie \/ Detach PROVE [Lock!Next]_Holder
    <3>1. raw' = raw /\ fd' = NoFile BY <2>2 DEF StopDone, GpxDie, Detach, menuVars
    <3> QED BY <3>1
  <2>3. ASSUME UserCommand \/ RawDone PROVE [Lock!Next]_Holder
    <3>1. fd' = fd /\ pc \in {"ccmd", "raw"} BY <2>3 DEF UserCommand, RawDone, driverVars
    <3>2. fd = NoFile BY <1>2, <3>1 DEF IInv, Shape, StoppedAt, Driver
    <3> QED BY <3>1, <3>2
  <2>4. ASSUME GpxOpen \/ GpxServe PROVE [Lock!Next]_Holder
    <3>1. raw' = raw /\ vs # "stopped"
      BY <1>2, <2>4 DEF GpxOpen, GpxServe, menuVars, IInv, Driver
    <3>2. fd # NoFile => fd' # NoFile
      BY <1>2, <2>4, OpenFacts, ServeFacts DEF IInv
    <3>3. raw = "none" BY <1>2, <3>1 DEF IInv, Shape, StoppedAt
    <3> QED BY <3>1, <3>2, <3>3
  <2>5. CASE UNCHANGED <<raw, fd>> BY <2>5
  <2> HIDE DEF Holder, Lock!Next, Lock!Take, Lock!Release
  <2> QED BY <1>2, <2>1, <2>2, <2>3, <2>4, <2>5 DEF Next, Menu, Handlers
<1> QED BY Inductive, <1>1, <1>2, PTL DEF Spec, MediumExclusive, Lock!Spec
=============================================================================
