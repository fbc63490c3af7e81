-------------------------- MODULE BootAnim_proofs ---------------------------
(***************************************************************************)
(* The player of vita-bootanim keeps its memory, its screen and its place  *)
(* in the file in order, for any set of files and any base of the numbers. *)
(* The inductive invariant says for each step of the two threads which     *)
(* blocks are held, what the display is to show and what the framebuffers  *)
(* and the SRAM contain, and that the offset walked to is that of the      *)
(* frame counted.                                                          *)
(***************************************************************************)
EXTENDS BootAnim, Rcf_proofs

-----------------------------------------------------------------------------
(* The file in memory, and the threads.                                    *)

Checked == {"sram", "logo", "fb", "clear", "thread", "run"}
HasLogo == "logo" \in header.flags

HeaderInv ==
    /\ pc \in {"start", "stat", "anim", "read"} => header = NoFile
    /\ IsFile(header)
    /\ Numbered(header.body, header.count, HasLogo)
    /\ header.intact => Intact(header.body, header.count, HasLogo)
    /\ pc \in Checked => ~(Has("sram") /\ Has("swap"))
    /\ pc = "logo" => HasLogo

ThreadInv ==
    /\ pc = "run" <=> pl # "none"
    /\ stop # "no" => pc \in {"run", "off"}
    /\ stop = "done" => pl \in {"none", "gone"}

FbInv == used_fb \in {0, 1} /\ (~Has("swap") \/ pc # "run" => used_fb = 0)

(* The blocks that have been obtained. *)
Alive == Playing \/ pl = "exit"
MemInv ==
    /\ mem \in [Block -> {"none", "held", "freed"}]
    /\ pc \in {"start", "stat", "anim", "off", "failed"} => \A b \in Block : mem[b] # "held"
    /\ pc \in {"read", "check", "sram", "logo", "fb", "clear", "thread"} => mem["anim"] = "held"
    /\ pc \in {"logo", "fb", "clear", "thread"} => mem["cam"] = "held"
    /\ pc \in {"clear", "thread"} => mem["cam"] = "held" /\ (~Has("sram") => mem["fb"] = "held")
    /\ Alive => mem["anim"] = "held" /\ mem["cam"] = "held" /\ (~Has("sram") => mem["fb"] = "held")
    /\ pl = "gone" => \A b \in Block : mem[b] # "held"

(* What the display is to turn to while frames are drawn into two framebuffers. *)
FlipInv ==
    /\ buf \in [Screen -> Content]
    /\ (Has("swap") /\ ~refused /\ pc = "run") =>
         /\ pl = "begin" => \A s \in {"fb0", "fb1"} : buf[s] = Blank
         /\ pl \in {"sync", "head", "draw", "next"} => asked = Target(used_fb)
         /\ pl \in {"drawing", "flip"} => asked = Target(1 - used_fb)
         /\ pl \in {"sync", "head", "draw", "drawing", "flip", "next", "end"} =>
              asked \in {"fb0", "fb1"} /\ buf[asked].what # "part"
         /\ pl = "flip" => buf[Target(used_fb)].what # "part"
    /\ pc = "thread" /\ Has("swap") => \A s \in {"fb0", "fb1"} : buf[s] = Blank

(* The SRAM holds the logo from its unpacking on. *)
CamInv ==
    (~Has("sram") /\ ~refused) =>
        /\ pc \in {"start", "stat", "anim", "read", "check", "sram", "logo"} => buf["cam"] = Boot
        /\ pc \in {"fb", "clear", "thread", "run"} =>
             buf["cam"] = IF Has("logo") THEN Drawn(Logo) ELSE Boot
        /\ pl \in {"exit", "gone"} => asked = "cam"

(* The offset is the one at which a walk finds the frame, and the frame drawn
   last is the one before, or the last one. *)
StartAt(k) == Start(header.body, HasLogo)[k]

FrameInv ==
    /\ cur_frame \in Nat /\ cur_off \in Nat
    /\ pl \in {"head", "draw", "drawing", "flip", "next"} => cur_off = StartAt(cur_frame)
    /\ pl \in {"none", "begin", "sync"} => last = -1
    /\ last \in -1 .. header.count - 1
    /\ pl = "head" => cur_frame <= header.count
    /\ pl \in {"head", "draw", "drawing"} =>
         \/ last = cur_frame - 1
         \/ cur_frame = 0 /\ Has("loop") /\ last = header.count - 1
    /\ pl = "draw" => cur_frame < header.count \/ header.count = 0
    /\ pl = "drawing" => cur_frame < header.count /\ Opens(cur_off)
    /\ pl \in {"flip", "next"} => cur_frame < header.count /\ last = cur_frame
    /\ PlaysThrough

IInv == HeaderInv /\ ThreadInv /\ FbInv /\ MemInv /\ FlipInv /\ CamInv /\ FrameInv

-----------------------------------------------------------------------------
(* Before the file is read there is nothing to walk over. *)
LEMMA EmptyNumbered ==
    ASSUME NEW b \in Seq(Unit), Len(b) = 0
    PROVE  Numbered(b, 0, FALSE)
<1>1. ASSUME NEW i \in 0 .. Len(b) PROVE ~(Start(b, FALSE)[i] + 2 <= Len(b))
  <2>1. i = 0 OBVIOUS
  <2>2. Start(b, FALSE)[0] = 0 BY StartUnfolds DEF FirstOffset
  <2>3. ~(0 + 2 <= 0) OBVIOUS
  <2> DEFINE k == Start(b, FALSE)[i]
  <2>4. k = 0 BY <2>1, <2>2
  <2> HIDE DEF k
  <2>5. ~(k + 2 <= Len(b)) BY <2>4
  <2> QED BY <2>5 DEF k
<1> QED BY <1>1 DEF Numbered

LEMMA InitInv == Init => HeaderInv /\ ThreadInv /\ FbInv /\ MemInv /\ FlipInv /\ CamInv /\ FrameInv
<1> SUFFICES ASSUME Init PROVE HeaderInv /\ ThreadInv /\ FbInv /\ MemInv /\ FlipInv /\ CamInv /\ FrameInv
  OBVIOUS
<1>1. HeaderInv
  <2>1. IsFile(NoFile) BY DEF IsFile, NoFile, Flag
  <2>2. NoFile.body = <<>> /\ NoFile.count = 0 /\ NoFile.flags = {} /\ NoFile.intact = FALSE
    BY DEF NoFile
  <2>3. Numbered(<<>>, 0, FALSE)
    <3>1. <<>> \in Seq(Unit) /\ Len(<<>>) = 0 OBVIOUS
    <3> QED BY <3>1, EmptyNumbered
  <2>4. header = NoFile /\ pc = "start" /\ HasLogo = FALSE BY <2>2 DEF Init, HasLogo
  <2> QED BY <2>1, <2>2, <2>3, <2>4 DEF HeaderInv, Checked
<1>2. ThreadInv /\ FbInv BY DEF Init, ThreadInv, FbInv
<1>3. MemInv BY DEF Init, MemInv, Alive, Playing, Block
<1>4. FlipInv BY DEF Init, FlipInv, Screen, Content, Boot
<1>5. CamInv BY DEF Init, CamInv, Screen
<1>6. FrameInv BY DEF Init, FrameInv, NoFile, PlaysThrough
<1> QED BY <1>1, <1>2, <1>3, <1>4, <1>5, <1>6

(* What the two threads leave alone. *)
LEMMA LoadFrame ==
    ASSUME Load
    PROVE  /\ UNCHANGED <<used_fb, cur_frame, cur_off, outside, last, cut>>
           /\ pc \notin {"run", "off", "failed"}
           /\ ~Thread => pl' = pl /\ pc' # "run"
           /\ ~Read /\ ~Check => UNCHANGED header
           /\ pc' \in {"fail", "off", "failed"} \/ UNCHANGED header \/ pc' \in {"check", "sram"}
           /\ ~UnpackLogo /\ ~Clear => UNCHANGED buf
           /\ UNCHANGED <<show, asked>>
           /\ ~UnpackLogo => UNCHANGED refused
BY DEF Load, Begin, Stat, AllocAnim, Alloc, Read, Check, AllocSram, UnpackLogo, AllocFb, Clear,
   Thread, Fail, Go, KeepPlayer, player, outside

LEMMA PlayFrame ==
    ASSUME Play
    PROVE  /\ UNCHANGED <<loader, outside>>
           /\ pl \notin {"none", "gone"} /\ pl' # "none"
           /\ ~PlExit => UNCHANGED mem
           /\ ~PlDraw => UNCHANGED used_fb
           /\ ~PlDraw /\ ~PlDrawn => UNCHANGED buf
           /\ ~PlDrawn => UNCHANGED last
BY DEF Play, PlBegin, PlSync, PlTurn, PlDraw, PlDrawn, PlFlip, PlNext, PlEnd, PlExit, Keep

LEMMA OtherFrame ==
    ASSUME ShellUp \/ Stop \/ StopDone \/ Vblank \/ UNCHANGED vars
    PROVE  UNCHANGED <<loader, player, mem, buf, asked, last, refused, cut>>
BY DEF ShellUp, Stop, StopDone, Vblank, vars, loader, player

(* The file in memory is one of the files, less the swap flag it cannot have. *)
LEMMA HeaderStep == HeaderInv /\ [Next]_vars => HeaderInv'
<1> SUFFICES ASSUME HeaderInv, [Next]_vars PROVE HeaderInv' OBVIOUS
<1>1. CASE Read
  <2>1. header' \in Files /\ pc' = "check" BY <1>1 DEF Read, Go
  <2> QED BY <2>1, BootAnimAssumption DEF HeaderInv, HasLogo, Checked
<1>2. CASE Check
  <2>1. CASE header' = Normalised(header) /\ pc' = "sram"
    <3>1. /\ header'.body = header.body /\ header'.count = header.count
          /\ header'.intact = header.intact /\ header'.known = header.known
          /\ header'.sized = header.sized
          /\ header'.flags = IF "sram" \in header.flags THEN header.flags \ {"swap"} ELSE header.flags
      BY <2>1 DEF Normalised, HeaderInv, IsFile
    <3>2. HasLogo' = HasLogo BY <3>1 DEF HasLogo
    <3>3. IsFile(header') BY <3>1 DEF HeaderInv, IsFile
    <3> QED BY <2>1, <3>1, <3>2, <3>3 DEF HeaderInv, Has
  <2>2. CASE header' = header /\ pc' = "fail"
    BY <2>2 DEF HeaderInv, Checked, HasLogo, Has
  <2> QED BY <1>2, <2>1, <2>2 DEF Check, Go
<1>3. CASE Load /\ ~Read /\ ~Check
  <2>1. header' = header BY <1>3, LoadFrame
  <2>2. pc' \in {"start", "stat", "anim", "read"} => pc \in {"start", "stat", "anim", "read"}
    BY <1>3 DEF Load, Begin, Stat, AllocAnim, Alloc, AllocSram, UnpackLogo, AllocFb, Clear,
       Thread, Fail, Go
  <2>3. pc' \in Checked => pc \in Checked
    BY <1>3 DEF Load, Begin, Stat, AllocAnim, Alloc, AllocSram, UnpackLogo, AllocFb, Clear,
       Thread, Fail, Go, Checked
  <2>4. pc' = "logo" => HasLogo
    BY <1>3 DEF Load, Begin, Stat, AllocAnim, Alloc, AllocSram, UnpackLogo, AllocFb, Clear,
       Thread, Fail, Go, Has, HasLogo
  <2> QED BY <2>1, <2>2, <2>3, <2>4 DEF HeaderInv, HasLogo, Has
<1>4. CASE Play BY <1>4, PlayFrame DEF HeaderInv, HasLogo, Has, loader
<1>5. CASE ShellUp \/ Stop \/ StopDone \/ Vblank \/ UNCHANGED vars
  BY <1>5, OtherFrame DEF HeaderInv, HasLogo, Has, loader
<1> QED BY <1>1, <1>2, <1>3, <1>4, <1>5 DEF Next

(* The player runs only after a module_start that was successful. *)
LEMMA ThreadStep == ThreadInv /\ [Next]_vars => ThreadInv'
<1> SUFFICES ASSUME ThreadInv, [Next]_vars PROVE ThreadInv' OBVIOUS
<1>1. CASE Thread
  BY <1>1 DEF Thread, ThreadInv, Go, outside
<1>2. CASE Load /\ ~Thread BY <1>2, LoadFrame DEF ThreadInv, outside
<1>3. CASE Play BY <1>3, PlayFrame DEF ThreadInv, loader, outside
<1>4. CASE ShellUp \/ Stop \/ StopDone \/ Vblank \/ UNCHANGED vars
  BY <1>4 DEF ThreadInv, ShellUp, Stop, StopDone, Vblank, outside, vars, loader, player
<1> QED BY <1>1, <1>2, <1>3, <1>4 DEF Next

(* Without swapping the first framebuffer is the only one. *)
LEMMA FbStep == HeaderInv /\ ThreadInv /\ FbInv /\ [Next]_vars => FbInv'
<1> SUFFICES ASSUME HeaderInv, ThreadInv, FbInv, [Next]_vars PROVE FbInv' OBVIOUS
<1>1. CASE Load
  BY <1>1, LoadFrame DEF FbInv
<1>2. CASE PlDraw
  BY <1>2 DEF PlDraw, FbInv, ThreadInv, Other, Keep, loader, Has
<1>3. CASE Play /\ ~PlDraw BY <1>3, PlayFrame DEF FbInv, loader, Has
<1>4. CASE ShellUp \/ Stop \/ StopDone \/ Vblank \/ UNCHANGED vars
  BY <1>4, OtherFrame DEF FbInv, loader, player, Has
<1> QED BY <1>1, <1>2, <1>3, <1>4 DEF Next

(* The blocks are obtained one by one and given back together. *)
LEMMA MemStep == HeaderInv /\ ThreadInv /\ MemInv /\ [Next]_vars => MemInv'
<1> SUFFICES ASSUME HeaderInv, ThreadInv, MemInv, [Next]_vars PROVE MemInv' OBVIOUS
<1>0. Block = {"anim", "fb", "cam"} BY DEF Block
<1>1. CASE Load
  <2>0. pl = "none" BY <1>1, LoadFrame DEF ThreadInv
  <2>1. CASE Begin \/ Stat \/ Read \/ UnpackLogo
    BY <2>0, <2>1 DEF Begin, Stat, Read, UnpackLogo, Go, KeepPlayer, player, MemInv, Alive, Playing
  <2>2. CASE Check
    BY <2>0, <2>2 DEF Check, Go, KeepPlayer, player, MemInv, Alive, Playing
  <2>3. CASE AllocAnim
    BY <1>0, <2>0, <2>3 DEF AllocAnim, Alloc, Go, KeepPlayer, player, MemInv, Alive, Playing
  <2>4. CASE AllocSram
    BY <1>0, <2>0, <2>4 DEF AllocSram, Alloc, Go, KeepPlayer, player, MemInv, Alive, Playing, Has
  <2>5. CASE AllocFb
    BY <1>0, <2>0, <2>5 DEF AllocFb, Alloc, Go, KeepPlayer, player, MemInv, Alive, Playing, Has
  <2>6. CASE Clear
    BY <2>0, <2>6 DEF Clear, Go, KeepPlayer, player, MemInv, Alive, Playing, Has
  <2>7. CASE Thread
    BY <2>0, <2>7 DEF Thread, Go, MemInv, Alive, Playing, Has
  <2>8. CASE Fail
    BY <1>0, <2>0, <2>8 DEF Fail, Freed, Go, KeepPlayer, player, MemInv, Alive, Playing
  <2> QED BY <1>1, <2>1, <2>2, <2>3, <2>4, <2>5, <2>6, <2>7, <2>8 DEF Load
<1>2. CASE PlExit
  BY <1>0, <1>2 DEF PlExit, Freed, Keep, loader, MemInv, Alive, Playing, ThreadInv
<1>3. CASE Play /\ ~PlExit
  <2>1. mem' = mem /\ pc' = pc /\ header' = header BY <1>3, PlayFrame DEF loader
  <2>2. Alive /\ Alive' /\ pl' # "gone"
    BY <1>3 DEF Play, PlBegin, PlSync, PlTurn, PlDraw, PlDrawn, PlFlip, PlNext, PlEnd, Alive, Playing
  <2>3. pc = "run" BY <2>2 DEF ThreadInv, Alive, Playing
  <2> QED BY <2>1, <2>2, <2>3 DEF MemInv, Has
<1>4. CASE ShellUp \/ Stop \/ StopDone \/ Vblank \/ UNCHANGED vars
  BY <1>4, OtherFrame DEF MemInv, Alive, Playing, loader, player, Has
<1> QED BY <1>1, <1>2, <1>3, <1>4 DEF Next

(* The display and the drawing stay on different framebuffers. *)
LEMMA TearStep ==
    ASSUME HeaderInv, ThreadInv, FbInv, FlipInv, FrameInv, [Next]_vars
    PROVE  FlipInv'
<1>a. buf \in [Screen -> Content] /\ Blank \in Content
  BY DEF FlipInv, Blank, Content
<1>b. "cam" \in Screen /\ "fb0" \in Screen /\ "fb1" \in Screen BY DEF Screen
<1>c. \A i \in Int : Drawn(i) \in Content /\ Torn(i) \in Content BY DEF Drawn, Torn, Content
<1>d. \A o \in Nat : Opens(o) => Stream(o) \in Int
  <2> SUFFICES ASSUME NEW o \in Nat, Opens(o) PROVE Stream(o) \in Int OBVIOUS
  <2>1. header.body \in Seq(Unit) BY DEF HeaderInv, IsFile
  <2>2. header.body[o + 2] \in Unit BY <2>1 DEF Opens
  <2> QED BY <2>2 DEF Stream, Unit
<1>e. pc = "run" /\ Has("swap") => ~Has("sram") BY DEF HeaderInv, Checked
<1>f. pc = "run" /\ Has("swap") =>
        /\ Target(used_fb) \in {"fb0", "fb1"} /\ Target(1 - used_fb) \in {"fb0", "fb1"}
        /\ Target(used_fb) # Target(1 - used_fb)
  BY <1>e DEF FbInv, Target
<1>1. CASE Load
  <2>1. CASE UnpackLogo
    <3>1. \E c \in Content : buf' = [buf EXCEPT !["cam"] = c] \/ buf' = buf
      <4>1. Opens(0) => Drawn(Stream(0)) \in Content BY <1>c, <1>d
      <4>2. Torn(Logo) \in Content BY <1>c DEF Logo
      <4> QED BY <2>1, <4>1, <4>2 DEF UnpackLogo
    <3>2. buf' \in [Screen -> Content] BY <1>a, <3>1
    <3>3. pc' = "fb" BY <2>1 DEF UnpackLogo, Go
    <3> QED BY <3>2, <3>3 DEF FlipInv
  <2>2. CASE Clear
    <3>1. buf' = (IF Has("sram") THEN [buf EXCEPT !["cam"] = Blank]
                 ELSE [buf EXCEPT !["fb0"] = Blank, !["fb1"] = Blank]) /\ pc' = "thread" /\ pc = "clear"
          /\ header' = header
      BY <2>2 DEF Clear, Go
    <3>2. buf' \in [Screen -> Content] BY <1>a, <3>1
    <3>3. Has("swap") => ~Has("sram") BY <3>1 DEF HeaderInv, Checked
    <3> QED BY <1>a, <1>b, <3>1, <3>2, <3>3 DEF FlipInv, Has
  <2>3. CASE Thread
    <3>1. buf' = buf /\ header' = header /\ refused' = refused /\ pc = "thread"
          /\ ((pc' = "run" /\ pl' = "begin") \/ pc' = "fail")
      BY <2>3 DEF Thread, Go
    <3> QED BY <1>a, <3>1 DEF FlipInv, Has
  <2>4. CASE ~UnpackLogo /\ ~Clear /\ ~Thread
    <3>1. buf' = buf /\ pc' # "run" /\ pc' # "thread"
      BY <1>1, <2>4, LoadFrame DEF Load, Begin, Stat, AllocAnim, Alloc, Read, Check, AllocSram,
         AllocFb, Fail, Go
    <3> QED BY <1>a, <3>1 DEF FlipInv
  <2> QED BY <2>1, <2>2, <2>3, <2>4
<1>2. CASE Play
  <2>a. pc = "run" /\ pc' = "run" /\ header' = header BY <1>2, PlayFrame DEF ThreadInv, loader
  <2>b. Has("swap")' = Has("swap") /\ \A u : Target(u)' = Target(u) BY <2>a DEF Has, Target
  <2>1. buf' \in [Screen -> Content] \/ PlDraw \/ PlDrawn BY <1>a, <1>2, PlayFrame
  <2>2. CASE PlBegin
    <3>1. buf' = buf BY <2>2 DEF PlBegin
    <3>2. pl = "begin" /\ used_fb' = used_fb
      BY <2>2 DEF PlBegin
    <3>4. \/ asked' = Target(used_fb) /\ pl' = "sync" /\ refused' = refused
          \/ pl' = "exit" /\ refused' = TRUE
      BY <2>2 DEF PlBegin
    <3>3. Blank.what # "part" BY DEF Blank
    <3> QED BY <1>a, <1>f, <2>a, <2>b, <3>1, <3>2, <3>3, <3>4 DEF FlipInv
  <2>9. CASE PlSync
    <3>1. /\ buf' = buf /\ asked' = asked /\ used_fb' = used_fb /\ refused' = refused
          /\ pl = "sync" /\ pl' = "head"
      BY <2>9 DEF PlSync
    <3> QED BY <1>a, <2>a, <2>b, <3>1 DEF FlipInv
  <2>3. CASE PlTurn
    <3>1. /\ buf' = buf /\ asked' = asked /\ used_fb' = used_fb /\ refused' = refused
          /\ pl = "head" /\ pl' \in {"end", "draw"}
      BY <2>3 DEF PlTurn
    <3> QED BY <1>a, <2>a, <2>b, <3>1 DEF FlipInv
  <2>4. CASE PlDraw
    <3>1. /\ pl = "draw" /\ asked' = asked /\ refused' = refused
          /\ used_fb' = Other
      BY <2>4 DEF PlDraw
    <3>2. CASE pl' = "end" /\ buf' = buf
      BY <1>a, <2>a, <2>b, <3>1, <3>2 DEF FlipInv
    <3>3. CASE pl' = "drawing" /\ \E c \in Content : buf' = [buf EXCEPT ![Target(Other)] = c]
      <4>1. buf' \in [Screen -> Content] BY <1>a, <3>3
      <4>2. CASE Has("swap") /\ ~refused
        <5>1. used_fb' = 1 - used_fb /\ 1 - used_fb' = used_fb BY <3>1, <4>2 DEF Other, FbInv
        <5>2. asked = Target(used_fb) /\ buf[asked].what # "part" /\ asked \in {"fb0", "fb1"}
          BY <2>a, <3>1, <4>2 DEF FlipInv
        <5>3. asked # Target(Other) BY <1>f, <2>a, <4>2, <5>2 DEF Other
        <5>4. buf'[asked] = buf[asked] BY <1>a, <1>b, <3>3, <5>2, <5>3
        <5> QED BY <2>a, <2>b, <3>1, <3>3, <4>1, <5>1, <5>2, <5>4 DEF FlipInv
      <4>3. CASE ~(Has("swap") /\ ~refused)
        BY <2>a, <2>b, <3>1, <4>1, <4>3 DEF FlipInv
      <4> QED BY <4>2, <4>3
    <3>4. Opens(cur_off) => Torn(Stream(cur_off)) \in Content BY <1>c, <1>d DEF FrameInv
    <3> QED BY <2>4, <3>2, <3>3, <3>4 DEF PlDraw
  <2>5. CASE PlDrawn
    <3>1. pl = "drawing" /\ asked' = asked /\ used_fb' = used_fb BY <2>5 DEF PlDrawn
    <3>2. CASE pl' = "end" /\ refused' = TRUE /\ buf' = buf
      BY <1>a, <2>a, <3>2 DEF FlipInv
    <3>3. CASE /\ pl' = (IF Has("swap") THEN "flip" ELSE "next") /\ refused' = refused
               /\ \E c \in Content : c.what # "part" /\ buf' = [buf EXCEPT ![Target(used_fb)] = c]
      <4>1. buf' \in [Screen -> Content] BY <1>a, <3>3
      <4>2. CASE Has("swap") /\ ~refused
        <5>1. asked = Target(1 - used_fb) /\ buf[asked].what # "part" /\ asked \in {"fb0", "fb1"}
          BY <2>a, <3>1, <4>2 DEF FlipInv
        <5>2. asked # Target(used_fb) /\ Target(used_fb) \in Screen BY <1>b, <1>f, <2>a, <4>2, <5>1
        <5>3. buf'[asked] = buf[asked] /\ buf'[Target(used_fb)].what # "part"
          BY <1>a, <1>b, <3>3, <5>1, <5>2
        <5> QED BY <2>a, <2>b, <3>1, <3>3, <4>1, <4>2, <5>1, <5>3 DEF FlipInv
      <4>3. CASE ~(Has("swap") /\ ~refused)
        BY <2>a, <2>b, <3>3, <4>1, <4>3 DEF FlipInv
      <4> QED BY <4>2, <4>3
    <3>4. ASSUME NEW k \in Int PROVE Drawn(k) \in Content /\ Drawn(k).what # "part"
      BY DEF Drawn, Content
    <3>5. Stream(cur_off) \in Int \/ ~Opens(cur_off) BY <1>d DEF FrameInv
    <3>6. Opens(cur_off) BY <3>1 DEF FrameInv
    <3> QED BY <2>5, <3>2, <3>3, <3>4, <3>5, <3>6 DEF PlDrawn
  <2>6. CASE PlFlip
    <3>1. /\ pl = "flip" /\ pl' = "next" /\ buf' = buf /\ used_fb' = used_fb
          /\ (asked' = Target(used_fb) /\ refused' = refused) \/ refused' = TRUE
      BY <2>6 DEF PlFlip, SetFrameBuf
    <3> QED BY <1>a, <1>f, <2>a, <2>b, <3>1 DEF FlipInv
  <2>7. CASE PlNext
    <3>1. /\ pl = "next" /\ pl' = "head" /\ buf' = buf /\ used_fb' = used_fb
          /\ asked' = asked /\ refused' = refused
      BY <2>7 DEF PlNext
    <3> QED BY <1>a, <1>f, <2>a, <2>b, <3>1 DEF FlipInv
  <2>8. CASE PlEnd \/ PlExit
    <3>1. pl' \in {"exit", "gone"} /\ buf' = buf BY <2>8 DEF PlEnd, PlExit
    <3> QED BY <1>a, <2>a, <3>1 DEF FlipInv
  <2> QED BY <1>2, <2>2, <2>3, <2>4, <2>5, <2>6, <2>7, <2>8, <2>9 DEF Play
<1>3. CASE ShellUp \/ Stop \/ StopDone \/ Vblank \/ UNCHANGED vars
  BY <1>3, OtherFrame DEF FlipInv, Has, Target, loader, player
<1> QED BY <1>1, <1>2, <1>3 DEF Next

(* After the logo was unpacked nothing draws into the SRAM. *)
LEMMA CamStep ==
    ASSUME HeaderInv, ThreadInv, FbInv, FlipInv, CamInv, FrameInv, [Next]_vars
    PROVE  CamInv'
<1>a. buf \in [Screen -> Content] /\ "cam" \in Screen BY DEF FlipInv, Screen
<1>b. ~Has("sram") => \A u : Target(u) \in {"fb0", "fb1"} BY DEF Target
<1>1. CASE Load
  <2>a. pl = "none" BY <1>1, LoadFrame DEF ThreadInv
  <2>1. CASE Read
    <3>1. header.flags = {} /\ pc = "read" BY <2>1 DEF Read, HeaderInv, NoFile
    <3>2. ~refused => buf["cam"] = Boot BY <3>1 DEF CamInv, Has
    <3> QED BY <2>1, <2>a, <3>2 DEF Read, Go, KeepPlayer, player, CamInv
  <2>2. CASE Check
    <3>1. Has("sram")' = Has("sram") /\ Has("logo")' = Has("logo")
      <4>1. CASE header' = Normalised(header)
        <5>1. header'.flags = IF "sram" \in header.flags THEN header.flags \ {"swap"} ELSE header.flags
          BY <4>1 DEF Normalised, HeaderInv, IsFile
        <5> QED BY <5>1 DEF Has
      <4>2. CASE header' = header BY <4>2 DEF Has
      <4> QED BY <2>2, <4>1, <4>2 DEF Check
    <3> QED BY <2>2, <2>a, <3>1 DEF Check, Go, KeepPlayer, player, CamInv
  <2>3. CASE UnpackLogo
    <3>1. pc = "logo" /\ pc' = "fb" /\ header' = header /\ pl' = pl
      BY <2>3 DEF UnpackLogo, Go, player
    <3>2. CASE Opens(0) /\ buf' = [buf EXCEPT !["cam"] = Drawn(Stream(0))]
      <4>1. 2 <= Len(header.body) /\ header.body[2].kind = "gz" BY <3>2 DEF Opens
      <4>2. Stream(0) = Logo /\ Has("logo")
        BY <3>1, <4>1 DEF HeaderInv, Numbered, Stream, HasLogo, Has
      <4>3. buf'["cam"] = Drawn(Logo) BY <1>a, <3>2, <4>2
      <4> QED BY <2>a, <3>1, <4>2, <4>3 DEF CamInv, Has
    <3>3. CASE refused' = TRUE BY <3>3 DEF CamInv
    <3> QED BY <2>3, <3>2, <3>3 DEF UnpackLogo
  <2>4. CASE Clear
    <3>1. ~Has("sram") => buf'["cam"] = buf["cam"] BY <1>a, <2>4 DEF Clear
    <3> QED BY <2>4, <2>a, <3>1 DEF Clear, Go, KeepPlayer, player, CamInv, Has
  <2>5. CASE AllocSram
    BY <2>a, <2>5 DEF AllocSram, Alloc, Go, KeepPlayer, player, CamInv, Has
  <2>6. CASE Thread BY <2>a, <2>6 DEF Thread, Go, CamInv, Has
  <2>7. CASE Begin \/ Stat \/ AllocAnim \/ AllocFb \/ Fail
    BY <2>a, <2>7 DEF Begin, Stat, AllocAnim, AllocFb, Alloc, Fail, Go, KeepPlayer, player, CamInv, Has
  <2> QED BY <1>1, <2>1, <2>2, <2>3, <2>4, <2>5, <2>6, <2>7 DEF Load
<1>2. CASE Play
  <2>a. pc = "run" /\ pc' = "run" /\ header' = header /\ refused' \in {refused, TRUE}
    BY <1>2, PlayFrame DEF ThreadInv, loader, Play, PlBegin, PlSync, PlTurn, PlDraw, PlDrawn, PlFlip, PlNext,
       PlEnd, PlExit, SetFrameBuf
  <2>1. ~Has("sram") => buf'["cam"] = buf["cam"]
    <3>1. CASE \E u, c : buf' = [buf EXCEPT ![Target(u)] = c] BY <1>a, <1>b, <3>1
    <3>2. CASE buf' = buf BY <3>2
    <3> QED BY <1>2, <3>1, <3>2, PlayFrame DEF PlDraw, PlDrawn
  <2>2. pl' \in {"exit", "gone"} => PlBegin \/ PlEnd \/ PlExit
    BY <1>2 DEF Play, PlSync, PlTurn, PlDraw, PlDrawn, PlFlip, PlNext
  <2>3. ~Has("sram") /\ ~refused' /\ pl' \in {"exit", "gone"} => asked' = "cam"
    <3>1. CASE PlBegin BY <3>1 DEF PlBegin
    <3>2. CASE PlEnd BY <3>2 DEF PlEnd, SetFrameBuf
    <3>3. CASE PlExit BY <3>3 DEF PlExit, CamInv
    <3> QED BY <2>2, <3>1, <3>2, <3>3
  <2> QED BY <2>a, <2>1, <2>3 DEF CamInv, Has
<1>3. CASE ShellUp \/ Stop \/ StopDone \/ Vblank \/ UNCHANGED vars
  BY <1>3, OtherFrame DEF CamInv, Has, loader, player
<1> QED BY <1>1, <1>2, <1>3 DEF Next

(* A stream that opens where the walk finds frame k is frame k, and counted. *)
LEMMA OpensCounted ==
    ASSUME HeaderInv, NEW k \in Nat, Opens(StartAt(k))
    PROVE  Stream(StartAt(k)) = k /\ k < header.count
<1>1. header.body \in Seq(Unit) /\ HasLogo \in BOOLEAN /\ Len(header.body) \in Nat
  BY DEF HeaderInv, IsFile, HasLogo
<1>2. StartAt(k) \in Nat /\ StartAt(k) >= k BY <1>1, StartGrows DEF StartAt
<1>3. StartAt(k) + 2 <= Len(header.body) /\ header.body[StartAt(k) + 2].kind = "gz"
  BY <1>1, <1>2 DEF Opens
<1>4. k \in 0 .. Len(header.body) BY <1>1, <1>2, <1>3
<1>5. Start(header.body, HasLogo)[k] + 2 <= Len(header.body)
      /\ header.body[Start(header.body, HasLogo)[k] + 2].kind = "gz"
  BY <1>3 DEF StartAt
<1>6. header.body[Start(header.body, HasLogo)[k] + 2].of = k /\ k < header.count
  BY <1>4, <1>5 DEF HeaderInv, Numbered
<1> QED BY <1>6 DEF Stream, StartAt

(* In an intact file every frame that two digits can number opens. *)
LEMMA IntactOpens ==
    ASSUME HeaderInv, header.intact, NEW k \in Nat, k < header.count, k < Base * Base
    PROVE  Opens(StartAt(k))
<1>0. header.count \in Nat /\ header.body \in Seq(Unit) /\ HasLogo \in BOOLEAN
  BY DEF HeaderInv, IsFile, HasLogo
<1>1. PICK o : o = StartAt(k) OBVIOUS
<1>2. o \in Nat BY <1>0, <1>1, StartGrows DEF StartAt
<1>3. FrameAt(header.body, o, k)
  <2>1. Intact(header.body, header.count, HasLogo) BY DEF HeaderInv
  <2>2. k \in 0 .. header.count - 1 BY <1>0
  <2> QED BY <1>1, <2>1, <2>2 DEF Intact, StartAt
<1>4. SizeAt(header.body, o) \in Nat BY <1>0, <1>2, AfterNat
<1>5. /\ SizeAt(header.body, o) >= 1 /\ o + 1 + SizeAt(header.body, o) <= Len(header.body)
      /\ header.body[o + 1 + 1] = Piece(k, 1)
  BY <1>3, <1>4 DEF FrameAt, After
<1>6. o + 2 \in 1 .. Len(header.body) /\ o + 1 + 1 = o + 2
  <2>1. Len(header.body) \in Nat BY <1>0
  <2> QED BY <1>2, <1>4, <1>5, <2>1
<1>7. header.body[o + 2] = Piece(k, 1) BY <1>5, <1>6
<1>8. header.body[o + 2].kind = "gz" /\ header.body[o + 2].n = 1 /\ header.body[o + 2].of = k
  BY <1>7 DEF Piece
<1>9. DotAt(k) \in {17, 18} BY BootAnimAssumption DEF DotAt, Logo
<1> QED BY <1>1, <1>3, <1>6, <1>8, <1>9 DEF Opens, FrameAt

(* The walk and the count of frames stay together. *)
LEMMA FrameStep ==
    ASSUME HeaderInv, HeaderInv', ThreadInv, FrameInv, [Next]_vars
    PROVE  FrameInv'
<1>a. header.body \in Seq(Unit) /\ header.count \in Nat /\ HasLogo \in BOOLEAN
  BY DEF HeaderInv, IsFile, HasLogo
<1>b. \A k \in Nat : StartAt(k) \in Nat /\ StartAt(k + 1) = After(header.body, StartAt(k))
  BY <1>a, StartGrows, StartUnfolds DEF StartAt
<1>c. StartAt(0) = FirstOff
  BY <1>a, StartUnfolds DEF StartAt, FirstOffset, FirstOff, HasLogo, Has
<1>1. CASE Load
  <2>1. /\ pl = "none" /\ last = -1 /\ last' = last /\ cur_frame' = cur_frame /\ cur_off' = cur_off
        /\ pl' \in {"none", "begin"}
    BY <1>1, LoadFrame DEF ThreadInv, FrameInv, Thread, player
  <2>2. header'.count \in Nat BY DEF HeaderInv, IsFile
  <2> QED BY <2>1, <2>2 DEF FrameInv, PlaysThrough
<1>2. CASE Play
  <2>a. header' = header /\ pc = "run"
    BY <1>2, PlayFrame DEF loader, ThreadInv
  <2>b. /\ \A k : StartAt(k)' = StartAt(k) /\ Opens(k)' = Opens(k)
        /\ Has("loop")' = Has("loop") /\ Has("logo")' = Has("logo")
    BY <2>a DEF StartAt, HasLogo, Opens, Has
  <2>c. cur_frame \in Nat /\ cur_off \in Nat /\ last \in -1 .. header.count - 1 BY DEF FrameInv
  <2>1. CASE PlBegin
    <3>1. /\ pl = "begin" /\ last = -1 /\ last' = last
          /\ pl' \in {"sync", "exit"} /\ cur_off' = cur_off /\ cur_frame' = cur_frame
      BY <2>1 DEF PlBegin, FrameInv
    <3> QED BY <2>a, <2>b, <2>c, <3>1 DEF FrameInv, PlaysThrough
  <2>8. CASE PlSync
    <3>1. /\ pl = "sync" /\ last = -1 /\ last' = last
          /\ pl' = "head" /\ cur_off' = FirstOff /\ cur_frame' = 0
      BY <2>8 DEF PlSync, FrameInv
    <3>2. cur_frame' \in Nat /\ cur_off' \in Nat BY <1>b, <1>c, <2>c, <3>1
    <3> QED BY <1>a, <1>c, <2>a, <2>b, <2>c, <3>1, <3>2 DEF FrameInv, PlaysThrough
  <2>2. CASE PlTurn
    <3>1. pl = "head" /\ last' = last /\ refused' = refused BY <2>2 DEF PlTurn
    <3>2. /\ cur_off = StartAt(cur_frame) /\ cur_frame <= header.count
          /\ \/ last = cur_frame - 1
             \/ cur_frame = 0 /\ Has("loop") /\ last = header.count - 1
      BY <3>1 DEF FrameInv
    <3>3. CASE pl' = "end" /\ cut' = TRUE /\ UNCHANGED <<cur_frame, cur_off>>
      BY <1>a, <2>a, <2>b, <2>c, <3>1, <3>3 DEF FrameInv, PlaysThrough
    <3>4. CASE cur_frame # header.count /\ pl' = "draw" /\ UNCHANGED <<cut, cur_frame, cur_off>>
      BY <1>a, <2>a, <2>b, <2>c, <3>1, <3>2, <3>4 DEF FrameInv, PlaysThrough
    <3>5. CASE cur_frame = header.count /\ Has("loop") /\ pl' = "draw" /\ Rewind /\ UNCHANGED cut
      <4>1. cur_frame' = 0 /\ cur_off' = FirstOff BY <3>5 DEF Rewind
      <4>2. last = header.count - 1 BY <1>a, <2>c, <3>2, <3>5
      <4>3. cur_off' \in Nat BY <1>b, <1>c, <4>1
      <4> QED BY <1>a, <1>c, <2>a, <2>b, <2>c, <3>1, <3>5, <4>1, <4>2, <4>3 DEF FrameInv, PlaysThrough
    <3>6. CASE cur_frame = header.count /\ ~Has("loop") /\ pl' = "end" /\ UNCHANGED <<cut, cur_frame, cur_off>>
      <4>1. last = header.count - 1 BY <3>2, <3>6
      <4> QED BY <1>a, <2>a, <2>b, <2>c, <3>1, <3>6, <4>1 DEF FrameInv, PlaysThrough
    <3> QED BY <2>2, <3>3, <3>4, <3>5, <3>6 DEF PlTurn
  <2>3. CASE PlDraw
    <3>1. pl = "draw" /\ UNCHANGED <<cur_frame, cur_off, last, refused, cut>> BY <2>3 DEF PlDraw
    <3>2. /\ cur_off = StartAt(cur_frame) /\ (cur_frame < header.count \/ header.count = 0)
          /\ \/ last = cur_frame - 1
             \/ cur_frame = 0 /\ Has("loop") /\ last = header.count - 1
      BY <3>1 DEF FrameInv
    <3>3. CASE Opens(cur_off) /\ pl' = "drawing"
      <4>1. cur_frame < header.count BY <2>c, <3>2, <3>3, OpensCounted
      <4> QED BY <2>a, <2>b, <2>c, <3>1, <3>2, <3>3, <4>1 DEF FrameInv, PlaysThrough
    <3>4. CASE ~Opens(cur_off) /\ pl' = "end"
      <4>1. ~(header.intact /\ header.count \in 1 .. Base * Base)
        <5> SUFFICES ASSUME header.intact, header.count \in 1 .. Base * Base PROVE FALSE OBVIOUS
        <5>1. cur_frame < header.count /\ cur_frame < Base * Base
          <6>1. PICK n : n = Base * Base OBVIOUS
          <6>2. n \in Nat BY <6>1, BootAnimAssumption
          <6>3. header.count \in 1 .. n BY <6>1
          <6>4. cur_frame < header.count /\ cur_frame < n BY <2>c, <3>2, <6>2, <6>3
          <6> QED BY <6>1, <6>4
        <5> QED BY <2>c, <3>2, <3>4, <5>1, IntactOpens
      <4>2. PlaysThrough' BY <2>a, <4>1 DEF PlaysThrough
      <4> QED BY <2>a, <2>b, <2>c, <3>1, <3>4, <4>2 DEF FrameInv
    <3> QED BY <2>3, <3>3, <3>4 DEF PlDraw
  <2>4. CASE PlDrawn
    <3>1. pl = "drawing" /\ UNCHANGED <<cur_frame, cur_off, cut>> BY <2>4 DEF PlDrawn
    <3>2. cur_off = StartAt(cur_frame) /\ cur_frame < header.count /\ Opens(cur_off)
      BY <3>1 DEF FrameInv
    <3>3. Stream(cur_off) = cur_frame BY <2>c, <3>2, OpensCounted
    <3>4. CASE pl' \in {"flip", "next"} /\ last' = Stream(cur_off)
      BY <1>a, <2>a, <2>b, <2>c, <3>1, <3>2, <3>3, <3>4 DEF FrameInv, PlaysThrough
    <3>5. CASE pl' = "end" /\ refused' = TRUE /\ last' = last
      BY <2>a, <2>b, <2>c, <3>1, <3>5 DEF FrameInv, PlaysThrough
    <3> QED BY <2>4, <3>4, <3>5 DEF PlDrawn
  <2>5. CASE PlFlip
    <3>1. pl = "flip" /\ pl' = "next" /\ UNCHANGED <<cur_frame, cur_off, last>> BY <2>5 DEF PlFlip
    <3> QED BY <2>a, <2>b, <2>c, <3>1 DEF FrameInv, PlaysThrough
  <2>6. CASE PlNext
    <3>1. /\ pl = "next" /\ pl' = "head" /\ last' = last /\ cur_frame' = cur_frame + 1
          /\ cur_off' = After(header.body, cur_off)
      BY <2>6 DEF PlNext, NextOff
    <3>2. cur_off = StartAt(cur_frame) /\ cur_frame < header.count /\ last = cur_frame
      BY <3>1 DEF FrameInv
    <3>3. cur_off' = StartAt(cur_frame + 1) /\ cur_off' \in Nat BY <1>b, <2>c, <3>1, <3>2
    <3> QED BY <1>a, <2>a, <2>b, <2>c, <3>1, <3>2, <3>3 DEF FrameInv, PlaysThrough
  <2>7. CASE PlEnd \/ PlExit
    <3>1. pl' \in {"exit", "gone"} /\ UNCHANGED <<cur_frame, cur_off, last>> BY <2>7 DEF PlEnd, PlExit
    <3> QED BY <2>a, <2>b, <2>c, <3>1 DEF FrameInv, PlaysThrough
  <2> QED BY <1>2, <2>1, <2>2, <2>3, <2>4, <2>5, <2>6, <2>7, <2>8 DEF Play
<1>3. CASE ShellUp \/ Stop \/ StopDone \/ Vblank \/ UNCHANGED vars
  <2>1. UNCHANGED <<header, pl, cur_frame, cur_off, last, refused, cut>>
    BY <1>3, OtherFrame DEF loader, player
  <2> QED BY <2>1 DEF FrameInv, PlaysThrough, StartAt, HasLogo, Opens, Has
<1> QED BY <1>1, <1>2, <1>3 DEF Next

-----------------------------------------------------------------------------
(* The invariant is inductive.  *)
THEOREM PlayerInvariant == Spec => []IInv
<1>1. Init => IInv BY InitInv DEF IInv
<1>2. IInv /\ [Next]_vars => IInv'
  <2> SUFFICES ASSUME IInv, [Next]_vars PROVE IInv' OBVIOUS
  <2>0. HeaderInv /\ ThreadInv /\ FbInv /\ MemInv /\ FlipInv /\ CamInv /\ FrameInv BY DEF IInv
  <2>1. HeaderInv' BY <2>0, HeaderStep
  <2>2. ThreadInv' BY <2>0, ThreadStep
  <2>3. FbInv' BY <2>0, FbStep
  <2>4. MemInv' BY <2>0, MemStep
  <2>5. FlipInv' BY <2>0, TearStep
  <2>6. CamInv' BY <2>0, CamStep
  <2>7. FrameInv' BY <2>0, <2>1, FrameStep
  <2> QED BY <2>1, <2>2, <2>3, <2>4, <2>5, <2>6, <2>7 DEF IInv
<1> QED BY <1>1, <1>2, PTL DEF Spec

(* main.c frees the blocks after the thread's last use of them, and module_stop
   returns after that.  *)
THEOREM BlocksStayHeld == Spec => []BlocksHeld
<1>1. IInv => BlocksHeld
  <2> SUFFICES ASSUME IInv PROVE BlocksHeld OBVIOUS
  <2>1. ThreadInv /\ FbInv /\ MemInv /\ HeaderInv BY DEF IInv
  <2>2. Playing => mem["anim"] = "held" /\ mem["cam"] = "held" /\ (~Has("sram") => mem["fb"] = "held")
    BY <2>1 DEF MemInv, Alive
  <2>3. pl \in {"drawing", "flip"} => Target(used_fb) # "null"
    BY <2>1 DEF FbInv, ThreadInv, HeaderInv, Checked, Target
  <2>4. (pl = "gone" \/ pc = "failed" \/ stop = "done") => \A b \in Block : mem[b] # "held"
    BY <2>1 DEF MemInv, ThreadInv
  <2> QED BY <2>2, <2>3, <2>4 DEF BlocksHeld
<1> QED BY <1>1, PlayerInvariant, PTL

(* With swapping framebuffers the display turns to whole pictures only, and to
   none that is being drawn.  *)
THEOREM FlippedWhole == Spec => []TurnsToWhole
<1>1. IInv => TurnsToWhole
  <2> SUFFICES ASSUME IInv, Playing, pl # "begin", Has("swap"), ~refused
               PROVE  buf[asked].what # "part" /\ (pl = "drawing" => asked # Target(used_fb))
    BY DEF TurnsToWhole
  <2>1. pc = "run" /\ pl \in {"sync", "head", "draw", "drawing", "flip", "next", "end"}
    BY DEF IInv, ThreadInv, Playing
  <2>2. buf[asked].what # "part" /\ (pl = "drawing" => asked = Target(1 - used_fb))
    BY <2>1 DEF IInv, FlipInv
  <2>3. ~Has("sram") BY <2>1 DEF IInv, HeaderInv, Checked
  <2>4. Target(used_fb) # Target(1 - used_fb) BY <2>3 DEF IInv, FbInv, Target
  <2> QED BY <2>2, <2>4
<1> QED BY <1>1, PlayerInvariant, PTL

(* An intact file that two digits can number ends with its last frame.  *)
THEOREM PlayedThrough == Spec => []PlaysThrough
<1>1. IInv => PlaysThrough BY DEF IInv, FrameInv
<1> QED BY <1>1, PlayerInvariant, PTL

(* The logo in the SRAM survives the frames and is what the display is left to
   turn to at the end.  *)
THEOREM LogoAtTheEnd == Spec => []EndsWithLogo
<1>1. IInv => EndsWithLogo
  <2> SUFFICES ASSUME IInv, pl \in {"exit", "gone"}, ~Has("sram"), ~refused
               PROVE  asked = "cam" /\ buf["cam"] = IF Has("logo") THEN Drawn(Logo) ELSE Boot
    BY DEF EndsWithLogo
  <2>1. pc = "run" BY DEF IInv, ThreadInv
  <2> QED BY <2>1 DEF IInv, CamInv
<1> QED BY <1>1, PlayerInvariant, PTL

(* What is left of the types. *)
LoaderAt == {"start", "stat", "anim", "read", "check", "sram", "logo", "fb", "clear",
             "thread", "fail", "failed", "run", "off"}
PlayerAt == {"none", "begin", "sync", "head", "draw", "drawing", "flip", "next", "end", "exit", "gone"}
Types ==
    /\ pc \in LoaderAt /\ pl \in PlayerAt
    /\ stop \in {"no", "waiting", "done"}
    /\ show \in Screen \cup {"boot"} /\ asked \in Screen \cup {"boot"}
    /\ emergexit \in BOOLEAN /\ shell \in BOOLEAN
    /\ refused \in BOOLEAN /\ cut \in BOOLEAN

LEMMA TypesStep == IInv /\ Types /\ [Next]_vars => Types'
<1> SUFFICES ASSUME IInv, Types, [Next]_vars PROVE Types' OBVIOUS
<1>1. CASE Load
  BY <1>1 DEF Types, LoaderAt, PlayerAt, Load, Begin, Stat, AllocAnim, Alloc, Read, Check, AllocSram, UnpackLogo,
     AllocFb, Clear, Thread, Fail, Go, KeepPlayer, player, outside
<1>2. CASE Play
  <2>a. pc = "run" BY <1>2, PlayFrame DEF IInv, ThreadInv
  <2>b. Target(used_fb) \in Screen
    BY <2>a DEF IInv, FbInv, HeaderInv, Checked, Target, Screen
  <2>c. "cam" \in Screen BY DEF Screen
  <2>1. CASE PlBegin BY <2>1, <2>b DEF PlBegin, Types, PlayerAt, Keep, loader, outside
  <2>9. CASE PlSync BY <2>9 DEF PlSync, Types, PlayerAt, Keep, loader, outside
  <2>2. CASE PlTurn
    <3>1. Keep /\ UNCHANGED <<show, asked, refused>> BY <2>2 DEF PlTurn
    <3>2. UNCHANGED <<pc, stop, emergexit, shell>> BY <3>1 DEF Keep, loader, outside
    <3>3. pl' \in {"end", "draw"} BY <2>2 DEF PlTurn
    <3>4. cut' = TRUE \/ cut' = cut BY <2>2 DEF PlTurn
    <3>5. cut' \in BOOLEAN BY <3>4 DEF Types
    <3>6. pl' \in PlayerAt BY <3>3 DEF PlayerAt
    <3> QED BY <3>1, <3>2, <3>5, <3>6 DEF Types
  <2>3. CASE PlDraw
    <3>1. Keep /\ UNCHANGED <<show, asked, refused, cut>> BY <2>3 DEF PlDraw
    <3>2. UNCHANGED <<pc, stop, emergexit, shell>> BY <3>1 DEF Keep, loader, outside
    <3>3. pl' \in {"end", "drawing"} BY <2>3 DEF PlDraw
    <3>4. pl' \in PlayerAt BY <3>3 DEF PlayerAt
    <3> QED BY <3>1, <3>2, <3>4 DEF Types
  <2>4. CASE PlDrawn BY <2>4 DEF PlDrawn, Types, PlayerAt, Keep, loader, outside
  <2>5. CASE PlFlip BY <2>5, <2>b DEF PlFlip, SetFrameBuf, Types, PlayerAt, Keep, loader, outside
  <2>6. CASE PlNext BY <2>6 DEF PlNext, Types, PlayerAt, Keep, loader, outside
  <2>7. CASE PlEnd BY <2>7, <2>c DEF PlEnd, SetFrameBuf, Types, PlayerAt, Keep, loader, outside
  <2>8. CASE PlExit BY <2>8 DEF PlExit, Types, PlayerAt, Keep, loader, outside
  <2> QED BY <1>2, <2>1, <2>2, <2>3, <2>4, <2>5, <2>6, <2>7, <2>8, <2>9 DEF Play
<1>3. CASE ShellUp \/ Stop \/ StopDone \/ Vblank \/ UNCHANGED vars
  BY <1>3 DEF Types, ShellUp, Stop, StopDone, Vblank, outside, vars, loader, player
<1> QED BY <1>1, <1>2, <1>3 DEF Next

(* Every variable keeps its type; in particular the display never scans out the
   second framebuffer of a file drawn into the SRAM, which does not exist.  *)
THEOREM PlayerTypeCorrect == Spec => []TypeOK
<1>1. Init => Types BY DEF Init, Types, LoaderAt, PlayerAt, Screen
<1>2. IInv /\ Types => TypeOK
  BY DEF IInv, Types, LoaderAt, PlayerAt, TypeOK, HeaderInv, FbInv, MemInv, FlipInv, FrameInv
<1> QED BY <1>1, <1>2, TypesStep, PlayerInvariant, PTL DEF Spec

(* Each step of the player is a step of the slide show, or none of it: frames
   are drawn in the file's order, and anew only by a file that loops.  *)
THEOREM FramesDrawnInOrder == Spec => FramesInOrder
<1> USE DEF Has
<1>1. Init => Slides!Init
  <2> SUFFICES ASSUME Init PROVE Slides!Init OBVIOUS
  <2>1. header.count = 0 /\ header.flags = {} BY DEF Init, NoFile
  <2> QED BY <2>1 DEF Init, Slides!Init
<1>2. IInv /\ [Next]_vars =>
        [Slides!Next]_<<last, header.count, Has("loop"), pl \in {"end", "exit", "gone"}>>
  <2> SUFFICES ASSUME IInv, [Next]_vars
               PROVE  Slides!Next \/ UNCHANGED <<last, header.count, Has("loop"), pl \in {"end", "exit", "gone"}>>
    OBVIOUS
  <2>0. /\ HeaderInv /\ ThreadInv /\ FrameInv BY DEF IInv
  <2>1. CASE Load
    <3>1. /\ pl = "none" /\ last = -1 /\ last' = last /\ pl' \in {"none", "begin"}
      BY <2>0, <2>1, LoadFrame DEF ThreadInv, FrameInv, Thread, player
    <3> QED BY <3>1 DEF Slides!Next, Slides!Open
  <2>2. CASE Play
    <3>a. header' = header BY <2>2, PlayFrame DEF loader
    <3>1. CASE PlDrawn
      <4>1. pl = "drawing" BY <3>1 DEF PlDrawn
      <4>2. /\ cur_frame \in Nat /\ header.count \in Nat /\ last \in Int
            /\ cur_off = StartAt(cur_frame) /\ cur_frame < header.count /\ Opens(cur_off)
            /\ \/ last = cur_frame - 1
               \/ cur_frame = 0 /\ Has("loop") /\ last = header.count - 1
        BY <2>0, <4>1 DEF FrameInv, HeaderInv, IsFile
      <4>3. Stream(cur_off) = cur_frame BY <2>0, <4>2, OpensCounted
      <4>4. CASE pl' \in {"flip", "next"} /\ last' = Stream(cur_off)
        BY <3>a, <4>1, <4>2, <4>3, <4>4 DEF Slides!Next, Slides!Draw
      <4>5. CASE pl' = "end" /\ last' = last
        BY <3>a, <4>1, <4>5 DEF Slides!Next, Slides!End
      <4> QED BY <3>1, <4>4, <4>5 DEF PlDrawn
    <3>2. CASE ~PlDrawn
      <4>1. last' = last BY <2>2, <3>2, PlayFrame
      <4>2. pl \in {"end", "exit", "gone"} => pl' \in {"end", "exit", "gone"}
        BY <2>2 DEF Play, PlBegin, PlSync, PlTurn, PlDraw, PlDrawn, PlFlip, PlNext, PlEnd, PlExit
      <4> QED BY <3>a, <4>1, <4>2 DEF Slides!Next, Slides!End
    <3> QED BY <3>1, <3>2
  <2>3. CASE ShellUp \/ Stop \/ StopDone \/ Vblank \/ UNCHANGED vars
    BY <2>3, OtherFrame DEF loader, player
  <2> QED BY <2>1, <2>2, <2>3 DEF Next
<1> QED BY <1>1, <1>2, PlayerInvariant, PTL DEF Spec, FramesInOrder, Slides!Safety
=============================================================================
