------------------------------ MODULE BootAnim ------------------------------
(***************************************************************************)
(* The boot animation player of vita-bootanim: kernel/main.c.              *)
(* module_start loads ur0:tai/boot.rcf and starts a thread that draws the  *)
(* frames into one framebuffer, or into two by turns, until they are over, *)
(* the shell comes up or module_stop asks it to end.  The display turns to *)
(* the framebuffer it was asked for last at a vertical blank.              *)
(* The file's layout is module Rcf's; beyond the file the block it is read *)
(* into holds zeros.                                                       *)
(***************************************************************************)
EXTENDS Rcf

CONSTANTS
    Files,  \* what ur0:tai/boot.rcf may be
    Base    \* 10: base of the frame numbers in the names inside the streams

Flag == {"swap", "sram", "logo", "loop"}
IsFile(f) ==
    /\ f.flags \subseteq Flag /\ f.count \in Nat
    /\ f.known \in BOOLEAN     \* magic and version are right
    /\ f.sized \in BOOLEAN     \* width and height are not zero
    /\ f.intact \in BOOLEAN    \* holds the frames it counts
    /\ f.body \in Seq(Unit)

(* The name inside a stream is that of its place in the file, and none is
   there that is not counted; the file may be cut, or count too many. *)
Numbered(b, count, logo) ==
    /\ logo /\ 2 <= Len(b) /\ b[2].kind = "gz" => b[2].of = Logo
    /\ \A i \in 0 .. Len(b) :
         LET at == Start(b, logo)[i] + 2
         IN at <= Len(b) /\ b[at].kind = "gz" => b[at].of = i /\ i < count

ASSUME BootAnimAssumption ==
    /\ Base \in Nat \ {0, 1}
    /\ \A f \in Files :
         /\ IsFile(f)
         /\ f.intact <=> Intact(f.body, f.count, "logo" \in f.flags)
         /\ Numbered(f.body, f.count, "logo" \in f.flags)

VARIABLES
    pc,        \* where module_start stands
    pl,        \* where play_bootanim stands
    stop,      \* module_stop: "no", "waiting", "done"
    header,    \* the file in memory
    mem,       \* the three blocks: "none", "held", "freed"
    buf,       \* contents of the framebuffers and of the camera's SRAM
    show,      \* the memory the display scans out
    asked,     \* the memory it was asked for last
    used_fb,   \* framebuffer drawn to
    cur_frame,
    cur_off,
    emergexit,
    shell,     \* the shell's process exists
    last,      \* (history) the frame drawn last
    refused,   \* (history) the inflater or the display refused something
    cut        \* (history) the player was told to end

loader == <<pc, header>>
player == <<pl, used_fb, cur_frame, cur_off>>
outside == <<stop, emergexit, shell>>
vars == <<pc, pl, stop, header, mem, buf, show, asked, used_fb, cur_frame, cur_off,
          emergexit, shell, last, refused, cut>>

Block == {"anim", "fb", "cam"}
Screen == {"fb0", "fb1", "cam"}
Content == [what : {"boot", "clear", "part", "frame"}, of : Int]
Boot  == [what |-> "boot", of |-> 0]
Blank == [what |-> "clear", of |-> 0]
Drawn(i) == [what |-> "frame", of |-> i]
Torn(i)  == [what |-> "part", of |-> i]

Has(flag) == flag \in header.flags

(* framebuffer[u]: with the sram flag the SRAM itself and no second one. *)
Target(u) == CASE Has("sram") -> IF u = 0 THEN "cam" ELSE "null"
               [] ~Has("sram") -> IF u = 0 THEN "fb0" ELSE "fb1"

TypeOK ==
    /\ pc \in {"start", "stat", "anim", "read", "check", "sram", "logo", "fb", "clear",
               "thread", "fail", "failed", "run", "off"}
    /\ pl \in {"none", "begin", "sync", "head", "draw", "drawing", "flip", "next", "end", "exit", "gone"}
    /\ stop \in {"no", "waiting", "done"}
    /\ IsFile(header)
    /\ mem \in [Block -> {"none", "held", "freed"}]
    /\ buf \in [Screen -> Content]
    /\ show \in Screen \cup {"boot"} /\ asked \in Screen \cup {"boot"}
    /\ used_fb \in {0, 1} /\ cur_frame \in Nat /\ cur_off \in Nat
    /\ emergexit \in BOOLEAN /\ shell \in BOOLEAN
    /\ last \in -1 .. header.count - 1 /\ refused \in BOOLEAN /\ cut \in BOOLEAN

-----------------------------------------------------------------------------
NoFile == [flags |-> {}, count |-> 0, known |-> FALSE, sized |-> FALSE,
           intact |-> FALSE, body |-> <<>>]

Init ==
    /\ pc = "start" /\ pl = "none" /\ stop = "no"
    /\ header = NoFile
    /\ mem = [b \in Block |-> "none"]
    /\ buf = [s \in Screen |-> Boot] /\ show = "boot" /\ asked = "boot"
    /\ used_fb = 0 /\ cur_frame = 0 /\ cur_off = 0
    /\ emergexit = FALSE /\ shell = FALSE
    /\ last = -1 /\ refused = FALSE /\ cut = FALSE

(***************************************************************************)
(* module_start and init_bootanim.                                         *)
(***************************************************************************)
Go(to) == pc' = to
KeepPlayer == UNCHANGED <<player, outside, show, asked, last, refused, cut>>

(* Nothing is loaded when the left trigger is held. *)
Begin ==
    /\ pc = "start" /\ (Go("stat") \/ Go("off"))
    /\ UNCHANGED <<header, mem, buf>> /\ KeepPlayer

Stat ==
    /\ pc = "stat" /\ (Go("anim") \/ Go("fail"))
    /\ UNCHANGED <<header, mem, buf>> /\ KeepPlayer

Alloc(block, to) ==
    /\ \/ mem' = [mem EXCEPT ![block] = "held"] /\ Go(to)
       \/ UNCHANGED mem /\ Go("fail")
    /\ UNCHANGED <<header, buf>> /\ KeepPlayer

AllocAnim == pc = "anim" /\ Alloc("anim", "read")

Read ==
    /\ pc = "read" /\ Go("check")
    /\ header' \in Files
    /\ UNCHANGED <<mem, buf>> /\ KeepPlayer

Normalised(h) ==
    [h EXCEPT !.flags = IF "sram" \in @ THEN @ \ {"swap"} ELSE @]

Check ==
    /\ pc = "check"
    /\ \/ /\ header.known /\ header.sized
          /\ header' = Normalised(header) /\ Go("sram")
       \/ /\ ~(header.known /\ header.sized)
          /\ UNCHANGED header /\ Go("fail")
    /\ UNCHANGED <<mem, buf>> /\ KeepPlayer

AllocSram ==
    /\ pc = "sram"
    /\ Alloc("cam", IF Has("sram") THEN "clear" ELSE IF Has("logo") THEN "logo" ELSE "fb")

-----------------------------------------------------------------------------
(* ungzip_frame: the stream starts after the name gzip stored; the name's
   last dot is looked for at 17 and 18 (frame_N.rgba, frame_NN.rgba,
   end_logo.rgba).  The third attempt tests 18 once more. *)
DotAt(i) == IF i = Logo THEN 18 ELSE
            IF i < Base THEN 17 ELSE IF i < Base * Base THEN 18 ELSE 19
Opens(o) ==
    /\ o + 2 \in 1 .. Len(header.body)
    /\ header.body[o + 2].kind = "gz" /\ header.body[o + 2].n = 1
    /\ DotAt(header.body[o + 2].of) \in {17, 18}
    /\ After(header.body, o) <= Len(header.body)
Stream(o) == header.body[o + 2].of

(* The logo is unpacked into the SRAM; whether that worked is not looked at. *)
UnpackLogo ==
    /\ pc = "logo" /\ Go("fb")
    /\ \/ Opens(0) /\ buf' = [buf EXCEPT !["cam"] = Drawn(Stream(0))] /\ UNCHANGED refused
       \/ buf' = [buf EXCEPT !["cam"] = Torn(Logo)] /\ refused' = TRUE
       \/ UNCHANGED buf /\ refused' = TRUE
    /\ UNCHANGED <<header, mem, show, asked, player, outside, last, cut>>

AllocFb == pc = "fb" /\ Alloc("fb", "clear")

Clear ==
    /\ pc = "clear" /\ Go("thread")
    /\ buf' = IF Has("sram") THEN [buf EXCEPT !["cam"] = Blank]
                             ELSE [buf EXCEPT !["fb0"] = Blank, !["fb1"] = Blank]
    /\ UNCHANGED <<header, mem>> /\ KeepPlayer

Thread ==
    /\ pc = "thread"
    /\ \/ Go("run") /\ pl' = "begin"
       \/ Go("fail") /\ UNCHANGED pl
    /\ UNCHANGED <<header, mem, buf, show, asked, used_fb, cur_frame, cur_off, outside,
                   last, refused, cut>>

(* The blocks that were obtained are given back. *)
Freed == [b \in Block |-> IF mem[b] = "held" THEN "freed" ELSE mem[b]]
Fail ==
    /\ pc = "fail" /\ Go("failed")
    /\ mem' = Freed
    /\ UNCHANGED <<header, buf>> /\ KeepPlayer

Load == Begin \/ Stat \/ AllocAnim \/ Read \/ Check \/ AllocSram \/ UnpackLogo
        \/ AllocFb \/ Clear \/ Thread \/ Fail

-----------------------------------------------------------------------------
(***************************************************************************)
(* play_bootanim.                                                          *)
(***************************************************************************)
Keep == UNCHANGED <<loader, outside>>

(* ksceDisplaySetFrameBuf, asked for the next frame; it may refuse. *)
SetFrameBuf(s) ==
    \/ asked' = s /\ UNCHANGED refused
    \/ UNCHANGED asked /\ refused' = TRUE

(* variant: the logo is taken for the first frame *)
FirstOffZero == 0
FirstOff == IF Has("logo") THEN After(header.body, 0) ELSE 0

PlBegin ==
    /\ pl = "begin"
    /\ \/ asked' = Target(used_fb) /\ pl' = "sync" /\ UNCHANGED refused
       \/ pl' = "exit" /\ refused' = TRUE /\ UNCHANGED asked
    /\ UNCHANGED <<mem, buf, show, used_fb, cur_frame, cur_off, last, cut>> /\ Keep

(* The only wait for the vertical blank that a change of the framebuffer is
   given; with two framebuffers the loop does not wait. *)
PlSync ==
    /\ pl = "sync" /\ show = asked /\ pl' = "head"
    /\ cur_off' = FirstOff /\ cur_frame' = 0
    /\ UNCHANGED <<mem, buf, show, asked, used_fb, last, refused, cut>> /\ Keep

(* variant: only module_stop is noticed *)
ToldByStop == emergexit
Told == emergexit \/ shell

(* variant: the wrap leaves the offset at the end of the file *)
RewindCount == cur_frame' = 0 /\ UNCHANGED cur_off
Rewind == cur_frame' = 0 /\ cur_off' = FirstOff

(* The head of the loop: told to end, on, back to the first frame, or over. *)
PlTurn ==
    /\ pl = "head"
    /\ \/ Told /\ pl' = "end" /\ cut' = TRUE /\ UNCHANGED <<cur_frame, cur_off>>
       \/ /\ ~Told /\ cur_frame # header.count
          /\ pl' = "draw" /\ UNCHANGED <<cut, cur_frame, cur_off>>
       \/ /\ ~Told /\ cur_frame = header.count /\ Has("loop")
          /\ pl' = "draw" /\ Rewind /\ UNCHANGED cut
       \/ /\ ~Told /\ cur_frame = header.count /\ ~Has("loop")
          /\ pl' = "end" /\ UNCHANGED <<cut, cur_frame, cur_off>>
    /\ UNCHANGED <<mem, buf, show, asked, used_fb, last, refused>> /\ Keep

(* variant: the framebuffer drawn to is the one shown last *)
OtherSame == used_fb
Other == IF Has("swap") THEN 1 - used_fb ELSE used_fb

(* ungzip_frame into framebuffer[used_fb], whose contents are mixed until it
   is through; a stream that does not open ends the animation. *)
PlDraw ==
    /\ pl = "draw"
    /\ used_fb' = Other
    /\ \/ /\ Opens(cur_off)
          /\ buf' = [buf EXCEPT ![Target(Other)] = Torn(Stream(cur_off))]
          /\ pl' = "drawing"
       \/ ~Opens(cur_off) /\ pl' = "end" /\ UNCHANGED buf
    /\ UNCHANGED <<mem, show, asked, cur_frame, cur_off, last, refused, cut>> /\ Keep

PlDrawn ==
    /\ pl = "drawing"
    /\ \/ /\ buf' = [buf EXCEPT ![Target(used_fb)] = Drawn(Stream(cur_off))]
          /\ last' = Stream(cur_off)
          /\ pl' = IF Has("swap") THEN "flip" ELSE "next"
          /\ UNCHANGED refused
       \/ pl' = "end" /\ refused' = TRUE /\ UNCHANGED <<buf, last>>
    /\ UNCHANGED <<mem, show, asked, used_fb, cur_frame, cur_off, cut>> /\ Keep

PlFlip ==
    /\ pl = "flip" /\ pl' = "next"
    /\ SetFrameBuf(Target(used_fb))
    /\ UNCHANGED <<mem, buf, show, used_fb, cur_frame, cur_off, last, cut>> /\ Keep

NextOff == After(header.body, cur_off)

PlNext ==
    /\ pl = "next" /\ pl' = "head"
    /\ cur_frame' = cur_frame + 1 /\ cur_off' = NextOff
    /\ UNCHANGED <<mem, buf, show, asked, used_fb, last, refused, cut>> /\ Keep

(* variant: the last frame stays on display *)
PlEndStay ==
    /\ pl = "end" /\ pl' = "exit"
    /\ UNCHANGED <<mem, buf, show, asked, used_fb, cur_frame, cur_off, last, refused, cut>> /\ Keep

(* At the end the SRAM is asked for, which holds the logo.  The blocks are then
   given back without a wait for the vertical blank. *)
PlEnd ==
    /\ pl = "end" /\ pl' = "exit"
    /\ IF Has("sram") THEN UNCHANGED <<asked, refused>> ELSE SetFrameBuf("cam")
    /\ UNCHANGED <<mem, buf, show, used_fb, cur_frame, cur_off, last, cut>> /\ Keep

PlExit ==
    /\ pl = "exit" /\ pl' = "gone"
    /\ mem' = Freed
    /\ UNCHANGED <<buf, show, asked, used_fb, cur_frame, cur_off, last, refused, cut>> /\ Keep

Play == PlBegin \/ PlSync \/ PlTurn \/ PlDraw \/ PlDrawn \/ PlFlip \/ PlNext \/ PlEnd \/ PlExit

-----------------------------------------------------------------------------
(* The display turns to what it was asked for last. *)
Vblank ==
    /\ show # asked /\ show' = asked
    /\ UNCHANGED <<loader, player, mem, buf, asked, outside, last, refused, cut>>

(* The shell's process is created at the end of the boot. *)
ShellUp ==
    /\ ~shell /\ shell' = TRUE
    /\ UNCHANGED <<loader, player, mem, buf, show, asked, stop, emergexit, last, refused, cut>>

(* module_stop of a module that has started. *)
Stop ==
    /\ pc \in {"run", "off"} /\ stop = "no"
    /\ stop' = "waiting" /\ emergexit' = TRUE
    /\ UNCHANGED <<loader, player, mem, buf, show, asked, shell, last, refused, cut>>

(* variant: the stop does not wait for the thread *)
StopDoneAtOnce ==
    /\ stop = "waiting" /\ stop' = "done"
    /\ UNCHANGED <<loader, player, mem, buf, show, asked, emergexit, shell, last, refused, cut>>
StopDone ==
    /\ stop = "waiting" /\ pl \in {"none", "gone"} /\ stop' = "done"
    /\ UNCHANGED <<loader, player, mem, buf, show, asked, emergexit, shell, last, refused, cut>>

Next == Load \/ Play \/ Vblank \/ ShellUp \/ Stop \/ StopDone

(* Both threads run, the thread that stops the module is woken, and the display
   comes to its vertical blanks. *)
Spec ==
    /\ Init /\ [][Next]_vars
    /\ WF_vars(Load) /\ WF_vars(Play) /\ WF_vars(StopDone) /\ WF_vars(Vblank)

-----------------------------------------------------------------------------
Playing == pl \in {"begin", "sync", "head", "draw", "drawing", "flip", "next", "end"}

(* While the player runs it holds every block it reads or draws to, and there
   is one under every drawing, also when the header asks for the single SRAM
   and for two framebuffers at once (main.c:71-72); when it or a failing
   module_start is through nothing is held, and the stop returns only then. *)
BlocksHeld ==
    /\ Playing => mem["anim"] = "held" /\ mem["cam"] = "held"
                  /\ (~Has("sram") => mem["fb"] = "held")
    /\ pl \in {"drawing", "flip"} => Target(used_fb) # "null"
    /\ (pl = "gone" \/ pc = "failed" \/ stop = "done") => \A b \in Block : mem[b] # "held"

(* With two framebuffers the display turns to whole pictures only: the one it
   was asked for last is not half drawn and not the one being drawn to,
   whenever the vertical blank comes.  What it scans out until then may be the
   one being drawn to: main.c:143 does not wait when the framebuffers swap, so
   a frame unpacked faster than the display's tears all the same.  *)
TurnsToWhole ==
    (Playing /\ pl # "begin" /\ Has("swap") /\ ~refused) =>
       buf[asked].what # "part" /\ (pl = "drawing" => asked # Target(used_fb))

(* An intact file with no more frames than the names have two digits for is
   played through: the animation ends by itself only when it does not loop and
   its last frame was the last one drawn.  *)
PlaysThrough ==
    (pl = "end" /\ header.intact /\ header.count \in 1 .. Base * Base /\ ~cut /\ ~refused) =>
       ~Has("loop") /\ last = header.count - 1

(* However the animation ends, the logo is what the display is left to turn to,
   untouched by the frames, unless the SRAM was used for drawing.  *)
EndsWithLogo ==
    (pl \in {"exit", "gone"} /\ ~Has("sram") /\ ~refused) =>
       asked = "cam" /\ buf["cam"] = IF Has("logo") THEN Drawn(Logo) ELSE Boot

(* The stop returns, and the end of the boot ends the animation; once it has
   ended the display comes to show the SRAM, the player being gone.  *)
EndsWhenTold ==
    /\ stop = "waiting" ~> stop = "done"
    /\ shell ~> pl \in {"none", "gone"}
    /\ (pl = "gone" /\ ~refused) ~> show = "cam"

(* mkanim.c:65 says of -loop "loop animation until boot is finished".  With
   more frames than two digits can number, ungzip_frame does not find the name's
   end in frame_100.rgba and the animation ends there.  *)
LoopsUntilBoot ==
    (pl = "end" /\ header.intact /\ header.count > 0 /\ Has("loop") /\ ~refused) => cut

(* What is drawn, as a slide show.  *)
Slides == INSTANCE SlideShow WITH
    at <- last, n <- header.count, again <- Has("loop"),
    over <- pl \in {"end", "exit", "gone"}

(* Frames are drawn in the file's order without a gap, and from the first
   again only after the last one of a looping animation.  *)
FramesInOrder == Slides!Safety
=============================================================================
