------------------------------- MODULE MkAnim -------------------------------
(***************************************************************************)
(* The PC tool of vita-bootanim, pc/mkanim.c: turns boot_animation.gif into *)
(* boot.rcf by way of files in the current directory, made by the external *)
(* programs convert, gzip and cat.  It may be killed between two of them   *)
(* and run again on another animation, over the files the killed run left. *)
(* The layout of boot.rcf is module Rcf's.                                 *)
(***************************************************************************)
EXTENDS Rcf

CONSTANTS
    MaxFrames,  \* bound on the frames of an animation
    MaxRuns,    \* bound on the runs of the tool
    Sizes       \* sizes of a gzipped frame

ASSUME MkAnimAssumption ==
    /\ MaxFrames \in Nat \ {0} /\ MaxRuns \in Nat \ {0}
    /\ Sizes \subseteq Nat \ {0} /\ Sizes # {}

Frame == 0 .. MaxFrames - 1
Bare == -1                  \* frame.png: convert's name for an only frame
Stream == Frame \cup {Logo}
None == 0                   \* no file; a file is known by the run its data is of
Run == 0 .. MaxRuns
NoGz == [run |-> None, size |-> 0]
Gz == [run : Run \ {None}, size : Sizes] \cup {NoGz}

VARIABLES
    pc,         \* next step of the tool; "idle": not running, "done": ended by itself
    run,        \* number of the run
    frames,     \* frames of its boot_animation.gif
    end_logo,   \* run with -logo
    cur_frame,
    count,      \* header.frame_count
    gif,        \* boot.gif
    png,        \* frame-K.png and frame.png
    rgba,       \* frame_K.rgba and end_logo.rgba
    gz,         \* the same with .gz
    rcf,        \* boot.rcf
    fault,      \* (history) a command of this run failed
    spoilt,     \* (history) this run found files it takes for its own
    uncat,      \* (history) a cat of this run failed
    from        \* (history) the runs the streams of boot.rcf are of, in order

input == <<run, frames, end_logo>>
files == <<gif, png, rgba, gz>>
vars == <<pc, input, cur_frame, count, files, rcf, fault, spoilt, uncat, from>>

NoRcf == [there |-> FALSE, count |-> 0, logo |-> FALSE, body |-> <<>>]

TypeOK ==
    /\ pc \in {"idle", "coalesce", "extract", "rgba", "logo", "gzip", "gziplogo",
               "header", "bodylogo", "body", "done"}
    /\ run \in Run /\ frames \in 0 .. MaxFrames /\ end_logo \in BOOLEAN
    /\ cur_frame \in 0 .. MaxFrames /\ count \in 0 .. MaxFrames
    /\ gif \in [run : Run, frames : 0 .. MaxFrames]
    /\ png \in [Frame \cup {Bare} -> Run] /\ rgba \in [Stream -> Run] /\ gz \in [Stream -> Gz]
    /\ rcf \in [there : BOOLEAN, count : 0 .. MaxFrames, logo : BOOLEAN, body : Seq(Unit)]
    /\ {fault, spoilt, uncat} \subseteq BOOLEAN
    /\ from \in Seq(Run)

NoGif == [run |-> None, frames |-> 0]

Init ==
    /\ pc = "idle" /\ run = None /\ frames = 0 /\ end_logo = FALSE
    /\ cur_frame = 0 /\ count = 0
    /\ gif = NoGif
    /\ png = [k \in Frame \cup {Bare} |-> None]
    /\ rgba = [s \in Stream |-> None] /\ gz = [s \in Stream |-> NoGz]
    /\ rcf = NoRcf /\ from = <<>>
    /\ fault = FALSE /\ spoilt = FALSE /\ uncat = FALSE

-----------------------------------------------------------------------------
(* Files an earlier run left that a run on n frames takes for its own: a
   picture behind its last one, and packed streams, which gzip may keep. *)
Spoils(n, logo) ==
    \/ \E k \in Frame : k = (IF n = 1 THEN 0 ELSE n) /\ png[k] # None
    \/ \E i \in Frame : i < n /\ gz[i] # NoGz
    \/ logo /\ gz[Logo] # NoGz

(* The previous boot.rcf is removed once the animation is there. *)
Begin ==
    /\ pc \in {"idle", "done"} /\ run < MaxRuns
    /\ run' = run + 1
    /\ \E n \in 0 .. MaxFrames, logo \in BOOLEAN :
         /\ frames' = n /\ end_logo' = logo
         /\ spoilt' = Spoils(n, logo)
         /\ IF n = 0
              THEN pc' = "idle" /\ UNCHANGED <<rcf, from>>
              ELSE pc' = "coalesce" /\ rcf' = NoRcf /\ from' = <<>>
    /\ cur_frame' = 0 /\ count' = 0
    /\ fault' = FALSE /\ uncat' = FALSE
    /\ UNCHANGED files

(* system(): what it returns is looked at nowhere. *)
Works == UNCHANGED fault
Fails == fault' = TRUE

(* variant: a boot.gif that is there is taken *)
CoalescedOnce == IF gif = NoGif THEN [run |-> run, frames |-> frames] ELSE gif
Coalesced == [run |-> run, frames |-> frames]

Coalesce ==
    /\ pc = "coalesce" /\ pc' = "extract"
    /\ \/ gif' = Coalesced /\ Works
       \/ UNCHANGED gif /\ Fails
    /\ UNCHANGED <<input, cur_frame, count, png, rgba, gz, rcf, spoilt, uncat, from>>

(* Pictures 0 to n - 1 are written, or frame.png if there is one only; a
   failing convert may have written the first of them. *)
Extracted(m) ==
    [k \in DOMAIN png |->
       IF (IF gif.frames = 1 THEN k = Bare ELSE k \in 0 .. m - 1) THEN gif.run ELSE png[k]]

Extract ==
    /\ pc = "extract" /\ pc' = "rgba"
    /\ \/ gif # NoGif /\ Works /\ png' = Extracted(gif.frames)
       \/ gif # NoGif /\ Fails /\ \E m \in 1 .. gif.frames - 1 : png' = Extracted(m)
       \/ UNCHANGED png /\ Fails
    /\ gif' = NoGif
    /\ UNCHANGED <<input, cur_frame, count, rgba, gz, rcf, spoilt, uncat, from>>

HasPng == cur_frame \in Frame /\ png[cur_frame] # None

ToRgba ==
    /\ pc = "rgba"
    /\ \/ /\ HasPng
          /\ \/ rgba' = [rgba EXCEPT ![cur_frame] = png[cur_frame]] /\ Works
             \/ UNCHANGED rgba /\ Fails
          /\ png' = [png EXCEPT ![cur_frame] = None]
          /\ cur_frame' = cur_frame + 1
          /\ UNCHANGED <<pc, count>>
       \/ /\ ~HasPng
          /\ pc' = "logo" /\ count' = cur_frame /\ cur_frame' = 0
          /\ UNCHANGED <<png, rgba, fault>>
    /\ UNCHANGED <<input, gif, gz, rcf, spoilt, uncat, from>>

LogoToRgba ==
    /\ pc = "logo" /\ pc' = "gzip"
    /\ \/ end_logo /\ rgba' = [rgba EXCEPT ![Logo] = run] /\ Works
       \/ end_logo /\ UNCHANGED rgba /\ Fails
       \/ ~end_logo /\ UNCHANGED <<rgba, fault>>
    /\ UNCHANGED <<input, cur_frame, count, gif, png, gz, rcf, spoilt, uncat, from>>

(* gzip -k of stream s, and removal of what it packed.  It asks before it
   writes over a file, and may be answered no. *)
Gzip(s) ==
    /\ \/ /\ rgba[s] # None /\ Works
          /\ \E n \in Sizes : gz' = [gz EXCEPT ![s] = [run |-> rgba[s], size |-> n]]
       \/ rgba[s] # None /\ gz[s] # NoGz /\ UNCHANGED gz /\ Works
       \/ UNCHANGED gz /\ Fails
    /\ rgba' = [rgba EXCEPT ![s] = None]

GzipFrame ==
    /\ pc = "gzip"
    /\ \/ /\ cur_frame < count /\ Gzip(cur_frame)
          /\ cur_frame' = cur_frame + 1 /\ UNCHANGED pc
       \/ /\ cur_frame = count
          /\ pc' = "gziplogo" /\ UNCHANGED <<cur_frame, rgba, gz, fault>>
    /\ UNCHANGED <<input, count, gif, png, rcf, spoilt, uncat, from>>

GzipLogo ==
    /\ pc = "gziplogo" /\ pc' = "header"
    /\ IF end_logo THEN Gzip(Logo) ELSE UNCHANGED <<rgba, gz, fault>>
    /\ UNCHANGED <<input, cur_frame, count, gif, png, rcf, spoilt, uncat, from>>

-----------------------------------------------------------------------------
(* The run ends here if boot.rcf cannot be opened. *)
Header ==
    /\ pc = "header"
    /\ \/ /\ rcf' = [there |-> TRUE, count |-> count, logo |-> end_logo, body |-> <<>>]
          /\ pc' = "bodylogo" /\ Works
       \/ pc' = "idle" /\ UNCHANGED rcf /\ Fails
    /\ cur_frame' = 0
    /\ UNCHANGED <<input, count, files, spoilt, uncat, from>>

(* variant: the size word of every stream is that of the first frame *)
SizeOfFirst(s) == gz[0].size
(* getSz of the packed stream: 0 if there is none. *)
SizeOf(s) == gz[s].size

Pieces(s) == [k \in 1 .. gz[s].size |-> Piece(s, k)]

(* The size word and the packed stream are appended, and the stream removed. *)
AppendStream(s) ==
    /\ \/ /\ gz[s] # NoGz /\ Works /\ UNCHANGED uncat
          /\ rcf' = [rcf EXCEPT !.body = @ \o <<Word(SizeOf(s))>> \o Pieces(s)]
          /\ from' = Append(from, gz[s].run)
       \/ /\ rcf' = [rcf EXCEPT !.body = Append(@, Word(SizeOf(s)))]
          /\ Fails /\ uncat' = (uncat \/ gz[s] # NoGz)
          /\ UNCHANGED from
    /\ gz' = [gz EXCEPT ![s] = NoGz]

BodyLogo ==
    /\ pc = "bodylogo" /\ pc' = "body"
    /\ IF end_logo THEN AppendStream(Logo) ELSE UNCHANGED <<gz, rcf, fault, uncat, from>>
    /\ UNCHANGED <<input, cur_frame, count, gif, png, rgba, spoilt>>

BodyFrame ==
    /\ pc = "body"
    /\ \/ /\ cur_frame < count /\ AppendStream(cur_frame)
          /\ cur_frame' = cur_frame + 1 /\ UNCHANGED pc
       \/ /\ cur_frame = count
          /\ pc' = "done" /\ UNCHANGED <<cur_frame, gz, rcf, fault, uncat, from>>
    /\ UNCHANGED <<input, count, gif, png, rgba, spoilt>>

(* The tool is interrupted between two commands. *)
Kill ==
    /\ pc \notin {"idle", "done"} /\ pc' = "idle"
    /\ UNCHANGED <<input, cur_frame, count, files, rcf, fault, spoilt, uncat, from>>

Main == Begin \/ Coalesce \/ Extract \/ ToRgba \/ LogoToRgba \/ GzipFrame \/ GzipLogo
        \/ Header \/ BodyLogo \/ BodyFrame

Next == Main \/ Kill
Spec == Init /\ [][Next]_vars

-----------------------------------------------------------------------------
(* The frames a run on n frames ends with. *)
Kept(n) == IF n = 1 THEN 0 ELSE n

(* A run no command of which failed, in a directory without a picture behind
   its last one and without its packed streams, makes a file with its own
   frames only, whole and in order, whatever else a killed run left. *)
OwnFrames ==
    pc = "done" /\ ~fault /\ ~spoilt =>
        /\ rcf.there /\ rcf.count = Kept(frames) /\ rcf.logo = end_logo
        /\ Intact(rcf.body, rcf.count, rcf.logo)
        /\ \A k \in 1 .. Len(from) : from[k] = run

(* Wherever a command failed, the size words lead the player from stream to
   stream and to the end of the file, unless a stream could not be appended:
   a frame that was not made has the size 0. *)
Walkable ==
    pc = "done" /\ ~uncat =>
        /\ Start(rcf.body, rcf.logo)[rcf.count] = Len(rcf.body)
        /\ \A i \in 0 .. rcf.count - 1 :
             LET o == Start(rcf.body, rcf.logo)[i]
             IN SizeAt(rcf.body, o) = 0 \/ FrameAt(rcf.body, o, i)

=============================================================================
