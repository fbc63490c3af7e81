-------------------------- MODULE Animation_proofs --------------------------
(***************************************************************************)
(* Of an animation on its way from the PC to the console, for every set of *)
(* animations, every bound on frames and runs and every size of a stream:   *)
(*   - the user's lines of the two configurations are kept,                *)
(*   - what the installer says it has done it has done,                    *)
(*   - the header the plugin writes fits the streams behind it,            *)
(*   - mkanim's file has the frames of its own run, and can be walked.      *)
(***************************************************************************)
EXTENDS Animation, Rcf_proofs

(***************************************************************************)
(* The user's lines.                                                       *)
(***************************************************************************)
UserLines(f) == "own" \in Range(f.lines)

(* A copy has the user's lines; without one the configuration has them, if it
   ever was. *)
KeptOf(c) ==
    /\ prevba[c].there => UserLines(prevba[c])
    /\ prevba[c].there \/ UserLines(conf[c]) \/ ~conf[c].there

Domains == DOMAIN conf = Conf /\ DOMAIN prevba = Conf

(* What was read and is to be renamed is there and whole. *)
Moving == step = "move" /\ Task \in Conf \ unsafe => conf[Task].there /\ UserLines(conf[Task])

(* Behind the renaming there is a copy. *)
Making == step \in {"make", "write"} /\ Task \in Conf \ unsafe => prevba[Task].there

(* LinesKept is not inductive: it does not say that a copy, once it is there,
   is never the worse one, nor what the steps between read and write rely on. *)
IInv == Domains /\ Moving /\ Making /\ \A c \in Conf \ unsafe : KeptOf(c)

Guarded == {"move", "make", "write"}

(* Initially nobody's lines were touched. *)
LEMMA InitIInv == AInit => IInv
<1> SUFFICES ASSUME AInit PROVE IInv OBVIOUS
<1>1. step = "off" /\ prevba = [c \in Conf |-> NoFile] BY DEF AInit, InstallerInit
<1>2. \/ conf = [c \in Conf |-> File(<<"own">>)]
      \/ conf = [c \in Conf |-> IF c = "config" THEN NoFile ELSE File(<<"own">>)]
  BY DEF AInit, InstallerInit
<1>3. Domains BY <1>1, <1>2 DEF Domains
<1>4. ASSUME NEW c \in Conf PROVE KeptOf(c)
  <2>1. prevba[c] = NoFile BY <1>1
  <2>2. conf[c] = File(<<"own">>) \/ conf[c] = NoFile BY <1>2
  <2>3. CASE conf[c] = NoFile BY <2>1, <2>3 DEF KeptOf, NoFile
  <2>4. CASE conf[c] = File(<<"own">>)
    <3>1. conf[c].lines = <<"own">> BY <2>4 DEF File
    <3>2. 1 \in DOMAIN conf[c].lines /\ conf[c].lines[1] = "own" BY <3>1
    <3>3. UserLines(conf[c]) BY <3>2 DEF UserLines, Range
    <3> QED BY <2>1, <3>3 DEF KeptOf, NoFile
  <2> QED BY <2>2, <2>3, <2>4
<1> QED BY <1>1, <1>3, <1>4 DEF IInv, Moving, Making

(* The frame: files and history stay, and the step is none of the three that
   rely on them. *)
LEMMA Untouched ==
    ASSUME IInv, UNCHANGED <<conf, prevba, unsafe>>,
           step' \notin Guarded \/ UNCHANGED <<step, tasks>>
    PROVE  IInv'
BY DEF IInv, Domains, Moving, Making, KeptOf, UserLines, Guarded, Task

(* What comes after a task. *)
LEMMA AfterTask ==
    ASSUME NEW ts, Work(ts) PROVE step' \notin Guarded
BY DEF Work, Begins, Guarded

(* A configuration is read: one without the user's lines is told from now on. *)
LEMMA ReadIInv == ASSUME IInv, ReadConf PROVE IInv'
<1>1. UNCHANGED <<conf, prevba>> BY DEF ReadConf, files0
<1>2. CASE ~conf[Task].there
  BY <1>1, <1>2, Untouched DEF ReadConf, Leaves, Guarded
<1>3. CASE conf[Task].there
  <2>1. step' = "move" /\ tasks' = tasks BY <1>3 DEF ReadConf, Steps
  <2>2. unsafe' = IF UserLines(conf[Task]) THEN unsafe ELSE unsafe \cup {Task}
    BY <1>3 DEF ReadConf, UserLines
  <2>3. Task' = Task BY <2>1 DEF Task
  <2>4. Moving' BY <1>1, <1>3, <2>2, <2>3 DEF Moving, UserLines
  <2>5. Making' BY <2>1 DEF Making
  <2>6. \A c \in Conf \ unsafe' : KeptOf(c)' BY <1>1, <2>2 DEF IInv, KeptOf, UserLines
  <2> QED BY <1>1, <2>4, <2>5, <2>6 DEF IInv, Domains
<1> QED BY <1>2, <1>3

(* It is renamed, onto nothing or onto a copy, or stays where a copy is. *)
LEMMA MoveIInv == ASSUME IInv, MoveConf PROVE IInv'
<1>1. step = "move" /\ Task \in Conf /\ step' = "make" /\ tasks' = tasks /\ Renamed(Task)
  BY DEF MoveConf, On, Steps, Task
<1>2. Task' = Task BY <1>1 DEF Task
<1>3. Moving' BY <1>1 DEF Moving
<1>4. CASE /\ prevba' = [prevba EXCEPT ![Task] = conf[Task]]
           /\ conf' = [conf EXCEPT ![Task] = NoFile]
           /\ unsafe' = unsafe
  <2>1. Domains' BY <1>4 DEF IInv, Domains
  <2>2. prevba'[Task] = conf[Task] /\ conf'[Task] = NoFile
    BY <1>1, <1>4 DEF IInv, Domains
  <2>3. Task \notin unsafe => conf[Task].there /\ UserLines(conf[Task])
    BY <1>1 DEF IInv, Moving
  <2>4. Making' BY <1>1, <1>2, <1>4, <2>2, <2>3 DEF Making
  <2>5. ASSUME NEW c \in Conf \ unsafe' PROVE KeptOf(c)'
    <3>1. CASE c = Task BY <1>4, <2>2, <2>3, <2>5, <3>1 DEF KeptOf, UserLines
    <3>2. CASE c # Task
      <4>1. prevba'[c] = prevba[c] /\ conf'[c] = conf[c]
        BY <1>4, <2>5, <3>2 DEF IInv, Domains
      <4> QED BY <1>4, <2>5, <4>1 DEF IInv, KeptOf, UserLines
    <3> QED BY <3>1, <3>2
  <2> QED BY <1>3, <2>1, <2>4, <2>5 DEF IInv
<1>5. CASE prevba[Task].there /\ UNCHANGED <<conf, prevba, unsafe>>
  <2>1. Making' BY <1>2, <1>5 DEF Making
  <2> QED BY <1>3, <1>5, <2>1 DEF IInv, Domains, KeptOf, UserLines
<1>6. CASE unsafe' = unsafe \cup {Task} /\ UNCHANGED <<conf, prevba>>
  <2>1. Making' BY <1>2, <1>6 DEF Making
  <2> QED BY <1>3, <1>6, <2>1 DEF IInv, Domains, KeptOf, UserLines
<1> QED BY <1>1, <1>4, <1>5, <1>6 DEF Renamed

(* It is made anew or written to, the copy being there. *)
LEMMA Overwritten ==
    ASSUME IInv, step \in {"make", "write"}, Task \in Conf,
           DOMAIN conf' = DOMAIN conf, \A c \in Conf \ {Task} : conf'[c] = conf[c],
           UNCHANGED <<prevba, unsafe>>,
           step' \notin Guarded \/ (step' = "write" /\ tasks' = tasks)
    PROVE  IInv'
<1>1. Domains' BY DEF IInv, Domains
<1>2. Moving' BY DEF Moving, Guarded
<1>3. Task \notin unsafe => prevba[Task].there BY DEF IInv, Making
<1>4. Making' BY <1>3 DEF Making, Guarded, Task
<1>5. ASSUME NEW c \in Conf \ unsafe' PROVE KeptOf(c)'
  <2>1. CASE c = Task BY <1>3, <1>5, <2>1 DEF IInv, KeptOf, UserLines
  <2>2. CASE c # Task
    <3>1. conf'[c] = conf[c] BY <1>5, <2>2
    <3> QED BY <1>5, <3>1 DEF IInv, KeptOf, UserLines
  <2> QED BY <2>1, <2>2
<1> QED BY <1>1, <1>2, <1>4, <1>5 DEF IInv

(* It is made, empty, behind the renaming. *)
LEMMA MakeIInv == ASSUME IInv, MakeConf PROVE IInv'
<1>1. step = "make" /\ Task \in Conf /\ UNCHANGED <<prevba, unsafe>>
  BY DEF MakeConf, On, Task
<1>2. CASE Steps("write") /\ conf' = [conf EXCEPT ![Task] = File(<<>>)]
  <2>1. step' = "write" /\ tasks' = tasks BY <1>2 DEF Steps
  <2>2. DOMAIN conf' = DOMAIN conf /\ \A c \in Conf \ {Task} : conf'[c] = conf[c]
    BY <1>2 DEF IInv, Domains
  <2> QED BY <1>1, <2>1, <2>2, Overwritten
<1>3. CASE Leaves /\ conf' = conf BY <1>1, <1>3, Untouched DEF Leaves, Guarded
<1> QED BY <1>2, <1>3 DEF MakeConf, Dies

(* The new lines are written to it. *)
LEMMA WriteIInv == ASSUME IInv, WriteConf PROVE IInv'
<1>1. step = "write" /\ Task \in Conf /\ UNCHANGED <<prevba, unsafe>>
  BY DEF WriteConf, On, Task
<1>2. step' \notin Guarded
  <2>1. CASE NextTask BY <2>1, AfterTask DEF NextTask
  <2>2. CASE Leaves BY <2>2 DEF Leaves, Guarded
  <2> QED BY <2>1, <2>2 DEF WriteConf
<1>3. PICK l : conf' = [conf EXCEPT ![Task] = File(l)] BY DEF WriteConf
<1>4. DOMAIN conf' = DOMAIN conf /\ \A c \in Conf \ {Task} : conf'[c] = conf[c]
  BY <1>3 DEF IInv, Domains
<1> QED BY <1>1, <1>2, <1>4, Overwritten

(* The other steps of the installer leave the configurations alone. *)
LEMMA ElsewhereIInv ==
    ASSUME IInv,
           \/ OpenInstaller \/ Choose \/ TruncMod \/ AppendMod \/ TruncAnim
           \/ AppendAnim \/ AppendAnimRest \/ RemoveMod \/ Reset \/ PowerLoss
    PROVE  IInv'
<1>1. UNCHANGED <<conf, prevba, unsafe>>
  BY DEF OpenInstaller, Choose, TruncMod, AppendMod, TruncAnim, AppendAnim, AppendAnimRest,
         RemoveMod, Reset, PowerLoss, Off, files0
<1>2. \A ts : Work(ts) => step' \notin Guarded BY AfterTask
<1>3. Leaves => step' \notin Guarded BY DEF Leaves, Guarded
<1>4. NextTask => step' \notin Guarded BY <1>2 DEF NextTask
<1>5. CASE OpenInstaller \/ TruncMod \/ TruncAnim
  BY <1>1, <1>5, Untouched DEF OpenInstaller, TruncMod, TruncAnim, Steps, Guarded
<1>6. CASE Choose BY <1>1, <1>2, <1>3, <1>6, Untouched DEF Choose
<1>7. CASE AppendMod BY <1>1, <1>3, <1>4, <1>7, Untouched DEF AppendMod, Dies
<1>8. CASE AppendAnim
  <2>1. Steps("append2") => step' \notin Guarded BY DEF Steps, Guarded
  <2>2. step' \notin Guarded BY <1>3, <1>4, <1>8, <2>1 DEF AppendAnim, Dies
  <2> QED BY <1>1, <2>2, Untouched
<1>9. CASE AppendAnimRest \/ RemoveMod
  BY <1>1, <1>4, <1>9, Untouched DEF AppendAnimRest, RemoveMod
<1>10. CASE Reset \/ PowerLoss
  BY <1>1, <1>3, <1>10, Untouched DEF Reset, PowerLoss, Off
<1> QED BY <1>5, <1>6, <1>7, <1>8, <1>9, <1>10

(* Every step keeps the invariant. *)
LEMMA NextIInv == IInv /\ [ANext]_avars => IInv'
<1> SUFFICES ASSUME IInv, [ANext]_avars PROVE IInv' OBVIOUS
<1>1. CASE UNCHANGED ivars BY <1>1, Untouched DEF ivars, files0
<1>2. CASE OnPC \/ Take \/ CopyToConsole \/ Setting
  <2>1. UNCHANGED ivars BY <1>2 DEF OnPC, Take, CopyToConsole, Setting, console
  <2> QED BY <1>1, <2>1
<1>3. CASE Installing
  <2>1. InstallerStep \/ PowerLoss BY <1>3 DEF Installing
  <2> QED BY <2>1, ReadIInv, MoveIInv, MakeIInv, WriteIInv, ElsewhereIInv DEF InstallerStep
<1>4. CASE UNCHANGED avars
  <2>1. UNCHANGED ivars BY <1>4 DEF avars, console
  <2> QED BY <1>1, <2>1
<1> QED BY <1>2, <1>3, <1>4 DEF ANext

(* Through any sessions, cut off anywhere and by anything, the user's lines are
   in the configuration or in its copy. *)
THEOREM LinesKeptHolds == ASpec => []LinesKept
<1>1. IInv => LinesKept BY DEF IInv, LinesKept, KeptOf, UserLines
<1> QED BY <1>1, InitIInv, NextIInv, PTL DEF ASpec

(***************************************************************************)
(* The header of the animation.                                            *)
(***************************************************************************)

(* The file, and what its header and the plugin's copy say of its streams. *)
AnimFile == [there : BOOLEAN, empty : BOOLEAN, head : HeaderType, body : Anims \cup {NoAnim}]

(* SettingsTrue is not inductive: it does not say that a fresh copy has the
   layout of the file, nor what lies under a half-written animation. *)
HeadInv ==
    /\ anim \in AnimFile /\ header \in HeaderType
    /\ anim.empty => ~fresh
    /\ plug = "on" /\ fresh => header.layout = anim.head.layout
    /\ SettingsTrue
    /\ On("append2", {"rcf"}) => anim.head.layout = Default \/ crossed

(* Where the installer goes next. *)
LEMMA NextStep ==
    /\ \A ts : Work(ts) => step' \in {"done", "remove", "read", "trunc"} /\ tasks' = ts
    /\ NextTask => step' \in {"done", "remove", "read", "trunc"} /\ tasks' = Tail(tasks)
    /\ Leaves => step' = "off"
BY DEF NextTask, Work, Begins, Leaves

(* The plugin and the animation are left alone. *)
LEMMA HeadUntouched ==
    ASSUME HeadInv, UNCHANGED svars, step' # "append2" \/ UNCHANGED <<step, tasks>>
    PROVE  HeadInv'
<1>1. UNCHANGED <<anim, header, fresh, unsaved, crossed, plug>> BY DEF svars, hvars
<1>2. On("append2", {"rcf"})' => On("append2", {"rcf"}) BY DEF On
<1> QED BY <1>1, <1>2 DEF HeadInv, SettingsTrue

(* Another animation is put there: nothing of it is known to the plugin. *)
LEMMA HeadReplaced ==
    ASSUME HeadInv, NEW a \in AnimFile, a.body # NoAnim => a.head.layout = a.body,
           Replace(a), step' # "append2"
    PROVE  HeadInv'
BY DEF HeadInv, SettingsTrue, Replace, On

(* The application ends. *)
LEMMA HeadGone ==
    ASSUME HeadInv, Gone, UNCHANGED <<anim, crossed>>, step' # "append2" \/ UNCHANGED <<step, tasks>>
    PROVE  HeadInv'
<1>1. On("append2", {"rcf"})' => On("append2", {"rcf"}) BY DEF On
<1>2. header' \in HeaderType /\ fresh' = FALSE BY DEF Gone, Zeros, HeaderType
<1> QED BY <1>1, <1>2 DEF HeadInv, SettingsTrue, Gone

(* What the Settings application and the plugin in it do keeps the header's
   invariant: a saved header is one that fitted the streams when it was read. *)
LEMMA HeadSettings ==
    ASSUME HeadInv, StartSettings \/ SettingsStep, UNCHANGED <<step, tasks>>
    PROVE  HeadInv'
<1>0. On("append2", {"rcf"})' <=> On("append2", {"rcf"}) BY DEF On
<1>a. anim \in AnimFile /\ anim.head \in HeaderType BY DEF HeadInv, AnimFile
<1>1. CASE StartSettings
  <2>1. anim' = anim /\ crossed' = crossed /\ unsaved' = FALSE /\ plug' = "on"
    BY <1>1 DEF StartSettings, ModuleStart
  <2>2. CASE ~anim.empty /\ header' = anim.head /\ fresh' = TRUE
    BY <1>0, <1>a, <2>1, <2>2 DEF HeadInv, SettingsTrue
  <2>3. CASE header' = Zeros /\ fresh' = FALSE
    <3>1. header' \in HeaderType BY <2>3 DEF Zeros, HeaderType
    <3> QED BY <1>0, <1>a, <2>1, <2>3, <3>1 DEF HeadInv, SettingsTrue
  <2> QED BY <1>1, <2>2, <2>3 DEF StartSettings, Load, Loaded
<1>2. CASE OpenCore \/ CloseCore \/ StopSettings
  <2>1. UNCHANGED <<anim, header, fresh, unsaved, crossed>> /\ plug' \in {plug, "stopped"}
    BY <1>2 DEF OpenCore, CloseCore, StopSettings, LoadCore, UnloadCore, ModuleStop
  <2> QED BY <1>0, <2>1 DEF HeadInv, SettingsTrue
<1>3. CASE SetKeyInt
  <2>1. plug = "on" /\ plug' = "on" /\ fresh' = fresh BY <1>3 DEF SetKeyInt, hvars
  <2>2. PICK b \in BOOLEAN : header' = [header EXCEPT !.on = b] BY <1>3 DEF SetKeyInt
  <2>3. header' \in HeaderType /\ header'.layout = header.layout
    BY <2>2 DEF HeadInv, HeaderType
  <2>4. CASE /\ anim' = [anim EXCEPT !.head = header', !.empty = FALSE]
             /\ unsaved' = FALSE /\ crossed' = (crossed \/ ~fresh)
    <3>1. /\ anim' \in AnimFile /\ anim'.head = header' /\ anim'.empty = FALSE
          /\ anim'.body = anim.body
      BY <1>a, <2>3, <2>4 DEF AnimFile
    <3>2. fresh => header'.layout = anim.head.layout BY <2>1, <2>3 DEF HeadInv
    <3> QED BY <1>0, <2>1, <2>3, <2>4, <3>1, <3>2 DEF HeadInv, SettingsTrue
  <2>5. CASE unsaved' = TRUE /\ UNCHANGED <<anim, crossed>>
    BY <1>0, <2>1, <2>3, <2>5 DEF HeadInv, SettingsTrue
  <2> QED BY <1>3, <2>4, <2>5 DEF SetKeyInt, Save
<1>4. CASE EndSettings BY <1>4, HeadGone DEF EndSettings
<1> QED BY <1>1, <1>2, <1>3, <1>4 DEF SettingsStep

(* The installer replaces the animation whole, or cuts it: no streams, no header
   that could not fit. *)
LEMMA HeadInstaller ==
    ASSUME HeadInv, InstallerStep \/ PowerLoss
    PROVE  HeadInv'
<1>0. Default \in Anims /\ Default # NoAnim BY InstallerAssumption, SettingsAssumption
<1>1. CASE OpenInstaller \/ Choose \/ TruncMod \/ AppendMod \/ ReadConf \/ MoveConf \/ MakeConf
           \/ WriteConf \/ RemoveMod
  <2>1. UNCHANGED svars
    BY <1>1 DEF OpenInstaller, Choose, TruncMod, AppendMod, ReadConf, MoveConf, MakeConf, WriteConf,
       RemoveMod
  <2>2. step' # "append2"
    BY <1>1, NextStep DEF OpenInstaller, Choose, TruncMod, AppendMod, ReadConf, MoveConf, MakeConf,
       WriteConf, RemoveMod, Steps, Dies
  <2> QED BY <2>1, <2>2, HeadUntouched
<1>2. CASE TruncAnim
  <2>1. step' # "append2" BY <1>2 DEF TruncAnim, Steps
  <2>2. Emptied \in AnimFile /\ Emptied.body = NoAnim
    BY DEF Emptied, Absent, AnimFile, Zeros, HeaderType
  <2> QED BY <1>2, <2>1, <2>2, HeadReplaced, HeadUntouched DEF TruncAnim
<1>3. CASE AppendAnim
  <2>1. CASE UNCHANGED svars /\ step' # "append2" BY <2>1, HeadUntouched
  <2>2. CASE Steps("append2") /\ Write([Whole(Default) EXCEPT !.body = NoAnim])
    <3>1. /\ anim' \in AnimFile /\ anim'.head.layout = Default /\ anim'.body = NoAnim
          /\ fresh' = FALSE /\ header' = header
      BY <1>0, <2>2 DEF Write, Whole, AnimFile, HeaderType
    <3> QED BY <3>1 DEF HeadInv, SettingsTrue
  <2>3. CASE Mixed /\ step' # "append2"
    <3>1. anim' \in AnimFile /\ anim'.body = NoAnim /\ fresh' = FALSE /\ header' = header
      BY <2>3 DEF Mixed, Write, AnimFile, HeadInv
    <3> QED BY <2>3, <3>1 DEF HeadInv, SettingsTrue, On
  <2>4. (NextTask \/ Dies) => step' # "append2" BY NextStep DEF Dies
  <2> QED BY <1>3, <2>1, <2>2, <2>3, <2>4 DEF AppendAnim
<1>4. CASE AppendAnimRest
  <2>1. step' # "append2" /\ On("append2", {"rcf"}) BY <1>4, NextStep DEF AppendAnimRest
  <2>2. CASE Write(Good(anim))
    <3>1. /\ anim' \in AnimFile /\ anim'.head = anim.head /\ anim'.body = Default
          /\ fresh' = FALSE /\ header' = header /\ crossed' = crossed
      BY <1>0, <2>2 DEF Write, Good, AnimFile, HeadInv
    <3>2. anim.head.layout = Default \/ crossed BY <2>1 DEF HeadInv
    <3> QED BY <2>1, <3>1, <3>2 DEF HeadInv, SettingsTrue, On
  <2> QED BY <1>4, <2>1, <2>2, HeadUntouched DEF AppendAnimRest
<1>5. CASE Reset \/ PowerLoss
  <2>1. Gone /\ UNCHANGED <<anim, crossed>> /\ Leaves BY <1>5 DEF Reset, PowerLoss, Off
  <2>2. step' # "append2" BY <2>1, NextStep
  <2> QED BY <2>1, <2>2, HeadGone
<1> QED BY <1>1, <1>2, <1>3, <1>4, <1>5 DEF InstallerStep

(* Whoever writes the animation, its header's invariant is kept. *)
LEMMA HeadInvariant == ASpec => []HeadInv
<1>1. AInit => HeadInv
  <2> SUFFICES ASSUME AInit PROVE HeadInv OBVIOUS
  <2>1. anim = Absent /\ header = Zeros /\ fresh = FALSE /\ step = "off" /\ plug = "off"
    BY DEF AInit, InstallerInit, SettingsInit, HooksInit
  <2>2. Absent \in AnimFile /\ Zeros \in HeaderType /\ Absent.body = NoAnim
    BY DEF Absent, Zeros, AnimFile, HeaderType
  <2> QED BY <2>1, <2>2 DEF HeadInv, SettingsTrue, On
<1>2. HeadInv /\ [ANext]_avars => HeadInv'
  <2> SUFFICES ASSUME HeadInv, [ANext]_avars PROVE HeadInv' OBVIOUS
  <2>1. CASE OnPC \/ Take \/ UNCHANGED avars
    <3>1. UNCHANGED <<svars, step, tasks>> BY <2>1 DEF OnPC, Take, avars, console, ivars
    <3> QED BY <3>1, HeadUntouched
  <2>2. CASE CopyToConsole
    <3>1. step' = "off" BY <2>2 DEF CopyToConsole, ivars
    <3>2. Own \in Anims /\ Own # NoAnim BY AnimationAssumption, SettingsAssumption
    <3>3. Whole(Own) \in AnimFile /\ Whole(Own).head.layout = Own /\ Whole(Own).body = Own
      BY <3>2 DEF Whole, AnimFile, HeaderType
    <3>4. /\ [Whole(Own) EXCEPT !.body = NoAnim] \in AnimFile
          /\ [Whole(Own) EXCEPT !.body = NoAnim].body = NoAnim
      BY <3>2 DEF Whole, AnimFile, HeaderType
    <3>5. CASE Replace(Whole(Own)) BY <3>1, <3>3, <3>5, HeadReplaced
    <3>6. CASE Replace([Whole(Own) EXCEPT !.body = NoAnim]) BY <3>1, <3>4, <3>6, HeadReplaced
    <3> QED BY <2>2, <3>5, <3>6 DEF CopyToConsole
  <2>3. CASE Installing BY <2>3, HeadInstaller DEF Installing
  <2>4. CASE Setting
    <3>1. UNCHANGED <<step, tasks>> BY <2>4 DEF Setting, ivars
    <3> QED BY <2>4, <3>1, HeadSettings DEF Setting
  <2> QED BY <2>1, <2>2, <2>3, <2>4 DEF ANext
<1> QED BY <1>1, <1>2, PTL DEF ASpec

(* The plugin's copy is the header in the file, and the header fits the streams,
   whoever wrote the file last. *)
THEOREM SettingsTrueHolds == ASpec => []SettingsTrue
<1>1. HeadInv => SettingsTrue BY DEF HeadInv
<1> QED BY <1>1, HeadInvariant, PTL

(***************************************************************************)
(* What the installer has done.                                            *)
(***************************************************************************)

(* Tasks ahead, and the contents of a configuration: without the user's lines,
   with them, or with the plugin's before them. *)
ToDo(x) == \E i \in 1 .. Len(tasks) : tasks[i] = x
Lines == {<<"own">>, <<"mod", "own">>}
Sound(l) == l \in Seq(Part) /\ ("own" \in Range(l) => l \in Lines)

(* The installer's place in its list of tasks. *)
TaskInv ==
    /\ tasks \in Seq(Mod \cup Conf \cup {"rcf"})
    /\ step \in {"off", "menu"} => op = "none"
    /\ step = "remove" => op = "remove"
    /\ step = "done" => tasks = <<>>
    /\ step \notin {"off", "menu", "done"} => tasks # <<>>

(* What configurations hold, and what was read of the one at hand. *)
ConfInv ==
    /\ conf \in [Conf -> [there : BOOLEAN, lines : Seq(Part)]] /\ Sound(pbf)
    /\ \A c \in Conf : Sound(conf[c].lines)
    /\ step \in {"move", "make", "write"} /\ ~failed /\ Task \notin unsafe => "own" \in Range(pbf)

(* DoneIsInstalled is not inductive: on the way a task is ahead or done. *)
DoneInv ==
    /\ mods \in [Mod -> {"none", "empty", "part", "full"}]
    /\ On("append", {"rcf"}) /\ ~failed => anim.empty \/ crossed
    /\ op = "install" /\ ~failed =>
         /\ \A m \in Mod : ToDo(m) \/ mods[m] = "full"
         /\ \A c \in Conf \ unsafe : ToDo(c) \/ conf[c].lines = <<"mod", "own">>
         /\ ToDo("rcf") \/ anim.body = Default \/ crossed

TaskSet == Mod \cup Conf \cup {"rcf"}

(* How a list of tasks begins. *)
LEMMA Begun ==
    ASSUME NEW ts \in Seq(TaskSet), Work(ts)
    PROVE  /\ tasks' = ts /\ step' \in {"done", "remove", "read", "trunc"}
           /\ step' = "done" <=> ts = <<>>
           /\ step' = "remove" => op' = "remove"
BY DEF Work, Begins

(* The installer has a task as long as it works on one. *)
LEMMA TaskStep == TaskInv /\ [ANext]_avars => TaskInv'
<1> SUFFICES ASSUME TaskInv, [ANext]_avars PROVE TaskInv' OBVIOUS
<1>0. tasks \in Seq(TaskSet) BY DEF TaskInv, TaskSet
<1>a. ASSUME step \notin {"off", "menu", "done"}, NextTask PROVE TaskInv'
  <2>1. Tail(tasks) \in Seq(TaskSet) BY <1>0, <1>a DEF TaskInv
  <2>2. Work(Tail(tasks)) BY <1>a DEF NextTask
  <2> QED BY <2>1, <2>2, Begun DEF TaskInv, TaskSet
<1>b. ASSUME step \notin {"off", "menu", "done"}, NEW to, to \notin {"off", "menu", "done", "remove"},
             Steps(to)
      PROVE TaskInv'
  BY <1>b DEF TaskInv, Steps
<1>c. ASSUME Leaves PROVE TaskInv'
  <2>1. <<>> \in Seq(TaskSet) OBVIOUS
  <2> QED BY <1>c, <2>1 DEF Leaves, TaskInv, TaskSet
<1>d. ASSUME UNCHANGED <<step, tasks, op>> PROVE TaskInv' BY <1>d DEF TaskInv
<1>1. CASE Installing
  <2>1. CASE OpenInstaller BY <2>1 DEF OpenInstaller, Steps, TaskInv
  <2>2. CASE Choose
    <3>1. CASE Work(<<"skprx", "suprx", "boot_config", "config", "rcf">>)
      <4>1. <<"skprx", "suprx", "boot_config", "config", "rcf">> \in Seq(TaskSet) BY DEF TaskSet, Mod, Conf
      <4> QED BY <3>1, <4>1, Begun DEF TaskInv, TaskSet
    <3>2. CASE Work(<<"rcf">>)
      <4>1. <<"rcf">> \in Seq(TaskSet) BY DEF TaskSet
      <4> QED BY <3>2, <4>1, Begun DEF TaskInv, TaskSet
    <3>3. CASE Work(<<"skprx", "suprx">>)
      <4>1. <<"skprx", "suprx">> \in Seq(TaskSet) BY DEF TaskSet, Mod
      <4> QED BY <3>3, <4>1, Begun DEF TaskInv, TaskSet
    <3> QED BY <2>2, <3>1, <3>2, <3>3, <1>c DEF Choose
  <2>3. CASE TruncMod \/ TruncAnim
    BY <2>3, <1>b DEF TruncMod, TruncAnim, On
  <2>4. CASE AppendMod BY <2>4, <1>a, <1>c DEF AppendMod, On, Dies
  <2>5. CASE ReadConf BY <2>5, <1>b, <1>c DEF ReadConf, On
  <2>6. CASE MoveConf BY <2>6, <1>b DEF MoveConf, On
  <2>7. CASE MakeConf BY <2>7, <1>b, <1>c DEF MakeConf, On, Dies
  <2>8. CASE WriteConf BY <2>8, <1>a, <1>c DEF WriteConf, On
  <2>9. CASE AppendAnim BY <2>9, <1>a, <1>b, <1>c DEF AppendAnim, On, Dies
  <2>10. CASE AppendAnimRest BY <2>10, <1>a DEF AppendAnimRest, On
  <2>11. CASE RemoveMod BY <2>11, <1>a DEF RemoveMod, On
  <2>12. CASE Reset \/ PowerLoss BY <2>12, <1>c DEF Reset, PowerLoss, Off
  <2> QED BY <1>1, <2>1, <2>2, <2>3, <2>4, <2>5, <2>6, <2>7, <2>8, <2>9, <2>10, <2>11, <2>12
       DEF Installing, InstallerStep
<1>2. CASE OnPC \/ Take \/ CopyToConsole \/ Setting \/ UNCHANGED avars
  <2>1. UNCHANGED <<step, tasks, op>>
    BY <1>2 DEF OnPC, Take, CopyToConsole, Setting, avars, console, ivars
  <2> QED BY <2>1, <1>d
<1> QED BY <1>1, <1>2 DEF ANext

(* --- what is written into a configuration --- *)
LEMMA InRange == \A l, x : x \in Range(l) <=> \E i \in DOMAIN l : l[i] = x
BY DEF Range

(* The two contents a configuration with the user's lines can have. *)
LEMMA OwnLines ==
    /\ \A l \in Lines : l \in Seq(Part) /\ "own" \in Range(l)
    /\ "mod" \notin Range(<<"own">>) /\ "mark" \notin Range(<<"own">>)
    /\ "mod" \in Range(<<"mod", "own">>)
    /\ "own" \notin Range(<<>>) /\ "own" \notin Range(<<"cut">>)
    /\ <<>> \in Seq(Part) /\ <<"cut">> \in Seq(Part)
<1>1. <<"own">> \in Seq(Part) /\ <<"mod", "own">> \in Seq(Part) /\ <<>> \in Seq(Part) /\ <<"cut">> \in Seq(Part)
  BY DEF Part
<1>2. "own" \in Range(<<"own">>) /\ "mod" \notin Range(<<"own">>) /\ "mark" \notin Range(<<"own">>)
  BY InRange
<1>3. "own" \in Range(<<"mod", "own">>) /\ "mod" \in Range(<<"mod", "own">>)
  <2> DEFINE l == <<"mod", "own">>
  <2>1. 1 \in DOMAIN l /\ 2 \in DOMAIN l /\ l[1] = "mod" /\ l[2] = "own" OBVIOUS
  <2> QED BY <2>1, InRange
<1>4. "own" \notin Range(<<>>) /\ "own" \notin Range(<<"cut">>) BY InRange
<1> QED BY <1>1, <1>2, <1>3, <1>4 DEF Lines

(* What is written for an old content with the user's lines has them. *)
LEMMA NewLinesSound ==
    ASSUME NEW c \in Conf, Sound(pbf)
    PROVE  /\ NewLines(c) \in Seq(Part)
           /\ "own" \in Range(NewLines(c)) => NewLines(c) = <<"mod", "own">>
           /\ "own" \in Range(pbf) => NewLines(c) = <<"mod", "own">>
<1>1. pbf \in Seq(Part) BY DEF Sound
<1>2. <<"mod">> \o pbf \in Seq(Part)
  <2>1. <<"mod">> \in Seq(Part) BY DEF Part
  <2> QED BY <1>1, <2>1
<1>3. CASE "own" \in Range(pbf)
  <2>1. CASE pbf = <<"own">>
    <3>1. ~Has(c) BY <2>1, OwnLines DEF Has
    <3>2. NewLines(c) = <<"mod">> \o <<"own">> BY <2>1, <3>1 DEF NewLines
    <3>3. NewLines(c) = <<"mod", "own">>
      <4>1. PICK m \in Seq(Part) : m = <<"mod">> /\ Len(m) = 1 /\ m[1] = "mod"
        <5>1. <<"mod">> \in Seq(Part) BY DEF Part
        <5>2. Len(<<"mod">>) = 1 /\ <<"mod">>[1] = "mod" OBVIOUS
        <5> QED BY <5>1, <5>2
      <4>2. PICK o \in Seq(Part) : o = <<"own">> /\ Len(o) = 1 /\ o[1] = "own"
        <5>1. <<"own">> \in Seq(Part) BY DEF Part
        <5>2. Len(<<"own">>) = 1 /\ <<"own">>[1] = "own" OBVIOUS
        <5> QED BY <5>1, <5>2
      <4>3. PICK s : s = m \o o OBVIOUS
      <4>4. s \in Seq(Part) /\ Len(s) = 2 /\ s[1] = "mod" /\ s[2] = "own" BY <4>1, <4>2, <4>3
      <4>5. s = <<"mod", "own">> BY <4>4
      <4> QED BY <3>2, <4>1, <4>2, <4>3, <4>5
    <3> QED BY <1>2, <2>1, <3>2, <3>3, OwnLines DEF Lines
  <2>2. CASE pbf = <<"mod", "own">>
    <3>1. Has(c) BY <2>2, OwnLines DEF Has
    <3> QED BY <1>1, <2>2, <3>1 DEF NewLines
  <2> QED BY <1>3, <2>1, <2>2 DEF Sound, Lines
<1>4. CASE "own" \notin Range(pbf)
  <2>1. "own" \notin Range(<<"mod">> \o pbf)
    <3> SUFFICES ASSUME NEW i \in DOMAIN (<<"mod">> \o pbf), (<<"mod">> \o pbf)[i] = "own" PROVE FALSE
      BY InRange
    <3>1. i \in 1 .. 1 + Len(pbf) BY <1>1
    <3>2. CASE i = 1 BY <1>1, <3>2
    <3>3. CASE i # 1
      <4>1. i - 1 \in DOMAIN pbf /\ pbf[i - 1] = "own" BY <1>1, <3>1, <3>3
      <4> QED BY <4>1, <1>4, InRange
    <3> QED BY <3>2, <3>3
  <2> QED BY <1>1, <1>2, <1>4, <2>1 DEF NewLines
<1> QED BY <1>3, <1>4

(* A cut in the section and the user's lines leaves no user's line whole. *)
LEMMA CutsSound ==
    ASSUME NEW l \in Seq(Part), "own" \in Range(l) => l = <<"mod", "own">>, NEW x \in Cuts(l)
    PROVE  x \in Seq(Part) /\ "own" \notin Range(x)
<1>0. Len(l) \in Nat /\ \A i \in 1 .. Len(l) : l[i] \in Part OBVIOUS
<1>a. \A i \in 1 .. Len(l) : l[i] = "own" => i = Len(l)
  <2> SUFFICES ASSUME NEW i \in 1 .. Len(l), l[i] = "own" PROVE i = Len(l) OBVIOUS
  <2>1. "own" \in Range(l) BY InRange
  <2>2. l = <<"mod", "own">> BY <2>1
  <2>3. l[1] = "mod" /\ Len(l) = 2 BY <2>2
  <2> QED BY <2>3
<1>1. ASSUME NEW k \in 0 .. Len(l) - 1
      PROVE  /\ SubSeq(l, 1, k) \in Seq(Part) /\ Len(SubSeq(l, 1, k)) = k
             /\ \A i \in 1 .. k : SubSeq(l, 1, k)[i] # "own"
  <2>1. /\ SubSeq(l, 1, k) \in Seq(Part) /\ Len(SubSeq(l, 1, k)) = k
        /\ \A i \in 1 .. k : SubSeq(l, 1, k)[i] = l[i]
    BY <1>0
  <2> QED BY <2>1, <1>a, <1>0
<1>2. CASE \E k \in 0 .. Len(l) - 1 : x = SubSeq(l, 1, k)
  <2>1. PICK k \in 0 .. Len(l) - 1 : x = SubSeq(l, 1, k) BY <1>2
  <2>2. x \in Seq(Part) /\ DOMAIN x = 1 .. k BY <1>1, <2>1
  <2>3. \A i \in 1 .. k : x[i] # "own" BY <1>1, <2>1
  <2> QED BY <2>2, <2>3, InRange
<1>3. CASE \E k \in 1 .. Len(l) : x = Append(SubSeq(l, 1, k - 1), CutPart(l[k]))
  <2>1. PICK k \in 1 .. Len(l) : x = Append(SubSeq(l, 1, k - 1), CutPart(l[k])) BY <1>3
  <2>2. CutPart(l[k]) \in {"mark", "cut"} BY <1>0 DEF CutPart, Part
  <2>3. k - 1 \in 0 .. Len(l) - 1 BY <1>0
  <2>4. PICK s : s = SubSeq(l, 1, k - 1) OBVIOUS
  <2>5. s \in Seq(Part) /\ Len(s) = k - 1 /\ \A i \in 1 .. k - 1 : s[i] # "own"
    BY <1>1, <2>3, <2>4
  <2>6. x = Append(s, CutPart(l[k])) /\ CutPart(l[k]) \in Part BY <2>1, <2>2, <2>4 DEF Part
  <2>7. x \in Seq(Part) /\ Len(x) = k BY <2>5, <2>6
  <2>8. \A i \in 1 .. k : x[i] # "own" BY <2>2, <2>5, <2>6
  <2> QED BY <2>7, <2>8, InRange
<1> QED BY <1>2, <1>3 DEF Cuts

(* Configurations and the buffer keep their sound contents. *)
LEMMA ConfStep ==
    ASSUME TaskInv, ConfInv, [ANext]_avars
    PROVE  ConfInv'
<1>a. conf \in [Conf -> [there : BOOLEAN, lines : Seq(Part)]] /\ Sound(pbf)
      /\ \A c \in Conf : Sound(conf[c].lines)
  BY DEF ConfInv
<1>b. Sound(<<>>) /\ Sound(<<"cut">>) BY OwnLines DEF Sound
<1>c. ASSUME NEW c, NEW l, conf' = [conf EXCEPT ![c] = File(l)], Sound(l)
      PROVE  /\ conf' \in [Conf -> [there : BOOLEAN, lines : Seq(Part)]]
             /\ \A d \in Conf : Sound(conf'[d].lines)
  <2>1. File(l).lines = l /\ File(l) \in [there : BOOLEAN, lines : Seq(Part)] BY <1>c DEF File, Sound
  <2> QED BY <1>a, <1>c, <2>1
<1>1. CASE UNCHANGED <<conf, pbf>> /\ step' \notin {"move", "make", "write"}
  BY <1>1 DEF ConfInv
<1>2. CASE UNCHANGED <<conf, pbf, step, tasks, failed, unsafe>> BY <1>2 DEF ConfInv, Task
<1>3. CASE ReadConf
  <2>1. Task \in Conf /\ conf' = conf BY <1>3 DEF ReadConf, On, Task, files0
  <2>2. CASE ~conf[Task].there BY <1>1, <1>3, <2>1, <2>2 DEF ReadConf, Leaves
  <2>3. CASE conf[Task].there
    <3>1. step' = "move" /\ tasks' = tasks BY <1>3, <2>3 DEF ReadConf, Steps
    <3>2. CASE pbf' = conf[Task].lines
      <4>1. Task \notin unsafe' => "own" \in Range(pbf')
        BY <1>3, <2>3, <3>2 DEF ReadConf
      <4>2. Sound(pbf') BY <1>a, <2>1, <3>2
      <4> QED BY <1>a, <2>1, <3>1, <4>1, <4>2 DEF ConfInv, Task
    <3>3. CASE pbf' = <<"cut">> /\ Breaks
      BY <1>a, <1>b, <2>1, <3>3 DEF ConfInv, Breaks
    <3> QED BY <1>3, <2>3, <3>2, <3>3 DEF ReadConf
  <2> QED BY <2>2, <2>3
<1>4. CASE MoveConf
  <2>1. step = "move" /\ step' = "make" /\ tasks' = tasks /\ Task \in Conf /\ pbf' = pbf
    BY <1>4 DEF MoveConf, On, Task, Steps
  <2>2. CASE conf' = [conf EXCEPT ![Task] = NoFile] /\ UNCHANGED <<unsafe, failing>>
    <3>1. NoFile = [there |-> FALSE, lines |-> <<>>] /\ NoFile \in [there : BOOLEAN, lines : Seq(Part)]
      BY OwnLines DEF NoFile
    <3>2. \A d \in Conf : Sound(conf'[d].lines) BY <1>a, <1>b, <2>2, <3>1
    <3>3. conf' \in [Conf -> [there : BOOLEAN, lines : Seq(Part)]] BY <1>a, <2>2, <3>1
    <3> QED BY <1>a, <2>1, <2>2, <3>2, <3>3 DEF ConfInv, Task, failing
  <2>3. CASE UNCHANGED <<conf, unsafe, failing>>
    BY <1>a, <2>1, <2>3 DEF ConfInv, Task, failing
  <2>4. CASE Breaks /\ UNCHANGED conf
    BY <1>a, <2>1, <2>4 DEF ConfInv, Breaks
  <2> QED BY <1>4, <2>2, <2>3, <2>4 DEF MoveConf, Renamed
<1>5. CASE MakeConf
  <2>1. step = "make" /\ Task \in Conf /\ unsafe' = unsafe BY <1>5 DEF MakeConf, On, Task
  <2>2. CASE Steps("write") /\ Goes /\ pbf' = pbf /\ conf' = [conf EXCEPT ![Task] = File(<<>>)]
    BY <1>a, <1>b, <1>c, <2>1, <2>2 DEF ConfInv, Steps, Goes, failing, Task
  <2>3. CASE Dies /\ pbf' = <<>> /\ conf' = conf
    BY <1>a, <1>b, <2>3 DEF ConfInv, Dies, Leaves
  <2> QED BY <1>5, <2>2, <2>3 DEF MakeConf
<1>6. CASE WriteConf
  <2>1. Task \in Conf /\ pbf' = <<>> BY <1>6 DEF WriteConf, On, Task
  <2>2. step' \notin {"move", "make", "write"} BY <1>6, NextStep DEF WriteConf
  <2>3. /\ NewLines(Task) \in Seq(Part)
        /\ "own" \in Range(NewLines(Task)) => NewLines(Task) = <<"mod", "own">>
    BY <1>a, <2>1, NewLinesSound
  <2>4. Sound(NewLines(Task)) BY <2>3 DEF Sound, Lines
  <2>5. \A x \in Cuts(NewLines(Task)) : Sound(x) BY <2>3, CutsSound DEF Sound
  <2>6. PICK l : conf' = [conf EXCEPT ![Task] = File(l)] /\ Sound(l)
    BY <1>6, <2>4, <2>5 DEF WriteConf
  <2> QED BY <1>b, <1>c, <2>1, <2>2, <2>6 DEF ConfInv
<1>7. CASE OpenInstaller \/ Choose \/ TruncMod \/ AppendMod \/ TruncAnim
           \/ AppendAnim \/ AppendAnimRest \/ RemoveMod
  <2>1. UNCHANGED <<conf, pbf>>
    BY <1>7 DEF OpenInstaller, Choose, TruncMod, AppendMod, TruncAnim, AppendAnim, AppendAnimRest,
       RemoveMod, files0
  <2>2. step' \notin {"move", "make", "write"}
    BY <1>7, NextStep DEF OpenInstaller, Choose, TruncMod, AppendMod, TruncAnim, AppendAnim,
       AppendAnimRest, RemoveMod, Steps, Dies
  <2> QED BY <1>1, <2>1, <2>2
<1>8. CASE Reset \/ PowerLoss
  BY <1>a, <1>b, <1>8 DEF Reset, PowerLoss, Off, Leaves, files0, ConfInv
<1>9. CASE OnPC \/ Take \/ CopyToConsole \/ Setting \/ UNCHANGED avars
  <2>1. UNCHANGED ivars
    BY <1>9 DEF OnPC, Take, CopyToConsole, Setting, avars, console
  <2> QED BY <2>1, <1>2 DEF ivars, files0, failing
<1> QED BY <1>3, <1>4, <1>5, <1>6, <1>7, <1>8, <1>9 DEF ANext, Installing, InstallerStep

(* One task less: only the one that is through. *)
LEMMA OneLess ==
    ASSUME tasks \in Seq(TaskSet), tasks # <<>>, tasks' = Tail(tasks), NEW x, ToDo(x)
    PROVE  x = Task \/ ToDo(x)'
<1>1. PICK i \in 1 .. Len(tasks) : tasks[i] = x BY DEF ToDo
<1>2. Len(tasks') = Len(tasks) - 1 /\ \A j \in 1 .. Len(tasks) - 1 : tasks'[j] = tasks[j + 1]
  OBVIOUS
<1>3. CASE i = 1 BY <1>1, <1>3 DEF Task
<1>4. CASE i # 1
  <2>1. i - 1 \in 1 .. Len(tasks) - 1 /\ (i - 1) + 1 = i BY <1>1, <1>4
  <2>2. tasks'[i - 1] = x BY <1>1, <1>2, <2>1
  <2> QED BY <1>2, <2>1, <2>2 DEF ToDo
<1> QED BY <1>3, <1>4

(* The task at hand is to be done. *)
LEMMA TaskToDo == ASSUME tasks \in Seq(TaskSet), tasks # <<>> PROVE ToDo(Task)
BY DEF ToDo, Task

(* A task that is taken off the list is done, unless one has failed. *)
LEMMA DoneStep ==
    ASSUME TaskInv, ConfInv, HeadInv, DoneInv, [ANext]_avars
    PROVE  DoneInv'
<1>a. tasks \in Seq(TaskSet) /\ mods \in [Mod -> {"none", "empty", "part", "full"}]
      /\ conf \in [Conf -> [there : BOOLEAN, lines : Seq(Part)]]
      /\ Mod \cap Conf = {} /\ "rcf" \notin Mod \cup Conf
  BY DEF TaskInv, TaskSet, DoneInv, ConfInv, Mod, Conf
<1> DEFINE ModsDone == \A m \in Mod : ToDo(m) \/ mods[m] = "full"
           ConfsDone == \A c \in Conf \ unsafe : ToDo(c) \/ conf[c].lines = <<"mod", "own">>
           AnimDone == ToDo("rcf") \/ anim.body = Default \/ crossed
           Appending == On("append", {"rcf"}) /\ ~failed => anim.empty \/ crossed
<1>b. op = "install" /\ ~failed => ModsDone /\ ConfsDone /\ AnimDone BY DEF DoneInv
<1>c. ASSUME mods' \in [Mod -> {"none", "empty", "part", "full"}], Appending',
             op' = "install" /\ ~failed' => ModsDone' /\ ConfsDone' /\ AnimDone'
      PROVE  DoneInv'
  BY <1>c DEF DoneInv
<1>d. step \notin {"off", "menu", "done"} /\ tasks' = tasks => (\A x : ToDo(x) => ToDo(x)') /\ Task' = Task
  BY DEF ToDo, Task
<1>e. step \notin {"off", "menu", "done"} => tasks # <<>> /\ ToDo(Task)
  BY <1>a, TaskToDo DEF TaskInv
<1>f. step \notin {"off", "menu", "done"} /\ NextTask =>
        /\ \A x : ToDo(x) => x = Task \/ ToDo(x)'
        /\ op' = op /\ step' # "append"
  BY <1>a, <1>e, OneLess, NextStep DEF NextTask
<1>g. ASSUME Leaves, mods' \in [Mod -> {"none", "empty", "part", "full"}] PROVE DoneInv'
  BY <1>g DEF DoneInv, Leaves, On
<1>h. ASSUME failed', mods' \in [Mod -> {"none", "empty", "part", "full"}] PROVE DoneInv'
  BY <1>h DEF DoneInv
<1>1. CASE OnPC \/ Take \/ CopyToConsole \/ Setting \/ UNCHANGED avars
  <2>1. UNCHANGED <<step, tasks, op, mods, conf, unsafe, failed>>
    BY <1>1 DEF OnPC, Take, CopyToConsole, Setting, avars, console, ivars, files0, failing
  <2>2. CASE step = "off"
    BY <2>1, <2>2 DEF TaskInv, DoneInv, On
  <2>3. CASE step # "off"
    <3>1. (anim.body = Default \/ crossed) => (anim'.body = Default \/ crossed')
      <4>1. CASE UNCHANGED <<anim, crossed>> BY <4>1
      <4>2. CASE SetKeyInt
        <5>1. anim \in AnimFile BY DEF HeadInv
        <5> QED BY <4>2, <5>1 DEF SetKeyInt, Save, AnimFile
      <4> QED BY <1>1, <2>3, <4>1, <4>2 DEF OnPC, Take, CopyToConsole, Setting, avars, console, svars,
           StartSettings, SettingsStep, OpenCore, CloseCore, StopSettings, EndSettings
    <3>2. (anim.empty \/ crossed) => (anim'.empty \/ crossed')
      <4>1. CASE UNCHANGED <<anim, crossed>> BY <4>1
      <4>2. CASE SetKeyInt
        <5>1. anim.empty => ~fresh BY DEF HeadInv
        <5> QED BY <4>2, <5>1 DEF SetKeyInt, Save
      <4> QED BY <1>1, <2>3, <4>1, <4>2 DEF OnPC, Take, CopyToConsole, Setting, avars, console, svars,
           StartSettings, SettingsStep, OpenCore, CloseCore, StopSettings, EndSettings
    <3> QED BY <2>1, <3>1, <3>2 DEF DoneInv, ToDo, On
  <2> QED BY <2>2, <2>3
<1>2. CASE OpenInstaller
  <2>1. op' = "none" /\ step' = "menu" /\ mods' = mods
    BY <1>2 DEF OpenInstaller, Steps, files0, TaskInv
  <2> QED BY <1>a, <2>1 DEF DoneInv, On
<1>3. CASE Choose
  <2>1. mods' = mods BY <1>3 DEF Choose, files0
  <2>2. CASE op' # "install"
    <3>1. step' # "append" BY <1>3, NextStep DEF Choose
    <3> QED BY <1>a, <2>1, <2>2, <3>1 DEF DoneInv, On
  <2>3. CASE Work(<<"skprx", "suprx", "boot_config", "config", "rcf">>)
    <3>1. tasks' = <<"skprx", "suprx", "boot_config", "config", "rcf">> /\ step' # "append"
      BY <2>3, NextStep
    <3>2. /\ Len(tasks') = 5
          /\ tasks'[1] = "skprx" /\ tasks'[2] = "suprx" /\ tasks'[3] = "boot_config"
          /\ tasks'[4] = "config" /\ tasks'[5] = "rcf"
      BY <3>1
    <3>3. \A x \in Mod \cup Conf \cup {"rcf"} : ToDo(x)'
      <4>1. 1 \in 1 .. 5 /\ 2 \in 1 .. 5 /\ 3 \in 1 .. 5 /\ 4 \in 1 .. 5 /\ 5 \in 1 .. 5 OBVIOUS
      <4> QED BY <3>2, <4>1 DEF ToDo, Mod, Conf
    <3> QED BY <1>a, <2>1, <3>1, <3>3 DEF DoneInv, On
  <2> QED BY <1>3, <2>2, <2>3, <1>a, <1>g, <2>1 DEF Choose, Leaves
<1>4. CASE TruncMod
  <2>1. Task \in Mod /\ step = "trunc" /\ step' = "append" /\ tasks' = tasks /\ op' = op
        /\ UNCHANGED <<conf, unsafe, anim, crossed>>
    BY <1>4 DEF TruncMod, On, Task, Steps, svars
  <2>2. ~On("append", {"rcf"})' BY <1>a, <1>d, <2>1 DEF On, Task
  <2>3. CASE mods' = [mods EXCEPT ![Task] = "empty"] /\ Goes
    BY <1>a, <1>b, <1>d, <1>e, <2>1, <2>2, <2>3 DEF DoneInv, Goes, failing
  <2>4. CASE UNCHANGED mods /\ Breaks BY <1>a, <1>h, <2>4 DEF Breaks
  <2> QED BY <1>4, <2>3, <2>4 DEF TruncMod
<1>5. CASE AppendMod
  <2>1. Task \in Mod /\ step = "append" /\ UNCHANGED <<conf, unsafe, anim, crossed>>
    BY <1>5 DEF AppendMod, On, Task, svars
  <2>2. CASE NextTask /\ Goes /\ mods' = [mods EXCEPT ![Task] = "full"]
    BY <1>a, <1>b, <1>f, <2>1, <2>2 DEF DoneInv, Goes, failing, On
  <2>3. CASE mods' = [mods EXCEPT ![Task] = "part"] /\ Breaks BY <1>a, <1>h, <2>1, <2>3 DEF Breaks
  <2>4. CASE Dies /\ UNCHANGED mods BY <1>a, <1>h, <2>4 DEF Dies, Breaks
  <2> QED BY <1>5, <2>2, <2>3, <2>4 DEF AppendMod
<1>6. CASE ReadConf
  <2>1. step = "read" /\ UNCHANGED <<conf, mods, anim, crossed>> /\ unsafe \subseteq unsafe'
    BY <1>6 DEF ReadConf, On, files0, svars
  <2>2. CASE Leaves BY <1>a, <1>g, <2>1, <2>2
  <2>3. CASE Steps("move")
    <3>1. CASE Goes BY <1>a, <1>b, <1>d, <2>1, <2>3, <3>1 DEF DoneInv, Steps, Goes, failing, On
    <3>2. CASE Breaks BY <1>a, <1>h, <2>1, <3>2 DEF Breaks
    <3> QED BY <1>6, <2>3, <3>1, <3>2 DEF ReadConf
  <2> QED BY <1>6, <2>2, <2>3 DEF ReadConf
<1>7. CASE MoveConf
  <2>1. step = "move" /\ step' = "make" /\ tasks' = tasks /\ op' = op /\ Task \in Conf
        /\ UNCHANGED <<mods, anim, crossed>>
    BY <1>7 DEF MoveConf, On, Steps, Task, svars
  <2>2. CASE Breaks BY <1>a, <1>h, <2>1, <2>2 DEF Breaks
  <2>3. CASE failed' = failed /\ unsafe' = unsafe /\ conf' \in {[conf EXCEPT ![Task] = NoFile], conf}
    BY <1>a, <1>b, <1>d, <1>e, <2>1, <2>3 DEF DoneInv, On
  <2> QED BY <1>7, <2>2, <2>3 DEF MoveConf, Renamed, failing
<1>8. CASE MakeConf
  <2>1. step = "make" /\ Task \in Conf /\ UNCHANGED <<mods, unsafe, anim, crossed>>
    BY <1>8 DEF MakeConf, On, Task, svars
  <2>2. CASE Dies BY <1>a, <1>h, <2>1, <2>2 DEF Dies, Breaks
  <2>3. CASE Steps("write") /\ Goes /\ conf' = [conf EXCEPT ![Task] = File(<<>>)]
    BY <1>a, <1>b, <1>d, <1>e, <2>1, <2>3 DEF DoneInv, On, Steps, Goes, failing
  <2> QED BY <1>8, <2>2, <2>3 DEF MakeConf
<1>9. CASE WriteConf
  <2>1. step = "write" /\ Task \in Conf /\ UNCHANGED <<mods, unsafe, anim, crossed>>
    BY <1>9 DEF WriteConf, On, Task, svars
  <2>2. CASE Breaks BY <1>a, <1>h, <2>1, <2>2 DEF Breaks
  <2>3. CASE Leaves BY <1>a, <1>g, <2>1, <2>3
  <2>4. CASE NextTask /\ Goes /\ conf' = [conf EXCEPT ![Task] = File(NewLines(Task))]
    <3>1. ~failed /\ Task \notin unsafe => NewLines(Task) = <<"mod", "own">>
      BY <2>1, NewLinesSound DEF ConfInv
    <3>2. conf'[Task].lines = NewLines(Task) BY <1>a, <2>1, <2>4 DEF File
    <3>3. \A c \in Conf : c # Task => conf'[c] = conf[c] BY <1>a, <2>4
    <3> QED BY <1>a, <1>b, <1>f, <2>1, <2>4, <3>1, <3>2, <3>3 DEF DoneInv, On, Goes, failing
  <2> QED BY <1>9, <2>2, <2>3, <2>4 DEF WriteConf
<1>10. CASE TruncAnim
  <2>1. step = "trunc" /\ Task = "rcf" /\ step' = "append" /\ tasks' = tasks /\ op' = op
        /\ UNCHANGED <<mods, conf, unsafe>>
    BY <1>10 DEF TruncAnim, On, Task, Steps, files0
  <2>2. CASE Breaks BY <1>a, <1>h, <2>1, <2>2 DEF Breaks
  <2>3. CASE Replace(Emptied) /\ Goes
    <3>1. anim'.empty BY <2>3 DEF Replace, Emptied, Absent
    <3> QED BY <1>a, <1>b, <1>d, <1>e, <2>1, <2>3, <3>1 DEF DoneInv, Goes, failing
  <2> QED BY <1>10, <2>2, <2>3 DEF TruncAnim
<1>11. CASE AppendAnim
  <2>1. step = "append" /\ Task = "rcf" /\ On("append", {"rcf"}) /\ UNCHANGED <<mods, conf, unsafe>>
    BY <1>11 DEF AppendAnim, On, Task, files0
  <2>2. CASE Breaks BY <1>a, <1>h, <2>1, <2>2 DEF Breaks
  <2>3. CASE Steps("append2") /\ Goes
    BY <1>a, <1>b, <1>d, <1>e, <2>1, <2>3 DEF DoneInv, Goes, failing, Steps, On
  <2>4. CASE ~anim.empty /\ NextTask /\ Goes /\ Mixed
    <3>1. crossed' = crossed /\ (~failed => crossed) BY <2>1, <2>4 DEF DoneInv, Mixed, Write
    <3> QED BY <1>a, <1>b, <1>f, <2>1, <2>4, <3>1 DEF DoneInv, Goes, failing, On
  <2> QED BY <1>11, <2>2, <2>3, <2>4 DEF AppendAnim, Dies
<1>12. CASE AppendAnimRest
  <2>1. step = "append2" /\ Task = "rcf" /\ NextTask /\ UNCHANGED <<mods, conf, unsafe>>
    BY <1>12 DEF AppendAnimRest, On, Task, files0
  <2>2. CASE Breaks BY <1>a, <1>h, <2>1, <2>2 DEF Breaks
  <2>3. CASE Write(Good(anim)) /\ Goes
    <3>1. anim'.body = Default BY <2>3 DEF Write, Good, HeadInv, AnimFile
    <3> QED BY <1>a, <1>b, <1>f, <2>1, <2>3, <3>1 DEF DoneInv, Goes, failing, On
  <2> QED BY <1>12, <2>2, <2>3 DEF AppendAnimRest
<1>13. CASE RemoveMod
  <2>1. step = "remove" /\ Task \in Mod /\ NextTask BY <1>13 DEF RemoveMod, On, Task
  <2>2. op' = "remove" /\ step' # "append" BY <1>f, <2>1 DEF TaskInv
  <2>3. mods' \in [Mod -> {"none", "empty", "part", "full"}] BY <1>a, <1>13 DEF RemoveMod
  <2> QED BY <2>2, <2>3 DEF DoneInv, On
<1>14. CASE Reset \/ PowerLoss
  <2>1. Leaves /\ mods' = mods BY <1>14 DEF Reset, PowerLoss, Off, files0
  <2> QED BY <1>a, <1>g, <2>1
<1> QED BY <1>1, <1>2, <1>3, <1>4, <1>5, <1>6, <1>7, <1>8, <1>9, <1>10, <1>11, <1>12, <1>13, <1>14
     DEF ANext, Installing, InstallerStep

(* The installer's invariant, in the whole system. *)
LEMMA InstallInvariant == ASpec => [](TaskInv /\ ConfInv /\ DoneInv)
<1>1. AInit => TaskInv /\ ConfInv /\ DoneInv
  <2> SUFFICES ASSUME AInit PROVE TaskInv /\ ConfInv /\ DoneInv OBVIOUS
  <2>1. step = "off" /\ tasks = <<>> /\ op = "none" /\ pbf = <<>> /\ mods = [m \in Mod |-> "none"]
    BY DEF AInit, InstallerInit
  <2>2. TaskInv
    <3>1. <<>> \in Seq(Mod \cup Conf \cup {"rcf"}) OBVIOUS
    <3> QED BY <2>1, <3>1 DEF TaskInv
  <2>3. \/ conf = [c \in Conf |-> File(<<"own">>)]
        \/ conf = [c \in Conf |-> IF c = "config" THEN NoFile ELSE File(<<"own">>)]
    BY DEF AInit, InstallerInit
  <2>4. Sound(<<"own">>) /\ Sound(<<>>) BY OwnLines DEF Sound, Lines
  <2>5. /\ File(<<"own">>) \in [there : BOOLEAN, lines : Seq(Part)] /\ File(<<"own">>).lines = <<"own">>
        /\ NoFile \in [there : BOOLEAN, lines : Seq(Part)] /\ NoFile.lines = <<>>
    BY <2>4 DEF File, NoFile, Sound
  <2>6. /\ conf \in [Conf -> [there : BOOLEAN, lines : Seq(Part)]]
        /\ \A c \in Conf : conf[c].lines \in {<<"own">>, <<>>}
    BY <2>3, <2>5
  <2>7. ConfInv BY <2>1, <2>4, <2>6 DEF ConfInv
  <2>8. DoneInv BY <2>1 DEF DoneInv, On
  <2> QED BY <2>2, <2>7, <2>8
<1>2. HeadInv /\ TaskInv /\ ConfInv /\ DoneInv /\ [ANext]_avars => (TaskInv /\ ConfInv /\ DoneInv)'
  BY TaskStep, ConfStep, DoneStep
<1> QED BY <1>1, <1>2, HeadInvariant, PTL DEF ASpec

(* An installer that says it is done has installed everything. *)
THEOREM DoneIsInstalledHolds == ASpec => []DoneIsInstalled
<1>1. TaskInv /\ DoneInv => DoneIsInstalled
  <2> SUFFICES ASSUME TaskInv, DoneInv, step = "done", op = "install", ~failed
               PROVE  /\ \A m \in Mod : mods[m] = "full"
                      /\ \A c \in Conf \ unsafe : conf[c].lines = <<"mod", "own">>
                      /\ anim.body = Default \/ crossed
    BY DEF DoneIsInstalled
  <2>1. tasks = <<>> BY DEF TaskInv
  <2>2. \A x : ~ToDo(x)
    <3>1. Len(tasks) = 0 BY <2>1
    <3> QED BY <3>1 DEF ToDo
  <2> QED BY <2>2 DEF DoneInv
<1> QED BY <1>1, InstallInvariant, PTL

(***************************************************************************)
(* The frames of a run of mkanim.                                          *)
(***************************************************************************)

(* There is no picture behind the run's last one, and no packed stream it would
   have to overwrite. *)
Behind == Kept(frames) \in Frame => png[Kept(frames)] = None
Unpacked ==
    /\ \A k \in Frame : k < frames => gz[k] = NoGz
    /\ end_logo => gz[Logo] = NoGz
(* Streams packed by this run, from frame a on. *)
Packed(s) == gz[s].run = run /\ gz[s].size > 0
AllPacked(a) == \A k \in Frame : a <= k /\ k < count => Packed(k)
LogoPacked == end_logo => Packed(Logo)
(* The logo's pixels are there and not packed yet. *)
LogoReady == end_logo => rgba[Logo] = run /\ gz[Logo] = NoGz

(* A walk over the first j frames ends where the body ends. *)
WalkTo(b, logo, j) ==
    /\ Start(b, logo)[j] = Len(b)
    /\ \A i \in 0 .. j - 1 :
         SizeAt(b, Start(b, logo)[i]) = 0 \/ FrameAt(b, Start(b, logo)[i], i)

(* What a run without failures has of its own at each step. *)
OwnStep ==
    /\ pc \in {"coalesce", "extract"} => frames > 0 /\ cur_frame = 0 /\ Unpacked /\ Behind
    /\ pc = "extract" => gif = [run |-> run, frames |-> frames]
    /\ pc = "rgba" =>
         /\ Unpacked /\ Behind /\ cur_frame <= Kept(frames)
         /\ \A k \in Frame : /\ k < cur_frame => rgba[k] = run
                             /\ cur_frame <= k /\ k < Kept(frames) => png[k] = run
    /\ pc \in {"logo", "gzip", "gziplogo", "header", "bodylogo", "body"} => count = Kept(frames)
    /\ pc = "logo" =>
         Unpacked /\ cur_frame = 0 /\ (\A k \in Frame : k < count => rgba[k] = run)
    /\ pc = "gzip" =>
         /\ LogoReady /\ cur_frame <= count
         /\ \A k \in Frame : k < count =>
              IF k < cur_frame THEN Packed(k) ELSE rgba[k] = run /\ gz[k] = NoGz
    /\ pc = "gziplogo" => AllPacked(0) /\ LogoReady
    /\ pc \in {"header", "bodylogo"} => AllPacked(0) /\ LogoPacked
    /\ pc = "bodylogo" => rcf.there /\ rcf.count = count
    /\ pc = "body" =>
         /\ rcf.there /\ AllPacked(cur_frame)
         /\ Intact(rcf.body, cur_frame, rcf.logo)
         /\ Start(rcf.body, rcf.logo)[cur_frame] = Len(rcf.body)
    /\ \A k \in 1 .. Len(from) : from[k] = run

(* OwnFrames is not inductive: the frames go from file to file before they are
   in boot.rcf, and each of them has to be this run's. *)
OwnInv ==
    /\ pc \notin {"idle", "done"} => run > 0
    /\ pc \in {"coalesce", "extract", "rgba", "logo", "gzip", "gziplogo", "header", "bodylogo"} =>
         from = <<>>
    /\ pc \notin {"idle", "done"} /\ ~fault /\ ~spoilt => OwnStep
    /\ OwnFrames

(* Nor is Walkable: the size words lead to the end of what is written so far. *)
WalkInv ==
    /\ pc \in {"bodylogo", "body"} =>
         rcf.logo = end_logo /\ rcf.count = count /\ cur_frame <= count
    /\ pc = "bodylogo" => rcf.body = <<>> /\ cur_frame = 0
    /\ pc = "body" /\ ~uncat => WalkTo(rcf.body, rcf.logo, cur_frame)
    /\ Walkable

(* The sizes are numbers. *)
LEMMA Sized == TypeOK => \A s \in Stream : gz[s].size \in Nat /\ gz[s].run \in Nat /\ gz[s] \in Gz
<1> SUFFICES ASSUME TypeOK, NEW s \in Stream PROVE gz[s].size \in Nat /\ gz[s].run \in Nat /\ gz[s] \in Gz
  OBVIOUS
<1>1. gz[s] \in Gz BY DEF TypeOK
<1>2. Run \subseteq Nat /\ Sizes \subseteq Nat BY MkAnimAssumption DEF Run
<1>3. CASE gz[s] = NoGz BY <1>1, <1>3 DEF NoGz, None
<1>4. CASE gz[s] \in [run : Run \ {None}, size : Sizes] BY <1>1, <1>2, <1>4
<1> QED BY <1>1, <1>3, <1>4 DEF Gz

(* A size word and, where the stream is there, the stream. *)
LEMMA Appended ==
    ASSUME TypeOK, NEW s \in Stream, AppendStream(s)
    PROVE  /\ gz' \in [Stream -> Gz] /\ \A u \in Stream : u # s => gz'[u] = gz[u]
           /\ rcf' \in [there : BOOLEAN, count : 0 .. MaxFrames, logo : BOOLEAN, body : Seq(Unit)]
           /\ UNCHANGED <<rcf.there, rcf.count, rcf.logo>>
           /\ from' \in Seq(Run) /\ fault' \in BOOLEAN /\ uncat' \in BOOLEAN
           /\ fault => fault'
           /\ uncat => uncat'
           /\ ~uncat' => WithStream(rcf.body, rcf'.body, s, gz[s].size)
           /\ ~fault' => gz[s] # NoGz /\ ~(uncat' /\ ~uncat) /\ from' = Append(from, gz[s].run)
                         /\ WithStream(rcf.body, rcf'.body, s, gz[s].size)
<1>0. /\ gz \in [Stream -> Gz] /\ NoGz \in Gz /\ from \in Seq(Run)
      /\ rcf \in [there : BOOLEAN, count : 0 .. MaxFrames, logo : BOOLEAN, body : Seq(Unit)]
      /\ fault \in BOOLEAN /\ uncat \in BOOLEAN
  BY DEF TypeOK, Gz
<1>1. gz' = [gz EXCEPT ![s] = NoGz] BY DEF AppendStream
<1>n. PICK n \in Nat : n = gz[s].size BY Sized
<1>b. PICK b \in Seq(Unit) : b = rcf.body BY <1>0
<1>l. Len(b) \in Nat OBVIOUS
<1>w. Word(n) \in Unit BY DEF Word, Unit
<1>f. PICK f \in Seq(Unit) : f = Pieces(s) /\ Len(f) = n /\ \A k \in 1 .. n : f[k] = Piece(s, k)
  <2>1. s \in Int BY MkAnimAssumption DEF Stream, Frame, Logo
  <2>2. \A k \in 1 .. n : Piece(s, k) \in Unit BY <2>1 DEF Piece, Unit
  <2>3. [k \in 1 .. n |-> Piece(s, k)] \in Seq(Unit) /\ Len([k \in 1 .. n |-> Piece(s, k)]) = n
    BY <2>2
  <2> QED BY <2>3, <1>n DEF Pieces
<1>2. CASE /\ gz[s] # NoGz /\ Works /\ UNCHANGED uncat
           /\ rcf' = [rcf EXCEPT !.body = @ \o <<Word(SizeOf(s))>> \o Pieces(s)]
           /\ from' = Append(from, gz[s].run)
  <2>1. PICK w \in Seq(Unit) : w = <<Word(n)>> /\ Len(w) = 1 /\ w[1] = Word(n)
    <3>1. <<Word(n)>> \in Seq(Unit) /\ Len(<<Word(n)>>) = 1 /\ <<Word(n)>>[1] = Word(n) BY <1>w
    <3> QED BY <3>1
  <2>2. PICK v : v = b \o w OBVIOUS
  <2>3. /\ v \in Seq(Unit) /\ Len(v) = Len(b) + 1 /\ v[Len(b) + 1] = Word(n)
        /\ \A k \in 1 .. Len(b) : v[k] = b[k]
    BY <2>1, <2>2, <1>l
  <2>4. PICK d : d = v \o f OBVIOUS
  <2>5. /\ d \in Seq(Unit) /\ Len(d) = Len(v) + n
        /\ \A k \in 1 .. Len(v) : d[k] = v[k]
        /\ \A k \in 1 .. n : d[Len(v) + k] = f[k]
    <3>1. /\ v \o f \in Seq(Unit) /\ Len(v \o f) = Len(v) + Len(f)
          /\ \A k \in 1 .. Len(v) : (v \o f)[k] = v[k]
          /\ \A k \in 1 .. Len(f) : (v \o f)[Len(v) + k] = f[k]
      BY <2>3, Concat
    <3>2. Len(f) = n BY <1>f
    <3> QED BY <2>4, <3>1, <3>2
  <2>6. WithStream(b, d, s, n)
    <3>1. Prefixed(b, d)
      <4>1. Len(b) <= Len(d) BY <1>l, <2>3, <2>5
      <4>2. \A k \in 1 .. Len(b) : k \in 1 .. Len(v) BY <1>l, <2>3
      <4> QED BY <2>3, <2>5, <4>1, <4>2 DEF Prefixed
    <3>2. Len(d) = Len(b) + 1 + n BY <2>3, <2>5
    <3>3. d[Len(b) + 1] = Word(n)
      <4>1. Len(b) + 1 \in 1 .. Len(v) BY <1>l, <2>3
      <4> QED BY <2>3, <2>5, <4>1
    <3>4. \A k \in 1 .. n : d[Len(b) + 1 + k] = Piece(s, k) BY <1>f, <2>3, <2>5
    <3> QED BY <3>1, <3>2, <3>3, <3>4 DEF WithStream
  <2>7. rcf' = [rcf EXCEPT !.body = d] BY <1>2, <1>b, <1>f, <1>n, <2>1, <2>2, <2>4 DEF SizeOf
  <2>8. rcf'.body = d /\ UNCHANGED <<rcf.there, rcf.count, rcf.logo>>
        /\ rcf' \in [there : BOOLEAN, count : 0 .. MaxFrames, logo : BOOLEAN, body : Seq(Unit)]
    BY <1>0, <2>5, <2>7
  <2>9. from' \in Seq(Run)
    <3>1. gz[s].run \in Run
      <4>1. gz[s] \in Gz /\ None \in Run BY Sized, MkAnimAssumption DEF Run, None
      <4> QED BY <4>1 DEF Gz, NoGz
    <3> QED BY <1>0, <1>2, <3>1
  <2> QED BY <1>0, <1>1, <1>2, <1>b, <1>n, <2>6, <2>8, <2>9 DEF Works
<1>3. CASE /\ rcf' = [rcf EXCEPT !.body = Append(@, Word(SizeOf(s)))]
           /\ Fails /\ uncat' = (uncat \/ gz[s] # NoGz)
           /\ UNCHANGED from
  <2>1. PICK d : d = Append(b, Word(n)) OBVIOUS
  <2>2. /\ d \in Seq(Unit) /\ Len(d) = Len(b) + 1 /\ d[Len(b) + 1] = Word(n)
        /\ \A k \in 1 .. Len(b) : d[k] = b[k]
    BY <2>1, <1>w, <1>l
  <2>3. rcf' = [rcf EXCEPT !.body = d] BY <1>3, <1>b, <1>n, <2>1 DEF SizeOf
  <2>4. rcf'.body = d /\ UNCHANGED <<rcf.there, rcf.count, rcf.logo>>
        /\ rcf' \in [there : BOOLEAN, count : 0 .. MaxFrames, logo : BOOLEAN, body : Seq(Unit)]
    BY <1>0, <2>2, <2>3
  <2>5. gz[s] = NoGz => WithStream(b, d, s, n)
    <3> SUFFICES ASSUME gz[s] = NoGz PROVE WithStream(b, d, s, n) OBVIOUS
    <3>1. n = 0 BY <1>n DEF NoGz
    <3>2. Prefixed(b, d) BY <2>2, <1>l DEF Prefixed
    <3> QED BY <2>2, <1>l, <3>1, <3>2 DEF WithStream
  <2> QED BY <1>0, <1>1, <1>3, <1>b, <1>n, <2>4, <2>5 DEF Fails
<1> QED BY <1>2, <1>3 DEF AppendStream

(* Every step of the tool keeps its types. *)
LEMMA TypeStep == TypeOK /\ [Next]_vars => TypeOK'
<1> SUFFICES ASSUME TypeOK, [Next]_vars PROVE TypeOK' OBVIOUS
<1>0. MaxFrames \in Nat \ {0} /\ MaxRuns \in Nat \ {0} /\ Sizes \subseteq Nat \ {0}
  BY MkAnimAssumption
<1>1. CASE Begin
  <2>1. run' \in Run BY <1>0, <1>1 DEF Begin, TypeOK, Run
  <2>2. NoRcf \in [there : BOOLEAN, count : 0 .. MaxFrames, logo : BOOLEAN, body : Seq(Unit)]
    BY <1>0 DEF NoRcf
  <2>3. <<>> \in Seq(Run) OBVIOUS
  <2>4. spoilt' \in BOOLEAN BY <1>1 DEF Begin, Spoils
  <2>5. rcf' \in {rcf, NoRcf} /\ from' \in {from, <<>>} BY <1>1 DEF Begin
  <2>6. rcf' \in [there : BOOLEAN, count : 0 .. MaxFrames, logo : BOOLEAN, body : Seq(Unit)]
        /\ from' \in Seq(Run)
    BY <2>2, <2>3, <2>5 DEF TypeOK
  <2>7. pc' \in {"idle", "coalesce"} /\ frames' \in 0 .. MaxFrames /\ end_logo' \in BOOLEAN
    BY <1>1 DEF Begin
  <2>8. /\ cur_frame' = 0 /\ count' = 0 /\ fault' = FALSE /\ uncat' = FALSE
        /\ UNCHANGED <<gif, png, rgba, gz>>
    BY <1>1 DEF Begin, files
  <2>9. 0 \in 0 .. MaxFrames BY <1>0
  <2> HIDE DEF Begin
  <2> QED BY <2>1, <2>4, <2>6, <2>7, <2>8, <2>9 DEF TypeOK
<1>2. CASE Coalesce
  <2>1. Coalesced \in [run : Run, frames : 0 .. MaxFrames] BY DEF Coalesced, TypeOK
  <2> QED BY <1>2, <2>1 DEF Coalesce, TypeOK, input, Works, Fails
<1>3. CASE Extract
  <2>1. \A m : Extracted(m) \in [Frame \cup {Bare} -> Run] BY DEF TypeOK, Extracted
  <2>2. NoGif \in [run : Run, frames : 0 .. MaxFrames] BY <1>0 DEF NoGif, Run, None
  <2>3. png' \in [Frame \cup {Bare} -> Run] BY <1>3, <2>1 DEF Extract, TypeOK
  <2> QED BY <1>3, <2>2, <2>3 DEF Extract, TypeOK, input, Works, Fails
<1>4. CASE ToRgba
  <2>0. None \in Run BY <1>0 DEF Run, None
  <2>1. CASE HasPng
    <3>1. cur_frame \in Frame /\ cur_frame + 1 \in 0 .. MaxFrames /\ cur_frame \in Stream
      BY <1>0, <2>1 DEF HasPng, Frame, Stream
    <3> QED BY <1>4, <2>0, <2>1, <3>1 DEF ToRgba, TypeOK, input, Works, Fails
  <2>2. CASE ~HasPng BY <1>0, <1>4, <2>2 DEF ToRgba, TypeOK, input
  <2> QED BY <2>1, <2>2
<1>5. CASE LogoToRgba
  <2>1. Logo \in Stream BY DEF Stream
  <2> QED BY <1>5, <2>1 DEF LogoToRgba, TypeOK, input, Works, Fails
<1>a. ASSUME NEW s \in Stream, Gzip(s)
      PROVE  rgba' \in [Stream -> Run] /\ gz' \in [Stream -> Gz] /\ fault' \in BOOLEAN
  <2>0. None \in Run BY <1>0 DEF Run, None
  <2>1. \A n \in Sizes : rgba[s] # None => [run |-> rgba[s], size |-> n] \in Gz BY DEF TypeOK, Gz
  <2> QED BY <1>a, <2>0, <2>1 DEF Gzip, TypeOK, Works, Fails
<1>6. CASE GzipFrame
  <2>1. CASE cur_frame < count /\ Gzip(cur_frame) /\ cur_frame' = cur_frame + 1 /\ UNCHANGED pc
    <3>1. cur_frame \in Stream /\ cur_frame + 1 \in 0 .. MaxFrames
      BY <1>0, <2>1 DEF TypeOK, Stream, Frame
    <3> QED BY <1>6, <1>a, <2>1, <3>1 DEF GzipFrame, TypeOK, input
  <2>2. CASE pc' = "gziplogo" /\ UNCHANGED <<cur_frame, rgba, gz, fault>>
    BY <1>6, <2>2 DEF GzipFrame, TypeOK, input
  <2> QED BY <1>6, <2>1, <2>2 DEF GzipFrame
<1>7. CASE GzipLogo
  <2>1. Logo \in Stream BY DEF Stream
  <2>2. rgba' \in [Stream -> Run] /\ gz' \in [Stream -> Gz] /\ fault' \in BOOLEAN
    BY <1>7, <1>a, <2>1 DEF GzipLogo, TypeOK
  <2> QED BY <1>7, <2>2 DEF GzipLogo, TypeOK, input
<1>8. CASE Header
  <2>1. [there |-> TRUE, count |-> count, logo |-> end_logo, body |-> <<>>]
          \in [there : BOOLEAN, count : 0 .. MaxFrames, logo : BOOLEAN, body : Seq(Unit)]
    BY DEF TypeOK
  <2>2. /\ rcf' \in [there : BOOLEAN, count : 0 .. MaxFrames, logo : BOOLEAN, body : Seq(Unit)]
        /\ pc' \in {"bodylogo", "idle"} /\ fault' \in BOOLEAN /\ cur_frame' = 0
        /\ UNCHANGED <<run, frames, end_logo, count, gif, png, rgba, gz, spoilt, uncat, from>>
    BY <1>8, <2>1 DEF Header, TypeOK, input, files, Works, Fails
  <2>3. 0 \in 0 .. MaxFrames BY <1>0
  <2> QED BY <2>2, <2>3 DEF TypeOK
<1>9. CASE BodyLogo
  <2>1. Logo \in Stream BY DEF Stream
  <2>2. CASE AppendStream(Logo)
    BY <1>9, <2>1, <2>2, Appended DEF BodyLogo, TypeOK, input
  <2>3. CASE UNCHANGED <<gz, rcf, fault, uncat, from>>
    BY <1>9, <2>3 DEF BodyLogo, TypeOK, input
  <2> QED BY <1>9, <2>2, <2>3 DEF BodyLogo
<1>10. CASE BodyFrame
  <2>1. CASE cur_frame < count /\ AppendStream(cur_frame) /\ cur_frame' = cur_frame + 1 /\ UNCHANGED pc
    <3>1. cur_frame \in Stream /\ cur_frame + 1 \in 0 .. MaxFrames
      BY <1>0, <2>1 DEF TypeOK, Stream, Frame
    <3> QED BY <1>10, <2>1, <3>1, Appended DEF BodyFrame, TypeOK, input
  <2>2. CASE pc' = "done" /\ UNCHANGED <<cur_frame, gz, rcf, fault, uncat, from>>
    BY <1>10, <2>2 DEF BodyFrame, TypeOK, input
  <2> QED BY <1>10, <2>1, <2>2 DEF BodyFrame
<1>11. CASE Kill BY <1>11 DEF Kill, TypeOK, input, files
<1>12. CASE UNCHANGED vars BY <1>12 DEF vars, TypeOK, input, files
<1> QED BY <1>1, <1>2, <1>3, <1>4, <1>5, <1>6, <1>7, <1>8, <1>9, <1>10, <1>11, <1>12 DEF Next, Main

(* One stream more: the walk goes over it. *)
LEMMA WalkFurther ==
    ASSUME NEW b, NEW d, NEW logo \in BOOLEAN, NEW j \in Nat, NEW n,
           WithStream(b, d, j, n), WalkTo(b, logo, j)
    PROVE  WalkTo(d, logo, j + 1)
<1>0. Prefixed(b, d) /\ b \in Seq(Unit) /\ d \in Seq(Unit) /\ n \in Nat BY DEF WithStream, Prefixed
<1>1. Start(b, logo)[j] = Len(b) BY DEF WalkTo
<1>2. \A i \in 0 .. j : Start(d, logo)[i] = Start(b, logo)[i] BY <1>0, <1>1, StartKept
<1>3. Start(d, logo)[j] = Len(b)
  <2>1. j \in 0 .. j OBVIOUS
  <2> QED BY <1>1, <1>2, <2>1
<1>4. Start(d, logo)[j + 1] = Len(d)
  <2>1. Start(d, logo)[j + 1] = After(d, Start(d, logo)[j]) BY <1>0, StartUnfolds
  <2> QED BY <1>3, <2>1, StreamThere
<1>5. ASSUME NEW i \in 0 .. j
      PROVE  SizeAt(d, Start(d, logo)[i]) = 0 \/ FrameAt(d, Start(d, logo)[i], i)
  <2>1. CASE i = j
    <3>1. SizeAt(d, Len(b)) = n /\ (n > 0 => FrameAt(d, Len(b), j)) BY StreamThere
    <3> QED BY <1>0, <1>3, <2>1, <3>1
  <2>2. CASE i # j
    <3>1. i \in 0 .. j - 1 /\ i \in Nat /\ i < j BY <2>2
    <3>2. Start(b, logo)[i] \in Nat BY <1>0, <3>1, StartGrows
    <3>3. Start(b, logo)[i] < Len(b) BY <1>0, <1>1, <3>1, StartStrict
    <3>4. SizeAt(b, Start(b, logo)[i]) = 0 \/ FrameAt(b, Start(b, logo)[i], i)
      BY <3>1 DEF WalkTo
    <3>5. SizeAt(d, Start(b, logo)[i]) = 0 \/ FrameAt(d, Start(b, logo)[i], i)
      BY <1>0, <3>2, <3>3, <3>4, SizeKept, FrameKept
    <3> QED BY <1>2, <3>5
  <2> QED BY <2>1, <2>2
<1>6. \A i \in 0 .. (j + 1) - 1 : i \in 0 .. j OBVIOUS
<1> QED BY <1>4, <1>5, <1>6 DEF WalkTo

(* A file of j whole frames with one more stream has one more whole frame. *)
LEMMA IntactFurther ==
    ASSUME NEW b, NEW d, NEW logo \in BOOLEAN, NEW j \in Nat, NEW n,
           WithStream(b, d, j, n), n > 0,
           Intact(b, j, logo), Start(b, logo)[j] = Len(b)
    PROVE  Intact(d, j + 1, logo) /\ Start(d, logo)[j + 1] = Len(d)
<1>0. Prefixed(b, d) /\ b \in Seq(Unit) /\ d \in Seq(Unit) /\ n \in Nat /\ Len(b) \in Nat
  BY DEF WithStream, Prefixed
<1>2. \A i \in 0 .. j : Start(d, logo)[i] = Start(b, logo)[i] BY <1>0, StartKept
<1>3. Start(d, logo)[j] = Len(b)
  <2>1. j \in 0 .. j OBVIOUS
  <2> QED BY <1>2, <2>1
<1>4. Start(d, logo)[j + 1] = Len(d)
  <2>1. Start(d, logo)[j + 1] = After(d, Start(d, logo)[j]) BY <1>0, StartUnfolds
  <2> QED BY <1>3, <2>1, StreamThere
<1>5. ASSUME NEW i \in 0 .. j PROVE FrameAt(d, Start(d, logo)[i], i)
  <2>1. CASE i = j
    <3>1. FrameAt(d, Len(b), j) BY StreamThere
    <3> QED BY <1>3, <2>1, <3>1
  <2>2. CASE i # j
    <3>1. i \in 0 .. j - 1 /\ i \in Nat /\ i < j BY <2>2
    <3>2. Start(b, logo)[i] \in Nat BY <1>0, <3>1, StartGrows
    <3>3. Start(b, logo)[i] < Len(b) BY <1>0, <3>1, StartStrict
    <3>4. FrameAt(b, Start(b, logo)[i], i) BY <3>1 DEF Intact
    <3>5. FrameAt(d, Start(b, logo)[i], i) BY <1>0, <3>2, <3>3, <3>4, FrameKept
    <3> QED BY <1>2, <3>5
  <2> QED BY <2>1, <2>2
<1>6. logo => FrameAt(d, 0, Logo)
  <2> SUFFICES ASSUME logo PROVE FrameAt(d, 0, Logo) OBVIOUS
  <2>1. FrameAt(b, 0, Logo) BY DEF Intact
  <2>2. After(b, 0) \in Nat /\ After(b, 0) > 0 BY <1>0, AfterNat
  <2>3. 0 < Len(b) BY <1>0, <2>1, <2>2 DEF FrameAt
  <2> QED BY <1>0, <2>1, <2>3, FrameKept
<1>7. \A i \in 0 .. (j + 1) - 1 : i \in 0 .. j OBVIOUS
<1> QED BY <1>4, <1>5, <1>6, <1>7 DEF Intact

(* The logo comes first. *)
LEMMA LogoFirst ==
    ASSUME NEW b, b = <<>>, NEW d, NEW n, WithStream(b, d, Logo, n)
    PROVE  /\ Start(d, TRUE)[0] = Len(d)
           /\ n > 0 => FrameAt(d, 0, Logo)
<1>0. d \in Seq(Unit) BY DEF WithStream, Prefixed
<1>1. Len(b) = 0 OBVIOUS
<1>2. Start(d, TRUE)[0] = After(d, 0) BY <1>0, StartUnfolds DEF FirstOffset
<1> QED BY <1>1, <1>2, StreamThere

(* A file without an end logo begins with its first frame. *)
LEMMA NothingYet == \A b : b = <<>> => Start(b, FALSE)[0] = Len(b)
<1> SUFFICES ASSUME NEW b, b = <<>> PROVE Start(b, FALSE)[0] = Len(b) OBVIOUS
<1>1. b \in Seq(Unit) /\ Len(b) = 0 OBVIOUS
<1>2. Start(b, FALSE)[0] = FirstOffset(b, FALSE) BY <1>1, StartUnfolds
<1> QED BY <1>1, <1>2 DEF FirstOffset

(* A size word that is 0 or a stream of that size is added in every turn, so
   the walk over the turns made so far ends where the file ends. *)
LEMMA WalkStep == TypeOK /\ WalkInv /\ [Next]_vars => WalkInv'
<1> SUFFICES ASSUME TypeOK, WalkInv, [Next]_vars PROVE WalkInv' OBVIOUS
<1>0. /\ cur_frame \in Nat /\ count \in Nat /\ end_logo \in BOOLEAN
      /\ rcf \in [there : BOOLEAN, count : 0 .. MaxFrames, logo : BOOLEAN, body : Seq(Unit)]
  BY MkAnimAssumption DEF TypeOK
<1>e. 0 .. 0 - 1 = {} OBVIOUS
<1>1. CASE pc' \notin {"bodylogo", "body", "done"} BY <1>1 DEF WalkInv, Walkable
<1>2. CASE Header
  <2>1. CASE pc' = "bodylogo"
    <3>1. rcf' = [there |-> TRUE, count |-> count, logo |-> end_logo, body |-> <<>>]
          /\ cur_frame' = 0 /\ UNCHANGED <<count, end_logo>>
      BY <1>2, <2>1 DEF Header, input
    <3> QED BY <1>0, <2>1, <3>1 DEF WalkInv, Walkable
  <2> QED BY <1>1, <1>2, <2>1 DEF Header
<1>3. CASE BodyLogo
  <2>1. /\ pc = "bodylogo" /\ pc' = "body" /\ UNCHANGED <<end_logo, count, cur_frame>>
        /\ rcf.logo = end_logo /\ rcf.count = count /\ rcf.body = <<>> /\ cur_frame = 0
    BY <1>3 DEF BodyLogo, input, WalkInv
  <2>2. CASE end_logo /\ AppendStream(Logo)
    <3>1. Logo \in Stream BY DEF Stream
    <3>2. /\ rcf'.logo = rcf.logo /\ rcf'.count = rcf.count
          /\ ~uncat' => WithStream(rcf.body, rcf'.body, Logo, gz[Logo].size)
      BY <2>2, <3>1, Appended
    <3>3. ~uncat' => Start(rcf'.body, TRUE)[0] = Len(rcf'.body) BY <2>1, <3>2, LogoFirst
    <3>4. ~uncat' => WalkTo(rcf'.body, TRUE, 0) BY <1>e, <3>3 DEF WalkTo
    <3> QED BY <1>0, <2>1, <2>2, <3>2, <3>4 DEF WalkInv, Walkable
  <2>3. CASE ~end_logo /\ UNCHANGED rcf
    <3>1. WalkTo(rcf.body, FALSE, 0) BY <1>e, <2>1, NothingYet DEF WalkTo
    <3> QED BY <1>0, <2>1, <2>3, <3>1 DEF WalkInv, Walkable
  <2> QED BY <1>3, <2>2, <2>3 DEF BodyLogo
<1>4. CASE BodyFrame
  <2>1. /\ pc = "body" /\ UNCHANGED <<end_logo, count>>
        /\ rcf.logo = end_logo /\ rcf.count = count /\ cur_frame <= count
        /\ ~uncat => WalkTo(rcf.body, rcf.logo, cur_frame)
    BY <1>4 DEF BodyFrame, input, WalkInv
  <2>2. CASE cur_frame < count /\ AppendStream(cur_frame) /\ cur_frame' = cur_frame + 1 /\ UNCHANGED pc
    <3>1. cur_frame \in Stream BY <2>2, MkAnimAssumption DEF TypeOK, Stream, Frame
    <3>2. /\ rcf'.logo = rcf.logo /\ rcf'.count = rcf.count /\ (uncat => uncat')
          /\ ~uncat' => WithStream(rcf.body, rcf'.body, cur_frame, gz[cur_frame].size)
      BY <2>2, <3>1, Appended
    <3>3. ~uncat' => WalkTo(rcf'.body, rcf.logo, cur_frame + 1)
      BY <1>0, <2>1, <3>2, WalkFurther
    <3>4. cur_frame + 1 <= count BY <1>0, <2>2
    <3> QED BY <2>1, <2>2, <3>2, <3>3, <3>4 DEF WalkInv, Walkable
  <2>3. CASE cur_frame = count /\ pc' = "done" /\ UNCHANGED <<cur_frame, gz, rcf, fault, uncat, from>>
    BY <2>1, <2>3 DEF WalkInv, Walkable, WalkTo
  <2> QED BY <1>4, <2>2, <2>3 DEF BodyFrame
<1>5. CASE Begin \/ Coalesce \/ Extract \/ ToRgba \/ LogoToRgba \/ GzipFrame \/ GzipLogo \/ Kill
  <2>1. pc' \notin {"bodylogo", "body", "done"}
    BY <1>5 DEF Begin, Coalesce, Extract, ToRgba, LogoToRgba, GzipFrame, GzipLogo, Kill
  <2> QED BY <1>1, <2>1
<1>6. CASE UNCHANGED vars BY <1>6 DEF vars, input, WalkInv, Walkable
<1> QED BY <1>2, <1>3, <1>4, <1>5, <1>6 DEF Next, Main

(* Of a history to which the run's own number is added. *)
LEMMA OwnHistory ==
    ASSUME NEW f \in Seq(Run), NEW r \in Run, \A k \in 1 .. Len(f) : f[k] = r
    PROVE  \A k \in 1 .. Len(Append(f, r)) : Append(f, r)[k] = r
<1>1. Len(f) \in Nat /\ Len(Append(f, r)) = Len(f) + 1 OBVIOUS
<1>2. ASSUME NEW k \in 1 .. Len(f) + 1 PROVE Append(f, r)[k] = r
  <2>1. CASE k = Len(f) + 1 BY <2>1
  <2>2. CASE k # Len(f) + 1
    <3>1. k \in 1 .. Len(f) BY <1>1, <2>2
    <3> QED BY <3>1
  <2> QED BY <2>1, <2>2
<1> QED BY <1>1, <1>2

(* A run keeps its own files apart, up to the file it makes. *)
LEMMA OwnNext == TypeOK /\ WalkInv /\ OwnInv /\ [Next]_vars => OwnInv'
<1> SUFFICES ASSUME TypeOK, WalkInv, OwnInv, [Next]_vars PROVE OwnInv' OBVIOUS
<1>0. /\ run \in Nat /\ frames \in Nat /\ cur_frame \in Nat /\ count \in Nat
      /\ frames <= MaxFrames /\ MaxFrames \in Nat /\ Kept(frames) \in Nat /\ Kept(frames) <= frames
      /\ fault \in BOOLEAN /\ spoilt \in BOOLEAN /\ end_logo \in BOOLEAN
      /\ Frame = 0 .. MaxFrames - 1 /\ Frame \subseteq Stream /\ Logo \in Stream /\ Logo \notin Frame
  BY MkAnimAssumption DEF TypeOK, Run, Kept, Frame, Stream, Logo
<1>t. /\ png \in [Frame \cup {Bare} -> Run] /\ rgba \in [Stream -> Run] /\ gz \in [Stream -> Gz]
      /\ from \in Seq(Run) /\ run \in Run
      /\ rcf \in [there : BOOLEAN, count : 0 .. MaxFrames, logo : BOOLEAN, body : Seq(Unit)]
  BY DEF TypeOK
<1>e. from = <<>> => \A k \in 1 .. Len(from) : from[k] = run
  <2> SUFFICES ASSUME from = <<>> PROVE \A k \in 1 .. Len(from) : from[k] = run OBVIOUS
  <2>1. Len(from) = 0 OBVIOUS
  <2> QED BY <2>1
<1>i. CASE pc' = "idle" BY <1>i DEF OwnInv, OwnFrames
<1>1. CASE Begin
  <2>1. PICK n \in 0 .. MaxFrames, logo \in BOOLEAN :
           /\ frames' = n /\ end_logo' = logo /\ spoilt' = Spoils(n, logo)
           /\ IF n = 0 THEN pc' = "idle" /\ UNCHANGED <<rcf, from>>
                       ELSE pc' = "coalesce" /\ rcf' = NoRcf /\ from' = <<>>
    BY <1>1 DEF Begin
  <2>2. CASE n # 0
    <3>1. pc' = "coalesce" /\ from' = <<>> /\ run' > 0 /\ cur_frame' = 0 /\ UNCHANGED <<png, gz>>
      BY <1>0, <1>1, <2>1, <2>2 DEF Begin, files
    <3>2. ~spoilt' => Unpacked' /\ Behind'
      BY <2>1, <3>1 DEF Spoils, Unpacked, Behind, Kept
    <3>3. Len(from') = 0 BY <3>1
    <3>4. ~spoilt' => OwnStep' BY <2>1, <2>2, <3>1, <3>2, <3>3 DEF OwnStep
    <3> QED BY <3>1, <3>4 DEF OwnInv, OwnFrames
  <2> QED BY <1>i, <2>1, <2>2
<1>2. CASE Coalesce
  <2>1. /\ pc = "coalesce" /\ pc' = "extract" /\ spoilt' = spoilt /\ from' = from
        /\ UNCHANGED <<run, frames, end_logo, cur_frame, count, png, gz>>
        /\ ~fault' => ~fault /\ gif' = [run |-> run, frames |-> frames]
    BY <1>2 DEF Coalesce, Coalesced, input, Works, Fails
  <2>2. ~fault /\ ~spoilt => frames > 0 /\ cur_frame = 0 /\ Unpacked /\ Behind
    BY <2>1 DEF OwnInv, OwnStep
  <2>3. ~fault' /\ ~spoilt' => OwnStep'
    BY <1>e, <2>1, <2>2 DEF OwnInv, OwnStep, Unpacked, Behind
  <2> QED BY <2>1, <2>3 DEF OwnInv, OwnFrames
<1>3. CASE Extract
  <2>1. /\ pc = "extract" /\ pc' = "rgba" /\ spoilt' = spoilt /\ from' = from
        /\ UNCHANGED <<run, frames, end_logo, cur_frame, count, rgba, gz>>
        /\ ~fault' => ~fault /\ png' = Extracted(gif.frames)
    BY <1>3 DEF Extract, input, Works, Fails
  <2>2. ~fault /\ ~spoilt =>
          frames > 0 /\ cur_frame = 0 /\ Unpacked /\ Behind /\ gif = [run |-> run, frames |-> frames]
    BY <2>1 DEF OwnInv, OwnStep
  <2>3. ~fault' /\ ~spoilt' => OwnStep'
    <3> SUFFICES ASSUME ~fault', ~spoilt' PROVE OwnStep' OBVIOUS
    <3>1. gif.run = run /\ gif.frames = frames BY <2>1, <2>2
    <3>2. png' = [k \in Frame \cup {Bare} |->
                    IF (IF frames = 1 THEN k = Bare ELSE k \in 0 .. frames - 1) THEN run ELSE png[k]]
      BY <1>t, <2>1, <3>1 DEF Extracted
    <3>3. \A k \in Frame : k < Kept(frames) => png'[k] = run
      <4> SUFFICES ASSUME NEW k \in Frame, k < Kept(frames) PROVE png'[k] = run OBVIOUS
      <4>1. frames # 1 /\ k \in 0 .. frames - 1 BY <1>0 DEF Kept
      <4> QED BY <3>2, <4>1
    <3>4. Kept(frames) \in Frame => png'[Kept(frames)] = None
      <4> SUFFICES ASSUME Kept(frames) \in Frame PROVE png'[Kept(frames)] = None OBVIOUS
      <4>1. png[Kept(frames)] = None BY <2>1, <2>2 DEF Behind
      <4>2. CASE frames = 1 BY <3>2, <4>1, <4>2 DEF Kept, Bare
      <4>3. CASE frames # 1
        <5>1. Kept(frames) = frames /\ frames \notin 0 .. frames - 1 BY <1>0, <4>3 DEF Kept
        <5> QED BY <3>2, <4>1, <4>3, <5>1
      <4> QED BY <4>2, <4>3
    <3>5. Unpacked' BY <2>1, <2>2 DEF Unpacked
    <3>6. Behind' BY <2>1, <3>4 DEF Behind
    <3> QED BY <1>0, <1>e, <2>1, <2>2, <3>3, <3>5, <3>6 DEF OwnInv, OwnStep
  <2> QED BY <2>1, <2>3 DEF OwnInv, OwnFrames
<1>4. CASE ToRgba
  <2>1. /\ pc = "rgba" /\ spoilt' = spoilt /\ from' = from
        /\ UNCHANGED <<run, frames, end_logo, gz>>
    BY <1>4 DEF ToRgba, input
  <2>2. ~fault /\ ~spoilt =>
         /\ Unpacked /\ Behind /\ cur_frame <= Kept(frames)
         /\ \A k \in Frame : /\ k < cur_frame => rgba[k] = run
                             /\ cur_frame <= k /\ k < Kept(frames) => png[k] = run
    BY <2>1 DEF OwnInv, OwnStep
  <2>3. run > 0 /\ from = <<>> BY <2>1 DEF OwnInv
  <2>4. CASE HasPng
    <3>1. /\ pc' = pc /\ count' = count /\ cur_frame' = cur_frame + 1
          /\ png' = [png EXCEPT ![cur_frame] = None] /\ cur_frame \in Frame
          /\ png[cur_frame] # None
          /\ ~fault' => ~fault /\ rgba' = [rgba EXCEPT ![cur_frame] = png[cur_frame]]
      BY <1>4, <2>4 DEF ToRgba, HasPng, Works, Fails
    <3>2. ~fault' /\ ~spoilt' => OwnStep'
      <4> SUFFICES ASSUME ~fault', ~spoilt' PROVE OwnStep' OBVIOUS
      <4>1. ~fault /\ ~spoilt BY <2>1, <3>1
      <4>2. cur_frame # Kept(frames) BY <2>2, <3>1, <4>1 DEF Behind
      <4>3. cur_frame + 1 <= Kept(frames) BY <1>0, <2>2, <4>1, <4>2
      <4>4. rgba'[cur_frame] = run BY <1>0, <1>t, <2>2, <3>1, <4>1, <4>3
      <4>5. \A k \in Frame : k # cur_frame => rgba'[k] = rgba[k] /\ png'[k] = png[k]
        BY <1>0, <1>t, <3>1, <4>1
      <4>6. Behind' BY <2>1, <2>2, <4>1, <4>2, <4>5 DEF Behind
      <4>7. ASSUME NEW k \in Frame
            PROVE  /\ k < cur_frame + 1 => rgba'[k] = run
                   /\ cur_frame + 1 <= k /\ k < Kept(frames) => png'[k] = run
        <5>1. CASE k = cur_frame BY <1>0, <4>4, <5>1
        <5>2. CASE k # cur_frame
          <6>1. (k < cur_frame + 1 => k < cur_frame) /\ (cur_frame + 1 <= k => cur_frame <= k)
            BY <1>0, <5>2
          <6> QED BY <2>2, <4>1, <4>5, <5>2, <6>1
        <5> QED BY <5>1, <5>2
      <4>8. Unpacked' BY <2>1, <2>2, <4>1 DEF Unpacked
      <4> QED BY <1>e, <2>1, <2>3, <3>1, <4>3, <4>6, <4>7, <4>8 DEF OwnStep
    <3> QED BY <2>1, <2>3, <3>1, <3>2 DEF OwnInv, OwnFrames
  <2>5. CASE ~HasPng
    <3>1. pc' = "logo" /\ count' = cur_frame /\ cur_frame' = 0 /\ UNCHANGED <<png, rgba, fault>>
      BY <1>4, <2>5 DEF ToRgba
    <3>2. ~fault /\ ~spoilt => cur_frame = Kept(frames)
      <4> SUFFICES ASSUME ~fault, ~spoilt, cur_frame # Kept(frames) PROVE FALSE OBVIOUS
      <4>1. cur_frame < Kept(frames) /\ cur_frame \in Frame BY <1>0, <2>2
      <4>2. png[cur_frame] = run BY <1>0, <2>2, <4>1
      <4> QED BY <2>3, <2>5, <4>1, <4>2 DEF HasPng, None
    <3>3. ~fault' /\ ~spoilt' => OwnStep'
      BY <1>e, <2>1, <2>2, <2>3, <3>1, <3>2 DEF OwnStep, Unpacked
    <3> QED BY <2>1, <2>3, <3>1, <3>3 DEF OwnInv, OwnFrames
  <2> QED BY <2>4, <2>5
<1>5. CASE LogoToRgba
  <2>1. /\ pc = "logo" /\ pc' = "gzip" /\ spoilt' = spoilt /\ from' = from
        /\ UNCHANGED <<run, frames, end_logo, cur_frame, count, gz>>
        /\ ~fault' => ~fault /\ rgba' = (IF end_logo THEN [rgba EXCEPT ![Logo] = run] ELSE rgba)
    BY <1>5 DEF LogoToRgba, input, Works, Fails
  <2>2. run > 0 /\ from = <<>> BY <2>1 DEF OwnInv
  <2>3. ~fault' /\ ~spoilt' => OwnStep'
    <3> SUFFICES ASSUME ~fault', ~spoilt' PROVE OwnStep' OBVIOUS
    <3>1. Unpacked /\ cur_frame = 0 /\ count = Kept(frames) /\ (\A k \in Frame : k < count => rgba[k] = run)
      BY <2>1 DEF OwnInv, OwnStep
    <3>2. (\A k \in Frame : rgba'[k] = rgba[k]) /\ (end_logo => rgba'[Logo] = run)
      BY <1>0, <1>t, <2>1
    <3>3. LogoReady' BY <2>1, <3>1, <3>2 DEF LogoReady, Unpacked
    <3>4. \A k \in Frame : k < count => ~(k < 0) /\ rgba'[k] = run /\ gz[k] = NoGz
      BY <1>0, <3>1, <3>2 DEF Unpacked
    <3> QED BY <1>0, <1>e, <2>1, <2>2, <3>1, <3>3, <3>4 DEF OwnStep
  <2> QED BY <2>1, <2>2, <2>3 DEF OwnInv, OwnFrames
<1>g. ASSUME NEW s \in Stream, Gzip(s), rgba[s] = run, gz[s] = NoGz, ~fault', UNCHANGED run
      PROVE  /\ ~fault /\ gz'[s].run = run' /\ gz'[s].size > 0
             /\ \A u \in Stream : u # s => gz'[u] = gz[u] /\ rgba'[u] = rgba[u]
  <2>1. PICK n \in Sizes : gz' = [gz EXCEPT ![s] = [run |-> rgba[s], size |-> n]]
    BY <1>g DEF Gzip, Works, Fails
  <2>2. ~fault /\ rgba' = [rgba EXCEPT ![s] = None] BY <1>g DEF Gzip, Works, Fails
  <2>3. gz'[s] = [run |-> run, size |-> n] /\ n > 0 BY <1>g, <1>t, <2>1, MkAnimAssumption
  <2> QED BY <1>g, <1>t, <2>1, <2>2, <2>3
<1>6. CASE GzipFrame
  <2>1. /\ pc = "gzip" /\ spoilt' = spoilt /\ from' = from
        /\ UNCHANGED <<run, frames, end_logo, count>>
    BY <1>6 DEF GzipFrame, input
  <2>2. run > 0 /\ from = <<>> BY <2>1 DEF OwnInv
  <2>3. ~fault /\ ~spoilt =>
         /\ LogoReady /\ cur_frame <= count /\ count = Kept(frames)
         /\ \A k \in Frame : k < count =>
              IF k < cur_frame THEN Packed(k) ELSE rgba[k] = run /\ gz[k] = NoGz
    BY <2>1 DEF OwnInv, OwnStep
  <2>4. CASE cur_frame < count /\ Gzip(cur_frame) /\ cur_frame' = cur_frame + 1 /\ UNCHANGED pc
    <3>1. ~fault' /\ ~spoilt' => OwnStep'
      <4> SUFFICES ASSUME ~fault', ~spoilt' PROVE OwnStep' OBVIOUS
      <4>1. ~fault BY <2>4 DEF Gzip, Works, Fails
      <4>2. cur_frame \in Frame /\ cur_frame + 1 <= count BY <1>0, <2>1, <2>3, <2>4, <4>1
      <4>3. rgba[cur_frame] = run /\ gz[cur_frame] = NoGz BY <1>0, <2>1, <2>3, <2>4, <4>1, <4>2
      <4>4. /\ gz'[cur_frame].run = run' /\ gz'[cur_frame].size > 0
            /\ \A u \in Stream : u # cur_frame => gz'[u] = gz[u] /\ rgba'[u] = rgba[u]
        BY <1>0, <1>g, <2>1, <2>4, <4>2, <4>3
      <4>5. LogoReady' BY <1>0, <2>1, <2>3, <4>1, <4>2, <4>4 DEF LogoReady
      <4>6. ASSUME NEW k \in Frame, k < count
            PROVE  IF k < cur_frame + 1 THEN Packed(k)' ELSE rgba'[k] = run /\ gz'[k] = NoGz
        <5>1. CASE k = cur_frame BY <1>0, <4>4, <5>1 DEF Packed
        <5>2. CASE k # cur_frame
          <6>1. k < cur_frame + 1 <=> k < cur_frame BY <1>0, <5>2
          <6>2. gz'[k] = gz[k] /\ rgba'[k] = rgba[k] BY <1>0, <4>4, <5>2
          <6>3. Packed(k) => Packed(k)' BY <2>1, <6>2 DEF Packed
          <6> QED BY <2>1, <2>3, <4>1, <4>6, <6>1, <6>2, <6>3
        <5> QED BY <5>1, <5>2
      <4> QED BY <1>0, <1>e, <2>1, <2>2, <2>3, <2>4, <4>1, <4>2, <4>5, <4>6 DEF OwnStep, Packed
    <3> QED BY <2>1, <2>2, <2>4, <3>1 DEF OwnInv, OwnFrames
  <2>5. CASE cur_frame = count /\ pc' = "gziplogo" /\ UNCHANGED <<cur_frame, rgba, gz, fault>>
    <3>1. ~fault' /\ ~spoilt' => OwnStep'
      BY <1>e, <2>1, <2>2, <2>3, <2>5 DEF OwnStep, AllPacked, Packed, LogoReady
    <3> QED BY <2>1, <2>2, <2>5, <3>1 DEF OwnInv, OwnFrames
  <2> QED BY <1>6, <2>4, <2>5 DEF GzipFrame
<1>7. CASE GzipLogo
  <2>1. /\ pc = "gziplogo" /\ pc' = "header" /\ spoilt' = spoilt /\ from' = from
        /\ UNCHANGED <<run, frames, end_logo, count>>
    BY <1>7 DEF GzipLogo, input
  <2>2. run > 0 /\ from = <<>> BY <2>1 DEF OwnInv
  <2>3. ~fault' /\ ~spoilt' => OwnStep'
    <3> SUFFICES ASSUME ~fault', ~spoilt' PROVE OwnStep' OBVIOUS
    <3>1. CASE end_logo /\ Gzip(Logo)
      <4>1. ~fault BY <3>1 DEF Gzip, Works, Fails
      <4>2. AllPacked(0) /\ LogoReady /\ count = Kept(frames) BY <2>1, <4>1 DEF OwnInv, OwnStep
      <4>3. Packed(Logo)' /\ \A u \in Stream : u # Logo => gz'[u] = gz[u]
        BY <1>0, <1>g, <2>1, <3>1, <4>2 DEF LogoReady, Packed
      <4>4. AllPacked(0)' BY <1>0, <2>1, <4>2, <4>3 DEF AllPacked, Packed
      <4>5. LogoPacked' BY <4>3 DEF LogoPacked
      <4> QED BY <1>e, <2>1, <2>2, <4>2, <4>4, <4>5 DEF OwnStep
    <3>2. CASE ~end_logo /\ UNCHANGED <<rgba, gz, fault>>
      <4>1. AllPacked(0) /\ count = Kept(frames) BY <2>1, <3>2 DEF OwnInv, OwnStep
      <4>2. AllPacked(0)' BY <2>1, <3>2, <4>1 DEF AllPacked, Packed
      <4>3. LogoPacked' BY <2>1, <3>2 DEF LogoPacked
      <4> QED BY <1>e, <2>1, <2>2, <4>1, <4>2, <4>3 DEF OwnStep
    <3> QED BY <1>7, <3>1, <3>2 DEF GzipLogo
  <2> QED BY <2>1, <2>2, <2>3 DEF OwnInv, OwnFrames
<1>8. CASE Header /\ pc' = "bodylogo"
  <2>1. /\ pc = "header" /\ UNCHANGED <<run, frames, end_logo, count, gz, spoilt, from>>
        /\ fault' = fault
        /\ rcf' = [there |-> TRUE, count |-> count, logo |-> end_logo, body |-> <<>>]
    BY <1>8 DEF Header, input, files, Works
  <2>2. run > 0 /\ from = <<>> BY <2>1 DEF OwnInv
  <2>3. ~fault' /\ ~spoilt' => OwnStep'
    <3> SUFFICES ASSUME ~fault', ~spoilt' PROVE OwnStep' OBVIOUS
    <3>1. AllPacked(0) /\ LogoPacked /\ count = Kept(frames) BY <2>1 DEF OwnInv, OwnStep
    <3>2. AllPacked(0)' /\ LogoPacked' BY <2>1, <3>1 DEF AllPacked, LogoPacked, Packed
    <3>3. rcf'.there /\ rcf'.count = count' BY <2>1
    <3> QED BY <1>8, <1>e, <2>1, <2>2, <3>1, <3>2, <3>3 DEF OwnStep
  <2> QED BY <1>8, <2>1, <2>2, <2>3 DEF OwnInv, OwnFrames
<1>9. CASE BodyLogo
  <2>1. /\ pc = "bodylogo" /\ pc' = "body" /\ spoilt' = spoilt
        /\ UNCHANGED <<run, frames, end_logo, cur_frame, count>>
        /\ rcf.logo = end_logo /\ rcf.body = <<>> /\ cur_frame = 0
    BY <1>9 DEF BodyLogo, input, WalkInv
  <2>2. run > 0 /\ from = <<>> BY <2>1 DEF OwnInv
  <2>3. ~fault' /\ ~spoilt' => OwnStep'
    <3> SUFFICES ASSUME ~fault', ~spoilt' PROVE OwnStep' OBVIOUS
    <3>e. 0 .. 0 - 1 = {} OBVIOUS
    <3>1. CASE end_logo /\ AppendStream(Logo)
      <4>1. /\ ~fault /\ UNCHANGED <<rcf.there, rcf.logo>>
            /\ from' = Append(from, gz[Logo].run)
            /\ WithStream(rcf.body, rcf'.body, Logo, gz[Logo].size)
            /\ \A u \in Stream : u # Logo => gz'[u] = gz[u]
        BY <1>0, <3>1, Appended
      <4>2. AllPacked(0) /\ LogoPacked /\ count = Kept(frames) /\ rcf.there
        BY <2>1, <4>1 DEF OwnInv, OwnStep
      <4>3. gz[Logo].run = run /\ gz[Logo].size > 0 BY <3>1, <4>2 DEF LogoPacked, Packed
      <4>4. Start(rcf'.body, TRUE)[0] = Len(rcf'.body) /\ FrameAt(rcf'.body, 0, Logo)
        BY <2>1, <4>1, <4>3, LogoFirst
      <4>5. Intact(rcf'.body, 0, TRUE) BY <3>e, <4>4 DEF Intact
      <4>6. AllPacked(0)' BY <1>0, <2>1, <4>1, <4>2 DEF AllPacked, Packed
      <4>7. \A k \in 1 .. Len(from') : from'[k] = run
        BY <1>e, <1>t, <2>2, <4>1, <4>3, OwnHistory
      <4> QED BY <2>1, <3>1, <4>1, <4>2, <4>4, <4>5, <4>6, <4>7 DEF OwnStep
    <3>2. CASE ~end_logo /\ UNCHANGED <<gz, rcf, fault, uncat, from>>
      <4>1. AllPacked(0) /\ count = Kept(frames) /\ rcf.there BY <2>1, <3>2 DEF OwnInv, OwnStep
      <4>2. Intact(rcf.body, 0, FALSE) /\ Start(rcf.body, FALSE)[0] = Len(rcf.body)
        BY <2>1, <3>e, NothingYet DEF Intact
      <4>3. AllPacked(0)' BY <2>1, <3>2, <4>1 DEF AllPacked, Packed
      <4>4. rcf' = rcf /\ from' = <<>> /\ rcf'.logo = FALSE /\ cur_frame' = 0 /\ run' = run
        BY <2>1, <2>2, <3>2
      <4>5. Intact(rcf.body, cur_frame, rcf.logo)' /\ (Start(rcf.body, rcf.logo)[cur_frame] = Len(rcf.body))'
        BY <4>2, <4>4
      <4>6. \A k \in 1 .. Len(from') : from'[k] = run' BY <1>e, <2>2, <4>4
      <4> QED BY <2>1, <4>1, <4>3, <4>4, <4>5, <4>6 DEF OwnStep
    <3> QED BY <1>9, <3>1, <3>2 DEF BodyLogo
  <2> QED BY <2>1, <2>2, <2>3 DEF OwnInv, OwnFrames
<1>10. CASE BodyFrame
  <2>1. /\ pc = "body" /\ UNCHANGED <<run, frames, end_logo, count, spoilt>>
        /\ rcf.logo = end_logo /\ rcf.count = count
    BY <1>10 DEF BodyFrame, input, WalkInv
  <2>2. run > 0 BY <2>1 DEF OwnInv
  <2>3. ~fault /\ ~spoilt =>
         /\ rcf.there /\ AllPacked(cur_frame) /\ count = Kept(frames)
         /\ Intact(rcf.body, cur_frame, rcf.logo)
         /\ Start(rcf.body, rcf.logo)[cur_frame] = Len(rcf.body)
         /\ \A k \in 1 .. Len(from) : from[k] = run
    BY <2>1 DEF OwnInv, OwnStep
  <2>4. CASE cur_frame < count /\ AppendStream(cur_frame) /\ cur_frame' = cur_frame + 1 /\ UNCHANGED pc
    <3>1. ~fault' /\ ~spoilt' => OwnStep'
      <4> SUFFICES ASSUME ~fault', ~spoilt' PROVE OwnStep' OBVIOUS
      <4>0. cur_frame \in Stream /\ cur_frame \in Frame
        BY <2>4, MkAnimAssumption DEF TypeOK, Stream, Frame
      <4>1. /\ ~fault /\ UNCHANGED <<rcf.there, rcf.logo>>
            /\ from' = Append(from, gz[cur_frame].run)
            /\ WithStream(rcf.body, rcf'.body, cur_frame, gz[cur_frame].size)
            /\ \A u \in Stream : u # cur_frame => gz'[u] = gz[u]
        BY <2>4, <4>0, Appended
      <4>2. gz[cur_frame].run = run /\ gz[cur_frame].size > 0
        BY <1>0, <2>1, <2>3, <2>4, <4>0, <4>1 DEF AllPacked, Packed
      <4>3. /\ Intact(rcf'.body, cur_frame + 1, rcf.logo)
            /\ Start(rcf'.body, rcf.logo)[cur_frame + 1] = Len(rcf'.body)
        <5>1. /\ rcf.logo \in BOOLEAN /\ cur_frame \in Nat /\ rcf.body \in Seq(Unit)
              /\ rcf'.body \in Seq(Unit)
          BY <1>0, <1>t, <4>1, TypeStep DEF TypeOK
        <5>2. /\ Intact(rcf.body, cur_frame, rcf.logo)
              /\ Start(rcf.body, rcf.logo)[cur_frame] = Len(rcf.body)
          BY <2>1, <2>3, <4>1
        <5>3. PICK n : n = gz[cur_frame].size OBVIOUS
        <5>4. WithStream(rcf.body, rcf'.body, cur_frame, n) /\ n > 0 BY <4>1, <4>2, <5>3
        <5>5. PICK b : b = rcf.body OBVIOUS
        <5>6. PICK d : d = rcf'.body OBVIOUS
        <5>7. PICK logo \in BOOLEAN : logo = rcf.logo BY <5>1
        <5>8. /\ WithStream(b, d, cur_frame, n)
              /\ Intact(b, cur_frame, logo) /\ Start(b, logo)[cur_frame] = Len(b)
          BY <5>2, <5>4, <5>5, <5>6, <5>7
        <5>9. Intact(d, cur_frame + 1, logo) /\ Start(d, logo)[cur_frame + 1] = Len(d)
          BY <5>1, <5>4, <5>8, IntactFurther
        <5> QED BY <5>5, <5>6, <5>7, <5>9
      <4>4. \A k \in Frame : cur_frame + 1 <= k /\ k < count => Packed(k)'
        <5> SUFFICES ASSUME NEW k \in Frame, cur_frame + 1 <= k, k < count PROVE Packed(k)' OBVIOUS
        <5>1. k # cur_frame /\ cur_frame <= k /\ k \in Stream BY <1>0
        <5>2. Packed(k) BY <2>1, <2>3, <4>1, <5>1 DEF AllPacked
        <5> QED BY <2>1, <4>1, <5>1, <5>2 DEF Packed
      <4>6. AllPacked(cur_frame)' BY <2>1, <2>4, <4>4 DEF AllPacked
      <4>5. \A k \in 1 .. Len(from') : from'[k] = run
        BY <1>t, <2>1, <2>3, <4>1, <4>2, OwnHistory
      <4> QED BY <2>1, <2>3, <2>4, <4>1, <4>3, <4>5, <4>6 DEF OwnStep
    <3> QED BY <2>1, <2>2, <2>4, <3>1 DEF OwnInv, OwnFrames
  <2>5. CASE cur_frame = count /\ pc' = "done" /\ UNCHANGED <<cur_frame, gz, rcf, fault, uncat, from>>
    BY <2>1, <2>3, <2>5 DEF OwnInv, OwnFrames
  <2> QED BY <1>10, <2>4, <2>5 DEF BodyFrame
<1>11. CASE UNCHANGED vars
  BY <1>11 DEF vars, input, files, OwnInv, OwnFrames, OwnStep, Unpacked, Behind, AllPacked, LogoPacked,
     LogoReady, Packed
<1> QED BY <1>i, <1>1, <1>2, <1>3, <1>4, <1>5, <1>6, <1>7, <1>8, <1>9, <1>10, <1>11
    DEF Next, Main, Header, Kill

(* Before the first run, and once the file was taken along. *)
AtRest ==
    /\ pc = "idle" /\ run = None /\ frames = 0 /\ end_logo = FALSE
    /\ cur_frame = 0 /\ count = 0 /\ gif = NoGif
    /\ png = [k \in Frame \cup {Bare} |-> None]
    /\ rgba = [s \in Stream |-> None] /\ gz = [s \in Stream |-> NoGz]
    /\ rcf = NoRcf /\ from = <<>>
    /\ fault = FALSE /\ spoilt = FALSE /\ uncat = FALSE

ToolInv == TypeOK /\ WalkInv /\ OwnInv

(* At rest the invariant holds. *)
LEMMA RestInv == AtRest => ToolInv
<1> SUFFICES ASSUME AtRest PROVE ToolInv OBVIOUS
<1>0. MaxFrames \in Nat /\ MaxRuns \in Nat BY MkAnimAssumption
<1>1. None \in Run /\ 0 \in 0 .. MaxFrames /\ NoGz \in Gz BY <1>0 DEF None, Run, Gz
<1>2. NoGif \in [run : Run, frames : 0 .. MaxFrames] BY <1>1 DEF NoGif
<1>3. NoRcf \in [there : BOOLEAN, count : 0 .. MaxFrames, logo : BOOLEAN, body : Seq(Unit)]
  <2>1. <<>> \in Seq(Unit) OBVIOUS
  <2> QED BY <1>1, <2>1 DEF NoRcf
<1>4. <<>> \in Seq(Run) OBVIOUS
<1>5. TypeOK BY <1>1, <1>2, <1>3, <1>4 DEF AtRest, TypeOK
<1>6. from = <<>> BY DEF AtRest
<1> QED BY <1>5, <1>6 DEF AtRest, ToolInv, WalkInv, Walkable, OwnInv, OwnFrames

(* The PC's tool keeps its invariant in the whole system: its own steps do, the
   others leave it alone or put it to rest. *)
LEMMA ToolInvariant == ASpec => []ToolInv
<1>1. AInit => ToolInv
  <2>1. AInit => AtRest BY DEF AInit, Init, AtRest
  <2> QED BY <2>1, RestInv
<1>2. ToolInv /\ [Next]_vars => ToolInv' BY TypeStep, WalkStep, OwnNext DEF ToolInv
<1>3. ToolInv /\ [ANext]_avars => ToolInv'
  <2> SUFFICES ASSUME ToolInv, [ANext]_avars PROVE ToolInv' OBVIOUS
  <2>1. CASE OnPC BY <1>2, <2>1 DEF OnPC
  <2>2. CASE Take
    <3>1. DOMAIN png = Frame \cup {Bare} BY DEF ToolInv, TypeOK
    <3>2. AtRest' BY <2>2, <3>1 DEF Take, AtRest
    <3>3. AtRest' => ToolInv' BY RestInv, PTL
    <3> QED BY <3>2, <3>3
  <2>3. CASE CopyToConsole \/ Installing \/ Setting \/ UNCHANGED avars
    <3>1. UNCHANGED vars BY <2>3 DEF CopyToConsole, Installing, Setting, avars
    <3> QED BY <1>2, <3>1
  <2> QED BY <2>1, <2>2, <2>3 DEF ANext
<1> QED BY <1>1, <1>3, PTL DEF ASpec

(* A run in which no command failed and which found nothing it takes for its
   own makes a file with its own frames only, whole and in order, whatever
   killed runs left there (main and write_rcf of mkanim.c). *)
THEOREM OwnFramesHolds == ASpec => []OwnFrames
<1>1. ToolInv => OwnFrames BY DEF ToolInv, OwnInv
<1> QED BY <1>1, ToolInvariant, PTL

(* Whichever commands failed, the size words lead from stream to stream and to
   the end of the file, if no stream was lost on its way into it. *)
THEOREM WalkableHolds == ASpec => []Walkable
<1>1. ToolInv => Walkable BY DEF ToolInv, WalkInv
<1> QED BY <1>1, ToolInvariant, PTL

(* The types of the tool's files and counters, in the whole system. *)
THEOREM ToolTypeCorrect == ASpec => []TypeOK
<1>1. ToolInv => TypeOK BY DEF ToolInv
<1> QED BY <1>1, ToolInvariant, PTL
=============================================================================
