------------------------------ MODULE Installer ------------------------------
(***************************************************************************)
(* The installer of vita-bootanim, installer/main.c: copies the two modules *)
(* and the default animation to ur0:tai and puts a section before the       *)
(* lines of the two configurations there, each renamed away and written     *)
(* anew.  The power may go at any time; a full memory card cuts what is     *)
(* written; no result of a write is looked at.                             *)
(***************************************************************************)
EXTENDS Settings, Sequences, Functions

CONSTANTS
    Default,     \* the animation that comes with the installer
    MaxSessions, \* bound on the sessions of the installer
    MaxFaults    \* bound on failing calls and losses of power

ASSUME InstallerAssumption ==
    Default \in Anims /\ MaxSessions \in Nat /\ MaxFaults \in Nat

Mod == {"skprx", "suprx"}
Conf == {"boot_config", "config"}
Op == {"none", "install", "default", "remove"}

(* A configuration is its parts in order: "mod" the section of the plugin,
   "mark" one cut behind its first line, "own" the user's lines, "cut" some of
   them.  A section cut in its first line is as good as none. *)
Part == {"mod", "mark", "own", "cut"}
File(l) == [there |-> TRUE, lines |-> l]
NoFile == [there |-> FALSE, lines |-> <<>>]

VARIABLES
    step,      \* where the installer stands in the first of its tasks
    tasks,     \* files to be seen to
    op,        \* the menu's entry chosen
    conf,      \* the configurations
    prevba,    \* their copies
    mods,      \* the modules: "none", "empty", "part", "full"
    pbf,       \* the configuration read
    unsafe,    \* (history) configurations that were read without all of the user's
               \* lines, or could not be renamed though there was no copy
    failed,    \* (history) a call of this session failed
    faults,    \* calls that failed and losses of power
    sessions   \* sessions begun

files0 == <<conf, prevba, mods>>
failing == <<failed, faults>>
ivars == <<step, tasks, op, files0, pbf, unsafe, failing, sessions>>

InstallerTypeOK ==
    /\ SettingsTypeOK
    /\ step \in {"off", "menu", "trunc", "append", "append2", "read", "move", "make", "write",
                 "remove", "done"}
    /\ tasks \in Seq(Mod \cup Conf \cup {"rcf"}) /\ op \in Op
    /\ conf \in [Conf -> [there : BOOLEAN, lines : Seq(Part)]]
    /\ prevba \in [Conf -> [there : BOOLEAN, lines : Seq(Part)]]
    /\ mods \in [Mod -> {"none", "empty", "part", "full"}]
    /\ pbf \in Seq(Part) /\ unsafe \subseteq Conf /\ failed \in BOOLEAN /\ faults \in 0 .. MaxFaults
    /\ sessions \in 0 .. MaxSessions

InstallerInit ==
    /\ SettingsInit
    /\ step = "off" /\ tasks = <<>> /\ op = "none"
    /\ conf \in {[c \in Conf |-> File(<<"own">>)],
                 [c \in Conf |-> IF c = "config" THEN NoFile ELSE File(<<"own">>)]}
    /\ prevba = [c \in Conf |-> NoFile] /\ mods = [m \in Mod |-> "none"]
    /\ pbf = <<>> /\ unsafe = {} /\ failed = FALSE /\ faults = 0
    /\ sessions = 0

-----------------------------------------------------------------------------
Begins(ts) ==
    CASE ts = <<>> -> "done"
      [] ts # <<>> /\ op' = "remove" -> "remove"
      [] ts # <<>> /\ op' # "remove" -> IF Head(ts) \in Conf THEN "read" ELSE "trunc"
Work(ts) == tasks' = ts /\ step' = Begins(ts)
NextTask == UNCHANGED op /\ Work(Tail(tasks))
Steps(to) == step' = to /\ UNCHANGED <<tasks, op>>
Leaves == step' = "off" /\ tasks' = <<>> /\ op' = "none"
Goes == UNCHANGED failing
Breaks == failed' = TRUE /\ faults < MaxFaults /\ faults' = faults + 1

(* main: without a boot configuration the installer refuses. *)
OpenInstaller ==
    /\ step = "off" /\ sessions < MaxSessions /\ sessions' = sessions + 1
    /\ conf["boot_config"].there
    /\ Steps("menu") /\ failed' = FALSE
    /\ UNCHANGED <<files0, pbf, unsafe, faults, svars>>

Choose ==
    /\ step = "menu"
    /\ \/ op' = "install" /\ Work(<<"skprx", "suprx", "boot_config", "config", "rcf">>)
       \/ op' = "default" /\ Work(<<"rcf">>)
       \/ op' = "remove" /\ Work(<<"skprx", "suprx">>)
       \/ Leaves
    /\ UNCHANGED <<files0, pbf, unsafe, failing, sessions, svars>>

On(at, set) == step = at /\ Head(tasks) \in set
Task == Head(tasks)

(* A file that cannot be opened is used all the same, which ends the
   application. *)
Dies == Leaves /\ Breaks

(* fcp: the file is emptied, and what it is a copy of appended. *)
TruncMod ==
    /\ On("trunc", Mod) /\ Steps("append")
    /\ \/ mods' = [mods EXCEPT ![Task] = "empty"] /\ Goes
       \/ UNCHANGED mods /\ Breaks
    /\ UNCHANGED <<conf, prevba, pbf, unsafe, sessions, svars>>

AppendMod ==
    /\ On("append", Mod)
    /\ \/ /\ NextTask /\ mods[Task] \in {"none", "empty"} /\ Goes
          /\ mods' = [mods EXCEPT ![Task] = "full"]
       \/ NextTask /\ mods' = [mods EXCEPT ![Task] = "part"] /\ Breaks
       \/ Dies /\ UNCHANGED mods
    /\ UNCHANGED <<conf, prevba, pbf, unsafe, sessions, svars>>

-----------------------------------------------------------------------------
(* installVBAnimB and installVBAnimC *)
ReadConf ==
    /\ On("read", Conf)
    /\ IF conf[Task].there
         THEN /\ Steps("move")
              /\ \/ pbf' = conf[Task].lines /\ Goes
                 \/ pbf' = <<"cut">> /\ Breaks
              /\ unsafe' = IF "own" \in Range(conf[Task].lines) THEN unsafe
                           ELSE unsafe \cup {Task}
         ELSE Leaves /\ Goes /\ UNCHANGED <<pbf, unsafe>>
    /\ UNCHANGED <<files0, sessions, svars>>

(* variant: the configuration is written over without a copy *)
RenamedNot(c) == UNCHANGED <<conf, prevba, unsafe, failing>>
(* Renaming may be refused because there is a copy already, or for good. *)
Renamed(c) ==
    \/ /\ prevba' = [prevba EXCEPT ![c] = conf[c]] /\ conf' = [conf EXCEPT ![c] = NoFile]
       /\ UNCHANGED <<unsafe, failing>>
    \/ prevba[c].there /\ UNCHANGED <<conf, prevba, unsafe, failing>>
    \/ ~prevba[c].there /\ unsafe' = unsafe \cup {c} /\ Breaks /\ UNCHANGED <<conf, prevba>>

MoveConf ==
    /\ On("move", Conf) /\ Steps("make") /\ Renamed(Task)
    /\ UNCHANGED <<mods, pbf, sessions, svars>>

MakeConf ==
    /\ On("make", Conf)
    /\ \/ /\ Steps("write") /\ Goes /\ UNCHANGED pbf
          /\ conf' = [conf EXCEPT ![Task] = File(<<>>)]
       \/ Dies /\ pbf' = <<>> /\ UNCHANGED conf
    /\ UNCHANGED <<prevba, mods, unsafe, sessions, svars>>

(* The section's first line is looked for in boot_config.txt, all of it in
   config.txt. *)
Has(c) == Range(pbf) \cap (IF c = "boot_config" THEN {"mod", "mark"} ELSE {"mod"}) # {}
(* variant: the section is looked for nowhere *)
NewLinesTwice(c) == <<"mod">> \o pbf
NewLines(c) == IF Has(c) THEN pbf ELSE <<"mod">> \o pbf

CutPart(x) == CASE x = "mod" -> "mark" [] x = "mark" -> "mark" [] x \in {"own", "cut"} -> "cut"
Cuts(l) ==
    {SubSeq(l, 1, k) : k \in 0 .. Len(l) - 1}
        \cup {Append(SubSeq(l, 1, k - 1), CutPart(l[k])) : k \in 1 .. Len(l)}

(* installVBAnimC returns nothing, and what its caller finds may be negative:
   then the installer leaves without the default animation or a reset. *)
WriteConf ==
    /\ On("write", Conf)
    /\ \/ conf' = [conf EXCEPT ![Task] = File(NewLines(Task))] /\ Goes
       \/ \E l \in Cuts(NewLines(Task)) : conf' = [conf EXCEPT ![Task] = File(l)] /\ Breaks
    /\ NextTask \/ (Task = "config" /\ Leaves)
    /\ pbf' = <<>>
    /\ UNCHANGED <<prevba, mods, unsafe, sessions, svars>>

-----------------------------------------------------------------------------
(* copyDefaultAnim.  What the settings plugin writes into the emptied file
   stays before what is appended. *)
TruncAnim ==
    /\ On("trunc", {"rcf"}) /\ Steps("append")
    /\ \/ Replace(Emptied) /\ Goes
       \/ UNCHANGED svars /\ Breaks
    /\ UNCHANGED <<files0, pbf, unsafe, sessions>>

Write(a) == anim' = a /\ fresh' = FALSE /\ UNCHANGED <<hvars, header, unsaved, crossed>>
Good(a) == [a EXCEPT !.body = Default]
Mixed == Write([anim EXCEPT !.there = TRUE, !.body = NoAnim])

AppendAnim ==
    /\ On("append", {"rcf"})
    /\ \/ anim.empty /\ Steps("append2") /\ Goes
            /\ Write([Whole(Default) EXCEPT !.body = NoAnim])
       \/ ~anim.empty /\ NextTask /\ Goes /\ Mixed
       \/ NextTask /\ Breaks /\ UNCHANGED svars
       \/ Dies /\ UNCHANGED svars
    /\ UNCHANGED <<files0, pbf, unsafe, sessions>>

AppendAnimRest ==
    /\ On("append2", {"rcf"}) /\ NextTask
    /\ \/ Write(Good(anim)) /\ Goes
       \/ UNCHANGED svars /\ Breaks
    /\ UNCHANGED <<files0, pbf, unsafe, sessions>>

RemoveMod ==
    /\ On("remove", Mod) /\ NextTask
    /\ \/ mods' = [mods EXCEPT ![Task] = "none"] /\ Goes
       \/ UNCHANGED mods /\ Breaks
    /\ UNCHANGED <<conf, prevba, pbf, unsafe, sessions, svars>>

(* The console is reset by the installer, or loses power at any time. *)
Off == Leaves /\ pbf' = <<>> /\ Gone /\ UNCHANGED <<files0, unsafe, sessions, anim, crossed>>
Reset == step = "done" /\ Off /\ Goes
PowerLoss == step \notin {"off", "done"} /\ Off /\ Breaks

InstallerStep ==
    \/ OpenInstaller \/ Choose \/ TruncMod \/ AppendMod
    \/ ReadConf \/ MoveConf \/ MakeConf \/ WriteConf
    \/ TruncAnim \/ AppendAnim \/ AppendAnimRest \/ RemoveMod \/ Reset

-----------------------------------------------------------------------------
(* Through any number of sessions, each free to be cut off anywhere, and cut
   again, the user's lines are in the configuration or in its copy, unless the
   installer was started on a configuration that had lost some of them, which
   it would copy over the good copy, or could not rename. *)
LinesKept ==
    \A c \in Conf \ unsafe :
        \/ ~conf[c].there /\ ~prevba[c].there     \* it never was
        \/ "own" \in Range(conf[c].lines) \/ "own" \in Range(prevba[c].lines)

(* Where no call failed, an installer that says it is done has put both
   modules and the animation there, and into each configuration one section
   and the user's lines, whatever earlier sessions left of the section; only
   the settings plugin may have written into the animation meanwhile. *)
DoneIsInstalled ==
    step = "done" /\ op = "install" /\ ~failed =>
        /\ \A m \in Mod : mods[m] = "full"
        /\ \A c \in Conf \ unsafe : conf[c].lines = <<"mod", "own">>
        /\ anim.body = Default \/ crossed
=============================================================================
