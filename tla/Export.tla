------------------------------- MODULE Export -------------------------------
(***************************************************************************)
(* bgvpk: source/main.c, incoming.c and promote.c.  The plugin sits in the *)
(* shell and takes over the export of downloads the shell cannot export:   *)
(* it asks the user, unpacks the archive and installs it, unpacks it to    *)
(* ux0:data, or saves it to ux0:download.  Several copies of the plugin may*)
(* be loaded.  Composed with the reader of archives (Zip) and with an      *)
(* application that queues downloads (BgdlQueue).                          *)
(*                                                                         *)
(* The first entry of an archive stands for its sce_sys/param.sfo.  The    *)
(* copies of the plugin come and go between exports.                       *)
(***************************************************************************)
EXTENDS Zip, BgdlQueue

CONSTANTS Shell,    \* version of the shell
          Copies,   \* copies of the plugin in the shell
          Names     \* of the files that are downloaded

ASSUME ExportAssumption == \A t \in Tasks : Wants[t].name \in Names

VARIABLES
    module,  \* of each copy: "out", "starting", "in", "stopping"
    mine,    \* the hooks and injections it holds
    place,   \* the hook it is at
    step,    \* where ExportFilePatched is
    task,    \* the download it exports
    show, target,
    dialog,  \* "off", "ready", "open"
    unpacked,\* what is in the download's X: [amount, sfo]
    promoter,\* the promoter utility: "off", "on" (initialised)
    result,  \* what each export returned: "none", "ok", "error"
    app,     \* what was installed of each: "none", "part", "whole"
    data,    \* what was unpacked of each to ux0:data: "none" where that was not tried
    saved,   \* the download under each name in ux0:download, 0 for none
    answer   \* (history) what the user said of each: "none", "install", "save"

hookVars == <<module, mine, place>>
fates == <<result, app, data, saved, answer>>
exportVars == <<step, task, show, target, dialog, unpacked, promoter, fates>>
vars == <<zipVars, queueVars, hookVars, exportVars>>

(* The other hook and the three injections change how files are named and
   unlock the list of downloads; "rest" is whichever of them took. *)
Patches == <<"get", "export", "rest">>
Empty == [amount |-> "none", sfo |-> FALSE]

TypeOK ==
    /\ ZipTypeOK /\ QueueTypeOK
    /\ module \in [Copies -> {"out", "starting", "in", "stopping"}]
    /\ mine \in [Copies -> SUBSET {"get", "export", "rest"}]
    /\ place \in [Copies -> 0 .. 3]
    /\ step \in {"idle", "pdb", "params", "ask", "wait", "unpack", "head", "promote", "save"}
    /\ task \in {0} \cup Tasks /\ {show, target} \subseteq BOOLEAN
    /\ dialog \in {"off", "ready", "open"} /\ promoter \in {"off", "on"}
    /\ unpacked \in [amount : {"none", "part", "whole"}, sfo : BOOLEAN]
    /\ result \in [Tasks -> {"none", "ok", "error"}]
    /\ {app, data} \subseteq [Tasks -> {"none", "part", "whole"}]
    /\ saved \in [Names -> {0} \cup Tasks]
    /\ answer \in [Tasks -> {"none", "install", "save"}]

Init ==
    /\ ZipInit /\ QueueInit
    /\ module = [c \in Copies |-> "out"] /\ mine = [c \in Copies |-> {}]
    /\ place = [c \in Copies |-> 0]
    /\ step = "idle" /\ task = 0 /\ show = TRUE /\ target = TRUE
    /\ dialog = "off" /\ promoter = "off" /\ unpacked = Empty
    /\ result = [t \in Tasks |-> "none"]
    /\ app = [t \in Tasks |-> "none"] /\ data = [t \in Tasks |-> "none"]
    /\ saved = [n \in Names |-> 0] /\ answer = [t \in Tasks |-> "none"]

-----------------------------------------------------------------------------
(* module_start and module_stop of a copy. *)

(* There is one injection at an offset; a function takes any number of hooks. *)
Free(patch) == patch = "get" => \A c \in Copies : patch \notin mine[c]

(* The shells whose places are known; for 3.60 PDEL one of four is missing. *)
get_shell_offsets(version) ==
    version \in {"3.60", "3.60 PTEL", "3.65", "3.65 PDEL", "3.65 PTEL", "3.67", "3.68",
                 "3.69", "3.70", "3.71", "3.72", "3.73"}

(* In an unknown shell the copy does not stay. *)
StartBegin(c) ==
    /\ module[c] = "out" /\ step = "idle" /\ get_shell_offsets(Shell)
    /\ module' = [module EXCEPT ![c] = "starting"] /\ place' = [place EXCEPT ![c] = 1]
    /\ UNCHANGED <<mine, exportVars>>

(* variant: the rest is hooked whatever became of the first injection *)
GoesOnAlways(patch, taken) == TRUE
(* Without the first injection nothing else is hooked. *)
GoesOn(patch, taken) == patch # "get" \/ taken

StartPatch(c) ==
    /\ module[c] = "starting" /\ step = "idle"
    /\ LET p == Patches[place[c]]
       IN \E taken \in IF ~Free(p) THEN {FALSE} ELSE IF p = "rest" THEN {TRUE} ELSE BOOLEAN :
             /\ mine' = [mine EXCEPT ![c] = IF taken THEN @ \cup {p} ELSE @]
             /\ IF GoesOn(p, taken) /\ place[c] < Len(Patches)
                THEN place' = [place EXCEPT ![c] = @ + 1] /\ UNCHANGED module
                ELSE module' = [module EXCEPT ![c] = "in"] /\ UNCHANGED place
    /\ UNCHANGED exportVars

(* The hooks are released in the opposite order; one that was never installed
   has the number 0, whose release fails. *)
Released(c) == Patches[place[c]]

StopBegin(c) ==
    /\ module[c] = "in" /\ step = "idle"
    /\ module' = [module EXCEPT ![c] = "stopping"]
    /\ place' = [place EXCEPT ![c] = Len(Patches)]
    /\ UNCHANGED <<mine, exportVars>>

StopPatch(c) ==
    /\ module[c] = "stopping" /\ step = "idle"
    /\ mine' = [mine EXCEPT ![c] = @ \ {Released(c)}]
    /\ IF place[c] = 1
       THEN module' = [module EXCEPT ![c] = "out"] /\ place' = [place EXCEPT ![c] = 0]
       ELSE place' = [place EXCEPT ![c] = @ - 1] /\ UNCHANGED module
    /\ UNCHANGED exportVars

HookNext == \E c \in Copies : StartBegin(c) \/ StartPatch(c) \/ StopBegin(c) \/ StopPatch(c)

-----------------------------------------------------------------------------
(* ExportFilePatched. *)

Go(s) == step' = s
Keep == UNCHANGED <<zipVars, hookVars>>
KeepQueue == UNCHANGED queueVars

(* The export ends; the shell is done with the download. *)
Return(r) ==
    /\ Go("idle") /\ task' = 0
    /\ result' = [result EXCEPT ![task] = r]
    /\ bgdl' = [bgdl EXCEPT ![task] = "left"]
    /\ show' = TRUE /\ target' = TRUE
    /\ UNCHANGED <<asking, turn, param>>

KeepFile == UNCHANGED <<show, target>>
Now == Wants[task]

(* The shell exports a download and cannot. *)
ExportFile(t) ==
    /\ step = "idle" /\ bgdl[t] = "loaded"
    /\ \A c \in Copies : module[c] \in {"out", "in"}
    /\ \E c \in Copies : "export" \in mine[c]
    /\ task' = t /\ Go("pdb") /\ KeepFile
    /\ UNCHANGED <<dialog, unpacked, promoter, fates>> /\ Keep /\ KeepQueue

(* Title and file name come from d0.pdb.  Only a download of an application or
   a vpk is anything but saved. *)
ReadPdb ==
    /\ step = "pdb"
    /\ \/ Return("error")
       \/ /\ Go(IF Now.from = "app" \/ Now.vpk THEN "params" ELSE "save")
          /\ UNCHANGED <<task, result>> /\ KeepFile /\ KeepQueue
    /\ UNCHANGED <<dialog, unpacked, promoter, app, data, saved, answer>> /\ Keep

(* variant: whatever was read is taken *)
MarkedAny == TRUE
(* The structure that was read has its mark. *)
Marked == param[task] = "full"

(* What the structure holds: what was read, or whatever the stack held. *)
Held(v) == IF param[task] = "full" THEN {v} ELSE BOOLEAN

(* A parameter file that cannot be read or has not its mark is ignored; without
   one the name decides. *)
ReadParams ==
    /\ step = "params" /\ Go("ask")
    /\ \/ /\ param[task] # "none" /\ Marked
          /\ show' \in Held(Now.params.show) /\ target' \in Held(Now.params.target)
       \/ param[task] # "none" /\ UNCHANGED <<show, target>>
       \/ target' = Now.vpk /\ UNCHANGED show
    /\ UNCHANGED <<task, dialog, unpacked, promoter, fates>> /\ Keep /\ KeepQueue

(* dialog_init may fail and still work; when dialog_show fails the download is
   saved, and the dialog stays initialised. *)
Ask ==
    /\ step = "ask"
    /\ IF show /\ target
       THEN \/ dialog' = "ready" /\ Go("save")
            \/ dialog' = "open" /\ Go("wait")
       ELSE Go("unpack") /\ UNCHANGED dialog
    /\ UNCHANGED <<task, show, target, unpacked, promoter, fates>> /\ Keep /\ KeepQueue

(* dialog_wait, dialog_close, dialog_deinit *)
Answer ==
    /\ step = "wait" /\ dialog' = "off"
    /\ \E a \in {"install", "save"} :
          /\ answer' = [answer EXCEPT ![task] = a]
          /\ Go(IF a = "install" THEN "unpack" ELSE "save")
    /\ UNCHANGED <<task, show, target, unpacked, promoter, result, app, data, saved>>
    /\ Keep /\ KeepQueue

(* ZipOpen begins. *)
UnpackBegin ==
    /\ step = "unpack" /\ zpc = "off"
    /\ ZipLocate
    /\ UNCHANGED <<zip, walk, reading, err, entryerr, fout, disk, held, faults>>
    /\ UNCHANGED <<hookVars, exportVars>> /\ KeepQueue

(* Without a handle there was nothing to unpack; less than all is "part", down
   to nothing of it. *)
Amount == IF zip = "open" /\ AllWhole THEN "whole" ELSE "part"
(* The first entry of an archive stands for its sce_sys/param.sfo. *)
HasSfo == MaxEntries > 0 /\ disk[1].kind = "file"

(* ZipClose; a result other than 0 ends the export, what came out until then
   staying where it is: in ux0:data, or in the download's X, where no export
   looks again. *)
UnpackEnd ==
    /\ step = "unpack" /\ zpc = "ret" /\ zpc' = "off"
    /\ ZipClose /\ i' = 0 /\ err' = OK /\ entryerr' = OK
    /\ buf' = <<>> /\ fresh' = <<>> /\ avail_out' = 0 /\ disk' = Blank /\ faults' = FALSE
    /\ UNCHANGED <<layout, centralpos, fout>>
    /\ \/ /\ err # OK /\ Return("error") /\ UNCHANGED unpacked
          /\ data' = IF target THEN data ELSE [data EXCEPT ![task] = Amount]
       \/ /\ err = OK /\ ~target /\ Return("ok") /\ UNCHANGED unpacked
          /\ data' = [data EXCEPT ![task] = Amount]
       \/ /\ err = OK /\ target /\ Go("head") /\ UNCHANGED <<task, result, data>> /\ KeepFile /\ KeepQueue
          /\ unpacked' = [amount |-> Amount, sfo |-> HasSfo]
    /\ UNCHANGED <<dialog, promoter, app, saved, answer, hookVars>>

(* makeHead reads the unpacked param.sfo. *)
SfoRead == unpacked.sfo

MakeHead ==
    /\ step = "head"
    /\ \/ SfoRead /\ Go("promote") /\ UNCHANGED <<task, result, unpacked>> /\ KeepFile /\ KeepQueue
       \/ Return("error") /\ unpacked' = Empty
    /\ UNCHANGED <<dialog, promoter, app, data, saved, answer>> /\ Keep

(* The rest of promoteApp: the utility is loaded, initialised, given the
   package, left and unloaded; the first of these that fails ends it. *)
Installed == app' = [app EXCEPT ![task] = unpacked.amount]
PromoteApp ==
    /\ step = "promote" /\ unpacked' = Empty
    /\ \/ /\ Return("error") /\ UNCHANGED app
          /\ promoter' \in {promoter, "on"}
       \/ Return("error") /\ Installed /\ promoter' = "on"
       \/ Return("ok") /\ Installed /\ promoter' = "off"
    /\ UNCHANGED <<dialog, data, saved, answer>> /\ Keep

(* variant: what could not be moved counts as saved *)
MovedAny == {"ok"}
Moved == {"error"}

(* The download is moved to ux0:download, over one of the same name, which is
   removed first. *)
SaveFile ==
    /\ step = "save"
    /\ \/ Return("error") /\ UNCHANGED saved                    \* no such directory
       \/ Return("ok") /\ saved' = [saved EXCEPT ![Now.name] = task]
       \/ \E r \in Moved : Return(r) /\ saved' \in {saved, [saved EXCEPT ![Now.name] = 0]}
    /\ UNCHANGED <<dialog, unpacked, promoter, app, data, answer>> /\ Keep

Exporting ==
    \/ \E t \in Tasks : ExportFile(t)
    \/ ReadPdb \/ ReadParams \/ Ask \/ Answer \/ UnpackBegin \/ UnpackEnd
    \/ MakeHead \/ PromoteApp \/ SaveFile

(* What the reader does touches nothing that the application or a loader of
   plugins sees, so their steps are left out while it reads. *)
Next ==
    \/ Exporting
    \/ ZipStep /\ UNCHANGED <<queueVars, hookVars, exportVars>>
    \/ zpc = "off" /\ QueueNext /\ UNCHANGED <<zipVars, hookVars, exportVars>>
    \/ zpc = "off" /\ HookNext /\ UNCHANGED <<zipVars, queueVars>>

Spec == Init /\ [][Next]_vars

-----------------------------------------------------------------------------
(* However copies of the plugin are started and stopped, overlapping at any
   hook, a download is exported by one of them at most. *)
HookedOnce == Cardinality({c \in Copies : "export" \in mine[c]}) <= 1

(* Nothing is installed that the user was not asked about and did not agree to,
   unless a parameter file that was written to its end says not to ask: one that
   the application is still writing, or one that it could not write, does not. *)
InstallConsented ==
    \A t \in Tasks : app[t] # "none" =>
        answer[t] = "install" \/ (param[t] = "full" /\ ~Wants[t].params.show)

(* An export that reports success did one of the three things and only one: it
   installed, unpacked to ux0:data, or saved.  One that reports an error did not
   save, and did not both install and unpack to ux0:data; but either of these it
   may have done in part or whole, for the reader fails at a later entry when
   the earlier ones are on the card, and the promoter after the package was
   taken. *)
SavedHere(t) ==
    \/ saved[Wants[t].name] = t
    \/ \E o \in Tasks \ {t} : Wants[o].name = Wants[t].name /\ result[o] # "none"
ReturnTrue ==
    \A t \in Tasks :
       /\ result[t] = "ok" =>
            IF app[t] # "none" THEN data[t] = "none" /\ saved[Wants[t].name] # t
            ELSE IF data[t] # "none" THEN saved[Wants[t].name] # t
            ELSE SavedHere(t)
       /\ result[t] = "error" =>
            saved[Wants[t].name] # t /\ (app[t] = "none" \/ data[t] = "none")
=============================================================================
