---------------------------- MODULE StorageFormat ----------------------------
(***************************************************************************)
(* storageFormat: src/main.c loads a kernel plugin and opens the Settings  *)
(* dialog; kplugin/main.c loads uplugin/user.c into the next process that   *)
(* is started; that replaces the dialog's menu and formats what is chosen  *)
(* there by way of FatFormatProxy.h.  mcfredir: src/user.c, which sends the *)
(* dialog's own formatting of the memory card to the same function.        *)
(* The hooks of user.c are module SettingsHooks'.                          *)
(***************************************************************************)
EXTENDS SettingsHooks, FiniteSets

CONSTANTS
    Proc,      \* processes the system may start
    Dialog,    \* the Settings dialog
    Target,    \* positions in stor_str the menu offers
    Refused    \* the hooks taiHEN may refuse, a bound

ASSUME StorageFormatAssumption == Dialog \in Proc /\ Target \subseteq 0 .. 4 /\ 0 \in Target

VARIABLES
    app,        \* where main stands
    inject,     \* the kernel's storage check is patched
    starthook,  \* the kernel plugin's hook: "none", "failed", "live", "gone"
    proc,       \* where the start of a process stands
    has,        \* processes user.suprx was loaded into
    crowded,    \* (history) two processes were in the kernel's hook at a time
    storno,
    funcs6,     \* the dialog's button handler: "theirs" or "ours"
    g_button,   \* the handler ours hands on to
    mcf,        \* mcfredir's hook: "none", "held", "stopped"
    vol         \* where the last format of a device of stor_str put its volume

menu == <<storno, funcs6, g_button, mcf, vol>>
loader == <<inject, starthook, proc, has, crowded>>
fvars == <<hvars, app, loader, menu>>

FormatTypeOK ==
    /\ HooksTypeOK
    /\ app \in {"load", "launch", "wait", "reset", "off", "error"}
    /\ inject \in BOOLEAN /\ starthook \in {"none", "failed", "live", "gone"}
    /\ proc \in [Proc -> {"none", "new", "load", "release", "started"}]
    /\ has \subseteq Proc /\ crowded \in BOOLEAN
    /\ storno \in Target /\ funcs6 \in {"theirs", "ours"} /\ g_button \in {"none", "theirs", "ours"}
    /\ mcf \in {"none", "held", "stopped"}
    /\ vol \in [0 .. 4 -> {"old", "start", "aligned"}]

FormatInit ==
    /\ HooksInit
    /\ app = "load" /\ inject = FALSE /\ starthook = "none"
    /\ proc = [p \in Proc |-> "none"] /\ has = {} /\ crowded = FALSE
    /\ storno = 0 /\ funcs6 = "theirs" /\ g_button = "none" /\ mcf = "none"
    /\ vol = [d \in 0 .. 4 |-> "old"]

-----------------------------------------------------------------------------
(* module_start of the kernel plugin: what is injected stays if neither of
   the two names of the kernel's function can be hooked. *)
LoadKernelPlugin ==
    /\ app = "load"
    /\ \/ app' = "error" /\ UNCHANGED <<inject, starthook>>
       \/ app' = "error" /\ inject' = TRUE /\ starthook' = "failed"
       \/ app' = "launch" /\ inject' = TRUE /\ starthook' = "live"
    /\ UNCHANGED <<hvars, proc, has, crowded, menu>>

LaunchDialog ==
    /\ app = "launch" /\ app' = "wait"
    /\ proc' = [proc EXCEPT ![Dialog] = "new"]
    /\ UNCHANGED <<hvars, inject, starthook, has, crowded, menu>>

(* The kernel plugin is unloaded after two seconds of the application's own
   time, whatever the dialog does meanwhile, and the console is reset. *)
UnloadKernelPlugin ==
    /\ app = "wait" /\ app' = "reset" /\ starthook' = "gone"
    /\ UNCHANGED <<hvars, inject, proc, has, crowded, menu>>

ColdReset ==
    /\ app = "reset" /\ app' = "off"
    /\ UNCHANGED <<hvars, loader, menu>>

StartOther(p) ==
    /\ app # "off" /\ p # Dialog /\ proc[p] = "none"
    /\ proc' = [proc EXCEPT ![p] = "new"]
    /\ UNCHANGED <<hvars, app, inject, starthook, has, crowded, menu>>

-----------------------------------------------------------------------------
(* start_preloaded_modules_patched, in the process being started. *)
Moves(p, from, to) == app # "off" /\ proc[p] = from /\ proc' = [proc EXCEPT ![p] = to]
Inside == {p \in Proc : proc[p] \in {"load", "release"}}

EnterStart(p) ==
    /\ IF starthook = "live" THEN Moves(p, "new", "load") /\ crowded' = (crowded \/ Inside # {})
                             ELSE Moves(p, "new", "started") /\ UNCHANGED crowded
    /\ UNCHANGED <<hvars, app, inject, starthook, has, menu>>

LoadUserPlugin(p) ==
    /\ Moves(p, "load", "release")
    /\ has' \in {has, has \cup {p}}
    /\ UNCHANGED <<hvars, app, inject, starthook, crowded, menu>>

(* variant: the hook is let go by the unload only *)
ReleaseNot(p) == Moves(p, "release", "started") /\ UNCHANGED starthook
ReleaseStart(p) == Moves(p, "release", "started") /\ starthook' = "gone"

Leave(p) == ReleaseStart(p) /\ UNCHANGED <<hvars, app, inject, has, crowded, menu>>

Start(p) == StartOther(p) \/ EnterStart(p) \/ LoadUserPlugin(p) \/ Leave(p)

-----------------------------------------------------------------------------
(* user.c: its hooks. *)
In(I) == SUBSET (I \cap Refused)

HooksCome ==
    /\ app # "off" /\ Dialog \in has
    /\ \E R \in In({0, 1}) : ModuleStart(R)
    /\ UNCHANGED <<app, loader, menu>>

HooksGo ==
    /\ app # "off" /\ ModuleStop
    /\ UNCHANGED <<app, loader, menu>>

(* The pages' functions are a new table with every core. *)
CoreComes ==
    /\ app # "off" /\ proc[Dialog] = "started"
    /\ \E R \in In(CoreHooks) : LoadCore(R)
    /\ funcs6' = "theirs"
    /\ UNCHANGED <<app, loader, storno, g_button, mcf, vol>>

CoreGoes ==
    /\ app # "off" /\ UnloadCore
    /\ UNCHANGED <<app, loader, menu>>

(* scePafToplevelInitPluginFunctions, for each page opened: hook 6. *)
InitPluginFunctions ==
    /\ app # "off" /\ core /\ Sees(6) /\ funcs6 # "ours"
    /\ g_button' = funcs6 /\ funcs6' = "ours"
    /\ UNCHANGED <<hvars, app, loader, storno, mcf, vol>>

(* sceRegMgrSetKeyInt: hook 4. *)
SetTarget ==
    /\ app # "off" /\ core /\ Sees(4) /\ storno' \in Target
    /\ UNCHANGED <<hvars, app, loader, funcs6, g_button, mcf, vol>>

-----------------------------------------------------------------------------
(* formatBlkDev: with external the volume is to start where the device does,
   which a hook for the time of the format sees to; a refusal of that hook is
   not looked at.  The file system is passed on. *)
FormatBlkDev(dev, external) ==
    \/ external /\ vol' = [vol EXCEPT ![dev] = "start"]
    \/ vol' = [vol EXCEPT ![dev] = "aligned"]
    \/ UNCHANGED vol

AtStart(n) == n < 3

OnButtonFormat ==
    /\ app # "off" /\ plug = "on" /\ core /\ funcs6 = "ours"
    /\ FormatBlkDev(storno, AtStart(storno))
    /\ UNCHANGED <<hvars, app, loader, storno, funcs6, g_button, mcf>>

OnButtonReboot ==
    /\ app # "off" /\ plug = "on" /\ core /\ funcs6 = "ours"
    /\ app' = "off"
    /\ UNCHANGED <<hvars, loader, menu>>

(* mcfredir: no hook is asked for where there is no Settings module, and one
   that is refused leaves nothing behind. *)
McfStart ==
    /\ app # "off" /\ proc[Dialog] = "started" /\ mcf = "none"
    /\ mcf' = "held"
    /\ UNCHANGED <<hvars, app, loader, storno, funcs6, g_button, vol>>

FormatGen ==
    /\ app # "off" /\ core /\ mcf = "held"
    /\ FormatBlkDev(0, TRUE)
    /\ UNCHANGED <<hvars, app, loader, storno, funcs6, g_button, mcf>>

McfStop ==
    /\ app # "off" /\ mcf = "held" /\ mcf' = "stopped"
    /\ UNCHANGED <<hvars, app, loader, storno, funcs6, g_button, vol>>

Menu ==
    \/ HooksCome \/ HooksGo \/ CoreComes \/ CoreGoes \/ InitPluginFunctions
    \/ SetTarget \/ OnButtonFormat \/ OnButtonReboot \/ McfStart \/ FormatGen \/ McfStop
FormatNext ==
    \/ LoadKernelPlugin \/ LaunchDialog \/ UnloadKernelPlugin \/ ColdReset
    \/ \E p \in Proc : Start(p)
    \/ Menu
FormatSpec == FormatInit /\ [][FormatNext]_fvars

-----------------------------------------------------------------------------
(* Unless two processes are started at a time, the user plugin comes into one
   process: the hook of the kernel takes itself away while it is called. *)
LoadedOnce == ~crowded => Cardinality(has) <= 1

=============================================================================
