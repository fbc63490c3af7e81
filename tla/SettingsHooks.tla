---------------------------- MODULE SettingsHooks ----------------------------
(***************************************************************************)
(* How a plugin of the Settings application hooks it: user/user.c of       *)
(* vita-bootanim and uplugin/user.c of storageFormat.  Hooks 0 and 1 are on *)
(* the loading and unloading of modules; when the settings core comes the   *)
(* others are placed, when it goes they are released.  taiHEN keeps every   *)
(* hook until it is released by the id it gave, and knows an id only once. *)
(***************************************************************************)
EXTENDS Integers

CONSTANTS
    Hooks,    \* the indices of g_hooks
    MaxCores  \* bound on the times the core is loaded

ASSUME SettingsHooksAssumption ==
    /\ {0, 1} \subseteq Hooks /\ Hooks \subseteq Nat /\ MaxCores \in Nat

VARIABLES
    plug,     \* the plugin: "off", "on", "stopped"
    g_hooks,  \* an entry is "zero", "failed", an id "held" or an id "gone"
    live,     \* hooks that taiHEN keeps for each index
    core,     \* the settings core is in the process
    modid,    \* g_system_settings_core_modid is set
    cores     \* times the core was loaded

hvars == <<plug, g_hooks, live, core, modid, cores>>

CoreHooks == Hooks \ {0, 1}
Id == {"held", "gone"}

HooksTypeOK ==
    /\ plug \in {"off", "on", "stopped"}
    /\ g_hooks \in [Hooks -> {"zero", "failed"} \cup Id]
    /\ live \in [Hooks -> Nat] /\ {core, modid} \subseteq BOOLEAN /\ cores \in 0 .. MaxCores

HooksInit ==
    /\ plug = "off" /\ core = FALSE /\ modid = FALSE /\ cores = 0
    /\ g_hooks = [i \in Hooks |-> "zero"] /\ live = [i \in Hooks |-> 0]

-----------------------------------------------------------------------------
(* Hooks I are asked for; those in R are refused. *)
Place(I, R) ==
    /\ g_hooks' = [i \in Hooks |-> IF i \notin I THEN g_hooks[i]
                                   ELSE IF i \in R THEN "failed" ELSE "held"]
    /\ live' = [i \in Hooks |-> IF i \in I \ R THEN live[i] + 1 ELSE live[i]]

(* A release takes the hook of an id that is still known; zero is no id,
   although it is not negative. *)
Release(I) ==
    /\ g_hooks' = [i \in Hooks |-> IF i \in I /\ g_hooks[i] = "held" THEN "gone" ELSE g_hooks[i]]
    /\ live' = [i \in Hooks |-> IF i \in I /\ g_hooks[i] = "held" THEN live[i] - 1 ELSE live[i]]

ModuleStart(R) ==
    /\ plug = "off" /\ plug' = "on"
    /\ R \subseteq {0, 1} /\ Place({0, 1}, R)
    /\ UNCHANGED <<core, modid, cores>>

Sees(i) == live[i] > 0

(* The core is loaded, and then, if hook 0 is there, hooked. *)
LoadCore(R) ==
    /\ ~core /\ core' = TRUE /\ cores < MaxCores /\ cores' = cores + 1
    /\ R \subseteq CoreHooks
    /\ IF Sees(0)
         THEN modid' = TRUE /\ Place(CoreHooks, R)
         ELSE R = {} /\ UNCHANGED <<modid, g_hooks, live>>
    /\ UNCHANGED plug

(* variant: the first two of the core's hooks are forgotten *)
UnloadReleasesFew == CoreHooks \ {2, 3}
UnloadReleases == CoreHooks

(* Hook 1 lets the core's hooks go before the core is unloaded. *)
UnloadCore ==
    /\ core /\ core' = FALSE
    /\ IF Sees(1) /\ modid
         THEN modid' = FALSE /\ Release(UnloadReleases)
         ELSE UNCHANGED <<modid, g_hooks, live>>
    /\ UNCHANGED <<plug, cores>>

ModuleStop ==
    /\ plug = "on" /\ plug' = "stopped"
    /\ Release(Hooks)
    /\ UNCHANGED <<core, modid, cores>>

HooksNext ==
    \/ \E R \in SUBSET {0, 1} : ModuleStart(R)
    \/ \E R \in SUBSET CoreHooks : LoadCore(R)
    \/ UnloadCore \/ ModuleStop
HooksSpec == HooksInit /\ [][HooksNext]_hvars

-----------------------------------------------------------------------------
(* As long as the hook on unloading could be placed, an index never has two
   hooks, which would share one reference and call each other without end; no
   hook of the core outlives the core, and none the plugin, although entries
   are never reset and are released once more at the stop. *)
HooksPaired ==
    g_hooks[1] # "failed" =>
        /\ \A i \in Hooks : live[i] <= 1
        /\ plug = "stopped" \/ core \/ \A i \in CoreHooks : live[i] = 0
        /\ plug = "stopped" => \A i \in Hooks : live[i] = 0
=============================================================================
