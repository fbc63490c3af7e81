------------------------------ MODULE Settings ------------------------------
(***************************************************************************)
(* The settings plugin of vita-bootanim, user/user.c: it reads the header  *)
(* of ur0:tai/boot.rcf when the Settings application is started, shows and  *)
(* changes that copy, and writes it back whole with every change.  Anybody  *)
(* may put another animation there in between.  Its hooks are module       *)
(* SettingsHooks'.                                                         *)
(***************************************************************************)
EXTENDS SettingsHooks

CONSTANTS
    Anims,   \* the animations there are
    Refused  \* the hooks taiHEN may refuse, a bound

NoAnim == 0
ASSUME SettingsAssumption == Anims \subseteq Nat \ {NoAnim}

VARIABLES
    anim,     \* boot.rcf
    header,   \* the plugin's copy of its header
    fresh,    \* (history) the copy was read from the animation that is there
    unsaved,  \* (history) the last change did not get to the file
    crossed   \* (history) a copy of another header was written into the file

svars == <<hvars, anim, header, fresh, unsaved, crossed>>

(* layout: the animation whose frame count and flags a header has; on: its
   magic is right, for this and every other field the menu sets; body: the
   animation the streams are of, NoAnim if they are cut or mixed. *)
HeaderType == [layout : Anims \cup {NoAnim}, on : BOOLEAN]
Zeros == [layout |-> NoAnim, on |-> FALSE]
Absent == [there |-> FALSE, empty |-> TRUE, head |-> Zeros, body |-> NoAnim]
Emptied == [Absent EXCEPT !.there = TRUE]
Whole(a) ==
    [there |-> TRUE, empty |-> FALSE, head |-> [layout |-> a, on |-> TRUE], body |-> a]

SettingsTypeOK ==
    /\ HooksTypeOK
    /\ anim \in [there : BOOLEAN, empty : BOOLEAN, head : HeaderType, body : Anims \cup {NoAnim}]
    /\ header \in HeaderType /\ {fresh, unsaved, crossed} \subseteq BOOLEAN

SettingsInit ==
    /\ HooksInit /\ anim = Absent
    /\ header = Zeros /\ fresh = FALSE /\ unsaved = FALSE /\ crossed = FALSE

-----------------------------------------------------------------------------
In(I) == SUBSET (I \cap Refused)

(* variant: the copy has the size of a pointer *)
LoadedFew == [anim.head EXCEPT !.layout = NoAnim]
Loaded == anim.head

(* module_start: the copy stays zeros if the file cannot be read. *)
Load ==
    \/ anim.there /\ ~anim.empty /\ header' = Loaded /\ fresh' = TRUE
    \/ header' = Zeros /\ fresh' = FALSE

StartSettings ==
    /\ \E R \in In({0, 1}) : ModuleStart(R)
    /\ Load /\ unsaved' = FALSE
    /\ UNCHANGED <<anim, crossed>>

OpenCore ==
    /\ plug # "off" /\ \E R \in In(CoreHooks) : LoadCore(R)
    /\ UNCHANGED <<anim, header, fresh, unsaved, crossed>>

CloseCore == UnloadCore /\ UNCHANGED <<anim, header, fresh, unsaved, crossed>>

(* save_config_user: the file is neither made nor cut, and a failure not told. *)
Save ==
    \/ /\ anim.there
       /\ anim' = [anim EXCEPT !.head = header', !.empty = FALSE]
       /\ unsaved' = FALSE /\ crossed' = (crossed \/ ~fresh)
    \/ unsaved' = TRUE /\ UNCHANGED <<anim, crossed>>

(* sceRegMgrSetKeyInt, by hook 4. *)
SetKeyInt ==
    /\ plug = "on" /\ core /\ Sees(4)
    /\ \E b \in BOOLEAN : header' = [header EXCEPT !.on = b]
    /\ Save
    /\ UNCHANGED <<hvars, fresh>>

StopSettings == ModuleStop /\ UNCHANGED <<anim, header, fresh, unsaved, crossed>>

(* The application's process ends, and everything in it. *)
Gone ==
    /\ plug' = "off" /\ core' = FALSE /\ modid' = FALSE /\ cores' = 0
    /\ g_hooks' = [i \in Hooks |-> "zero"] /\ live' = [i \in Hooks |-> 0]
    /\ header' = Zeros /\ fresh' = FALSE /\ unsaved' = FALSE

EndSettings == plug = "stopped" /\ Gone /\ UNCHANGED <<anim, crossed>>

SettingsStep == OpenCore \/ CloseCore \/ SetKeyInt \/ StopSettings \/ EndSettings

(* Another animation, or the start of one, is put there. *)
Replace(a) ==
    /\ anim' = a /\ fresh' = FALSE /\ crossed' = FALSE
    /\ UNCHANGED <<hvars, header, unsaved>>

-----------------------------------------------------------------------------
(* What the menu shows is what the file has, and the header in the file fits
   the streams behind it, unless the file was replaced under the plugin, could
   not be read or not be written: the header is never a mixture. *)
SettingsTrue ==
    /\ plug = "on" /\ fresh /\ ~unsaved => header = anim.head
    /\ anim.body # NoAnim /\ ~crossed => anim.head.layout = anim.body
=============================================================================
