----------------------------- MODULE Animation -----------------------------
(***************************************************************************)
(* The way of an animation of vita-bootanim: mkanim makes boot.rcf on the  *)
(* PC, the user copies it to ur0:tai, where the installer also puts its own *)
(* one, and the settings plugin, once it is installed, changes its header.  *)
(* The PC is left alone once its file has been taken along.                *)
(***************************************************************************)
EXTENDS MkAnim, Installer

CONSTANT Own  \* the animation the PC makes

ASSUME AnimationAssumption == Own \in Anims \ {Default}

VARIABLE taken  \* what was taken along from the PC: "none", "whole", "spoilt"; or "not yet"

console == <<svars, ivars>>
avars == <<vars, taken, console>>

AInit == Init /\ InstallerInit /\ taken = "not yet"

-----------------------------------------------------------------------------
OnPC == taken = "not yet" /\ Next /\ UNCHANGED <<taken, console>>

(* The file, if there is one; the PC's other files are seen no more. *)
Take ==
    /\ taken = "not yet" /\ pc \in {"idle", "done"}
    /\ taken' = IF ~rcf.there THEN "none"
                ELSE IF pc = "done" /\ Intact(rcf.body, rcf.count, rcf.logo) THEN "whole" ELSE "spoilt"
    /\ pc' = "idle" /\ run' = None /\ frames' = 0 /\ end_logo' = FALSE
    /\ cur_frame' = 0 /\ count' = 0 /\ gif' = NoGif
    /\ png' = [k \in DOMAIN png |-> None]
    /\ rgba' = [s \in Stream |-> None] /\ gz' = [s \in Stream |-> NoGz]
    /\ rcf' = NoRcf /\ from' = <<>>
    /\ fault' = FALSE /\ spoilt' = FALSE /\ uncat' = FALSE
    /\ UNCHANGED console

(* The user puts it to ur0:tai, before or after the installer runs. *)
CopyToConsole ==
    /\ step = "off" /\ taken \in {"whole", "spoilt"} /\ taken' = "none"
    /\ Replace(IF taken = "whole" THEN Whole(Own) ELSE [Whole(Own) EXCEPT !.body = NoAnim])
    /\ UNCHANGED <<vars, ivars>>

(* A bound: the plugin runs beside the installer only where that copies the
   default animation and nothing else. *)
Installing ==
    /\ taken # "not yet"
    /\ InstallerStep \/ PowerLoss
    /\ plug = "off" \/ op' \in {"default", "none"}
    /\ UNCHANGED <<vars, taken>>

(* taiHEN loads the plugin into the Settings application if config.txt has its
   section and the module is whole. *)
Listed == "mod" \in Range(conf["config"].lines) /\ mods["suprx"] = "full"

Setting ==
    /\ taken # "not yet"
    /\ step = "off" \/ op = "default"
    /\ (Listed /\ StartSettings) \/ SettingsStep
    /\ UNCHANGED <<vars, ivars, taken>>

ANext == OnPC \/ Take \/ CopyToConsole \/ Installing \/ Setting
ASpec == AInit /\ [][ANext]_avars
=============================================================================
