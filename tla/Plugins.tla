------------------------------ MODULE Plugins ------------------------------
(***************************************************************************)
(* Four parts that hook or extend the running system and have no protocol  *)
(* with each other: the gate of recoVery's boot patch, vlog, pdbridge, and *)
(* storageFormat with mcfredir.  Each runs by itself.                      *)
(***************************************************************************)
EXTENDS SdifGate, VLog, PdBridge, StorageFormat

VARIABLE part  \* the part that runs

pvars == <<part, vars, lvars, bvars, fvars>>

PInit ==
    /\ part \in {"gate", "vlog", "pdbridge", "storageFormat"}
    /\ Init /\ LogInit /\ BridgeInit /\ FormatInit

PNext ==
    /\ UNCHANGED part
    /\ \/ part = "gate" /\ Next /\ UNCHANGED <<lvars, bvars, fvars>>
       \/ part = "vlog" /\ LogNext /\ UNCHANGED <<vars, bvars, fvars>>
       \/ part = "pdbridge" /\ BridgeNext /\ UNCHANGED <<vars, lvars, fvars>>
       \/ part = "storageFormat" /\ FormatNext /\ UNCHANGED <<vars, lvars, bvars>>
PSpec == PInit /\ [][PNext]_pvars
=============================================================================
