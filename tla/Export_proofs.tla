---------------------------- MODULE Export_proofs ----------------------------
(***************************************************************************)
(* bgvpk, for any copies of the plugin, any downloads, any archives and any*)
(* sizes of the buffers: one copy exports at most; nothing is installed    *)
(* without consent; an export returns what it did; the end record found is *)
(* the last; the reader implements Unpack; a sound archive comes out whole.*)
(*                                                                         *)
(* The search for the end record is a recursive function: that it is the   *)
(* one its equation describes is proved from a closed form of it.          *)
(***************************************************************************)
EXTENDS Export, FiniteSetTheorems, WellFoundedInduction, TLAPS

(***************************************************************************)
(* The hooks.                                                              *)
(***************************************************************************)
(* HookedOnce is not inductive: it rests on the first injection, which there is
   once only, and which a copy holds for as long as it holds the export. *)
HookInv ==
    /\ mine \in [Copies -> SUBSET {"get", "export", "rest"}]
    /\ place \in [Copies -> 0 .. 3]
    /\ module \in [Copies -> {"out", "starting", "in", "stopping"}]
    /\ \A c \in Copies :
         /\ module[c] \in {"starting", "stopping"} => place[c] >= 1
         /\ "export" \in mine[c] => "get" \in mine[c]
         /\ module[c] = "starting" /\ place[c] > 1 => "get" \in mine[c]
         /\ module[c] = "stopping" /\ place[c] = 1 => "export" \notin mine[c]
    /\ \A c, d \in Copies : "get" \in mine[c] /\ "get" \in mine[d] => c = d

(* Only starting and stopping a copy moves hooks. *)
LEMMA HooksMove == [Next]_vars => HookNext \/ UNCHANGED hookVars
BY DEF Next, Exporting, ExportFile, ReadPdb, ReadParams, Ask, Answer, UnpackBegin, UnpackEnd, MakeHead,
       PromoteApp, SaveFile, Keep, exportVars, vars

(* A copy gets past the first injection only by holding it, and lets go of the
   export before it lets go of that. *)
LEMMA HookStep == HookInv /\ [Next]_vars => HookInv'
<1> SUFFICES ASSUME HookInv, [Next]_vars PROVE HookInv' OBVIOUS
<1>1. CASE UNCHANGED hookVars BY <1>1 DEF HookInv, hookVars
<1>2. ASSUME NEW c \in Copies, StartBegin(c) PROVE HookInv'
  BY <1>2 DEF StartBegin, HookInv
<1>3. ASSUME NEW c \in Copies, StartPatch(c) PROVE HookInv'
  <2>0. module[c] = "starting" /\ place[c] \in {1, 2, 3} BY <1>3 DEF StartPatch, HookInv
  <2>p. Len(Patches) = 3 /\ Patches[1] = "get" /\ Patches[2] = "export" /\ Patches[3] = "rest"
    BY DEF Patches
  <2>q. PICK p : p = Patches[place[c]] OBVIOUS
  <2>1. PICK taken \in BOOLEAN :
          /\ taken => Free(p)
          /\ mine' = [mine EXCEPT ![c] = IF taken THEN @ \cup {p} ELSE @]
          /\ IF GoesOn(p, taken) /\ place[c] < Len(Patches)
             THEN place' = [place EXCEPT ![c] = @ + 1] /\ UNCHANGED module
             ELSE module' = [module EXCEPT ![c] = "in"] /\ UNCHANGED place
    BY <1>3, <2>q DEF StartPatch
  <2>2. p \in {"get", "export", "rest"} /\ (p = "get" <=> place[c] = 1) BY <2>0, <2>p, <2>q
  <2>3. \A d \in Copies : d # c => mine'[d] = mine[d] /\ module'[d] = module[d] /\ place'[d] = place[d]
    BY <2>1 DEF HookInv
  <2>4. mine'[c] = IF taken THEN mine[c] \cup {p} ELSE mine[c] BY <2>1 DEF HookInv
  <2>5. mine' \in [Copies -> SUBSET {"get", "export", "rest"}] BY <2>1, <2>2 DEF HookInv
  <2>6. CASE GoesOn(p, taken) /\ place[c] < Len(Patches)
    <3>1. place' = [place EXCEPT ![c] = @ + 1] /\ module' = module BY <2>1, <2>6
    <3>2. place'[c] = place[c] + 1 /\ place[c] \in {1, 2} BY <2>0, <2>6, <2>p, <3>1 DEF HookInv
    <3>3. place' \in [Copies -> 0 .. 3] BY <3>1, <3>2 DEF HookInv
    <3>4. p = "get" => taken BY <2>6 DEF GoesOn
    <3>5. "get" \in mine'[c] BY <2>0, <2>2, <2>4, <3>2, <3>4 DEF HookInv
    <3>6. \A d \in Copies : "get" \in mine'[d] => d = c \/ "get" \in mine[d] BY <2>3
    <3>7. \A d \in Copies : d # c => ~("get" \in mine[d])
      <4> SUFFICES ASSUME NEW d \in Copies, d # c, "get" \in mine[d] PROVE FALSE OBVIOUS
      <4>1. CASE p = "get" BY <2>1, <3>4, <4>1 DEF Free
      <4>2. CASE p # "get"
        <5>1. "get" \in mine[c] BY <2>0, <2>2, <4>2 DEF HookInv
        <5> QED BY <5>1 DEF HookInv
      <4> QED BY <4>1, <4>2
    <3>8. \A a, b \in Copies : "get" \in mine'[a] /\ "get" \in mine'[b] => a = b BY <3>6, <3>7
    <3>9. ASSUME NEW d \in Copies
          PROVE  /\ module'[d] \in {"starting", "stopping"} => place'[d] >= 1
                 /\ "export" \in mine'[d] => "get" \in mine'[d]
                 /\ module'[d] = "starting" /\ place'[d] > 1 => "get" \in mine'[d]
                 /\ module'[d] = "stopping" /\ place'[d] = 1 => "export" \notin mine'[d]
      <4>1. CASE d = c BY <2>0, <3>1, <3>2, <3>5, <4>1
      <4>2. CASE d # c BY <2>3, <4>2 DEF HookInv
      <4> QED BY <4>1, <4>2
    <3>10. module' \in [Copies -> {"out", "starting", "in", "stopping"}] BY <3>1 DEF HookInv
    <3> QED BY <2>5, <3>3, <3>8, <3>9, <3>10 DEF HookInv
  <2>7. CASE ~(GoesOn(p, taken) /\ place[c] < Len(Patches))
    <3>1. module' = [module EXCEPT ![c] = "in"] /\ place' = place BY <2>1, <2>7
    <3>2. module'[c] = "in" /\ module' \in [Copies -> {"out", "starting", "in", "stopping"}]
      BY <3>1 DEF HookInv
    <3>3. place[c] = 1 => ~taken BY <2>2, <2>7, <2>p DEF GoesOn
    <3>4. place[c] # 1 => "get" \in mine[c] BY <2>0 DEF HookInv
    <3>5. \A d \in Copies : "get" \in mine'[d] <=> "get" \in mine[d] BY <2>2, <2>3, <2>4, <3>3, <3>4
    <3>6. "export" \in mine'[c] => "get" \in mine'[c] BY <2>2, <2>4, <3>3, <3>4 DEF HookInv
    <3>7. ASSUME NEW d \in Copies
          PROVE  /\ module'[d] \in {"starting", "stopping"} => place'[d] >= 1
                 /\ "export" \in mine'[d] => "get" \in mine'[d]
                 /\ module'[d] = "starting" /\ place'[d] > 1 => "get" \in mine'[d]
                 /\ module'[d] = "stopping" /\ place'[d] = 1 => "export" \notin mine'[d]
      <4>1. CASE d = c BY <3>2, <3>6, <4>1
      <4>2. CASE d # c BY <2>3, <4>2 DEF HookInv
      <4> QED BY <4>1, <4>2
    <3> QED BY <2>5, <3>1, <3>2, <3>5, <3>7 DEF HookInv
  <2> QED BY <2>6, <2>7
<1>4. ASSUME NEW c \in Copies, StopBegin(c) PROVE HookInv'
  <2>1. Len(Patches) = 3 BY DEF Patches
  <2> QED BY <1>4, <2>1 DEF StopBegin, HookInv
<1>5. ASSUME NEW c \in Copies, StopPatch(c) PROVE HookInv'
  <2>0. module[c] = "stopping" /\ place[c] \in {1, 2, 3} BY <1>5 DEF StopPatch, HookInv
  <2>p. Patches[1] = "get" /\ Patches[2] = "export" /\ Patches[3] = "rest" BY DEF Patches
  <2>1. mine' = [mine EXCEPT ![c] = @ \ {Patches[place[c]]}] BY <1>5 DEF StopPatch, Released
  <2>2. mine'[c] = mine[c] \ {Patches[place[c]]} /\ \A d \in Copies : d # c => mine'[d] = mine[d]
    BY <2>1 DEF HookInv
  <2>3. mine' \in [Copies -> SUBSET {"get", "export", "rest"}] BY <2>1 DEF HookInv
  <2>4. CASE place[c] = 1
    <3>1. module' = [module EXCEPT ![c] = "out"] /\ place' = [place EXCEPT ![c] = 0]
      BY <1>5, <2>4 DEF StopPatch
    <3>2. "export" \notin mine'[c] BY <2>0, <2>2, <2>4 DEF HookInv
    <3> QED BY <2>2, <2>3, <3>1, <3>2 DEF HookInv
  <2>5. CASE place[c] # 1
    <3>1. module' = module /\ place' = [place EXCEPT ![c] = @ - 1] BY <1>5, <2>5 DEF StopPatch
    <3>2. place'[c] = place[c] - 1 /\ \A d \in Copies : d # c => place'[d] = place[d]
      BY <3>1 DEF HookInv
    <3>3. place' \in [Copies -> 0 .. 3] BY <2>0, <2>5, <3>1 DEF HookInv
    <3>4. "get" \in mine'[c] <=> "get" \in mine[c] BY <2>0, <2>2, <2>5, <2>p
    <3>5. place'[c] = 1 => "export" \notin mine'[c]
      <4>1. place'[c] = 1 => place[c] = 2 BY <2>0, <2>5, <3>2
      <4> QED BY <2>2, <2>p, <4>1
    <3>6. "export" \in mine'[c] => "get" \in mine'[c] BY <2>2, <3>4 DEF HookInv
    <3>7. ASSUME NEW d \in Copies
          PROVE  /\ module'[d] \in {"starting", "stopping"} => place'[d] >= 1
                 /\ "export" \in mine'[d] => "get" \in mine'[d]
                 /\ module'[d] = "starting" /\ place'[d] > 1 => "get" \in mine'[d]
                 /\ module'[d] = "stopping" /\ place'[d] = 1 => "export" \notin mine'[d]
      <4>1. CASE d = c BY <2>0, <2>5, <3>1, <3>2, <3>5, <3>6, <4>1
      <4>2. CASE d # c BY <2>2, <3>1, <3>2, <4>2 DEF HookInv
      <4> QED BY <4>1, <4>2
    <3>8. \A a, b \in Copies : "get" \in mine'[a] /\ "get" \in mine'[b] => a = b
      BY <2>2, <3>4 DEF HookInv
    <3> QED BY <2>3, <3>1, <3>3, <3>7, <3>8 DEF HookInv
  <2> QED BY <2>4, <2>5
<1> QED BY <1>1, <1>2, <1>3, <1>4, <1>5, HooksMove DEF HookNext

LEMMA HookInvariant == Spec => []HookInv
<1>1. Init => HookInv BY DEF Init, HookInv
<1> QED BY <1>1, HookStep, PTL DEF Spec

(* However copies of the plugin are started and stopped (module_start and
   module_stop in source/main.c), overlapping at any hook, and whatever their
   number, a download is exported by one of them at most. *)
THEOREM HookedOnceHolds == Spec => []HookedOnce
<1>1. HookInv => HookedOnce
  <2> SUFFICES ASSUME HookInv PROVE HookedOnce OBVIOUS
  <2> DEFINE S == {c \in Copies : "export" \in mine[c]}
  <2>1. \A c, d \in S : c = d BY DEF HookInv
  <2> HIDE DEF S
  <2>2. CASE S = {} BY <2>2, FS_EmptySet DEF HookedOnce, S
  <2>3. CASE S # {}
    <3>1. PICK c \in S : TRUE BY <2>3
    <3>2. S = {c} BY <2>1, <3>1
    <3>3. Cardinality(S) = 1 BY <3>2, FS_Singleton
    <3> QED BY <3>3 DEF HookedOnce, S
  <2> QED BY <2>2, <2>3
<1> QED BY <1>1, HookInvariant, PTL

(***************************************************************************)
(* The downloads.                                                          *)
(***************************************************************************)
(* A download is queued once, and its parameter file is written once. *)
QueueInv ==
    /\ turn \in Nat
    /\ bgdl \in [Tasks -> {"none", "queued", "stuck", "loaded", "left"}]
    /\ param \in [Tasks -> {"none", "empty", "full"}]
    /\ \A t \in Tasks :
         /\ bgdl[t] # "none" => t < turn \/ (t = turn /\ asking \in {"open", "write"})
         /\ param[t] = "full" => t < turn

(* The user agreed, or was not to be asked. *)
Unasked(t) == param[t] = "full" /\ ~Wants[t].params.show
Agreed(t) == answer[t] = "install" \/ Unasked(t)

ExportTypes ==
    /\ step \in {"idle", "pdb", "params", "ask", "wait", "unpack", "head", "promote", "save"}
    /\ show \in BOOLEAN /\ target \in BOOLEAN
    /\ step # "idle" => task \in Tasks
    /\ result \in [Tasks -> {"none", "ok", "error"}]
    /\ app \in [Tasks -> {"none", "part", "whole"}]
    /\ data \in [Tasks -> {"none", "part", "whole"}]
    /\ saved \in [Names -> {0} \cup Tasks]
    /\ answer \in [Tasks -> {"none", "install", "save"}]
    /\ unpacked \in [amount : {"none", "part", "whole"}, sfo : BOOLEAN]

(* What was agreed to, step by step. *)
ConsentInv ==
    /\ step \in {"idle", "pdb", "params"} => show
    /\ step = "ask" /\ ~show => Unasked(task)
    /\ step = "unpack" /\ target => Agreed(task)
    /\ step \in {"head", "promote"} => Agreed(task) /\ unpacked.amount # "none"
    /\ InstallConsented

(* A download is exported once, and nothing became of it before. *)
ReturnInv ==
    /\ step # "idle" => bgdl[task] = "loaded"
    /\ \A t \in Tasks :
         /\ result[t] # "none" => bgdl[t] = "left"
         /\ bgdl[t] # "left" =>
              app[t] = "none" /\ data[t] = "none" /\ saved[Wants[t].name] # t
    /\ ReturnTrue

ExportInv == QueueInv /\ ExportTypes /\ ConsentInv /\ ReturnInv

LEMMA Wanted ==
    \A t \in Tasks :
       /\ t \in Nat /\ t > 0 /\ Wants[t].name \in Names
       /\ Wants[t].vpk \in BOOLEAN
       /\ Wants[t].params.show \in BOOLEAN /\ Wants[t].params.target \in BOOLEAN
<1> SUFFICES ASSUME NEW t \in Tasks
             PROVE  /\ t \in Nat /\ t > 0 /\ Wants[t].name \in Names
                    /\ Wants[t].vpk \in BOOLEAN
                    /\ Wants[t].params.show \in BOOLEAN /\ Wants[t].params.target \in BOOLEAN
  OBVIOUS
<1>1. Wants \in Seq(Want) BY QueueAssumption
<1>2. t \in 1 .. Len(Wants) /\ Len(Wants) \in Nat BY <1>1 DEF Tasks
<1>3. Wants[t] \in Want BY <1>1, <1>2
<1>4. Wants[t].name \in Names BY ExportAssumption
<1> QED BY <1>2, <1>3, <1>4 DEF Want

(* The application goes on, and so does the downloader: nothing becomes of a
   download by that, and what was written stays. *)
LEMMA QueueStep == ExportInv /\ QueueNext /\ UNCHANGED exportVars => ExportInv'
<1> SUFFICES ASSUME ExportInv, QueueNext, UNCHANGED exportVars PROVE ExportInv' OBVIOUS
<1>0. /\ turn \in Nat /\ Tasks \subseteq Nat
      /\ bgdl \in [Tasks -> {"none", "queued", "stuck", "loaded", "left"}]
      /\ param \in [Tasks -> {"none", "empty", "full"}]
      /\ \A t \in Tasks :
           /\ bgdl[t] # "none" => t < turn \/ (t = turn /\ asking \in {"open", "write"})
           /\ param[t] = "full" => t < turn
  BY Wanted DEF ExportInv, QueueInv
<1>1. /\ QueueInv'
      /\ \A t \in Tasks : /\ param[t] = "full" => param'[t] = "full"
                          /\ bgdl[t] = "loaded" => bgdl'[t] = "loaded"
                          /\ bgdl'[t] = "left" <=> bgdl[t] = "left"
  <2>1. CASE BgdlInit
    <3>1. asking = "init" /\ UNCHANGED <<turn, bgdl, param>> BY <2>1 DEF BgdlInit
    <3> QED BY <1>0, <3>1 DEF QueueInv
  <2>2. CASE BgdlQueue
    <3>1. /\ asking = "queue" /\ turn \in Tasks /\ param' = param
          /\ \/ Further /\ bgdl' = bgdl
             \/ /\ \E s \in {"queued", "stuck"} : bgdl' = [bgdl EXCEPT ![turn] = s]
                /\ (asking' = "open" /\ turn' = turn) \/ Further
      BY <2>2 DEF BgdlQueue
    <3>2. bgdl[turn] = "none" BY <1>0, <3>1
    <3>3. CASE Further /\ bgdl' = bgdl
      <4>1. turn' = turn + 1 BY <3>3 DEF Further
      <4> QED BY <1>0, <3>1, <3>3, <4>1 DEF QueueInv
    <3>4. ASSUME NEW s \in {"queued", "stuck"}, bgdl' = [bgdl EXCEPT ![turn] = s]
          PROVE  /\ QueueInv'
                 /\ \A t \in Tasks : /\ param[t] = "full" => param'[t] = "full"
                                     /\ bgdl[t] = "loaded" => bgdl'[t] = "loaded"
                                     /\ bgdl'[t] = "left" <=> bgdl[t] = "left"
      <4>1. (asking' = "open" /\ turn' = turn) \/ turn' = turn + 1
        BY <1>0, <3>1, <3>2, <3>4 DEF Further
      <4>2. bgdl' \in [Tasks -> {"none", "queued", "stuck", "loaded", "left"}] BY <1>0, <3>4
      <4>3. bgdl'[turn] = s /\ \A t \in Tasks : t # turn => bgdl'[t] = bgdl[t] BY <1>0, <3>1, <3>4
      <4>4. \A t \in Tasks : bgdl'[t] # "none" => t < turn \/ t = turn BY <1>0, <3>1, <4>3
      <4>5. \A t \in Tasks : bgdl'[t] # "none" => t < turn' \/ (t = turn' /\ asking' \in {"open", "write"})
        BY <1>0, <4>1, <4>4
      <4>6. turn' \in Nat /\ \A t \in Tasks : param'[t] = "full" => t < turn' BY <1>0, <3>1, <4>1
      <4> QED BY <1>0, <3>1, <3>2, <4>2, <4>3, <4>5, <4>6 DEF QueueInv
    <3> QED BY <3>1, <3>3, <3>4
  <2>3. CASE OpenParams \/ WriteParams
    <3>1. /\ asking \in {"open", "write"} /\ bgdl' = bgdl
          /\ (asking' = "write" /\ turn' = turn) \/ turn' = turn + 1
      BY <2>3 DEF OpenParams, WriteParams, Further
    <3>2. \/ param' = param
          \/ param' = [param EXCEPT ![turn] = "empty"]
          \/ param' = [param EXCEPT ![turn] = "full"] /\ turn' = turn + 1
      BY <2>3 DEF OpenParams, WriteParams, Further
    <3>3. param' \in [Tasks -> {"none", "empty", "full"}] BY <1>0, <3>2
    <3>4. \A t \in Tasks : param[t] = "full" => param'[t] = "full" BY <1>0, <3>2
    <3>5. turn' \in Nat /\ \A t \in Tasks : param'[t] = "full" => t < turn' BY <1>0, <3>1, <3>2
    <3>6. \A t \in Tasks : bgdl'[t] # "none" => t < turn' \/ (t = turn' /\ asking' \in {"open", "write"})
      BY <1>0, <3>1
    <3> QED BY <1>0, <3>1, <3>3, <3>4, <3>5, <3>6 DEF QueueInv
  <2>4. ASSUME NEW u \in Tasks, Download(u)
        PROVE  /\ QueueInv'
               /\ \A t \in Tasks : /\ param[t] = "full" => param'[t] = "full"
                                   /\ bgdl[t] = "loaded" => bgdl'[t] = "loaded"
                                   /\ bgdl'[t] = "left" <=> bgdl[t] = "left"
    <3>1. /\ bgdl[u] = "queued" /\ bgdl' = [bgdl EXCEPT ![u] = "loaded"]
          /\ UNCHANGED <<asking, turn, param>>
      BY <2>4 DEF Download
    <3> QED BY <1>0, <3>1 DEF QueueInv
  <2> QED BY <2>1, <2>2, <2>3, <2>4 DEF QueueNext
<1>2. UNCHANGED <<step, task, show, target, unpacked, result, app, data, saved, answer>>
  BY DEF exportVars, fates
<1>3. ExportTypes' BY <1>2 DEF ExportInv, ExportTypes
<1>4. \A t \in Tasks : (Agreed(t) => Agreed(t)') /\ (Unasked(t) => Unasked(t)')
  BY <1>1, <1>2 DEF Agreed, Unasked
<1>5. step # "idle" => task \in Tasks BY DEF ExportInv, ExportTypes
<1>6. InstallConsented'
  <2>1. \A t \in Tasks : app[t] # "none" => Agreed(t)
    BY DEF ExportInv, ConsentInv, InstallConsented, Agreed, Unasked
  <2> QED BY <1>2, <1>4, <2>1 DEF InstallConsented, Agreed, Unasked
<1>7. ConsentInv'
  <2>1. Agreed(task)' = (answer'[task] = "install" \/ (param'[task] = "full" /\ ~Wants[task].params.show))
        /\ Unasked(task)' = (param'[task] = "full" /\ ~Wants[task].params.show)
    BY <1>2 DEF Agreed, Unasked
  <2>2. task \in Tasks => (Agreed(task) => Agreed(task)') /\ (Unasked(task) => Unasked(task)')
    BY <1>1, <1>2, <2>1 DEF Agreed, Unasked
  <2> QED BY <1>2, <1>5, <1>6, <2>2 DEF ExportInv, ConsentInv
<1>8. ReturnTrue' BY <1>2 DEF ExportInv, ReturnInv, ReturnTrue, SavedHere
<1>9. ReturnInv' BY <1>1, <1>2, <1>5, <1>8 DEF ExportInv, ReturnInv
<1> QED BY <1>1, <1>3, <1>7, <1>9 DEF ExportInv

(* A step of the export that leaves what became of the downloads alone. *)
LEMMA GoesOnSafe ==
    ASSUME ExportInv, UNCHANGED <<asking, turn, bgdl, param, result, app, data, saved, answer>>,
           step' \in {"idle", "pdb", "params", "ask", "wait", "unpack", "head", "promote", "save"},
           show' \in BOOLEAN, target' \in BOOLEAN,
           unpacked' \in [amount : {"none", "part", "whole"}, sfo : BOOLEAN],
           step' # "idle" => task' \in Tasks /\ bgdl[task'] = "loaded",
           step' \in {"idle", "pdb", "params"} => show',
           step' = "ask" /\ ~show' => Unasked(task'),
           step' = "unpack" /\ target' => Agreed(task'),
           step' \in {"head", "promote"} => Agreed(task') /\ unpacked'.amount # "none"
    PROVE  ExportInv'
<1>1. QueueInv' BY DEF ExportInv, QueueInv
<1>2. ExportTypes' BY DEF ExportInv, ExportTypes
<1>3. InstallConsented' BY DEF ExportInv, ConsentInv, InstallConsented
<1>4. ConsentInv' BY <1>3 DEF ConsentInv, Agreed, Unasked
<1>5. ReturnTrue' BY DEF ExportInv, ReturnInv, ReturnTrue, SavedHere
<1>6. ReturnInv' BY <1>5 DEF ExportInv, ReturnInv
<1> QED BY <1>1, <1>2, <1>4, <1>6 DEF ExportInv

(* An export returns, something having become of its own download only, and of
   a file of the same name. *)
LEMMA Returns ==
    ASSUME ExportInv, step # "idle", NEW r \in {"ok", "error"}, Return(r), answer' = answer,
           app' \in [Tasks -> {"none", "part", "whole"}],
           data' \in [Tasks -> {"none", "part", "whole"}],
           saved' \in [Names -> {0} \cup Tasks],
           unpacked' \in [amount : {"none", "part", "whole"}, sfo : BOOLEAN],
           \A t \in Tasks \ {task} :
              /\ app'[t] = app[t] /\ data'[t] = data[t]
              /\ \/ saved'[Wants[t].name] = saved[Wants[t].name]
                 \/ saved'[Wants[t].name] \in {0, task} /\ Wants[t].name = Wants[task].name,
           app'[task] # "none" => Agreed(task),
           r = "ok" => IF app'[task] # "none" THEN data'[task] = "none" /\ saved'[Wants[task].name] # task
                       ELSE IF data'[task] # "none" THEN saved'[Wants[task].name] # task
                       ELSE saved'[Wants[task].name] = task,
           r = "error" => saved'[Wants[task].name] # task /\ (app'[task] = "none" \/ data'[task] = "none")
    PROVE  ExportInv'
<1>0. /\ task \in Tasks /\ bgdl[task] = "loaded" /\ \A t \in Tasks : t \in Nat /\ t > 0
      /\ step' = "idle" /\ show' = TRUE /\ target' = TRUE
      /\ result' = [result EXCEPT ![task] = r] /\ bgdl' = [bgdl EXCEPT ![task] = "left"]
      /\ UNCHANGED <<asking, turn, param>>
  BY Wanted DEF ExportInv, ExportTypes, ReturnInv, Return, Go
<1>1. QueueInv' BY <1>0 DEF ExportInv, QueueInv
<1>2. ExportTypes' BY <1>0 DEF ExportInv, ExportTypes
<1>3. InstallConsented'
  <2> SUFFICES ASSUME NEW t \in Tasks, app'[t] # "none"
               PROVE  answer'[t] = "install" \/ (param'[t] = "full" /\ ~Wants[t].params.show)
    BY DEF InstallConsented
  <2>1. CASE t = task BY <1>0, <2>1 DEF Agreed, Unasked
  <2>2. CASE t # task BY <1>0, <2>2 DEF ExportInv, ConsentInv, InstallConsented
  <2> QED BY <2>1, <2>2
<1>4. ConsentInv' BY <1>0, <1>3 DEF ConsentInv
<1>5. \A t \in Tasks : /\ result'[t] = IF t = task THEN r ELSE result[t]
                       /\ bgdl'[t] = IF t = task THEN "left" ELSE bgdl[t]
  BY <1>0 DEF ExportInv, ExportTypes, QueueInv
<1>6. ReturnTrue'
  <2> SUFFICES ASSUME NEW t \in Tasks
               PROVE  /\ result'[t] = "ok" =>
                           IF app'[t] # "none" THEN data'[t] = "none" /\ saved'[Wants[t].name] # t
                           ELSE IF data'[t] # "none" THEN saved'[Wants[t].name] # t
                           ELSE SavedHere(t)'
                      /\ result'[t] = "error" =>
                           saved'[Wants[t].name] # t /\ (app'[t] = "none" \/ data'[t] = "none")
    BY DEF ReturnTrue
  <2>1. CASE t = task
    <3>1. saved'[Wants[t].name] = t => SavedHere(t)' BY DEF SavedHere
    <3> QED BY <1>5, <2>1, <3>1
  <2>2. CASE t # task
    <3>1. app'[t] = app[t] /\ data'[t] = data[t] /\ result'[t] = result[t] BY <1>5, <2>2
    <3>2. saved[Wants[t].name] # t => saved'[Wants[t].name] # t BY <1>0, <2>2
    <3>3. SavedHere(t) => SavedHere(t)'
      <4> SUFFICES ASSUME SavedHere(t) PROVE SavedHere(t)' OBVIOUS
      <4>1. CASE saved[Wants[t].name] = t
        <5>1. CASE saved'[Wants[t].name] = t BY <5>1 DEF SavedHere
        <5>2. CASE saved'[Wants[t].name] # t
          <6>1. Wants[task].name = Wants[t].name BY <2>2, <4>1, <5>2
          <6>2. task \in Tasks \ {t} /\ result'[task] # "none" BY <1>0, <1>5, <2>2
          <6> QED BY <6>1, <6>2 DEF SavedHere
        <5> QED BY <5>1, <5>2
      <4>2. CASE \E o \in Tasks \ {t} : Wants[o].name = Wants[t].name /\ result[o] # "none"
        <5>1. PICK o \in Tasks \ {t} : Wants[o].name = Wants[t].name /\ result[o] # "none" BY <4>2
        <5>2. result'[o] # "none" BY <1>5, <5>1
        <5> QED BY <5>1, <5>2 DEF SavedHere
      <4> QED BY <4>1, <4>2 DEF SavedHere
    <3>4. /\ result[t] = "ok" =>
               IF app[t] # "none" THEN data[t] = "none" /\ saved[Wants[t].name] # t
               ELSE IF data[t] # "none" THEN saved[Wants[t].name] # t
               ELSE SavedHere(t)
          /\ result[t] = "error" => saved[Wants[t].name] # t /\ (app[t] = "none" \/ data[t] = "none")
      BY DEF ExportInv, ReturnInv, ReturnTrue
    <3> QED BY <3>1, <3>2, <3>3, <3>4
  <2> QED BY <2>1, <2>2
<1>7. ASSUME NEW t \in Tasks
      PROVE  /\ result'[t] # "none" => bgdl'[t] = "left"
             /\ bgdl'[t] # "left" =>
                  app'[t] = "none" /\ data'[t] = "none" /\ saved'[Wants[t].name] # t
  <2>1. CASE t = task BY <1>5, <2>1
  <2>2. CASE t # task
    <3>1. app'[t] = app[t] /\ data'[t] = data[t] BY <2>2
    <3>2. saved[Wants[t].name] # t => saved'[Wants[t].name] # t BY <1>0, <2>2
    <3> QED BY <1>5, <2>2, <3>1, <3>2 DEF ExportInv, ReturnInv
  <2> QED BY <2>1, <2>2
<1>8. ReturnInv' BY <1>0, <1>6, <1>7 DEF ReturnInv
<1> QED BY <1>1, <1>2, <1>4, <1>8 DEF ExportInv

(* Nothing the export or the application sees has changed. *)
LEMMA Stays ==
    ExportInv /\ UNCHANGED <<queueVars, exportVars>> => ExportInv'
<1> SUFFICES ASSUME ExportInv, UNCHANGED <<queueVars, exportVars>> PROVE ExportInv' OBVIOUS
<1> QED
  BY GoesOnSafe DEF queueVars, exportVars, fates, ExportInv, ExportTypes, ConsentInv, ReturnInv

(* Each step of ExportFilePatched. *)
LEMMA ExportingStep == ExportInv /\ Exporting => ExportInv'
<1> SUFFICES ASSUME ExportInv, Exporting PROVE ExportInv' OBVIOUS
<1> DEFINE Fate == UNCHANGED <<asking, turn, bgdl, param, result, app, data, saved, answer>>
<1>0. /\ show \in BOOLEAN /\ target \in BOOLEAN
      /\ unpacked \in [amount : {"none", "part", "whole"}, sfo : BOOLEAN]
      /\ step # "idle" => task \in Tasks /\ bgdl[task] = "loaded"
      /\ app \in [Tasks -> {"none", "part", "whole"}] /\ data \in [Tasks -> {"none", "part", "whole"}]
      /\ saved \in [Names -> {0} \cup Tasks] /\ answer \in [Tasks -> {"none", "install", "save"}]
  BY DEF ExportInv, ExportTypes, ReturnInv
<1>t. Empty \in [amount : {"none", "part", "whole"}, sfo : BOOLEAN] BY DEF Empty
<1>n. step # "idle" => app[task] = "none" /\ data[task] = "none" /\ saved[Wants[task].name] # task
  BY <1>0 DEF ExportInv, ReturnInv
<1>w. \A t \in Tasks : Wants[t].name \in Names /\ t \in Nat /\ t > 0 /\ Wants[t].vpk \in BOOLEAN
                       /\ Wants[t].params.show \in BOOLEAN /\ Wants[t].params.target \in BOOLEAN
  BY Wanted
<1>1. ASSUME NEW t \in Tasks, ExportFile(t) PROVE ExportInv'
  <2>1. /\ Fate /\ step = "idle" /\ step' = "pdb" /\ task' = t /\ bgdl[t] = "loaded"
        /\ UNCHANGED <<show, target, unpacked>>
    BY <1>1 DEF ExportFile, Go, KeepFile, KeepQueue, queueVars, fates
  <2>2. show BY <2>1 DEF ExportInv, ConsentInv
  <2> QED BY <1>0, <2>1, <2>2, GoesOnSafe
<1>2. CASE ReadPdb
  <2>1. step = "pdb" /\ UNCHANGED <<unpacked, app, data, saved, answer>> BY <1>2 DEF ReadPdb
  <2>2. CASE Return("error") BY <1>0, <1>n, <2>1, <2>2, Returns
  <2>3. CASE ~Return("error")
    <3>1. /\ Fate /\ step' \in {"params", "save"} /\ UNCHANGED <<task, show, target>>
      BY <1>2, <2>1, <2>3 DEF ReadPdb, Go, KeepFile, KeepQueue, queueVars
    <3>2. show BY <2>1 DEF ExportInv, ConsentInv
    <3> QED BY <1>0, <2>1, <3>1, <3>2, GoesOnSafe
  <2> QED BY <2>2, <2>3
<1>3. CASE ReadParams
  <2>1. /\ Fate /\ step = "params" /\ step' = "ask" /\ UNCHANGED <<task, unpacked>>
        /\ \/ /\ param[task] # "none" /\ Marked
              /\ show' \in Held(Now.params.show) /\ target' \in Held(Now.params.target)
           \/ param[task] # "none" /\ UNCHANGED <<show, target>>
           \/ target' = Now.vpk /\ UNCHANGED show
    BY <1>3 DEF ReadParams, Go, KeepQueue, queueVars, fates
  <2>2. show BY <2>1 DEF ExportInv, ConsentInv
  <2>3. /\ show' \in BOOLEAN /\ target' \in BOOLEAN
        /\ ~show' => Unasked(task)
    BY <1>0, <1>w, <2>1, <2>2 DEF Marked, Held, Now, Unasked
  <2> QED BY <1>0, <2>1, <2>2, <2>3, GoesOnSafe
<1>4. CASE Ask
  <2>1. /\ Fate /\ step = "ask" /\ UNCHANGED <<task, show, target, unpacked>>
        /\ IF show /\ target THEN step' \in {"save", "wait"} ELSE step' = "unpack"
    BY <1>4 DEF Ask, Go, KeepQueue, queueVars, fates
  <2>2. ~show => Unasked(task) BY <2>1 DEF ExportInv, ConsentInv
  <2>3. step' = "unpack" /\ target' => Agreed(task) BY <1>0, <2>1, <2>2 DEF Agreed
  <2> QED BY <1>0, <2>1, <2>3, GoesOnSafe
<1>5. CASE Answer
  <2>1. /\ step = "wait" /\ UNCHANGED <<task, show, target, unpacked, result, app, data, saved>>
        /\ UNCHANGED <<asking, turn, bgdl, param>>
    BY <1>5 DEF Answer, KeepQueue, queueVars
  <2>2. PICK a \in {"install", "save"} : /\ answer' = [answer EXCEPT ![task] = a]
                                        /\ step' = IF a = "install" THEN "unpack" ELSE "save"
    BY <1>5 DEF Answer, Go
  <2>3. QueueInv' BY <2>1 DEF ExportInv, QueueInv
  <2>4. ExportTypes' BY <1>0, <2>1, <2>2 DEF ExportInv, ExportTypes
  <2>5. ReturnTrue' BY <2>1 DEF ExportInv, ReturnInv, ReturnTrue, SavedHere
  <2>6. ReturnInv' BY <1>0, <2>1, <2>5 DEF ExportInv, ReturnInv
  <2>7. InstallConsented'
    <3> SUFFICES ASSUME NEW t \in Tasks, app[t] # "none"
                 PROVE  answer'[t] = "install" \/ (param[t] = "full" /\ ~Wants[t].params.show)
      BY <2>1 DEF InstallConsented
    <3>1. t # task BY <1>n, <2>1
    <3> QED BY <2>2, <3>1 DEF ExportInv, ConsentInv, InstallConsented
  <2>8. step' = "unpack" => answer'[task] = "install" BY <1>0, <2>1, <2>2
  <2>9. ConsentInv' BY <2>1, <2>2, <2>7, <2>8 DEF ConsentInv, Agreed
  <2> QED BY <2>3, <2>4, <2>6, <2>9 DEF ExportInv
<1>6. CASE UnpackBegin BY <1>6, Stays DEF UnpackBegin, KeepQueue
<1>7. CASE UnpackEnd
  <2>1. step = "unpack" /\ UNCHANGED <<app, saved, answer>> BY <1>7 DEF UnpackEnd
  <2>2. Amount \in {"part", "whole"} BY DEF Amount
  <2>3. CASE Return("error") /\ UNCHANGED <<unpacked, data>> BY <1>0, <1>n, <2>1, <2>3, Returns
  <2>6. CASE Return("error") /\ UNCHANGED unpacked /\ data' = [data EXCEPT ![task] = Amount]
    <3>1. data' \in [Tasks -> {"none", "part", "whole"}]
          /\ \A t \in Tasks \ {task} : data'[t] = data[t]
      BY <1>0, <2>1, <2>2, <2>6
    <3> QED BY <1>0, <1>n, <2>1, <2>6, <3>1, Returns
  <2>4. CASE Return("ok") /\ UNCHANGED unpacked /\ data' = [data EXCEPT ![task] = Amount]
    <3>1. data' \in [Tasks -> {"none", "part", "whole"}] /\ data'[task] # "none"
          /\ \A t \in Tasks \ {task} : data'[t] = data[t]
      BY <1>0, <2>1, <2>2, <2>4
    <3> QED BY <1>0, <1>n, <2>1, <2>4, <3>1, Returns
  <2>5. CASE /\ target /\ step' = "head" /\ UNCHANGED <<task, result, data, show, target, queueVars>>
             /\ unpacked' = [amount |-> Amount, sfo |-> HasSfo]
    <3>1. Agreed(task) BY <2>1, <2>5 DEF ExportInv, ConsentInv
    <3>2. HasSfo \in BOOLEAN BY DEF HasSfo
    <3>3. unpacked' \in [amount : {"none", "part", "whole"}, sfo : BOOLEAN] /\ unpacked'.amount # "none"
      BY <2>2, <2>5, <3>2
    <3>4. Fate BY <2>1, <2>5 DEF queueVars
    <3> QED BY <1>0, <2>1, <2>5, <3>1, <3>3, <3>4, GoesOnSafe
  <2> QED BY <1>7, <2>3, <2>4, <2>5, <2>6 DEF UnpackEnd, Go, KeepFile, KeepQueue
<1>8. CASE MakeHead
  <2>1. step = "head" /\ UNCHANGED <<app, data, saved, answer>> BY <1>8 DEF MakeHead
  <2>2. CASE Return("error") /\ unpacked' = Empty BY <1>0, <1>n, <1>t, <2>1, <2>2, Returns
  <2>3. CASE step' = "promote" /\ UNCHANGED <<task, result, unpacked, show, target, queueVars>>
    <3>1. Agreed(task) /\ unpacked.amount # "none" BY <2>1 DEF ExportInv, ConsentInv
    <3>2. Fate BY <2>1, <2>3 DEF queueVars
    <3> QED BY <1>0, <2>1, <2>3, <3>1, <3>2, GoesOnSafe
  <2> QED BY <1>8, <2>2, <2>3 DEF MakeHead, Go, KeepFile, KeepQueue
<1>9. CASE PromoteApp
  <2>1. step = "promote" /\ unpacked' = Empty /\ UNCHANGED <<data, saved, answer>>
    BY <1>9 DEF PromoteApp
  <2>2. Agreed(task) /\ unpacked.amount \in {"part", "whole"} BY <1>0, <2>1 DEF ExportInv, ConsentInv
  <2>3. CASE Return("error") /\ UNCHANGED app BY <1>0, <1>n, <1>t, <2>1, <2>3, Returns
  <2>4. ASSUME NEW r \in {"ok", "error"}, Return(r), Installed PROVE ExportInv'
    <3>1. app' = [app EXCEPT ![task] = unpacked.amount] BY <2>4 DEF Installed
    <3>2. app' \in [Tasks -> {"none", "part", "whole"}] /\ app'[task] # "none"
          /\ \A t \in Tasks \ {task} : app'[t] = app[t]
      BY <1>0, <2>1, <2>2, <3>1
    <3> QED BY <1>0, <1>n, <1>t, <2>1, <2>2, <2>4, <3>2, Returns
  <2> QED BY <1>9, <2>3, <2>4 DEF PromoteApp
<1>10. CASE SaveFile
  <2>1. step = "save" /\ UNCHANGED <<unpacked, app, data, answer>> BY <1>10 DEF SaveFile
  <2>2. task \in Tasks /\ Wants[task].name \in Names BY <1>0, <1>w, <2>1
  <2>3. CASE Return("error") /\ UNCHANGED saved BY <1>0, <1>n, <2>1, <2>3, Returns
  <2>4. CASE Return("ok") /\ saved' = [saved EXCEPT ![Wants[task].name] = task]
    <3>1. saved' \in [Names -> {0} \cup Tasks] /\ saved'[Wants[task].name] = task
          /\ \A t \in Tasks \ {task} :
                \/ saved'[Wants[t].name] = saved[Wants[t].name]
                \/ saved'[Wants[t].name] \in {0, task} /\ Wants[t].name = Wants[task].name
      BY <1>0, <2>2, <2>4
    <3> QED BY <1>0, <1>n, <2>1, <2>4, <3>1, Returns
  <2>5. CASE Return("error") /\ saved' = [saved EXCEPT ![Wants[task].name] = 0]
    <3>1. saved' \in [Names -> {0} \cup Tasks] /\ saved'[Wants[task].name] # task
          /\ \A t \in Tasks \ {task} :
                \/ saved'[Wants[t].name] = saved[Wants[t].name]
                \/ saved'[Wants[t].name] \in {0, task} /\ Wants[t].name = Wants[task].name
      BY <1>0, <1>w, <2>2, <2>5
    <3> QED BY <1>0, <1>n, <2>1, <2>5, <3>1, Returns
  <2> QED BY <1>10, <2>3, <2>4, <2>5 DEF SaveFile, Moved, Now
<1> QED
  BY <1>1, <1>2, <1>3, <1>4, <1>5, <1>6, <1>7, <1>8, <1>9, <1>10 DEF Exporting

LEMMA ExportStep == ExportInv /\ [Next]_vars => ExportInv'
<1> SUFFICES ASSUME ExportInv, [Next]_vars PROVE ExportInv' OBVIOUS
<1>1. CASE Exporting BY <1>1, ExportingStep
<1>2. CASE ZipStep /\ UNCHANGED <<queueVars, hookVars, exportVars>> BY <1>2, Stays
<1>3. CASE QueueNext /\ UNCHANGED <<zipVars, hookVars, exportVars>> BY <1>3, QueueStep
<1>4. CASE HookNext /\ UNCHANGED <<zipVars, queueVars>>
  <2>1. UNCHANGED exportVars
    BY <1>4 DEF HookNext, StartBegin, StartPatch, StopBegin, StopPatch
  <2> QED BY <1>4, <2>1, Stays
<1>5. CASE UNCHANGED vars BY <1>5, Stays DEF vars
<1> QED BY <1>1, <1>2, <1>3, <1>4, <1>5 DEF Next

LEMMA ExportInit == Init => ExportInv
<1> SUFFICES ASSUME Init PROVE ExportInv OBVIOUS
<1>w. \A t \in Tasks : t \in Nat /\ t > 0 /\ Wants[t].name \in Names BY Wanted
<1>1. QueueInv BY DEF Init, QueueInit, QueueInv
<1>2. ExportTypes BY DEF Init, ExportTypes, Empty
<1>3. ConsentInv BY DEF Init, ConsentInv, InstallConsented
<1>4. ReturnTrue BY <1>w DEF Init, ReturnTrue
<1>5. ReturnInv BY <1>w, <1>4 DEF Init, ReturnInv
<1> QED BY <1>1, <1>2, <1>3, <1>5 DEF ExportInv

(* What the export relies on, however the steps of the downloader, of the
   application and of the copies fall between its own. *)
THEOREM ExportInvariant == Spec => []ExportInv
BY ExportInit, ExportStep, PTL DEF Spec

(* Nothing is installed that the user was not asked about and did not agree to,
   unless a parameter file that was written to its end says not to ask
   (ExportFilePatched in source/main.c beside add_bgvpk_params). *)
THEOREM InstallConsentedHolds == Spec => []InstallConsented
<1>1. ExportInv => InstallConsented BY DEF ExportInv, ConsentInv
<1> QED BY <1>1, ExportInvariant, PTL

(* An export that reports success did one of the three things and only one, and
   one that reports an error did not save, nor both install and unpack. *)
THEOREM ReturnTrueHolds == Spec => []ReturnTrue
<1>1. ExportInv => ReturnTrue BY DEF ExportInv, ReturnInv
<1> QED BY <1>1, ExportInvariant, PTL

(***************************************************************************)
(* The search for the end record.                                          *)
(***************************************************************************)
(* The greatest of a set of places, 0 when there is none but 0. *)
IsTop(M, v) == v \in M \cup {0} /\ \A q \in M : q <= v
Top(M) == IF M = {} THEN 0 ELSE CHOOSE p \in M : \A q \in M : q <= p

(* A set of numbers that is not empty has a least one, and one with a bound a
   greatest. *)
LEMMA LeastNat ==
    ASSUME NEW T, T \subseteq Nat, T # {}
    PROVE  \E m \in T : \A k \in T : m <= k
<1>1. PICK m \in T : \A k \in T : ~(<<k, m>> \in OpToRel(<, Nat))
  <2>1. IsWellFoundedOn(OpToRel(<, Nat), Nat) BY NatLessThanWellFounded
  <2> DEFINE R == OpToRel(<, Nat)
  <2> HIDE DEF R
  <2>2. IsWellFoundedOn(R, Nat) BY <2>1 DEF R
  <2>3. \E x \in T : \A y \in T : ~ (<<y, x>> \in R) BY <2>2, WFMin
  <2> QED BY <2>3 DEF R
<1>2. ASSUME NEW k \in T PROVE m <= k
  <2>1. ~(<<k, m>> \in {ss \in Nat \X Nat : ss[1] < ss[2]}) BY <1>1 DEF OpToRel
  <2>2. ~(k < m) BY <2>1
  <2> QED BY <2>2
<1> QED BY <1>2

LEMMA GreatestNat ==
    ASSUME NEW n \in Nat, NEW M, M \subseteq 0 .. n, M # {}
    PROVE  \E p \in M : \A q \in M : q <= p
<1> DEFINE T == {n - p : p \in M}
<1>0. \A p \in M : p \in 0 .. n /\ n - p \in Nat OBVIOUS
<1>1. T \subseteq Nat /\ T # {} BY <1>0
<1>2. PICK m \in T : \A k \in T : m <= k BY <1>1, LeastNat
<1>3. PICK p \in M : m = n - p BY <1>2
<1>4. \A q \in M : m <= n - q BY <1>2
<1> QED BY <1>3, <1>4

LEMMA TopIsTop ==
    ASSUME NEW n \in Nat, NEW M, M \subseteq 0 .. n
    PROVE  IsTop(M, Top(M)) /\ Top(M) \in Nat
<1>1. CASE M = {} BY <1>1 DEF Top, IsTop
<1>2. CASE M # {}
  <2>1. \E p \in M : \A q \in M : q <= p BY <1>2, GreatestNat
  <2>2. Top(M) \in M /\ \A q \in M : q <= Top(M) BY <1>2, <2>1 DEF Top
  <2>3. Top(M) \in 0 .. n BY <2>2
  <2> QED BY <2>2, <2>3 DEF IsTop
<1> QED BY <1>1, <1>2

LEMMA TopUnique ==
    ASSUME NEW M, M \subseteq Nat, NEW v, NEW w, IsTop(M, v), IsTop(M, w)
    PROVE  v = w
BY DEF IsTop

(* The marks a search from x back finds, the last block reaching forward. *)
Reach(f, u, x) ==
    {p \in f.marks : f.size - u <= p /\ p + 4 <= f.size
                     /\ (p <= f.size - x \/ p <= f.size - u + Block)}
Far(f, u) == [x \in 0 .. u + Block + 4 |-> IF x >= u THEN 0 ELSE Top(Reach(f, u, x))]
Back(f, u, g) ==
    [x \in 0 .. u + Block + 4 |->
        IF x >= u THEN 0
        ELSE LET b == Min2(x + Block, u)
                 found == InBlock(f, f.size - b, Min2(Block + 4, b))
             IN IF found # 0 THEN found ELSE g[b]]

(* One block: either it has the mark that is looked for, or the rest has. *)
LEMMA BlockBack ==
    ASSUME NEW f \in [size : Nat, marks : SUBSET Nat], NEW u \in Nat, u <= f.size,
           Block \in Nat \ {0}, NEW x \in 0 .. u + Block + 4, x < u
    PROVE  /\ Min2(x + Block, u) \in 0 .. u + Block + 4 /\ Min2(x + Block, u) > x
           /\ LET b == Min2(x + Block, u)
                  found == InBlock(f, f.size - b, Min2(Block + 4, b))
              IN Top(Reach(f, u, x)) = IF found # 0 THEN found
                                       ELSE IF b >= u THEN 0 ELSE Top(Reach(f, u, b))
<1>s. PICK s \in Nat : s = f.size OBVIOUS
<1>m. PICK mm \in SUBSET Nat : mm = f.marks OBVIOUS
<1>b. PICK b \in Nat : b = Min2(x + Block, u) BY DEF Min2
<1>n. PICK n \in Nat : n = Min2(Block + 4, b) BY <1>b DEF Min2
<1>0. /\ b > x /\ b <= u /\ b <= x + Block /\ (b < u => b = x + Block) /\ u <= s
      /\ n <= b /\ n <= Block + 4 /\ (n = b \/ n = Block + 4)
  BY <1>s, <1>b, <1>n DEF Min2
<1>1. b \in 0 .. u + Block + 4 BY <1>0
<1>M. PICK M : M = {p \in mm : s - b <= p /\ p + 4 <= s - b + n} OBVIOUS
<1>2. InBlock(f, s - b, n) = Top(M) BY <1>m, <1>M DEF InBlock, MarksIn, Top
<1>R. PICK R : R = Reach(f, u, x) OBVIOUS
<1>S. PICK S : S = Reach(f, u, b) OBVIOUS
<1>3. /\ R = {p \in mm : s - u <= p /\ p + 4 <= s /\ (p <= s - x \/ p <= s - u + Block)}
      /\ S = {p \in mm : s - u <= p /\ p + 4 <= s /\ (p <= s - b \/ p <= s - u + Block)}
  BY <1>s, <1>m, <1>R, <1>S DEF Reach
<1>c. Block \in Nat /\ Block > 0 OBVIOUS
<1>d. \A p \in mm : p \in Nat OBVIOUS
<1>4. M \subseteq 0 .. s /\ R \subseteq 0 .. s /\ S \subseteq 0 .. s
  <2>1. ASSUME NEW p \in M PROVE p \in 0 .. s
    <3>1. p \in mm /\ p + 4 <= s - b + n BY <1>M
    <3>2. p \in Nat BY <1>d, <3>1
    <3> QED BY <1>0, <3>1, <3>2
  <2>2. ASSUME NEW p \in R PROVE p \in 0 .. s
    <3>1. p \in mm /\ p + 4 <= s BY <1>3
    <3>2. p \in Nat BY <1>d, <3>1
    <3> QED BY <3>1, <3>2
  <2>3. ASSUME NEW p \in S PROVE p \in 0 .. s
    <3>1. p \in mm /\ p + 4 <= s BY <1>3
    <3>2. p \in Nat BY <1>d, <3>1
    <3> QED BY <3>1, <3>2
  <2> QED BY <2>1, <2>2, <2>3
<1>n4. M \subseteq Nat /\ R \subseteq Nat /\ S \subseteq Nat BY <1>4
<1>5. IsTop(M, Top(M)) /\ IsTop(R, Top(R)) /\ IsTop(S, Top(S)) BY <1>4, TopIsTop
<1>6. M \subseteq R
  <2> SUFFICES ASSUME NEW p \in M PROVE p \in R OBVIOUS
  <2>1. p \in mm /\ p \in Nat /\ s - b <= p /\ p + 4 <= s - b + n BY <1>M, <1>d
  <2>2. s - u <= p /\ p + 4 <= s BY <1>0, <2>1
  <2>3. p <= s - x \/ p <= s - u + Block BY <1>0, <1>c, <2>1
  <2> QED BY <1>3, <2>1, <2>2, <2>3
<1>7. \A q \in R : q \in M \/ q < s - b
  <2> SUFFICES ASSUME NEW q \in R, q >= s - b PROVE q \in M BY <1>4
  <2>1. q \in mm /\ q \in Nat /\ q + 4 <= s /\ (q <= s - x \/ q <= s - u + Block) BY <1>3
  <2>2. q + 4 <= s - b + n BY <1>0, <2>1
  <2> QED BY <1>M, <2>1, <2>2
<1>8. CASE Top(M) # 0
  <2>1. Top(M) \in M /\ \A q \in M : q <= Top(M) BY <1>5, <1>8 DEF IsTop
  <2>2. Top(M) >= s - b /\ Top(M) \in Nat BY <1>M, <2>1
  <2>3. IsTop(R, Top(M)) BY <1>0, <1>4, <1>6, <1>7, <2>1, <2>2 DEF IsTop
  <2>4. Top(R) = Top(M) BY <1>n4, <1>5, <2>3, TopUnique
  <2> QED BY <1>0, <1>1, <1>2, <1>8, <1>R, <1>b, <1>n, <1>s, <2>4
<1>9. CASE Top(M) = 0
  <2>1. \A q \in M : q = 0 BY <1>4, <1>5, <1>9 DEF IsTop
  <2>2. \A q \in R : q = 0 \/ q < s - b BY <1>7, <2>1
  <2>3. CASE b = u
    <3>1. \A q \in R : q = 0 BY <1>3, <2>2, <2>3
    <3>2. IsTop(R, 0) BY <3>1 DEF IsTop
    <3>3. Top(R) = 0 BY <1>n4, <1>5, <3>2, TopUnique
    <3> QED BY <1>0, <1>1, <1>2, <1>9, <1>R, <1>b, <1>n, <1>s, <2>3, <3>3
  <2>4. CASE b < u
    <3>1. S \subseteq R
      <4> SUFFICES ASSUME NEW p \in S PROVE p \in R OBVIOUS
      <4>1. p \in mm /\ p \in Nat /\ s - u <= p /\ p + 4 <= s /\ (p <= s - b \/ p <= s - u + Block)
        BY <1>3, <1>d
      <4>2. p <= s - x \/ p <= s - u + Block BY <1>0, <4>1
      <4> QED BY <1>3, <4>1, <4>2
    <3>2. \A q \in R : q = 0 \/ q \in S BY <1>3, <2>2
    <3>3. Top(S) \in Nat BY <1>4, TopIsTop
    <3>4. IsTop(R, Top(S)) BY <1>5, <3>1, <3>2, <3>3 DEF IsTop
    <3>5. Top(R) = Top(S) BY <1>n4, <1>5, <3>4, TopUnique
    <3> QED BY <1>0, <1>1, <1>2, <1>9, <1>R, <1>S, <1>b, <1>n, <1>s, <2>4, <3>5
  <2> QED BY <1>0, <2>3, <2>4
<1> QED BY <1>5, <1>8, <1>9

(* The search has one answer for each place it may start from. *)
LEMMA SearchIs ==
    ASSUME NEW f \in [size : Nat, marks : SUBSET Nat], NEW u \in Nat, u <= f.size,
           Block \in Nat \ {0}, NEW g, g = Back(f, u, g)
    PROVE  g = Far(f, u)
<1> DEFINE N == u + Block + 4
<1>1. g = [x \in 0 .. N |-> g[x]] BY DEF Back
<1> DEFINE B == {x \in 0 .. N : g[x] # Far(f, u)[x]}
<1>2. B = {}
  <2> SUFFICES ASSUME B # {} PROVE FALSE OBVIOUS
  <2>0. N \in Nat OBVIOUS
  <2>1. PICK x \in B : \A y \in B : y <= x
    <3>1. B \subseteq 0 .. N OBVIOUS
    <3> HIDE DEF B, N
    <3> QED BY <2>0, <3>1, GreatestNat
  <2>2. x \in 0 .. u + Block + 4 /\ g[x] # Far(f, u)[x] OBVIOUS
  <2>3. CASE x >= u
    <3>1. Far(f, u)[x] = 0 BY <2>2, <2>3 DEF Far
    <3>2. Back(f, u, g)[x] = 0 BY <2>2, <2>3 DEF Back
    <3> QED BY <2>2, <3>1, <3>2
  <2>4. CASE x < u
    <3>b. PICK b : b = Min2(x + Block, u) OBVIOUS
    <3>f. PICK found : found = InBlock(f, f.size - b, Min2(Block + 4, b)) OBVIOUS
    <3>1. /\ b \in 0 .. u + Block + 4 /\ b > x
          /\ Top(Reach(f, u, x)) = IF found # 0 THEN found
                                   ELSE IF b >= u THEN 0 ELSE Top(Reach(f, u, b))
      BY <2>2, <2>4, <3>b, <3>f, BlockBack
    <3>2. Back(f, u, g)[x] = IF found # 0 THEN found ELSE g[b] BY <2>2, <2>4, <3>b, <3>f DEF Back
    <3>3. g[b] = Far(f, u)[b] BY <2>1, <2>2, <3>1
    <3>4. Far(f, u)[b] = IF b >= u THEN 0 ELSE Top(Reach(f, u, b)) BY <3>1 DEF Far
    <3>5. Far(f, u)[x] = Top(Reach(f, u, x)) BY <2>2, <2>4 DEF Far
    <3> QED BY <2>2, <3>1, <3>2, <3>3, <3>4, <3>5
  <2> QED BY <2>2, <2>3, <2>4
<1>3. Far(f, u) = [x \in 0 .. N |-> Far(f, u)[x]] BY DEF Far
<1>4. \A x \in 0 .. N : g[x] = Far(f, u)[x] BY <1>2
<1> HIDE DEF B, N
<1>5. [x \in 0 .. N |-> g[x]] = [x \in 0 .. N |-> Far(f, u)[x]] BY <1>4
<1> QED BY <1>1, <1>3, <1>5

(* Far is what the recursion of the search describes. *)
LEMMA SearchHasOne ==
    ASSUME NEW f \in [size : Nat, marks : SUBSET Nat], NEW u \in Nat, u <= f.size, Block \in Nat \ {0}
    PROVE  Far(f, u) = Back(f, u, Far(f, u))
<1>1. ASSUME NEW x \in 0 .. u + Block + 4
      PROVE  (IF x >= u THEN 0 ELSE Top(Reach(f, u, x)))
             = (IF x >= u THEN 0
                ELSE LET b == Min2(x + Block, u)
                         found == InBlock(f, f.size - b, Min2(Block + 4, b))
                     IN IF found # 0 THEN found ELSE Far(f, u)[b])
  <2>1. CASE x >= u BY <2>1
  <2>2. CASE x < u
    <3>b. PICK b : b = Min2(x + Block, u) OBVIOUS
    <3>f. PICK found : found = InBlock(f, f.size - b, Min2(Block + 4, b)) OBVIOUS
    <3>1. /\ b \in 0 .. u + Block + 4 /\ b > x
          /\ Top(Reach(f, u, x)) = IF found # 0 THEN found
                                   ELSE IF b >= u THEN 0 ELSE Top(Reach(f, u, b))
      BY <2>2, <3>b, <3>f, BlockBack
    <3>2. Far(f, u)[b] = IF b >= u THEN 0 ELSE Top(Reach(f, u, b)) BY <3>1 DEF Far
    <3> QED BY <2>2, <3>1, <3>2, <3>b, <3>f
  <2> QED BY <2>1, <2>2
<1> QED BY <1>1 DEF Far, Back

(* From four bytes before the end, that is the last mark within reach. *)
LEMMA SearchFindsLast ==
    ASSUME NEW f \in Layouts
    PROVE  ZipLocateCentralDir(f) =
             LET R == {p \in f.marks : f.size - MaxBack <= p /\ p + 4 <= f.size /\ p > 0}
             IN IF R = {} THEN 0 ELSE CHOOSE p \in R : \A q \in R : q <= p
<1>0. /\ f \in [size : Nat, marks : SUBSET Nat] /\ Block \in Nat \ {0}
      /\ MaxBack \in Nat /\ MaxBack > 4
  BY ZipAssumption
<1>u. PICK u \in Nat : u = Min2(MaxBack, f.size) /\ u <= f.size BY <1>0 DEF Min2
<1> DEFINE Rec(g) == g = [ubackread \in 0 .. Min2(MaxBack, f.size) + Block + 4 |->
                            IF ubackread >= Min2(MaxBack, f.size) THEN 0
                            ELSE LET b == Min2(ubackread + Block, Min2(MaxBack, f.size))
                                     found == InBlock(f, f.size - b, Min2(Block + 4, b))
                                 IN IF found # 0 THEN found ELSE g[b]]
<1>1. \A g : Rec(g) <=> g = Back(f, u, g) BY <1>u DEF Back
<1>2. ZipLocateCentralDir(f) = (CHOOSE g : Rec(g))[4] BY DEF ZipLocateCentralDir
<1>3. Rec(Far(f, u)) BY <1>0, <1>1, <1>u, SearchHasOne
<1> HIDE DEF Rec
<1>4. Rec(CHOOSE g : Rec(g)) BY <1>3
<1>5. (CHOOSE g : Rec(g)) = Far(f, u) BY <1>0, <1>1, <1>4, <1>u, SearchIs
<1>6. ZipLocateCentralDir(f) = IF 4 >= u THEN 0 ELSE Top(Reach(f, u, 4))
  <2>1. 4 \in 0 .. u + Block + 4 BY <1>0
  <2> QED BY <1>2, <1>5, <2>1 DEF Far
<1>R. PICK R : R = {p \in f.marks : f.size - MaxBack <= p /\ p + 4 <= f.size /\ p > 0} OBVIOUS
<1>7. R \subseteq 0 .. f.size BY <1>0, <1>R
<1>8. ZipLocateCentralDir(f) = Top(R)
  <2>1. CASE 4 >= u
    <3>1. f.size <= 4 BY <1>0, <1>u, <2>1 DEF Min2
    <3>2. R = {} BY <1>0, <1>R, <3>1
    <3> QED BY <1>6, <2>1, <3>2 DEF Top
  <2>2. CASE 4 < u
    <3>1. PICK S : S = Reach(f, u, 4) OBVIOUS
    <3>2. S \subseteq 0 .. f.size BY <1>0, <3>1 DEF Reach
    <3>3. IsTop(R, Top(R)) /\ Top(R) \in Nat /\ IsTop(S, Top(S)) BY <1>0, <1>7, <3>2, TopIsTop
    <3>4. R \subseteq S BY <1>0, <1>u, <1>R, <3>1 DEF Reach, Min2
    <3>5. \A q \in S : q = 0 \/ q \in R BY <1>0, <1>u, <1>R, <3>1 DEF Reach, Min2
    <3>6. IsTop(S, Top(R)) BY <3>3, <3>4, <3>5 DEF IsTop
    <3>7. S \subseteq Nat BY <1>0, <3>2
    <3>8. Top(S) = Top(R) BY <3>3, <3>6, <3>7, TopUnique
    <3> QED BY <1>6, <2>2, <3>1, <3>8
  <2> QED BY <1>0, <1>u, <2>1, <2>2
<1> QED BY <1>8, <1>R DEF Top

(* What the search found stands until the end record is read. *)
LocateInv == zpc = "locate" => layout \in Layouts /\ centralpos = ZipLocateCentralDir(layout)

(* The search for the end record (ZipLocateCentralDir in source/Archives.c)
   finds the last mark within reach, in every file and for every size of the
   blocks it reads. *)
THEOREM LocatedLastHolds == Spec => []LocatedLast
<1>1. Init => LocateInv BY DEF Init, ZipInit, LocateInv
<1>2. ASSUME LocateInv, [Next]_vars PROVE LocateInv'
  <2>1. CASE ZipLocate
    <3>1. layout' \in Layouts /\ centralpos' = ZipLocateCentralDir(layout') BY <2>1 DEF ZipLocate
    <3> QED BY <3>1 DEF LocateInv
  <2>2. CASE UNCHANGED zipVars BY <1>2, <2>2 DEF zipVars, LocateInv
  <2>3. CASE zpc' # "locate" BY <2>3 DEF LocateInv
  <2>4. ZipStep => zpc' # "locate"
    BY DEF ZipStep, ZipOpenFound, ZipExtract, Info, AllocTmp, ZipOpenCurrentFile, OpenOut, ReadBegin,
           Refill, Copy, DataEnds, DataBad, ReadEnd, ReadReturns, ReadFails, Reading, Flush, FlushLast, CloseEntry,
           NextEntry, WriteOut
  <2> QED
    BY <1>2, <2>1, <2>2, <2>3, <2>4
    DEF Next, Exporting, ExportFile, ReadPdb, ReadParams, Ask, Answer, UnpackBegin, UnpackEnd, MakeHead,
        PromoteApp, SaveFile, Keep, vars, HookNext
<1>3. LocateInv => LocatedLast
  <2> SUFFICES ASSUME LocateInv, zpc = "locate" PROVE LocatedLast BY DEF LocatedLast
  <2>1. layout \in Layouts /\ centralpos = ZipLocateCentralDir(layout) BY DEF LocateInv
  <2> QED BY <2>1, SearchFindsLast DEF LocatedLast
<1> QED BY <1>1, <1>2, <1>3, PTL DEF Spec

(***************************************************************************)
(* The walk over an archive.                                               *)
(***************************************************************************)
Busy == {"info", "alloc", "open", "fopen", "read", "copy", "write", "last", "close", "next"}
InFile == {"read", "copy", "write", "last"}
Codes == {OK, EOF_LIST, ERRNO, PARAM_ERROR, BAD_FILE, INTERNAL_ERROR, CRC_ERROR}

(* Where the reader is and what it holds of the archive. *)
PlaceInv ==
    /\ zpc \in {"off", "locate", "ready", "ret"} \cup Busy
    /\ zip \in {"none", "open"} /\ cd \in Archives \cup {<<>>}
    /\ zpc \in {"off", "locate"} \/ (zpc = "ready" /\ zip = "none") => cd = <<>>
    /\ numfile \in 0 .. MaxEntries /\ i \in 0 .. MaxEntries /\ currentfileok \in BOOLEAN
    /\ faults \in BOOLEAN /\ held \subseteq {"handle", "tmp", "info", "in"}
    /\ err \in Codes /\ entryerr \in Codes
    /\ zpc \in {"off", "locate", "ready"} => numfile = 0 /\ i = 0
    /\ zpc \in Busy => numfile <= i /\ i + 1 <= Len(cd) /\ (currentfileok => numfile = i)

(* What has become of the entries. *)
DiskInv ==
    /\ disk \in [1 .. MaxEntries -> [kind : {"none", "dir", "file"}, data : Seq(Nat)]]
    /\ fout \in {"none", "null", "open"} /\ (zpc \in InFile <=> fout # "none")
    /\ zpc \in Busy =>
         /\ \A k \in 1 .. MaxEntries : k > numfile + 1 => disk[k].kind = "none"
         /\ zpc \in {"open", "fopen"} => disk[Entered].kind = "none"
         /\ zpc \in {"info", "alloc"} \/ (zpc = "next" /\ entryerr = OK /\ ~currentfileok) =>
              disk[Entered].kind = "none" \/ cd[Entered].dir
         /\ fout = "open" => disk[Entered].kind # "none"

(* The entry that is read and the buffers it goes through. *)
BufferInv ==
    /\ cur \in [e : 0 .. MaxEntries, restc : Nat, restu : Nat, avail : 0 .. InSize]
    /\ buf \in Seq(Nat) /\ fresh \in Seq(Nat) /\ avail_out \in Nat
    /\ Len(buf) + Len(fresh) + avail_out <= OutSize
    /\ zpc # "copy" => fresh = <<>> /\ avail_out = 0
    /\ zpc \notin InFile \cup {"fopen", "close"} => cur.e = 0
    /\ cur.e # 0 => cur.e = Entered /\ currentfileok /\ cur.restu <= cd[cur.e].size
    /\ zpc = "copy" => cur.e # 0 /\ avail_out <= cur.restu

ZipInv == PlaceInv /\ DiskInv /\ BufferInv

(* The numbers that follow a. *)
Counts(s, a) == \A u \in 1 .. Len(s) : s[u] = a + u

(* A sound archive, and nothing has failed. *)
Fine == ~faults /\ \A k \in DOMAIN cd : Sound(cd[k])

(* Between the archive and the file nothing is lost, repeated or swapped: what
   is on the disk, what waits in the buffer and what has just been copied are
   the file from its first unit on, and the rest is still to come. *)
Streams(d, b, f, rest, size) ==
    /\ Counts(d, 0) /\ Counts(b, Len(d)) /\ Counts(f, Len(d) + Len(b))
    /\ Len(d) + Len(b) + Len(f) + rest = size
Flows ==
    /\ disk[Entered].kind = "file"
    /\ Streams(disk[Entered].data, buf, fresh, cur.restu, cd[Entered].size)

FineBody ==
    /\ err = OK
    /\ zpc = "ready" => zip = "open" /\ (currentfileok <=> Len(cd) > 0)
    /\ zpc = "ret" => AllWhole
    /\ zpc \in Busy => currentfileok /\ \A k \in 1 .. numfile : WholeFile(k)
    /\ zpc \in {"next", "close"} => WholeFile(Entered)
    /\ zpc = "next" => entryerr = OK
    /\ zpc \in {"open", "fopen"} => buf = <<>>
    /\ zpc \in InFile \cup {"open", "fopen", "close"} => ~cd[Entered].dir
    /\ zpc \in InFile \cup {"fopen", "close"} => cur.e = Entered /\ cur.restc + cur.avail = cur.restu
    /\ zpc = "fopen" => cur.restu = cd[Entered].size
    /\ zpc \in InFile => fout = "open" /\ Flows
    /\ zpc \in {"read", "copy"} => Len(buf) < OutSize
    /\ zpc = "copy" /\ fresh = <<>> => avail_out = Min2(OutSize - Len(buf), cur.restu)
    /\ zpc = "last" => cur.restu = 0
FineInv ==
    /\ zpc \in {"off", "locate"} => err = OK
    /\ Fine /\ zpc \notin {"off", "locate"} => FineBody

(* What the plugin does to the reader: it has an archive opened, goes on, and
   has it closed. *)
Opening ==
    zpc = "off" /\ ZipLocate
    /\ UNCHANGED <<zip, walk, reading, err, entryerr, fout, disk, held, faults>>
Closing ==
    /\ zpc = "ret" /\ zpc' = "off" /\ ZipClose /\ i' = 0 /\ err' = OK /\ entryerr' = OK
    /\ buf' = <<>> /\ fresh' = <<>> /\ avail_out' = 0 /\ disk' = Blank /\ faults' = FALSE
    /\ UNCHANGED fout

LEMMA ZipMoves == [Next]_vars => Opening \/ Closing \/ ZipStep \/ UNCHANGED zipVars
<1>1. UnpackBegin => Opening BY DEF UnpackBegin, Opening
<1>2. UnpackEnd => Closing BY DEF UnpackEnd, Closing
<1>3. Exporting => UnpackBegin \/ UnpackEnd \/ UNCHANGED zipVars
  BY DEF Exporting, ExportFile, ReadPdb, ReadParams, Ask, Answer, MakeHead, PromoteApp, SaveFile, Keep
<1> QED BY <1>1, <1>2, <1>3 DEF Next, vars

(* The entry the walk is at is one of the archive's. *)
LEMMA EntryAt ==
    ASSUME PlaceInv
    PROVE  /\ MaxEntries \in Nat /\ InSize \in Nat \ {0} /\ OutSize \in Nat \ {0}
           /\ cd \in Seq(Entry) /\ Len(cd) \in 0 .. MaxEntries
           /\ \A k \in 1 .. Len(cd) : cd[k] \in Entry
           /\ zpc \in Busy => Entered \in 1 .. Len(cd) /\ Entered \in 1 .. MaxEntries
<1>0. MaxEntries \in Nat /\ InSize \in Nat \ {0} /\ OutSize \in Nat \ {0} BY ZipAssumption
<1>1. cd \in Seq(Entry) /\ Len(cd) \in 0 .. MaxEntries
  <2>1. CASE cd \in Archives
    <3>1. cd \in Seq(Entry) /\ Len(cd) <= MaxEntries BY <2>1, ZipAssumption
    <3> QED BY <1>0, <3>1
  <2>2. CASE cd = <<>>
    <3>1. Len(cd) = 0 BY <2>2
    <3>2. cd \in Seq(Entry) BY <2>2
    <3> QED BY <1>0, <3>1, <3>2
  <2> QED BY <2>1, <2>2 DEF PlaceInv
<1>2. \A k \in 1 .. Len(cd) : cd[k] \in Entry BY <1>1
<1>3. ASSUME zpc \in Busy PROVE Entered \in 1 .. Len(cd) /\ Entered \in 1 .. MaxEntries
  BY <1>0, <1>1, <1>3 DEF PlaceInv, Entered
<1> QED BY <1>0, <1>1, <1>2, <1>3

LEMMA PlaceStep == PlaceInv /\ (Opening \/ Closing \/ ZipStep \/ UNCHANGED zipVars) => PlaceInv'
<1> SUFFICES ASSUME PlaceInv, Opening \/ Closing \/ ZipStep \/ UNCHANGED zipVars PROVE PlaceInv'
  OBVIOUS
<1> USE DEF Busy, Codes
<1>0. MaxEntries \in Nat /\ Len(cd) \in 0 .. MaxEntries BY EntryAt
<1>e. Len(<<>>) = 0 OBVIOUS
<1>1. CASE Opening BY <1>1 DEF Opening, ZipLocate, walk, PlaceInv
<1>2. CASE Closing
  <2>1. /\ zpc' = "off" /\ zip' = "none" /\ cd' = <<>> /\ numfile' = 0 /\ i' = 0 /\ currentfileok' = FALSE
        /\ err' = OK /\ entryerr' = OK /\ faults' = FALSE
    BY <1>2 DEF Closing, ZipClose
  <2>2. held' \subseteq held BY <1>2 DEF Closing, ZipClose, CurReleased
  <2>3. held' \subseteq {"handle", "tmp", "info", "in"} BY <2>2 DEF PlaceInv
  <2>4. numfile' \in 0 .. MaxEntries /\ i' \in 0 .. MaxEntries BY <1>0, <2>1
  <2> QED BY <2>1, <2>3, <2>4 DEF PlaceInv
<1>3. CASE UNCHANGED zipVars BY <1>3 DEF zipVars, walk, reading, PlaceInv
<1>4. CASE ZipOpenFound
  <2>1. /\ zpc = "locate" /\ zpc' = "ready" /\ UNCHANGED <<i, err, entryerr>>
        /\ \/ zip' = "open" /\ held' = {"handle"} /\ cd' \in Archives /\ numfile' = 0
           \/ zip' = "none" /\ cd' = <<>> /\ UNCHANGED <<numfile, held>>
        /\ currentfileok' \in BOOLEAN /\ faults' \in BOOLEAN
    BY <1>4 DEF ZipOpenFound, PlaceInv
  <2> QED BY <1>0, <2>1 DEF PlaceInv
<1>5. CASE ZipExtract
  <2>1. /\ zpc = "ready" /\ i' = 0 /\ UNCHANGED <<zip, cd, numfile, currentfileok, entryerr, held, faults>>
        /\ \/ zip = "open" /\ Len(cd) > 0 /\ zpc' = "info" /\ err' = OK
           \/ zpc' = "ret" /\ err' \in {OK, PARAM_ERROR}
    BY <1>5 DEF ZipExtract
  <2> QED BY <1>0, <2>1 DEF PlaceInv
<1>6. CASE Info
  <2>1. /\ zpc = "info" /\ zpc' \in {"alloc", "next"} /\ entryerr' \in Codes
        /\ UNCHANGED <<zip, cd, i, numfile, currentfileok, err, held>> /\ faults' \in BOOLEAN
    BY <1>6 DEF Info, InfoRead, walk, PlaceInv
  <2> QED BY <2>1 DEF PlaceInv
<1>7. CASE AllocTmp
  <2>1. /\ zpc = "alloc" /\ zpc' \in {"open", "next"} /\ entryerr' \in Codes
        /\ UNCHANGED <<zip, cd, i, numfile, currentfileok, err>> /\ faults' \in BOOLEAN
        /\ held' \subseteq {"handle", "tmp", "info", "in"}
    BY <1>7 DEF AllocTmp, walk, PlaceInv
  <2> QED BY <2>1 DEF PlaceInv
<1>8. CASE ZipOpenCurrentFile
  <2>1. /\ zpc = "open" /\ zpc' = "fopen" /\ UNCHANGED <<zip, cd, i, numfile, currentfileok, err, entryerr>>
        /\ faults' \in BOOLEAN /\ held' \subseteq {"handle", "tmp", "info", "in"}
    BY <1>8 DEF ZipOpenCurrentFile, walk, PlaceInv
  <2> QED BY <2>1 DEF PlaceInv
<1>9. CASE OpenOut
  <2>1. /\ zpc = "fopen" /\ zpc' = "read" /\ faults' \in BOOLEAN
        /\ UNCHANGED <<zip, cd, i, numfile, currentfileok, err, entryerr, held>>
    BY <1>9 DEF OpenOut, walk, PlaceInv
  <2> QED BY <2>1 DEF PlaceInv
<1>10. CASE ReadBegin
  BY <1>10 DEF ReadBegin, walk, PlaceInv
<1>11. CASE Refill \/ Copy \/ DataEnds \/ DataBad \/ ReadEnd
  <2>1. /\ zpc = "copy" /\ zpc' \in {"copy", "last", "write"} /\ KeepCopy /\ faults' \in BOOLEAN
    BY <1>11 DEF Refill, Copy, DataEnds, DataBad, ReadEnd, Reading, ReadFails, ReadReturns, PlaceInv
  <2> QED BY <2>1 DEF KeepCopy, walk, PlaceInv
<1>12. CASE Flush \/ FlushLast
  <2>1. /\ zpc \in {"write", "last"} /\ zpc' \in {"read", "close"} /\ faults' \in BOOLEAN
        /\ UNCHANGED <<zip, cd, i, numfile, currentfileok, err, entryerr, held>>
    BY <1>12 DEF Flush, FlushLast, WriteOut, walk, PlaceInv
  <2> QED BY <2>1 DEF PlaceInv
<1>13. CASE CloseEntry
  <2>1. /\ zpc = "close" /\ zpc' = "next" /\ entryerr' \in Codes
        /\ UNCHANGED <<zip, cd, i, numfile, currentfileok, err, faults>>
        /\ held' \subseteq {"handle", "tmp", "info", "in"}
    BY <1>13 DEF CloseEntry, CloseResult, CurReleased, walk, PlaceInv
  <2> QED BY <2>1 DEF PlaceInv
<1>14. CASE NextEntry
  <2>1. /\ zpc = "next" /\ UNCHANGED <<zip, cd, entryerr, held>> BY <1>14 DEF NextEntry
  <2>2. CASE entryerr # OK \/ i + 1 = Len(cd)
    BY <1>14, <2>1, <2>2 DEF NextEntry, PlaceInv
  <2>3. CASE ~(entryerr # OK \/ i + 1 = Len(cd))
    <3>1. zpc' = "info" /\ i' = i + 1 /\ GotoNext BY <1>14, <2>3 DEF NextEntry
    <3>2. /\ currentfileok' \in BOOLEAN /\ faults' \in BOOLEAN /\ err' \in Codes
          /\ \/ numfile' = numfile /\ currentfileok' = currentfileok
                /\ (~currentfileok \/ numfile + 1 = Len(cd))
             \/ numfile' = numfile + 1 /\ currentfileok
      BY <3>1 DEF GotoNext, InfoRead, PlaceInv
    <3>3. numfile \in Nat /\ i \in Nat /\ numfile <= i /\ i + 1 <= Len(cd) /\ i + 1 # Len(cd)
          /\ (currentfileok => numfile = i)
      BY <1>0, <2>1, <2>3 DEF PlaceInv
    <3>4. i' + 1 <= Len(cd) /\ numfile' <= i' /\ (currentfileok' => numfile' = i')
          /\ i' \in 0 .. MaxEntries /\ numfile' \in 0 .. MaxEntries
      BY <1>0, <3>1, <3>2, <3>3
    <3> QED BY <2>1, <3>1, <3>2, <3>4 DEF PlaceInv
  <2> QED BY <2>2, <2>3
<1> QED
  BY <1>1, <1>2, <1>3, <1>4, <1>5, <1>6, <1>7, <1>8, <1>9, <1>10, <1>11, <1>12, <1>13, <1>14 DEF ZipStep

OnDisk == [kind : {"none", "dir", "file"}, data : Seq(Nat)]

LEMMA BlankIs == /\ Blank \in [1 .. MaxEntries -> OnDisk]
                 /\ \A k \in 1 .. MaxEntries : Blank[k].kind = "none"
<1>1. <<>> \in Seq(Nat) OBVIOUS
<1>2. Nothing \in OnDisk BY <1>1 DEF Nothing, OnDisk
<1> QED BY <1>2 DEF Blank, Nothing

(* What one step does to the disk. *)
Rewrites(k, r) == r \in OnDisk /\ disk' = [disk EXCEPT ![k] = r]

LEMMA Rewritten ==
    ASSUME disk \in [1 .. MaxEntries -> OnDisk], NEW k \in 1 .. MaxEntries, NEW r, Rewrites(k, r)
    PROVE  /\ disk' \in [1 .. MaxEntries -> OnDisk] /\ disk'[k] = r
           /\ \A j \in 1 .. MaxEntries : j # k => disk'[j] = disk[j]
BY DEF Rewrites

(* Whatever is written, it goes behind what the entry has. *)
LEMMA WritesOut ==
    ASSUME ZipInv, zpc \in {"write", "last"}, NEW to, WriteOut(to)
    PROVE  /\ zpc' = to /\ buf' = <<>> /\ faults' \in BOOLEAN
           /\ \/ disk' = disk
              \/ fout = "open" /\ \E x \in Seq(Nat) :
                   /\ Rewrites(Entered, [kind |-> disk[Entered].kind, data |-> disk[Entered].data \o x])
                   /\ ~faults' => x = buf
           /\ ~faults' /\ fout = "open" =>
                Rewrites(Entered, [kind |-> disk[Entered].kind, data |-> disk[Entered].data \o buf])
<1>1. zpc \in Busy /\ PlaceInv BY DEF Busy, ZipInv
<1>2. Entered \in 1 .. MaxEntries BY <1>1, EntryAt
<1>3. PICK r \in OnDisk : r = disk[Entered] BY <1>2 DEF ZipInv, DiskInv, OnDisk
<1>4. buf \in Seq(Nat) /\ faults \in BOOLEAN BY DEF ZipInv, BufferInv, PlaceInv
<1>5. ASSUME NEW x \in Seq(Nat), disk' = [disk EXCEPT ![Entered].data = @ \o x]
      PROVE  Rewrites(Entered, [kind |-> disk[Entered].kind, data |-> disk[Entered].data \o x])
  <2>1. r = [kind |-> r.kind, data |-> r.data] /\ r.data \in Seq(Nat)
    /\ r.kind \in {"none", "dir", "file"}
    BY <1>3 DEF OnDisk
  <2>d. PICK d \in Seq(Nat) : d = r.data BY <2>1
  <2>2. PICK y \in Seq(Nat) : y = r.data \o x
    <3>1. d \o x \in Seq(Nat) OBVIOUS
    <3> QED BY <2>d, <3>1
  <2>q. PICK q : q = [r EXCEPT !.data = y] OBVIOUS
  <2>6. q \in OnDisk /\ q.kind = r.kind /\ q.data = y BY <2>q, <1>3 DEF OnDisk
  <2>7. q = [kind |-> q.kind, data |-> q.data] BY <2>6 DEF OnDisk
  <2>3. [r EXCEPT !.data = y] = [kind |-> r.kind, data |-> y] BY <2>q, <2>6, <2>7
  <2>4. [kind |-> r.kind, data |-> y] \in OnDisk BY <2>1 DEF OnDisk
  <2>5. disk' = [disk EXCEPT ![Entered] = [r EXCEPT !.data = y]] BY <1>3, <1>5, <2>2
  <2> QED BY <1>3, <2>2, <2>3, <2>4, <2>5 DEF Rewrites
<1>6. CASE fout = "open" /\ UNCHANGED faults /\ disk' = [disk EXCEPT ![Entered].data = @ \o buf]
  <2>1. Rewrites(Entered, [kind |-> disk[Entered].kind, data |-> disk[Entered].data \o buf])
    BY <1>4, <1>5, <1>6
  <2> QED BY <1>4, <1>6, <2>1 DEF WriteOut
<1>7. CASE fout = "open" /\ faults' = TRUE
           /\ \E n \in 0 .. Len(buf) - 1 :
                 disk' = [disk EXCEPT ![Entered].data = @ \o SubSeq(buf, 1, n)]
  <2>1. PICK n \in 0 .. Len(buf) - 1 : disk' = [disk EXCEPT ![Entered].data = @ \o SubSeq(buf, 1, n)]
    BY <1>7
  <2>2. PICK x \in Seq(Nat) : x = SubSeq(buf, 1, n)
    <3>1. n \in Nat /\ Len(buf) \in Nat /\ n <= Len(buf) BY <1>4
    <3>2. \A k \in 1 .. n : buf[k] \in Nat BY <1>4, <3>1
    <3>3. SubSeq(buf, 1, n) \in Seq(Nat) BY <1>4, <3>1, <3>2
    <3> QED BY <3>3
  <2>3. disk' = [disk EXCEPT ![Entered].data = @ \o x] BY <2>1, <2>2
  <2>4. Rewrites(Entered, [kind |-> disk[Entered].kind, data |-> disk[Entered].data \o x])
    BY <1>5, <2>3
  <2> QED BY <1>7, <2>4 DEF WriteOut
<1>8. CASE fout = "null" /\ UNCHANGED <<disk, faults>> BY <1>4, <1>8 DEF WriteOut
<1> QED BY <1>6, <1>7, <1>8 DEF WriteOut

LEMMA DiskStep == ZipInv /\ (Opening \/ Closing \/ ZipStep \/ UNCHANGED zipVars) => DiskInv'
<1> SUFFICES ASSUME ZipInv, Opening \/ Closing \/ ZipStep \/ UNCHANGED zipVars PROVE DiskInv'
  OBVIOUS
<1> USE DEF Busy, InFile
<1>0. /\ MaxEntries \in Nat /\ disk \in [1 .. MaxEntries -> OnDisk]
      /\ fout \in {"none", "null", "open"} /\ (zpc \in InFile <=> fout # "none")
      /\ numfile \in Nat
  BY EntryAt DEF ZipInv, PlaceInv, DiskInv, OnDisk
<1>b. zpc \in Busy => /\ \A k \in 1 .. MaxEntries : k > numfile + 1 => disk[k].kind = "none"
                      /\ zpc \in {"open", "fopen"} => disk[Entered].kind = "none"
                      /\ zpc \in {"info", "alloc"} \/ (zpc = "next" /\ entryerr = OK /\ ~currentfileok) =>
                           disk[Entered].kind = "none" \/ cd[Entered].dir
                      /\ fout = "open" => disk[Entered].kind # "none"
                      /\ Entered \in 1 .. MaxEntries
  BY EntryAt DEF ZipInv, DiskInv
<1>k. \A e \in 1 .. MaxEntries : disk[e] \in OnDisk BY <1>0
<1>1. CASE Opening
  BY <1>0, <1>1 DEF Opening, ZipLocate, DiskInv, OnDisk
<1>2. CASE Closing
  <2>1. zpc' = "off" /\ disk' = Blank /\ fout' = fout /\ fout = "none"
    BY <1>0, <1>2 DEF Closing
  <2>2. disk' \in [1 .. MaxEntries -> OnDisk] BY <2>1, BlankIs
  <2> QED BY <2>1, <2>2 DEF DiskInv, OnDisk
<1>3. CASE UNCHANGED zipVars
  BY <1>3 DEF zipVars, walk, reading, ZipInv, DiskInv, Entered
<1>4. CASE ZipOpenFound
  BY <1>0, <1>4 DEF ZipOpenFound, DiskInv, OnDisk
<1>5. CASE ZipExtract
  <2>1. zpc = "ready" /\ zpc' \in {"info", "ret"} /\ disk' = Blank /\ UNCHANGED <<numfile, fout>>
    BY <1>5 DEF ZipExtract
  <2>2. fout = "none" /\ numfile = 0 BY <1>0, <2>1 DEF ZipInv, PlaceInv
  <2>3. disk' \in [1 .. MaxEntries -> OnDisk] BY <2>1, BlankIs
  <2>4. zpc' = "info" => disk'[Entered'].kind = "none"
    <3>1. zpc' = "info" => Entered' \in 1 .. MaxEntries
      <4>1. zpc' = "info" => Len(cd) > 0 BY <1>5 DEF ZipExtract
      <4>2. Len(cd) <= MaxEntries /\ Len(cd) \in Nat BY EntryAt DEF ZipInv
      <4> QED BY <1>0, <2>1, <2>2, <4>1, <4>2 DEF Entered
    <3> QED BY <2>1, <3>1, BlankIs
  <2> QED BY <2>1, <2>2, <2>3, <2>4, BlankIs DEF DiskInv, OnDisk
<1>6. CASE Info
  <2>1. /\ zpc = "info" /\ UNCHANGED <<cd, numfile, currentfileok, fout, disk>>
        /\ zpc' = "alloc" \/ (zpc' = "next" /\ entryerr' = ERRNO)
    BY <1>6 DEF Info, walk
  <2> QED BY <1>0, <1>b, <2>1 DEF DiskInv, OnDisk, Entered, ERRNO, OK
<1>7. CASE AllocTmp
  <2>1. zpc = "alloc" /\ UNCHANGED <<cd, numfile, currentfileok, fout>> BY <1>7 DEF AllocTmp, walk
  <2>2. CASE zpc' = "next" /\ entryerr' = OK /\ UNCHANGED disk
    BY <1>0, <1>b, <2>1, <2>2 DEF DiskInv, OnDisk, Entered
  <2>3. CASE cd[Entered].dir /\ zpc' = "next" /\ disk' = [disk EXCEPT ![Entered].kind = "dir"]
    <3>1. PICK r \in OnDisk : r = disk[Entered] BY <1>b, <1>k, <2>1
    <3>2. [r EXCEPT !.kind = "dir"] \in OnDisk BY DEF OnDisk
    <3>3. Rewrites(Entered, [r EXCEPT !.kind = "dir"]) BY <2>3, <3>1, <3>2 DEF Rewrites
    <3>4. /\ disk' \in [1 .. MaxEntries -> OnDisk]
          /\ \A j \in 1 .. MaxEntries : j # Entered => disk'[j] = disk[j]
      BY <1>0, <1>b, <2>1, <3>3, Rewritten
    <3> QED BY <1>0, <1>b, <2>1, <2>3, <3>4 DEF DiskInv, OnDisk, Entered
  <2>4. CASE ~cd[Entered].dir /\ zpc' = "open" /\ UNCHANGED disk
    BY <1>0, <1>b, <2>1, <2>4 DEF DiskInv, OnDisk, Entered
  <2> QED BY <1>7, <2>2, <2>3, <2>4 DEF AllocTmp
<1>8. CASE ZipOpenCurrentFile
  <2>1. zpc = "open" /\ zpc' = "fopen" /\ UNCHANGED <<cd, numfile, currentfileok, fout, disk>>
    BY <1>8 DEF ZipOpenCurrentFile, walk
  <2> QED BY <1>0, <1>b, <2>1 DEF DiskInv, OnDisk, Entered
<1>9. CASE OpenOut
  <2>1. zpc = "fopen" /\ zpc' = "read" /\ UNCHANGED <<cd, numfile, currentfileok>>
    BY <1>9 DEF OpenOut, walk
  <2>2. CASE fout' = "open" /\ disk' = [disk EXCEPT ![Entered] = [kind |-> "file", data |-> <<>>]]
    <3>1. PICK r : r = [kind |-> "file", data |-> <<>>] OBVIOUS
    <3>2. <<>> \in Seq(Nat) OBVIOUS
    <3>3. r \in OnDisk /\ r.kind = "file" BY <3>1, <3>2 DEF OnDisk
    <3>4. Rewrites(Entered, r) BY <2>2, <3>1, <3>3 DEF Rewrites
    <3>5. /\ disk' \in [1 .. MaxEntries -> OnDisk] /\ disk'[Entered] = r
          /\ \A j \in 1 .. MaxEntries : j # Entered => disk'[j] = disk[j]
      BY <1>0, <1>b, <2>1, <3>4, Rewritten
    <3> QED BY <1>0, <1>b, <2>1, <2>2, <3>3, <3>5 DEF DiskInv, OnDisk, Entered
  <2>3. CASE fout' = "null" /\ disk' = [disk EXCEPT ![Entered].kind = Uncreated(cd[Entered])]
    <3>1. PICK r \in OnDisk : r = disk[Entered] BY <1>b, <1>k, <2>1
    <3>2. [r EXCEPT !.kind = Uncreated(cd[Entered])] \in OnDisk BY DEF OnDisk, Uncreated
    <3>3. Rewrites(Entered, [r EXCEPT !.kind = Uncreated(cd[Entered])]) BY <2>3, <3>1, <3>2 DEF Rewrites
    <3>4. /\ disk' \in [1 .. MaxEntries -> OnDisk]
          /\ \A j \in 1 .. MaxEntries : j # Entered => disk'[j] = disk[j]
      BY <1>0, <1>b, <2>1, <3>3, Rewritten
    <3> QED BY <1>0, <1>b, <2>1, <2>3, <3>4 DEF DiskInv, OnDisk, Entered
  <2> QED BY <1>9, <2>2, <2>3 DEF OpenOut
<1>10. CASE ReadBegin
  <2>1. zpc = "read" /\ zpc' \in {"last", "copy"} /\ UNCHANGED <<cd, numfile, currentfileok, fout, disk>>
    BY <1>10 DEF ReadBegin, walk
  <2> QED BY <1>0, <1>b, <2>1 DEF DiskInv, OnDisk, Entered
<1>11. CASE Refill \/ Copy \/ DataEnds \/ DataBad \/ ReadEnd
  <2>1. /\ zpc = "copy" /\ zpc' \in {"copy", "last", "write"} /\ KeepCopy
    BY <1>11 DEF Refill, Copy, DataEnds, DataBad, ReadEnd, Reading, ReadFails, ReadReturns
  <2> QED BY <1>0, <1>b, <2>1 DEF KeepCopy, walk, DiskInv, OnDisk, Entered
<1>12. CASE Flush \/ FlushLast
  <2>1. /\ zpc \in {"write", "last"} /\ UNCHANGED <<cd, numfile, currentfileok>>
        /\ (zpc' = "read" /\ fout' = fout) \/ (zpc' = "close" /\ fout' = "none")
        /\ UNCHANGED disk \/ (\E to : WriteOut(to))
    BY <1>12 DEF Flush, FlushLast, walk, WriteOut
  <2>2. CASE UNCHANGED disk BY <1>0, <1>b, <2>1, <2>2 DEF DiskInv, OnDisk, Entered
  <2>3. CASE ~UNCHANGED disk
    <3>1. PICK to : WriteOut(to) BY <2>1, <2>3
    <3>2. fout = "open" /\ \E x \in Seq(Nat) :
             Rewrites(Entered, [kind |-> disk[Entered].kind, data |-> disk[Entered].data \o x])
      BY <2>1, <2>3, <3>1, WritesOut
    <3>3. PICK x \in Seq(Nat) :
             Rewrites(Entered, [kind |-> disk[Entered].kind, data |-> disk[Entered].data \o x])
      BY <3>2
    <3>4. PICK r : r = [kind |-> disk[Entered].kind, data |-> disk[Entered].data \o x] OBVIOUS
    <3>5. r.kind = disk[Entered].kind BY <3>4
    <3>6. /\ disk' \in [1 .. MaxEntries -> OnDisk] /\ disk'[Entered] = r
          /\ \A j \in 1 .. MaxEntries : j # Entered => disk'[j] = disk[j]
      BY <1>0, <1>b, <2>1, <3>3, <3>4, Rewritten
    <3> QED BY <1>0, <1>b, <2>1, <3>2, <3>5, <3>6 DEF DiskInv, OnDisk, Entered
  <2> QED BY <2>2, <2>3
<1>13. CASE CloseEntry
  <2>1. /\ zpc = "close" /\ zpc' = "next" /\ UNCHANGED <<cd, numfile, currentfileok, fout, disk>>
        /\ entryerr' = CloseResult
    BY <1>13 DEF CloseEntry, walk
  <2>2. ~currentfileok => entryerr' = PARAM_ERROR
    BY <2>1 DEF CloseResult, ZipInv, BufferInv
  <2> QED BY <1>0, <1>b, <2>1, <2>2 DEF DiskInv, OnDisk, Entered, PARAM_ERROR, OK
<1>14. CASE NextEntry
  <2>1. zpc = "next" /\ UNCHANGED <<cd, entryerr, fout, disk>> /\ fout = "none" BY <1>0, <1>14 DEF NextEntry
  <2>2. CASE zpc' = "ret" BY <1>0, <2>1, <2>2 DEF DiskInv, OnDisk
  <2>3. CASE zpc' # "ret"
    <3>1. entryerr = OK /\ i + 1 # Len(cd) /\ zpc' = "info" /\ GotoNext BY <1>14, <2>3 DEF NextEntry
    <3>2. currentfileok => numfile + 1 # Len(cd) BY <2>1, <3>1 DEF ZipInv, PlaceInv
    <3>3. CASE ~currentfileok
      <4>1. numfile' = numfile BY <3>1, <3>3 DEF GotoNext
      <4> QED BY <1>0, <1>b, <2>1, <3>1, <3>3, <4>1 DEF DiskInv, OnDisk, Entered
    <3>4. CASE currentfileok
      <4>1. numfile' = numfile + 1 BY <3>1, <3>2, <3>4 DEF GotoNext
      <4>2. numfile' + 1 \in 1 .. MaxEntries
        <5>1. numfile = i /\ i + 1 <= Len(cd) BY <2>1, <3>4 DEF ZipInv, PlaceInv
        <5>2. Len(cd) \in 0 .. MaxEntries BY EntryAt DEF ZipInv
        <5> QED BY <1>0, <3>1, <4>1, <5>1, <5>2
      <4>3. disk[numfile' + 1].kind = "none" BY <1>0, <1>b, <2>1, <4>1, <4>2
      <4>4. \A k \in 1 .. MaxEntries : k > numfile' + 1 => disk[k].kind = "none"
        BY <1>0, <1>b, <2>1, <4>1
      <4> QED BY <1>0, <2>1, <3>1, <4>3, <4>4 DEF DiskInv, OnDisk, Entered
    <3> QED BY <3>3, <3>4
  <2> QED BY <2>2, <2>3
<1> QED
  BY <1>1, <1>2, <1>3, <1>4, <1>5, <1>6, <1>7, <1>8, <1>9, <1>10, <1>11, <1>12, <1>13, <1>14 DEF ZipStep

(***************************************************************************)
(* The walk as its caller sees it.                                         *)
(***************************************************************************)
LEMMA GotIs ==
    \A k : /\ GotOf(k) \in {"none", "whole", "part"}
           /\ GotOf(k) = "none" <=> (Stage = "off" \/ disk[k].kind = "none")
BY DEF GotOf

LEMMA StageIs ==
    /\ zpc \in {"off", "locate", "ready"} => Stage = "off"
    /\ zpc = "ret" => Stage = "over"
    /\ zpc \in Busy => Stage = "busy"
BY DEF Stage, Busy

(* A step of the walk that touches no entry but the one it is at. *)
LEMMA TouchesOne ==
    ASSUME PlaceInv, zpc \in Busy, zpc' \in Busy, UNCHANGED <<cd, numfile>>,
           \A k \in 1 .. MaxEntries : k # Entered => disk'[k] = disk[k],
           UNCHANGED disk \/ disk'[Entered].kind # "none"
    PROVE  [U!Next]_(U!uvars)
<1>s. Stage = "busy" /\ Stage' = "busy" /\ (zpc' # "ret") BY StageIs DEF Stage, Busy
<1>e. Entered \in 1 .. Len(cd) /\ Entered \in 1 .. MaxEntries BY EntryAt
<1>g. PICK g : g = [k \in 1 .. MaxEntries |-> GotOf(k)] OBVIOUS
<1>h. PICK h : h = [k \in 1 .. MaxEntries |-> GotOf(k)'] OBVIOUS
<1>1. \A k \in 1 .. MaxEntries : k # Entered => h[k] = g[k]
  BY <1>s, <1>g, <1>h DEF GotOf, WholeFile
<1>2. CASE UNCHANGED disk
  <2>1. \A k \in 1 .. MaxEntries : h[k] = g[k] BY <1>2, <1>s, <1>g, <1>h DEF GotOf, WholeFile
  <2>2. h = g BY <2>1, <1>g, <1>h
  <2>3. [k \in 1 .. MaxEntries |-> GotOf(k)]' = [k \in 1 .. MaxEntries |-> GotOf(k)]
    BY <2>2, <1>g, <1>h
  <2> QED BY <2>3, <1>s DEF U!uvars
<1>3. CASE disk'[Entered].kind # "none"
  <2>1. GotOf(Entered)' \in {"whole", "part"}
    BY <1>3, <1>s DEF GotOf, Entered
  <2>2. h[Entered] \in {"whole", "part"} BY <1>e, <1>h, <2>1 DEF Entered
  <2>3. h = [g EXCEPT ![Entered] = h[Entered]] BY <1>1, <1>e, <1>g, <1>h
  <2>4. [k \in 1 .. MaxEntries |-> GotOf(k)]'
         = [[k \in 1 .. MaxEntries |-> GotOf(k)] EXCEPT ![numfile + 1] = h[Entered]]
    BY <2>3, <1>g, <1>h DEF Entered
  <2>g. PICK w \in {"part", "whole"} : w = h[Entered] BY <2>2
  <2>6. Stage = "busy" /\ numfile + 1 <= Len(cd)
    <3>1. Len(cd) \in Nat /\ numfile + 1 \in 1 .. Len(cd) BY <1>e, EntryAt DEF Entered
    <3> QED BY <1>s, <3>1
  <2>5. U!Touch BY <1>s, <2>g, <2>4, <2>6 DEF U!Touch
  <2> QED BY <2>5 DEF U!Next
<1> QED BY <1>2, <1>3

LEMMA GotNone ==
    Stage = "off" => [k \in 1 .. MaxEntries |-> GotOf(k)] = U!Untouched
BY GotIs DEF U!Untouched, U!Entries

LEMMA GotSame ==
    ASSUME Stage # "off", Stage' # "off", UNCHANGED <<cd, disk>>
    PROVE  [k \in 1 .. MaxEntries |-> GotOf(k)]' = [k \in 1 .. MaxEntries |-> GotOf(k)]
BY DEF GotOf, WholeFile

LEMMA UnpackStep ==
    ZipInv /\ (Opening \/ Closing \/ ZipStep \/ UNCHANGED zipVars) => [U!Next]_(U!uvars)
<1> SUFFICES ASSUME ZipInv, Opening \/ Closing \/ ZipStep \/ UNCHANGED zipVars
             PROVE  [U!Next]_(U!uvars)
  OBVIOUS
<1>p. PlaceInv /\ DiskInv BY DEF ZipInv
<1>f. /\ zpc \in InFile <=> fout # "none"
      /\ disk \in [1 .. MaxEntries -> OnDisk]
  BY <1>p DEF DiskInv, OnDisk
<1>e. zpc \in Busy => Entered \in 1 .. Len(cd) /\ Entered \in 1 .. MaxEntries BY <1>p, EntryAt
<1>o. \A k \in 1 .. MaxEntries : disk[k] \in OnDisk BY <1>f
<1>off. Stage = "off" /\ Stage' = "off" => UNCHANGED U!uvars
  <2> SUFFICES ASSUME Stage = "off", Stage' = "off" PROVE UNCHANGED U!uvars OBVIOUS
  <2>1. [k \in 1 .. MaxEntries |-> GotOf(k)] = U!Untouched BY GotNone
  <2>2. (Stage = "off" => [k \in 1 .. MaxEntries |-> GotOf(k)] = U!Untouched)' BY GotNone, PTL
  <2>3. [k \in 1 .. MaxEntries |-> GotOf(k)]' = U!Untouched BY <2>2 DEF U!Untouched, U!Entries
  <2> QED BY <2>1, <2>3 DEF U!uvars
<1>1. CASE Opening \/ ZipOpenFound
  <2>1. zpc \in {"off", "locate", "ready"} /\ zpc' \in {"off", "locate", "ready"}
    BY <1>1 DEF Opening, ZipLocate, ZipOpenFound
  <2>2. Stage = "off" /\ Stage' = "off" BY <2>1 DEF Stage
  <2> QED BY <1>off, <2>2
<1>2. CASE Closing
  <2>1. zpc = "ret" /\ zpc' = "off" BY <1>2 DEF Closing
  <2>2. Stage = "over" /\ Stage' = "off" BY <2>1 DEF Stage
  <2>3. (Stage = "off" => [k \in 1 .. MaxEntries |-> GotOf(k)] = U!Untouched)' BY GotNone, PTL
  <2>4. [k \in 1 .. MaxEntries |-> GotOf(k)]' = U!Untouched BY <2>2, <2>3 DEF U!Untouched, U!Entries
  <2>5. U!Forget BY <2>2, <2>4 DEF U!Forget
  <2> QED BY <2>5 DEF U!Next
<1>3. CASE UNCHANGED zipVars
  <2>1. UNCHANGED <<zpc, cd, numfile, disk, err>> BY <1>3 DEF zipVars, walk
  <2>2. Stage' = Stage BY <2>1 DEF Stage
  <2>3. [k \in 1 .. MaxEntries |-> GotOf(k)]' = [k \in 1 .. MaxEntries |-> GotOf(k)]
    BY <2>1, <2>2 DEF GotOf, WholeFile
  <2> QED BY <2>1, <2>2, <2>3 DEF U!uvars
<1>5. CASE ZipExtract
  <2>1. /\ zpc = "ready" /\ disk' = Blank /\ UNCHANGED <<cd, numfile>>
        /\ \/ zpc' = "info" /\ err' = OK /\ Len(cd) > 0
           \/ zpc' = "ret" /\ ~(zip = "open" /\ Len(cd) > 0)
    BY <1>5 DEF ZipExtract
  <2>2. Stage = "off" /\ numfile = 0 BY <1>p, <2>1 DEF Stage, PlaceInv
  <2>3. \A k \in 1 .. MaxEntries : disk'[k].kind = "none" BY <2>1, BlankIs
  <2>4. [k \in 1 .. MaxEntries |-> GotOf(k)]' = U!Untouched
    BY <2>3 DEF GotOf, U!Untouched, U!Entries
  <2>5. Len(cd) \in 0 .. MaxEntries /\ MaxEntries \in Nat BY <1>p, EntryAt
  <2>6. CASE zpc' = "info"
    <3>1. Stage' = "busy" BY <2>6 DEF Stage
    <3>2. Len(cd) \in U!Entries BY <2>1, <2>5, <2>6 DEF U!Entries
    <3>3. U!Begin BY <2>1, <2>2, <2>4, <3>1, <3>2 DEF U!Begin
    <3> QED BY <3>3 DEF U!Next
  <2>7. CASE zpc' = "ret"
    <3>1. Stage' = "over" BY <2>7 DEF Stage
    <3>2. Len(cd) = 0
      <4>1. CASE zip = "none"
        <5>1. cd = <<>> BY <1>p, <2>1, <4>1 DEF PlaceInv
        <5> QED BY <5>1
      <4>2. CASE zip = "open" BY <2>1, <2>5, <2>7, <4>2
      <4> QED BY <4>1, <4>2, <1>p DEF PlaceInv
    <3>3. U!Refuse BY <2>1, <2>2, <2>4, <3>1, <3>2 DEF U!Refuse
    <3> QED BY <3>3 DEF U!Next
  <2> QED BY <2>1, <2>6, <2>7
<1>6. CASE Info \/ ZipOpenCurrentFile \/ ReadBegin \/ CloseEntry
  <2>1. zpc \in Busy /\ zpc' \in Busy /\ UNCHANGED <<cd, numfile, disk>>
    BY <1>6 DEF Info, ZipOpenCurrentFile, ReadBegin, CloseEntry, walk, Busy
  <2> QED BY <1>p, <2>1, TouchesOne
<1>7. CASE AllocTmp
  <2>1. zpc \in Busy /\ zpc' \in Busy /\ UNCHANGED <<cd, numfile>>
    BY <1>7 DEF AllocTmp, walk, Busy
  <2>2. CASE UNCHANGED disk BY <1>p, <2>1, <2>2, TouchesOne
  <2>3. CASE disk' = [disk EXCEPT ![Entered].kind = "dir"]
    <3>1. PICK r \in OnDisk : r = disk[Entered] BY <1>e, <1>o, <2>1
    <3>2. disk'[Entered] = [r EXCEPT !.kind = "dir"] BY <1>e, <1>f, <2>1, <2>3, <3>1
    <3>3. disk'[Entered].kind = "dir" BY <3>2 DEF OnDisk
    <3>4. \A k \in 1 .. MaxEntries : k # Entered => disk'[k] = disk[k] BY <1>f, <2>3
    <3> QED BY <1>p, <2>1, <3>3, <3>4, TouchesOne
  <2> QED BY <1>7, <2>2, <2>3 DEF AllocTmp
<1>9. CASE OpenOut
  <2>1. zpc = "fopen" /\ zpc \in Busy /\ zpc' \in Busy /\ UNCHANGED <<cd, numfile>>
    BY <1>9 DEF OpenOut, walk, Busy
  <2>2. CASE disk' = [disk EXCEPT ![Entered] = [kind |-> "file", data |-> <<>>]]
    <3>1. disk'[Entered].kind = "file" BY <1>e, <1>f, <2>1, <2>2
    <3>2. \A k \in 1 .. MaxEntries : k # Entered => disk'[k] = disk[k] BY <1>f, <2>2
    <3> QED BY <1>p, <2>1, <3>1, <3>2, TouchesOne
  <2>3. CASE disk' = [disk EXCEPT ![Entered].kind = Uncreated(cd[Entered])]
    <3>1. PICK r \in OnDisk : r = disk[Entered] /\ r.kind = "none"
      BY <1>e, <1>o, <1>p, <2>1 DEF DiskInv
    <3>2. disk'[Entered] = [r EXCEPT !.kind = Uncreated(cd[Entered])] BY <1>e, <1>f, <2>1, <2>3, <3>1
    <3>3. \A k \in 1 .. MaxEntries : k # Entered => disk'[k] = disk[k] BY <1>f, <2>3
    <3>4. CASE Uncreated(cd[Entered]) = "dir"
      <4>1. disk'[Entered].kind = "dir" BY <3>2, <3>4 DEF OnDisk
      <4> QED BY <1>p, <2>1, <3>3, <4>1, TouchesOne
    <3>5. CASE Uncreated(cd[Entered]) = "none"
      <4>1. disk'[Entered] = r BY <3>1, <3>2, <3>5 DEF OnDisk
      <4>2. \A k \in 1 .. MaxEntries : disk'[k] = disk[k] BY <3>1, <3>3, <4>1
      <4>3. disk = [k \in 1 .. MaxEntries |-> disk[k]] /\ disk' = [k \in 1 .. MaxEntries |-> disk'[k]]
        BY <1>f, <2>3
      <4>4. disk' = disk BY <4>2, <4>3
      <4> QED BY <1>p, <2>1, <4>4, TouchesOne
    <3> QED BY <3>4, <3>5 DEF Uncreated
  <2> QED BY <1>9, <2>2, <2>3 DEF OpenOut
<1>11. CASE Refill \/ Copy \/ DataEnds \/ DataBad \/ ReadEnd
  <2>1. /\ zpc = "copy" /\ zpc' \in {"copy", "last", "write"} /\ KeepCopy
    BY <1>11 DEF Refill, Copy, DataEnds, DataBad, ReadEnd, Reading, ReadFails, ReadReturns
  <2>2. zpc \in Busy /\ zpc' \in Busy /\ UNCHANGED <<cd, numfile, disk>>
    BY <2>1 DEF KeepCopy, walk, Busy
  <2> QED BY <1>p, <2>2, TouchesOne
<1>12. CASE Flush \/ FlushLast
  <2>1. /\ zpc \in {"write", "last"} /\ zpc \in Busy /\ zpc' \in Busy /\ UNCHANGED <<cd, numfile>>
        /\ UNCHANGED disk \/ (\E to : WriteOut(to))
    BY <1>12 DEF Flush, FlushLast, walk, WriteOut, Busy
  <2>2. CASE UNCHANGED disk BY <1>p, <2>1, <2>2, TouchesOne
  <2>3. CASE ~UNCHANGED disk
    <3>1. PICK to : WriteOut(to) BY <2>1, <2>3
    <3>2. fout = "open" /\ \E x \in Seq(Nat) :
             Rewrites(Entered, [kind |-> disk[Entered].kind, data |-> disk[Entered].data \o x])
      BY <2>1, <2>3, <3>1, WritesOut
    <3>3. PICK x \in Seq(Nat) :
             Rewrites(Entered, [kind |-> disk[Entered].kind, data |-> disk[Entered].data \o x])
      BY <3>2
    <3>4. PICK r : r = [kind |-> disk[Entered].kind, data |-> disk[Entered].data \o x] OBVIOUS
    <3>5. r.kind = disk[Entered].kind /\ disk[Entered].kind # "none"
      BY <1>p, <2>1, <3>2, <3>4 DEF DiskInv
    <3>6. /\ disk'[Entered] = r
          /\ \A j \in 1 .. MaxEntries : j # Entered => disk'[j] = disk[j]
      BY <1>e, <1>f, <2>1, <3>3, <3>4, Rewritten
    <3> QED BY <1>p, <2>1, <3>5, <3>6, TouchesOne
  <2> QED BY <2>2, <2>3
<1>14. CASE NextEntry
  <2>1. zpc = "next" /\ UNCHANGED <<cd, disk>> BY <1>14 DEF NextEntry
  <2>2. Stage = "busy" BY <2>1 DEF Stage
  <2>3. CASE zpc' = "ret"
    <3>1. Stage' = "over" /\ UNCHANGED numfile BY <1>14, <2>3 DEF Stage, NextEntry
    <3>2. [k \in 1 .. MaxEntries |-> GotOf(k)]' = [k \in 1 .. MaxEntries |-> GotOf(k)]
      BY <2>1, <2>2, <3>1, GotSame
    <3>3. U!End BY <2>1, <2>2, <3>1, <3>2 DEF U!End
    <3> QED BY <3>3 DEF U!Next
  <2>4. CASE zpc' # "ret"
    <3>1. zpc' = "info" /\ GotoNext BY <1>14, <2>4 DEF NextEntry
    <3>2. Stage' = "busy" BY <3>1 DEF Stage
    <3>3. [k \in 1 .. MaxEntries |-> GotOf(k)]' = [k \in 1 .. MaxEntries |-> GotOf(k)]
      BY <2>1, <2>2, <3>2, GotSame
    <3>4. CASE numfile' = numfile BY <2>1, <2>2, <3>2, <3>3, <3>4 DEF U!uvars
    <3>5. CASE numfile' = numfile + 1
      <4>1. U!Advance BY <2>1, <2>2, <3>2, <3>3, <3>5 DEF U!Advance
      <4> QED BY <4>1 DEF U!Next
    <3> QED BY <3>1, <3>4, <3>5 DEF GotoNext
  <2> QED BY <2>3, <2>4
<1> QED
  BY <1>1, <1>2, <1>3, <1>5, <1>6, <1>7, <1>9, <1>11, <1>12, <1>14 DEF ZipStep

LEMMA UnpackInit == Init => U!Init
<1> SUFFICES ASSUME Init PROVE U!Init OBVIOUS
<1>1. Stage = "off" BY DEF Init, ZipInit, Stage
<1> QED BY <1>1, GotNone DEF U!Init

(***************************************************************************)
(* The buffers.                                                            *)
(***************************************************************************)
LEMMA BufferStep == ZipInv /\ (Opening \/ Closing \/ ZipStep \/ UNCHANGED zipVars) => BufferInv'
<1> SUFFICES ASSUME ZipInv, Opening \/ Closing \/ ZipStep \/ UNCHANGED zipVars PROVE BufferInv'
  OBVIOUS
<1> USE DEF InFile
<1>p. PlaceInv /\ BufferInv BY DEF ZipInv
<1>0. /\ MaxEntries \in Nat /\ InSize \in Nat \ {0} /\ OutSize \in Nat \ {0}
      /\ \A k \in 1 .. Len(cd) : cd[k] \in Entry
      /\ zpc \in Busy => Entered \in 1 .. Len(cd) /\ Entered \in 1 .. MaxEntries
  BY <1>p, EntryAt
<1>e. <<>> \in Seq(Nat) /\ Len(<<>>) = 0 OBVIOUS
<1>c. Closed \in [e : 0 .. MaxEntries, restc : Nat, restu : Nat, avail : 0 .. InSize] /\ Closed.e = 0
  BY <1>0 DEF Closed
<1>b. Len(buf) \in Nat /\ Len(fresh) \in Nat BY <1>p DEF BufferInv
<1>1. CASE Opening \/ Info \/ ZipExtract
  <2>1. /\ UNCHANGED <<cur, buf, fresh, avail_out, cd, numfile, currentfileok>>
        /\ zpc' \notin InFile \cup {"fopen", "close"}
        /\ zpc \notin InFile \cup {"fopen", "close"}
    BY <1>1 DEF Opening, ZipLocate, Info, ZipExtract, walk, reading
  <2> QED BY <1>p, <2>1 DEF BufferInv
<1>2. CASE Closing
  <2>1. cur' = Closed /\ buf' = <<>> /\ fresh' = <<>> /\ avail_out' = 0 /\ zpc' = "off"
    BY <1>2 DEF Closing, ZipClose
  <2> QED BY <1>0, <1>c, <1>e, <2>1 DEF BufferInv
<1>3. CASE UNCHANGED zipVars
  BY <1>3, <1>p DEF zipVars, walk, reading, BufferInv, Entered
<1>4. CASE ZipOpenFound
  <2>1. zpc = "locate" /\ zpc' = "ready" /\ UNCHANGED <<cur, buf, fresh, avail_out>>
    BY <1>4 DEF ZipOpenFound, reading
  <2>2. cur.e = 0 BY <1>p, <2>1 DEF BufferInv
  <2> QED BY <1>p, <2>1, <2>2 DEF BufferInv
<1>7. CASE AllocTmp
  <2>1. zpc = "alloc" /\ zpc' \in {"next", "open"} /\ cur' = cur /\ buf' = <<>> /\ fresh' = <<>> /\ avail_out' = 0
    BY <1>7 DEF AllocTmp
  <2>2. cur.e = 0 BY <1>p, <2>1 DEF BufferInv
  <2> QED BY <1>0, <1>e, <1>p, <2>1, <2>2 DEF BufferInv
<1>8. CASE ZipOpenCurrentFile
  <2>1. zpc = "open" /\ zpc' = "fopen" /\ UNCHANGED <<cd, numfile, currentfileok, buf, fresh, avail_out>>
    BY <1>8 DEF ZipOpenCurrentFile, walk
  <2>2. cur.e = 0 BY <1>p, <2>1 DEF BufferInv
  <2>3. CASE cur' = cur BY <1>p, <2>1, <2>2, <2>3 DEF BufferInv
  <2>4. CASE currentfileok /\ cur' = [e |-> Entered, restc |-> cd[Entered].packed,
                                      restu |-> cd[Entered].size, avail |-> 0]
    <3>1. Entered \in 1 .. MaxEntries /\ cd[Entered] \in Entry BY <1>0, <2>1 DEF Busy
    <3>2. PICK n \in 1 .. MaxEntries : n = Entered BY <3>1
    <3>3. PICK c \in Nat : c = cd[Entered].packed BY <3>1 DEF Entry
    <3>4. PICK u \in Nat : u = cd[Entered].size BY <3>1 DEF Entry
    <3>5. cur' = [e |-> n, restc |-> c, restu |-> u, avail |-> 0] BY <2>4, <3>2, <3>3, <3>4
    <3>6. cur' \in [e : 0 .. MaxEntries, restc : Nat, restu : Nat, avail : 0 .. InSize]
          /\ cur'.e = Entered /\ cur'.restu = u
      BY <1>0, <3>2, <3>5
    <3>7. Entered' = Entered BY <2>1 DEF Entered
    <3>8. cur'.restu <= cd'[cur'.e].size BY <2>1, <3>4, <3>6
    <3> QED BY <1>p, <2>1, <2>4, <3>6, <3>7, <3>8 DEF BufferInv
  <2> QED BY <1>8, <2>3, <2>4 DEF ZipOpenCurrentFile
<1>9. CASE OpenOut
  <2>1. zpc = "fopen" /\ zpc' = "read" /\ UNCHANGED <<cd, numfile, currentfileok, cur, buf, fresh, avail_out>>
    BY <1>9 DEF OpenOut, walk, reading
  <2> QED BY <1>p, <2>1 DEF BufferInv, Entered
<1>10. CASE ReadBegin
  <2>1. zpc = "read" /\ UNCHANGED <<cd, numfile, currentfileok, cur, buf>> /\ fresh' = <<>>
    BY <1>10 DEF ReadBegin, walk
  <2>2. fresh = <<>> /\ avail_out = 0 /\ Len(buf) <= OutSize BY <1>b, <1>e, <1>p, <2>1 DEF BufferInv
  <2>3. CASE cur.e = 0
    <3>1. zpc' = "last" /\ avail_out' = avail_out BY <1>10, <2>3 DEF ReadBegin
    <3> QED BY <1>p, <2>1, <2>2, <2>3, <3>1 DEF BufferInv
  <2>4. CASE cur.e # 0
    <3>1. zpc' = "copy" /\ avail_out' = Min2(OutSize - Len(buf), cur.restu) BY <1>10, <2>4 DEF ReadBegin
    <3>2. cur.restu \in Nat BY <1>p DEF BufferInv
    <3>3. avail_out' \in Nat /\ avail_out' <= cur.restu /\ Len(buf) + 0 + avail_out' <= OutSize
      BY <1>0, <1>b, <2>2, <3>1, <3>2 DEF Min2
    <3> QED BY <1>e, <1>p, <2>1, <2>4, <3>1, <3>3 DEF BufferInv, Entered
  <2> QED BY <2>3, <2>4
<1>a. zpc = "copy" =>
         /\ cur.e = Entered /\ cur.e \in 1 .. Len(cd) /\ cd[cur.e] \in Entry /\ currentfileok
         /\ cur.restu \in Nat /\ cur.restc \in Nat /\ cur.avail \in Nat /\ avail_out <= cur.restu
         /\ avail_out \in Nat /\ cur.restu <= cd[cur.e].size /\ cur.avail <= InSize
  <2> SUFFICES ASSUME zpc = "copy"
               PROVE  /\ cur.e = Entered /\ cur.e \in 1 .. Len(cd) /\ cd[cur.e] \in Entry /\ currentfileok
                      /\ cur.restu \in Nat /\ cur.restc \in Nat /\ cur.avail \in Nat /\ avail_out <= cur.restu
                      /\ avail_out \in Nat /\ cur.restu <= cd[cur.e].size /\ cur.avail <= InSize
    OBVIOUS
  <2>1. cur.e = Entered /\ zpc \in Busy BY <1>p DEF BufferInv, Busy
  <2> QED BY <1>0, <1>p, <2>1 DEF BufferInv
<1>f. ReadFails => buf' = buf /\ fresh' = <<>> /\ avail_out' = 0 /\ zpc' = "last" BY DEF ReadFails
<1>g. ReadReturns => /\ buf' \in Seq(Nat) /\ Len(buf') = Len(buf) + Len(fresh)
                     /\ fresh' = <<>> /\ avail_out' = 0 /\ zpc' \in {"last", "write"}
  <2>1. PICK x \in Seq(Nat) : x = buf BY <1>p DEF BufferInv
  <2>2. PICK y \in Seq(Nat) : y = fresh BY <1>p DEF BufferInv
  <2>3. x \o y \in Seq(Nat) /\ Len(x \o y) = Len(x) + Len(y) OBVIOUS
  <2> QED BY <2>1, <2>2, <2>3 DEF ReadReturns
<1>11. CASE DataEnds \/ DataBad \/ ReadEnd \/ (Refill /\ ReadFails)
  <2>1. zpc = "copy" /\ KeepCopy /\ cur' = cur /\ (ReadFails \/ ReadReturns)
    BY <1>11 DEF DataEnds, DataBad, ReadEnd, Refill, Reading, ReadFails
  <2>2. UNCHANGED <<cd, numfile, currentfileok>> BY <2>1 DEF KeepCopy, walk
  <2>3. Len(buf) + Len(fresh) + avail_out <= OutSize BY <1>p DEF BufferInv
  <2>4. buf' \in Seq(Nat) /\ fresh' = <<>> /\ avail_out' = 0 /\ Len(buf') <= OutSize /\ zpc' \in {"last", "write"}
    BY <1>a, <1>b, <1>f, <1>g, <1>p, <1>0, <2>1, <2>3 DEF BufferInv
  <2> QED BY <1>0, <1>b, <1>e, <1>p, <2>1, <2>2, <2>4 DEF BufferInv, Entered
<1>12. CASE Refill /\ ~ReadFails
  <2>1. PICK n : /\ n = Min2(InSize, cur.restc) /\ cur' = [cur EXCEPT !.avail = n, !.restc = @ - n]
                 /\ UNCHANGED <<zpc, buf, fresh, avail_out, faults>>
    BY <1>12 DEF Refill
  <2>2. zpc = "copy" /\ KeepCopy BY <1>12 DEF Refill, Reading
  <2>3. UNCHANGED <<cd, numfile, currentfileok>> BY <2>2 DEF KeepCopy, walk
  <2>4. n \in 0 .. InSize /\ cur.restc - n \in Nat BY <1>0, <1>a, <2>1, <2>2 DEF Min2
  <2>5. /\ cur' \in [e : 0 .. MaxEntries, restc : Nat, restu : Nat, avail : 0 .. InSize]
        /\ cur'.e = cur.e /\ cur'.restu = cur.restu
    BY <1>p, <2>1, <2>4 DEF BufferInv
  <2> QED BY <1>p, <2>1, <2>2, <2>3, <2>5 DEF BufferInv, Entered
<1>13. CASE Copy
  <2>1. PICK n : /\ n = Min2(avail_out, cur.avail) /\ fresh' = fresh \o [k \in 1 .. n |-> Position + k]
                 /\ cur' = [cur EXCEPT !.avail = @ - n, !.restu = @ - n]
                 /\ avail_out' = avail_out - n
    BY <1>13 DEF Copy
  <2>2. zpc = "copy" /\ KeepCopy /\ UNCHANGED <<zpc, buf, faults>> BY <1>13 DEF Copy, Reading
  <2>3. UNCHANGED <<cd, numfile, currentfileok>> BY <2>2 DEF KeepCopy, walk
  <2>4. n \in Nat /\ n <= avail_out /\ n <= cur.avail /\ n <= cur.restu BY <1>a, <2>1, <2>2 DEF Min2
  <2>5. /\ cur' \in [e : 0 .. MaxEntries, restc : Nat, restu : Nat, avail : 0 .. InSize]
        /\ cur'.e = cur.e /\ cur'.restu = cur.restu - n
    <3>1. PICK v \in Nat : v = cur.avail /\ v <= InSize BY <1>a, <2>2
    <3>2. PICK r \in Nat : r = cur.restu BY <1>a, <2>2
    <3>3. v - n \in 0 .. InSize /\ r - n \in Nat BY <1>0, <2>4, <3>1, <3>2
    <3>4. cur.avail - n \in 0 .. InSize /\ cur.restu - n \in Nat BY <3>1, <3>2, <3>3
    <3> QED BY <1>p, <2>1, <3>4 DEF BufferInv
  <2>6. PICK b \in Nat : b = Position
    <3>1. cd[cur.e].size \in Nat BY <1>a, <2>2 DEF Entry
    <3> QED BY <1>a, <2>2, <3>1 DEF Position
  <2>7. PICK y : y = [k \in 1 .. n |-> b + k] OBVIOUS
  <2>8. y \in Seq(Nat) /\ Len(y) = n BY <2>4, <2>6, <2>7
  <2>9. PICK x \in Seq(Nat) : x = fresh BY <1>p DEF BufferInv
  <2>10. x \o y \in Seq(Nat) /\ Len(x \o y) = Len(x) + n BY <2>8
  <2>11. fresh' \in Seq(Nat) /\ Len(fresh') = Len(fresh) + n BY <2>1, <2>6, <2>7, <2>9, <2>10
  <2>12. avail_out' \in Nat /\ avail_out' <= cur'.restu /\ Len(buf') + Len(fresh') + avail_out' <= OutSize
         /\ cur'.restu <= cd[cur.e].size
    <3>1. Len(buf) + Len(fresh) + avail_out <= OutSize /\ cd[cur.e].size \in Nat
      BY <1>a, <1>p, <2>2 DEF BufferInv, Entry
    <3>2. PICK a \in Nat : a = avail_out /\ a <= cur.restu BY <1>a, <2>2
    <3>3. PICK lb \in Nat : lb = Len(buf) BY <1>b
    <3>4. PICK lf \in Nat : lf = Len(fresh) BY <1>b
    <3>5. PICK ru \in Nat : ru = cur.restu /\ ru <= cd[cur.e].size BY <1>a, <2>2
    <3>6. lb + lf + a <= OutSize /\ n <= a /\ n <= ru /\ a <= ru BY <2>4, <3>1, <3>2, <3>3, <3>4, <3>5
    <3>7. avail_out' = a - n /\ cur'.restu = ru - n /\ Len(buf') = lb /\ Len(fresh') = lf + n
      BY <2>1, <2>2, <2>5, <2>11, <3>2, <3>3, <3>4, <3>5
    <3>8. a - n \in Nat /\ a - n <= ru - n /\ lb + (lf + n) + (a - n) <= OutSize BY <1>0, <2>4, <3>6
    <3>9. ru - n <= cd[cur.e].size BY <2>4, <3>1, <3>5
    <3> QED BY <3>7, <3>8, <3>9
  <2> QED BY <1>p, <2>2, <2>3, <2>5, <2>11, <2>12 DEF BufferInv, Entered
<1>14. CASE Flush \/ FlushLast
  <2>1. /\ zpc \in {"write", "last"} /\ zpc' \in {"read", "close"}
        /\ UNCHANGED <<cd, numfile, currentfileok, cur, fresh, avail_out>>
        /\ buf' = buf \/ buf' = <<>>
    BY <1>14 DEF Flush, FlushLast, walk, WriteOut
  <2>2. fresh = <<>> /\ avail_out = 0 /\ Len(buf) + Len(fresh) + avail_out <= OutSize
    BY <1>p, <2>1 DEF BufferInv
  <2>3. Len(fresh) = 0 BY <1>e, <2>2
  <2>4. Len(buf') + Len(fresh') + avail_out' <= OutSize
    <3>1. CASE buf' = buf BY <2>1, <2>2, <3>1
    <3>2. CASE buf' = <<>>
      <4>1. Len(buf') = 0 /\ Len(fresh') = 0 /\ avail_out' = 0 BY <1>e, <2>1, <2>2, <2>3, <3>2
      <4> QED BY <1>0, <4>1
    <3> QED BY <2>1, <3>1, <3>2
  <2>5. buf' \in Seq(Nat) BY <1>e, <1>p, <2>1 DEF BufferInv
  <2> QED BY <1>p, <2>1, <2>2, <2>4, <2>5 DEF BufferInv, Entered
<1>15. CASE CloseEntry
  <2>1. zpc = "close" /\ zpc' = "next" /\ cur' = Closed /\ UNCHANGED <<buf, fresh, avail_out>>
    BY <1>15 DEF CloseEntry
  <2> QED BY <1>c, <1>p, <2>1 DEF BufferInv
<1>16. CASE NextEntry
  <2>1. zpc = "next" /\ zpc' \in {"ret", "info"} /\ UNCHANGED <<cur, buf, fresh, avail_out>>
    BY <1>16 DEF NextEntry, reading
  <2>2. cur.e = 0 BY <1>p, <2>1 DEF BufferInv
  <2> QED BY <1>p, <2>1, <2>2 DEF BufferInv
<1> QED
  BY <1>1, <1>2, <1>3, <1>4, <1>7, <1>8, <1>9, <1>10, <1>11, <1>12, <1>13, <1>14, <1>15, <1>16 DEF ZipStep

LEMMA ZipInitially == Init => ZipInv
<1> SUFFICES ASSUME Init PROVE ZipInv OBVIOUS
<1>0. MaxEntries \in Nat /\ InSize \in Nat /\ OutSize \in Nat BY ZipAssumption
<1>e. <<>> \in Seq(Nat) /\ Len(<<>>) = 0 OBVIOUS
<1>1. PlaceInv
  <2>1. /\ zpc = "off" /\ zip = "none" /\ cd = <<>> /\ i = 0 /\ numfile = 0 /\ currentfileok = FALSE
        /\ err = OK /\ entryerr = OK /\ held = {} /\ faults = FALSE
    BY DEF Init, ZipInit
  <2>2. 0 \in 0 .. MaxEntries BY <1>0
  <2> QED BY <2>1, <2>2 DEF PlaceInv, Busy, Codes
<1>2. DiskInv
  <2>1. disk \in [1 .. MaxEntries -> OnDisk] BY BlankIs DEF Init, ZipInit
  <2> QED BY <2>1 DEF Init, ZipInit, DiskInv, OnDisk, Busy, InFile
<1>3. BufferInv
  <2>1. Closed \in [e : 0 .. MaxEntries, restc : Nat, restu : Nat, avail : 0 .. InSize] /\ Closed.e = 0
    BY <1>0 DEF Closed
  <2>2. cur = Closed /\ buf = <<>> /\ fresh = <<>> /\ avail_out = 0 /\ zpc = "off" BY DEF Init, ZipInit
  <2> QED BY <1>0, <1>e, <2>1, <2>2 DEF BufferInv, InFile
<1> QED BY <1>1, <1>2, <1>3 DEF ZipInv

LEMMA ZipInvStep == ZipInv /\ [Next]_vars => ZipInv'
BY ZipMoves, PlaceStep, DiskStep, BufferStep DEF ZipInv

(* The reader's own invariant: where the walk is, what it has written and what
   the buffers hold fit together, whatever the archive holds and whatever
   fails. *)
THEOREM ZipInvariant == Spec => []ZipInv
BY ZipInitially, ZipInvStep, PTL DEF Spec

(* ZipExtract takes the entries in their order and never touches one again that
   it left, nor anything outside of the walk over them: every step of the reader
   is a step of Unpack or leaves all of it alone. *)
THEOREM WalkIsUnpack == Spec => UnpackSpec
<1>1. ZipInv /\ [Next]_vars => [U!Next]_(U!uvars) BY ZipMoves, UnpackStep
<1> QED BY <1>1, UnpackInit, ZipInvariant, PTL DEF Spec, UnpackSpec, U!Spec

(***************************************************************************)
(* What the buffers carry.                                                 *)
(***************************************************************************)
(* What counts on behind what counts. *)
LEMMA CountsOn ==
    ASSUME NEW s \in Seq(Nat), NEW t \in Seq(Nat), NEW a \in Nat, Counts(s, a), Counts(t, a + Len(s))
    PROVE  Counts(s \o t, a) /\ Len(s \o t) = Len(s) + Len(t)
<1>1. PICK m \in Nat : m = Len(s) OBVIOUS
<1>2. PICK n \in Nat : n = Len(t) OBVIOUS
<1>3. Len(s \o t) = m + n BY <1>1, <1>2
<1>4. ASSUME NEW u \in 1 .. m + n PROVE (s \o t)[u] = a + u
  <2>1. CASE u <= m
    <3>1. u \in 1 .. Len(s) /\ (s \o t)[u] = s[u] BY <1>1, <1>2, <2>1
    <3> QED BY <3>1 DEF Counts
  <2>2. CASE u > m
    <3>1. u - m \in 1 .. n BY <2>2
    <3>2. (s \o t)[u] = t[u - m] BY <1>1, <1>2, <2>2
    <3>3. t[u - m] = (a + m) + (u - m) BY <1>1, <1>2, <3>1 DEF Counts
    <3>4. (a + m) + (u - m) = a + u OBVIOUS
    <3> QED BY <3>2, <3>3, <3>4
  <2>3. u <= m \/ u > m OBVIOUS
  <2> QED BY <2>1, <2>2, <2>3
<1> QED BY <1>1, <1>2, <1>3, <1>4 DEF Counts

LEMMA CountsNone == \A a : Counts(<<>>, a) /\ Len(<<>>) = 0
<1>1. Len(<<>>) = 0 /\ 1 .. 0 = {} OBVIOUS
<1> QED BY <1>1 DEF Counts

LEMMA StreamStarts == \A n \in Nat : Streams(<<>>, <<>>, <<>>, n, n)
BY CountsNone DEF Streams

(* The m units behind p. *)
UnitsAfter(p, m) == [k \in 1 .. m |-> p + k]
(* m units of the file are copied. *)
Copied(d, b, f, r, n, m) ==
    LET g == f \o UnitsAfter(n - r, m)
    IN Streams(d, b, g, r - m, n) /\ Len(g) = Len(f) + m

LEMMA StreamCopies ==
    ASSUME NEW d \in Seq(Nat), NEW b \in Seq(Nat), NEW f \in Seq(Nat), NEW r \in Nat, NEW n \in Nat,
           NEW m \in Nat, m <= r, Streams(d, b, f, r, n)
    PROVE  Copied(d, b, f, r, n, m)
<1> DEFINE t == UnitsAfter(n - r, m)
<1> HIDE DEF t
<1>1. PICK ld \in Nat : ld = Len(d) OBVIOUS
<1>2. PICK lb \in Nat : lb = Len(b) OBVIOUS
<1>3. PICK lf \in Nat : lf = Len(f) OBVIOUS
<1>4. ld + lb + lf + r = n /\ Counts(f, ld + lb) /\ Counts(d, 0) /\ Counts(b, ld)
  BY <1>1, <1>2, <1>3 DEF Streams
<1>5. n - r = (ld + lb) + lf BY <1>4
<1>7. n - r \in Nat BY <1>5
<1>8. t \in Seq(Nat) /\ Len(t) = m BY <1>7 DEF UnitsAfter, t
<1>9. Counts(t, n - r) BY <1>8 DEF Counts, UnitsAfter, t
<1>a. PICK a \in Nat : a = ld + lb OBVIOUS
<1>c. Counts(t, a + Len(f)) /\ Counts(f, a) BY <1>3, <1>4, <1>5, <1>9, <1>a
<1>10. Counts(f \o t, ld + lb) /\ Len(f \o t) = lf + m BY <1>3, <1>8, <1>a, <1>c, CountsOn
<1>11. ld + lb + (lf + m) + (r - m) = n BY <1>4
<1> QED BY <1>1, <1>2, <1>3, <1>4, <1>10, <1>11 DEF Streams, Copied, t

LEMMA StreamReturns ==
    ASSUME NEW d \in Seq(Nat), NEW b \in Seq(Nat), NEW f \in Seq(Nat), NEW r \in Nat, NEW n \in Nat,
           Streams(d, b, f, r, n)
    PROVE  Streams(d, b \o f, <<>>, r, n)
<1>1. Counts(b \o f, Len(d)) /\ Len(b \o f) = Len(b) + Len(f) BY CountsOn DEF Streams
<1>2. Counts(<<>>, Len(d) + Len(b \o f)) /\ Len(<<>>) = 0 BY CountsNone
<1>3. Len(d) + (Len(b) + Len(f)) + 0 + r = n BY DEF Streams
<1> QED BY <1>1, <1>2, <1>3 DEF Streams

LEMMA StreamWrites ==
    ASSUME NEW d \in Seq(Nat), NEW b \in Seq(Nat), NEW r \in Nat, NEW n \in Nat,
           Streams(d, b, <<>>, r, n)
    PROVE  Streams(d \o b, <<>>, <<>>, r, n)
<1>0. Len(<<>>) = 0 OBVIOUS
<1>1. Counts(d \o b, 0) /\ Len(d \o b) = Len(d) + Len(b)
  <2>1. Counts(d, 0) /\ Counts(b, 0 + Len(d)) BY DEF Streams
  <2> QED BY <2>1, CountsOn
<1>2. (Len(d) + Len(b)) + 0 + 0 + r = n BY <1>0 DEF Streams
<1> QED BY <1>0, <1>1, <1>2, CountsNone DEF Streams

LEMMA StreamEnds ==
    ASSUME NEW d \in Seq(Nat), NEW n \in Nat, Streams(d, <<>>, <<>>, 0, n)
    PROVE  d = [u \in 1 .. n |-> u]
<1>0. Len(<<>>) = 0 OBVIOUS
<1>1. Len(d) = n /\ \A u \in 1 .. n : d[u] = u BY <1>0 DEF Streams, Counts
<1>2. d = [u \in 1 .. Len(d) |-> d[u]] OBVIOUS
<1> QED BY <1>1, <1>2

(* An entry that nothing is done to stays what it is. *)
LEMMA WholeKept ==
    ASSUME UNCHANGED cd
    PROVE  \A k : disk'[k] = disk[k] => WholeFile(k)' = WholeFile(k)
BY DEF WholeFile

(* A step of the walk that touches no entry it has left. *)
LEMMA LeftWhole ==
    ASSUME PlaceInv, UNCHANGED <<cd, numfile>>, \A k \in 1 .. numfile : WholeFile(k),
           \A k \in 1 .. MaxEntries : k # Entered => disk'[k] = disk[k], zpc \in Busy
    PROVE  \A k \in 1 .. numfile' : WholeFile(k)'
<1> SUFFICES ASSUME NEW k \in 1 .. numfile PROVE WholeFile(k)' OBVIOUS
<1>1. numfile \in Nat /\ Entered \in 1 .. MaxEntries BY EntryAt DEF PlaceInv
<1>2. k \in 1 .. MaxEntries /\ k # Entered
  <2>1. MaxEntries \in Nat BY EntryAt
  <2>2. numfile + 1 <= MaxEntries BY <1>1, <2>1 DEF Entered
  <2> QED BY <1>1, <2>1, <2>2 DEF Entered
<1> QED BY <1>2, WholeKept

LEMMA FineStep ==
    ZipInv /\ FineInv /\ (Opening \/ Closing \/ ZipStep \/ UNCHANGED zipVars) => FineInv'
<1> SUFFICES ASSUME ZipInv, FineInv, Opening \/ Closing \/ ZipStep \/ UNCHANGED zipVars PROVE FineInv'
  OBVIOUS
<1> USE DEF InFile
<1>p. PlaceInv /\ BufferInv /\ DiskInv BY DEF ZipInv
<1>0. /\ MaxEntries \in Nat /\ InSize \in Nat \ {0} /\ OutSize \in Nat \ {0} /\ numfile \in Nat
      /\ cd \in Seq(Entry) /\ Len(cd) \in Nat /\ \A k \in 1 .. Len(cd) : cd[k] \in Entry
      /\ zpc \in Busy => Entered \in 1 .. Len(cd) /\ Entered \in 1 .. MaxEntries
      /\ disk \in [1 .. MaxEntries -> OnDisk]
  BY <1>p, EntryAt DEF PlaceInv, DiskInv, OnDisk
<1>l. Len(buf) \in Nat /\ Len(fresh) \in Nat /\ Len(<<>>) = 0 BY <1>p DEF BufferInv
<1>1. CASE Opening
  <2>1. zpc = "off" /\ zpc' = "locate" /\ err' = err BY <1>1 DEF Opening, ZipLocate
  <2> QED BY <2>1 DEF FineInv
<1>2. CASE Closing
  <2>1. zpc' = "off" /\ err' = OK BY <1>2 DEF Closing
  <2> QED BY <2>1 DEF FineInv
<1>3. CASE UNCHANGED zipVars
  BY <1>3 DEF zipVars, walk, reading, FineInv, Fine, FineBody, Flows, WholeFile, AllWhole, Entered
<1>4. CASE ZipOpenFound
  <2>1. zpc = "locate" /\ zpc' = "ready" /\ err' = err BY <1>4 DEF ZipOpenFound
  <2>2. SUFFICES ASSUME Fine' PROVE zip' = "open" /\ (currentfileok' <=> Len(cd') > 0)
    BY <2>1 DEF FineInv, FineBody, Busy
  <2>3. /\ zip' = "open" /\ cd' \in Archives
        /\ currentfileok' = (cd' # <<>> /\ cd'[1].record)
    BY <1>4, <2>2 DEF ZipOpenFound, Fine
  <2>4. cd' \in Seq(Entry) BY <2>3, ZipAssumption
  <2>5. (cd' # <<>> <=> Len(cd') > 0) /\ (Len(cd') > 0 => 1 \in DOMAIN cd') BY <2>4
  <2>6. \A k \in DOMAIN cd' : cd'[k].record BY <2>2 DEF Fine, Sound
  <2> QED BY <2>3, <2>5, <2>6
<1>5. CASE ZipExtract
  <2>1. zpc = "ready" /\ UNCHANGED <<cd, zip, numfile, currentfileok, faults>> /\ zpc' \in {"info", "ret"}
    BY <1>5 DEF ZipExtract
  <2>2. SUFFICES ASSUME Fine' PROVE FineBody' BY <2>1 DEF FineInv
  <2>3. Fine /\ FineBody BY <2>1, <2>2 DEF Fine, FineInv
  <2>4. zip = "open" /\ (currentfileok <=> Len(cd) > 0) BY <2>1, <2>3 DEF FineBody
  <2>5. err' = OK /\ (zpc' = "info" <=> Len(cd) > 0) BY <1>5, <2>4 DEF ZipExtract
  <2>6. numfile' = 0 /\ 1 .. 0 = {} BY <1>p, <2>1 DEF PlaceInv
  <2>7. zpc' = "ret" => AllWhole'
    <3>1. zpc' = "ret" => DOMAIN cd' = {} BY <1>0, <2>1, <2>5
    <3> QED BY <3>1 DEF AllWhole
  <2> QED BY <2>1, <2>4, <2>5, <2>6, <2>7 DEF FineBody, Busy
<1>b. CASE zpc \in Busy /\ ~(UNCHANGED zipVars)
  <2>0. zpc \notin {"off", "locate", "ready", "ret"} BY <1>b DEF Busy
  <2>1. UNCHANGED cd /\ (~faults' => ~faults) /\ zpc' \notin {"off", "locate", "ready"} /\ faults \in BOOLEAN
    <3>1. faults \in BOOLEAN BY <1>p DEF PlaceInv
    <3>2. ZipStep /\ ~ZipOpenFound /\ ~ZipExtract
      BY <1>b, <2>0 DEF Opening, Closing, ZipOpenFound, ZipExtract
    <3>3. CASE Refill \/ Copy \/ DataEnds \/ DataBad \/ ReadEnd
      <4>1. KeepCopy /\ zpc' \in {"copy", "last", "write"} /\ (~faults' => ~faults)
        BY <3>1, <3>3, <2>0 DEF Refill, Copy, DataEnds, DataBad, ReadEnd, Reading, ReadFails, ReadReturns
      <4> QED BY <3>1, <4>1 DEF KeepCopy, walk
    <3>4. CASE Info \/ AllocTmp \/ ZipOpenCurrentFile \/ OpenOut \/ ReadBegin \/ CloseEntry
      BY <3>1, <3>4 DEF Info, InfoRead, AllocTmp, ZipOpenCurrentFile, OpenOut, ReadBegin, CloseEntry, walk
    <3>5. CASE Flush \/ FlushLast
      BY <3>1, <3>5 DEF Flush, FlushLast, WriteOut, walk
    <3>6. CASE NextEntry
      BY <3>1, <3>6 DEF NextEntry, GotoNext, InfoRead
    <3> QED BY <3>2, <3>3, <3>4, <3>5, <3>6 DEF ZipStep
  <2>2. SUFFICES ASSUME Fine' PROVE FineBody' BY <2>1 DEF FineInv
  <2>3. Fine /\ FineBody /\ ~faults' BY <1>b, <2>0, <2>1, <2>2 DEF Fine, FineInv
  <2>4. /\ err = OK /\ currentfileok /\ Entered \in 1 .. Len(cd) /\ Entered \in 1 .. MaxEntries
        /\ \A k \in 1 .. numfile : WholeFile(k)
        /\ Sound(cd[Entered]) /\ cd[Entered] \in Entry
    BY <1>0, <1>b, <2>3 DEF FineBody, Fine
  <2>w. \A k : disk'[k] = disk[k] => WholeFile(k)' = WholeFile(k) BY <2>1, WholeKept
  <2>l. UNCHANGED numfile /\ (\A k \in 1 .. MaxEntries : k # Entered => disk'[k] = disk[k])
          => \A k \in 1 .. numfile' : WholeFile(k)'
    BY <1>b, <1>p, <2>1, <2>4, LeftWhole
  <2>n. PICK n \in Nat : n = cd[Entered].size BY <2>4 DEF Entry
  <2>d. PICK d \in Seq(Nat) : d = disk[Entered].data
    <3>1. disk[Entered] \in OnDisk BY <1>0, <2>4
    <3> QED BY <3>1 DEF OnDisk
  <2>c. /\ cur.restu \in Nat /\ cur.restc \in Nat /\ cur.avail \in Nat /\ buf \in Seq(Nat) /\ fresh \in Seq(Nat)
        /\ avail_out \in Nat
    BY <1>p DEF BufferInv
  <2>f. zpc \in InFile =>
          /\ ~cd[Entered].dir /\ cur.e = Entered /\ cur.restc + cur.avail = cur.restu /\ fout = "open"
          /\ disk[Entered].kind = "file" /\ Streams(d, buf, fresh, cur.restu, n)
    BY <2>3, <2>d, <2>n DEF FineBody, Flows
  <2>k. UNCHANGED <<cd, numfile, disk>> =>
          Flows' = (disk[Entered].kind = "file" /\ Streams(d, buf', fresh', cur'.restu, n))
    BY <2>d, <2>n DEF Flows, Entered
  <2>6. CASE Info
    <3>1. /\ zpc = "info" /\ zpc' = "alloc" /\ UNCHANGED <<numfile, currentfileok, disk, err>>
      BY <2>6, <2>3, <2>4 DEF Info, InfoRead, Sound, walk
    <3>2. \A k \in 1 .. numfile' : WholeFile(k)' BY <2>l, <3>1
    <3> QED BY <2>4, <3>1, <3>2 DEF FineBody, Entered
  <2>7. CASE AllocTmp
    <3>1. zpc = "alloc" /\ UNCHANGED <<numfile, currentfileok, err>> /\ buf' = <<>>
      BY <2>7 DEF AllocTmp, walk
    <3>2. CASE cd[Entered].dir /\ zpc' = "next" /\ entryerr' = OK /\ disk' = [disk EXCEPT ![Entered].kind = "dir"]
      <4>1. PICK r \in OnDisk : r = disk[Entered] BY <1>0, <2>4
      <4>2. disk'[Entered] = [r EXCEPT !.kind = "dir"] BY <1>0, <2>4, <3>2, <4>1
      <4>3. disk'[Entered].kind = "dir" BY <4>2 DEF OnDisk
      <4>4. \A k \in 1 .. MaxEntries : k # Entered => disk'[k] = disk[k] BY <1>0, <3>2
      <4>5. \A k \in 1 .. numfile' : WholeFile(k)' BY <2>l, <3>1, <4>4
      <4>6. WholeFile(Entered)' BY <2>1, <3>1, <3>2, <4>3 DEF WholeFile, Entered
      <4> QED BY <2>4, <3>1, <3>2, <4>5, <4>6 DEF FineBody
    <3>3. CASE ~cd[Entered].dir /\ zpc' = "open" /\ UNCHANGED disk
      <4>1. \A k \in 1 .. numfile' : WholeFile(k)' BY <2>l, <3>1, <3>3
      <4> QED BY <2>1, <2>4, <3>1, <3>3, <4>1 DEF FineBody, Entered
    <3> QED BY <2>3, <2>7, <3>2, <3>3 DEF AllocTmp
  <2>8. CASE ZipOpenCurrentFile
    <3>1. /\ zpc = "open" /\ zpc' = "fopen" /\ UNCHANGED <<numfile, currentfileok, err, disk, buf>>
          /\ cur' = [e |-> Entered, restc |-> cd[Entered].packed, restu |-> cd[Entered].size, avail |-> 0]
      BY <2>8, <2>3, <2>4 DEF ZipOpenCurrentFile, Coherent, Sound, walk
    <3>2. \A k \in 1 .. numfile' : WholeFile(k)' BY <2>l, <3>1
    <3>3. PICK w : w = Entered OBVIOUS
    <3>4. cd[Entered].packed = n BY <2>4, <2>n DEF Sound
    <3>5. cur' = [e |-> w, restc |-> n, restu |-> n, avail |-> 0] BY <2>n, <3>1, <3>3, <3>4
    <3>6. cur'.e = w /\ cur'.restc + cur'.avail = cur'.restu /\ cur'.restu = n BY <3>5
    <3>7. Entered' = w /\ cd'[Entered'].size = n /\ ~cd'[Entered'].dir
      BY <2>1, <2>3, <2>n, <3>1, <3>3 DEF FineBody, Entered
    <3>8. buf' = <<>> BY <2>3, <3>1 DEF FineBody
    <3> QED BY <2>4, <3>1, <3>2, <3>6, <3>7, <3>8 DEF FineBody
  <2>9. CASE OpenOut
    <3>1. /\ zpc = "fopen" /\ zpc' = "read" /\ UNCHANGED <<numfile, currentfileok, err, cur, buf, fresh>>
          /\ fout' = "open" /\ disk' = [disk EXCEPT ![Entered] = [kind |-> "file", data |-> <<>>]]
      BY <2>9, <2>3 DEF OpenOut, walk, reading
    <3>2. \A k \in 1 .. MaxEntries : k # Entered => disk'[k] = disk[k] BY <1>0, <3>1
    <3>3. \A k \in 1 .. numfile' : WholeFile(k)' BY <2>l, <3>1, <3>2
    <3>4. buf = <<>> /\ fresh = <<>> /\ cur.restu = n /\ ~cd[Entered].dir /\ cur.e = Entered
          /\ cur.restc + cur.avail = cur.restu
      BY <1>p, <2>3, <2>n, <3>1 DEF FineBody, BufferInv
    <3>5. disk'[Entered] = [kind |-> "file", data |-> <<>>] BY <1>0, <2>4, <3>1
    <3>6. PICK w : w = Entered OBVIOUS
    <3>7. Entered' = w /\ disk'[w].kind = "file" /\ disk'[w].data = <<>> /\ cd'[w].size = n
      BY <2>1, <2>n, <3>1, <3>5, <3>6 DEF Entered
    <3>8. Streams(<<>>, <<>>, <<>>, n, n) BY StreamStarts
    <3>9. Flows' BY <3>1, <3>4, <3>7, <3>8 DEF Flows
    <3>10. Len(buf') < OutSize BY <1>0, <1>l, <3>1, <3>4
    <3> QED BY <2>1, <2>4, <3>1, <3>3, <3>4, <3>6, <3>7, <3>9, <3>10 DEF FineBody
  <2>10. CASE ReadBegin
    <3>1. /\ zpc = "read" /\ UNCHANGED <<numfile, currentfileok, err, cur, buf, fout, disk>> /\ fresh' = <<>>
      BY <2>10 DEF ReadBegin, walk
    <3>2. cur.e # 0 BY <2>4, <2>f, <3>1 DEF Entered
    <3>3. zpc' = "copy" /\ avail_out' = Min2(OutSize - Len(buf), cur.restu) BY <2>10, <3>2 DEF ReadBegin
    <3>4. fresh = <<>> BY <1>p, <3>1 DEF BufferInv
    <3>5. Flows' BY <2>1, <2>f, <2>k, <3>1, <3>4
    <3>6. \A k \in 1 .. numfile' : WholeFile(k)' BY <2>l, <3>1
    <3>7. Len(buf) < OutSize BY <2>3, <3>1 DEF FineBody
    <3> QED BY <2>1, <2>4, <2>f, <3>1, <3>3, <3>5, <3>6, <3>7 DEF FineBody, Entered
  <2>11. CASE Refill
    <3>1. zpc = "copy" /\ KeepCopy /\ cur.avail = 0 BY <2>11 DEF Refill, Reading
    <3>2. UNCHANGED <<numfile, currentfileok, err, fout, disk>> BY <3>1 DEF KeepCopy, walk
    <3>3. PICK m : /\ m = Min2(InSize, cur.restc) /\ cur' = [cur EXCEPT !.avail = m, !.restc = @ - m]
                   /\ UNCHANGED <<zpc, buf, fresh, avail_out>>
      BY <2>11, <2>3 DEF Refill
    <3>4. m \in Nat BY <1>0, <2>c, <3>3 DEF Min2
    <3>5. cur'.e = cur.e /\ cur'.restu = cur.restu /\ cur'.avail = m /\ cur'.restc = cur.restc - m
      BY <1>p, <3>3 DEF BufferInv
    <3>6. cur'.restc + cur'.avail = cur'.restu BY <2>c, <2>f, <3>1, <3>4, <3>5
    <3>7. Flows' BY <2>1, <2>f, <2>k, <3>1, <3>2, <3>3, <3>5
    <3>8. \A k \in 1 .. numfile' : WholeFile(k)' BY <2>l, <3>2
    <3>9. Len(buf) < OutSize /\ (fresh = <<>> => avail_out = Min2(OutSize - Len(buf), cur.restu))
      BY <2>3, <3>1 DEF FineBody
    <3> QED BY <2>1, <2>4, <2>f, <3>1, <3>2, <3>3, <3>5, <3>6, <3>7, <3>8, <3>9 DEF FineBody, Entered
  <2>12. CASE Copy
    <3>1. zpc = "copy" /\ KeepCopy /\ cur.avail > 0 /\ avail_out > 0 /\ UNCHANGED <<zpc, buf>>
      BY <2>12 DEF Copy, Reading
    <3>2. UNCHANGED <<numfile, currentfileok, err, fout, disk>> BY <3>1 DEF KeepCopy, walk
    <3>3. PICK m : /\ m = Min2(avail_out, cur.avail)
                   /\ fresh' = fresh \o [k \in 1 .. m |-> Position + k]
                   /\ cur' = [cur EXCEPT !.avail = @ - m, !.restu = @ - m]
      BY <2>12 DEF Copy
    <3>4. m \in Nat /\ m > 0 /\ m <= cur.avail /\ m <= cur.restu
      BY <2>c, <2>f, <3>1, <3>3 DEF Min2
    <3>5. cur'.e = cur.e /\ cur'.restu = cur.restu - m /\ cur'.avail = cur.avail - m /\ cur'.restc = cur.restc
      BY <1>p, <3>3 DEF BufferInv
    <3>6. cur'.restc + cur'.avail = cur'.restu BY <2>c, <2>f, <3>1, <3>4, <3>5
    <3>r. PICK r \in Nat : r = cur.restu /\ m <= r BY <2>c, <3>4
    <3>7. Position = n - r BY <2>f, <2>n, <3>1, <3>r DEF Position
    <3>8. PICK t : t = UnitsAfter(n - r, m) OBVIOUS
    <3>9. fresh' = fresh \o t BY <3>3, <3>7, <3>8 DEF UnitsAfter
    <3>10. Streams(d, buf, fresh, r, n) BY <2>f, <3>1, <3>r
    <3>11. Streams(d, buf, fresh \o t, r - m, n) /\ Len(fresh \o t) = Len(fresh) + m
      <4>1. m \in Nat /\ m <= r BY <3>4, <3>r
      <4>2. buf \in Seq(Nat) /\ fresh \in Seq(Nat) BY <2>c
      <4>3. Copied(d, buf, fresh, r, n, m) BY <4>1, <4>2, <3>10, StreamCopies
      <4> QED BY <4>3, <3>8 DEF Copied
    <3>12. Flows' BY <2>1, <2>f, <2>k, <3>1, <3>2, <3>5, <3>9, <3>11, <3>r
    <3>13. fresh' # <<>> BY <1>l, <3>4, <3>9, <3>11
    <3>14. \A k \in 1 .. numfile' : WholeFile(k)' BY <2>l, <3>2
    <3>15. Len(buf) < OutSize BY <2>3, <3>1 DEF FineBody
    <3> QED BY <2>1, <2>4, <2>f, <3>1, <3>2, <3>5, <3>6, <3>12, <3>13, <3>14, <3>15 DEF FineBody, Entered
  <2>13. CASE DataEnds
    <3>1. zpc = "copy" /\ avail_out > 0 /\ cur.avail = 0 /\ cur.restc = 0 BY <2>13 DEF DataEnds, Reading
    <3>2. cur.restu = 0 /\ avail_out <= cur.restu BY <1>p, <2>c, <2>f, <3>1 DEF BufferInv
    <3> QED BY <2>c, <3>1, <3>2
  <2>14. CASE DataBad
    <3>1. zpc = "copy" /\ ~cd[cur.e].crc BY <2>14 DEF DataBad, Reading
    <3> QED BY <2>4, <2>f, <3>1 DEF Sound
  <2>15. CASE ReadEnd
    <3>1. zpc = "copy" /\ avail_out = 0 /\ cur' = cur /\ KeepCopy /\ buf' = buf \o fresh /\ fresh' = <<>>
          /\ zpc' = IF fresh = <<>> THEN "last" ELSE "write"
      BY <2>15 DEF ReadEnd, ReadReturns
    <3>2. UNCHANGED <<numfile, currentfileok, err, fout, disk>> BY <3>1 DEF KeepCopy, walk
    <3>3. Streams(d, buf, fresh, cur.restu, n) BY <2>f, <3>1
    <3>4. Streams(d, buf \o fresh, <<>>, cur.restu, n) BY <2>c, <3>3, StreamReturns
    <3>5. Flows' BY <2>1, <2>f, <2>k, <3>1, <3>2, <3>4
    <3>6. \A k \in 1 .. numfile' : WholeFile(k)' BY <2>l, <3>2
    <3>7. fresh = <<>> => cur.restu = 0
      <4>1. Len(buf) < OutSize /\ (fresh = <<>> => avail_out = Min2(OutSize - Len(buf), cur.restu))
        BY <2>3, <3>1 DEF FineBody
      <4> QED BY <1>0, <1>l, <2>c, <3>1, <4>1 DEF Min2
    <3> QED BY <2>1, <2>4, <2>f, <3>1, <3>2, <3>5, <3>6, <3>7 DEF FineBody, Entered
  <2>16. ASSUME zpc \in {"write", "last"}, NEW to, WriteOut(to), UNCHANGED <<numfile, currentfileok, err, cur, fresh>>
         PROVE  /\ \A k \in 1 .. numfile' : WholeFile(k)'
                /\ buf' = <<>> /\ disk'[Entered].kind = "file"
                /\ disk'[Entered].data = d \o buf /\ Streams(d \o buf, <<>>, <<>>, cur.restu, n)
    <3>1. buf' = <<>> /\ Rewrites(Entered, [kind |-> disk[Entered].kind, data |-> disk[Entered].data \o buf])
      BY <2>16, <2>3, <2>f, WritesOut
    <3>2. PICK r : r = [kind |-> disk[Entered].kind, data |-> disk[Entered].data \o buf] OBVIOUS
    <3>3. /\ disk'[Entered] = r
          /\ \A j \in 1 .. MaxEntries : j # Entered => disk'[j] = disk[j]
      BY <1>0, <2>4, <3>1, <3>2, Rewritten
    <3>4. r.kind = "file" /\ r.data = d \o buf BY <2>16, <2>d, <2>f, <3>2
    <3>5. fresh = <<>> BY <1>p, <2>16 DEF BufferInv
    <3>6. Streams(d \o buf, <<>>, <<>>, cur.restu, n) BY <2>16, <2>c, <2>f, <3>5, StreamWrites
    <3> QED BY <2>16, <2>l, <3>1, <3>3, <3>4, <3>6
  <2>17. CASE Flush
    <3>1. zpc = "write" /\ UNCHANGED <<numfile, currentfileok, err, cur, fresh, fout>> /\ zpc' = "read"
      BY <2>17 DEF Flush, WriteOut, walk
    <3>2. fresh = <<>> BY <1>p, <3>1 DEF BufferInv
    <3>3. CASE Full
      <4>1. WriteOut("read") BY <2>17, <3>3 DEF Flush
      <4>2. /\ \A k \in 1 .. numfile' : WholeFile(k)'
            /\ buf' = <<>> /\ disk'[Entered].kind = "file"
            /\ disk'[Entered].data = d \o buf /\ Streams(d \o buf, <<>>, <<>>, cur.restu, n)
        BY <2>16, <3>1, <4>1
      <4>3. PICK w : w = Entered OBVIOUS
      <4>4. Entered' = w /\ cd'[w].size = n BY <2>1, <2>n, <3>1, <4>3 DEF Entered
      <4>5. Flows' BY <3>1, <3>2, <4>2, <4>3, <4>4 DEF Flows
      <4>6. Len(buf') < OutSize BY <1>0, <1>l, <4>2
      <4> QED BY <2>1, <2>4, <2>f, <3>1, <4>2, <4>3, <4>4, <4>5, <4>6 DEF FineBody
    <3>4. CASE ~Full
      <4>1. UNCHANGED <<buf, disk>> BY <2>17, <3>4 DEF Flush
      <4>2. Flows' BY <2>1, <2>f, <2>k, <3>1, <4>1
      <4>3. \A k \in 1 .. numfile' : WholeFile(k)' BY <2>l, <3>1, <4>1
      <4>4. Len(buf) < OutSize
        <5>1. Len(buf) + Len(fresh) + avail_out <= OutSize BY <1>p DEF BufferInv
        <5> QED BY <1>0, <1>l, <2>c, <3>4, <5>1 DEF Full
      <4> QED BY <2>1, <2>4, <2>f, <3>1, <4>1, <4>2, <4>3, <4>4 DEF FineBody, Entered
    <3> QED BY <3>3, <3>4
  <2>18. CASE FlushLast
    <3>1. zpc = "last" /\ UNCHANGED <<numfile, currentfileok, err, cur, fresh>> /\ zpc' = "close"
      BY <2>18 DEF FlushLast, WriteOut, walk
    <3>2. fresh = <<>> /\ cur.restu = 0 BY <1>p, <2>3, <3>1 DEF BufferInv, FineBody
    <3>3. PICK w \in 1 .. MaxEntries : w = Entered BY <2>4
    <3>4. Entered' = w BY <3>1, <3>3 DEF Entered
    <3>5. /\ \A k \in 1 .. numfile' : WholeFile(k)'
          /\ disk'[w].kind = "file" /\ disk'[w].data = [u \in 1 .. n |-> u]
      <4>1. CASE buf # <<>>
        <5>1. WriteOut("close") BY <2>18, <4>1 DEF FlushLast
        <5>2. /\ \A k \in 1 .. numfile' : WholeFile(k)'
              /\ disk'[Entered].kind = "file"
              /\ disk'[Entered].data = d \o buf /\ Streams(d \o buf, <<>>, <<>>, cur.restu, n)
          BY <2>16, <3>1, <5>1
        <5>3. PICK e \in Seq(Nat) : e = d \o buf
          <6>1. d \o buf \in Seq(Nat) BY <2>c
          <6> QED BY <6>1
        <5>4. e = [u \in 1 .. n |-> u] BY <3>2, <5>2, <5>3, StreamEnds
        <5> QED BY <3>3, <5>2, <5>3, <5>4
      <4>2. CASE buf = <<>>
        <5>1. UNCHANGED disk BY <2>18, <4>2 DEF FlushLast
        <5>2. \A k \in 1 .. numfile' : WholeFile(k)' BY <2>l, <3>1, <5>1
        <5>3. Streams(d, <<>>, <<>>, 0, n) BY <2>f, <3>1, <3>2, <4>2
        <5>4. d = [u \in 1 .. n |-> u] BY <5>3, StreamEnds
        <5> QED BY <2>d, <2>f, <3>1, <3>3, <5>1, <5>2, <5>4
      <4> QED BY <4>1, <4>2
    <3>6. disk'[w] \in OnDisk
      <4>1. disk' \in [1 .. MaxEntries -> OnDisk]
        <5>1. DiskInv' BY DiskStep
        <5> QED BY <5>1 DEF DiskInv, OnDisk
      <4> QED BY <4>1
    <3>7. disk'[w] = [kind |-> "file", data |-> [u \in 1 .. n |-> u]]
      <4>1. PICK r \in OnDisk : r = disk'[w] BY <3>6
      <4>2. r = [kind |-> r.kind, data |-> r.data] BY DEF OnDisk
      <4> QED BY <3>5, <4>1, <4>2
    <3>8. cd'[w].size = n /\ ~cd'[w].dir BY <2>1, <2>f, <2>n, <3>1, <3>3
    <3>9. WholeFile(Entered)' BY <3>4, <3>7, <3>8 DEF WholeFile
    <3> QED BY <2>1, <2>4, <2>f, <3>1, <3>3, <3>4, <3>5, <3>8, <3>9 DEF FineBody
  <2>19. CASE CloseEntry
    <3>1. /\ zpc = "close" /\ zpc' = "next" /\ UNCHANGED <<numfile, currentfileok, err, disk>>
          /\ entryerr' = CloseResult
      BY <2>19 DEF CloseEntry, walk
    <3>2. cur.e = Entered /\ WholeFile(Entered) BY <2>3, <3>1 DEF FineBody
    <3>3. entryerr' = OK BY <2>4, <3>1, <3>2 DEF CloseResult, SumOk, Sound, Entered
    <3>4. \A k \in 1 .. numfile' : WholeFile(k)' BY <2>l, <3>1
    <3>5. PICK w : w = Entered OBVIOUS
    <3>6. Entered' = w /\ WholeFile(w)' BY <2>w, <3>1, <3>2, <3>5 DEF Entered
    <3>7. WholeFile(Entered)' BY <3>1, <3>2, <2>1 DEF WholeFile, Entered
    <3> QED BY <2>4, <3>1, <3>3, <3>4, <3>7 DEF FineBody
  <2>20. CASE NextEntry
    <3>1. zpc = "next" /\ UNCHANGED disk BY <2>20 DEF NextEntry
    <3>2. entryerr = OK /\ WholeFile(Entered) BY <2>3, <3>1 DEF FineBody
    <3>3. numfile = i /\ Entered = i + 1 BY <1>b, <1>p, <2>4 DEF PlaceInv, Entered
    <3>4. \A k \in 1 .. numfile + 1 : WholeFile(k)'
      <4> SUFFICES ASSUME NEW k \in 1 .. numfile + 1 PROVE WholeFile(k)' OBVIOUS
      <4>1. WholeFile(k)
        <5>1. CASE k = numfile + 1 BY <3>2, <5>1 DEF Entered
        <5>2. CASE k \in 1 .. numfile BY <2>4, <5>2
        <5> QED BY <1>0, <5>1, <5>2
      <4> QED BY <2>w, <3>1, <4>1
    <3>5. CASE i + 1 = Len(cd)
      <4>1. zpc' = "ret" /\ UNCHANGED err BY <2>20, <3>5 DEF NextEntry
      <4>2. DOMAIN cd' = 1 .. numfile + 1 BY <1>0, <2>1, <3>3, <3>5
      <4>3. AllWhole' BY <3>4, <4>2 DEF AllWhole
      <4> QED BY <2>4, <4>1, <4>3 DEF FineBody, Busy
    <3>6. CASE i + 1 # Len(cd)
      <4>1. zpc' = "info" /\ GotoNext BY <2>20, <3>2, <3>6 DEF NextEntry
      <4>2. numfile' = numfile + 1 /\ \E ok \in BOOLEAN :
               InfoRead(numfile + 2, ok) /\ currentfileok' = ok /\ err' = IF ok THEN OK ELSE ERRNO
        BY <2>4, <3>3, <3>6, <4>1 DEF GotoNext
      <4>3. numfile + 2 \in DOMAIN cd /\ cd[numfile + 2].record
        <5>1. numfile + 1 \in 1 .. Len(cd) /\ numfile + 1 # Len(cd) BY <2>4, <3>3, <3>6 DEF Entered
        <5>2. numfile + 2 \in 1 .. Len(cd) BY <1>0, <5>1
        <5>3. numfile + 2 \in DOMAIN cd BY <1>0, <5>2
        <5> QED BY <2>3, <5>3 DEF Fine, Sound
      <4>4. currentfileok' /\ err' = OK BY <2>3, <4>2, <4>3 DEF InfoRead
      <4> QED BY <3>4, <4>1, <4>2, <4>4 DEF FineBody
    <3> QED BY <3>5, <3>6
  <2> QED
    BY <1>b, <2>0, <2>6, <2>7, <2>8, <2>9, <2>10, <2>11, <2>12, <2>13, <2>14, <2>15, <2>17, <2>18, <2>19, <2>20
    DEF ZipStep, Opening, Closing, ZipOpenFound, ZipExtract
<1>r. zpc \in Busy \/ zpc \in {"off", "locate", "ready", "ret"} BY <1>p DEF PlaceInv
<1>s. zpc \notin Busy /\ ZipStep => ZipOpenFound \/ ZipExtract
  BY DEF ZipStep, Info, AllocTmp, ZipOpenCurrentFile, OpenOut, ReadBegin, Refill, Copy, DataEnds, DataBad,
         ReadEnd, Reading, Flush, FlushLast, CloseEntry, NextEntry, Busy
<1> QED BY <1>1, <1>2, <1>3, <1>4, <1>5, <1>b, <1>s

(* A sound archive on a system where nothing fails: what was left is whole, and
   what is under way is whole so far. *)
THEOREM FineInvariant == Spec => []FineInv
<1>1. Init => FineInv BY DEF Init, ZipInit, FineInv
<1>2. ZipInv /\ FineInv /\ [Next]_vars => FineInv' BY ZipMoves, FineStep
<1> QED BY <1>1, <1>2, ZipInvariant, PTL DEF Spec

(* A sound archive on a system where nothing fails comes out whole, and
   ZipExtract says so, for any sizes of the two buffers and of the entries. *)
THEOREM UnpackedWholeHolds == Spec => []UnpackedWhole
<1>1. FineInv => UnpackedWhole BY DEF FineInv, FineBody, Fine, UnpackedWhole
<1> QED BY <1>1, FineInvariant, PTL

(***************************************************************************)
(* Types.                                                                  *)
(***************************************************************************)
RestInv ==
    /\ asking \in {"init", "queue", "open", "write", "end", "dead"}
    /\ turn \in 1 .. Len(Wants) + 1
    /\ asking \in {"open", "write"} => turn \in Tasks
    /\ task \in {0} \cup Tasks
    /\ dialog \in {"off", "ready", "open"} /\ promoter \in {"off", "on"}

(* Every variable of the plugin, of the reader and of the application has its
   type. *)
THEOREM ExportTypeCorrect == Spec => []TypeOK
<1>0. Len(Wants) \in Nat /\ Tasks = 1 .. Len(Wants) BY QueueAssumption DEF Tasks
<1>1. Init => RestInv BY <1>0 DEF Init, QueueInit, RestInv
<1>2. ASSUME RestInv, ExportInv, [Next]_vars PROVE RestInv'
  <2>1. CASE UNCHANGED <<asking, turn, task, dialog, promoter>> BY <1>2, <2>1 DEF RestInv
  <2>2. CASE Exporting
    <3>1. UNCHANGED <<asking, turn>>
      BY <2>2 DEF Exporting, ExportFile, ReadPdb, ReadParams, Ask, Answer, UnpackBegin, UnpackEnd, MakeHead,
                  PromoteApp, SaveFile, Return, KeepQueue, queueVars
    <3>2. task' = task \/ task' \in {0} \cup Tasks
      BY <2>2 DEF Exporting, ExportFile, ReadPdb, ReadParams, Ask, Answer, UnpackBegin, UnpackEnd, MakeHead,
                  PromoteApp, SaveFile, Return, exportVars
    <3>3. dialog' = dialog \/ dialog' \in {"off", "ready", "open"}
      BY <2>2 DEF Exporting, ExportFile, ReadPdb, ReadParams, Ask, Answer, UnpackBegin, UnpackEnd, MakeHead,
                  PromoteApp, SaveFile, exportVars
    <3>4. promoter' = promoter \/ promoter' \in {"off", "on"}
      BY <2>2 DEF Exporting, ExportFile, ReadPdb, ReadParams, Ask, Answer, UnpackBegin, UnpackEnd, MakeHead,
                  PromoteApp, SaveFile, exportVars
    <3> QED BY <1>2, <3>1, <3>2, <3>3, <3>4 DEF RestInv
  <2>3. CASE QueueNext /\ UNCHANGED exportVars
    <3>1. UNCHANGED <<task, dialog, promoter>> BY <2>3 DEF exportVars
    <3>2. \/ UNCHANGED <<asking, turn>>
          \/ UNCHANGED turn /\ asking' \in {"queue", "dead"}
          \/ turn \in Tasks /\ Further
          \/ turn \in Tasks /\ UNCHANGED turn /\ asking' \in {"open", "write"}
      BY <1>2, <2>3
      DEF QueueNext, BgdlInit, BgdlQueue, OpenParams, WriteParams, Download, RestInv
    <3> QED BY <1>0, <1>2, <3>1, <3>2 DEF Further, RestInv
  <2>4. CASE HookNext /\ UNCHANGED queueVars
    BY <1>2, <2>4 DEF HookNext, StartBegin, StartPatch, StopBegin, StopPatch, exportVars, queueVars, RestInv
  <2> QED BY <1>2, <2>1, <2>2, <2>3, <2>4 DEF Next, vars, exportVars, queueVars
<1>3. ZipInv /\ HookInv /\ ExportInv /\ RestInv => TypeOK
  <2> SUFFICES ASSUME ZipInv, HookInv, ExportInv, RestInv PROVE TypeOK OBVIOUS
  <2>1. ZipTypeOK
    BY DEF ZipInv, PlaceInv, DiskInv, BufferInv, ZipTypeOK, Busy, Codes
  <2>2. QueueTypeOK BY DEF ExportInv, QueueInv, RestInv, QueueTypeOK
  <2> QED BY <2>1, <2>2 DEF HookInv, ExportInv, ExportTypes, RestInv, TypeOK
<1> QED BY <1>1, <1>2, <1>3, HookInvariant, ZipInvariant, ExportInvariant, PTL DEF Spec
=============================================================================
