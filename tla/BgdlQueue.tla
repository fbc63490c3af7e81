----------------------------- MODULE BgdlQueue ------------------------------
(***************************************************************************)
(* bgvpk: source/sample_app, an application that queues downloads with the *)
(* system's background downloader and leaves bgvpk a parameter file beside *)
(* each.  The downloader is external; it goes to work at once.             *)
(***************************************************************************)
EXTENDS Integers, Sequences

CONSTANT Wants   \* the downloads the application asks for, in order

(* name: of the file, a vpk or not; from: "app" for a download of this
   application, "web" for one the system's browser queued; params: what is to
   be written beside it, NoParams for nothing. *)
NoParams == [write |-> FALSE, show |-> TRUE, target |-> TRUE]
Want == [name : STRING, vpk : BOOLEAN, from : {"app", "web"},
         params : [write : BOOLEAN, show : BOOLEAN, target : BOOLEAN]]

ASSUME QueueAssumption ==
    /\ Wants \in Seq(Want)
    /\ \A t \in DOMAIN Wants : Wants[t].from = "web" => ~Wants[t].params.write

Tasks == DOMAIN Wants

VARIABLES
    asking,  \* where main is: "init", "queue", "open", "write", "end", "dead"
    turn,    \* the download it is at
    bgdl,    \* of each: "none", "queued", "stuck", "loaded", "left"
    param    \* its parameter file: "none", "empty", "full"

queueVars == <<asking, turn, bgdl, param>>

QueueTypeOK ==
    /\ asking \in {"init", "queue", "open", "write", "end", "dead"}
    /\ turn \in 1 .. Len(Wants) + 1
    /\ bgdl \in [Tasks -> {"none", "queued", "stuck", "loaded", "left"}]
    /\ param \in [Tasks -> {"none", "empty", "full"}]

QueueInit ==
    /\ asking = "init" /\ turn = 1
    /\ bgdl = [t \in Tasks |-> "none"] /\ param = [t \in Tasks |-> "none"]

(* bgdl_init; its result is only shown, and after a failure the next call goes
   through a null pointer. *)
BgdlInit ==
    /\ asking = "init"
    /\ asking' \in {"queue", "dead"}
    /\ UNCHANGED <<turn, bgdl, param>>

Further == turn' = turn + 1 /\ asking' = IF turn = Len(Wants) THEN "end" ELSE "queue"


(* bgdl_queue: the first request registers the download or fails; the failure of
   the second one, which starts it, is never seen: the result is unsigned. *)
BgdlQueue ==
    /\ asking = "queue" /\ turn \in Tasks
    /\ \/ Further /\ UNCHANGED bgdl
       \/ /\ \E s \in {"queued", "stuck"} : bgdl' = [bgdl EXCEPT ![turn] = s]
          /\ IF Wants[turn].params.write THEN asking' = "open" /\ UNCHANGED turn
             ELSE Further
    /\ UNCHANGED param

(* add_bgvpk_params: the file is made, then written. *)
OpenParams ==
    /\ asking = "open"
    /\ \/ param' = [param EXCEPT ![turn] = "empty"] /\ asking' = "write" /\ UNCHANGED turn
       \/ Further /\ UNCHANGED param
    /\ UNCHANGED bgdl

WriteParams ==
    /\ asking = "write"
    /\ \/ param' = [param EXCEPT ![turn] = "full"]
       \/ UNCHANGED param
    /\ Further /\ UNCHANGED bgdl

(* The system's downloader. *)
Download(t) ==
    /\ bgdl[t] = "queued"
    /\ bgdl' = [bgdl EXCEPT ![t] = "loaded"]
    /\ UNCHANGED <<asking, turn, param>>

QueueNext == BgdlInit \/ BgdlQueue \/ OpenParams \/ WriteParams \/ \E t \in Tasks : Download(t)
=============================================================================
