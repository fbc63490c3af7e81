------------------------------ MODULE PdBridge ------------------------------
(***************************************************************************)
(* pdbridge: src/main.c.  System calls load and unload the diagnostic      *)
(* modules and keep their ids in a table, one entry for each module.  User *)
(* threads call them at any time; the table has no lock.  One thread is    *)
(* the test program, src/test/main.c, which loads module 5, starts itself  *)
(* anew when that loaded it, and unloads the module at its end.            *)
(***************************************************************************)
EXTENDS Integers, FiniteSets

CONSTANTS
    Thread,    \* user threads
    Tester,    \* the one that runs the test program
    Index,     \* 0 .. 20
    Tested,    \* 5
    MaxUid     \* bound on the modules the kernel starts

ASSUME PdBridgeAssumption ==
    /\ Tester \in Thread /\ Tested \in Index /\ MaxUid \in Nat

VARIABLES
    modids,   \* the table
    kernel,   \* the kernel's modules: id |-> index
    uids,     \* ids given out
    syscall,  \* a thread's system call
    test,     \* where the test program stands
    crossed   \* (history) two calls for one index have overlapped

bvars == <<modids, kernel, uids, syscall, test, crossed>>

Uid == 1 .. MaxUid
SysCall == [op : {"none", "load", "stop"}, index : Index,
            at : {"test", "kernel", "record", "return"}, uid : 0 .. MaxUid, ret : -1 .. MaxUid]
NoCall == [op |-> "none", index |-> Tested, at |-> "return", uid |-> 0, ret |-> -1]

BridgeTypeOK ==
    /\ modids \in [Index -> 0 .. MaxUid]
    /\ uids \in 0 .. MaxUid
    /\ DOMAIN kernel \subseteq 1 .. uids /\ \A u \in DOMAIN kernel : kernel[u] \in Index
    /\ syscall \in [Thread -> SysCall]
    /\ test \in {"load", "loading", "keys", "stop", "stopping", "done"}
    /\ crossed \in SUBSET Index

BridgeInit ==
    /\ modids = [i \in Index |-> 0]
    /\ kernel = [u \in {} |-> Tested] /\ uids = 0
    /\ syscall = [t \in Thread |-> NoCall]
    /\ test = "load" /\ crossed = {}

-----------------------------------------------------------------------------
At(t, op, at) == syscall[t].op = op /\ syscall[t].at = at
Move(t, at) == syscall' = [syscall EXCEPT ![t].at = at]
Busy(i) == {t \in Thread : syscall[t].op # "none" /\ syscall[t].index = i}

EnterCall(t, op, i) ==
    /\ syscall[t].op = "none"
    /\ syscall' = [syscall EXCEPT ![t] = [op |-> op, index |-> i, at |-> "test", uid |-> 0, ret |-> -1]]
    /\ crossed' = IF Busy(i) = {} THEN crossed ELSE crossed \cup {i}
    /\ UNCHANGED <<modids, kernel, uids>>

(* variant: a loaded module is loaded again *)
MayLoadAgain(i) == TRUE
MayLoad(i) == modids[i] = 0
MayStop(i) == modids[i] # 0

(* The id a stop passes on is read with the test or once more after it. *)
Test(t) ==
    /\ syscall[t].op # "none" /\ syscall[t].at = "test"
    /\ LET i == syscall[t].index
           may == IF syscall[t].op = "load" THEN MayLoad(i) ELSE MayStop(i)
       IN IF may THEN syscall' = [syscall EXCEPT ![t].at = "kernel", ![t].uid = modids[i]]
                 ELSE Move(t, "return")
    /\ UNCHANGED <<modids, kernel, uids, test, crossed>>

(* ksceKernelLoadStartModule *)
KernelLoad(t) ==
    /\ At(t, "load", "kernel")
    /\ \/ /\ uids < MaxUid /\ uids' = uids + 1
          /\ kernel' = [u \in DOMAIN kernel \cup {uids'} |->
                          IF u = uids' THEN syscall[t].index ELSE kernel[u]]
          /\ syscall' = [syscall EXCEPT ![t].at = "record", ![t].uid = uids', ![t].ret = uids']
       \/ Move(t, "return") /\ UNCHANGED <<uids, kernel>>
    /\ UNCHANGED <<modids, test, crossed>>

(* ksceKernelStopUnloadModule, which refuses an id that is no module's. *)
KernelStop(t) ==
    /\ At(t, "stop", "kernel")
    /\ \E uid \in {syscall[t].uid, modids[syscall[t].index]} :
          \/ /\ uid \in DOMAIN kernel
             /\ kernel' = [u \in DOMAIN kernel \ {uid} |-> kernel[u]]
             /\ syscall' = [syscall EXCEPT ![t].at = "record", ![t].uid = uid, ![t].ret = 0]
          \/ Move(t, "return") /\ UNCHANGED kernel
    /\ UNCHANGED <<modids, uids, test, crossed>>

(* variant: the entry of an unloaded module is kept *)
EntryKept(t) == syscall[t].uid
(* What a call that worked puts into the table. *)
Entry(t) == IF syscall[t].op = "load" THEN syscall[t].uid ELSE 0

Record(t) ==
    /\ syscall[t].op # "none" /\ syscall[t].at = "record"
    /\ modids' = [modids EXCEPT ![syscall[t].index] = Entry(t)]
    /\ Move(t, "return")
    /\ UNCHANGED <<kernel, uids, test, crossed>>

Serve(t) == Test(t) \/ KernelLoad(t) \/ KernelStop(t) \/ Record(t)

(* Any other thread calls what it likes. *)
OtherCalls(t) ==
    /\ t # Tester
    /\ \E op \in {"load", "stop"}, i \in Index : EnterCall(t, op, i)
    /\ UNCHANGED test
OtherReturns(t) ==
    /\ t # Tester /\ syscall[t].op # "none" /\ syscall[t].at = "return"
    /\ syscall' = [syscall EXCEPT ![t] = NoCall]
    /\ UNCHANGED <<modids, kernel, uids, test, crossed>>

-----------------------------------------------------------------------------
LoadedNow(ret) == ret > 0

TestLoad ==
    /\ test = "load" /\ test' = "loading"
    /\ EnterCall(Tester, "load", Tested)

(* The program is started anew when its call has loaded the module. *)
TestLoaded ==
    /\ test = "loading" /\ syscall[Tester].at = "return"
    /\ test' = IF LoadedNow(syscall[Tester].ret) THEN "load" ELSE "keys"
    /\ syscall' = [syscall EXCEPT ![Tester] = NoCall]
    /\ UNCHANGED <<modids, kernel, uids, crossed>>

(* START, the test, SELECT. *)
TestKeys ==
    /\ test = "keys" /\ test' = "stop"
    /\ UNCHANGED <<modids, kernel, uids, syscall, crossed>>

TestStop ==
    /\ test = "stop" /\ test' = "stopping"
    /\ EnterCall(Tester, "stop", Tested)

TestStopped ==
    /\ test = "stopping" /\ syscall[Tester].at = "return"
    /\ test' = "done"
    /\ syscall' = [syscall EXCEPT ![Tester] = NoCall]
    /\ UNCHANGED <<modids, kernel, uids, crossed>>

TestStep == TestLoad \/ TestLoaded \/ TestKeys \/ TestStop \/ TestStopped

BridgeNext ==
    \/ \E t \in Thread : Serve(t) \/ OtherCalls(t) \/ OtherReturns(t)
    \/ TestStep

BridgeSpec == BridgeInit /\ [][BridgeNext]_bvars

-----------------------------------------------------------------------------
(* However the calls overlap, an entry that names a module names one of its own
   index, which is loaded unless the stop that unloaded it has yet to clear
   the entry. *)
NoStaleEntry ==
    \A i \in Index : modids[i] # 0 =>
        \/ modids[i] \in DOMAIN kernel /\ kernel[modids[i]] = i
        \/ \E t \in Busy(i) : At(t, "stop", "record") /\ syscall[t].uid = modids[i]

(* As long as no two calls for an index have overlapped, its entry names the
   only module of that index, between calls. *)
TableExact ==
    \A i \in Index :
        i \notin crossed /\ Busy(i) = {} =>
            {u \in DOMAIN kernel : kernel[u] = i} = {modids[i]} \ {0}

=============================================================================
