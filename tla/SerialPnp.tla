----------------------------- MODULE SerialPnp -----------------------------
(***************************************************************************)
(* The gate of a serial port: serial/serial/utils.c (SerialIRPPrologue,    *)
(* SerialFilterIrps, SerialIRPEpilogue and the stall queue), the open and  *)
(* close of openclos.c and the PnP requests of pnp.c that shut the gate.   *)
(*                                                                         *)
(* Every request is counted in PendingIRPCnt on its way in and out.  The   *)
(* count also holds a placeholder, which a stop or a remove takes out to   *)
(* wait until the driver is empty.  While a stop is pending requests are   *)
(* stalled on a queue.  The PnP manager sends one request at a time.       *)
(***************************************************************************)
EXTENDS Integers, FiniteSets, SequencesExt

CONSTANTS
    Irps,       \* the requests that are not PnP requests
    Creates,    \* those that are IRP_MJ_CREATE
    Closes,     \* those that are IRP_MJ_CLOSE
    Reads,      \* those that may be left pending, and need an open port
    None,       \* no request
    PnpOps      \* the PnP requests that are sent

AllPnpOps == {"query_stop", "cancel_stop", "stop", "start", "query_remove",
              "cancel_remove", "surprise", "remove"}

ASSUME SerialPnpAssumption ==
    /\ Creates \cup Closes \cup Reads \subseteq Irps
    /\ Creates \cap Closes = {} /\ (Creates \cup Closes) \cap Reads = {}
    /\ IsFiniteSet(Irps)
    /\ None \notin Irps \cup AllPnpOps
    /\ PnpOps \subseteq AllPnpOps

VARIABLES
    accept,     \* DevicePNPAccept
    pnpState,   \* PNPState
    opened,     \* DeviceIsOpened
    openCount,  \* OpenCount
    pendingIRPCnt,
    pendingIRPEvent,    \* PendingIRPEvent, reset by the wait it ends
    stalled,    \* StalledIrpQueue
    cancel,     \* Irp->Cancel
    place,      \* how far each request has come
    completions,\* how often IoCompleteRequest was called on it
    handle,     \* the I/O manager has an open file
    op, pc,     \* the PnP request in progress and where it is
    unstalled,  \* the request SerialUnstallIrps is dispatching
    manager     \* what the PnP manager takes the device for

gateVars == <<accept, pnpState>>
openVars == <<opened, openCount, handle>>
countVars == <<pendingIRPCnt, pendingIRPEvent>>
irpVars == <<stalled, cancel, place, completions>>
pnpVars == <<op, pc, unstalled, manager>>
vars == <<gateVars, openVars, countVars, irpVars, pnpVars>>

\* From the prologue to the epilogue a request goes through these places.
Counted == {"counted", "stalling", "stalled", "accepted", "rejected",
            "pending", "opened", "done", "leaving", "dropped"}
Places == Counted \cup {"outside", "dispatched", "checked", "signal", "gone"}

\* A dispatch routine is running for a request that is here.
Dispatching == {"dispatched", "checked", "counted", "stalling", "accepted",
                "rejected", "opened", "done", "leaving", "signal"}

PnpPlaces == {"idle", "entered", "kill", "entry", "drain", "wait", "drained",
              "unstall", "dispatch", "leave", "signal"}

TypeOK ==
    /\ accept \subseteq {"removing", "stopping", "stopped", "surprise"}
    /\ pnpState \in {"started", "qstop", "stopping", "qremove", "restarting"}
    /\ opened \in BOOLEAN /\ openCount \in 0..1 /\ handle \in BOOLEAN
    /\ pendingIRPCnt \in Int /\ pendingIRPEvent \in BOOLEAN
    /\ stalled \in Seq(Irps)
    /\ cancel \in [Irps -> BOOLEAN]
    /\ place \in [Irps -> Places]
    /\ completions \in [Irps -> Nat]
    /\ op \in PnpOps \cup {None} /\ pc \in PnpPlaces
    /\ unstalled \in Irps \cup {None}
    /\ manager \in {"started", "stop granted", "stop refused", "stopped",
                    "remove granted", "remove refused", "failed",
                    "surprised", "removed"}

\* The device is added, started and closed.
Init ==
    /\ accept = {} /\ pnpState = "started"
    /\ opened = FALSE /\ openCount = 0 /\ handle = FALSE
    /\ pendingIRPCnt = 1 /\ pendingIRPEvent = FALSE
    /\ stalled = <<>>
    /\ cancel = [i \in Irps |-> FALSE]
    /\ place = [i \in Irps |-> "outside"]
    /\ completions = [i \in Irps |-> 0]
    /\ op = None /\ pc = "idle" /\ unstalled = None /\ manager = "started"

-----------------------------------------------------------------------------
(* Helpers. *)

At(i, p) == place[i] = p
Move(i, p) == place' = [place EXCEPT ![i] = p]
Complete(i) == completions' = [completions EXCEPT ![i] = @ + 1]

\* The requests the driver has counted.
InDriver == {i \in Irps : place[i] \in Counted}

\* A create holds OpenMutex from its prologue until it has opened the port or
\* is turned away.
OpenMutexFree ==
    \A i \in Creates : place[i] \notin {"counted", "stalling", "accepted"}

-----------------------------------------------------------------------------
(* The requests. *)

\* The I/O manager: reads and closes need an open file, the close is the last
\* request on it, and nothing is sent to a device that is being removed.
Submit(i) ==
    /\ At(i, "outside")
    /\ op # "remove" /\ manager # "removed"
    /\ i \in Reads \cup Closes => handle
    /\ i \in Closes => \A r \in Reads : place[r] \in {"outside", "gone"}
    /\ Move(i, "dispatched")
    /\ handle' = (handle /\ i \notin Closes)
    /\ UNCHANGED <<gateVars, opened, openCount, countVars, stalled, cancel,
                   completions, pnpVars>>

\* SerialCreateOpen looks at PNPState before it takes any lock; a create it
\* fails here does not go through SerialIRPEpilogue.
CheckCreate(i) ==
    /\ i \in Creates
    /\ At(i, "dispatched")
    /\ \/ /\ pnpState = "started"
          /\ Move(i, "checked")
          /\ UNCHANGED completions
       \/ /\ pnpState # "started"
          /\ Complete(i)
          /\ Move(i, "gone")
    /\ UNCHANGED <<gateVars, openVars, countVars, stalled, cancel, pnpVars>>

Prologue(i) ==
    /\ \/ i \notin Creates /\ At(i, "dispatched")
       \/ i \in Creates /\ At(i, "checked") /\ OpenMutexFree
    /\ pendingIRPCnt' = pendingIRPCnt + 1
    /\ Move(i, "counted")
    /\ UNCHANGED <<gateVars, openVars, pendingIRPEvent, stalled, cancel,
                   completions, pnpVars>>

\* Mutant: a request that is rejected is not taken out of the count.
FilterWithoutEpilogue(i) ==
    /\ At(i, "counted")
    /\ \/ /\ accept \cap {"removing", "surprise"} # {}
          /\ Complete(i)
          /\ Move(i, "gone")
       \/ /\ accept \cap {"removing", "surprise"} = {}
          /\ Move(i, IF "stopping" \in accept THEN "stalling" ELSE "accepted")
          /\ UNCHANGED completions
    /\ UNCHANGED <<gateVars, openVars, countVars, stalled, cancel, pnpVars>>

\* SerialFilterIrps under the flags lock, which it gives up before it stalls.
\* A device that is stopped, and no longer stopping, lets requests in.
Filter(i) ==
    /\ At(i, "counted")
    /\ \/ accept \cap {"removing", "surprise"} # {} /\ Move(i, "rejected")
       \/ /\ accept \cap {"removing", "surprise"} = {}
          /\ Move(i, IF "stopping" \in accept THEN "stalling" ELSE "accepted")
    /\ UNCHANGED <<gateVars, openVars, countVars, stalled, cancel,
                   completions, pnpVars>>

\* Mutant: the cancel flag is not looked at.
StallUnchecked(i) ==
    /\ At(i, "stalling")
    /\ stalled' = Append(stalled, i)
    /\ Move(i, "stalled")
    /\ UNCHANGED <<gateVars, openVars, countVars, cancel, completions,
                   pnpVars>>

\* The rest of it, under the cancel spin lock.
Stall(i) ==
    /\ At(i, "stalling")
    /\ \/ /\ cancel[i]
          /\ Move(i, "rejected")
          /\ UNCHANGED stalled
       \/ /\ ~cancel[i]
          /\ stalled' = Append(stalled, i)
          /\ Move(i, "stalled")
    /\ UNCHANGED <<gateVars, openVars, countVars, cancel, completions,
                   pnpVars>>

\* IoCancelIrp; SerialFilterCancelQueued takes a stalled request off the queue
\* and does not complete it.
Cancel(i) ==
    /\ i \notin Closes /\ ~cancel[i]
    /\ place[i] \in {"dispatched", "checked", "counted", "stalling", "stalled"}
    /\ cancel' = [cancel EXCEPT ![i] = TRUE]
    /\ \/ /\ At(i, "stalled")
          /\ Move(i, "dropped")
          /\ \E n \in DOMAIN stalled :
                 stalled[n] = i /\ stalled' = RemoveAt(stalled, n)
       \/ ~At(i, "stalled") /\ UNCHANGED <<place, stalled>>
    /\ UNCHANGED <<gateVars, openVars, countVars, completions, pnpVars>>

\* SerialCreateOpen: the port is opened once, or the create fails.
Open(i) ==
    /\ i \in Creates
    /\ At(i, "accepted")
    /\ \/ /\ openCount = 0
          /\ openCount' = 1 /\ opened' = TRUE
          /\ Move(i, "opened")
       \/ /\ Move(i, "done")
          /\ UNCHANGED <<openCount, opened>>
    /\ UNCHANGED <<gateVars, handle, countVars, stalled, cancel, completions,
                   pnpVars>>

\* SerialClose marks the port closed long before it is through.
Close(i) ==
    /\ i \in Closes
    /\ At(i, "accepted")
    /\ opened' = FALSE
    /\ Move(i, "done")
    /\ UNCHANGED <<gateVars, openCount, handle, countVars, stalled, cancel,
                   completions, pnpVars>>

\* Any other request is carried out; a read may wait on the read queue.
Perform(i) ==
    /\ i \notin Creates \cup Closes
    /\ At(i, "accepted")
    /\ Move(i, IF i \in Reads THEN "pending" ELSE "done")
    /\ UNCHANGED <<gateVars, openVars, countVars, stalled, cancel,
                   completions, pnpVars>>

\* Characters, a timer or its cancel routine end a pending read.
EndPending(i) ==
    /\ At(i, "pending")
    /\ Move(i, "done")
    /\ UNCHANGED <<gateVars, openVars, countVars, stalled, cancel,
                   completions, pnpVars>>

\* SerialCompleteRequest is IoCompleteRequest, then SerialIRPEpilogue, which
\* sets the event some time after it has seen the count reach zero.
CompleteRequest(i) ==
    /\ place[i] \in {"rejected", "opened", "done"}
    /\ Complete(i)
    /\ handle' = (handle \/ At(i, "opened"))
    /\ Move(i, "leaving")
    /\ UNCHANGED <<gateVars, opened, openCount, countVars, stalled, cancel,
                   pnpVars>>

\* Mutant: nobody is told that the count is zero.
EpilogueWithoutEvent(i) ==
    /\ At(i, "leaving")
    /\ pendingIRPCnt' = pendingIRPCnt - 1
    /\ openCount' = IF i \in Closes THEN 0 ELSE openCount
    /\ Move(i, "gone")
    /\ UNCHANGED <<gateVars, opened, handle, pendingIRPEvent, stalled, cancel,
                   completions, pnpVars>>

\* A close gives up OpenCount after that.
Epilogue(i) ==
    /\ At(i, "leaving")
    /\ pendingIRPCnt' = pendingIRPCnt - 1
    /\ openCount' = IF i \in Closes THEN 0 ELSE openCount
    /\ Move(i, IF pendingIRPCnt = 1 THEN "signal" ELSE "gone")
    /\ UNCHANGED <<gateVars, opened, handle, pendingIRPEvent, stalled, cancel,
                   completions, pnpVars>>

Signal(i) ==
    /\ At(i, "signal")
    /\ pendingIRPEvent' = TRUE
    /\ Move(i, "gone")
    /\ UNCHANGED <<gateVars, openVars, pendingIRPCnt, stalled, cancel,
                   completions, pnpVars>>

-----------------------------------------------------------------------------
(* The PnP requests.  The PnP manager is external. *)

\* Which request may follow which; a device that failed to restart is removed.
MaySend(o) ==
    CASE o \in {"query_stop", "query_remove"} -> manager = "started"
      [] o = "stop"          -> manager = "stop granted"
      [] o = "cancel_stop"   -> manager \in {"stop granted", "stop refused"}
      [] o = "start"         -> manager = "stopped"
      [] o = "cancel_remove" -> manager \in {"remove granted", "remove refused"}
      [] o = "surprise"      -> manager \in {"started", "stopped", "failed"}
      [] o = "remove"        -> manager \in {"remove granted", "surprised",
                                             "failed"}

\* A PnP request passes the gate and is counted like any other.  A remove is
\* not sent while a file is open or a request is on its way to the driver.
Enter(o) ==
    /\ op = None
    /\ MaySend(o)
    /\ o = "remove" =>
        /\ ~handle
        /\ \A i \in Irps : place[i] \notin {"dispatched", "checked", "opened"}
    /\ op' = o /\ pc' = "entered"
    /\ pendingIRPCnt' = pendingIRPCnt + 1
    /\ UNCHANGED <<gateVars, openVars, pendingIRPEvent, irpVars, unstalled,
                   manager>>

\* The request o is answered; m is what the manager makes of the answer.
Answer(o, m) ==
    /\ op = o /\ pc = "entered"
    /\ pc' = "leave"
    /\ manager' = m
    /\ UNCHANGED <<openVars, countVars, irpVars, op, unstalled>>

\* Mutant: OpenMutex is not taken.
GrantQueryUnlocked(o, m, state, bit) ==
    /\ ~opened
    /\ pnpState' = state
    /\ accept' = accept \cup {bit}
    /\ Answer(o, m)

\* A query is granted under OpenMutex if the port is not open.
GrantQuery(o, m, state, bit) ==
    /\ OpenMutexFree
    /\ ~opened
    /\ pnpState' = state
    /\ accept' = accept \cup {bit}
    /\ Answer(o, m)

RefuseQuery(o, m) ==
    /\ OpenMutexFree
    /\ opened
    /\ Answer(o, m)
    /\ UNCHANGED gateVars

QueryStop ==
    \/ GrantQuery("query_stop", "stop granted", "qstop", "stopping")
    \/ RefuseQuery("query_stop", "stop refused")

QueryRemove ==
    \/ GrantQuery("query_remove", "remove granted", "qremove", "removing")
    \/ RefuseQuery("query_remove", "remove refused")

\* The stalled requests stay on their queue.
CancelStop ==
    /\ IF pnpState = "qstop"
       THEN pnpState' = "started" /\ accept' = accept \ {"stopping"}
       ELSE UNCHANGED gateVars
    /\ Answer("cancel_stop", "started")

CancelRemove ==
    /\ pnpState' = "started"
    /\ accept' = accept \ {"removing"}
    /\ Answer("cancel_remove", "started")

PnpGo(p) == /\ pc' = p
            /\ UNCHANGED <<op, unstalled, manager>>

\* IRP_MN_STOP_DEVICE; STOPPED is set before STOPPING is cleared, which a
\* filter in between takes for stopping still.
Stop ==
    /\ op = "stop" /\ pc = "entered"
    /\ accept' = (accept \cup {"stopped"}) \ {"stopping"}
    /\ pnpState' = "stopping"
    /\ PnpGo("entry")
    /\ UNCHANGED <<openVars, countVars, irpVars>>

SurpriseRemoval ==
    /\ op = "surprise" /\ pc = "entered"
    /\ accept' = accept \cup {"surprise"}
    /\ PnpGo("kill")
    /\ UNCHANGED <<pnpState, openVars, countVars, irpVars>>

RemoveDevice ==
    /\ op = "remove" /\ pc = "entered"
    /\ accept' = accept \cup {"removing"}
    /\ PnpGo("kill")
    /\ UNCHANGED <<pnpState, openVars, countVars, irpVars>>

\* SerialKillPendingIrps as of the moment it finds its queues empty: pending
\* reads are completed, stalled requests cancelled.  A restart that failed then
\* shuts the gate.
KillPendingIrps ==
    /\ pc = "kill"
    /\ place' = [i \in Irps |-> CASE place[i] = "pending" -> "done"
                                  [] place[i] = "stalled" -> "dropped"
                                  [] OTHER -> place[i]]
    /\ cancel' = [i \in Irps |->
                     cancel[i] \/ place[i] \in {"pending", "stalled"}]
    /\ stalled' = <<>>
    /\ IF op = "start"
       THEN /\ accept' = accept \cup {"removing"}
            /\ pc' = "leave" /\ manager' = "failed"
       ELSE /\ pc' = "entry"
            /\ UNCHANGED <<accept, manager>>
    /\ UNCHANGED <<pnpState, openVars, countVars, completions, op, unstalled>>

\* Stop, surprise removal and remove take themselves out of the count, ...
DecrementForEntry ==
    /\ pc = "entry"
    /\ pendingIRPCnt' = pendingIRPCnt - 1
    /\ PnpGo("drain")
    /\ UNCHANGED <<gateVars, openVars, pendingIRPEvent, irpVars>>

\* Mutant: the count is not looked at.
DecrementPlaceholderUnchecked ==
    /\ pc = "drain"
    /\ pendingIRPCnt' = pendingIRPCnt - 1
    /\ PnpGo("drained")
    /\ UNCHANGED <<gateVars, openVars, pendingIRPEvent, irpVars>>

\* ... then the placeholder, and wait if that was not all.
DecrementPlaceholder ==
    /\ pc = "drain"
    /\ pendingIRPCnt' = pendingIRPCnt - 1
    /\ PnpGo(IF pendingIRPCnt = 1 THEN "drained" ELSE "wait")
    /\ UNCHANGED <<gateVars, openVars, pendingIRPEvent, irpVars>>

WaitForPendingIrps ==
    /\ pc = "wait"
    /\ pendingIRPEvent
    /\ pendingIRPEvent' = FALSE
    /\ PnpGo("drained")
    /\ UNCHANGED <<gateVars, openVars, pendingIRPCnt, irpVars>>

\* A stop puts the placeholder back and returns without an epilogue; ...
FinishStop ==
    /\ op = "stop" /\ pc = "drained"
    /\ pendingIRPCnt' = pendingIRPCnt + 1
    /\ op' = None /\ pc' = "idle" /\ manager' = "stopped"
    /\ UNCHANGED <<gateVars, openVars, pendingIRPEvent, irpVars, unstalled>>

\* ... a surprise removal returns through SerialIoCallDriver, which has one; ...
FinishSurpriseRemoval ==
    /\ op = "surprise" /\ pc = "drained"
    /\ pendingIRPCnt' = pendingIRPCnt + 1
    /\ pc' = "leave" /\ manager' = "surprised"
    /\ UNCHANGED <<gateVars, openVars, pendingIRPEvent, irpVars, op,
                   unstalled>>

\* ... a remove deletes the device.
FinishRemove ==
    /\ op = "remove" /\ pc = "drained"
    /\ op' = None /\ pc' = "idle" /\ manager' = "removed"
    /\ UNCHANGED <<gateVars, openVars, countVars, irpVars, unstalled>>

\* SerialFinishStartDevice of a stopped device.  The start may fail before it,
\* in the driver below, or in it.
StartFailsBelow ==
    /\ Answer("start", "failed")
    /\ UNCHANGED gateVars

\* A restart without memory for its parameters kills nothing.
RestartWithoutMemory ==
    /\ Answer("start", "failed")
    /\ pnpState' = "restarting"
    /\ UNCHANGED accept

Restart ==
    /\ op = "start" /\ pc = "entered"
    /\ pnpState' = "restarting"
    /\ \E p \in {"kill", "unstall"} : PnpGo(p)
    /\ UNCHANGED <<accept, openVars, countVars, irpVars>>

\* SerialUnstallIrps calls the dispatch routine of the first stalled request
\* and goes on when that returns.
UnstallIrp ==
    /\ pc = "unstall"
    /\ stalled # <<>>
    /\ stalled' = Tail(stalled)
    /\ Move(Head(stalled), "dispatched")
    /\ unstalled' = Head(stalled) /\ pc' = "dispatch"
    /\ UNCHANGED <<gateVars, openVars, countVars, cancel, completions, op,
                   manager>>

DispatchReturns ==
    /\ pc = "dispatch"
    /\ place[unstalled] \notin Dispatching
    /\ unstalled' = None /\ pc' = "unstall"
    /\ UNCHANGED <<gateVars, openVars, countVars, irpVars, op, manager>>

Restarted ==
    /\ pc = "unstall"
    /\ stalled = <<>>
    /\ pnpState' = "started" /\ accept' = {}
    /\ pc' = "leave" /\ manager' = "started"
    /\ UNCHANGED <<openVars, countVars, irpVars, op, unstalled>>

\* SerialIRPEpilogue of a PnP request.
Leave ==
    /\ pc = "leave"
    /\ pendingIRPCnt' = pendingIRPCnt - 1
    /\ IF pendingIRPCnt = 1
       THEN pc' = "signal" /\ UNCHANGED op
       ELSE pc' = "idle" /\ op' = None
    /\ UNCHANGED <<gateVars, openVars, pendingIRPEvent, irpVars, unstalled,
                   manager>>

LeaveSignal ==
    /\ pc = "signal"
    /\ pendingIRPEvent' = TRUE
    /\ pc' = "idle" /\ op' = None
    /\ UNCHANGED <<gateVars, openVars, pendingIRPCnt, irpVars, unstalled,
                   manager>>

-----------------------------------------------------------------------------
\* What goes on without anybody's doing once a request was sent.
Serve(i) == \/ CheckCreate(i) \/ Prologue(i) \/ Filter(i) \/ Stall(i)
            \/ Open(i) \/ Close(i) \/ Perform(i)
            \/ CompleteRequest(i) \/ Epilogue(i) \/ Signal(i)

ServePnp == \/ QueryStop \/ QueryRemove \/ CancelStop \/ CancelRemove
            \/ Stop \/ SurpriseRemoval \/ RemoveDevice
            \/ KillPendingIrps \/ DecrementForEntry \/ DecrementPlaceholder
            \/ WaitForPendingIrps
            \/ FinishStop \/ FinishSurpriseRemoval \/ FinishRemove
            \/ StartFailsBelow \/ RestartWithoutMemory \/ Restart
            \/ UnstallIrp \/ DispatchReturns \/ Restarted \/ Leave \/ LeaveSignal

Next == \/ \E i \in Irps : Submit(i) \/ Cancel(i) \/ EndPending(i) \/ Serve(i)
        \/ \E o \in PnpOps : Enter(o)
        \/ ServePnp

Spec == Init /\ [][Next]_vars

(***************************************************************************)
(* The kernel runs every thread that can go on.  Nobody has to send        *)
(* requests, to cancel them or to supply characters for a read.            *)
(***************************************************************************)
FairSpec == /\ Spec
            /\ \A i \in Irps : WF_vars(Serve(i))
            /\ WF_vars(ServePnp)

-----------------------------------------------------------------------------
(* Properties of the gate whatever PnP requests are sent. *)

\* The stall queue holds each stalled request once, and none of them has been
\* cancelled, whichever of IoCancelIrp and SerialFilterIrps came first.
StallQueueExact ==
    /\ \A i \in Irps : At(i, "stalled") <=> i \in Range(stalled)
    /\ IsInjective(stalled)
    /\ \A i \in Range(stalled) : ~cancel[i]

\* A stop or remove query is granted only for a closed port, and no create that
\* had passed the test of PNPState before opens it afterwards.
QueriedPortStaysClosed == pnpState \in {"qstop", "qremove"} => ~opened

-----------------------------------------------------------------------------
(* Properties of the gate of a port that is only removed: stops and surprise *)
(* removals upset the count; see the README.                                 *)

\* The placeholder, and the PnP request, in PendingIRPCnt.
Placeholder == IF pc \in {"wait", "drained"} \/ manager = "removed" THEN 0 ELSE 1
PnpInside == IF pc \in {"entered", "kill", "entry", "unstall", "dispatch",
                        "leave"} THEN 1 ELSE 0

\* PendingIRPCnt counts every request between its prologue and its epilogue
\* once, the PnP request and the placeholder.
PendingCountExact ==
    pendingIRPCnt = Placeholder + PnpInside
                    + Cardinality(InDriver)

\* When a remove goes on to delete the device no request is in the driver: the
\* wait is "for any pending requests we raced on" (IRP_MN_REMOVE_DEVICE).
RemoveDrains ==
    op = "remove" /\ pc = "drained" => InDriver = {}

\* A remove does not wait for ever.
RemoveCompletes == op = "remove" ~> manager = "removed"

-----------------------------------------------------------------------------
(***************************************************************************)
(* The inductive invariants SerialPnpProofs rests on: IInv for any PnP     *)
(* requests, CountInv for those that leave the count alone.                *)
(***************************************************************************)

\* A granted query shuts the gate with its bit, and no create is past it.
ClosedInv ==
    /\ pnpState = "qstop" => "stopping" \in accept
    /\ pnpState = "qremove" => "removing" \in accept
    /\ pnpState \in {"qstop", "qremove"} =>
           ~opened /\ \A i \in Creates : place[i] # "accepted"

IInv == /\ TypeOK
        /\ StallQueueExact
        /\ ClosedInv

\* A stop lets requests past the gate that is shut, a start sends them through
\* it twice, and a surprise removal takes the placeholder for itself.
CountingOps == {"query_stop", "cancel_stop", "query_remove", "cancel_remove",
                "remove"}

\* Where the PnP request can be; a removed device gets no other.
PnpInv ==
    /\ op = None <=> pc = "idle"
    /\ pc \notin {"unstall", "dispatch", "signal"}
    /\ pc \in {"kill", "entry", "drain", "wait", "drained"} => op = "remove"
    /\ op = "remove" => pc # "leave"
    /\ manager = "removed" => op = None

\* Nothing comes to the driver once a remove was sent, ...
NoneComesInv ==
    op = "remove" \/ manager = "removed" =>
        \A i \in Irps : place[i] \notin {"dispatched", "checked"}

\* ... and when it has drained the driver nothing is in it.
DrainedInv == pc = "drained" \/ manager = "removed" => InDriver = {}

\* The event is set once, by whoever saw the count at zero, for the remove
\* that waits for it.
SignalInv ==
    /\ pendingIRPEvent \/ (\E i \in Irps : At(i, "signal")) =>
           pc = "wait" /\ pendingIRPCnt = 0
    /\ \A i \in Irps : At(i, "signal") =>
           ~pendingIRPEvent /\ \A j \in Irps : At(j, "signal") => i = j

CountInv == /\ PnpInv
            /\ NoneComesInv
            /\ DrainedInv
            /\ SignalInv
            /\ PendingCountExact

-----------------------------------------------------------------------------
(* What the driver's comments promise of a stop and a surprise removal and   *)
(* the code does not keep; see the README.                                   *)

\* "Reset for subsequent remove" (IRP_MN_SURPRISE_REMOVAL): between two PnP
\* requests the count has the placeholder the next one will take out.
PlaceholderKept ==
    op = None /\ manager # "removed" =>
        pendingIRPCnt > Cardinality(InDriver)

\* "From this point on all non-PNP IRP's will be queued" (IRP_MN_STOP_DEVICE):
\* once a stop has drained the driver no request is let in until the restart.
StoppedPortIsQuiet ==
    manager = "stopped" /\ op = None =>
        \A i \in Irps : place[i] \notin {"accepted", "pending", "opened"}
=============================================================================
