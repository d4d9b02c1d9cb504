---------------------------- MODULE ModbusDevice ----------------------------
(***************************************************************************)
(* Modbus devices on one shared line: ModbusDevice of                      *)
(* instro/modbus/modbus.py over ModbusTransport of                         *)
(* instro/lib/transports/modbus.py, which takes its ownership from         *)
(* Transport.                                                              *)
(*                                                                         *)
(* Each device has a controller (the thread that opens, starts, stops and  *)
(* closes it), its background daemon, and a reader: another thread of the  *)
(* program that reads and writes registers.  A controller that reads is a  *)
(* reader that runs while the controller is idle.  All requests take the   *)
(* transport's lock.  The flags _opened and the stop event are written     *)
(* without it.                                                             *)
(***************************************************************************)
EXTENDS Transport, FiniteSets

CONSTANTS
    Reading,    \* the devices that another thread reads and writes
    NoOne       \* nobody holds the transport's lock

Requesters == ({"daemon"} \X Holders) \cup ({"reader"} \X Reading)
Threads == ({"control"} \X Holders) \cup Requesters

ASSUME DeviceAssumption == Reading \subseteq Holders /\ NoOne \notin Threads

Device(t) == t[2]
Control(d) == <<"control", d>>
Daemon(d) == <<"daemon", d>>

VARIABLES
    lock,       \* who holds the transport's lock
    socket,     \* the client's socket is connected
    opened,     \* _opened of each device
    stopEvent,  \* _background_stop_event of each device
    at,         \* where each thread is
    closedOk    \* history: the controller's last call was a close() that raised nothing

deviceVars == <<lock, socket, opened, stopEvent, at, closedOk>>
vars == <<transportVars, deviceVars>>

ControlAt == {"idle", "opening", "opened", "joining", "closing", "publishers", "releasing", "released"}
RequestAt == {"idle", "acquire", "ready", "wire"}
DaemonAt == RequestAt \cup {"off", "wait"}

TypeOK ==
    /\ TransportTypeOK
    /\ lock \in Threads \cup {NoOne} /\ socket \in BOOLEAN
    /\ opened \in [Holders -> BOOLEAN] /\ stopEvent \in [Holders -> BOOLEAN]
    /\ at \in [Threads -> ControlAt \cup DaemonAt]
    /\ \A d \in Holders : /\ at[Control(d)] \in ControlAt
                          /\ at[Daemon(d)] \in DaemonAt
    /\ \A d \in Reading : at[<<"reader", d>>] \in RequestAt
    /\ closedOk \in [Holders -> BOOLEAN]

Init ==
    /\ TransportInit
    /\ lock = NoOne /\ socket = FALSE
    /\ opened = [d \in Holders |-> FALSE] /\ stopEvent = [d \in Holders |-> FALSE]
    /\ at = [t \in Threads |-> IF t[1] = "daemon" THEN "off" ELSE "idle"]
    /\ closedOk = [d \in Holders |-> FALSE]

Goto(t, where) == at' = [at EXCEPT ![t] = where]
ReturnsClosed(d, yes) == closedOk' = [closedOk EXCEPT ![d] = yes]
Alive(d) == at[Daemon(d)] # "off"

-----------------------------------------------------------------------------
(* A request: read(), _read_group() and write() take the same path *)

\* Where a thread goes when its request has returned or raised.  The daemon
\* loop catches what a request raises.
After(t) == IF t[1] = "daemon" THEN "wait" ELSE "idle"

Request(t) ==
    /\ at[t] = "idle"
    /\ Goto(t, "acquire")
    /\ UNCHANGED <<transportVars, lock, socket, opened, stopEvent, closedOk>>

Acquire(t) ==
    /\ at[t] = "acquire" /\ lock = NoOne
    /\ lock' = t /\ Goto(t, "ready")
    /\ UNCHANGED <<transportVars, socket, opened, stopEvent, closedOk>>

\* Leave the with block, with an answer or an exception.
Return(t) == lock' = NoOne /\ Goto(t, After(t))

Connected(d) == opened[d] /\ session

\* Faulty: the stop event is not tested.
RequireReadyIgnoresStop(t) ==
    /\ at[t] = "ready"
    /\ IF Connected(Device(t)) THEN Goto(t, "wire") /\ UNCHANGED lock ELSE Return(t)
    /\ UNCHANGED <<transportVars, socket, opened, stopEvent, closedOk>>

\* _require_ready_locked()
RequireReady(t) ==
    /\ at[t] = "ready"
    /\ IF ~stopEvent[Device(t)] /\ Connected(Device(t))
       THEN Goto(t, "wire") /\ UNCHANGED lock
       ELSE Return(t)
    /\ UNCHANGED <<transportVars, socket, opened, stopEvent, closedOk>>

\* _modbus_op: pymodbus connects a missing socket first; a transport error
\* (also of that connect) closes the socket, an answer or an error answer
\* leaves it.
Wire(t) ==
    /\ at[t] = "wire"
    /\ Return(t)
    /\ socket' \in BOOLEAN
    /\ UNCHANGED <<transportVars, opened, stopEvent, closedOk>>

-----------------------------------------------------------------------------
(* The daemon *)

DaemonLoop(d) ==
    /\ at[Daemon(d)] = "idle"
    /\ IF stopEvent[d] THEN Goto(Daemon(d), "off") ELSE Goto(Daemon(d), "acquire")
    /\ UNCHANGED <<transportVars, lock, socket, opened, stopEvent, closedOk>>

\* The wait for the interval, then the timing measurement, whose publishers
\* may raise and end the thread.
DaemonWait(d) ==
    /\ at[Daemon(d)] = "wait"
    /\ \E where \in {"idle", "off"} : Goto(Daemon(d), where)
    /\ UNCHANGED <<transportVars, lock, socket, opened, stopEvent, closedOk>>

-----------------------------------------------------------------------------
(* The controller *)

ControlUnchanged == UNCHANGED <<transportVars, lock, socket, opened>>

CallOpen(d) ==
    /\ at[Control(d)] = "idle"
    /\ stopEvent' = [stopEvent EXCEPT ![d] = FALSE]
    /\ Goto(Control(d), "opening")
    /\ ControlUnchanged /\ UNCHANGED closedOk

\* transport.open(self) under the transport's lock; connecting may fail.
OpenTransport(d) ==
    /\ at[Control(d)] = "opening" /\ lock = NoOne
    /\ \E connects \in BOOLEAN : Open(d, connects)
    /\ socket' = (socket \/ (session' /\ ~session))
    /\ IF d \in holders' THEN Goto(Control(d), "opened") /\ UNCHANGED closedOk
       ELSE Goto(Control(d), "idle") /\ ReturnsClosed(d, FALSE)
    /\ UNCHANGED <<lock, opened, stopEvent>>

SetOpened(d) ==
    /\ at[Control(d)] = "opened"
    /\ opened' = [opened EXCEPT ![d] = TRUE]
    /\ Goto(Control(d), "idle") /\ ReturnsClosed(d, FALSE)
    /\ UNCHANGED <<transportVars, lock, socket, stopEvent>>

\* start(): a no-op while the daemon lives.
Start(d) ==
    /\ at[Control(d)] = "idle" /\ ~Alive(d)
    /\ stopEvent' = [stopEvent EXCEPT ![d] = FALSE]
    /\ Goto(Daemon(d), "idle")
    /\ ReturnsClosed(d, FALSE)
    /\ ControlUnchanged

\* stop(): a no-op, without setting the event, unless the daemon lives.
Stop(d) ==
    /\ at[Control(d)] = "idle" /\ Alive(d)
    /\ stopEvent' = [stopEvent EXCEPT ![d] = TRUE]
    /\ Goto(Control(d), "joining")
    /\ ControlUnchanged /\ UNCHANGED closedOk

JoinStop(d) ==
    /\ at[Control(d)] = "joining" /\ ~Alive(d)
    /\ Goto(Control(d), "idle") /\ ReturnsClosed(d, FALSE)
    /\ ControlUnchanged /\ UNCHANGED stopEvent

\* Faulty: the transport is locked for the whole of close().
CloseLocked(d) ==
    /\ at[Control(d)] = "idle" /\ lock = NoOne
    /\ stopEvent' = [stopEvent EXCEPT ![d] = TRUE]
    /\ lock' = Control(d)
    /\ Goto(Control(d), "closing")
    /\ UNCHANGED <<transportVars, socket, opened, closedOk>>

CallClose(d) ==
    /\ at[Control(d)] = "idle"
    /\ stopEvent' = [stopEvent EXCEPT ![d] = TRUE]
    /\ Goto(Control(d), "closing")
    /\ ControlUnchanged /\ UNCHANGED closedOk

\* super().close(): stop() joins the daemon ...
JoinClose(d) ==
    /\ at[Control(d)] = "closing" /\ ~Alive(d)
    /\ Goto(Control(d), "publishers")
    /\ ControlUnchanged /\ UNCHANGED <<stopEvent, closedOk>>

\* ... and the publishers are closed; what one raises leaves close().
ClosePublishers(d) ==
    /\ at[Control(d)] = "publishers"
    /\ \/ Goto(Control(d), "idle") /\ ReturnsClosed(d, FALSE)
       \/ opened[d] /\ Goto(Control(d), "releasing") /\ UNCHANGED closedOk
       \/ ~opened[d] /\ Goto(Control(d), "idle") /\ ReturnsClosed(d, TRUE)
    /\ ControlUnchanged /\ UNCHANGED stopEvent

\* Faulty: the transport is closed without naming the device.
ReleaseBare(d) ==
    /\ at[Control(d)] = "releasing" /\ lock = NoOne
    /\ BareClose
    /\ socket' = (socket /\ session')
    /\ Goto(Control(d), "released")
    /\ UNCHANGED <<lock, opened, stopEvent, closedOk>>

\* transport.close(self) under the transport's lock.
Release(d) ==
    /\ at[Control(d)] = "releasing" /\ lock = NoOne
    /\ Close(d)
    /\ socket' = (socket /\ session')
    /\ Goto(Control(d), "released")
    /\ UNCHANGED <<lock, opened, stopEvent, closedOk>>

ClearOpened(d) ==
    /\ at[Control(d)] = "released"
    /\ opened' = [opened EXCEPT ![d] = FALSE]
    /\ Goto(Control(d), "idle") /\ ReturnsClosed(d, TRUE)
    /\ UNCHANGED <<transportVars, lock, socket, stopEvent>>

-----------------------------------------------------------------------------
(* The program opens or closes the transport without naming an owner *)

BareUse ==
    /\ lock = NoOne
    /\ \/ \E connects \in BOOLEAN : BareOpen(connects)
       \/ BareClose
    /\ socket' = ((socket \/ ~session) /\ session')
    /\ UNCHANGED <<lock, opened, stopEvent, at, closedOk>>

-----------------------------------------------------------------------------

RequestStep(t) == Acquire(t) \/ RequireReady(t) \/ Wire(t)
DaemonStep(d) == DaemonLoop(d) \/ DaemonWait(d)
ControlStep(d) ==
    \/ OpenTransport(d) \/ SetOpened(d) \/ JoinStop(d)
    \/ JoinClose(d) \/ ClosePublishers(d) \/ Release(d) \/ ClearOpened(d)
ControlCall(d) == CallOpen(d) \/ Start(d) \/ Stop(d) \/ CallClose(d)

Next ==
    \/ BareUse
    \/ \E t \in Requesters : RequestStep(t)
    \/ \E d \in Reading : Request(<<"reader", d>>)
    \/ \E d \in Holders : \/ DaemonStep(d) \/ ControlStep(d) \/ ControlCall(d)

Spec == Init /\ [][Next]_vars

\* Every thread that can run does, and a thread that keeps trying to take the
\* transport's lock gets it; no thread has to make a call.
Fairness ==
    /\ \A t \in Requesters : WF_vars(RequestStep(t)) /\ SF_vars(Acquire(t))
    /\ \A d \in Holders : /\ WF_vars(DaemonStep(d)) /\ WF_vars(ControlStep(d))
                          /\ SF_vars(OpenTransport(d)) /\ SF_vars(Release(d))

FairSpec == Spec /\ Fairness

-----------------------------------------------------------------------------
(* Properties *)

\* Only a device that owns the line talks on it, over a client that exists:
\* whatever its daemon and reader were doing when it was closed.
OnlyOwnersTalk ==
    \A t \in Requesters : at[t] = "wire" => Device(t) \in holders /\ session /\ lock = t

\* When close() has returned without error the device owns nothing and its
\* daemon is gone, until it is opened or started again.
CloseLetsGo ==
    \A d \in Holders :
        closedOk[d] /\ at[Control(d)] = "idle" => d \notin holders /\ ~Alive(d)

\* Every stop(), close(), read and write returns.  A daemon that is joined waits
\* at most for the transport's lock, which its own controller never holds, and a
\* request that is caught in the middle of a close() is answered or rejected.
CallsReturn ==
    /\ \A d \in Holders : at[Control(d)] # "idle" ~> at[Control(d)] = "idle"
    /\ \A d \in Reading : at[<<"reader", d>>] # "idle" ~> at[<<"reader", d>>] = "idle"
=============================================================================
