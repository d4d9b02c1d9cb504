------------------------------ MODULE EipSession ------------------------------
(***************************************************************************)
(* One EtherNet/IP device: EtherNetIPDevice of                             *)
(* instro/ethernetip/ethernetip.py, the Python session wrapper of          *)
(* sync_session.rs and the session that reconnects by itself, of the crate *)
(* instro-ethernetip (lib.rs, blocking.rs).                                *)
(*                                                                         *)
(* A controller opens, starts, stops and closes the device; its daemon     *)
(* polls the tags in batches; readers read and write single tags.  Every   *)
(* request and every change of the session holds the device's lock.  The   *)
(* stop event is set outside it.  Openers are other threads that may call  *)
(* open() at any time.                                                     *)
(***************************************************************************)
EXTENDS FiniteSets

CONSTANTS
    Readers,    \* threads that read and write single tags
    Openers,    \* further threads that call open()
    NoOne       \* nobody holds the lock

Requesters == {"daemon"} \cup Readers
Threads == {"control"} \cup Requesters \cup Openers

\* A thread has one role.
ASSUME EipAssumption ==
    /\ NoOne \notin Threads
    /\ {"control", "daemon"} \cap (Readers \cup Openers) = {} /\ Readers \cap Openers = {}

VARIABLES
    up,         \* the PLC answers
    session,    \* _client: the device holds a session object
    client,     \* the client inside the session: "none", "live" or "broken"
    lock,       \* who holds the device's lock
    stopEvent,  \* _background_stop_event
    at,         \* where each thread is
    closedOk,   \* history: the controller's last call was a close() that raised nothing
    answered    \* history: the daemon's last batch brought values

vars == <<up, session, client, lock, stopEvent, at, closedOk, answered>>

RequestAt == {"idle", "acquire", "ready", "connect", "wire"}
At == RequestAt \cup {"off", "wait", "opening", "joinStop", "joinClose", "publishers", "dropping"}

TypeOK ==
    /\ up \in BOOLEAN /\ session \in BOOLEAN /\ stopEvent \in BOOLEAN
    /\ client \in {"none", "live", "broken"}
    /\ lock \in Threads \cup {NoOne}
    /\ at \in [Threads -> At]
    /\ closedOk \in BOOLEAN /\ answered \in BOOLEAN

Init ==
    /\ up = TRUE /\ session = FALSE /\ client = "none" /\ lock = NoOne
    /\ stopEvent = FALSE
    /\ at = [t \in Threads |-> IF t = "daemon" THEN "off" ELSE "idle"]
    /\ closedOk = FALSE /\ answered = FALSE

Goto(t, where) == at' = [at EXCEPT ![t] = where]
Alive == at["daemon"] # "off"
LinkUnchanged == UNCHANGED <<up, session, client>>
HistoryUnchanged == UNCHANGED <<closedOk, answered>>

-----------------------------------------------------------------------------
(* A request: _eip_op around read_tag, read_tags and write_tag *)

Request(r) ==
    /\ at[r] = "idle"
    /\ Goto(r, "acquire")
    /\ LinkUnchanged /\ HistoryUnchanged /\ UNCHANGED <<lock, stopEvent>>

\* Faulty: the request does not wait for the lock.
EnterUnlocked(t) ==
    /\ at[t] = "acquire"
    /\ lock' = t /\ Goto(t, "ready")
    /\ LinkUnchanged /\ HistoryUnchanged /\ UNCHANGED stopEvent

Enter(t) ==
    /\ at[t] = "acquire" /\ lock = NoOne
    /\ lock' = t /\ Goto(t, "ready")
    /\ LinkUnchanged /\ HistoryUnchanged /\ UNCHANGED stopEvent

\* The request has returned or raised; the daemon catches and logs.
Leave(t, gotValues) ==
    /\ lock' = NoOne
    /\ Goto(t, IF t = "daemon" THEN "wait" ELSE "idle")
    /\ answered' = IF t = "daemon" THEN gotValues ELSE answered

\* The device is shutting down, or was not opened.
Admit(t) ==
    /\ at[t] = "ready"
    /\ IF stopEvent \/ ~session THEN Leave(t, FALSE)
       ELSE Goto(t, "connect") /\ UNCHANGED <<lock, answered>>
    /\ LinkUnchanged /\ UNCHANGED <<stopEvent, closedOk>>

\* reconnect_if_needed()
Reconnect(t) ==
    /\ at[t] = "connect"
    /\ IF client # "none" \/ up
       THEN /\ client' = IF client = "none" THEN "live" ELSE client
            /\ Goto(t, "wire") /\ UNCHANGED <<lock, answered>>
       ELSE Leave(t, FALSE) /\ UNCHANGED client
    /\ UNCHANGED <<up, session, stopEvent, closedOk>>

\* The PLC answered every item of the request, some with an error that no
\* retry would cure (a tag that does not exist, a value of another type).
Answer(t) ==
    /\ at[t] = "wire" /\ client = "live" /\ up
    /\ Leave(t, TRUE)
    /\ LinkUnchanged /\ UNCHANGED <<stopEvent, closedOk>>

\* The request as a whole failed with a retriable error: the client is dropped.
FailRetriable(t) ==
    /\ at[t] = "wire" /\ ~(client = "live" /\ up)
    /\ Leave(t, FALSE) /\ client' = "none"
    /\ UNCHANGED <<up, session, stopEvent, closedOk>>

\* Faulty: an item's error is reported and the client is kept.
FailItemsKeepsClient(t) ==
    /\ at[t] = "wire" /\ t = "daemon"
    /\ Leave(t, client = "live" /\ up)
    /\ LinkUnchanged /\ UNCHANGED <<stopEvent, closedOk>>

\* read_tags(): the batch was dispatched, and items of it failed with network
\* errors or timeouts.  The client is dropped for any one of them, also when
\* the PLC answered the others.
FailItems(t) ==
    /\ at[t] = "wire" /\ t = "daemon"
    /\ Leave(t, client = "live" /\ up) /\ client' = "none"
    /\ UNCHANGED <<up, session, stopEvent, closedOk>>

-----------------------------------------------------------------------------
(* The daemon: _poll_batched_tags between the waits for the interval *)

DaemonLoop ==
    /\ at["daemon"] = "idle"
    /\ Goto("daemon", IF stopEvent THEN "off" ELSE "acquire")
    /\ LinkUnchanged /\ HistoryUnchanged /\ UNCHANGED <<lock, stopEvent>>

\* The wait for the interval, then the timing measurement, whose publishers
\* may raise and end the thread.
DaemonWait ==
    /\ at["daemon"] = "wait"
    /\ \E where \in {"idle", "off"} : Goto("daemon", where)
    /\ LinkUnchanged /\ HistoryUnchanged /\ UNCHANGED <<lock, stopEvent>>

-----------------------------------------------------------------------------
(* The controller *)

CallOpen(t) ==
    /\ at[t] = "idle"
    /\ Goto(t, "opening")
    /\ closedOk' = (closedOk /\ t # "control")
    /\ LinkUnchanged /\ UNCHANGED <<lock, stopEvent, answered>>

\* open() under the lock: the stop event is cleared, and a session is made
\* unless there is one.
Open(t) ==
    /\ at[t] = "opening" /\ lock = NoOne
    /\ stopEvent' = FALSE
    /\ IF session \/ ~up THEN UNCHANGED <<session, client>>
       ELSE session' = TRUE /\ client' = "live"
    /\ closedOk' = (closedOk /\ ~session')
    /\ Goto(t, "idle")
    /\ UNCHANGED <<up, lock, answered>>

\* start(): a no-op while the daemon lives.
Start ==
    /\ at["control"] = "idle" /\ ~Alive
    /\ stopEvent' = FALSE
    /\ Goto("daemon", "idle")
    /\ closedOk' = FALSE
    /\ LinkUnchanged /\ UNCHANGED <<lock, answered>>

Stop ==
    /\ at["control"] = "idle" /\ Alive
    /\ stopEvent' = TRUE
    /\ Goto("control", "joinStop")
    /\ LinkUnchanged /\ HistoryUnchanged /\ UNCHANGED lock

JoinStop ==
    /\ at["control"] = "joinStop" /\ ~Alive
    /\ Goto("control", "idle")
    /\ LinkUnchanged /\ HistoryUnchanged /\ UNCHANGED <<lock, stopEvent>>

\* Faulty: the stop event is left to stop(), which sets it only for a living daemon.
CallCloseNoEvent ==
    /\ at["control"] = "idle"
    /\ Goto("control", "joinClose")
    /\ LinkUnchanged /\ HistoryUnchanged /\ UNCHANGED <<lock, stopEvent>>

CallClose ==
    /\ at["control"] = "idle"
    /\ stopEvent' = TRUE
    /\ Goto("control", "joinClose")
    /\ LinkUnchanged /\ HistoryUnchanged /\ UNCHANGED lock

\* Instrument.close(): stop() joins the daemon ...
JoinClose ==
    /\ at["control"] = "joinClose" /\ ~Alive
    /\ Goto("control", "publishers")
    /\ LinkUnchanged /\ HistoryUnchanged /\ UNCHANGED <<lock, stopEvent>>

\* ... and the publishers are closed; what one raises leaves close().
ClosePublishers ==
    /\ at["control"] = "publishers"
    /\ \/ Goto("control", "idle") /\ closedOk' = FALSE
       \/ Goto("control", "dropping") /\ UNCHANGED closedOk
    /\ LinkUnchanged /\ UNCHANGED <<lock, stopEvent, answered>>

\* Faulty: a session that cannot be closed cleanly is kept.
DropSessionIfClean ==
    /\ at["control"] = "dropping" /\ lock = NoOne
    /\ \/ client # "live" /\ UNCHANGED <<session, client>>
       \/ session' = FALSE /\ client' = "none"
    /\ Goto("control", "idle") /\ closedOk' = TRUE
    /\ UNCHANGED <<up, lock, stopEvent, answered>>

\* The session is taken from the wrapper and unregistered if it has a client;
\* what that raises is logged.
DropSession ==
    /\ at["control"] = "dropping" /\ lock = NoOne
    /\ session' = FALSE /\ client' = "none"
    /\ Goto("control", "idle") /\ closedOk' = TRUE
    /\ UNCHANGED <<up, lock, stopEvent, answered>>

-----------------------------------------------------------------------------
(* The PLC and the network *)

Outage ==
    /\ up /\ up' = FALSE
    /\ client' = IF client = "live" THEN "broken" ELSE client
    /\ UNCHANGED <<session, lock, stopEvent, at, closedOk, answered>>

Restore ==
    /\ ~up /\ up' = TRUE
    /\ UNCHANGED <<session, client, lock, stopEvent, at, closedOk, answered>>

-----------------------------------------------------------------------------

RequestStep(t) ==
    \/ Enter(t) \/ Admit(t) \/ Reconnect(t)
    \/ Answer(t) \/ FailRetriable(t) \/ FailItems(t)
DaemonStep == DaemonLoop \/ DaemonWait
ControlStep == JoinStop \/ JoinClose \/ ClosePublishers \/ DropSession
ControlCall == Start \/ Stop \/ CallClose

Next ==
    \/ Outage \/ Restore
    \/ \E t \in Requesters : RequestStep(t)
    \/ \E r \in Readers : Request(r)
    \/ DaemonStep \/ ControlStep \/ ControlCall
    \/ \E t \in {"control"} \cup Openers : CallOpen(t) \/ Open(t)

Spec == Init /\ [][Next]_vars

\* Every thread that can run does, and a thread that keeps trying to take the
\* lock gets it; no thread has to make a call and the PLC need not come back.
Fairness ==
    /\ \A t \in Requesters : WF_vars(RequestStep(t)) /\ SF_vars(Enter(t))
    /\ WF_vars(DaemonStep) /\ WF_vars(ControlStep)
    /\ SF_vars(DropSession)
    /\ \A t \in {"control"} \cup Openers : SF_vars(Open(t))

FairSpec == Spec /\ Fairness

-----------------------------------------------------------------------------
(* Properties *)

\* The wrapper lends the session to one thread at a time, and a second call
\* would raise: whatever open(), close(), the daemon and the readers do, at most
\* one thread is inside, it holds the lock, and close() never takes the session
\* away under a request.
OneInSession ==
    \A t \in Requesters : at[t] \in {"connect", "wire"} => lock = t /\ session

\* When close() has returned without error there is no session and no daemon,
\* until the device is opened or started again.
CloseDropsSession ==
    closedOk /\ at["control"] = "idle" => ~session /\ ~Alive

\* Every stop(), close(), read and write returns: a request that waits for the
\* lock while close() runs is answered or refused.
CallsReturn ==
    /\ at["control"] # "idle" ~> at["control"] = "idle"
    /\ \A r \in Readers : at[r] # "idle" ~> at[r] = "idle"

\* However long an outage was and wherever it hit, once the PLC answers for
\* good a device that is open and polled brings values again: an error that a
\* retry would cure never leaves a dead client behind.
Recovers == <>[](up /\ session /\ Alive /\ ~stopEvent) => []<>answered
=============================================================================
