------------------------- MODULE ModbusDeviceProofs -------------------------
(***************************************************************************)
(* For every number of devices on a line, with or without readers: the     *)
(* types, that only a device that owns the line talks on it, that a        *)
(* close() that returned has let go of the line and of its daemon, and, of *)
(* the transport alone, that a held session is up and exactly one of its   *)
(* owners was told that it is the first.                                   *)
(***************************************************************************)
EXTENDS ModbusDevice, TLAPS

-----------------------------------------------------------------------------
(* The transport by itself, for every set of holders *)

\* Both properties and the types, which together are inductive.
TransportInv == TransportTypeOK /\ HeldMeansOpen /\ OneFirstOwner

\* Every call of open() and close() keeps the invariant.
LEMMA TransportStep ==
  TransportInv /\ [TransportNext]_transportVars => TransportInv'
<1> SUFFICES ASSUME TransportInv, [TransportNext]_transportVars
             PROVE  TransportInv'
  OBVIOUS
<1> USE DEF TransportInv, TransportTypeOK, HeldMeansOpen, OneFirstOwner
<1>1. ASSUME NEW connects \in BOOLEAN, BareOpen(connects)
      PROVE  TransportInv'
  BY <1>1 DEF BareOpen, OpenSession
<1>2. ASSUME NEW h \in Holders, NEW connects \in BOOLEAN, Open(h, connects)
      PROVE  TransportInv'
  BY <1>2 DEF Open, OpenSession, transportVars
<1>3. CASE BareClose
  BY <1>3 DEF BareClose, TeardownSession, transportVars
<1>4. ASSUME NEW h \in Holders, Close(h)
      PROVE  TransportInv'
  <2>1. CASE h \notin holders
    BY <1>4, <2>1 DEF Close, transportVars
  <2>2. CASE h \in holders /\ holders \ {h} # {}
    BY <1>4, <2>2 DEF Close
  <2>3. CASE h \in holders /\ holders \ {h} = {}
    <3>1. holders' = {} /\ session' = FALSE /\ firsts' = 0
      BY <1>4, <2>3 DEF Close, TeardownSession
    <3> QED
      BY <3>1
  <2> QED
    BY <2>1, <2>2, <2>3
<1>5. CASE UNCHANGED transportVars
  BY <1>5 DEF transportVars
<1> QED
  BY <1>1, <1>2, <1>3, <1>4, <1>5 DEF TransportNext

\* The types, and both properties of shared ownership, hold in every behaviour.
THEOREM TransportCorrect ==
  TransportSpec => [](TransportTypeOK /\ HeldMeansOpen /\ OneFirstOwner)
<1>1. ASSUME TransportInit PROVE TransportInv
  <2> USE <1>1 DEF TransportInit
  <2>1. TransportTypeOK
    BY DEF TransportTypeOK
  <2>2. HeldMeansOpen
    BY DEF HeldMeansOpen
  <2>3. OneFirstOwner
    BY DEF OneFirstOwner
  <2> QED
    BY <2>1, <2>2, <2>3 DEF TransportInv
<1>2. TransportInv => TransportTypeOK /\ HeldMeansOpen /\ OneFirstOwner
  BY DEF TransportInv
<1> QED
  BY <1>1, <1>2, TransportStep, PTL DEF TransportSpec

-----------------------------------------------------------------------------
(* Threads *)

\* The threads of different kinds and devices are different.
LEMMA ThreadFacts ==
  /\ \A d \in Holders : Control(d) \in Threads /\ Daemon(d) \in Requesters
  /\ \A d \in Reading : d \in Holders /\ <<"reader", d>> \in Requesters
  /\ \A t \in Requesters : /\ t \in Threads /\ Device(t) \in Holders
                           /\ t = Daemon(Device(t)) \/ (t = <<"reader", Device(t)>> /\ Device(t) \in Reading)
                           /\ \A d \in Holders : t # Control(d)
  /\ \A c, d \in Holders : /\ Control(c) = Control(d) => c = d
                           /\ Daemon(c) = Daemon(d) => c = d
                           /\ Daemon(c) # <<"reader", d>>
                           /\ Daemon(c) # Control(d)
                           /\ <<"reader", c>> # Control(d)
  /\ \A t \in Threads : t # NoOne
  /\ \A d \in Holders : After(Daemon(d)) = "wait" /\ After(<<"reader", d>>) = "idle"
BY DeviceAssumption DEF Threads, Requesters, Control, Daemon, Device, After

-----------------------------------------------------------------------------
(* The invariant *)

\* A thread inside a request has the transport's lock.
LockFollows == \A t \in Requesters : at[t] \in {"ready", "wire"} => lock = t

\* A thread on the wire is an owner's, and there is a client.
TalksAsOwner == \A t \in Requesters : at[t] = "wire" => Device(t) \in holders /\ session

\* _opened and the ownership of the line agree, but for the two steps in which
\* open() and close() change one after the other.
OpenedIsHeld ==
    \A d \in Holders :
        /\ opened[d] => d \in holders \/ at[Control(d)] = "released"
        /\ d \in holders => opened[d] \/ at[Control(d)] = "opened"
        /\ at[Control(d)] = "opened" => d \in holders
        /\ at[Control(d)] = "released" => d \notin holders

\* From the start of close() to its end the stop event is set, and from the end
\* of the join on there is no daemon.
ClosingIsStopping ==
    \A d \in Holders :
        /\ at[Control(d)] \in {"closing", "publishers", "releasing", "released"} => stopEvent[d]
        /\ at[Control(d)] \in {"publishers", "releasing", "released"} => ~Alive(d)

DeviceInv == /\ TypeOK /\ TransportInv
             /\ LockFollows /\ TalksAsOwner /\ OpenedIsHeld
             /\ ClosingIsStopping /\ CloseLetsGo

\* What Goto does to the place of every thread.
LEMMA GotoFacts ==
  ASSUME NEW t \in Threads, NEW where \in ControlAt \cup DaemonAt,
         at \in [Threads -> ControlAt \cup DaemonAt], Goto(t, where)
  PROVE  /\ at' \in [Threads -> ControlAt \cup DaemonAt]
         /\ at'[t] = where
         /\ \A u \in Threads : u # t => at'[u] = at[u]
BY DEF Goto

\* What the places of the requests and the calls are.
LEMMA PlaceFacts ==
  /\ ControlAt = {"idle", "opening", "opened", "joining", "closing", "publishers", "releasing", "released"}
  /\ DaemonAt = {"idle", "acquire", "ready", "wire", "off", "wait"}
  /\ RequestAt = {"idle", "acquire", "ready", "wire"}
BY DEF ControlAt, DaemonAt, RequestAt

\* The program's start.
LEMMA DeviceInit == Init => DeviceInv
<1> SUFFICES ASSUME Init PROVE DeviceInv
  OBVIOUS
<1>1. TransportInv
  BY DEF Init, TransportInit, TransportInv, TransportTypeOK, HeldMeansOpen, OneFirstOwner
<1>2. \A d \in Holders : at[Control(d)] = "idle" /\ at[Daemon(d)] = "off"
  BY DEF Init, Control, Daemon, Threads, Requesters
<1>3. \A t \in Requesters : at[t] \in {"idle", "off"}
  BY DEF Init, Threads
<1>4. TypeOK
  <2>1. at \in [Threads -> ControlAt \cup DaemonAt]
    BY PlaceFacts DEF Init
  <2>2. \A d \in Reading : at[<<"reader", d>>] = "idle"
    BY DEF Init, Threads, Requesters
  <2>3. TransportTypeOK
    BY <1>1 DEF TransportInv
  <2>4. \A d \in Holders : at[Control(d)] \in ControlAt /\ at[Daemon(d)] \in DaemonAt
    BY <1>2, PlaceFacts
  <2>5. /\ lock \in Threads \cup {NoOne} /\ socket \in BOOLEAN
        /\ opened \in [Holders -> BOOLEAN] /\ stopEvent \in [Holders -> BOOLEAN]
        /\ closedOk \in [Holders -> BOOLEAN]
    BY DEF Init
  <2> QED
    BY <2>1, <2>2, <2>3, <2>4, <2>5, PlaceFacts DEF TypeOK
<1>5. LockFollows /\ TalksAsOwner
  BY <1>3 DEF LockFollows, TalksAsOwner
<1>6. /\ holders = {} /\ \A d \in Holders : ~opened[d] /\ ~closedOk[d]
  BY DEF Init, TransportInit
<1>7. OpenedIsHeld /\ ClosingIsStopping /\ CloseLetsGo
  BY <1>2, <1>6 DEF OpenedIsHeld, ClosingIsStopping, CloseLetsGo
<1> QED
  BY <1>1, <1>4, <1>5, <1>7 DEF DeviceInv

\* Every step of a device or of the program is a call of the transport, or none.
LEMMA DeviceCallsTransport == [Next]_vars => [TransportNext]_transportVars
<1> SUFFICES ASSUME [Next]_vars PROVE [TransportNext]_transportVars
  OBVIOUS
<1>1. CASE BareUse
  BY <1>1 DEF BareUse, TransportNext
<1>2. ASSUME NEW t \in Requesters, RequestStep(t)
      PROVE  UNCHANGED transportVars
  BY <1>2 DEF RequestStep, Acquire, RequireReady, Wire
<1>3. ASSUME NEW d \in Reading, Request(<<"reader", d>>)
      PROVE  UNCHANGED transportVars
  BY <1>3 DEF Request
<1>4. ASSUME NEW d \in Holders, DaemonStep(d) \/ ControlCall(d)
      PROVE  UNCHANGED transportVars
  BY <1>4 DEF DaemonStep, DaemonLoop, DaemonWait, ControlCall, CallOpen, Start, Stop, CallClose, ControlUnchanged
<1>5. ASSUME NEW d \in Holders, ControlStep(d)
      PROVE  [TransportNext]_transportVars
  <2>1. CASE OpenTransport(d)
    BY <2>1 DEF OpenTransport, TransportNext
  <2>2. CASE Release(d)
    BY <2>2 DEF Release, TransportNext
  <2>3. CASE SetOpened(d) \/ JoinStop(d) \/ JoinClose(d) \/ ClosePublishers(d) \/ ClearOpened(d)
    BY <2>3 DEF SetOpened, JoinStop, JoinClose, ClosePublishers, ClearOpened, ControlUnchanged
  <2> QED
    BY <1>5, <2>1, <2>2, <2>3 DEF ControlStep
<1>6. CASE UNCHANGED vars
  BY <1>6 DEF vars
<1> QED
  BY <1>1, <1>2, <1>3, <1>4, <1>5, <1>6 DEF Next

-----------------------------------------------------------------------------
(* Each step keeps the invariant *)

\* The parts of the invariant that are not the transport's own.
DeviceParts == /\ TypeOK /\ LockFollows /\ TalksAsOwner /\ OpenedIsHeld
               /\ ClosingIsStopping /\ CloseLetsGo

\* The types of the places.
PlacesOK == /\ at \in [Threads -> ControlAt \cup DaemonAt]
            /\ \A d \in Holders : at[Control(d)] \in ControlAt /\ at[Daemon(d)] \in DaemonAt
            /\ \A d \in Reading : at[<<"reader", d>>] \in RequestAt

\* A step of a daemon or reader moves no controller, and starts no daemon.
LEMMA RequesterMoves ==
  ASSUME TypeOK, NEW t \in Requesters, NEW where \in DaemonAt,
         where \in RequestAt \/ t = Daemon(Device(t)), at[t] # "off", Goto(t, where)
  PROVE  /\ PlacesOK'
         /\ at'[t] = where /\ \A u \in Requesters : u # t => at'[u] = at[u]
         /\ \A d \in Holders : at'[Control(d)] = at[Control(d)] /\ (~Alive(d) => ~Alive(d)')
<1>1. /\ at' \in [Threads -> ControlAt \cup DaemonAt]
      /\ at'[t] = where /\ \A u \in Threads : u # t => at'[u] = at[u]
  BY GotoFacts, ThreadFacts DEF TypeOK
<1>2. \A d \in Holders : at'[Control(d)] = at[Control(d)]
  BY <1>1, ThreadFacts
<1>3. \A d \in Holders : Daemon(d) # t => at'[Daemon(d)] = at[Daemon(d)]
  BY <1>1, ThreadFacts
<1>4. \A d \in Holders : at'[Daemon(d)] \in DaemonAt
  BY <1>1, <1>3 DEF TypeOK
<1>5. \A d \in Reading : at'[<<"reader", d>>] \in RequestAt
  <2> SUFFICES ASSUME NEW d \in Reading PROVE at'[<<"reader", d>>] \in RequestAt
    OBVIOUS
  <2>1. CASE <<"reader", d>> = t
    BY <1>1, <2>1, ThreadFacts
  <2>2. CASE <<"reader", d>> # t
    BY <1>1, <2>2, ThreadFacts DEF TypeOK
  <2> QED
    BY <2>1, <2>2
<1>6. \A d \in Holders : at'[Control(d)] \in ControlAt
  BY <1>2 DEF TypeOK
<1>7. \A d \in Holders : ~Alive(d) => ~Alive(d)'
  BY <1>3 DEF Alive
<1> QED
  BY <1>1, <1>2, <1>4, <1>5, <1>6, <1>7, ThreadFacts DEF PlacesOK

\* A step of a controller moves no other thread.
LEMMA ControlMoves ==
  ASSUME TypeOK, NEW d \in Holders, NEW where \in ControlAt, Goto(Control(d), where)
  PROVE  /\ PlacesOK'
         /\ at'[Control(d)] = where /\ \A e \in Holders : e # d => at'[Control(e)] = at[Control(e)]
         /\ \A t \in Requesters : at'[t] = at[t]
         /\ \A e \in Holders : Alive(e)' = Alive(e)
<1>1. /\ at' \in [Threads -> ControlAt \cup DaemonAt]
      /\ at'[Control(d)] = where /\ \A u \in Threads : u # Control(d) => at'[u] = at[u]
  BY GotoFacts, ThreadFacts DEF TypeOK
<1>2. \A t \in Requesters : at'[t] = at[t]
  BY <1>1, ThreadFacts
<1>3. \A e \in Holders : e # d => at'[Control(e)] = at[Control(e)]
  BY <1>1, ThreadFacts
<1>4. \A e \in Holders : at'[Daemon(e)] = at[Daemon(e)]
  BY <1>2, ThreadFacts
<1>5. \A e \in Reading : at'[<<"reader", e>>] = at[<<"reader", e>>]
  BY <1>2, ThreadFacts
<1>6. PlacesOK'
  BY <1>1, <1>3, <1>4, <1>5 DEF PlacesOK, TypeOK
<1>7. \A e \in Holders : Alive(e)' = Alive(e)
  BY <1>4 DEF Alive
<1> QED
  BY <1>1, <1>2, <1>3, <1>6, <1>7

\* What a step that changes only places, the lock and the socket has to show.
LEMMA RequesterKeeps ==
  ASSUME DeviceInv, TransportInv', NEW t \in Requesters, NEW where \in DaemonAt,
         where \in RequestAt \/ t = Daemon(Device(t)), at[t] # "off", Goto(t, where),
         lock' \in Threads \cup {NoOne}, socket' \in BOOLEAN,
         \A u \in Requesters : u # t /\ lock = u => lock' = u,
         where \in {"ready", "wire"} => lock' = t,
         where = "wire" => Device(t) \in holders /\ session,
         UNCHANGED <<transportVars, opened, stopEvent, closedOk>>
  PROVE  DeviceParts'
<1>1. /\ PlacesOK'
      /\ at'[t] = where /\ \A u \in Requesters : u # t => at'[u] = at[u]
      /\ \A d \in Holders : at'[Control(d)] = at[Control(d)] /\ (~Alive(d) => ~Alive(d)')
  BY RequesterMoves DEF DeviceInv
<1>2. UNCHANGED <<holders, session, opened, stopEvent, closedOk>>
  BY DEF transportVars
<1>3. TypeOK'
  BY <1>1, <1>2 DEF DeviceInv, TypeOK, PlacesOK, TransportInv
<1>4. LockFollows'
  BY <1>1 DEF DeviceInv, LockFollows
<1>5. TalksAsOwner'
  BY <1>1, <1>2 DEF DeviceInv, TalksAsOwner
<1>6. OpenedIsHeld'
  BY <1>1, <1>2 DEF DeviceInv, OpenedIsHeld
<1>7. ClosingIsStopping' /\ CloseLetsGo'
  BY <1>1, <1>2 DEF DeviceInv, ClosingIsStopping, CloseLetsGo
<1> QED
  BY <1>3, <1>4, <1>5, <1>6, <1>7 DEF DeviceParts

\* A read or write begins.
LEMMA RequestKeeps ==
  ASSUME DeviceInv, TransportInv', NEW d \in Reading, Request(<<"reader", d>>)
  PROVE  DeviceParts'
<1>1. <<"reader", d>> \in Requesters
  BY ThreadFacts
<1>2. /\ at[<<"reader", d>>] # "off" /\ Goto(<<"reader", d>>, "acquire")
      /\ UNCHANGED <<transportVars, lock, socket, opened, stopEvent, closedOk>>
  BY DEF Request
<1>3. lock' \in Threads \cup {NoOne} /\ socket' \in BOOLEAN
  BY <1>2 DEF DeviceInv, TypeOK
<1> QED
  BY <1>1, <1>2, <1>3, RequesterKeeps, PlaceFacts

\* The daemon tests its stop event, waits and may die.
LEMMA DaemonKeeps ==
  ASSUME DeviceInv, TransportInv', NEW d \in Holders, DaemonStep(d)
  PROVE  DeviceParts'
<1>1. Daemon(d) \in Requesters /\ Daemon(d) = Daemon(Device(Daemon(d)))
  BY ThreadFacts DEF Daemon, Device
<1>2. /\ at[Daemon(d)] # "off"
      /\ \E where \in {"off", "acquire", "idle"} : Goto(Daemon(d), where)
      /\ UNCHANGED <<transportVars, lock, socket, opened, stopEvent, closedOk>>
  BY DEF DaemonStep, DaemonLoop, DaemonWait
<1>3. lock' \in Threads \cup {NoOne} /\ socket' \in BOOLEAN
  BY <1>2 DEF DeviceInv, TypeOK
<1> QED
  BY <1>1, <1>2, <1>3, RequesterKeeps, PlaceFacts

\* A request takes the lock, tests the device, and is answered or rejected.
LEMMA RequestStepKeeps ==
  ASSUME DeviceInv, TransportInv', NEW t \in Requesters, RequestStep(t)
  PROVE  DeviceParts'
<1>1. t \in Threads /\ Device(t) \in Holders /\ After(t) \in {"wait", "idle"}
      /\ (After(t) = "wait" => t = Daemon(Device(t)))
  BY ThreadFacts
<1>2. CASE Acquire(t)
  <2>1. /\ at[t] # "off" /\ Goto(t, "ready") /\ lock = NoOne /\ lock' = t
        /\ UNCHANGED <<transportVars, socket, opened, stopEvent, closedOk>>
    BY <1>2 DEF Acquire
  <2>2. socket' \in BOOLEAN /\ \A u \in Requesters : lock # u
    BY <2>1, ThreadFacts DEF DeviceInv, TypeOK
  <2> QED
    BY <1>1, <2>1, <2>2, RequesterKeeps, PlaceFacts
<1>3. CASE RequireReady(t) \/ Wire(t)
  <2>1. /\ at[t] \in {"ready", "wire"}
        /\ lock = t
        /\ UNCHANGED <<transportVars, opened, stopEvent, closedOk>>
        /\ socket' \in BOOLEAN
    BY <1>3 DEF RequireReady, Wire, DeviceInv, LockFollows, TypeOK
  <2>2. CASE Return(t)
    <3>1. lock' = NoOne /\ Goto(t, After(t))
      BY <2>2 DEF Return
    <3>2. After(t) \in DaemonAt /\ (After(t) \in RequestAt \/ t = Daemon(Device(t)))
      BY <1>1, PlaceFacts
    <3>3. lock' \in Threads \cup {NoOne} /\ \A u \in Requesters : u # t => lock # u
      BY <2>1, <3>1
    <3>4. After(t) \notin {"ready", "wire"} /\ at[t] # "off"
      BY <1>1, <2>1
    <3> QED
      BY <2>1, <3>1, <3>2, <3>3, <3>4, RequesterKeeps
  <2>3. CASE ~Return(t)
    <3>1. /\ ~stopEvent[Device(t)] /\ opened[Device(t)] /\ session
          /\ Goto(t, "wire") /\ lock' = t
      BY <1>3, <2>1, <2>3 DEF RequireReady, Wire, Connected
    <3>2. Device(t) \in holders
      BY <1>1, <3>1 DEF DeviceInv, OpenedIsHeld, ClosingIsStopping
    <3> QED
      BY <1>1, <2>1, <3>1, <3>2, RequesterKeeps, PlaceFacts
  <2> QED
    BY <2>2, <2>3
<1> QED
  BY <1>2, <1>3 DEF RequestStep

\* What the invariant says of one device's controller.
ControllerOK(d) ==
    /\ opened[d] => d \in holders \/ at[Control(d)] = "released"
    /\ d \in holders => opened[d] \/ at[Control(d)] = "opened"
    /\ at[Control(d)] = "opened" => d \in holders
    /\ at[Control(d)] = "released" => d \notin holders
    /\ at[Control(d)] \in {"closing", "publishers", "releasing", "released"} => stopEvent[d]
    /\ at[Control(d)] \in {"publishers", "releasing", "released"} => ~Alive(d)
    /\ closedOk[d] /\ at[Control(d)] = "idle" => d \notin holders /\ ~Alive(d)

\* Three parts of the invariant are about one device each.
LEMMA ControllersOK ==
  OpenedIsHeld /\ ClosingIsStopping /\ CloseLetsGo <=> \A d \in Holders : ControllerOK(d)
BY DEF OpenedIsHeld, ClosingIsStopping, CloseLetsGo, ControllerOK

\* A flag of each device changes, if at all, for device d.
OnlyChanges(d, flag, new) ==
    new \in [Holders -> BOOLEAN] /\ \A e \in Holders : e # d => new[e] = flag[e]

\* A flag that is set, or is left alone.
LEMMA FlagFacts ==
  ASSUME NEW d \in Holders, NEW flag \in [Holders -> BOOLEAN], NEW b \in BOOLEAN
  PROVE  /\ OnlyChanges(d, flag, flag)
         /\ OnlyChanges(d, flag, [flag EXCEPT ![d] = b])
         /\ [flag EXCEPT ![d] = b][d] = b
BY DEF OnlyChanges

\* What a step of a controller has to show: its own part, and that it changes
\* the line only when nobody talks on it.
LEMMA ControlKeeps ==
  ASSUME DeviceInv, TransportInv', NEW d \in Holders, NEW where \in ControlAt,
         Goto(Control(d), where), ControllerOK(d)',
         lock' = lock, socket' \in BOOLEAN,
         lock = NoOne \/ UNCHANGED <<holders, session>>,
         \A e \in Holders : e # d => (e \in holders' <=> e \in holders),
         OnlyChanges(d, opened, opened'), OnlyChanges(d, stopEvent, stopEvent'),
         OnlyChanges(d, closedOk, closedOk')
  PROVE  DeviceParts'
<1>1. /\ PlacesOK'
      /\ at'[Control(d)] = where /\ \A e \in Holders : e # d => at'[Control(e)] = at[Control(e)]
      /\ \A t \in Requesters : at'[t] = at[t]
      /\ \A e \in Holders : Alive(e)' = Alive(e)
  BY ControlMoves DEF DeviceInv
<1>2. /\ opened' \in [Holders -> BOOLEAN] /\ stopEvent' \in [Holders -> BOOLEAN]
      /\ closedOk' \in [Holders -> BOOLEAN]
      /\ \A e \in Holders : e # d => /\ opened'[e] = opened[e] /\ stopEvent'[e] = stopEvent[e]
                                     /\ closedOk'[e] = closedOk[e]
  BY DEF OnlyChanges
<1>3. TypeOK'
  BY <1>1, <1>2 DEF DeviceInv, TypeOK, PlacesOK, TransportInv
<1>4. LockFollows'
  BY <1>1 DEF DeviceInv, LockFollows
<1>5. TalksAsOwner'
  <2> SUFFICES ASSUME NEW t \in Requesters, at'[t] = "wire"
               PROVE  Device(t) \in holders' /\ session'
    BY DEF TalksAsOwner
  <2>1. at[t] = "wire" /\ lock = t /\ lock # NoOne
    BY <1>1, ThreadFacts DEF DeviceInv, LockFollows
  <2> QED
    BY <2>1 DEF DeviceInv, TalksAsOwner
<1>6. \A e \in Holders : ControllerOK(e)'
  <2> SUFFICES ASSUME NEW e \in Holders, e # d PROVE ControllerOK(e)'
    OBVIOUS
  <2>1. ControllerOK(e)
    BY ControllersOK DEF DeviceInv
  <2>2. /\ at'[Control(e)] = at[Control(e)] /\ Alive(e)' = Alive(e)
        /\ opened'[e] = opened[e] /\ stopEvent'[e] = stopEvent[e] /\ closedOk'[e] = closedOk[e]
        /\ (e \in holders' <=> e \in holders)
    BY <1>1, <1>2
  <2> QED
    BY <2>1, <2>2 DEF ControllerOK
<1>7. OpenedIsHeld' /\ ClosingIsStopping' /\ CloseLetsGo'
  BY <1>6 DEF OpenedIsHeld, ClosingIsStopping, CloseLetsGo, ControllerOK
<1> QED
  BY <1>3, <1>4, <1>5, <1>7 DEF DeviceParts

\* open() begins.
LEMMA CallOpenKeeps ==
  ASSUME DeviceInv, TransportInv', NEW d \in Holders, CallOpen(d)
  PROVE  DeviceParts'
<1>1. /\ at[Control(d)] = "idle" /\ Goto(Control(d), "opening")
      /\ stopEvent' = [stopEvent EXCEPT ![d] = FALSE]
      /\ UNCHANGED <<holders, session, lock, socket, opened, closedOk>>
  BY DEF CallOpen, ControlUnchanged, transportVars
<1>2. at'[Control(d)] = "opening" /\ Alive(d)' = Alive(d)
  BY <1>1, ControlMoves, PlaceFacts DEF DeviceInv
<1>3. ControllerOK(d)'
  BY <1>1, <1>2, ControllersOK DEF DeviceInv, ControllerOK
<1>4. /\ OnlyChanges(d, opened, opened') /\ OnlyChanges(d, stopEvent, stopEvent')
      /\ OnlyChanges(d, closedOk, closedOk') /\ socket' \in BOOLEAN
  BY <1>1, FlagFacts DEF DeviceInv, TypeOK
<1> QED
  BY <1>1, <1>3, <1>4, ControlKeeps, PlaceFacts

\* open() takes the line, or fails to connect.
LEMMA OpenTransportKeeps ==
  ASSUME DeviceInv, TransportInv', NEW d \in Holders, OpenTransport(d)
  PROVE  DeviceParts'
<1>1. /\ at[Control(d)] = "opening" /\ lock = NoOne
      /\ UNCHANGED <<lock, opened, stopEvent>>
      /\ session \in BOOLEAN /\ session' \in BOOLEAN
      /\ socket' = (socket \/ (session' /\ ~session))
  BY DEF OpenTransport, DeviceInv, TransportInv, TransportTypeOK
<1>2. \A e \in Holders : e # d => (e \in holders' <=> e \in holders)
  BY DEF OpenTransport, Open, transportVars
<1>3. socket' \in BOOLEAN
  BY <1>1
<1>4. ControllerOK(d)
  BY ControllersOK DEF DeviceInv
<1>5. CASE d \in holders'
  <2>1. Goto(Control(d), "opened") /\ UNCHANGED closedOk
    BY <1>5 DEF OpenTransport
  <2>2. at'[Control(d)] = "opened" /\ Alive(d)' = Alive(d)
    BY <2>1, ControlMoves, PlaceFacts DEF DeviceInv
  <2>3. ControllerOK(d)'
    BY <1>1, <1>4, <1>5, <2>1, <2>2 DEF ControllerOK
  <2>4. /\ OnlyChanges(d, opened, opened') /\ OnlyChanges(d, stopEvent, stopEvent')
        /\ OnlyChanges(d, closedOk, closedOk')
    BY <1>1, <2>1, FlagFacts DEF DeviceInv, TypeOK
  <2> QED
    BY <1>1, <1>2, <1>3, <2>1, <2>3, <2>4, ControlKeeps, PlaceFacts
<1>6. CASE d \notin holders'
  <2>1. Goto(Control(d), "idle") /\ closedOk' = [closedOk EXCEPT ![d] = FALSE]
    BY <1>6 DEF OpenTransport, ReturnsClosed
  <2>2. at'[Control(d)] = "idle" /\ Alive(d)' = Alive(d)
    BY <2>1, ControlMoves, PlaceFacts DEF DeviceInv
  <2>3. d \notin holders
    BY <1>6 DEF OpenTransport, Open, transportVars
  <2>4. /\ OnlyChanges(d, opened, opened') /\ OnlyChanges(d, stopEvent, stopEvent')
        /\ OnlyChanges(d, closedOk, closedOk') /\ ~closedOk'[d]
    BY <1>1, <2>1, FlagFacts DEF DeviceInv, TypeOK
  <2>5. ControllerOK(d)'
    BY <1>1, <1>4, <1>6, <2>2, <2>3, <2>4 DEF ControllerOK
  <2> QED
    BY <1>1, <1>2, <1>3, <2>1, <2>4, <2>5, ControlKeeps, PlaceFacts
<1> QED
  BY <1>5, <1>6

\* start() starts a daemon where there is none.
LEMMA StartKeeps ==
  ASSUME DeviceInv, TransportInv', NEW d \in Holders, Start(d)
  PROVE  DeviceParts'
<1>1. /\ at[Control(d)] = "idle" /\ at[Daemon(d)] = "off" /\ Goto(Daemon(d), "idle")
      /\ stopEvent' = [stopEvent EXCEPT ![d] = FALSE]
      /\ closedOk' = [closedOk EXCEPT ![d] = FALSE]
      /\ UNCHANGED <<holders, session, lock, socket, opened>>
  BY DEF Start, Alive, ReturnsClosed, ControlUnchanged, transportVars
<1>2. /\ at' \in [Threads -> ControlAt \cup DaemonAt]
      /\ at'[Daemon(d)] = "idle" /\ \A u \in Threads : u # Daemon(d) => at'[u] = at[u]
  BY <1>1, GotoFacts, ThreadFacts, PlaceFacts DEF DeviceInv, TypeOK
<1>3. \A e \in Holders : at'[Control(e)] = at[Control(e)]
  BY <1>2, ThreadFacts
<1>4. \A e \in Holders : e # d => at'[Daemon(e)] = at[Daemon(e)]
  BY <1>2, ThreadFacts
<1>5. \A e \in Reading : at'[<<"reader", e>>] = at[<<"reader", e>>]
  BY <1>2, ThreadFacts
<1>6. /\ OnlyChanges(d, stopEvent, stopEvent') /\ OnlyChanges(d, closedOk, closedOk')
      /\ ~closedOk'[d]
  BY <1>1, FlagFacts DEF DeviceInv, TypeOK
<1>7. TypeOK'
  BY <1>1, <1>2, <1>3, <1>4, <1>5, <1>6, PlaceFacts DEF DeviceInv, TypeOK, OnlyChanges, TransportInv
<1>8. LockFollows' /\ TalksAsOwner'
  BY <1>1, <1>2, ThreadFacts DEF DeviceInv, LockFollows, TalksAsOwner
<1>9. \A e \in Holders : ControllerOK(e)'
  <2> SUFFICES ASSUME NEW e \in Holders PROVE ControllerOK(e)'
    OBVIOUS
  <2>1. ControllerOK(e)
    BY ControllersOK DEF DeviceInv
  <2>2. CASE e = d
    BY <1>1, <1>3, <1>6, <2>1, <2>2 DEF ControllerOK
  <2>3. CASE e # d
    BY <1>1, <1>3, <1>4, <1>6, <2>1, <2>3 DEF ControllerOK, OnlyChanges, Alive
  <2> QED
    BY <2>2, <2>3
<1>10. OpenedIsHeld' /\ ClosingIsStopping' /\ CloseLetsGo'
  BY <1>9 DEF OpenedIsHeld, ClosingIsStopping, CloseLetsGo, ControllerOK
<1> QED
  BY <1>7, <1>8, <1>10 DEF DeviceParts

\* stop() and close() set the stop event.
LEMMA StopKeeps ==
  ASSUME DeviceInv, TransportInv', NEW d \in Holders, Stop(d) \/ CallClose(d)
  PROVE  DeviceParts'
<1>1. PICK where \in {"joining", "closing"} :
        /\ at[Control(d)] = "idle" /\ Goto(Control(d), where)
        /\ stopEvent' = [stopEvent EXCEPT ![d] = TRUE]
        /\ UNCHANGED <<holders, session, lock, socket, opened, closedOk>>
  BY DEF Stop, CallClose, ControlUnchanged, transportVars
<1>2. where \in ControlAt
  BY PlaceFacts
<1>3. at'[Control(d)] = where /\ Alive(d)' = Alive(d)
  BY <1>1, <1>2, ControlMoves DEF DeviceInv
<1>4. /\ OnlyChanges(d, opened, opened') /\ OnlyChanges(d, stopEvent, stopEvent')
      /\ OnlyChanges(d, closedOk, closedOk') /\ socket' \in BOOLEAN /\ stopEvent'[d]
  BY <1>1, FlagFacts DEF DeviceInv, TypeOK
<1>5. ControllerOK(d)'
  BY <1>1, <1>3, <1>4, ControllersOK DEF DeviceInv, ControllerOK
<1> QED
  BY <1>1, <1>2, <1>4, <1>5, ControlKeeps

\* A call joins the daemon, closes the publishers or changes _opened.
LEMMA ControlFlagsKeep ==
  ASSUME DeviceInv, TransportInv', NEW d \in Holders,
         SetOpened(d) \/ JoinStop(d) \/ JoinClose(d) \/ ClosePublishers(d) \/ ClearOpened(d)
  PROVE  DeviceParts'
<1>1. UNCHANGED <<holders, session, lock, socket, stopEvent>>
  BY DEF SetOpened, JoinStop, JoinClose, ClosePublishers, ClearOpened, ControlUnchanged, transportVars
<1>2. ControllerOK(d)
  BY ControllersOK DEF DeviceInv
<1>3. /\ OnlyChanges(d, stopEvent, stopEvent') /\ socket' \in BOOLEAN
      /\ OnlyChanges(d, opened, opened) /\ OnlyChanges(d, closedOk, closedOk)
  BY <1>1, FlagFacts DEF DeviceInv, TypeOK
<1>4. CASE SetOpened(d)
  <2>1. /\ at[Control(d)] = "opened" /\ Goto(Control(d), "idle")
        /\ opened' = [opened EXCEPT ![d] = TRUE] /\ closedOk' = [closedOk EXCEPT ![d] = FALSE]
    BY <1>4 DEF SetOpened, ReturnsClosed
  <2>2. /\ OnlyChanges(d, opened, opened') /\ OnlyChanges(d, closedOk, closedOk')
        /\ opened'[d] /\ ~closedOk'[d]
    BY <2>1, FlagFacts DEF DeviceInv, TypeOK
  <2>3. at'[Control(d)] = "idle" /\ Alive(d)' = Alive(d)
    BY <2>1, ControlMoves, PlaceFacts DEF DeviceInv
  <2>4. ControllerOK(d)'
    BY <1>1, <1>2, <2>1, <2>2, <2>3 DEF ControllerOK
  <2> QED
    BY <1>1, <1>3, <2>1, <2>2, <2>4, ControlKeeps, PlaceFacts
<1>5. CASE JoinStop(d)
  <2>1. /\ at[Control(d)] = "joining" /\ Goto(Control(d), "idle")
        /\ closedOk' = [closedOk EXCEPT ![d] = FALSE] /\ opened' = opened
    BY <1>5 DEF JoinStop, ReturnsClosed, ControlUnchanged
  <2>2. OnlyChanges(d, closedOk, closedOk') /\ ~closedOk'[d]
    BY <2>1, FlagFacts DEF DeviceInv, TypeOK
  <2>3. at'[Control(d)] = "idle" /\ Alive(d)' = Alive(d)
    BY <2>1, ControlMoves, PlaceFacts DEF DeviceInv
  <2>4. ControllerOK(d)'
    BY <1>1, <1>2, <2>1, <2>2, <2>3 DEF ControllerOK
  <2> QED
    BY <1>1, <1>3, <2>1, <2>2, <2>4, ControlKeeps, PlaceFacts
<1>6. CASE JoinClose(d)
  <2>1. /\ at[Control(d)] = "closing" /\ Goto(Control(d), "publishers") /\ ~Alive(d)
        /\ closedOk' = closedOk /\ opened' = opened
    BY <1>6 DEF JoinClose, ControlUnchanged
  <2>2. at'[Control(d)] = "publishers" /\ Alive(d)' = Alive(d)
    BY <2>1, ControlMoves, PlaceFacts DEF DeviceInv
  <2>3. ControllerOK(d)'
    BY <1>1, <1>2, <2>1, <2>2 DEF ControllerOK
  <2> QED
    BY <1>1, <1>3, <2>1, <2>3, ControlKeeps, PlaceFacts
<1>7. CASE ClosePublishers(d)
  <2>1. at[Control(d)] = "publishers" /\ opened' = opened
    BY <1>7 DEF ClosePublishers, ControlUnchanged
  <2>2. CASE opened[d] /\ Goto(Control(d), "releasing") /\ UNCHANGED closedOk
    <3>1. at'[Control(d)] = "releasing" /\ Alive(d)' = Alive(d)
      BY <2>2, ControlMoves, PlaceFacts DEF DeviceInv
    <3>2. ControllerOK(d)'
      BY <1>1, <1>2, <2>1, <2>2, <3>1 DEF ControllerOK
    <3> QED
      BY <1>1, <1>3, <2>1, <2>2, <3>2, ControlKeeps, PlaceFacts
  <2>3. ASSUME NEW yes \in BOOLEAN, yes => ~opened[d], Goto(Control(d), "idle"), ReturnsClosed(d, yes)
        PROVE  DeviceParts'
    <3>1. OnlyChanges(d, closedOk, closedOk') /\ closedOk'[d] = yes
      BY <2>3, FlagFacts DEF DeviceInv, TypeOK, ReturnsClosed
    <3>2. at'[Control(d)] = "idle" /\ Alive(d)' = Alive(d)
      BY <2>3, ControlMoves, PlaceFacts DEF DeviceInv
    <3>3. ControllerOK(d)'
      BY <1>1, <1>2, <2>1, <2>3, <3>1, <3>2 DEF ControllerOK
    <3> QED
      BY <1>1, <1>3, <2>1, <2>3, <3>1, <3>3, ControlKeeps, PlaceFacts
  <2> QED
    BY <1>7, <2>2, <2>3 DEF ClosePublishers
<1>8. CASE ClearOpened(d)
  <2>1. /\ at[Control(d)] = "released" /\ Goto(Control(d), "idle")
        /\ opened' = [opened EXCEPT ![d] = FALSE] /\ closedOk' = [closedOk EXCEPT ![d] = TRUE]
    BY <1>8 DEF ClearOpened, ReturnsClosed
  <2>2. /\ OnlyChanges(d, opened, opened') /\ OnlyChanges(d, closedOk, closedOk') /\ ~opened'[d]
    BY <2>1, FlagFacts DEF DeviceInv, TypeOK
  <2>3. at'[Control(d)] = "idle" /\ Alive(d)' = Alive(d)
    BY <2>1, ControlMoves, PlaceFacts DEF DeviceInv
  <2>4. ControllerOK(d)'
    BY <1>1, <1>2, <2>1, <2>2, <2>3 DEF ControllerOK
  <2> QED
    BY <1>1, <1>3, <2>1, <2>2, <2>4, ControlKeeps, PlaceFacts
<1> QED
  BY <1>4, <1>5, <1>6, <1>7, <1>8

\* close() lets go of the line, which nobody is talking on.
LEMMA ReleaseKeeps ==
  ASSUME DeviceInv, TransportInv', NEW d \in Holders, Release(d)
  PROVE  DeviceParts'
<1>1. /\ at[Control(d)] = "releasing" /\ lock = NoOne /\ Goto(Control(d), "released")
      /\ UNCHANGED <<lock, opened, stopEvent, closedOk>>
      /\ socket \in BOOLEAN /\ session' \in BOOLEAN /\ socket' = (socket /\ session')
  BY DEF Release, DeviceInv, TypeOK, TransportInv, TransportTypeOK
<1>2. d \notin holders' /\ \A e \in Holders : e # d => (e \in holders' <=> e \in holders)
  BY DEF Release, Close, transportVars
<1>3. at'[Control(d)] = "released" /\ Alive(d)' = Alive(d)
  BY <1>1, ControlMoves, PlaceFacts DEF DeviceInv
<1>4. ControllerOK(d)
  BY ControllersOK DEF DeviceInv
<1>5. ControllerOK(d)'
  BY <1>1, <1>2, <1>3, <1>4 DEF ControllerOK
<1>6. /\ OnlyChanges(d, opened, opened') /\ OnlyChanges(d, stopEvent, stopEvent')
      /\ OnlyChanges(d, closedOk, closedOk')
  BY <1>1, FlagFacts DEF DeviceInv, TypeOK
<1>7. socket' \in BOOLEAN
  BY <1>1
<1> QED
  BY <1>1, <1>2, <1>5, <1>6, <1>7, ControlKeeps, PlaceFacts

\* The program opens or closes the line without naming an owner.
LEMMA BareUseKeeps ==
  ASSUME DeviceInv, TransportInv', BareUse
  PROVE  DeviceParts'
<1>1. /\ lock = NoOne /\ UNCHANGED <<lock, opened, stopEvent, at, closedOk>>
      /\ holders' = holders
      /\ socket \in BOOLEAN /\ session \in BOOLEAN /\ session' \in BOOLEAN
      /\ socket' = ((socket \/ ~session) /\ session')
  BY DEF BareUse, BareOpen, BareClose, transportVars, DeviceInv, TypeOK, TransportInv, TransportTypeOK
<1>2. socket' \in BOOLEAN
  BY <1>1
<1>3. TypeOK'
  BY <1>1, <1>2 DEF DeviceInv, TypeOK, TransportInv
<1>4. LockFollows' /\ TalksAsOwner'
  BY <1>1, ThreadFacts DEF DeviceInv, LockFollows, TalksAsOwner
<1>5. OpenedIsHeld' /\ ClosingIsStopping' /\ CloseLetsGo'
  BY <1>1 DEF DeviceInv, OpenedIsHeld, ClosingIsStopping, CloseLetsGo, Alive
<1> QED
  BY <1>3, <1>4, <1>5 DEF DeviceParts

-----------------------------------------------------------------------------
(* The theorems *)

\* Every step keeps the invariant.
LEMMA DeviceStep == DeviceInv /\ [Next]_vars => DeviceInv'
<1> SUFFICES ASSUME DeviceInv, [Next]_vars PROVE DeviceInv'
  OBVIOUS
<1>1. TransportInv'
  BY DeviceCallsTransport, TransportStep DEF DeviceInv
<1>2. DeviceParts'
  <2>1. CASE BareUse
    BY <1>1, <2>1, BareUseKeeps
  <2>2. ASSUME NEW t \in Requesters, RequestStep(t)
        PROVE  DeviceParts'
    BY <1>1, <2>2, RequestStepKeeps
  <2>3. ASSUME NEW d \in Reading, Request(<<"reader", d>>)
        PROVE  DeviceParts'
    BY <1>1, <2>3, RequestKeeps
  <2>4. ASSUME NEW d \in Holders, DaemonStep(d)
        PROVE  DeviceParts'
    BY <1>1, <2>4, DaemonKeeps
  <2>5. ASSUME NEW d \in Holders, ControlStep(d)
        PROVE  DeviceParts'
    BY <1>1, <2>5, OpenTransportKeeps, ControlFlagsKeep, ReleaseKeeps DEF ControlStep
  <2>6. ASSUME NEW d \in Holders, ControlCall(d)
        PROVE  DeviceParts'
    BY <1>1, <2>6, CallOpenKeeps, StartKeeps, StopKeeps DEF ControlCall
  <2>7. CASE UNCHANGED vars
    <3>1. UNCHANGED <<lock, socket, opened, stopEvent, at, closedOk, holders, session, firsts>>
      BY <2>7 DEF vars, deviceVars, transportVars
    <3>2. TypeOK'
      BY <1>1, <3>1 DEF DeviceInv, TypeOK, TransportInv
    <3> QED
      BY <3>1, <3>2 DEF DeviceParts, DeviceInv, LockFollows, TalksAsOwner, OpenedIsHeld,
                        ClosingIsStopping, CloseLetsGo, Alive
  <2> QED
    BY <2>1, <2>2, <2>3, <2>4, <2>5, <2>6, <2>7 DEF Next
<1> QED
  BY <1>1, <1>2 DEF DeviceInv, DeviceParts

\* The types, of every device on every line.
THEOREM DeviceTypes == Spec => []TypeOK
<1>1. DeviceInv => TypeOK
  BY DEF DeviceInv
<1> QED
  BY <1>1, DeviceInit, DeviceStep, PTL DEF Spec

\* A device that was closed while its daemon or a reader was in a request does
\* not talk on a line it let go of: _require_ready_locked() tests _opened and
\* the stop event under the transport's lock, and close() sets the event first.
THEOREM LineBelongsToOwners == Spec => []OnlyOwnersTalk
<1>1. DeviceInv => OnlyOwnersTalk
  BY DEF DeviceInv, OnlyOwnersTalk, LockFollows, TalksAsOwner
<1> QED
  BY <1>1, DeviceInit, DeviceStep, PTL DEF Spec

\* A close() that returned without error left no owner and no daemon behind.
THEOREM ClosedDeviceLetsGo == Spec => []CloseLetsGo
<1>1. DeviceInv => CloseLetsGo
  BY DEF DeviceInv
<1> QED
  BY <1>1, DeviceInit, DeviceStep, PTL DEF Spec

\* Devices on a line use it as Transport allows, so the line stays up for the
\* owners it has and one of them was told that it is the first.
THEOREM DevicesUseTransport == Spec => TransportSpec
<1>1. Init => TransportInit
  BY DEF Init
<1> QED
  BY <1>1, DeviceCallsTransport, PTL DEF Spec, TransportSpec

\* HeldMeansOpen and OneFirstOwner, on the line of the devices.
THEOREM LineStaysUp == Spec => [](HeldMeansOpen /\ OneFirstOwner)
BY DevicesUseTransport, TransportCorrect, PTL
=============================================================================
