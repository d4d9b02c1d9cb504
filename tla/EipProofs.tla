------------------------------ MODULE EipProofs ------------------------------
(***************************************************************************)
(* For any readers and openers, one request at a time is inside the        *)
(* session of an EtherNet/IP device, and close() takes it away from nobody *)
(* and leaves nothing behind.                                              *)
(***************************************************************************)
EXTENDS EipSession, TLAPS

-----------------------------------------------------------------------------
(* The invariant: the lock and the session *)

Places == at \in [Threads -> At]

\* Who is past Enter and has not left holds the lock; who passed Admit found a
\* session, and it is still there.
Inside ==
  \A t \in Requesters :
    /\ at[t] \in {"ready", "connect", "wire"} => lock = t
    /\ at[t] \in {"connect", "wire"} => session

\* From its join on, close() has no daemon to fear; and what it left stays away
\* until it is called for.
Closing ==
  /\ at["control"] \in {"publishers", "dropping"} => ~Alive
  /\ closedOk => ~session /\ ~Alive

EipInv == Places /\ Inside /\ Closing

\* What a step leaves to be shown when one thread moves.
LEMMA EipMoved ==
  ASSUME EipAssumption, EipInv, NEW t \in Threads, NEW where \in At,
         at' = [at EXCEPT ![t] = where],
         lock' = lock \/ lock = t \/ lock = NoOne,
         session' \/ session' = session \/ lock = NoOne,
         t \in Requesters /\ where \in {"ready", "connect", "wire"} => lock' = t,
         t \in Requesters /\ where \in {"connect", "wire"} => session',
         Closing'
  PROVE  EipInv'
<1> USE DEF EipInv, Places, Threads, Requesters
<1>1. Places'
  OBVIOUS
<1>2. ASSUME NEW u \in Requesters
      PROVE  /\ at'[u] \in {"ready", "connect", "wire"} => lock' = u
             /\ at'[u] \in {"connect", "wire"} => session'
  <2>1. CASE u = t
    BY <2>1
  <2>2. CASE u # t
    <3>1. at'[u] = at[u] /\ u # NoOne
      BY <2>2 DEF EipAssumption
    <3> QED
      BY <2>2, <3>1 DEF Inside
  <2> QED
    BY <2>1, <2>2
<1> QED
  BY <1>1, <1>2 DEF Inside

LEMMA EipStep ==
  ASSUME EipAssumption, EipInv, [Next]_vars
  PROVE  EipInv'
<1> USE DEF Goto, LinkUnchanged, HistoryUnchanged
<1>1. /\ "control" \in Threads /\ "control" \notin Requesters
      /\ "daemon" \in Requesters /\ Requesters \subseteq Threads
      /\ Openers \subseteq Threads /\ Openers \cap Requesters = {}
  BY DEF Threads, Requesters, EipAssumption
<1>2. at \in [Threads -> At] /\ NoOne \notin Threads
  BY DEF EipInv, Places, EipAssumption
<1>3. ASSUME UNCHANGED <<at, lock, session>>, closedOk' => closedOk PROVE EipInv'
  BY <1>3 DEF EipInv, Places, Inside, Closing, Alive
<1>4. CASE Outage \/ Restore
  BY <1>3, <1>4 DEF Outage, Restore
<1>5. ASSUME NEW t \in Requesters, NEW where \in RequestAt \cup {"wait"},
             at' = [at EXCEPT ![t] = where], UNCHANGED <<session, closedOk>>,
             lock' = lock \/ lock = t \/ lock = NoOne,
             where \in {"ready", "connect", "wire"} => lock' = t,
             where \in {"connect", "wire"} => session,
             t = "daemon" => Alive
      PROVE  EipInv'
  <2>1. where \in At
    BY DEF At
  <2>2. Closing'
    BY <1>1, <1>2, <1>5 DEF EipInv, Closing, Alive, RequestAt
  <2> QED
    BY <1>1, <1>5, <2>1, <2>2, EipMoved
<1>6. ASSUME NEW t \in Requesters, RequestStep(t) PROVE EipInv'
  <2>1. t = "daemon" => Alive
    BY <1>6 DEF RequestStep, Enter, Admit, Reconnect, Answer, FailRetriable, FailItems, Alive
  <2>2. CASE Enter(t)
    BY <1>5, <2>1, <2>2 DEF Enter, RequestAt
  <2>3. ASSUME at[t] \in {"ready", "connect", "wire"}, NEW got, Leave(t, got), UNCHANGED <<session, closedOk>>
        PROVE  EipInv'
    BY <1>5, <2>1, <2>3 DEF Leave, RequestAt, EipInv, Inside
  <2>4. CASE Admit(t)
    <3>1. at[t] = "ready" /\ UNCHANGED <<session, closedOk>> /\ lock = t
      BY <2>4 DEF Admit, EipInv, Inside
    <3>2. CASE stopEvent \/ ~session
      BY <2>3, <2>4, <3>1, <3>2 DEF Admit
    <3>3. CASE ~(stopEvent \/ ~session)
      <4>1. at' = [at EXCEPT ![t] = "connect"] /\ lock' = lock
        BY <2>4, <3>3 DEF Admit
      <4> QED
        BY <1>5, <2>1, <3>1, <3>3, <4>1 DEF RequestAt
    <3> QED
      BY <3>2, <3>3
  <2>5. CASE Reconnect(t)
    <3>1. at[t] = "connect" /\ UNCHANGED <<session, closedOk>> /\ lock = t /\ session
      BY <2>5 DEF Reconnect, EipInv, Inside
    <3>2. CASE client # "none" \/ up
      <4>1. at' = [at EXCEPT ![t] = "wire"] /\ lock' = lock
        BY <2>5, <3>2 DEF Reconnect
      <4> QED
        BY <1>5, <2>1, <3>1, <4>1 DEF RequestAt
    <3>3. CASE ~(client # "none" \/ up)
      BY <2>3, <2>5, <3>1, <3>3 DEF Reconnect
    <3> QED
      BY <3>2, <3>3
  <2>6. CASE Answer(t) \/ FailRetriable(t) \/ FailItems(t)
    BY <2>3, <2>6 DEF Answer, FailRetriable, FailItems
  <2> QED
    BY <1>6, <2>2, <2>4, <2>5, <2>6 DEF RequestStep
<1>7. ASSUME NEW r \in Readers, Request(r) PROVE EipInv'
  BY <1>5, <1>7 DEF Request, Requesters, RequestAt, EipAssumption
<1>8. CASE DaemonStep
  <2>1. PICK where \in {"off", "acquire", "idle"} :
          /\ at' = [at EXCEPT !["daemon"] = where] /\ UNCHANGED <<lock, session, closedOk>>
          /\ at["daemon"] \in {"idle", "wait"}
    BY <1>8 DEF DaemonStep, DaemonLoop, DaemonWait
  <2>2. Closing'
    BY <1>1, <1>2, <2>1 DEF EipInv, Closing, Alive
  <2> QED
    BY <1>1, <2>1, <2>2, EipMoved DEF At, RequestAt
<1>9. ASSUME NEW where \in At, at' = [at EXCEPT !["control"] = where], lock' = lock,
             session' \/ session' = session \/ lock = NoOne, Closing'
      PROVE  EipInv'
  BY <1>1, <1>9, EipMoved
<1>10. CASE ControlStep
  <2>1. CASE JoinStop
    BY <1>1, <1>2, <1>9, <2>1 DEF JoinStop, EipInv, Closing, Alive, At, RequestAt
  <2>2. CASE JoinClose
    BY <1>1, <1>2, <1>9, <2>2 DEF JoinClose, EipInv, Closing, Alive, At, RequestAt
  <2>3. CASE ClosePublishers
    <3>1. PICK where \in {"idle", "dropping"} : at' = [at EXCEPT !["control"] = where]
      BY <2>3 DEF ClosePublishers
    <3>2. at["control"] = "publishers" /\ UNCHANGED <<lock, session>> /\ (closedOk' => closedOk)
      BY <2>3 DEF ClosePublishers
    <3>3. Closing'
      BY <1>1, <1>2, <3>1, <3>2 DEF EipInv, Closing, Alive
    <3> QED
      BY <1>9, <3>1, <3>2, <3>3 DEF At, RequestAt
  <2>4. CASE DropSession
    BY <1>1, <1>2, <1>9, <2>4 DEF DropSession, EipInv, Closing, Alive, At, RequestAt
  <2> QED
    BY <1>10, <2>1, <2>2, <2>3, <2>4 DEF ControlStep
<1>11. CASE ControlCall
  <2>1. CASE Start
    <3>1. at["control"] = "idle" /\ at' = [at EXCEPT !["daemon"] = "idle"]
      BY <2>1 DEF Start
    <3>2. UNCHANGED <<lock, session>> /\ closedOk' = FALSE
      BY <2>1 DEF Start
    <3>3. Closing'
      BY <1>1, <1>2, <3>1, <3>2 DEF Closing
    <3> QED
      BY <1>1, <3>1, <3>2, <3>3, EipMoved DEF At, RequestAt
  <2>2. CASE Stop \/ CallClose
    <3>1. PICK where \in {"joinStop", "joinClose"} : at' = [at EXCEPT !["control"] = where]
      BY <2>2 DEF Stop, CallClose
    <3>2. UNCHANGED <<lock, session, closedOk>>
      BY <2>2 DEF Stop, CallClose
    <3>3. Closing'
      BY <1>1, <1>2, <3>1, <3>2 DEF EipInv, Closing, Alive
    <3> QED
      BY <1>9, <3>1, <3>2, <3>3 DEF At
  <2> QED
    BY <1>11, <2>1, <2>2 DEF ControlCall
<1>12. ASSUME NEW t \in {"control"} \cup Openers, CallOpen(t) \/ Open(t) PROVE EipInv'
  <2>1. t \in Threads /\ t \notin Requesters
    BY <1>1
  <2>2. CASE CallOpen(t)
    <3>1. at' = [at EXCEPT ![t] = "opening"] /\ UNCHANGED <<lock, session>> /\ (closedOk' => closedOk)
      BY <2>2 DEF CallOpen
    <3>2. Closing'
      BY <1>1, <1>2, <2>1, <3>1 DEF EipInv, Closing, Alive
    <3> QED
      BY <2>1, <3>1, <3>2, EipMoved DEF At
  <2>3. CASE Open(t)
    <3>1. at' = [at EXCEPT ![t] = "idle"] /\ lock' = lock /\ lock = NoOne
      BY <2>3 DEF Open
    <3>2. closedOk' => closedOk /\ ~session'
      BY <2>3 DEF Open
    <3>3. Closing'
      BY <1>1, <1>2, <2>1, <3>1, <3>2 DEF EipInv, Closing, Alive
    <3> QED
      BY <2>1, <3>1, <3>3, EipMoved DEF At, RequestAt
  <2> QED
    BY <1>12, <2>2, <2>3
<1>13. CASE UNCHANGED vars
  BY <1>3, <1>13 DEF vars
<1> QED
  BY <1>4, <1>6, <1>7, <1>8, <1>10, <1>11, <1>12, <1>13 DEF Next

LEMMA EipAlways ==
  ASSUME EipAssumption
  PROVE  Spec => []EipInv
<1>1. Init => EipInv
  <2> SUFFICES ASSUME Init PROVE EipInv
    OBVIOUS
  <2>1. Places
    BY DEF Places, Init, At, RequestAt
  <2>2. \A t \in Threads : at[t] \in {"off", "idle"}
    BY DEF Init
  <2>3. Inside /\ Closing
    BY <2>2 DEF Inside, Closing, Init, Threads, Requesters
  <2> QED
    BY <2>1, <2>3 DEF EipInv
<1>2. EipInv /\ [Next]_vars => EipInv'
  BY EipStep
<1> QED
  BY <1>1, <1>2, PTL DEF Spec

\* Whatever the readers, the daemon, open() and close() do, at most one thread is
\* in the session, and it is not taken away under it.
THEOREM EipOneInside ==
  ASSUME EipAssumption
  PROVE  Spec => []OneInSession
<1>1. EipInv => OneInSession
  BY DEF EipInv, Inside, OneInSession
<1> QED
  BY <1>1, EipAlways, PTL

\* After a close() that raised nothing there is neither session nor daemon.
THEOREM EipCloseLetsGo ==
  ASSUME EipAssumption
  PROVE  Spec => []CloseDropsSession
<1>1. EipInv => CloseDropsSession
  BY DEF EipInv, Closing, CloseDropsSession
<1> QED
  BY <1>1, EipAlways, PTL

=============================================================================
