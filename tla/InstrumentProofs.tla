-------------------------- MODULE InstrumentProofs --------------------------
(***************************************************************************)
(* For every set of threads and publishers and every number of starts: the *)
(* types of Instrument, and, as long as one thread does the starting and   *)
(* stopping, never two live daemons, nothing left behind by a stop(), a    *)
(* running daemon that readers find a buffer of, and a close() that reaches *)
(* every publisher.                                                        *)
(***************************************************************************)
EXTENDS Instrument, FiniteSetTheorems, WellFoundedInduction, TLAPS

-----------------------------------------------------------------------------
(* The publisher list *)

\* list.remove takes one element out and adds none.
LEMMA WithoutType ==
  ASSUME NEW S, NEW seq \in Seq(S), seq # <<>>, NEW p
  PROVE  Without(seq, p) \in Seq(S)
<1> DEFINE i == CHOOSE i \in 1..Len(seq) : seq[i] = p /\ \A j \in 1..(i - 1) : seq[j] # p
           n == Len(seq) - 1
<1>1. n \in Nat
  OBVIOUS
<1>2. \A j \in 1..n : seq[j] \in S /\ seq[j + 1] \in S
  OBVIOUS
<1>3. Without(seq, p) = [j \in 1..n |-> IF j < i THEN seq[j] ELSE seq[j + 1]]
  BY DEF Without
<1> HIDE DEF i, n
<1>4. Without(seq, p) \in [1..n -> S]
  BY <1>2, <1>3
<1> QED
  BY <1>1, <1>4

\* What the list of publishers may hold, by kind.
LEMMA ListedType ==
  /\ \A u \in Users : User(u) \in Listed
  /\ \A b \in Ids0 : Buf(b) \in Listed
BY DEF Listed

\* What a buffer in the list is made from.
LEMMA ListedBuffer ==
  ASSUME NEW p \in Listed, p.kind = "buffer" PROVE p.id \in Ids0
BY DEF Listed, User, Buf

\* A user publisher of the list is one of the instance.
LEMMA ListedUser ==
  ASSUME NEW p \in Listed, p.kind = "user" PROVE p.id \in Users
BY DEF Listed, User, Buf

\* There are no other kinds.
LEMMA ListedKinds == \A p \in Listed : p.kind \in {"user", "buffer"}
BY DEF Listed, User, Buf

-----------------------------------------------------------------------------
(* Types *)

\* The publisher at a position short of the end is one of the list.
LEMMA CurrentListed ==
  ASSUME publishers \in Seq(Listed), NEW t, pos[t] \in Nat \ {0}, ~AtEnd(t)
  PROVE  /\ Current(t) \in Listed
         /\ Current(t).kind = "buffer" => Current(t).id \in Ids0
         /\ Current(t).kind # "buffer" => Current(t).id \in Users
<1>1. pos[t] \in 1..Len(publishers)
  BY DEF AtEnd
<1>2. Current(t) \in Listed
  BY <1>1 DEF Current
<1> QED
  BY <1>2, ListedBuffer, ListedUser, ListedKinds

-----------------------------------------------------------------------------
(* Types *)

\* A new instrument has its types.
LEMMA TypeInit == Init => TypeOK
<1> SUFFICES ASSUME Init PROVE TypeOK
  OBVIOUS
<1> USE InstrumentAssumption DEF Init, Ids, Ids0
<1>1. publishers \in Seq(Listed)
  <2>1. \A i \in 1..Len(InitialUsers) : User(InitialUsers[i]) \in Listed
    BY DEF Listed
  <2> QED
    BY <2>1
<1>2. DaemonTypeOK
  <2>1. dpc \in [Ids -> {"none", "created", "dead"} \cup Live]
    OBVIOUS
  <2>2. thread \in Ids0 /\ (thread # 0 => dpc[thread] # "none")
    OBVIOUS
  <2>3. stopEvent \in BOOLEAN
    OBVIOUS
  <2> QED
    BY <2>1, <2>2, <2>3 DEF DaemonTypeOK
<1>3. BufferTypeOK
  BY <1>1 DEF BufferTypeOK
<1>4. CallerTypeOK
  BY DEF CallerTypeOK, ControllerAt
<1> QED
  BY <1>2, <1>3, <1>4 DEF TypeOK

\* The daemon's variables.
LEMMA DaemonTypes == TypeOK /\ [Next]_vars => DaemonTypeOK'
<1> SUFFICES ASSUME TypeOK, [Next]_vars PROVE DaemonTypeOK'
  OBVIOUS
<1> USE InstrumentAssumption DEF TypeOK, DaemonTypeOK, Ids, Ids0
<1>1. CASE UNCHANGED daemonVars
  BY <1>1 DEF daemonVars
<1>2. ASSUME NEW c \in Controllers, ClearStopEvent(c) PROVE DaemonTypeOK'
  BY <1>2 DEF ClearStopEvent
<1>3. ASSUME NEW c \in Controllers, Spawn(c) PROVE DaemonTypeOK'
  <2>1. mine[c] \in 0..MaxStarts
    BY DEF CallerTypeOK, Callers
  <2>2. dpc' \in [Ids -> {"none", "created", "dead"} \cup Live]
    BY <1>3 DEF Spawn
  <2>3. mine[c] # 0 => dpc'[mine[c]] = "created"
    BY <1>3, <2>1 DEF Spawn
  <2>4. thread' = mine[c] /\ stopEvent' = stopEvent
    BY <1>3 DEF Spawn
  <2> QED
    BY <2>1, <2>2, <2>3, <2>4
<1>4. ASSUME NEW c \in Controllers, Launch(c) PROVE DaemonTypeOK'
  BY <1>4 DEF Launch, Live
<1>5. ASSUME NEW c \in Controllers, SetStopEvent(c) PROVE DaemonTypeOK'
  BY <1>5 DEF SetStopEvent
<1>6. ASSUME NEW t \in Ids, DaemonStep(t) PROVE DaemonTypeOK'
  <2>1. PICK at \in Live \cup {"dead"} : dpc' = [dpc EXCEPT ![t] = at] \/ dpc' = dpc
    BY <1>6 DEF DaemonStep, DaemonCheck, DaemonWork, DaemonWait, DaemonTiming, DGoto, Live
  <2>2. at # "none"
    BY DEF Live
  <2>3. UNCHANGED <<thread, stopEvent>>
    BY <1>6 DEF DaemonStep, DaemonCheck, DaemonWork, DaemonWait, DaemonTiming, DaemonUnchanged
  <2> QED
    BY <2>1, <2>2, <2>3
<1>7. ASSUME NEW c \in Controllers, ControllerStep(c),
             ~ClearStopEvent(c), ~Spawn(c), ~Launch(c), ~SetStopEvent(c)
      PROVE  UNCHANGED daemonVars
  BY <1>7 DEF ControllerStep, StartCheck, SetupBuffer, BuildBuffer, RegisterBuffer, StopCheck,
              Join, CloseBuffer, RemoveBuffer, DropBuffer, ClosePublisher
<1>8. ASSUME NEW c \in Controllers, \/ CallStart(c)
                                    \/ \E why \in {"stop", "close"} : CallStop(c, why)
                                    \/ \E u \in Users : AddPublisher(c, u)
      PROVE  UNCHANGED daemonVars
  BY <1>8 DEF CallStart, CallStop, AddPublisher
<1>9. ASSUME NEW r \in Readers, CallGet(r) \/ ReaderStep(r) \/ GetTimeout(r)
      PROVE  UNCHANGED daemonVars
  BY <1>9 DEF CallGet, ReaderStep, GetCheck, GetAssert, GetEnter, GetReturn, GetTimeout,
              ReaderUnchanged
<1>10. ASSUME NEW s \in Speakers, CallPublish(s) \/ Publish(s)
       PROVE  UNCHANGED daemonVars
  BY <1>10 DEF CallPublish, Publish
<1>11. CASE UNCHANGED vars
  BY <1>11 DEF vars, daemonVars
<1> QED
  BY <1>1, <1>2, <1>3, <1>4, <1>5, <1>6, <1>7, <1>8, <1>9, <1>10, <1>11 DEF Next

\* The buffers and the publisher list.
LEMMA BufferTypes == TypeOK /\ [Next]_vars => BufferTypeOK'
<1> SUFFICES ASSUME TypeOK, [Next]_vars PROVE BufferTypeOK'
  OBVIOUS
<1> USE DEF TypeOK, BufferTypeOK, bufferVars, listVars
<1>1. CASE UNCHANGED <<bufferVars, listVars>>
  BY <1>1
<1>2. ASSUME NEW c \in Controllers, BuildBuffer(c) PROVE BufferTypeOK'
  BY <1>2 DEF BuildBuffer, CallerTypeOK, Callers
<1>3. ASSUME NEW c \in Controllers, RegisterBuffer(c) PROVE BufferTypeOK'
  <2>1. publishers' \in Seq(Listed)
    BY <1>3, ListedType DEF RegisterBuffer
  <2> QED
    BY <1>3, <2>1 DEF RegisterBuffer
<1>4. ASSUME NEW c \in Controllers, CloseBuffer(c) PROVE BufferTypeOK'
  BY <1>4 DEF CloseBuffer
<1>5. ASSUME NEW c \in Controllers, RemoveBuffer(c) PROVE BufferTypeOK'
  <2>1. CASE Registered(Buf(buffer))
    <3>1. publishers # <<>>
      BY <2>1 DEF Registered
    <3> QED
      BY <1>5, <2>1, <3>1, WithoutType DEF RemoveBuffer
  <2>2. CASE ~Registered(Buf(buffer))
    BY <1>5, <2>2 DEF RemoveBuffer
  <2> QED
    BY <2>1, <2>2
<1>6. ASSUME NEW c \in Controllers, DropBuffer(c) PROVE BufferTypeOK'
  BY <1>6, InstrumentAssumption DEF DropBuffer, Ids0
<1>7. ASSUME NEW c \in Controllers, ClosePublisher(c) PROVE BufferTypeOK'
  <2>1. pos[c] \in Nat \ {0}
    BY DEF CallerTypeOK, Callers
  <2>2. CASE AtEnd(c)
    BY <1>7, <2>2 DEF ClosePublisher
  <2>3. CASE ~AtEnd(c)
    <3>1. UNCHANGED <<buffer, fed, publishers>>
      BY <1>7 DEF ClosePublisher
    <3>2. closedBufs' \subseteq Ids0 /\ shut' \subseteq Users
      BY <1>7, <2>1, <2>3, CurrentListed DEF ClosePublisher
    <3> QED
      BY <3>1, <3>2
  <2> QED
    BY <2>2, <2>3
<1>8. ASSUME NEW c \in Controllers, NEW u \in Users, AddPublisher(c, u) PROVE BufferTypeOK'
  <2>1. publishers' \in Seq(Listed)
    BY <1>8, ListedType DEF AddPublisher
  <2> QED
    BY <1>8, <2>1 DEF AddPublisher
<1>9. ASSUME NEW t \in Callers \cup Ids, Deliver(t) PROVE fed' \subseteq Ids0
  <2>1. pos[t] \in Nat \ {0}
    BY DEF CallerTypeOK
  <2> QED
    BY <1>9, <2>1, CurrentListed DEF Deliver
<1>10. ASSUME NEW t \in Ids, DaemonStep(t) PROVE BufferTypeOK'
  <2>1. fed' = fed \/ Deliver(t)
    BY <1>10 DEF DaemonStep, DaemonCheck, DaemonWork, DaemonWait, DaemonTiming
  <2>2. UNCHANGED <<buffer, closedBufs, publishers, shut>>
    BY <1>10 DEF DaemonStep, DaemonCheck, DaemonWork, DaemonWait, DaemonTiming, DaemonUnchanged
  <2> QED
    BY <1>9, <2>1, <2>2
<1>11. ASSUME NEW s \in Speakers, CallPublish(s) \/ Publish(s) PROVE BufferTypeOK'
  <2>1. fed' = fed \/ Deliver(s)
    BY <1>11 DEF CallPublish, Publish
  <2>2. UNCHANGED <<buffer, closedBufs, publishers, shut>>
    BY <1>11 DEF CallPublish, Publish
  <2> QED
    BY <1>9, <2>1, <2>2 DEF Callers
<1>12. ASSUME NEW c \in Controllers, ControllerStep(c), ~BuildBuffer(c), ~RegisterBuffer(c),
              ~CloseBuffer(c), ~RemoveBuffer(c), ~DropBuffer(c), ~ClosePublisher(c)
       PROVE  UNCHANGED <<bufferVars, listVars>>
  BY <1>12 DEF ControllerStep, StartCheck, SetupBuffer, ClearStopEvent, Spawn, Launch, StopCheck,
               SetStopEvent, Join
<1>13. ASSUME NEW c \in Controllers, \/ CallStart(c)
                                     \/ \E why \in {"stop", "close"} : CallStop(c, why)
       PROVE  UNCHANGED <<bufferVars, listVars>>
  BY <1>13 DEF CallStart, CallStop
<1>14. ASSUME NEW r \in Readers, CallGet(r) \/ ReaderStep(r) \/ GetTimeout(r)
       PROVE  UNCHANGED <<bufferVars, listVars>>
  BY <1>14 DEF CallGet, ReaderStep, GetCheck, GetAssert, GetEnter, GetReturn, GetTimeout,
               ReaderUnchanged
<1>15. CASE UNCHANGED vars
  BY <1>15 DEF vars
<1> QED
  BY <1>1, <1>2, <1>3, <1>4, <1>5, <1>6, <1>7, <1>8, <1>10, <1>11, <1>12, <1>13, <1>14, <1>15
  DEF Next

\* Program counters, call numbers and loop positions.
LEMMA CallerTypes == TypeOK /\ [Next]_vars => CallerTypeOK'
<1> SUFFICES ASSUME TypeOK, [Next]_vars PROVE CallerTypeOK'
  OBVIOUS
<1> USE InstrumentAssumption
    DEF TypeOK, CallerTypeOK, callerVars, ControllerAt, ReaderAt, Callers, Goto, Leave, Ids0
<1>1. ASSUME NEW t \in Callers \cup Ids,
             pos' = pos \/ pos' = [pos EXCEPT ![t] = 1] \/ pos' = [pos EXCEPT ![t] = @ + 1]
      PROVE  pos' \in [Callers \cup Ids -> Nat \ {0}]
  <2>1. pos \in [Callers \cup Ids -> Nat \ {0}]
    OBVIOUS
  <2>2. PICK p \in Nat \ {0} : pos' = pos \/ pos' = [pos EXCEPT ![t] = p]
    <3>1. pos[t] + 1 \in Nat \ {0} /\ 1 \in Nat \ {0}
      BY <2>1
    <3> HIDE DEF CallerTypeOK
    <3> QED
      BY <1>1, <3>1
  <2> HIDE DEF CallerTypeOK, Callers
  <2> QED
    BY <2>1, <2>2
<1>2. ASSUME NEW c \in Controllers, AfterStop(c)
      PROVE  /\ pc' = [pc EXCEPT ![c] = "cl_loop"] \/ pc' = [pc EXCEPT ![c] = "idle"]
             /\ pos' = pos \/ pos' = [pos EXCEPT ![c] = 1]
  BY <1>2 DEF AfterStop
<1>3. ASSUME NEW c \in Controllers, CallStart(c) PROVE CallerTypeOK'
  BY <1>3 DEF CallStart
<1>4. ASSUME NEW c \in Controllers,
             \/ SetupBuffer(c) \/ BuildBuffer(c) \/ RegisterBuffer(c) \/ ClearStopEvent(c)
             \/ Spawn(c) \/ SetStopEvent(c) \/ Join(c) \/ RemoveBuffer(c)
      PROVE  CallerTypeOK'
  <2>1. PICK at \in ControllerAt : pc' = [pc EXCEPT ![c] = at]
    BY <1>4 DEF SetupBuffer, BuildBuffer, RegisterBuffer, ClearStopEvent, Spawn, SetStopEvent,
                Join, RemoveBuffer
  <2>2. UNCHANGED <<starts, op, mine, got, pos>>
    BY <1>4 DEF SetupBuffer, BuildBuffer, RegisterBuffer, ClearStopEvent, Spawn, SetStopEvent,
                Join, RemoveBuffer
  <2> QED
    BY <2>1, <2>2
<1>5. ASSUME NEW c \in Controllers, StartCheck(c) \/ Launch(c) \/ CloseBuffer(c)
      PROVE  CallerTypeOK'
  <2>1. PICK at \in ControllerAt : pc' = [pc EXCEPT ![c] = at]
    BY <1>5 DEF StartCheck, Launch, CloseBuffer
  <2>2. UNCHANGED <<starts, op, mine, got, pos>>
    BY <1>5 DEF StartCheck, Launch, CloseBuffer
  <2> QED
    BY <2>1, <2>2
<1>6. ASSUME NEW c \in Controllers, StopCheck(c) \/ DropBuffer(c) PROVE CallerTypeOK'
  <2>1. PICK at \in ControllerAt : pc' = [pc EXCEPT ![c] = at]
    BY <1>2, <1>6 DEF StopCheck, DropBuffer
  <2>2. pos' = pos \/ pos' = [pos EXCEPT ![c] = 1]
    BY <1>2, <1>6 DEF StopCheck, DropBuffer
  <2>3. UNCHANGED <<starts, op, mine, got>>
    BY <1>6 DEF StopCheck, DropBuffer
  <2>4. pos' \in [Callers \cup Ids -> Nat \ {0}]
    BY <1>1, <2>2
  <2> QED
    BY <2>1, <2>3, <2>4
<1>7. ASSUME NEW c \in Controllers, ClosePublisher(c) PROVE CallerTypeOK'
  <2>1. pc' = pc \/ pc' = [pc EXCEPT ![c] = "idle"]
    BY <1>7 DEF ClosePublisher
  <2>2. pos' = pos \/ pos' = [pos EXCEPT ![c] = @ + 1]
    BY <1>7 DEF ClosePublisher
  <2>3. UNCHANGED <<starts, op, mine, got>>
    BY <1>7 DEF ClosePublisher
  <2>4. pos' \in [Callers \cup Ids -> Nat \ {0}]
    BY <1>1, <2>2
  <2> QED
    BY <2>1, <2>3, <2>4
<1>8. ASSUME NEW c \in Controllers, NEW why \in {"stop", "close"}, CallStop(c, why)
      PROVE  CallerTypeOK'
  BY <1>8 DEF CallStop
<1>9. ASSUME NEW c \in Controllers, NEW u \in Users, AddPublisher(c, u) PROVE CallerTypeOK'
  BY <1>9 DEF AddPublisher
<1>10. ASSUME NEW t \in Ids, DaemonStep(t) PROVE CallerTypeOK'
  <2>1. pos' = pos \/ pos' = [pos EXCEPT ![t] = 1] \/ pos' = [pos EXCEPT ![t] = @ + 1]
    BY <1>10 DEF DaemonStep, DaemonCheck, DaemonWork, DaemonWait, DaemonTiming, Deliver
  <2>2. UNCHANGED <<starts, pc, op, mine, got>>
    BY <1>10 DEF DaemonStep, DaemonCheck, DaemonWork, DaemonWait, DaemonTiming, DaemonUnchanged
  <2>3. pos' \in [Callers \cup Ids -> Nat \ {0}]
    BY <1>1, <2>1
  <2> QED
    BY <2>2, <2>3
<1>11. ASSUME NEW r \in Readers, CallGet(r) \/ ReaderStep(r) \/ GetTimeout(r)
       PROVE  CallerTypeOK'
  <2>1. PICK at \in ReaderAt \cup {"idle"} : pc' = [pc EXCEPT ![r] = at]
    BY <1>11 DEF CallGet, ReaderStep, GetCheck, GetAssert, GetEnter, GetReturn, GetTimeout
  <2>2. got' = got \/ got' = [got EXCEPT ![r] = 0] \/ got' = [got EXCEPT ![r] = buffer]
    BY <1>11 DEF CallGet, ReaderStep, GetCheck, GetAssert, GetEnter, GetReturn, GetTimeout
  <2>3. UNCHANGED <<starts, op, mine, pos>>
    BY <1>11 DEF CallGet, ReaderStep, GetCheck, GetAssert, GetEnter, GetReturn, GetTimeout,
                 ReaderUnchanged
  <2>4. buffer \in Ids0
    BY DEF BufferTypeOK
  <2>5. got' \in [Callers -> Ids0]
    BY <2>2, <2>4
  <2> QED
    BY <2>1, <2>3, <2>5
<1>12. ASSUME NEW s \in Speakers, CallPublish(s) \/ Publish(s) PROVE CallerTypeOK'
  <2>1. pc' = pc \/ pc' = [pc EXCEPT ![s] = "idle"] \/ pc' = [pc EXCEPT ![s] = "publish"]
    BY <1>12 DEF CallPublish, Publish
  <2>2. pos' = pos \/ pos' = [pos EXCEPT ![s] = 1] \/ pos' = [pos EXCEPT ![s] = @ + 1]
    BY <1>12 DEF CallPublish, Publish, Deliver
  <2>3. UNCHANGED <<starts, op, mine, got>>
    BY <1>12 DEF CallPublish, Publish
  <2>4. pos' \in [Callers \cup Ids -> Nat \ {0}]
    BY <1>1, <2>2
  <2> QED
    BY <2>1, <2>3, <2>4
<1>13. CASE UNCHANGED vars
  BY <1>13 DEF vars
<1> QED
  BY <1>3, <1>4, <1>5, <1>6, <1>7, <1>8, <1>9, <1>10, <1>11, <1>12, <1>13
  DEF Next, ControllerStep

\* Whatever the threads do, every variable keeps its type.
THEOREM InstrumentTypes == Spec => []TypeOK
<1>1. TypeOK /\ [Next]_vars => TypeOK'
  BY DaemonTypes, BufferTypes, CallerTypes DEF TypeOK
<1> QED
  BY <1>1, TypeInit, PTL DEF Spec

-----------------------------------------------------------------------------
(* One daemon *)

Starting == {"st_setup", "st_build", "st_register", "st_clear", "st_spawn", "st_launch"}

\* What makes OneDaemon inductive: a live thread, or one made and not yet
\* started, is the one the attribute names, and there is none alive while a
\* start() is past its test.
DaemonInv ==
    \A t \in Ids :
        /\ dpc[t] \in Live \cup {"created"} => t = thread
        /\ \A c \in Controllers :
             /\ pc[c] \in Starting => dpc[t] \notin Live
             /\ dpc[t] = "created" => pc[c] = "st_launch"

\* All live threads are the one the attribute names, so there is one at most.
LEMMA DaemonInvImplies == DaemonInv => OneDaemon
<1> SUFFICES ASSUME DaemonInv PROVE Cardinality(LiveThreads) <= 1
  BY DEF OneDaemon
<1>1. LiveThreads \subseteq {thread}
  BY DEF DaemonInv, LiveThreads
<1>2. IsFiniteSet({thread}) /\ Cardinality({thread}) = 1
  BY FS_Singleton
<1>3. Cardinality(LiveThreads) <= Cardinality({thread})
  BY <1>1, <1>2, FS_Subset
<1> QED
  BY <1>2, <1>3

\* With one controller every step keeps it.
LEMMA DaemonInvStep ==
  ASSUME \A c, d \in Controllers : c = d, TypeOK, DaemonInv, [Next]_vars
  PROVE  DaemonInv'
<1> USE DEF DaemonInv, Starting
<1> DEFINE Calm == /\ UNCHANGED <<dpc, thread>>
                   /\ \A c \in Controllers :
                        /\ pc'[c] \in Starting => pc[c] \in Starting
                        /\ pc[c] = "st_launch" => pc'[c] = "st_launch"
\* A step that leaves the threads alone and starts nothing.
<1>1. CASE Calm
  BY <1>1
<1> HIDE DEF DaemonInv
<1>2. pc \in [Callers -> ControllerAt \cup ReaderAt \cup {"publish"}]
  BY DEF TypeOK, CallerTypeOK
<1>3. ASSUME NEW c \in Controllers, StartCheck(c) PROVE DaemonInv'
  <2>1. UNCHANGED <<dpc, thread>> /\ pc[c] = "st_check"
    BY <1>3 DEF StartCheck, daemonVars
  <2>2. CASE IsAlive(thread)
    <3>1. pc' = [pc EXCEPT ![c] = "idle"]
      BY <1>3, <2>2 DEF StartCheck, Leave, Goto
    <3> QED
      BY <1>1, <1>2, <2>1, <3>1 DEF Callers
  <2>3. CASE ~IsAlive(thread)
    <3>1. pc' = [pc EXCEPT ![c] = "st_setup"]
      BY <1>3, <2>3 DEF StartCheck, Goto
    <3>2. \A t \in Ids : dpc[t] \notin Live
      BY <2>3, InstrumentAssumption DEF IsAlive, DaemonInv, Ids
    <3>3. \A t \in Ids : dpc[t] # "created"
      BY <2>1, <1>3 DEF DaemonInv
    <3> QED
      BY <2>1, <3>2, <3>3 DEF DaemonInv, Live
  <2> QED
    BY <2>2, <2>3
<1>4. ASSUME NEW c \in Controllers, Spawn(c) PROVE DaemonInv'
  <2>1. /\ pc[c] = "st_spawn"
        /\ pc' = [pc EXCEPT ![c] = "st_launch"]
        /\ dpc' = [dpc EXCEPT ![mine[c]] = "created"]
        /\ thread' = mine[c]
    BY <1>4 DEF Spawn, Goto
  <2>2. \A t \in Ids : dpc[t] \notin Live \cup {"created"}
    BY <2>1, <1>4 DEF DaemonInv
  <2>3. dpc \in [Ids -> {"none", "created", "dead"} \cup Live]
    BY DEF TypeOK, DaemonTypeOK
  <2>4. \A t \in Ids : dpc'[t] \notin Live /\ (dpc'[t] = "created" => t = mine[c])
    BY <2>1, <2>2, <2>3 DEF Live
  <2>5. \A d \in Controllers : pc'[d] = "st_launch"
    BY <1>2, <2>1, <1>4 DEF Callers
  <2> QED
    BY <2>1, <2>4, <2>5 DEF DaemonInv
<1>5. ASSUME NEW c \in Controllers, Launch(c) PROVE DaemonInv'
  <2>1. pc[c] = "st_launch" /\ pc' = [pc EXCEPT ![c] = "idle"] /\ thread' = thread
    BY <1>5 DEF Launch, Leave, Goto
  <2>2. \A d \in Controllers : pc'[d] = "idle"
    BY <1>2, <1>5, <2>1 DEF Callers
  <2>3. \A t \in Ids : dpc[t] \notin Live
    BY <1>5, <2>1 DEF DaemonInv
  <2>4. dpc \in [Ids -> {"none", "created", "dead"} \cup Live]
    BY DEF TypeOK, DaemonTypeOK
  <2>5. CASE dpc[thread] = "created"
    <3>1. dpc' = [dpc EXCEPT ![thread] = "check"]
      BY <1>5, <2>5 DEF Launch
    <3>2. \A t \in Ids : dpc'[t] \in Live \cup {"created"} => t = thread
      BY <2>3, <2>4, <3>1 DEF DaemonInv
    <3>3. \A t \in Ids : dpc'[t] # "created"
      BY <2>4, <3>1 DEF DaemonInv
    <3> QED
      BY <2>1, <2>2, <3>2, <3>3 DEF DaemonInv
  <2>6. CASE dpc[thread] # "created"
    <3>1. dpc' = dpc
      BY <1>5, <2>6 DEF Launch
    <3>2. \A t \in Ids : dpc[t] # "created"
      BY <2>6 DEF DaemonInv
    <3> QED
      BY <2>1, <2>2, <2>3, <3>1, <3>2 DEF DaemonInv
  <2> QED
    BY <2>5, <2>6
<1>6. ASSUME NEW t \in Ids, DaemonStep(t) PROVE DaemonInv'
  <2>1. dpc[t] \in Live /\ UNCHANGED <<thread, pc>>
    BY <1>6 DEF DaemonStep, DaemonCheck, DaemonWork, DaemonWait, DaemonTiming, DaemonUnchanged, Live
  <2>2. PICK at \in Live \cup {"dead"} : dpc' = dpc \/ dpc' = [dpc EXCEPT ![t] = at]
    BY <1>6 DEF DaemonStep, DaemonCheck, DaemonWork, DaemonWait, DaemonTiming, DGoto, Live
  <2>3. dpc \in [Ids -> {"none", "created", "dead"} \cup Live]
    BY DEF TypeOK, DaemonTypeOK
  <2>4. \A d \in Ids : /\ dpc'[d] \in Live => dpc[d] \in Live
                       /\ dpc'[d] = "created" => dpc[d] = "created"
    BY <2>1, <2>2, <2>3 DEF Live
  <2> QED
    BY <2>1, <2>4 DEF DaemonInv
<1>7. ASSUME NEW c \in Controllers, ControllerStep(c), ~StartCheck(c), ~Spawn(c), ~Launch(c)
      PROVE  Calm
  <2>1. UNCHANGED <<dpc, thread>>
    BY <1>7 DEF ControllerStep, SetupBuffer, BuildBuffer, RegisterBuffer, ClearStopEvent,
                StopCheck, SetStopEvent, Join, CloseBuffer, RemoveBuffer, DropBuffer,
                ClosePublisher, daemonVars
  <2>2. /\ pc[c] # "st_launch"
        /\ \/ pc' = pc
           \/ \E at \in ControllerAt : /\ pc' = [pc EXCEPT ![c] = at]
                                       /\ at \in Starting => pc[c] \in Starting
    BY <1>7 DEF ControllerStep, SetupBuffer, BuildBuffer, RegisterBuffer, ClearStopEvent,
                StopCheck, SetStopEvent, Join, CloseBuffer, RemoveBuffer, DropBuffer,
                ClosePublisher, AfterStop, Goto, Leave, ControllerAt
  <2> QED
    BY <1>2, <2>1, <2>2 DEF Callers
<1>8. ASSUME NEW c \in Controllers, \/ CallStart(c)
                                    \/ \E why \in {"stop", "close"} : CallStop(c, why)
                                    \/ \E u \in Users : AddPublisher(c, u)
      PROVE  Calm
  <2>1. UNCHANGED <<dpc, thread>>
    BY <1>8 DEF CallStart, CallStop, AddPublisher, daemonVars
  <2>2. /\ pc[c] = "idle"
        /\ \/ pc' = pc
           \/ pc' = [pc EXCEPT ![c] = "st_check"] \/ pc' = [pc EXCEPT ![c] = "sp_check"]
    BY <1>8 DEF CallStart, CallStop, AddPublisher, Goto
  <2> QED
    BY <1>2, <2>1, <2>2 DEF Callers
<1>9. ASSUME NEW r \in Callers,
             \/ CallGet(r) \/ ReaderStep(r) \/ GetTimeout(r)
             \/ CallPublish(r) \/ Publish(r)
      PROVE  Calm
  <2>1. UNCHANGED <<dpc, thread>>
    BY <1>9 DEF CallGet, ReaderStep, GetCheck, GetAssert, GetEnter, GetReturn, GetTimeout,
                ReaderUnchanged, CallPublish, Publish, daemonVars
  <2>2. /\ pc[r] # "st_launch"
        /\ \/ pc' = pc
           \/ \E at \in ReaderAt \cup {"idle", "publish"} : pc' = [pc EXCEPT ![r] = at]
    BY <1>9 DEF CallGet, ReaderStep, GetCheck, GetAssert, GetEnter, GetReturn, GetTimeout,
                CallPublish, Publish, Goto, Leave, ReaderAt
  <2>3. "st_launch" \notin ReaderAt \cup {"idle", "publish"} /\ Starting \cap ReaderAt = {}
    BY DEF ReaderAt
  <2> QED
    BY <1>2, <2>1, <2>2, <2>3 DEF Callers
<1>10. CASE UNCHANGED vars
  BY <1>1, <1>10 DEF vars, daemonVars
<1> QED
  BY <1>1, <1>3, <1>4, <1>5, <1>6, <1>7, <1>8, <1>9, <1>10 DEF Next, Callers

\* With one controlling thread there are never two live daemons, over any number
\* of restarts: a start() that found the old one alive made none, and a stop()
\* returns only when the old one is dead, before the event it watches is cleared.
THEOREM OneDaemonAlways ==
  ASSUME \A c, d \in Controllers : c = d
  PROVE  Spec => []OneDaemon
<1>1. Init => DaemonInv
  BY DEF Init, DaemonInv, Starting, Live, Callers
<1>2. TypeOK /\ DaemonInv /\ [Next]_vars => DaemonInv'
  BY DaemonInvStep
<1> QED
  BY <1>1, <1>2, InstrumentTypes, DaemonInvImplies, PTL DEF Spec


-----------------------------------------------------------------------------
(* What a stop() leaves and a start() makes *)

NoBuffer == \A i \in 1..Len(publishers) : publishers[i].kind # "buffer"
OneBuffer == \E i \in 1..Len(publishers) :
               /\ publishers[i] = Buf(buffer)
               /\ \A j \in 1..Len(publishers) : publishers[j].kind = "buffer" => j = i
OpenBuffer == buffer \in Ids \ closedBufs

NoThread == \A t \in Ids : dpc[t] \notin Live \cup {"created"}
OnlyThread(where) ==
  /\ thread \in Ids /\ dpc[thread] \in where
  /\ \A t \in Ids : t # thread => dpc[t] \notin Live \cup {"created"}
ThreadMade == OnlyThread({"created"})
ThreadLives == OnlyThread(Live)
ThreadLeft == OnlyThread(Live \cup {"dead"})

Quiet == NoThread /\ buffer = 0 /\ NoBuffer
Served == OpenBuffer /\ OneBuffer
Serving == ThreadLives /\ ~stopEvent /\ Served

\* What holds while the controlling thread is at `at`, in a call `why`, its
\* latest start() numbered n.
Fits(at, why, n) ==
  /\ at \in ControllerAt
  /\ at \in {"idle", "st_check", "sp_check"} => Quiet \/ Serving
  /\ at = "idle" /\ why \in {"stop", "close"} => Quiet
  /\ at \in Starting \cup {"st_check"} => why = "start" /\ n \in Ids
  /\ at \in {"st_check", "st_setup", "st_build"} => n \notin closedBufs
  /\ at \in {"st_setup", "st_build", "cl_loop"} => Quiet
  /\ at = "st_register" => NoThread /\ OpenBuffer /\ NoBuffer
  /\ at \in {"st_clear", "st_spawn"} => NoThread /\ Served
  /\ at \in {"st_spawn", "st_launch"} => ~stopEvent
  /\ at = "st_launch" => ThreadMade /\ Served
  /\ at = "sp_set" => Serving
  /\ at = "sp_join" => ThreadLeft /\ Served
  /\ at \in {"sp_close", "sp_remove"} => NoThread /\ buffer \in Ids /\ OneBuffer
  /\ at = "sp_drop" => NoThread /\ NoBuffer

\* Buffers bear the number of a start() there was.
Numbered ==
  /\ buffer <= starts
  /\ \A b \in closedBufs : b <= starts
  /\ \A c \in Controllers : mine[c] <= starts

LifeInv == Numbered /\ \A c \in Controllers : Fits(pc[c], op[c], mine[c])

\* Taking the only buffer out of the list leaves the others, and no buffer.
LEMMA RemovedBuffer ==
  ASSUME publishers \in Seq(Listed), OneBuffer
  PROVE  /\ Registered(Buf(buffer))
         /\ \A j \in 1..Len(Without(publishers, Buf(buffer))) :
               Without(publishers, Buf(buffer))[j].kind # "buffer"
         /\ \A u \in Users : Registered(User(u)) =>
               \E j \in 1..Len(Without(publishers, Buf(buffer))) :
                  Without(publishers, Buf(buffer))[j] = User(u)
<1> DEFINE p == Buf(buffer)
<1>1. PICK i \in 1..Len(publishers) :
         /\ publishers[i] = p
         /\ \A j \in 1..Len(publishers) : publishers[j].kind = "buffer" => j = i
  BY DEF OneBuffer
<1>2. p.kind = "buffer" /\ \A u \in Users : User(u).kind = "user"
  BY DEF Buf, User
<1>3. \A j \in 1..Len(publishers) : publishers[j] = p => j = i
  BY <1>1, <1>2
<1>4. PICK n \in Nat : n = Len(publishers) - 1 /\ Len(publishers) \in Nat
  BY <1>1
<1>5. (CHOOSE k \in 1..Len(publishers) : publishers[k] = p /\ \A j \in 1..(k - 1) : publishers[j] # p) = i
  <2>1. \A j \in 1..(i - 1) : publishers[j] # p
    BY <1>3, <1>4
  <2> QED
    BY <1>1, <1>3, <2>1
<1>6. PICK w : w = Without(publishers, p)
  OBVIOUS
<1>7. w = [j \in 1..n |-> IF j < i THEN publishers[j] ELSE publishers[j + 1]]
  BY <1>4, <1>5, <1>6 DEF Without
<1>8. Len(w) = n /\ \A j \in 1..n : w[j] = IF j < i THEN publishers[j] ELSE publishers[j + 1]
  BY <1>4, <1>7
<1>9. ASSUME NEW j \in 1..n
      PROVE  w[j].kind # "buffer"
  <2>1. CASE j < i
    BY <1>1, <1>4, <1>8, <2>1
  <2>2. CASE ~(j < i)
    <3>1. j + 1 \in 1..Len(publishers) /\ j + 1 # i
      BY <1>4, <2>2
    <3> QED
      BY <1>1, <1>8, <2>2, <3>1
  <2> QED
    BY <2>1, <2>2
<1>10. ASSUME NEW u \in Users, Registered(User(u))
       PROVE  \E j \in 1..n : w[j] = User(u)
  <2>1. PICK k \in 1..Len(publishers) : publishers[k] = User(u)
    BY <1>10 DEF Registered
  <2>2. k # i
    BY <1>1, <1>2, <2>1
  <2>3. CASE k < i
    <3>1. k \in 1..n
      BY <1>4, <2>3
    <3> QED
      BY <1>8, <2>1, <2>3, <3>1
  <2>4. CASE ~(k < i)
    <3>1. k - 1 \in 1..n /\ ~(k - 1 < i) /\ (k - 1) + 1 = k
      BY <1>4, <2>2, <2>4
    <3> QED
      BY <1>8, <2>1, <3>1
  <2> QED
    BY <2>3, <2>4
<1> QED
  BY <1>1, <1>6, <1>8, <1>9, <1>10 DEF Registered

\* A list that gains a user publisher has the buffers it had.
LEMMA AppendedPublisher ==
  ASSUME publishers \in Seq(Listed), NEW p \in Listed, publishers' = Append(publishers, p)
  PROVE  /\ p.kind # "buffer" /\ NoBuffer => NoBuffer'
         /\ p.kind # "buffer" /\ OneBuffer /\ buffer' = buffer => OneBuffer'
         /\ p = Buf(buffer) /\ NoBuffer /\ buffer' = buffer => OneBuffer'
         /\ \A q : Registered(q) => Registered(q)'
<1>1. PICK n \in Nat : n = Len(publishers)
  OBVIOUS
<1>2. /\ Len(publishers') = n + 1
      /\ publishers'[n + 1] = p
      /\ \A i \in 1..n : publishers'[i] = publishers[i]
  BY <1>1
<1>3. 1..(n + 1) = (1..n) \cup {n + 1}
  BY <1>1
<1>4. ASSUME p.kind # "buffer", NoBuffer PROVE NoBuffer'
  BY <1>1, <1>2, <1>3, <1>4 DEF NoBuffer
<1>5. ASSUME p.kind # "buffer", OneBuffer, buffer' = buffer PROVE OneBuffer'
  <2>1. PICK i \in 1..n : /\ publishers[i] = Buf(buffer)
                          /\ \A j \in 1..n : publishers[j].kind = "buffer" => j = i
    BY <1>1, <1>5 DEF OneBuffer
  <2>2. Buf(buffer)' = Buf(buffer)
    BY <1>5 DEF Buf
  <2> QED
    BY <1>2, <1>3, <1>5, <2>1, <2>2 DEF OneBuffer
<1>6. ASSUME p = Buf(buffer), NoBuffer, buffer' = buffer PROVE OneBuffer'
  <2>1. Buf(buffer)' = Buf(buffer)
    BY <1>6 DEF Buf
  <2>2. \A j \in 1..n : publishers'[j].kind # "buffer"
    BY <1>1, <1>2, <1>6 DEF NoBuffer
  <2> QED
    BY <1>2, <1>3, <1>6, <2>1, <2>2 DEF OneBuffer
<1>7. \A q : Registered(q) => Registered(q)'
  BY <1>1, <1>2, <1>3 DEF Registered
<1> QED
  BY <1>4, <1>5, <1>6, <1>7

\* A step that changes none of it leaves all of it as it was.
LEMMA LifeKept ==
  ASSUME UNCHANGED <<dpc, thread, stopEvent, buffer, closedBufs, publishers>>
  PROVE  UNCHANGED <<NoThread, ThreadMade, ThreadLives, ThreadLeft, NoBuffer, OneBuffer,
                     OpenBuffer, Quiet, Served, Serving>>
BY DEF NoThread, ThreadMade, ThreadLives, ThreadLeft, OnlyThread, NoBuffer, OneBuffer, Buf,
       OpenBuffer, Quiet, Served, Serving

\* It is enough to look at the place the controlling thread comes to.
LEMMA Moved ==
  ASSUME NEW boss, Controllers = {boss}, NEW at, NEW why, NEW n,
         pc'[boss] = at, op'[boss] = why, mine'[boss] = n, Numbered', Fits(at, why, n)'
  PROVE  LifeInv'
BY DEF LifeInv, Fits

\* Every step keeps it, when one thread starts and stops, and nothing the
\* daemon publishes to raises.
LEMMA LifeStep ==
  ASSUME NEW boss, Controllers = {boss}, boss \notin Readers \cup Speakers, Failing = {},
         TypeOK, LifeInv, [Next]_vars
  PROVE  LifeInv'
<1>1. PICK at, why, n : at = pc[boss] /\ why = op[boss] /\ n = mine[boss]
  OBVIOUS
<1>2. Fits(at, why, n) /\ Numbered
  BY <1>1 DEF LifeInv
<1>3. /\ boss \in Callers
      /\ pc \in [Callers -> ControllerAt \cup ReaderAt \cup {"publish"}]
      /\ op \in [Callers -> {"none", "start", "stop", "close"}]
      /\ mine \in [Callers -> Ids0]
      /\ starts \in 0..MaxStarts
  BY DEF TypeOK, CallerTypeOK, Callers
<1>4. buffer \in Ids0 /\ closedBufs \subseteq Ids0 /\ publishers \in Seq(Listed)
  BY DEF TypeOK, BufferTypeOK
<1>5. thread \in Ids0 /\ dpc \in [Ids -> {"none", "created", "dead"} \cup Live]
  BY DEF TypeOK, DaemonTypeOK
<1>6. n \in Ids0 /\ n <= starts /\ starts \in Nat /\ MaxStarts \in Nat
  BY <1>1, <1>2, <1>3, InstrumentAssumption DEF Numbered
<1> DEFINE Still == UNCHANGED <<dpc, thread, stopEvent, buffer, closedBufs, publishers>>
\* The controlling thread goes on to another place,
<1>7. ASSUME NEW to, pc' = [pc EXCEPT ![boss] = to], UNCHANGED <<op, mine>>,
             Numbered', Fits(to, why, n)'
      PROVE  LifeInv'
  <2>1. pc'[boss] = to /\ op'[boss] = why /\ mine'[boss] = n
    BY <1>1, <1>3, <1>7
  <2> QED
    BY <1>7, <2>1, Moved
\* ... and changes nothing that LifeInv is about.
<1>8. ASSUME NEW to, pc' = [pc EXCEPT ![boss] = to], UNCHANGED <<op, mine, starts>>, Still,
             Fits(to, why, n)
      PROVE  LifeInv'
  <2>1. Numbered'
    BY <1>2, <1>8 DEF Numbered
  <2>2. Fits(to, why, n)'
    BY <1>8, LifeKept DEF Fits
  <2> QED
    BY <1>7, <1>8, <2>1, <2>2
\* The threads but the controlling one.
<1>9. ASSUME Still, UNCHANGED <<op, mine, starts>>, pc'[boss] = pc[boss]
      PROVE  LifeInv'
  <2>1. Numbered'
    BY <1>2, <1>9 DEF Numbered
  <2>2. Fits(at, why, n)'
    BY <1>2, <1>9, LifeKept DEF Fits
  <2> QED
    BY <1>1, <1>9, <2>1, <2>2, Moved
<1>10. CASE StartCheck(boss)
  <2>1. at = "st_check" /\ Still /\ UNCHANGED <<op, mine, starts>>
    BY <1>1, <1>10 DEF StartCheck, daemonVars, bufferVars, listVars, callerVars
  <2>2. CASE IsAlive(thread)
    <3>1. pc' = [pc EXCEPT ![boss] = "idle"]
      BY <1>10, <2>2 DEF StartCheck, Leave, Goto
    <3>2. Fits("idle", why, n)
      BY <1>2, <2>1 DEF Fits, ControllerAt, Starting
    <3> QED
      BY <1>8, <2>1, <3>1, <3>2
  <2>3. CASE ~IsAlive(thread)
    <3>1. pc' = [pc EXCEPT ![boss] = "st_setup"]
      BY <1>10, <2>3 DEF StartCheck, Goto
    <3>2. ~Serving
      BY <2>3, InstrumentAssumption DEF IsAlive, Serving, ThreadLives, OnlyThread, Ids
    <3>3. Fits("st_setup", why, n)
      BY <1>2, <2>1, <3>2 DEF Fits, ControllerAt, Starting
    <3> QED
      BY <1>8, <2>1, <3>1, <3>3
  <2> QED
    BY <2>2, <2>3
<1>11. CASE SetupBuffer(boss)
  <2>1. at = "st_setup" /\ Still /\ UNCHANGED <<op, mine, starts>>
    BY <1>1, <1>11 DEF SetupBuffer, daemonVars, bufferVars, listVars, callerVars
  <2>2. buffer = 0
    BY <1>2, <2>1 DEF Fits, Quiet
  <2>3. pc' = [pc EXCEPT ![boss] = "st_build"]
    BY <1>11, <2>2 DEF SetupBuffer, Goto
  <2>4. Fits("st_build", why, n)
    BY <1>2, <2>1 DEF Fits, ControllerAt, Starting
  <2> QED
    BY <1>8, <2>1, <2>3, <2>4
<1>12. CASE BuildBuffer(boss)
  <2>1. /\ at = "st_build" /\ pc' = [pc EXCEPT ![boss] = "st_register"]
        /\ buffer' = n
        /\ UNCHANGED <<dpc, thread, stopEvent, closedBufs, publishers, op, mine, starts>>
    BY <1>1, <1>12 DEF BuildBuffer, Goto, daemonVars, listVars, callerVars
  <2>2. n \in Ids /\ n \notin closedBufs /\ why = "start" /\ NoThread /\ NoBuffer
    BY <1>2, <2>1 DEF Fits, Starting, Quiet
  <2>3. Numbered'
    BY <1>2, <1>6, <2>1 DEF Numbered
  <2>4. NoThread' /\ NoBuffer' /\ OpenBuffer'
    BY <2>1, <2>2 DEF NoThread, NoBuffer, OpenBuffer
  <2>5. Fits("st_register", why, n)'
    BY <2>2, <2>4 DEF Fits, ControllerAt, Starting
  <2> QED
    BY <1>7, <2>1, <2>3, <2>5
<1>13. CASE RegisterBuffer(boss)
  <2>1. /\ at = "st_register" /\ pc' = [pc EXCEPT ![boss] = "st_clear"]
        /\ UNCHANGED <<dpc, thread, stopEvent, buffer, closedBufs, op, mine, starts>>
    BY <1>1, <1>13 DEF RegisterBuffer, Goto, daemonVars, bufferVars, callerVars
  <2>2. NoThread /\ OpenBuffer /\ NoBuffer /\ why = "start" /\ n \in Ids
    BY <1>2, <2>1 DEF Fits, Starting
  <2>3. ~Registered(Buf(buffer))
    BY <2>2 DEF NoBuffer, Registered, Buf
  <2>4. publishers' = Append(publishers, Buf(buffer))
    BY <1>13, <2>3 DEF RegisterBuffer
  <2>5. OneBuffer'
    BY <1>4, <2>1, <2>2, <2>4, AppendedPublisher, ListedType
  <2>6. NoThread' /\ OpenBuffer'
    BY <2>1, <2>2 DEF NoThread, OpenBuffer
  <2>7. Numbered'
    BY <1>2, <2>1 DEF Numbered
  <2>8. Fits("st_clear", why, n)'
    BY <2>2, <2>5, <2>6 DEF Fits, ControllerAt, Starting, Served
  <2> QED
    BY <1>7, <2>1, <2>7, <2>8
<1>14. CASE ClearStopEvent(boss)
  <2>1. /\ at = "st_clear" /\ pc' = [pc EXCEPT ![boss] = "st_spawn"] /\ ~stopEvent'
        /\ UNCHANGED <<dpc, thread, buffer, closedBufs, publishers, op, mine, starts>>
    BY <1>1, <1>14 DEF ClearStopEvent, Goto, bufferVars, listVars, callerVars
  <2>2. NoThread /\ Served /\ why = "start" /\ n \in Ids
    BY <1>2, <2>1 DEF Fits, Starting
  <2>3. NoThread' /\ Served'
    BY <2>1, <2>2 DEF NoThread, Served, OpenBuffer, OneBuffer, Buf
  <2>4. Numbered'
    BY <1>2, <2>1 DEF Numbered
  <2>5. Fits("st_spawn", why, n)'
    BY <2>1, <2>2, <2>3 DEF Fits, ControllerAt, Starting
  <2> QED
    BY <1>7, <2>1, <2>4, <2>5
<1>15. CASE Spawn(boss)
  <2>1. /\ at = "st_spawn" /\ pc' = [pc EXCEPT ![boss] = "st_launch"]
        /\ thread' = n /\ dpc' = [dpc EXCEPT ![n] = "created"]
        /\ UNCHANGED <<stopEvent, buffer, closedBufs, publishers, op, mine, starts>>
    BY <1>1, <1>15 DEF Spawn, Goto, bufferVars, listVars, callerVars
  <2>2. NoThread /\ Served /\ ~stopEvent /\ why = "start" /\ n \in Ids
    BY <1>2, <2>1 DEF Fits, Starting
  <2>3. ThreadMade'
    BY <1>5, <2>1, <2>2 DEF NoThread, ThreadMade, OnlyThread
  <2>4. Served'
    BY <2>1, <2>2 DEF Served, OpenBuffer, OneBuffer, Buf
  <2>5. Numbered'
    BY <1>2, <2>1 DEF Numbered
  <2>6. Fits("st_launch", why, n)'
    BY <2>1, <2>2, <2>3, <2>4 DEF Fits, ControllerAt, Starting
  <2> QED
    BY <1>7, <2>1, <2>5, <2>6
<1>16. CASE Launch(boss)
  <2>1. at = "st_launch" /\ UNCHANGED <<thread, stopEvent, buffer, closedBufs, publishers, op, mine, starts>>
    BY <1>1, <1>16 DEF Launch, bufferVars, listVars, callerVars
  <2>2. ThreadMade /\ Served /\ ~stopEvent /\ why = "start"
    BY <1>2, <2>1 DEF Fits, Starting
  <2>3. dpc[thread] = "created" /\ thread \in Ids
    BY <2>2 DEF ThreadMade, OnlyThread
  <2>4. dpc' = [dpc EXCEPT ![thread] = "check"] /\ pc' = [pc EXCEPT ![boss] = "idle"]
    BY <1>16, <2>3 DEF Launch, Leave, Goto
  <2>5. ThreadLives'
    BY <1>5, <2>1, <2>2, <2>3, <2>4 DEF ThreadMade, ThreadLives, OnlyThread, Live
  <2>6. Served' /\ ~stopEvent'
    BY <2>1, <2>2 DEF Served, OpenBuffer, OneBuffer, Buf
  <2>7. Numbered'
    BY <1>2, <2>1 DEF Numbered
  <2>8. Fits("idle", why, n)'
    BY <2>2, <2>5, <2>6 DEF Fits, ControllerAt, Starting, Serving
  <2> QED
    BY <1>7, <2>1, <2>4, <2>7, <2>8
<1>17. CASE StopCheck(boss)
  <2>1. at = "sp_check" /\ Still /\ UNCHANGED <<op, mine, starts>>
    BY <1>1, <1>17 DEF StopCheck, daemonVars, bufferVars, listVars, callerVars
  <2>2. CASE IsAlive(thread)
    <3>1. pc' = [pc EXCEPT ![boss] = "sp_set"]
      BY <1>17, <2>2 DEF StopCheck, Goto
    <3>2. ~Quiet
      BY <2>2, <1>5 DEF IsAlive, Quiet, NoThread, Ids, Ids0
    <3>3. Fits("sp_set", why, n)
      BY <1>2, <2>1, <3>2 DEF Fits, ControllerAt, Starting
    <3> QED
      BY <1>8, <2>1, <3>1, <3>3
  <2>3. CASE ~IsAlive(thread)
    <3>1. \E to \in {"idle", "cl_loop"} : pc' = [pc EXCEPT ![boss] = to]
      BY <1>17, <2>3 DEF StopCheck, AfterStop, Leave, Goto
    <3>2. ~Serving
      BY <2>3, InstrumentAssumption DEF IsAlive, Serving, ThreadLives, OnlyThread, Ids
    <3>3. Fits("idle", why, n) /\ Fits("cl_loop", why, n)
      BY <1>2, <2>1, <3>2 DEF Fits, ControllerAt, Starting
    <3> QED
      BY <1>8, <2>1, <3>1, <3>3
  <2> QED
    BY <2>2, <2>3
<1>18. CASE SetStopEvent(boss)
  <2>1. /\ at = "sp_set" /\ pc' = [pc EXCEPT ![boss] = "sp_join"]
        /\ UNCHANGED <<dpc, thread, buffer, closedBufs, publishers, op, mine, starts>>
    BY <1>1, <1>18 DEF SetStopEvent, Goto, bufferVars, listVars, callerVars
  <2>2. ThreadLives /\ Served
    BY <1>2, <2>1 DEF Fits, Serving
  <2>3. ThreadLeft'
    BY <2>1, <2>2 DEF ThreadLives, ThreadLeft, OnlyThread
  <2>4. Served'
    BY <2>1, <2>2 DEF Served, OpenBuffer, OneBuffer, Buf
  <2>5. Numbered'
    BY <1>2, <2>1 DEF Numbered
  <2>6. Fits("sp_join", why, n)'
    BY <2>3, <2>4 DEF Fits, ControllerAt, Starting
  <2> QED
    BY <1>7, <2>1, <2>5, <2>6
<1>19. CASE Join(boss)
  <2>1. /\ at = "sp_join" /\ Still /\ UNCHANGED <<op, mine, starts>>
        /\ pc' = [pc EXCEPT ![boss] = "sp_close"] /\ dpc[thread] = "dead"
    BY <1>1, <1>19 DEF Join, Goto, daemonVars, bufferVars, listVars, callerVars
  <2>2. NoThread /\ Served
    BY <1>2, <2>1 DEF Fits, ThreadLeft, OnlyThread, NoThread, Live
  <2>3. Fits("sp_close", why, n)
    BY <2>2 DEF Fits, ControllerAt, Starting, Served, OpenBuffer
  <2> QED
    BY <1>8, <2>1, <2>3
<1>20. CASE CloseBuffer(boss)
  <2>1. at = "sp_close" /\ UNCHANGED <<dpc, thread, stopEvent, buffer, publishers, op, mine, starts>>
    BY <1>1, <1>20 DEF CloseBuffer, daemonVars, listVars, callerVars
  <2>2. NoThread /\ buffer \in Ids /\ OneBuffer
    BY <1>2, <2>1 DEF Fits
  <2>3. closedBufs' = closedBufs \cup {buffer} /\ pc' = [pc EXCEPT ![boss] = "sp_remove"]
    BY <1>20, <2>2, InstrumentAssumption DEF CloseBuffer, Goto, Ids
  <2>4. Numbered'
    BY <1>2, <2>1, <2>3 DEF Numbered
  <2>5. NoThread' /\ OneBuffer' /\ buffer' \in Ids
    BY <2>1, <2>2 DEF NoThread, OneBuffer, Buf
  <2>6. Fits("sp_remove", why, n)'
    BY <2>5 DEF Fits, ControllerAt, Starting
  <2> QED
    BY <1>7, <2>1, <2>3, <2>4, <2>6
<1>21. CASE RemoveBuffer(boss)
  <2>1. /\ at = "sp_remove" /\ pc' = [pc EXCEPT ![boss] = "sp_drop"]
        /\ UNCHANGED <<dpc, thread, stopEvent, buffer, closedBufs, op, mine, starts>>
    BY <1>1, <1>21 DEF RemoveBuffer, Goto, daemonVars, bufferVars, callerVars
  <2>2. NoThread /\ OneBuffer
    BY <1>2, <2>1 DEF Fits
  <2>3. publishers' = Without(publishers, Buf(buffer))
    BY <1>4, <1>21, <2>2, RemovedBuffer DEF RemoveBuffer
  <2>4. NoBuffer'
    BY <1>4, <2>2, <2>3, RemovedBuffer DEF NoBuffer
  <2>5. NoThread'
    BY <2>1, <2>2 DEF NoThread
  <2>6. Numbered'
    BY <1>2, <2>1 DEF Numbered
  <2>7. Fits("sp_drop", why, n)'
    BY <2>4, <2>5 DEF Fits, ControllerAt, Starting
  <2> QED
    BY <1>7, <2>1, <2>6, <2>7
<1>22. CASE DropBuffer(boss)
  <2>1. /\ at = "sp_drop" /\ buffer' = 0
        /\ UNCHANGED <<dpc, thread, stopEvent, closedBufs, publishers, op, mine, starts>>
    BY <1>1, <1>22 DEF DropBuffer, daemonVars, listVars, callerVars
  <2>2. NoThread /\ NoBuffer
    BY <1>2, <2>1 DEF Fits
  <2>3. Quiet'
    BY <2>1, <2>2 DEF Quiet, NoThread, NoBuffer
  <2>4. Numbered'
    BY <1>2, <1>6, <2>1 DEF Numbered
  <2>5. \E to \in {"idle", "cl_loop"} : pc' = [pc EXCEPT ![boss] = to]
    BY <1>22 DEF DropBuffer, AfterStop, Leave, Goto
  <2>6. Fits("idle", why, n)' /\ Fits("cl_loop", why, n)'
    BY <2>3 DEF Fits, ControllerAt, Starting
  <2> QED
    BY <1>7, <2>1, <2>4, <2>5, <2>6
<1>23. CASE ClosePublisher(boss)
  <2>1. /\ at = "cl_loop"
        /\ UNCHANGED <<dpc, thread, stopEvent, buffer, publishers, op, mine, starts>>
    BY <1>1, <1>23 DEF ClosePublisher, daemonVars, callerVars
  <2>2. Quiet
    BY <1>2, <2>1 DEF Fits
  <2>3. ASSUME ~AtEnd(boss) PROVE Current(boss).kind # "buffer"
    <3>1. pos[boss] \in Nat \ {0}
      BY <1>3 DEF TypeOK, CallerTypeOK
    <3> QED
      BY <1>4, <2>2, <2>3, <3>1 DEF Quiet, NoBuffer, AtEnd, Current
  <2>4. Still
    BY <1>23, <2>1, <2>3 DEF ClosePublisher
  <2>5. \/ pc' = [pc EXCEPT ![boss] = "idle"]
        \/ pc' = pc
    BY <1>23 DEF ClosePublisher, Leave, Goto
  <2>6. Fits("idle", why, n)
    BY <2>2 DEF Fits, ControllerAt, Starting
  <2> QED
    BY <1>8, <1>9, <2>1, <2>4, <2>5, <2>6
<1>24. CASE CallStart(boss)
  <2>1. at = "idle" /\ Still /\ starts' = starts + 1 /\ starts < MaxStarts
    BY <1>1, <1>24 DEF CallStart, daemonVars, bufferVars, listVars
  <2>2. pc'[boss] = "st_check" /\ op'[boss] = "start" /\ mine'[boss] = starts + 1
    BY <1>3, <1>24 DEF CallStart, Goto
  <2>3. starts + 1 \in Ids /\ starts + 1 \notin closedBufs
    <3>1. \A b \in closedBufs : b \in Int /\ b <= starts
      BY <1>2, <1>4 DEF Numbered, Ids0
    <3> QED
      BY <1>6, <2>1, <3>1 DEF Ids
  <2>4. Numbered'
    <3>1. \A b \in closedBufs \cup {buffer} : b \in Int /\ b <= starts
      BY <1>2, <1>4 DEF Numbered, Ids0
    <3> QED
      BY <1>6, <2>1, <2>2, <3>1 DEF Numbered
  <2>5. PICK new : new = starts + 1
    OBVIOUS
  <2>6. Quiet' \/ Serving'
    BY <1>2, <2>1, LifeKept DEF Fits
  <2>7. Fits("st_check", "start", new)'
    BY <2>1, <2>3, <2>5, <2>6 DEF Fits, ControllerAt, Starting
  <2> QED
    BY <2>2, <2>4, <2>5, <2>7, Moved
<1>25. ASSUME NEW what \in {"stop", "close"}, CallStop(boss, what) PROVE LifeInv'
  <2>1. at = "idle" /\ Still /\ UNCHANGED <<starts, mine>>
    BY <1>1, <1>25 DEF CallStop, daemonVars, bufferVars, listVars
  <2>2. pc'[boss] = "sp_check" /\ op'[boss] = what /\ mine'[boss] = n
    BY <1>1, <1>3, <1>25 DEF CallStop, Goto
  <2>3. Numbered'
    BY <1>2, <2>1 DEF Numbered
  <2>4. Quiet' \/ Serving'
    BY <1>2, <2>1, LifeKept DEF Fits
  <2>5. Fits("sp_check", what, n)'
    BY <2>4 DEF Fits, ControllerAt, Starting
  <2> QED
    BY <2>2, <2>3, <2>5, Moved
<1>26. ASSUME NEW u \in Users, AddPublisher(boss, u) PROVE LifeInv'
  <2>1. /\ at = "idle" /\ publishers' = Append(publishers, User(u))
        /\ UNCHANGED <<dpc, thread, stopEvent, buffer, closedBufs, pc, op, mine, starts>>
    BY <1>1, <1>26 DEF AddPublisher, daemonVars, bufferVars, callerVars
  <2>2. User(u) \in Listed /\ User(u).kind # "buffer"
    BY ListedType DEF User
  <2>3. (NoBuffer => NoBuffer') /\ (OneBuffer => OneBuffer')
    BY <1>4, <2>1, <2>2, AppendedPublisher
  <2>4. Quiet => Quiet'
    BY <2>1, <2>3 DEF Quiet, NoThread
  <2>5. Serving => Serving'
    BY <2>1, <2>3 DEF Serving, Served, ThreadLives, OnlyThread, OpenBuffer
  <2>6. Numbered'
    BY <1>2, <2>1 DEF Numbered
  <2>7. Fits("idle", why, n)'
    BY <1>2, <2>1, <2>4, <2>5 DEF Fits, ControllerAt, Starting
  <2> QED
    BY <1>1, <2>1, <2>6, <2>7, Moved
<1>27. ASSUME NEW t \in Ids, DaemonStep(t) PROVE LifeInv'
  <2>1. /\ dpc[t] \in Live
        /\ UNCHANGED <<thread, stopEvent, buffer, closedBufs, publishers, pc, op, mine, starts>>
    BY <1>27 DEF DaemonStep, DaemonCheck, DaemonWork, DaemonWait, DaemonTiming, DaemonUnchanged,
                 Live, listVars, callerVars
  <2>2. ~Raises(t)
    BY DEF Raises
  <2>3. PICK to \in Live \cup {"dead"} :
           /\ dpc' = [dpc EXCEPT ![t] = to] \/ (dpc' = dpc /\ to = dpc[t])
           /\ to = "dead" => stopEvent
    BY <1>27, <2>2 DEF DaemonStep, DaemonCheck, DaemonWork, DaemonWait, DaemonTiming, DGoto, Live
  <2>4. dpc' = [dpc EXCEPT ![t] = to]
    BY <1>5, <2>3
  <2>5. ~NoThread /\ ~ThreadMade
    BY <1>27, <2>1 DEF NoThread, ThreadMade, OnlyThread, Live
  <2>6. ThreadLives /\ ~stopEvent => ThreadLives'
    BY <1>5, <2>1, <2>3, <2>4 DEF ThreadLives, OnlyThread
  <2>7. ThreadLeft => ThreadLeft'
    BY <1>5, <2>1, <2>3, <2>4 DEF ThreadLeft, OnlyThread
  <2>8. Served => Served'
    BY <2>1 DEF Served, OpenBuffer, OneBuffer, Buf
  <2>9. Numbered'
    BY <1>2, <2>1 DEF Numbered
  <2>10. at \in {"idle", "st_check", "sp_check", "sp_set", "sp_join"}
    BY <1>2, <2>5 DEF Fits, ControllerAt, Starting, Quiet
  <2>11. Serving => Serving'
    BY <2>1, <2>6, <2>8 DEF Serving
  <2>12. ~Quiet
    BY <2>5 DEF Quiet
  <2>13. Fits(at, why, n)'
    BY <1>2, <2>1, <2>7, <2>8, <2>10, <2>11, <2>12 DEF Fits
  <2> QED
    BY <1>1, <2>1, <2>9, <2>13, Moved
<1>28. ASSUME NEW r \in Readers, CallGet(r) \/ ReaderStep(r) \/ GetTimeout(r) PROVE LifeInv'
  <2>1. Still /\ UNCHANGED <<op, mine, starts>>
    BY <1>28 DEF CallGet, ReaderStep, GetCheck, GetAssert, GetEnter, GetReturn, GetTimeout,
                 ReaderUnchanged, daemonVars, bufferVars, listVars
  <2>2. \E to : pc' = [pc EXCEPT ![r] = to]
    BY <1>28 DEF CallGet, ReaderStep, GetCheck, GetAssert, GetEnter, GetReturn, GetTimeout, Goto, Leave
  <2> QED
    BY <1>3, <1>9, <2>1, <2>2
<1>29. ASSUME NEW s \in Speakers, CallPublish(s) \/ Publish(s) PROVE LifeInv'
  <2>1. Still /\ UNCHANGED <<op, mine, starts>>
    BY <1>29 DEF CallPublish, Publish, daemonVars, bufferVars, listVars
  <2>2. pc' = pc \/ \E to : pc' = [pc EXCEPT ![s] = to]
    BY <1>29 DEF CallPublish, Publish, Goto, Leave
  <2> QED
    BY <1>3, <1>9, <2>1, <2>2
<1>30. CASE UNCHANGED vars
  BY <1>9, <1>30 DEF vars, daemonVars, bufferVars, listVars, callerVars
<1>31. ASSUME ControllerStep(boss) PROVE LifeInv'
  BY <1>10, <1>11, <1>12, <1>13, <1>14, <1>15, <1>16, <1>17, <1>18, <1>19, <1>20, <1>21, <1>22,
     <1>23, <1>31 DEF ControllerStep
<1> QED
  BY <1>24, <1>25, <1>26, <1>27, <1>28, <1>29, <1>30, <1>31 DEF Next

-----------------------------------------------------------------------------
(* The two properties that follow *)

\* A new instrument has neither buffer nor daemon.
LEMMA LifeInit ==
  ASSUME NEW boss, Controllers = {boss}, Init
  PROVE  LifeInv
<1>1. PICK n \in Nat : n = Len(InitialUsers)
  BY InstrumentAssumption
<1>2. Len(publishers) = n /\ \A i \in 1..n : publishers[i] = User(InitialUsers[i])
  BY <1>1 DEF Init
<1>3. Quiet
  BY <1>1, <1>2 DEF Init, Quiet, NoThread, NoBuffer, User, Live
<1>4. pc[boss] = "idle" /\ op[boss] = "none" /\ mine[boss] = 0
  BY DEF Init, Callers
<1>5. Numbered
  BY <1>4 DEF Init, Numbered
<1>6. Fits("idle", "none", 0)
  BY <1>3 DEF Fits, ControllerAt, Starting
<1> QED
  BY <1>4, <1>5, <1>6 DEF LifeInv

\* Quiet is what StopLeavesNothing asks for, Serving what RunningMeansServed does.
LEMMA LifeImplies ==
  ASSUME NEW boss, Controllers = {boss}, TypeOK, LifeInv
  PROVE  StopLeavesNothing /\ RunningMeansServed
<1>1. ASSUME Quiet PROVE LiveThreads = {} /\ buffer = 0 /\ RegisteredBufs = {}
  BY <1>1 DEF Quiet, NoThread, NoBuffer, LiveThreads, RegisteredBufs, Registered, Buf
<1>2. ASSUME Serving
      PROVE  /\ buffer # 0 /\ buffer \notin closedBufs
             /\ RegisteredBufs = {buffer}
             /\ Cardinality({i \in 1..Len(publishers) : publishers[i] = Buf(buffer)}) = 1
  <2>1. buffer \in Ids /\ buffer \notin closedBufs /\ buffer \in Ids0
    BY <1>2 DEF Serving, Served, OpenBuffer, TypeOK, BufferTypeOK
  <2>2. PICK i \in 1..Len(publishers) :
          /\ publishers[i] = Buf(buffer)
          /\ \A j \in 1..Len(publishers) : publishers[j].kind = "buffer" => j = i
    BY <1>2 DEF Serving, Served, OneBuffer
  <2>3. \A b : Buf(b).kind = "buffer" /\ Buf(b).id = b
    BY DEF Buf
  <2>4. RegisteredBufs = {buffer}
    BY <2>1, <2>2, <2>3 DEF RegisteredBufs, Registered
  <2>5. {j \in 1..Len(publishers) : publishers[j] = Buf(buffer)} = {i}
    BY <2>2, <2>3
  <2>6. Cardinality({i}) = 1
    BY FS_Singleton
  <2>7. buffer # 0
    BY <2>1, InstrumentAssumption DEF Ids
  <2> QED
    BY <2>1, <2>4, <2>5, <2>6, <2>7
<1>3. Fits(pc[boss], op[boss], mine[boss])
  BY DEF LifeInv
<1>4. StopLeavesNothing
  BY <1>1, <1>3 DEF StopLeavesNothing, Stopped, Fits
<1>5. RunningMeansServed
  <2>1. SUFFICES ASSUME pc[boss] = "idle", LiveThreads # {}
                 PROVE  Serving
    BY <1>2 DEF RunningMeansServed, AllIdle
  <2> QED
    BY <1>1, <1>3, <2>1 DEF Fits
<1> QED
  BY <1>4, <1>5

\* LifeInv holds throughout.
LEMMA LifeAlways ==
  ASSUME NEW boss, Controllers = {boss}, boss \notin Readers \cup Speakers, Failing = {}
  PROVE  Spec => []LifeInv
<1>1. Init => LifeInv
  BY LifeInit
<1>2. TypeOK /\ LifeInv /\ [Next]_vars => LifeInv'
  BY LifeStep
<1> QED
  BY <1>1, <1>2, InstrumentTypes, PTL DEF Spec

\* After a stop() or close() that returned there is no daemon, no buffer, and no
\* buffer among the publishers, over any number of restarts, with any number of
\* readers and speakers, and though publishers raise in close().
THEOREM StopCleans ==
  ASSUME NEW boss, Controllers = {boss}, boss \notin Readers \cup Speakers, Failing = {}
  PROVE  Spec => []StopLeavesNothing
<1>1. TypeOK /\ LifeInv => StopLeavesNothing
  BY LifeImplies
<1> QED
  BY <1>1, LifeAlways, InstrumentTypes, PTL

\* Whenever the controlling thread has returned and a daemon lives, the buffer
\* that get_channel() reads is open and once in the list the daemon publishes to.
THEOREM DaemonIsServed ==
  ASSUME NEW boss, Controllers = {boss}, boss \notin Readers \cup Speakers, Failing = {}
  PROVE  Spec => []RunningMeansServed
<1>1. TypeOK /\ LifeInv => RunningMeansServed
  BY LifeImplies
<1> QED
  BY <1>1, LifeAlways, InstrumentTypes, PTL

-----------------------------------------------------------------------------
(* close() reaches every publisher *)

\* list.remove takes nothing else out than what it was asked to.
LEMMA WithoutKeeps ==
  ASSUME NEW S, NEW seq \in Seq(S), NEW p, NEW k \in 1..Len(seq), seq[k] = p,
         NEW m \in 1..Len(seq), seq[m] # p
  PROVE  \E j \in 1..Len(Without(seq, p)) : Without(seq, p)[j] = seq[m]
<1>1. PICK n \in Nat : n = Len(seq) - 1 /\ Len(seq) \in Nat
  OBVIOUS
<1>2. PICK T : T = {i \in 1..Len(seq) : seq[i] = p}
  OBVIOUS
<1>3. T \subseteq Nat /\ T # {}
  BY <1>1, <1>2
<1>4. PICK i \in T : \A j \in T : ~(<<j, i>> \in OpToRel(<, Nat))
  BY <1>3, WFMin, NatLessThanWellFounded, Zenon
<1>5. \A j \in T : ~(j < i)
  <2>1. i \in Nat /\ \A j \in T : j \in Nat
    BY <1>3
  <2> QED
    BY <1>4, <2>1, Zenon DEF OpToRel
<1>6. \E h \in 1..Len(seq) : seq[h] = p /\ \A j \in 1..(h - 1) : seq[j] # p
  <2>1. i \in 1..Len(seq) /\ seq[i] = p
    BY <1>2
  <2>2. \A j \in 1..(i - 1) : seq[j] # p
    BY <1>1, <1>2, <1>5, <2>1
  <2> QED
    BY <2>1, <2>2
<1>7. PICK h \in 1..Len(seq) :
        /\ seq[h] = p
        /\ Without(seq, p) = [j \in 1..(Len(seq) - 1) |-> IF j < h THEN seq[j] ELSE seq[j + 1]]
  BY <1>6 DEF Without
<1>8. PICK w : w = Without(seq, p)
  OBVIOUS
<1>9. Len(w) = n /\ \A j \in 1..n : w[j] = IF j < h THEN seq[j] ELSE seq[j + 1]
  BY <1>1, <1>7, <1>8
<1>10. m # h
  BY <1>7
<1>11. CASE m < h
  <2>1. m \in 1..n
    BY <1>1, <1>11
  <2> QED
    BY <1>8, <1>9, <1>11, <2>1
<1>12. CASE ~(m < h)
  <2>1. m - 1 \in 1..n /\ ~(m - 1 < h) /\ (m - 1) + 1 = m
    BY <1>1, <1>10, <1>12
  <2> QED
    BY <1>8, <1>9, <2>1
<1> QED
  BY <1>11, <1>12

Stopping == {"sp_check", "sp_set", "sp_join", "sp_close", "sp_remove", "sp_drop"}

HistoryOK == owed \in [Callers -> SUBSET Users] /\ outcome = [c \in Callers |-> outcome[c]]

\* The histories that CloseReachesAll reads keep their types.
LEMMA HistoryTypes == HistoryOK /\ [Next]_vars => HistoryOK'
<1> SUFFICES ASSUME HistoryOK, [Next]_vars PROVE HistoryOK'
  OBVIOUS
<1>1. AttachedUsers \in SUBSET Users /\ {} \in SUBSET Users
  BY DEF AttachedUsers
<1>2. ASSUME NEW c \in Callers, owed' = owed \/ owed' = [owed EXCEPT ![c] = {}]
                                \/ owed' = [owed EXCEPT ![c] = AttachedUsers]
      PROVE  owed' \in [Callers -> SUBSET Users]
  <2>1. PICK s \in SUBSET Users : owed' = owed \/ owed' = [owed EXCEPT ![c] = s]
    BY <1>1, <1>2
  <2> QED
    BY <2>1 DEF HistoryOK
<1>3. ASSUME NEW c \in Callers, outcome' = outcome \/ \E how : outcome' = [outcome EXCEPT ![c] = how]
      PROVE  outcome' = [k \in Callers |-> outcome'[k]]
  BY <1>3 DEF HistoryOK
<1>4. ASSUME NEW c \in Controllers, CallStart(c) PROVE HistoryOK'
  <2>1. c \in Callers
    BY DEF Callers
  <2>2. owed' = [owed EXCEPT ![c] = {}] /\ outcome' = [outcome EXCEPT ![c] = "none"]
    BY <1>4 DEF CallStart
  <2>3. owed' \in [Callers -> SUBSET Users]
    BY <1>2, <2>1, <2>2
  <2>4. outcome' = [k \in Callers |-> outcome'[k]]
    BY <2>1, <2>2 DEF HistoryOK
  <2> QED
    BY <2>3, <2>4 DEF HistoryOK
<1>5. ASSUME NEW c \in Controllers, NEW why \in {"stop", "close"}, CallStop(c, why) PROVE HistoryOK'
  <2>1. c \in Callers
    BY DEF Callers
  <2>2. /\ owed' = [owed EXCEPT ![c] = IF why = "close" THEN AttachedUsers ELSE {}]
        /\ outcome' = [outcome EXCEPT ![c] = "none"]
    BY <1>5 DEF CallStop
  <2>3. owed' \in [Callers -> SUBSET Users]
    BY <1>2, <2>1, <2>2
  <2>4. outcome' = [k \in Callers |-> outcome'[k]]
    BY <2>1, <2>2 DEF HistoryOK
  <2> QED
    BY <2>3, <2>4 DEF HistoryOK
<1>6. ASSUME NEW c \in Controllers, NEW u \in Users, AddPublisher(c, u) PROVE HistoryOK'
  BY <1>6 DEF AddPublisher, callerVars, HistoryOK
<1>7. ASSUME NEW c \in Controllers, ControllerStep(c) PROVE HistoryOK'
  <2>1. owed' = owed
    BY <1>7 DEF ControllerStep, StartCheck, SetupBuffer, BuildBuffer, RegisterBuffer, ClearStopEvent,
                Spawn, Launch, StopCheck, SetStopEvent, Join, CloseBuffer, RemoveBuffer, DropBuffer,
                ClosePublisher, callerVars
  <2>2. outcome' = outcome \/ \E how : outcome' = [outcome EXCEPT ![c] = how]
    BY <1>7 DEF ControllerStep, StartCheck, SetupBuffer, BuildBuffer, RegisterBuffer, ClearStopEvent,
                Spawn, Launch, StopCheck, SetStopEvent, Join, CloseBuffer, RemoveBuffer, DropBuffer,
                ClosePublisher, AfterStop, Leave
  <2>3. c \in Callers
    BY DEF Callers
  <2>4. owed' \in [Callers -> SUBSET Users]
    BY <1>2, <2>1, <2>3
  <2>5. outcome' = [k \in Callers |-> outcome'[k]]
    BY <1>3, <2>2, <2>3
  <2> QED
    BY <2>4, <2>5 DEF HistoryOK
<1>8. ASSUME NEW t \in Ids, DaemonStep(t) PROVE HistoryOK'
  BY <1>8 DEF DaemonStep, DaemonCheck, DaemonWork, DaemonWait, DaemonTiming, DaemonUnchanged,
              callerVars, HistoryOK
<1>9. ASSUME NEW r \in Readers, CallGet(r) \/ ReaderStep(r) \/ GetTimeout(r) PROVE HistoryOK'
  <2>1. owed' = owed
    BY <1>9 DEF CallGet, ReaderStep, GetCheck, GetAssert, GetEnter, GetReturn, GetTimeout, ReaderUnchanged
  <2>2. outcome' = outcome \/ \E how : outcome' = [outcome EXCEPT ![r] = how]
    BY <1>9 DEF CallGet, ReaderStep, GetCheck, GetAssert, GetEnter, GetReturn, GetTimeout, Leave
  <2>3. r \in Callers
    BY DEF Callers
  <2>4. owed' \in [Callers -> SUBSET Users]
    BY <1>2, <2>1, <2>3
  <2>5. outcome' = [k \in Callers |-> outcome'[k]]
    BY <1>3, <2>2, <2>3
  <2> QED
    BY <2>4, <2>5 DEF HistoryOK
<1>10. ASSUME NEW s \in Speakers, CallPublish(s) \/ Publish(s) PROVE HistoryOK'
  <2>1. owed' = owed \/ owed' = [owed EXCEPT ![s] = AttachedUsers]
    BY <1>10 DEF CallPublish, Publish
  <2>2. outcome' = outcome \/ \E how : outcome' = [outcome EXCEPT ![s] = how]
    BY <1>10 DEF CallPublish, Publish, Leave
  <2>3. s \in Callers
    BY DEF Callers
  <2>4. owed' \in [Callers -> SUBSET Users]
    BY <1>2, <2>1, <2>3
  <2>5. outcome' = [k \in Callers |-> outcome'[k]]
    BY <1>3, <2>2, <2>3
  <2> QED
    BY <2>4, <2>5 DEF HistoryOK
<1>11. CASE UNCHANGED vars
  BY <1>11 DEF vars, callerVars, HistoryOK
<1> QED
  BY <1>4, <1>5, <1>6, <1>7, <1>8, <1>9, <1>10, <1>11 DEF Next

\* What holds of a close() at the place `at` of a call `why`, when it owes `due`,
\* the loop is at `p` and the call ended with `how`: from the call on, what is
\* owed is in the list; in the loop over it, it is shut or still ahead.
CloseFits(at, why, due, p, how) ==
  /\ at \in Starting \cup {"st_check"} => why = "start"
  /\ at \in Stopping => why \in {"stop", "close"}
  /\ at \in Stopping /\ why = "close" => due \subseteq AttachedUsers
  /\ at = "cl_loop" =>
       /\ why = "close"
       /\ \A u \in due : u \in shut \/ \E i \in 1..Len(publishers) : p <= i /\ publishers[i] = User(u)
  /\ at = "idle" /\ why = "close" /\ how = "ok" => due \subseteq shut

CloseInv == \A c \in Controllers : CloseFits(pc[c], op[c], owed[c], pos[c], outcome[c])

\* Every step keeps it, when one thread starts, stops and attaches.
LEMMA CloseStep ==
  ASSUME NEW boss, Controllers = {boss}, boss \notin Readers \cup Speakers \cup Ids,
         TypeOK, HistoryOK, CloseInv, [Next]_vars
  PROVE  CloseInv'
<1>1. /\ boss \in Callers
      /\ pc \in [Callers -> ControllerAt \cup ReaderAt \cup {"publish"}]
      /\ op \in [Callers -> {"none", "start", "stop", "close"}]
      /\ pos \in [Callers \cup Ids -> Nat \ {0}]
  BY DEF TypeOK, CallerTypeOK, Callers
<1>2. owed \in [Callers -> SUBSET Users] /\ outcome = [c \in Callers |-> outcome[c]]
  BY DEF HistoryOK
<1>3. publishers \in Seq(Listed) /\ buffer \in Ids0
  BY DEF TypeOK, BufferTypeOK
<1>4. PICK at, why, due, p, how :
        at = pc[boss] /\ why = op[boss] /\ due = owed[boss] /\ p = pos[boss] /\ how = outcome[boss]
  OBVIOUS
<1>5. CloseFits(at, why, due, p, how) /\ p \in Nat \ {0}
  BY <1>1, <1>4 DEF CloseInv
\* It is enough to look at the controlling thread.
<1>6. ASSUME NEW to, NEW what, NEW debt, NEW q, NEW end,
             pc'[boss] = to, op'[boss] = what, owed'[boss] = debt, pos'[boss] = q, outcome'[boss] = end,
             CloseFits(to, what, debt, q, end)'
      PROVE  CloseInv'
  BY <1>6 DEF CloseInv, CloseFits, AttachedUsers, Registered
\* Others leave it, the list and what is shut alone.
<1>7. ASSUME UNCHANGED <<publishers, shut>>, pc'[boss] = at, op'[boss] = why, owed'[boss] = due,
             pos'[boss] = p, outcome'[boss] = how
      PROVE  CloseInv'
  <2>1. CloseFits(at, why, due, p, how)'
    BY <1>5, <1>7 DEF CloseFits, AttachedUsers, Registered
  <2> QED
    BY <1>6, <1>7, <2>1
\* Its steps that change neither.
<1>8. ASSUME NEW to, UNCHANGED <<publishers, shut, op, owed>>, pc' = [pc EXCEPT ![boss] = to],
             pos'[boss] = p, outcome' = outcome,
             CloseFits(to, why, due, p, how)
      PROVE  CloseInv'
  <2>1. CloseFits(to, why, due, p, how)'
    BY <1>8 DEF CloseFits, AttachedUsers, Registered
  <2>2. pc'[boss] = to
    BY <1>1, <1>8
  <2> QED
    BY <1>4, <1>6, <1>8, <2>1, <2>2
\* Its steps that end the call.
<1>9. ASSUME NEW end, UNCHANGED <<publishers, shut, op, owed>>, pc' = [pc EXCEPT ![boss] = "idle"],
             pos'[boss] = p, outcome' = [outcome EXCEPT ![boss] = end],
             why = "close" /\ end = "ok" => due \subseteq shut
      PROVE  CloseInv'
  <2>1. CloseFits("idle", why, due, p, end)'
    BY <1>9 DEF CloseFits, Starting, Stopping
  <2>2. pc'[boss] = "idle" /\ outcome'[boss] = end
    BY <1>1, <1>2, <1>9
  <2> QED
    BY <1>4, <1>6, <1>9, <2>1, <2>2
\* stop() is done, and nothing that is owed has left the list.
<1>10. ASSUME UNCHANGED <<publishers, shut, op, owed>>, AfterStop(boss), at \in Stopping
       PROVE  CloseInv'
  <2>1. CASE why = "close"
    <3>1. pc'[boss] = "cl_loop" /\ pos'[boss] = 1 /\ outcome' = outcome
      BY <1>1, <1>4, <1>10, <2>1 DEF AfterStop, Goto
    <3>2. due \subseteq AttachedUsers
      BY <1>5, <1>10, <2>1 DEF CloseFits
    <3>3. \A u \in due : \E i \in 1..Len(publishers) : 1 <= i /\ publishers[i] = User(u)
      BY <3>2 DEF AttachedUsers, Registered
    <3>4. CloseFits("cl_loop", why, due, 1, how)'
      BY <1>10, <2>1, <3>3 DEF CloseFits, Starting, Stopping
    <3> QED
      BY <1>4, <1>6, <1>10, <3>1, <3>4
  <2>2. CASE why # "close"
    <3>1. pc' = [pc EXCEPT ![boss] = "idle"] /\ pos' = pos /\ outcome' = [outcome EXCEPT ![boss] = "ok"]
      BY <1>4, <1>10, <2>2 DEF AfterStop, Leave, Goto
    <3> QED
      BY <1>4, <1>9, <1>10, <2>2, <3>1
  <2> QED
    BY <2>1, <2>2
<1>11. CASE StartCheck(boss)
  <2>1. at = "st_check" /\ UNCHANGED <<publishers, shut, op, owed, pos>>
    BY <1>4, <1>11 DEF StartCheck, listVars, callerVars
  <2>2. why = "start"
    BY <1>5, <2>1 DEF CloseFits
  <2>3. CASE IsAlive(thread)
    <3>1. pc' = [pc EXCEPT ![boss] = "idle"] /\ outcome' = [outcome EXCEPT ![boss] = "ok"]
      BY <1>11, <2>3 DEF StartCheck, Leave, Goto
    <3> QED
      BY <1>4, <1>9, <2>1, <2>2, <3>1
  <2>4. CASE ~IsAlive(thread)
    <3>1. pc' = [pc EXCEPT ![boss] = "st_setup"] /\ outcome' = outcome
      BY <1>11, <2>4 DEF StartCheck, Goto
    <3>2. CloseFits("st_setup", why, due, p, how)
      BY <2>2 DEF CloseFits, Starting, Stopping
    <3> QED
      BY <1>4, <1>8, <2>1, <3>1, <3>2
  <2> QED
    BY <2>3, <2>4
<1>12. CASE SetupBuffer(boss) \/ BuildBuffer(boss) \/ ClearStopEvent(boss) \/ Spawn(boss)
  <2>1. at \in Starting /\ UNCHANGED <<publishers, shut, op, owed, pos, outcome>>
    BY <1>4, <1>12 DEF SetupBuffer, BuildBuffer, ClearStopEvent, Spawn, listVars, callerVars, Starting
  <2>2. PICK to \in Starting : pc' = [pc EXCEPT ![boss] = to]
    BY <1>12 DEF SetupBuffer, BuildBuffer, ClearStopEvent, Spawn, Goto, Starting
  <2>3. CloseFits(to, why, due, p, how)
    BY <1>5, <2>1 DEF CloseFits, Starting, Stopping
  <2> QED
    BY <1>4, <1>8, <2>1, <2>2, <2>3
<1>13. CASE RegisterBuffer(boss)
  <2>1. /\ at = "st_register" /\ UNCHANGED <<shut, op, owed, pos, outcome>>
        /\ pc' = [pc EXCEPT ![boss] = "st_clear"]
    BY <1>4, <1>13 DEF RegisterBuffer, Goto, callerVars
  <2>2. CloseFits("st_clear", why, due, p, how)'
    BY <1>5, <2>1 DEF CloseFits, Starting, Stopping
  <2>3. pc'[boss] = "st_clear"
    BY <1>1, <2>1
  <2> QED
    BY <1>4, <1>6, <2>1, <2>2, <2>3
<1>14. CASE Launch(boss)
  <2>1. at = "st_launch" /\ UNCHANGED <<publishers, shut, op, owed, pos>>
    BY <1>4, <1>14 DEF Launch, listVars, callerVars
  <2>2. why = "start"
    BY <1>5, <2>1 DEF CloseFits, Starting
  <2>3. \E end : pc' = [pc EXCEPT ![boss] = "idle"] /\ outcome' = [outcome EXCEPT ![boss] = end]
    BY <1>14 DEF Launch, Leave, Goto
  <2> QED
    BY <1>4, <1>9, <2>1, <2>2, <2>3
<1>15. CASE StopCheck(boss)
  <2>1. at = "sp_check" /\ UNCHANGED <<publishers, shut, op, owed>>
    BY <1>4, <1>15 DEF StopCheck, listVars, callerVars
  <2>2. CASE IsAlive(thread)
    <3>1. pc' = [pc EXCEPT ![boss] = "sp_set"] /\ UNCHANGED <<pos, outcome>>
      BY <1>15, <2>2 DEF StopCheck, Goto
    <3>2. CloseFits("sp_set", why, due, p, how)
      BY <1>5, <2>1 DEF CloseFits, Starting, Stopping
    <3> QED
      BY <1>4, <1>8, <2>1, <3>1, <3>2
  <2>3. CASE ~IsAlive(thread)
    <3>1. AfterStop(boss)
      BY <1>15, <2>3 DEF StopCheck
    <3> QED
      BY <1>10, <2>1, <3>1 DEF Stopping
  <2> QED
    BY <2>2, <2>3
<1>16. CASE SetStopEvent(boss) \/ Join(boss)
  <2>1. at \in Stopping /\ UNCHANGED <<publishers, shut, op, owed, pos, outcome>>
    BY <1>4, <1>16 DEF SetStopEvent, Join, listVars, callerVars, Stopping
  <2>2. PICK to \in Stopping : pc' = [pc EXCEPT ![boss] = to]
    BY <1>16 DEF SetStopEvent, Join, Goto, Stopping
  <2>3. CloseFits(to, why, due, p, how)
    BY <1>5, <2>1 DEF CloseFits, Starting, Stopping
  <2> QED
    BY <1>4, <1>8, <2>1, <2>2, <2>3
<1>17. CASE CloseBuffer(boss)
  <2>1. at = "sp_close" /\ UNCHANGED <<publishers, shut, op, owed, pos>>
    BY <1>4, <1>17 DEF CloseBuffer, listVars, callerVars
  <2>2. CASE buffer = 0
    <3>1. pc' = [pc EXCEPT ![boss] = "idle"] /\ outcome' = [outcome EXCEPT ![boss] = "assertion_error"]
      BY <1>17, <2>2 DEF CloseBuffer, Leave, Goto
    <3> QED
      BY <1>4, <1>9, <2>1, <3>1
  <2>3. CASE buffer # 0
    <3>1. pc' = [pc EXCEPT ![boss] = "sp_remove"] /\ outcome' = outcome
      BY <1>17, <2>3 DEF CloseBuffer, Goto
    <3>2. CloseFits("sp_remove", why, due, p, how)
      BY <1>5, <2>1 DEF CloseFits, Starting, Stopping
    <3> QED
      BY <1>4, <1>8, <2>1, <3>1, <3>2
  <2> QED
    BY <2>2, <2>3
<1>18. CASE RemoveBuffer(boss)
  <2>1. /\ at = "sp_remove" /\ UNCHANGED <<shut, op, owed, pos, outcome>>
        /\ pc' = [pc EXCEPT ![boss] = "sp_drop"]
    BY <1>4, <1>18 DEF RemoveBuffer, Goto, callerVars
  <2>2. ASSUME NEW u \in AttachedUsers PROVE u \in AttachedUsers'
    <3>1. PICK m \in 1..Len(publishers) : publishers[m] = User(u)
      BY DEF AttachedUsers, Registered
    <3>2. User(u) # Buf(buffer)
      BY DEF User, Buf
    <3>3. \E j \in 1..Len(publishers') : publishers'[j] = User(u)
      <4>1. CASE Registered(Buf(buffer))
        <5>1. publishers' = Without(publishers, Buf(buffer))
          BY <1>18, <4>1 DEF RemoveBuffer
        <5>2. PICK k \in 1..Len(publishers) : publishers[k] = Buf(buffer)
          BY <4>1 DEF Registered
        <5> QED
          BY <1>3, <3>1, <3>2, <5>1, <5>2, WithoutKeeps
      <4>2. CASE ~Registered(Buf(buffer))
        BY <1>18, <3>1, <4>2 DEF RemoveBuffer
      <4> QED
        BY <4>1, <4>2
    <3> QED
      BY <3>3 DEF AttachedUsers, Registered
  <2>3. CloseFits("sp_drop", why, due, p, how)'
    BY <1>5, <2>1, <2>2 DEF CloseFits, Starting, Stopping
  <2>4. pc'[boss] = "sp_drop"
    BY <1>1, <2>1
  <2> QED
    BY <1>4, <1>6, <2>1, <2>3, <2>4
<1>19. CASE DropBuffer(boss)
  <2>1. at = "sp_drop" /\ UNCHANGED <<publishers, shut, op, owed>> /\ AfterStop(boss)
    BY <1>4, <1>19 DEF DropBuffer, listVars, callerVars
  <2> QED
    BY <1>10, <2>1 DEF Stopping
<1>20. CASE ClosePublisher(boss)
  <2>1. at = "cl_loop" /\ UNCHANGED <<publishers, op, owed>>
    BY <1>4, <1>20 DEF ClosePublisher, callerVars
  <2>2. /\ why = "close"
        /\ \A u \in due : u \in shut \/ \E i \in 1..Len(publishers) : p <= i /\ publishers[i] = User(u)
    BY <1>5, <2>1 DEF CloseFits
  <2>3. CASE AtEnd(boss)
    <3>1. /\ pc' = [pc EXCEPT ![boss] = "idle"] /\ outcome' = [outcome EXCEPT ![boss] = "ok"]
          /\ UNCHANGED <<pos, shut>>
      BY <1>20, <2>3 DEF ClosePublisher, Leave, Goto
    <3>2. due \subseteq shut
      <4>1. p > Len(publishers) /\ Len(publishers) \in Nat
        BY <1>3, <1>4, <2>3 DEF AtEnd
      <4> QED
        BY <1>5, <2>2, <4>1
    <3> QED
      BY <1>4, <1>9, <2>1, <3>1, <3>2
  <2>4. CASE ~AtEnd(boss) /\ outcome' = [outcome EXCEPT ![boss] = "raised"] /\ Leave(boss, "raised")
             /\ UNCHANGED <<pos, shut>>
    <3>1. pc' = [pc EXCEPT ![boss] = "idle"]
      BY <2>4 DEF Leave, Goto
    <3> QED
      BY <1>4, <1>9, <2>1, <2>4, <3>1
  <2>5. CASE /\ ~AtEnd(boss)
             /\ pos' = [pos EXCEPT ![boss] = @ + 1]
             /\ IF Current(boss).kind = "buffer" THEN shut' = shut ELSE shut' = shut \cup {Current(boss).id}
             /\ UNCHANGED <<pc, outcome>>
    <3>1. pos'[boss] = p + 1 /\ Current(boss) = publishers[p]
      BY <1>1, <1>4, <2>5 DEF Current
    <3>2. ASSUME NEW u \in due
          PROVE  u \in shut' \/ \E i \in 1..Len(publishers) : p + 1 <= i /\ publishers[i] = User(u)
      <4>1. CASE u \in shut
        BY <2>5, <4>1
      <4>2. CASE u \notin shut
        <5>1. PICK i \in 1..Len(publishers) : p <= i /\ publishers[i] = User(u)
          BY <2>2, <4>2
        <5>2. CASE i = p
          <6>1. Current(boss).kind = "user" /\ Current(boss).id = u
            BY <3>1, <5>1, <5>2 DEF User
          <6> QED
            BY <2>5, <6>1
        <5>3. CASE i # p
          BY <1>5, <5>1, <5>3
        <5> QED
          BY <5>2, <5>3
      <4> QED
        BY <4>1, <4>2
    <3>3. PICK q : q = p + 1
      OBVIOUS
    <3>4. CloseFits(at, why, due, q, how)'
      BY <2>1, <2>2, <3>2, <3>3 DEF CloseFits, Starting, Stopping
    <3> QED
      BY <1>4, <1>6, <2>1, <2>5, <3>1, <3>3, <3>4
  <2> QED
    BY <1>20, <2>3, <2>4, <2>5 DEF ClosePublisher, Leave, Goto
<1>21. CASE CallStart(boss)
  <2>1. pc'[boss] = "st_check" /\ op'[boss] = "start" /\ pos'[boss] = p
    BY <1>1, <1>4, <1>21 DEF CallStart, Goto
  <2>2. PICK debt, end : debt = owed'[boss] /\ end = outcome'[boss]
    OBVIOUS
  <2>3. CloseFits("st_check", "start", debt, p, end)'
    BY DEF CloseFits, Starting, Stopping
  <2> QED
    BY <1>6, <2>1, <2>2, <2>3
<1>22. ASSUME NEW what \in {"stop", "close"}, CallStop(boss, what) PROVE CloseInv'
  <2>1. /\ pc'[boss] = "sp_check" /\ op'[boss] = what /\ pos'[boss] = p
        /\ owed'[boss] = IF what = "close" THEN AttachedUsers ELSE {}
        /\ UNCHANGED publishers
    BY <1>1, <1>2, <1>4, <1>22 DEF CallStop, Goto, listVars
  <2>2. PICK debt, end : debt = owed'[boss] /\ end = outcome'[boss]
    OBVIOUS
  <2>3. what = "close" => debt \subseteq AttachedUsers'
    BY <2>1, <2>2 DEF AttachedUsers, Registered
  <2>4. CloseFits("sp_check", what, debt, p, end)'
    BY <2>3 DEF CloseFits, Starting, Stopping
  <2> QED
    BY <1>6, <2>1, <2>2, <2>4
<1>23. ASSUME NEW u \in Users, AddPublisher(boss, u) PROVE CloseInv'
  <2>1. at = "idle" /\ UNCHANGED <<shut, pc, op, owed, pos, outcome>>
    BY <1>4, <1>23 DEF AddPublisher, callerVars
  <2>2. CloseFits("idle", why, due, p, how)'
    BY <1>5, <2>1 DEF CloseFits, Starting, Stopping
  <2> QED
    BY <1>4, <1>6, <2>1, <2>2
<1>24. ASSUME NEW t \in Ids, DaemonStep(t) PROVE CloseInv'
  <2>1. UNCHANGED <<publishers, shut, pc, op, owed, outcome>>
    BY <1>24 DEF DaemonStep, DaemonCheck, DaemonWork, DaemonWait, DaemonTiming, DaemonUnchanged,
                 listVars, callerVars
  <2>2. pos' = pos \/ \E q : pos' = [pos EXCEPT ![t] = q]
    BY <1>24 DEF DaemonStep, DaemonCheck, DaemonWork, DaemonWait, DaemonTiming, Deliver
  <2>3. pos'[boss] = p
    BY <1>1, <1>4, <2>2
  <2> QED
    BY <1>4, <1>7, <2>1, <2>3
<1>25. ASSUME NEW r \in Readers, CallGet(r) \/ ReaderStep(r) \/ GetTimeout(r) PROVE CloseInv'
  <2>1. UNCHANGED <<publishers, shut, op, owed, pos>>
    BY <1>25 DEF CallGet, ReaderStep, GetCheck, GetAssert, GetEnter, GetReturn, GetTimeout,
                 ReaderUnchanged, listVars
  <2>2. \E to : pc' = [pc EXCEPT ![r] = to]
    BY <1>25 DEF CallGet, ReaderStep, GetCheck, GetAssert, GetEnter, GetReturn, GetTimeout, Goto, Leave
  <2>3. outcome' = outcome \/ \E end : outcome' = [outcome EXCEPT ![r] = end]
    BY <1>25 DEF CallGet, ReaderStep, GetCheck, GetAssert, GetEnter, GetReturn, GetTimeout, Leave
  <2> QED
    BY <1>1, <1>2, <1>4, <1>7, <2>1, <2>2, <2>3
<1>26. ASSUME NEW s \in Speakers, CallPublish(s) \/ Publish(s) PROVE CloseInv'
  <2>1. UNCHANGED <<publishers, shut, op>>
    BY <1>26 DEF CallPublish, Publish, listVars
  <2>2. pc' = pc \/ \E to : pc' = [pc EXCEPT ![s] = to]
    BY <1>26 DEF CallPublish, Publish, Goto, Leave
  <2>3. outcome' = outcome \/ \E end : outcome' = [outcome EXCEPT ![s] = end]
    BY <1>26 DEF CallPublish, Publish, Leave
  <2>4. pos' = pos \/ \E q : pos' = [pos EXCEPT ![s] = q]
    BY <1>26 DEF CallPublish, Publish, Deliver
  <2>5. owed' = owed \/ \E debt : owed' = [owed EXCEPT ![s] = debt]
    BY <1>26 DEF CallPublish, Publish
  <2> QED
    BY <1>1, <1>2, <1>4, <1>7, <2>1, <2>2, <2>3, <2>4, <2>5
<1>27. CASE UNCHANGED vars
  BY <1>4, <1>7, <1>27 DEF vars, listVars, callerVars
<1>28. ASSUME ControllerStep(boss) PROVE CloseInv'
  BY <1>11, <1>12, <1>13, <1>14, <1>15, <1>16, <1>17, <1>18, <1>19, <1>20, <1>28 DEF ControllerStep
<1> QED
  BY <1>21, <1>22, <1>23, <1>24, <1>25, <1>26, <1>27, <1>28 DEF Next

\* A close() that returned without error has closed every publisher that was
\* attached when it was called, whatever the daemon and the publishers did and
\* though the buffer left the list in between.
THEOREM CloseReaches ==
  ASSUME NEW boss, Controllers = {boss}, boss \notin Readers \cup Speakers \cup Ids
  PROVE  Spec => []CloseReachesAll
<1>1. Init => HistoryOK /\ CloseInv
  <2> SUFFICES ASSUME Init PROVE HistoryOK /\ CloseInv
    OBVIOUS
  <2>1. boss \in Callers
    BY DEF Callers
  <2>2. HistoryOK
    BY DEF Init, HistoryOK
  <2>3. pc[boss] = "idle" /\ op[boss] = "none" /\ outcome[boss] = "none"
    BY <2>1 DEF Init
  <2>4. CloseInv
    BY <2>3 DEF CloseInv, CloseFits, Starting, Stopping
  <2> QED
    BY <2>2, <2>4
<1>2. TypeOK /\ HistoryOK /\ CloseInv /\ [Next]_vars => CloseInv'
  BY CloseStep
<1>3. CloseInv => CloseReachesAll
  BY DEF CloseInv, CloseFits, CloseReachesAll
<1> QED
  BY <1>1, <1>2, <1>3, HistoryTypes, InstrumentTypes, PTL DEF Spec
=============================================================================
