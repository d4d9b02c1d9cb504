---------------------------- MODULE WrapperProofs ----------------------------
(***************************************************************************)
(* The three wrappers around a publisher, each for every size, number of   *)
(* items and set of threads its theorem names.  QueuedPublisher loses and  *)
(* reorders nothing, close() flushes, and it is a Relay.  A                *)
(* BufferedPublisher used by one thread loses nothing, and is a Relay but  *)
(* for items sent twice.  SharedPublisher closes the wrapped publisher     *)
(* once, with its last handle.                                             *)
(*                                                                         *)
(* The names are those of MCWrappers, which has the three side by side:    *)
(* the theorems are about the specification of each, Spec, B!Spec and      *)
(* S!Spec, for all values of its constants.                                *)
(***************************************************************************)
EXTENDS MCWrappers, SequenceTheorems, FiniteSetTheorems, TLAPS

-----------------------------------------------------------------------------
(* Sequences *)

\* Append as a concatenation.
LEMMA AppendAtEnd ==
  ASSUME NEW X, NEW s \in Seq(X), NEW x \in X
  PROVE  Append(s, x) = s \o <<x>>
OBVIOUS

\* What goes in at the end of the second part goes in at the end of the whole.
LEMMA AppendToSecond ==
  ASSUME NEW X, NEW s \in Seq(X), NEW t \in Seq(X), NEW x \in X
  PROVE  s \o Append(t, x) = Append(s \o t, x)
<1>1. <<x>> \in Seq(X) /\ s \o t \in Seq(X)
  BY ConcatProperties
<1> QED
  BY <1>1, AppendAtEnd, ConcatAssociative

\* What is taken from the front of the second part goes to the end of the first.
LEMMA HeadToFirst ==
  ASSUME NEW X, NEW s \in Seq(X), NEW t \in Seq(X), t # <<>>
  PROVE  s \o t = Append(s, Head(t)) \o Tail(t)
<1>1. Head(t) \in X /\ Tail(t) \in Seq(X)
  BY HeadTailProperties
<1>2. t = <<Head(t)>> \o Tail(t)
  <2>1. <<Head(t)>> \o Tail(t) \in Seq(X)
    BY <1>1, ConcatProperties
  <2>2. Len(<<Head(t)>> \o Tail(t)) = Len(t)
    BY <1>1, ConcatProperties, HeadTailProperties
  <2>3. \A i \in 1..Len(t) : (<<Head(t)>> \o Tail(t))[i] = t[i]
    BY <1>1, ConcatProperties, HeadTailProperties
  <2> QED
    BY <2>1, <2>2, <2>3, SeqEqual
<1>3. <<Head(t)>> \in Seq(X)
  BY <1>1
<1> QED
  BY <1>1, <1>2, <1>3, AppendAtEnd, ConcatAssociative

\* The items of a longer sequence.
LEMMA ElementsOfAppend ==
  ASSUME NEW X, NEW s \in Seq(X), NEW x \in X
  PROVE  Elements(s) \subseteq Elements(Append(s, x))
BY DEF Elements

\* The facts about the numbers that name the items.
LEMMA ItemFacts ==
  /\ MaxQueue \in Nat /\ MaxItems \in Nat
  /\ NoItem \notin Items
  /\ \A n \in 0..MaxItems : n < MaxItems => n + 1 \in 0..MaxItems /\ n + 1 \in Items
BY QueueAssumption DEF Items, NoItem

-----------------------------------------------------------------------------
(* QueuedPublisher: the invariant *)

Held == IF inHand = NoItem THEN <<>> ELSE <<inHand>>

\* A producer that is about to put carries an item.
CarriesItem == \A p \in Producers : pc[p] = "put" => item[p] \in Items

\* From the end of close()'s join on the worker is gone for good.
JoinedIsDead == closing \in {"inner", "done"} \/ innerClosed => wpc = "dead"

\* The event is set by close() only.
StopIsClose == stop => closing # "no"

\* What close() has to flush was put before.
ClosedOverPuts == queuedAtClose \subseteq Elements(put)

\* A worker that ended its loop was told to, and left nothing behind that was
\* there when close() was called.
DeadHasFlushed ==
    wpc = "dead" /\ inHand = NoItem =>
        stop /\ (WaitForQueue => queuedAtClose \subseteq Elements(got))

QueueInv == /\ TypeOK /\ InOrder /\ CarriesItem
            /\ JoinedIsDead /\ StopIsClose /\ ClosedOverPuts /\ DeadHasFlushed

\* A new wrapper: an empty queue and a worker in its loop.
LEMMA QueueInit == Init => QueueInv
<1> SUFFICES ASSUME Init PROVE QueueInv
  OBVIOUS
<1> USE ItemFacts DEF Init
<1>1. TypeOK
  <2>1. <<>> \in Seq(Items) /\ Len(<<>>) <= MaxQueue
    BY EmptySeq, ItemFacts
  <2>2. made \in 0..MaxItems
    BY ItemFacts
  <2> QED
    BY <2>1, <2>2 DEF TypeOK
<1>2. InOrder
  BY DEF InOrder
<1>3. CarriesItem /\ JoinedIsDead /\ StopIsClose /\ DeadHasFlushed
  BY DEF CarriesItem, JoinedIsDead, StopIsClose, DeadHasFlushed
<1>4. ClosedOverPuts
  BY DEF ClosedOverPuts
<1> QED
  BY <1>1, <1>2, <1>3, <1>4 DEF QueueInv

\* Types.
LEMMA QueueTypes == QueueInv /\ [Next]_vars => TypeOK'
<1> SUFFICES ASSUME QueueInv, [Next]_vars PROVE TypeOK'
  OBVIOUS
<1> USE ItemFacts DEF QueueInv, TypeOK, CarriesItem
<1>1. ASSUME NEW p \in Producers, Publish(p) PROVE TypeOK'
  BY <1>1 DEF Publish
<1>2. ASSUME NEW p \in Producers, Put(p) PROVE TypeOK'
  BY <1>2 DEF Put
<1>3. CASE WorkerLoop
  BY <1>3 DEF WorkerLoop, WorkerGoto, WorkerUnchanged
<1>4. CASE WorkerGet
  <2>1. CASE queue = <<>>
    BY <1>4, <2>1 DEF WorkerGet, WorkerGoto, WorkerUnchanged
  <2>2. CASE queue # <<>>
    <3>1. /\ Head(queue) \in Items /\ Tail(queue) \in Seq(Items)
          /\ Len(Tail(queue)) <= MaxQueue
      BY <2>2, HeadTailProperties, LenProperties
    <3> QED
      BY <1>4, <2>2, <3>1 DEF WorkerGet, WorkerGoto, WorkerUnchanged
  <2> QED
    BY <2>1, <2>2
<1>5. CASE WorkerPublish
  <2>1. inHand \in Items => Append(got, inHand) \in Seq(Items)
    OBVIOUS
  <2> QED
    BY <1>5, <2>1 DEF WorkerPublish, WorkerGoto, WorkerUnchanged
<1>6. CASE CloseCall
  BY <1>6 DEF CloseCall, CloserUnchanged, Elements
<1>7. CASE CloserStep
  BY <1>7 DEF CloserStep, CloseSetStop, CloseJoin, CloseInner, CloserUnchanged
<1>8. CASE UNCHANGED vars
  BY <1>8 DEF vars
<1> QED
  BY <1>1, <1>2, <1>3, <1>4, <1>5, <1>6, <1>7, <1>8 DEF Next, WorkerStep

\* Order: only a put, a get and the wrapped publisher's taking move items.
LEMMA QueueOrder == QueueInv /\ [Next]_vars => InOrder'
<1> SUFFICES ASSUME QueueInv, [Next]_vars PROVE InOrder'
  OBVIOUS
<1>0. /\ InOrder /\ put = (got \o Held) \o queue
      /\ got \in Seq(Items) /\ queue \in Seq(Items) /\ put \in Seq(Items)
      /\ Held \in Seq(Items) /\ got \o Held \in Seq(Items)
  <2>1. got \in Seq(Items) /\ queue \in Seq(Items) /\ put \in Seq(Items) /\ Held \in Seq(Items)
    BY DEF QueueInv, TypeOK, Held
  <2> QED
    BY <2>1, ConcatProperties DEF QueueInv, InOrder, Held
<1>1. ASSUME NEW p \in Producers, Put(p) PROVE InOrder'
  <2>1. item[p] \in Items
    BY <1>1 DEF Put, QueueInv, CarriesItem
  <2>2. put' = Append(put, item[p]) /\ queue' = Append(queue, item[p]) /\ got' = got /\ inHand' = inHand
    BY <1>1 DEF Put
  <2>3. (got \o Held) \o Append(queue, item[p]) = Append(put, item[p])
    BY <1>0, <2>1, AppendToSecond
  <2> QED
    BY <2>2, <2>3 DEF InOrder, Held
<1>2. CASE WorkerGet
  <2>1. CASE queue = <<>>
    BY <1>2, <2>1, <1>0 DEF WorkerGet, WorkerUnchanged, InOrder
  <2>2. CASE queue # <<>>
    <3>1. /\ inHand' = Head(queue) /\ queue' = Tail(queue) /\ put' = put /\ got' = got
          /\ wpc = "get"
      BY <1>2, <2>2 DEF WorkerGet, WorkerUnchanged
    <3>2. inHand = NoItem /\ Held = <<>>
      BY <3>1 DEF QueueInv, TypeOK, Held
    <3>3. Head(queue) \in Items /\ Head(queue) # NoItem
      BY <1>0, <2>2, HeadTailProperties, ItemFacts
    <3>4. got \o Held = got
      BY <3>2, <1>0, ConcatEmptySeq
    <3>5. put = Append(got, Head(queue)) \o Tail(queue)
      BY <1>0, <2>2, <3>4, HeadToFirst
    <3>6. Append(got, Head(queue)) = got \o <<Head(queue)>>
      BY <1>0, <3>3, AppendAtEnd
    <3> QED
      BY <3>1, <3>3, <3>5, <3>6 DEF InOrder
  <2> QED
    BY <2>1, <2>2
<1>3. CASE WorkerPublish
  <2>1. CASE UNCHANGED <<got, inHand>>
    BY <1>3, <2>1, <1>0 DEF WorkerPublish, WorkerUnchanged, InOrder
  <2>2. CASE got' = Append(got, inHand) /\ inHand' = NoItem
    <3>1. inHand \in Items /\ inHand # NoItem /\ Held = <<inHand>>
      BY <1>3 DEF WorkerPublish, QueueInv, TypeOK, Held
    <3>2. got' = got \o Held /\ got' \in Seq(Items)
      BY <2>2, <3>1, <1>0, AppendAtEnd
    <3>3. got' \o <<>> = got'
      BY <3>2, ConcatEmptySeq
    <3>4. queue' = queue /\ put' = put
      BY <1>3 DEF WorkerPublish, WorkerUnchanged
    <3> QED
      BY <2>2, <3>2, <3>3, <3>4, <1>0 DEF InOrder
  <2> QED
    BY <1>3, <2>1, <2>2 DEF WorkerPublish
<1>4. ASSUME UNCHANGED <<queue, inHand, put, got>> PROVE InOrder'
  BY <1>4, <1>0 DEF InOrder
<1>5. ASSUME NEW p \in Producers, Publish(p) PROVE InOrder'
  BY <1>4, <1>5 DEF Publish
<1>6. CASE WorkerLoop
  BY <1>4, <1>6 DEF WorkerLoop, WorkerUnchanged
<1>7. CASE CloseCall \/ CloserStep
  BY <1>4, <1>7 DEF CloseCall, CloserStep, CloseSetStop, CloseJoin, CloseInner, CloserUnchanged
<1>8. CASE UNCHANGED vars
  BY <1>4, <1>8 DEF vars
<1> QED
  BY <1>1, <1>2, <1>3, <1>5, <1>6, <1>7, <1>8 DEF Next, WorkerStep

\* Who set the event, who is gone, who carries what.
LEMMA QueueControl ==
  QueueInv /\ [Next]_vars => CarriesItem' /\ JoinedIsDead' /\ StopIsClose'
<1> SUFFICES ASSUME QueueInv, [Next]_vars PROVE CarriesItem' /\ JoinedIsDead' /\ StopIsClose'
  OBVIOUS
<1> USE DEF QueueInv, TypeOK, CarriesItem, JoinedIsDead, StopIsClose
<1>1. ASSUME NEW p \in Producers, Publish(p) PROVE CarriesItem' /\ JoinedIsDead' /\ StopIsClose'
  <2>1. CarriesItem'
    BY <1>1, ItemFacts DEF Publish
  <2>2. JoinedIsDead' /\ StopIsClose'
    BY <1>1 DEF Publish
  <2> QED
    BY <2>1, <2>2
<1>2. ASSUME NEW p \in Producers, Put(p) PROVE CarriesItem' /\ JoinedIsDead' /\ StopIsClose'
  BY <1>2 DEF Put
<1>3. CASE WorkerStep
  BY <1>3 DEF WorkerStep, WorkerLoop, WorkerGet, WorkerPublish, WorkerGoto, WorkerUnchanged
<1>4. CASE CloseCall
  BY <1>4 DEF CloseCall, CloserUnchanged
<1>5. CASE CloserStep
  BY <1>5 DEF CloserStep, CloseSetStop, CloseJoin, CloseInner, CloserUnchanged
<1>6. CASE UNCHANGED vars
  BY <1>6 DEF vars
<1> QED
  BY <1>1, <1>2, <1>3, <1>4, <1>5, <1>6 DEF Next

\* What is owed to close(), and that a worker that has ended paid it.
LEMMA QueueFlush == QueueInv /\ [Next]_vars => ClosedOverPuts' /\ DeadHasFlushed'
<1> SUFFICES ASSUME QueueInv, [Next]_vars PROVE ClosedOverPuts' /\ DeadHasFlushed'
  OBVIOUS
<1> USE DEF QueueInv, ClosedOverPuts, DeadHasFlushed
<1>0. put \in Seq(Items) /\ got \in Seq(Items) /\ queue \in Seq(Items)
  BY DEF TypeOK
<1>1. ASSUME NEW p \in Producers, Put(p) PROVE ClosedOverPuts' /\ DeadHasFlushed'
  <2>1. item[p] \in Items
    BY <1>1 DEF Put, CarriesItem
  <2>2. Elements(put) \subseteq Elements(put')
    BY <1>0, <1>1, <2>1, ElementsOfAppend DEF Put
  <2> QED
    BY <1>1, <2>2 DEF Put
<1>2. ASSUME UNCHANGED <<stop, inHand, put, got, queuedAtClose>>, wpc' = "dead" => wpc = "dead"
      PROVE  ClosedOverPuts' /\ DeadHasFlushed'
  BY <1>2 DEF Elements
<1>3. CASE WorkerLoop
  <2>1. CASE wpc' = "get"
    BY <1>3, <2>1 DEF WorkerLoop, WorkerGoto, WorkerUnchanged, Elements
  <2>2. CASE wpc' = "dead"
    <3>1. stop /\ (WaitForQueue => queue = <<>>) /\ inHand = NoItem
      BY <1>3, <2>2 DEF WorkerLoop, WorkerGoto, TypeOK
    <3>2. queue = <<>> => put = got
      BY <3>1, <1>0, ConcatEmptySeq, EmptySeq DEF InOrder
    <3>3. UNCHANGED <<stop, inHand, put, got, queuedAtClose>>
      BY <1>3 DEF WorkerLoop, WorkerUnchanged
    <3> QED
      BY <3>1, <3>2, <3>3 DEF Elements
  <2> QED
    BY <1>3, <2>1, <2>2 DEF WorkerLoop, WorkerGoto
<1>4. CASE WorkerGet
  BY <1>4 DEF WorkerGet, WorkerGoto, WorkerUnchanged, Elements
<1>5. CASE WorkerPublish
  BY <1>5 DEF WorkerPublish, WorkerGoto, WorkerUnchanged, Elements, TypeOK
<1>6. CASE CloseCall
  <2>1. CASE closing = "no"
    BY <1>6, <2>1 DEF CloseCall, CloserUnchanged, StopIsClose, Elements
  <2>2. CASE closing # "no"
    BY <1>2, <1>6, <2>2 DEF CloseCall, CloserUnchanged
  <2> QED
    BY <2>1, <2>2
<1>7. CASE CloserStep
  <2>1. UNCHANGED <<wpc, inHand, put, got, queuedAtClose>> /\ (stop => stop')
    BY <1>7 DEF CloserStep, CloseSetStop, CloseJoin, CloseInner, CloserUnchanged
  <2> QED
    BY <2>1 DEF Elements
<1>8. ASSUME NEW p \in Producers, Publish(p) PROVE ClosedOverPuts' /\ DeadHasFlushed'
  BY <1>2, <1>8 DEF Publish
<1>9. CASE UNCHANGED vars
  BY <1>2, <1>9 DEF vars
<1> QED
  BY <1>1, <1>3, <1>4, <1>5, <1>6, <1>7, <1>8, <1>9 DEF Next, WorkerStep

\* Every step keeps every part of the invariant.
LEMMA QueueInvStep == QueueInv /\ [Next]_vars => QueueInv'
BY QueueTypes, QueueOrder, QueueControl, QueueFlush DEF QueueInv

\* So the invariant always holds.
LEMMA QueueInvAlways == Spec => []QueueInv
BY QueueInit, QueueInvStep, PTL DEF Spec

-----------------------------------------------------------------------------
(* QueuedPublisher: the theorems *)

\* The queue keeps the order of the puts and drops nothing (QueuedPublisher.publish,
\* _worker), whatever the wrapped publisher raises.
THEOREM QueueKeepsOrder == Spec => [](TypeOK /\ InOrder)
<1>1. QueueInv => TypeOK /\ InOrder
  BY DEF QueueInv
<1> QED
  BY <1>1, QueueInvAlways, PTL

\* With wait_for_queue a close() that returned has flushed what was queued when
\* it was called, unless the wrapped publisher refused an item.
THEOREM QueueCloseFlushes == Spec => []CloseFlushes
<1>1. QueueInv => CloseFlushes
  BY DEF QueueInv, CloseFlushes, Refused, JoinedIsDead, DeadHasFlushed
<1> QED
  BY <1>1, QueueInvAlways, PTL

\* The wrapper is a relay: its steps are steps of Relay or change nothing there.
THEOREM QueueImplementsRelay == Spec => ImplementsRelay
<1>1. Init => R!RelayInit
  BY DEF Init, R!RelayInit
<1>2. QueueInv /\ [Next]_vars => [R!RelayNext]_R!relayVars
  <2> SUFFICES ASSUME QueueInv, [Next]_vars, ~UNCHANGED <<put, got, innerClosed>>
               PROVE  R!RelayNext
    BY DEF R!relayVars
  <2>1. ASSUME NEW p \in Producers, Put(p) PROVE R!Accept
    BY <2>1 DEF Put, QueueInv, CarriesItem, R!Accept
  <2>2. CASE WorkerPublish
    <3>1. /\ wpc = "publish" /\ got' = Append(got, inHand)
          /\ UNCHANGED <<put, innerClosed>>
      BY <2>2 DEF WorkerPublish, WorkerUnchanged
    <3>2. inHand \in Items /\ inHand # NoItem
      BY <3>1 DEF QueueInv, TypeOK
    <3>3. ~innerClosed
      BY <3>1 DEF QueueInv, JoinedIsDead
    <3>4. put = (got \o <<inHand>>) \o queue
      BY <3>2 DEF QueueInv, InOrder
    <3>5. got \in Seq(Items) /\ queue \in Seq(Items) /\ <<inHand>> \in Seq(Items)
      BY <3>2 DEF QueueInv, TypeOK
    <3>6. Len(got) < Len(put) /\ put[Len(got) + 1] = inHand
      <4>1. /\ got \o <<inHand>> \in Seq(Items)
            /\ Len(got \o <<inHand>>) = Len(got) + 1
            /\ (got \o <<inHand>>)[Len(got) + 1] = inHand
        BY <3>5, ConcatProperties
      <4> QED
        BY <3>4, <3>5, <4>1, ConcatProperties
    <3> QED
      BY <3>1, <3>3, <3>6 DEF R!RelayNext, R!Forward
  <2>3. CASE CloserStep
    BY <2>3 DEF CloserStep, CloseSetStop, CloseJoin, CloseInner, CloserUnchanged,
                R!RelayNext, R!End, QueueInv, TypeOK
  <2>4. UNCHANGED <<put, got, innerClosed>>
        \/ WorkerPublish \/ CloserStep \/ \E p \in Producers : Put(p)
    BY DEF Next, vars, Publish, WorkerStep, WorkerLoop, WorkerGet, WorkerUnchanged,
           CloseCall, CloserUnchanged
  <2> QED
    BY <2>1, <2>2, <2>3, <2>4 DEF R!RelayNext
<1> QED
  BY <1>1, <1>2, QueueInvAlways, PTL DEF Spec, ImplementsRelay, R!RelaySpec

-----------------------------------------------------------------------------
(* BufferedPublisher *)

Places == {"idle", "append", "size", "batch", "clear", "close", "flag"}

\* Nothing taken is missing; a batch that is under way has handed out what lies
\* before its place in the list, one that is through the whole list.
BufferedInv(t) ==
  /\ bBuffer \in Seq(Nat) /\ bAccepted \in Seq(Nat) /\ bGot \in Seq(Nat)
  /\ bAt \in [Buffering -> Places] /\ bItem \in [Buffering -> Nat] /\ bPos \in [Buffering -> Nat \ {0}] /\ bMade \in Nat
  /\ bAt[t] = "batch" => \A i \in 1..Len(bBuffer) : i < bPos[t] => bBuffer[i] \in Elements(bGot)
  /\ bAt[t] = "clear" => Elements(bBuffer) \subseteq Elements(bGot)
  /\ Elements(bAccepted) \subseteq Elements(bBuffer) \cup Elements(bGot)

\* The elements of a sequence that has grown.
LEMMA OneElementMore ==
  ASSUME NEW s \in Seq(Nat), NEW x \in Nat
  PROVE  Append(s, x) \in Seq(Nat) /\ Elements(Append(s, x)) = Elements(s) \cup {x}
<1>1. DOMAIN s = 1..Len(s) /\ Len(s) \in Nat
  OBVIOUS
<1>2. /\ Append(s, x) \in Seq(Nat) /\ Len(Append(s, x)) = Len(s) + 1
      /\ \A i \in 1..Len(s) : Append(s, x)[i] = s[i]
      /\ Append(s, x)[Len(s) + 1] = x /\ DOMAIN Append(s, x) = 1..(Len(s) + 1)
  OBVIOUS
<1>3. 1..(Len(s) + 1) = (1..Len(s)) \cup {Len(s) + 1}
  BY <1>1
<1> QED
  BY <1>1, <1>2, <1>3 DEF Elements

LEMMA BufferedStep ==
  ASSUME NEW t \in Buffering, BufferedInv(t), B!ThreadStep(t)
  PROVE  BufferedInv(t)'
<1> USE DEF BufferedInv, B!Goto, Places
<1>1. CASE B!Publish(t)
  <2>1. /\ bMade' \in Nat /\ bAt' \in [Buffering -> Places] /\ bItem' \in [Buffering -> Nat]
        /\ bAt'[t] \in {"idle", "append"}
    <3>1. CASE bClosed
      BY <1>1, <3>1 DEF B!Publish
    <3>2. CASE ~bClosed
      <4>1. /\ bMade' = bMade + 1 /\ bItem' = [bItem EXCEPT ![t] = bMade']
            /\ bAt' = [bAt EXCEPT ![t] = "append"]
        BY <1>1, <3>2 DEF B!Publish
      <4>2. bMade' \in Nat
        BY <4>1
      <4> QED
        BY <4>1, <4>2
    <3> QED
      BY <3>1, <3>2
  <2> QED
    BY <1>1, <2>1 DEF B!Publish
<1>2. CASE B!AppendItem(t)
  <2>1. PICK x \in Nat : x = bItem[t]
    OBVIOUS
  <2>2. /\ bBuffer' = Append(bBuffer, x) /\ bAccepted' = Append(bAccepted, x) /\ bGot' = bGot
        /\ bAt' = [bAt EXCEPT ![t] = "size"] /\ UNCHANGED <<bItem, bPos, bMade>>
    BY <1>2, <2>1 DEF B!AppendItem
  <2>3. /\ bBuffer' \in Seq(Nat) /\ Elements(bBuffer') = Elements(bBuffer) \cup {x}
        /\ bAccepted' \in Seq(Nat) /\ Elements(bAccepted') = Elements(bAccepted) \cup {x}
    BY <2>2, OneElementMore
  <2>4. bAt'[t] = "size" /\ bAt' \in [Buffering -> Places]
    BY <2>2
  <2>5. Elements(bAccepted') \subseteq Elements(bBuffer') \cup Elements(bGot')
    BY <2>2, <2>3
  <2> QED
    BY <2>2, <2>3, <2>4, <2>5
<1>3. CASE B!CheckSize(t)
  BY <1>3 DEF B!CheckSize
<1>4. CASE B!Batch(t)
  <2>1. CASE bPos[t] > Len(bBuffer) /\ B!Goto(t, "clear") /\ UNCHANGED <<bPos, bGot>>
    <3>1. /\ bAt[t] = "batch" /\ bAt'[t] = "clear" /\ bAt' \in [Buffering -> Places]
          /\ UNCHANGED <<bBuffer, bAccepted, bItem, bMade>>
      BY <1>4, <2>1 DEF B!Batch
    <3>2. \A i \in 1..Len(bBuffer) : i < bPos[t]
      BY <2>1
    <3>3. Elements(bBuffer) \subseteq Elements(bGot)
      BY <3>1, <3>2 DEF Elements
    <3> QED
      BY <2>1, <3>1, <3>3
  <2>2. CASE /\ bPos[t] <= Len(bBuffer) /\ bGot' = Append(bGot, bBuffer[bPos[t]])
             /\ bPos' = [bPos EXCEPT ![t] = @ + 1] /\ UNCHANGED bAt
    <3>1. PICK x, p : x = bBuffer[p] /\ p = bPos[t]
      OBVIOUS
    <3>2. p \in 1..Len(bBuffer) /\ x \in Nat /\ bPos' \in [Buffering -> Nat \ {0}] /\ bPos'[t] = p + 1
      BY <2>2, <3>1
    <3>3. bGot' \in Seq(Nat) /\ Elements(bGot') = Elements(bGot) \cup {x}
      BY <2>2, <3>1, <3>2, OneElementMore
    <3>4. bAt[t] = "batch" /\ UNCHANGED <<bBuffer, bAccepted, bItem, bMade, bAt>>
      BY <1>4, <2>2 DEF B!Batch
    <3>5. ASSUME NEW i \in 1..Len(bBuffer), i < p + 1 PROVE bBuffer[i] \in Elements(bGot')
      <4>1. i < p \/ i = p
        BY <3>2, <3>5
      <4> QED
        BY <3>1, <3>3, <3>4, <4>1
    <3>6. Elements(bAccepted') \subseteq Elements(bBuffer') \cup Elements(bGot')
      BY <3>3, <3>4
    <3> QED
      BY <3>2, <3>3, <3>4, <3>5, <3>6
  <2>3. CASE B!Goto(t, "idle") /\ UNCHANGED <<bPos, bGot>>
    BY <1>4, <2>3 DEF B!Batch
  <2> QED
    BY <1>4, <2>1, <2>2, <2>3 DEF B!Batch
<1>5. CASE B!Clear(t)
  <2>1. /\ bAt[t] = "clear" /\ bBuffer' = <<>> /\ UNCHANGED <<bAccepted, bGot, bItem, bPos, bMade>>
        /\ bAt' \in [Buffering -> Places] /\ bAt'[t] \in {"idle", "close"}
    BY <1>5 DEF B!Clear
  <2>2. Elements(bAccepted') \subseteq Elements(bBuffer') \cup Elements(bGot')
    BY <2>1
  <2> QED
    BY <2>1, <2>2
<1>6. CASE B!Close(t)
  BY <1>6 DEF B!Close
<1>7. CASE B!CloseInner(t) \/ B!SetClosed(t)
  BY <1>7 DEF B!CloseInner, B!SetClosed
<1> QED
  BY <1>1, <1>2, <1>3, <1>4, <1>5, <1>6, <1>7 DEF B!ThreadStep

\* Used by one thread, BufferedPublisher loses no item, whatever the wrapped
\* publisher raises in the middle of a batch and however often it is sent again.
THEOREM BufferLosesNothing ==
  ASSUME NEW t, Buffering = {t}
  PROVE  B!Spec => []NoLoss
<1>1. B!Init => BufferedInv(t)
  BY DEF B!Init, BufferedInv, Places, Elements
<1>2. BufferedInv(t) /\ [B!Next]_(B!vars) => BufferedInv(t)'
  <2>1. BufferedInv(t) /\ UNCHANGED B!vars => BufferedInv(t)'
    BY DEF B!vars, BufferedInv
  <2> QED
    BY <2>1, BufferedStep DEF B!Next
<1>3. BufferedInv(t) => NoLoss
  <2> SUFFICES ASSUME BufferedInv(t) PROVE NoLoss
    OBVIOUS
  <2>1. ASSUME NEW s \in Seq(Nat) PROVE B!ToSet(s) = Elements(s)
    <3>1. DOMAIN s = 1..Len(s)
      OBVIOUS
    <3> QED
      BY <3>1 DEF B!ToSet, Elements
  <2> QED
    BY <2>1 DEF BufferedInv, NoLoss, B!NoLoss
<1> QED
  BY <1>1, <1>2, <1>3, PTL DEF B!Spec

-----------------------------------------------------------------------------
(* SharedPublisher: a thread's stack of calls *)

AllOf(s) == {s[i] : i \in 1..Len(s)}
Below(s) == {s[i] : i \in 2..Len(s)}

\* The calls of a stack are on different handles.
Tidy(s) == \A i, j \in 1..Len(s) : s[i].h = s[j].h => i = j

\* What the collector put on top of a call is a close().
Nested(s) == \A i \in 1..Len(s) : i # Len(s) => s[i].op = "close"

\* A thread that still has a handle to make.
Clones(s) == s # <<>> /\ s[Len(s)].op = "clone" /\ s[Len(s)].at # "leave"

\* The call in progress is the first, those below it wait.
LEMMA StackFacts ==
  ASSUME NEW X, NEW s \in Seq(X), s # <<>>
  PROVE  /\ Len(s) \in Nat \ {0} /\ s[1] \in X /\ AllOf(s) = {s[1]} \cup Below(s) /\ AllOf(s) \subseteq X
         /\ Tidy(s) => \A g \in Below(s) : g.h # s[1].h
<1>1. Len(s) \in Nat \ {0}
  OBVIOUS
<1>2. 1..Len(s) = {1} \cup 2..Len(s) /\ \A i \in 2..Len(s) : i # 1 /\ i \in 1..Len(s)
  BY <1>1
<1>3. \A i \in 1..Len(s) : s[i] \in X
  OBVIOUS
<1>4. AllOf(s) = {s[1]} \cup Below(s)
  BY <1>2 DEF AllOf, Below
<1>5. AllOf(s) \subseteq X /\ s[1] \in X
  BY <1>1, <1>3 DEF AllOf
<1>6. Tidy(s) => \A g \in Below(s) : g.h # s[1].h
  BY <1>2 DEF Tidy, Below
<1> QED
  BY <1>1, <1>4, <1>5, <1>6

\* A call is made, or put on top.
LEMMA StackPushed ==
  ASSUME NEW X, NEW s \in Seq(X), NEW f \in X, NEW w, w = <<f>> \o s
  PROVE  /\ w \in Seq(X) /\ AllOf(w) = {f} \cup AllOf(s)
         /\ Tidy(s) /\ (\A g \in AllOf(s) : g.h # f.h) => Tidy(w)
         /\ Nested(s) /\ (s # <<>> => f.op = "close") => Nested(w)
         /\ Clones(w) => Clones(s) \/ f.op = "clone"
<1>1. /\ w \in Seq(X) /\ Len(s) \in Nat /\ Len(w) = Len(s) + 1 /\ w[1] = f
      /\ \A i \in 1..Len(s) : w[i + 1] = s[i]
  OBVIOUS
<1>2. \A i \in 1..Len(w) : i # 1 => i - 1 \in 1..Len(s) /\ w[i] = s[i - 1]
  <2> SUFFICES ASSUME NEW i \in 1..Len(w), i # 1 PROVE i - 1 \in 1..Len(s) /\ w[i] = s[i - 1]
    OBVIOUS
  <2>1. i - 1 \in 1..Len(s) /\ (i - 1) + 1 = i
    BY <1>1
  <2> QED
    BY <1>1, <2>1
<1>3. AllOf(w) = {f} \cup AllOf(s)
  <2>1. \A i \in 1..Len(s) : i + 1 \in 1..Len(w) /\ 1 \in 1..Len(w)
    BY <1>1
  <2>2. AllOf(w) \subseteq {f} \cup AllOf(s)
    BY <1>1, <1>2 DEF AllOf
  <2>3. f \in AllOf(w)
    <3>1. 1 \in 1..Len(w)
      BY <1>1
    <3> QED
      BY <1>1, <3>1 DEF AllOf
  <2>4. AllOf(s) \subseteq AllOf(w)
    BY <1>1, <2>1 DEF AllOf
  <2> QED
    BY <2>2, <2>3, <2>4
<1>4. ASSUME Tidy(s), \A g \in AllOf(s) : g.h # f.h PROVE Tidy(w)
  <2> SUFFICES ASSUME NEW i \in 1..Len(w), NEW j \in 1..Len(w), w[i].h = w[j].h PROVE i = j
    BY DEF Tidy
  <2>1. \A k \in 1..Len(w) : k # 1 => w[k].h # f.h
    BY <1>2, <1>4 DEF AllOf
  <2>2. CASE i = 1 \/ j = 1
    BY <1>1, <2>1, <2>2
  <2>3. CASE i # 1 /\ j # 1
    <3>1. i - 1 \in 1..Len(s) /\ j - 1 \in 1..Len(s) /\ s[i - 1].h = s[j - 1].h
      BY <1>2, <2>3
    <3>2. i - 1 = j - 1
      BY <1>4, <3>1 DEF Tidy
    <3> QED
      BY <3>2
  <2> QED
    BY <2>2, <2>3
<1>5. ASSUME Nested(s), s # <<>> => f.op = "close" PROVE Nested(w)
  <2> SUFFICES ASSUME NEW i \in 1..Len(w), i # Len(w) PROVE w[i].op = "close"
    BY DEF Nested
  <2>1. CASE i = 1
    BY <1>1, <1>5, <2>1
  <2>2. CASE i # 1
    <3>1. i - 1 \in 1..Len(s) /\ i - 1 # Len(s)
      BY <1>1, <1>2, <2>2
    <3> QED
      BY <1>2, <1>5, <2>2, <3>1 DEF Nested
  <2> QED
    BY <2>1, <2>2
<1>6. ASSUME Clones(w) PROVE Clones(s) \/ f.op = "clone"
  <2>1. CASE Len(s) = 0
    BY <1>1, <1>6, <2>1 DEF Clones
  <2>2. CASE Len(s) # 0
    <3>1. Len(w) \in 1..Len(w) /\ Len(w) # 1 /\ Len(w) - 1 = Len(s) /\ s # <<>>
      BY <1>1, <2>2
    <3>2. w[Len(w)] = s[Len(s)]
      BY <1>2, <3>1
    <3> QED
      BY <1>6, <3>1, <3>2 DEF Clones
  <2> QED
    BY <2>1, <2>2
<1> QED
  BY <1>1, <1>3, <1>4, <1>5, <1>6

\* The call in progress goes on.
LEMMA StackMoved ==
  ASSUME NEW X, NEW s \in Seq(X), s # <<>>, NEW f \in X, f.h = s[1].h, f.op = s[1].op,
         NEW w, w = [s EXCEPT ![1] = f]
  PROVE  /\ w \in Seq(X) /\ w # <<>> /\ AllOf(w) = {f} \cup Below(s)
         /\ Tidy(s) => Tidy(w)
         /\ Nested(s) => Nested(w)
         /\ Clones(w) => Clones(s) \/ s[1].at = "leave"
         /\ Nested(s) /\ f.op = "clone" => (Clones(w) <=> f.at # "leave") /\ (Clones(s) <=> s[1].at # "leave")
<1>1. /\ w \in Seq(X) /\ Len(s) \in Nat \ {0} /\ Len(w) = Len(s) /\ w[1] = f
      /\ \A i \in 1..Len(s) : i # 1 => w[i] = s[i]
  OBVIOUS
<1>2. w # <<>> /\ 1 \in 1..Len(s) /\ Len(s) \in 1..Len(s)
  BY <1>1
<1>3. AllOf(w) = {f} \cup Below(s)
  <2>1. Below(w) = Below(s)
    <3>1. \A i \in 2..Len(s) : w[i] = s[i]
      BY <1>1
    <3> QED
      BY <1>1, <3>1 DEF Below
  <2>2. AllOf(w) = {w[1]} \cup Below(w)
    <3>1. 1..Len(w) = {1} \cup 2..Len(w)
      BY <1>1
    <3> QED
      BY <3>1 DEF AllOf, Below
  <2> QED
    BY <1>1, <2>1, <2>2
<1>4. \A i \in 1..Len(s) : w[i].h = s[i].h /\ w[i].op = s[i].op
  BY <1>1
<1>5. (Tidy(s) => Tidy(w)) /\ (Nested(s) => Nested(w))
  <2>1. Len(w) = Len(s)
    BY <1>1
  <2>2. Tidy(s) => Tidy(w)
    BY <1>4, <2>1 DEF Tidy
  <2>3. Nested(s) => Nested(w)
    BY <1>4, <2>1 DEF Nested
  <2> QED
    BY <2>2, <2>3
<1>6. Clones(w) => Clones(s) \/ s[1].at = "leave"
  BY <1>1, <1>2, <1>4 DEF Clones
<1>7. ASSUME Nested(s), f.op = "clone"
      PROVE  (Clones(w) <=> f.at # "leave") /\ (Clones(s) <=> s[1].at # "leave")
  <2>1. 1 = Len(s)
    <3>1. s[1].op # "close"
      BY <1>7
    <3> QED
      BY <1>2, <1>7, <3>1 DEF Nested
  <2> QED
    BY <1>1, <1>2, <1>7, <2>1 DEF Clones
<1> QED
  BY <1>1, <1>2, <1>3, <1>5, <1>6, <1>7

\* The call in progress returns: the others move up.
LEMMA StackMovedUp ==
  ASSUME NEW s, NEW w, Len(s) \in Nat \ {0}, Len(w) = Len(s) - 1, w # <<>> => Len(w) # 0, s # <<>>,
         \A i \in 1..Len(w) : w[i] = s[i + 1]
  PROVE  /\ AllOf(w) = Below(s)
         /\ Tidy(s) => Tidy(w)
         /\ Nested(s) => Nested(w)
         /\ Clones(w) => Clones(s)
<1>1. \A i \in 1..Len(w) : i + 1 \in 2..Len(s) /\ i + 1 \in 1..Len(s)
  OBVIOUS
<1>2. AllOf(w) = Below(s)
  <2>1. AllOf(w) \subseteq Below(s)
    BY <1>1 DEF AllOf, Below
  <2>2. ASSUME NEW i \in 2..Len(s) PROVE s[i] \in AllOf(w)
    <3>1. i - 1 \in 1..Len(w) /\ (i - 1) + 1 = i
      OBVIOUS
    <3> QED
      BY <3>1 DEF AllOf
  <2> QED
    BY <2>1, <2>2 DEF Below
<1>3. ASSUME Tidy(s) PROVE Tidy(w)
  <2> SUFFICES ASSUME NEW i \in 1..Len(w), NEW j \in 1..Len(w), w[i].h = w[j].h PROVE i = j
    BY DEF Tidy
  <2>1. i + 1 = j + 1
    BY <1>1, <1>3 DEF Tidy
  <2> QED
    BY <2>1
<1>4. Nested(s) => Nested(w)
  <2> SUFFICES ASSUME Nested(s), NEW i \in 1..Len(w), i # Len(w) PROVE w[i].op = "close"
    BY DEF Nested
  <2>1. i + 1 # Len(s)
    OBVIOUS
  <2>2. i + 1 \in 1..Len(s) /\ w[i] = s[i + 1]
    BY <1>1
  <2> QED
    BY <2>1, <2>2, Zenon DEF Nested
<1>5. Clones(w) => Clones(s)
  <2> SUFFICES ASSUME Clones(w) PROVE Clones(s)
    OBVIOUS
  <2>1. Len(w) \in 1..Len(w) /\ Len(w) + 1 = Len(s)
    BY DEF Clones
  <2>2. w[Len(w)] = s[Len(s)]
    BY <2>1
  <2> QED
    BY <2>2 DEF Clones
<1> QED
  BY <1>2, <1>3, <1>4, <1>5

LEMMA StackLeft ==
  ASSUME NEW X, NEW s \in Seq(X), s # <<>>, NEW w, w = Tail(s)
  PROVE  /\ w \in Seq(X) /\ AllOf(w) = Below(s)
         /\ Tidy(s) => Tidy(w)
         /\ Nested(s) => Nested(w)
         /\ Clones(w) => Clones(s)
<1>1. /\ w \in Seq(X) /\ Len(s) \in Nat \ {0} /\ Len(w) = Len(s) - 1
      /\ \A i \in 1..Len(w) : w[i] = s[i + 1]
  OBVIOUS
<1>2. w # <<>> => Len(w) # 0
  BY <1>1
<1> QED
  BY <1>1, <1>2, StackMovedUp

-----------------------------------------------------------------------------
(* BufferedPublisher as a relay *)

\* The first times of a sequence that has grown: what was there before was
\* there first, what is new comes last.
LEMMA FirstsIs ==
  ASSUME NEW s \in Seq(Nat), NEW x \in Nat, NEW s2, s2 = Append(s, x)
  PROVE  /\ B!Firsts(s2) = B!Firsts(s) \cup (IF x \in Elements(s) THEN {} ELSE {Len(s) + 1})
         /\ B!Firsts(s) \subseteq 1..Len(s) /\ IsFiniteSet(B!Firsts(s)) /\ Cardinality(B!Firsts(s)) \in Nat
<1>1. /\ s2 \in Seq(Nat) /\ Len(s2) = Len(s) + 1 /\ Len(s) \in Nat
      /\ \A i \in 1..Len(s) : s2[i] = s[i]
      /\ s2[Len(s) + 1] = x
  OBVIOUS
<1>2. \A i \in 1..Len(s) : i \in B!Firsts(s2) <=> i \in B!Firsts(s)
  BY <1>1 DEF B!Firsts
<1>3. Len(s) + 1 \in B!Firsts(s2) <=> x \notin Elements(s)
  BY <1>1 DEF B!Firsts, Elements
<1>4. B!Firsts(s2) \subseteq 1..(Len(s) + 1) /\ B!Firsts(s) \subseteq 1..Len(s)
  BY <1>1 DEF B!Firsts
<1>5. IsFiniteSet(B!Firsts(s)) /\ Cardinality(B!Firsts(s)) \in Nat
  <2>1. IsFiniteSet(1..Len(s)) /\ B!Firsts(s) \in SUBSET (1..Len(s))
    BY <1>1, <1>4, FS_Interval
  <2>2. IsFiniteSet(B!Firsts(s))
    BY <2>1, FS_Subset
  <2> QED
    BY <2>2, FS_CardinalityType
<1>6. 1..(Len(s) + 1) = (1..Len(s)) \cup {Len(s) + 1} /\ Len(s) + 1 \notin 1..Len(s)
  BY <1>1
<1> QED
  BY <1>2, <1>3, <1>4, <1>5, <1>6

LEMMA BufferedCardinality == \A X : B!Cardinality(X) = Cardinality(X)
BY DEF B!Cardinality, Cardinality

LEMMA InTurnIs ==
  ASSUME NEW s, NEW k
  PROVE  B!InTurn(s, k) = {s[i] : i \in {i \in B!Firsts(s) : Cardinality({j \in B!Firsts(s) : j <= i}) = k}}
BY BufferedCardinality DEF B!InTurn

LEMMA FirstTimesIs ==
  ASSUME NEW s
  PROVE  B!FirstTimes(s) = [k \in 1..Cardinality(B!Firsts(s)) |-> CHOOSE x \in B!InTurn(s, k) : TRUE]
BY BufferedCardinality DEF B!FirstTimes

LEMMA SeenAgain ==
  ASSUME NEW s \in Seq(Nat), NEW x \in Elements(s)
  PROVE  B!FirstTimes(Append(s, x)) = B!FirstTimes(s)
<1> DEFINE s2 == Append(s, x)
<1>1. x \in Nat
  BY DEF Elements
<1>2. B!Firsts(s2) = B!Firsts(s) /\ B!Firsts(s) \subseteq 1..Len(s)
  BY <1>1, FirstsIs
<1>3. \A i \in 1..Len(s) : s2[i] = s[i]
  BY <1>1
<1> HIDE DEF s2
<1>4. ASSUME NEW k \in 1..Cardinality(B!Firsts(s)) PROVE B!InTurn(s2, k) = B!InTurn(s, k)
  BY <1>2, <1>3, InTurnIs
<1>5. ASSUME NEW k \in 1..Cardinality(B!Firsts(s))
      PROVE  (CHOOSE y \in B!InTurn(s2, k) : TRUE) = (CHOOSE y \in B!InTurn(s, k) : TRUE)
  BY <1>4
<1>6. [k \in 1..Cardinality(B!Firsts(s)) |-> CHOOSE y \in B!InTurn(s2, k) : TRUE]
      = [k \in 1..Cardinality(B!Firsts(s)) |-> CHOOSE y \in B!InTurn(s, k) : TRUE]
  BY <1>5
<1>7. B!FirstTimes(s2) = B!FirstTimes(s)
  BY <1>2, <1>6, FirstTimesIs, Zenon
<1> QED
  BY <1>7 DEF s2

LEMMA SeenFirst ==
  ASSUME NEW s \in Seq(Nat), NEW x \in Nat, x \notin Elements(s), B!FirstTimes(s) \in Seq(Nat)
  PROVE  B!FirstTimes(Append(s, x)) = Append(B!FirstTimes(s), x)
<1> DEFINE s2 == Append(s, x)
           n == Cardinality(B!Firsts(s))
           last == Len(s) + 1
<1>1. /\ B!Firsts(s2) = B!Firsts(s) \cup {last} /\ B!Firsts(s) \subseteq 1..Len(s)
      /\ IsFiniteSet(B!Firsts(s)) /\ n \in Nat
  BY FirstsIs
<1>2. last \in Nat /\ last = Len(s) + 1 /\ last \notin 1..Len(s) /\ Len(s) \in Nat
  OBVIOUS
<1>3. s2[last] = x /\ \A i \in 1..Len(s) : s2[i] = s[i]
  OBVIOUS
<1> HIDE DEF s2, last
<1>4. Cardinality(B!Firsts(s2)) = n + 1
  <2>1. last \notin B!Firsts(s) /\ IsFiniteSet(B!Firsts(s))
    BY <1>1, <1>2
  <2>2. Cardinality(B!Firsts(s) \cup {last}) = n + 1
    BY <2>1, FS_AddElement
  <2> QED
    BY <1>1, <2>2
<1>5. \A i \in 1..Len(s) : {j \in B!Firsts(s2) : j <= i} = {j \in B!Firsts(s) : j <= i}
  BY <1>1, <1>2
<1>6. {j \in B!Firsts(s2) : j <= last} = B!Firsts(s2)
  BY <1>1, <1>2
<1>7. \A i \in 1..Len(s) : Cardinality({j \in B!Firsts(s) : j <= i}) \in 0..n
  <2> SUFFICES ASSUME NEW i \in 1..Len(s) PROVE Cardinality({j \in B!Firsts(s) : j <= i}) \in 0..n
    OBVIOUS
  <2>1. {j \in B!Firsts(s) : j <= i} \subseteq B!Firsts(s)
    OBVIOUS
  <2> QED
    BY <1>1, <2>1, FS_Subset, FS_CardinalityType
<1> HIDE DEF n
<1>8. ASSUME NEW k \in 1..n PROVE B!InTurn(s2, k) = B!InTurn(s, k)
  <2>1. Cardinality({j \in B!Firsts(s2) : j <= last}) # k
    <3>1. Cardinality({j \in B!Firsts(s2) : j <= last}) = n + 1
      BY <1>4, <1>6, Zenon
    <3> QED
      BY <1>1, <3>1
  <2>2. {i \in B!Firsts(s2) : Cardinality({j \in B!Firsts(s2) : j <= i}) = k}
        = {i \in B!Firsts(s) : Cardinality({j \in B!Firsts(s) : j <= i}) = k}
    BY <1>1, <1>5, <2>1
  <2> QED
    BY <1>1, <1>3, <2>2, InTurnIs
<1>9. B!InTurn(s2, n + 1) = {x}
  <2>1. {i \in B!Firsts(s2) : Cardinality({j \in B!Firsts(s2) : j <= i}) = n + 1} = {last}
    <3>1. ASSUME NEW i \in B!Firsts(s) PROVE Cardinality({j \in B!Firsts(s2) : j <= i}) # n + 1
      <4>1. Cardinality({j \in B!Firsts(s) : j <= i}) \in 0..n /\ i \in 1..Len(s)
        BY <1>1, <1>7
      <4>2. Cardinality({j \in B!Firsts(s2) : j <= i}) = Cardinality({j \in B!Firsts(s) : j <= i})
        BY <1>5, <4>1, Zenon
      <4>3. \A c \in 0..n : c # n + 1
        BY <1>1
      <4> QED
        BY <4>1, <4>2, <4>3
    <3> QED
      BY <1>1, <1>4, <1>6, <3>1
  <2> QED
    BY <1>3, <2>1, InTurnIs
<1>10. /\ B!FirstTimes(s2) = [k \in 1..(n + 1) |-> CHOOSE y \in B!InTurn(s2, k) : TRUE]
       /\ B!FirstTimes(s) = [k \in 1..n |-> CHOOSE y \in B!InTurn(s, k) : TRUE]
  BY <1>4, FirstTimesIs DEF n
<1>11. Len(B!FirstTimes(s2)) = n + 1 /\ Len(B!FirstTimes(s)) = n
  BY <1>1, <1>10
<1>12. \A k \in 1..n : B!FirstTimes(s2)[k] = B!FirstTimes(s)[k]
  BY <1>1, <1>8, <1>10
<1>13. B!FirstTimes(s2)[n + 1] = x
  BY <1>1, <1>9, <1>10
<1>14. B!FirstTimes(s2) = Append(B!FirstTimes(s), x)
  <2> DEFINE f == B!FirstTimes(s2)
             g == Append(B!FirstTimes(s), x)
  <2>1. /\ g \in Seq(Nat) /\ Len(g) = n + 1
        /\ \A k \in 1..n : g[k] = B!FirstTimes(s)[k]
        /\ g[n + 1] = x
    BY <1>1, <1>11
  <2>2. f = [k \in 1..(n + 1) |-> f[k]]
    BY <1>10
  <2>3. \A k \in 1..(n + 1) : k \in 1..n \/ k = n + 1
    BY <1>1
  <2>4. \A k \in 1..(n + 1) : f[k] = g[k]
    BY <1>12, <1>13, <2>1, <2>3
  <2> HIDE DEF f, g
  <2>5. g = [k \in 1..(n + 1) |-> g[k]]
    BY <1>1, <2>1
  <2>6. f = g
    BY <2>2, <2>4, <2>5
  <2> QED
    BY <2>6 DEF f, g
<1> QED
  BY <1>14 DEF s2

\* How many items have left the list.
Taken == Len(bAccepted) - Len(bBuffer)
Seen == B!FirstTimes(bGot)

\* Items are numbered in the order of publish().
Numbered(t) ==
  /\ bMade \in 0..MaxItems
  /\ \A i \in 1..Len(bAccepted) : bAccepted[i] <= bMade /\ (bAt[t] = "append" => bAccepted[i] < bItem[t])
  /\ \A i, j \in 1..Len(bAccepted) : i < j => bAccepted[i] < bAccepted[j]
  /\ bAt[t] = "append" => bItem[t] \in 1..bMade

\* The list is the last of what was accepted.
ListIsLast ==
  /\ Len(bBuffer) <= Len(bAccepted)
  /\ \A i \in 1..Len(bBuffer) : bBuffer[i] = bAccepted[Taken + i]

\* What was seen is the first of what was accepted, and with the list makes up
\* all of it.
SeenIsFirst ==
  /\ Seen \in Seq(Nat) /\ Taken <= Len(Seen) /\ Len(Seen) <= Len(bAccepted)
  /\ \A i \in 1..Len(Seen) : Seen[i] = bAccepted[i]
  /\ Elements(bGot) = {bAccepted[i] : i \in 1..Len(Seen)}

\* A batch has gone as far as was seen, at least; once closed the wrapped
\* publisher is left alone.
Batching(t) ==
  /\ bAt[t] = "batch" => Taken + bPos[t] <= Len(Seen) + 1 /\ bPos[t] <= Len(bBuffer) + 1
  /\ bAt[t] = "clear" => Len(Seen) = Len(bAccepted)
  /\ bInnerClosed => bAt[t] = "flag" \/ bClosed
  /\ bClosed => bAt[t] = "idle"

RelayInv(t) == BufferedInv(t) /\ Numbered(t) /\ ListIsLast /\ SeenIsFirst /\ Batching(t)

\* One item handed over: seen before, or the next that was accepted.
LEMMA HandOver ==
  ASSUME NEW t \in Buffering, RelayInv(t), bAt[t] = "batch", bPos[t] <= Len(bBuffer),
         bGot' = Append(bGot, bBuffer[bPos[t]]), bPos' = [bPos EXCEPT ![t] = @ + 1],
         UNCHANGED <<bAt, bBuffer, bAccepted, bInnerClosed, bClosed>>
  PROVE  /\ SeenIsFirst' /\ Batching(t)'
         /\ \/ Seen' = Seen
            \/ (Len(Seen) < Len(bAccepted) /\ Seen' = Append(Seen, bAccepted[Len(Seen) + 1]))
<1> DEFINE a == Len(bAccepted)
           b == Len(bBuffer)
           c == Taken
           k == Len(Seen)
           p == bPos[t]
           q == c + p
           x == bAccepted[q]
<1>1. /\ bBuffer \in Seq(Nat) /\ bAccepted \in Seq(Nat) /\ bGot \in Seq(Nat) /\ Seen \in Seq(Nat)
      /\ bPos \in [Buffering -> Nat \ {0}] /\ p \in 1..b
  BY DEF RelayInv, BufferedInv, SeenIsFirst
<1>2. /\ a \in Nat /\ b \in Nat /\ k \in Nat /\ c = a - b
      /\ b <= a /\ c <= k /\ k <= a /\ c + p <= k + 1
  <2>1. a \in Nat /\ b \in Nat /\ k \in Nat /\ c = a - b
    BY <1>1 DEF Taken
  <2>2. b <= a
    BY DEF RelayInv, ListIsLast
  <2>3. c <= k /\ k <= a
    BY DEF RelayInv, SeenIsFirst
  <2>4. c + p <= k + 1
    BY DEF RelayInv, Batching
  <2> QED
    BY <2>1, <2>2, <2>3, <2>4
<1>3. bBuffer[p] = x /\ bGot' = Append(bGot, bBuffer[p])
  BY <1>1 DEF RelayInv, ListIsLast
<1>4. bPos'[t] = p + 1 /\ c' = c /\ a' = a /\ b' = b
  BY <1>1 DEF Taken
<1>5. /\ Elements(bGot) = {bAccepted[i] : i \in 1..k}
      /\ \A i \in 1..k : Seen[i] = bAccepted[i]
      /\ \A i, j \in 1..a : i < j => bAccepted[i] < bAccepted[j]
  BY DEF RelayInv, SeenIsFirst, Numbered
<1>6. bAt'[t] = "batch" /\ ~bInnerClosed' /\ ~bClosed'
  BY DEF RelayInv, Batching
<1>7. \A i \in 1..a : bAccepted[i] \in Nat
  <2>1. bAccepted \in Seq(Nat)
    BY <1>1
  <2> QED
    BY <2>1
<1> HIDE DEF a, b, c, k, p
<1>8. q \in 1..a /\ q <= k + 1 /\ q \in Nat
  BY <1>1, <1>2
<1>9. x \in Nat /\ bGot' = Append(bGot, x)
  BY <1>3, <1>7, <1>8
<1> HIDE DEF x
<1>10. Elements(bGot') = Elements(bGot) \cup {x}
  BY <1>1, <1>9, OneElementMore
<1>11. ASSUME NEW k1 \in Nat, Len(Seen') = k1, q <= k1
       PROVE  Batching(t)'
  <2>1. c + (p + 1) <= k1 + 1 /\ p + 1 <= b + 1
    BY <1>1, <1>2, <1>11
  <2>2. Taken' + bPos'[t] <= Len(Seen') + 1 /\ bPos'[t] <= Len(bBuffer') + 1
    BY <1>4, <1>11, <2>1 DEF b, c
  <2> QED
    BY <1>6, <2>2 DEF Batching
<1>12. CASE q <= k
  <2>1. x \in Elements(bGot)
    BY <1>2, <1>5, <1>8, <1>12 DEF x
  <2>2. Seen' = Seen
    BY <1>1, <1>9, <2>1, SeenAgain DEF Seen
  <2>3. Elements(bGot') = Elements(bGot)
    BY <1>10, <2>1
  <2>4. SeenIsFirst'
    BY <1>1, <1>2, <1>4, <1>5, <2>2, <2>3 DEF SeenIsFirst, a, c, k
  <2>5. Batching(t)'
    BY <1>2, <1>11, <1>12, <2>2 DEF k
  <2> QED
    BY <2>2, <2>4, <2>5
<1>13. CASE q = k + 1
  <2>1. \A i \in 1..k : bAccepted[i] < x /\ bAccepted[i] \in Nat
    BY <1>2, <1>5, <1>7, <1>8, <1>13 DEF x
  <2>2. x \notin Elements(bGot)
    BY <1>5, <1>9, <2>1
  <2>3. Seen' = Append(Seen, x)
    BY <1>1, <1>9, <2>2, SeenFirst DEF Seen
  <2>4. /\ Seen' \in Seq(Nat) /\ Len(Seen') = k + 1 /\ Seen'[k + 1] = x
        /\ \A i \in 1..k : Seen'[i] = Seen[i]
    BY <1>1, <1>9, <2>3 DEF k
  <2>5. \A i \in 1..(k + 1) : i \in 1..k \/ i = k + 1
    BY <1>2
  <2>6. \A i \in 1..(k + 1) : Seen'[i] = bAccepted[i]
    BY <1>5, <1>13, <2>4, <2>5 DEF x
  <2>7. 1..(k + 1) = (1..k) \cup {k + 1}
    BY <1>2
  <2>8. Elements(bGot') = {bAccepted[i] : i \in 1..(k + 1)}
    BY <1>5, <1>10, <1>13, <2>7 DEF x
  <2>9. c <= k + 1 /\ k + 1 <= a /\ k < a
    BY <1>2, <1>8, <1>13
  <2>10. SeenIsFirst'
    BY <1>4, <2>4, <2>6, <2>8, <2>9 DEF SeenIsFirst, a, c
  <2>11. Batching(t)'
    BY <1>2, <1>11, <1>13, <2>4
  <2>12. Len(Seen) < Len(bAccepted) /\ Seen' = Append(Seen, bAccepted[Len(Seen) + 1])
    BY <1>13, <2>3, <2>9 DEF a, k, x
  <2> QED
    BY <2>10, <2>11, <2>12
<1> QED
  BY <1>2, <1>8, <1>12, <1>13

\* The step of a method maps to a step of Relay, or to none.
Mapped == B!R!RelayNext \/ UNCHANGED B!R!relayVars

LEMMA NothingMoves ==
  ASSUME UNCHANGED <<bAccepted, bGot, bInnerClosed>>
  PROVE  Mapped
BY DEF Mapped, B!R!relayVars, B!FirstSeen, B!FirstTimes, B!Firsts, B!InTurn

LEMMA RelayStep ==
  ASSUME QueueAssumption, NEW t \in Buffering, RelayInv(t), B!ThreadStep(t)
  PROVE  RelayInv(t)' /\ Mapped
<1>1. BufferedInv(t) /\ BufferedInv(t)' /\ Numbered(t) /\ ListIsLast /\ SeenIsFirst /\ Batching(t)
  BY BufferedStep DEF RelayInv
<1>2. /\ bBuffer \in Seq(Nat) /\ bAccepted \in Seq(Nat) /\ bGot \in Seq(Nat)
      /\ bAt \in [Buffering -> Places] /\ bItem \in [Buffering -> Nat] /\ bPos \in [Buffering -> Nat \ {0}]
      /\ MaxItems \in Nat /\ bMade \in 0..MaxItems
  BY <1>1 DEF BufferedInv, Numbered, QueueAssumption
<1>3. CASE B!Publish(t)
  <2>1. /\ bAt[t] = "idle" /\ bMade < MaxItems /\ bMade' = bMade + 1
        /\ UNCHANGED <<bBuffer, bClosed, bInnerClosed, bPos, bAccepted, bGot>>
    BY <1>3 DEF B!Publish
  <2>2. bAt'[t] = "idle" \/ (bAt'[t] = "append" /\ ~bClosed /\ bItem'[t] = bMade + 1)
    BY <1>2, <1>3 DEF B!Publish, B!Goto
  <2>3. bMade' \in 0..MaxItems /\ bMade + 1 \in 1..bMade'
    BY <1>2, <2>1
  <2>4. \A i \in 1..Len(bAccepted) : bAccepted[i] \in Nat /\ bAccepted[i] <= bMade
    BY <1>1, <1>2 DEF Numbered
  <2>5. \A i \in 1..Len(bAccepted) : bAccepted[i] <= bMade' /\ bAccepted[i] < bMade + 1
    BY <1>2, <2>1, <2>4
  <2>6. Numbered(t)'
    BY <1>1, <2>1, <2>2, <2>3, <2>5 DEF Numbered
  <2>7. ListIsLast' /\ SeenIsFirst'
    BY <1>1, <2>1 DEF ListIsLast, SeenIsFirst, Taken, Seen
  <2>8. Batching(t)'
    BY <1>1, <2>1, <2>2 DEF Batching
  <2> QED
    BY <1>1, <2>1, <2>6, <2>7, <2>8, NothingMoves DEF RelayInv
<1>4. CASE B!AppendItem(t)
  <2> DEFINE x == bItem[t]
             a == Len(bAccepted)
             b == Len(bBuffer)
  <2>1. /\ bAt[t] = "append" /\ bBuffer' = Append(bBuffer, x) /\ bAccepted' = Append(bAccepted, x)
        /\ bAt'[t] = "size" /\ UNCHANGED <<bClosed, bInnerClosed, bItem, bPos, bMade, bGot>>
    BY <1>2, <1>4 DEF B!AppendItem, B!Goto
  <2>2. x \in 1..bMade /\ a \in Nat /\ b \in Nat /\ b <= a
    BY <1>1, <1>2, <2>1 DEF Numbered, ListIsLast
  <2>3. x \in Nat
    BY <1>2
  <2>4. /\ Len(bAccepted') = a + 1 /\ bAccepted'[a + 1] = x /\ \A i \in 1..a : bAccepted'[i] = bAccepted[i]
        /\ Len(bBuffer') = b + 1 /\ bBuffer'[b + 1] = x /\ \A i \in 1..b : bBuffer'[i] = bBuffer[i]
    BY <1>2, <2>1, <2>3
  <2>5. /\ \A i \in 1..a : bAccepted[i] <= bMade /\ bAccepted[i] < x /\ bAccepted[i] \in Nat
        /\ \A i, j \in 1..a : i < j => bAccepted[i] < bAccepted[j]
        /\ \A i \in 1..b : bBuffer[i] = bAccepted[Taken + i]
    BY <1>1, <1>2, <2>1 DEF Numbered, ListIsLast
  <2>6. Taken = a - b /\ Taken' = Taken
    BY <2>2, <2>4 DEF Taken
  <2>7. /\ Seen' = Seen /\ Seen \in Seq(Nat) /\ Taken <= Len(Seen) /\ Len(Seen) <= a
        /\ \A i \in 1..Len(Seen) : Seen[i] = bAccepted[i]
        /\ Elements(bGot) = {bAccepted[i] : i \in 1..Len(Seen)}
    BY <1>1, <2>1 DEF SeenIsFirst, Seen
  <2> HIDE DEF x, a, b
  <2>8. \A i \in 1..(a + 1) : i \in 1..a \/ i = a + 1
    BY <2>2
  <2>9. Numbered(t)'
    <3>1. \A i \in 1..Len(bAccepted') : bAccepted'[i] <= bMade'
      <4>1. x <= bMade /\ bMade' = bMade
        BY <2>1, <2>2
      <4>2. \A i \in 1..(a + 1) : bAccepted'[i] <= bMade
        BY <2>4, <2>5, <2>8, <4>1
      <4> QED
        BY <2>4, <4>1, <4>2
    <3>2. ASSUME NEW i \in 1..(a + 1), NEW j \in 1..(a + 1), i < j PROVE bAccepted'[i] < bAccepted'[j]
      <4>1. i \in 1..a
        BY <2>2, <3>2
      <4>2. CASE j \in 1..a
        BY <2>4, <2>5, <3>2, <4>1, <4>2
      <4>3. CASE j = a + 1
        BY <2>4, <2>5, <4>1, <4>3
      <4> QED
        BY <2>8, <4>2, <4>3
    <3> QED
      BY <1>1, <2>1, <2>4, <3>1, <3>2 DEF Numbered
  <2>10. ListIsLast'
    <3>1. ASSUME NEW i \in 1..(b + 1) PROVE bBuffer'[i] = bAccepted'[Taken + i]
      <4>1. CASE i \in 1..b
        <5>1. Taken + i \in 1..a
          BY <2>2, <2>6, <4>1
        <5> QED
          BY <2>4, <2>5, <4>1, <5>1
      <4>2. CASE i = b + 1
        <5>1. Taken + i = a + 1
          BY <2>2, <2>6, <4>2
        <5> QED
          BY <2>4, <4>2, <5>1
      <4> QED
        BY <2>2, <4>1, <4>2
    <3> QED
      BY <2>2, <2>4, <2>6, <3>1 DEF ListIsLast
  <2>11. SeenIsFirst'
    <3>1. Len(Seen) \in Nat
      BY <2>7
    <3>2. \A i \in 1..Len(Seen) : bAccepted'[i] = bAccepted[i]
      BY <2>2, <2>4, <2>7, <3>1
    <3>3. {bAccepted'[i] : i \in 1..Len(Seen)} = {bAccepted[i] : i \in 1..Len(Seen)}
      BY <3>2
    <3>4. Len(Seen) <= a + 1
      BY <2>2, <2>7, <3>1
    <3> QED
      BY <2>1, <2>4, <2>6, <2>7, <3>2, <3>3, <3>4 DEF SeenIsFirst
  <2>12. Batching(t)'
    BY <1>1, <2>1 DEF Batching
  <2>13. B!R!Accept
    <3>1. x \in B!Items
      BY <1>2, <2>2 DEF B!Items
    <3>2. UNCHANGED <<B!FirstSeen, bInnerClosed>>
      BY <2>1 DEF B!FirstSeen, B!FirstTimes, B!Firsts, B!InTurn
    <3> QED
      BY <2>1, <3>1, <3>2 DEF B!R!Accept
  <2> QED
    BY <1>1, <2>9, <2>10, <2>11, <2>12, <2>13 DEF RelayInv, Mapped, B!R!RelayNext
<1>5. CASE B!CheckSize(t) \/ B!Close(t)
  <2>1. /\ bAt[t] = "size" \/ (bAt[t] = "idle" /\ ~bClosed)
        /\ UNCHANGED <<bBuffer, bClosed, bInnerClosed, bItem, bMade, bAccepted, bGot>>
        /\ bAt'[t] \in {"batch", "idle"}
        /\ bAt'[t] = "batch" => bPos'[t] = 1
    BY <1>2, <1>5 DEF B!CheckSize, B!Close, B!Goto
  <2>2. ListIsLast' /\ SeenIsFirst' /\ Numbered(t)'
    BY <1>1, <2>1 DEF ListIsLast, SeenIsFirst, Taken, Seen, Numbered
  <2>3. Taken' + 1 <= Len(Seen') + 1 /\ 1 <= Len(bBuffer') + 1
    <3>1. Len(bBuffer) \in Nat /\ Len(bAccepted) \in Nat /\ Len(Seen) \in Nat /\ Taken <= Len(Seen)
      BY <1>1, <1>2 DEF SeenIsFirst
    <3>2. Taken \in Int /\ Taken' = Taken /\ Seen' = Seen
      BY <2>1, <3>1 DEF Taken, Seen
    <3> QED
      BY <2>1, <3>1, <3>2
  <2>4. Batching(t)'
    BY <1>1, <2>1, <2>3 DEF Batching
  <2> QED
    BY <1>1, <2>1, <2>2, <2>4, NothingMoves DEF RelayInv
<1>6. CASE B!Batch(t)
  <2>1. bAt[t] = "batch" /\ UNCHANGED <<bBuffer, bClosed, bInnerClosed, bItem, bMade, bAccepted>>
    BY <1>6 DEF B!Batch
  <2>2. CASE bPos[t] <= Len(bBuffer) /\ bGot' = Append(bGot, bBuffer[bPos[t]])
             /\ bPos' = [bPos EXCEPT ![t] = @ + 1] /\ UNCHANGED bAt
    <3>1. /\ SeenIsFirst' /\ Batching(t)'
          /\ \/ Seen' = Seen
             \/ (Len(Seen) < Len(bAccepted) /\ Seen' = Append(Seen, bAccepted[Len(Seen) + 1]))
      BY <2>1, <2>2, HandOver
    <3>2. ListIsLast' /\ Numbered(t)'
      BY <1>1, <2>1, <2>2 DEF ListIsLast, Taken, Numbered
    <3>3. ~bInnerClosed
      BY <1>1, <2>1 DEF Batching
    <3>4. Mapped
      BY <2>1, <3>1, <3>3 DEF Mapped, B!R!RelayNext, B!R!Forward, B!R!relayVars, B!FirstSeen, Seen
    <3> QED
      BY <1>1, <3>1, <3>2, <3>4 DEF RelayInv
  <2>3. CASE /\ UNCHANGED <<bPos, bGot>>
             /\ bAt'[t] = "idle" \/ (bAt'[t] = "clear" /\ bPos[t] > Len(bBuffer))
    <3>1. ListIsLast' /\ SeenIsFirst' /\ Numbered(t)'
      BY <1>1, <2>1, <2>3 DEF ListIsLast, SeenIsFirst, Taken, Seen, Numbered
    <3>2. bAt'[t] = "clear" => Len(Seen') = Len(bAccepted')
      <4>1. Len(bBuffer) \in Nat /\ Len(bAccepted) \in Nat /\ Len(Seen) \in Nat /\ Len(Seen) <= Len(bAccepted)
        BY <1>1, <1>2 DEF SeenIsFirst
      <4>2. Taken = Len(bAccepted) - Len(bBuffer) /\ Taken + bPos[t] <= Len(Seen) + 1 /\ bPos[t] \in Nat
        BY <1>1, <1>2, <2>1 DEF Taken, Batching
      <4>3. Seen' = Seen
        BY <2>3 DEF Seen
      <4>4. bPos[t] > Len(bBuffer) => Len(Seen) = Len(bAccepted)
        BY <4>1, <4>2
      <4> QED
        BY <2>1, <2>3, <4>3, <4>4
    <3>3. Batching(t)'
      BY <1>1, <2>1, <2>3, <3>2 DEF Batching
    <3> QED
      BY <1>1, <2>1, <2>3, <3>1, <3>3, NothingMoves DEF RelayInv
  <2> QED
    BY <1>2, <1>6, <2>2, <2>3 DEF B!Batch, B!Goto
<1>7. CASE B!Clear(t)
  <2>1. /\ bAt[t] = "clear" /\ bBuffer' = <<>> /\ bAt'[t] \in {"idle", "close"}
        /\ UNCHANGED <<bClosed, bInnerClosed, bItem, bMade, bAccepted, bGot>>
    BY <1>2, <1>7 DEF B!Clear, B!Goto
  <2>2. Len(bBuffer') = 0 /\ Taken' = Len(bAccepted) /\ Seen' = Seen /\ Len(Seen) = Len(bAccepted)
        /\ Len(bAccepted) \in Nat
    BY <1>1, <1>2, <2>1 DEF Taken, Seen, Batching
  <2>3. ListIsLast'
    BY <2>1, <2>2 DEF ListIsLast
  <2>4. SeenIsFirst'
    BY <1>1, <2>1, <2>2 DEF SeenIsFirst
  <2>5. Numbered(t)'
    BY <1>1, <2>1 DEF Numbered
  <2>6. Batching(t)'
    BY <1>1, <2>1 DEF Batching
  <2> QED
    BY <1>1, <2>1, <2>3, <2>4, <2>5, <2>6, NothingMoves DEF RelayInv
<1>8. CASE B!CloseInner(t) \/ B!SetClosed(t)
  <2>1. UNCHANGED <<bBuffer, bItem, bPos, bMade, bAccepted, bGot>>
    BY <1>8 DEF B!CloseInner, B!SetClosed
  <2>2. ListIsLast' /\ SeenIsFirst'
    BY <1>1, <2>1 DEF ListIsLast, SeenIsFirst, Taken, Seen
  <2>3. /\ bAt[t] \in {"close", "flag"} /\ bAt'[t] \in {"flag", "idle"}
        /\ bInnerClosed' => bAt'[t] = "flag" \/ bClosed'
        /\ bClosed' => bAt'[t] = "idle"
        /\ bInnerClosed' # bInnerClosed => ~bInnerClosed /\ bInnerClosed' = TRUE
    <3>1. CASE B!CloseInner(t)
      BY <1>1, <1>2, <3>1 DEF B!CloseInner, B!Goto, Batching
    <3>2. CASE B!SetClosed(t)
      BY <1>1, <1>2, <3>2 DEF B!SetClosed, B!Goto, Batching
    <3> QED
      BY <1>8, <3>1, <3>2
  <2>4. Numbered(t)' /\ Batching(t)'
    BY <1>1, <2>1, <2>3 DEF Numbered, Batching
  <2>5. Mapped
    <3>1. CASE UNCHANGED bInnerClosed
      BY <2>1, <3>1, NothingMoves
    <3>2. CASE ~bInnerClosed /\ bInnerClosed' = TRUE
      <4>1. UNCHANGED B!FirstSeen
        BY <2>1 DEF B!FirstSeen, B!FirstTimes, B!Firsts, B!InTurn
      <4> QED
        BY <2>1, <3>2, <4>1 DEF Mapped, B!R!RelayNext, B!R!End
    <3> QED
      BY <2>3, <3>1, <3>2
  <2> QED
    BY <1>1, <2>2, <2>4, <2>5 DEF RelayInv
<1> QED
  BY <1>3, <1>4, <1>5, <1>6, <1>7, <1>8 DEF B!ThreadStep

\* Used by one thread, BufferedPublisher is a relay, but for the items that are
\* sent again after a failure: the wrapped publisher sees each item for the
\* first time in the order of publish(), and none after its close().
THEOREM BufferImplementsRelay ==
  ASSUME NEW t, Buffering = {t}
  PROVE  B!Spec => BufferedIsRelay
<1>1. B!Init => RelayInv(t) /\ B!R!RelayInit
  <2> SUFFICES ASSUME B!Init PROVE RelayInv(t) /\ B!R!RelayInit
    OBVIOUS
  <2>1. /\ bBuffer = <<>> /\ bAccepted = <<>> /\ bGot = <<>> /\ ~bInnerClosed /\ ~bClosed
        /\ bAt[t] = "idle" /\ bMade = 0
    BY DEF B!Init
  <2>2. BufferedInv(t)
    BY DEF B!Init, BufferedInv, Places, Elements
  <2>3. B!FirstTimes(<<>>) = <<>>
    <3>1. B!Firsts(<<>>) = {}
      BY DEF B!Firsts
    <3>2. Cardinality({}) = 0
      BY FS_EmptySet
    <3> QED
      BY <3>1, <3>2, FirstTimesIs
  <2>4. Seen = <<>> /\ Taken = 0 /\ Len(bAccepted) = 0 /\ Len(bBuffer) = 0 /\ Elements(bGot) = {}
    BY <2>1, <2>3 DEF Seen, Taken, Elements
  <2>5. Numbered(t) /\ ListIsLast /\ Batching(t)
    BY <2>1, <2>4, QueueAssumption DEF Numbered, ListIsLast, Batching, QueueAssumption
  <2>6. SeenIsFirst
    BY <2>4 DEF SeenIsFirst
  <2> QED
    BY <2>1, <2>2, <2>3, <2>5, <2>6 DEF RelayInv, B!R!RelayInit, B!FirstSeen
<1>2. RelayInv(t) /\ [B!Next]_(B!vars) => RelayInv(t)' /\ [B!R!RelayNext]_(B!R!relayVars)
  <2>1. ASSUME RelayInv(t), UNCHANGED B!vars PROVE RelayInv(t)' /\ Mapped
    <3>1. UNCHANGED <<bBuffer, bClosed, bInnerClosed, bAt, bItem, bPos, bMade, bAccepted, bGot>>
      BY <2>1 DEF B!vars
    <3> QED
      BY <2>1, <3>1, NothingMoves DEF RelayInv, BufferedInv, Numbered, ListIsLast, SeenIsFirst, Batching, Taken, Seen
  <2> QED
    BY <2>1, RelayStep, QueueAssumption DEF B!Next, Mapped
<1> QED
  BY <1>1, <1>2, PTL DEF B!Spec, BufferedIsRelay, B!ImplementsRelay, B!R!RelaySpec

-----------------------------------------------------------------------------
(* SharedPublisher: the invariant *)

\* The constants of a run.
SharedConstants ==
  IsFiniteSet(Threads) /\ IsFiniteSet(Handles) /\ First \in Handles /\ NoOne \notin Threads

SharedTypes ==
  /\ sState \in [Handles -> {"unborn", "open", "none"}]
  /\ sGarbage \subseteq Handles
  /\ sHandleLock \in [Handles -> Threads \cup {NoOne}]
  /\ sCount \in Nat /\ sCalls \in [Threads -> Seq(S!Call)]

\* A call past "enter" is alone with its handle, and from its test of _state on
\* the handle stays open; a handle that was let go is in no call but its own
\* __del__.
CallInv(t, f) ==
  /\ f.h \in sFinalized \/ f.h \notin sGarbage
  /\ f.at # "enter" => sHandleLock[f.h] = t
  /\ f.at \in {"block", "inside", "made", "done"} => sState[f.h] = "open"

StacksInv ==
  \A t \in Threads : /\ Tidy(sCalls[t]) /\ Nested(sCalls[t])
                     /\ \A f \in AllOf(sCalls[t]) : CallInv(t, f)

\* Handles with a call at a place, handles that are open, that do not exist,
\* and threads that have yet to make one.
Called(where) == {h \in Handles : \E t \in Threads : \E f \in AllOf(sCalls[t]) : f.h = h /\ f.at = where}
Opened == {h \in Handles : sState[h] = "open"}
Unborn == {h \in Handles : sState[h] = "unborn"}
Cloners == {t \in Threads : Clones(sCalls[t])}

CountInv ==
  /\ sCount + Cardinality(Called("done")) = Cardinality(Opened) + Cardinality(Called("made"))
  /\ sCloses = IF sCount = 0 THEN 1 ELSE 0

EnoughUnborn == Cardinality(Cloners) <= Cardinality(Unborn)

SharedInv == SharedTypes /\ StacksInv /\ CountInv /\ EnoughUnborn

\* The sets the invariant counts are finite.
LEMMA SharedFinite ==
  ASSUME SharedConstants
  PROVE  /\ \A where : IsFiniteSet(Called(where)) /\ Cardinality(Called(where)) \in Nat
         /\ IsFiniteSet(Opened) /\ Cardinality(Opened) \in Nat
         /\ IsFiniteSet(Unborn) /\ Cardinality(Unborn) \in Nat
         /\ IsFiniteSet(Cloners) /\ Cardinality(Cloners) \in Nat
<1>1. Opened \in SUBSET Handles /\ Unborn \in SUBSET Handles /\ Cloners \in SUBSET Threads
  BY DEF Opened, Unborn, Cloners
<1>2. \A where : Called(where) \in SUBSET Handles
  BY DEF Called
<1>3. \A T \in SUBSET Handles : IsFiniteSet(T) /\ Cardinality(T) \in Nat
  BY FS_Subset, FS_CardinalityType DEF SharedConstants
<1>4. \A T \in SUBSET Threads : IsFiniteSet(T) /\ Cardinality(T) \in Nat
  BY FS_Subset, FS_CardinalityType DEF SharedConstants
<1> QED
  BY <1>1, <1>2, <1>3, <1>4

\* Past "enter" no other call, of any thread, is with the same handle.
LEMMA AloneWithHandle ==
  ASSUME SharedConstants, SharedTypes, StacksInv,
         NEW t \in Threads, sCalls[t] # <<>>, NEW f, f = sCalls[t][1], f.at # "enter",
         NEW u \in Threads, NEW g \in AllOf(sCalls[u]), g.at # "enter", g.h = f.h
  PROVE  u = t /\ g = f
<1>1. sCalls[t] \in Seq(S!Call)
  BY DEF SharedTypes
<1>2. AllOf(sCalls[t]) = {f} \cup Below(sCalls[t]) /\ (Tidy(sCalls[t]) => \A k \in Below(sCalls[t]) : k.h # f.h)
  BY <1>1, StackFacts
<1>3. sHandleLock[f.h] = t /\ sHandleLock[g.h] = u /\ Tidy(sCalls[t])
  BY <1>2 DEF StacksInv, CallInv
<1> QED
  BY <1>2, <1>3

\* Which handles are at a place when the call in progress of t moves to another.
LEMMA CalledMoves ==
  ASSUME SharedConstants, SharedTypes, StacksInv,
         NEW t \in Threads, sCalls[t] # <<>>, NEW f, f = sCalls[t][1],
         NEW e \in S!Call, e.h = f.h, e.op = f.op, e.at # f.at, e.at # "enter",
         sCalls' = [sCalls EXCEPT ![t] = [sCalls[t] EXCEPT ![1] = e]]
  PROVE  /\ sCalls' \in [Threads -> Seq(S!Call)]
         /\ \A u \in Threads : Tidy(sCalls'[u]) /\ Nested(sCalls'[u])
         /\ \A u \in Threads : \A g \in AllOf(sCalls'[u]) :
              \/ u = t /\ g = e
              \/ g \in AllOf(sCalls[u]) /\ (u = t => g.h # f.h)
         /\ f \in AllOf(sCalls[t])
         /\ \A where : where \notin {f.at, e.at} => Called(where)' = Called(where)
         /\ Called(e.at)' = Called(e.at) \cup {f.h}
         /\ f.at # "enter" => /\ Called(f.at)' = Called(f.at) \ {f.h} /\ f.h \in Called(f.at)
                              /\ f.h \notin Called(e.at)
         /\ f.at # "leave" => Cloners' \subseteq Cloners
         /\ f.op = "clone" /\ f.at # "leave" => t \in Cloners
         /\ f.op = "clone" /\ e.at = "leave" => t \notin Cloners'
<1> DEFINE s == sCalls[t]
           w == [s EXCEPT ![1] = e]
<1>1. s \in Seq(S!Call) /\ Tidy(s) /\ Nested(s)
  BY DEF SharedTypes, StacksInv
<1>2. /\ AllOf(s) = {f} \cup Below(s) /\ f \in S!Call
      /\ \A g \in Below(s) : g.h # f.h
  BY <1>1, StackFacts
<1>3. /\ w \in Seq(S!Call) /\ w # <<>> /\ AllOf(w) = {e} \cup Below(s) /\ Tidy(w) /\ Nested(w)
      /\ Clones(w) => Clones(s) \/ f.at = "leave"
      /\ f.op = "clone" => (Clones(w) <=> e.at # "leave") /\ (Clones(s) <=> f.at # "leave")
  BY <1>1, StackMoved
<1>4. sCalls' \in [Threads -> Seq(S!Call)] /\ sCalls'[t] = w /\ \A u \in Threads \ {t} : sCalls'[u] = sCalls[u]
  BY <1>3 DEF SharedTypes
<1> HIDE DEF w, s
<1>5. \A u \in Threads : Tidy(sCalls'[u]) /\ Nested(sCalls'[u])
  BY <1>3, <1>4 DEF StacksInv
<1>6. \A u \in Threads : \A g \in AllOf(sCalls'[u]) :
        \/ u = t /\ g = e
        \/ g \in AllOf(sCalls[u]) /\ (u = t => g.h # f.h)
  BY <1>2, <1>3, <1>4 DEF s
<1>7. f.h \in Handles
  BY <1>2 DEF S!Call
<1>8. \A where, h : h \in Called(where)' <=>
        h \in Handles /\ \E u \in Threads : \E g \in AllOf(sCalls'[u]) : g.h = h /\ g.at = where
  BY DEF Called
<1>9. \A where, h : h \in Called(where) <=>
        h \in Handles /\ \E u \in Threads : \E g \in AllOf(sCalls[u]) : g.h = h /\ g.at = where
  BY DEF Called
<1>10. ASSUME NEW where, where # f.at, where # e.at PROVE Called(where)' = Called(where)
  <2>1. ASSUME NEW h \in Called(where)' PROVE h \in Called(where)
    BY <1>6, <1>8, <1>9, <1>10, <2>1
  <2>2. ASSUME NEW h \in Called(where) PROVE h \in Called(where)'
    <3>1. PICK u, g : u \in Threads /\ g \in AllOf(sCalls[u]) /\ g.h = h /\ g.at = where
      BY <1>9, <2>2
    <3>2. g \in AllOf(sCalls'[u])
      BY <1>2, <1>3, <1>4, <1>10, <3>1 DEF s
    <3> QED
      BY <1>8, <1>9, <2>2, <3>1, <3>2
  <2> QED
    BY <2>1, <2>2
<1>11. Called(e.at)' = Called(e.at) \cup {f.h}
  <2>1. ASSUME NEW h \in Called(e.at)' PROVE h \in Called(e.at) \cup {f.h}
    BY <1>6, <1>8, <1>9, <2>1
  <2>2. ASSUME NEW h \in Called(e.at) PROVE h \in Called(e.at)'
    <3>1. PICK u, g : u \in Threads /\ g \in AllOf(sCalls[u]) /\ g.h = h /\ g.at = e.at
      BY <1>9, <2>2
    <3>2. g \in AllOf(sCalls'[u])
      BY <1>2, <1>3, <1>4, <3>1 DEF s
    <3> QED
      BY <1>8, <1>9, <2>2, <3>1, <3>2
  <2>3. f.h \in Called(e.at)'
    BY <1>3, <1>4, <1>7, <1>8
  <2> QED
    BY <2>1, <2>2, <2>3
<1>12. ASSUME f.at # "enter"
       PROVE  /\ Called(f.at)' = Called(f.at) \ {f.h} /\ f.h \in Called(f.at)
              /\ f.h \notin Called(e.at)
  <2>1. \A u \in Threads : \A g \in AllOf(sCalls[u]) : g.at # "enter" /\ g.h = f.h => u = t /\ g = f
    BY <1>12, AloneWithHandle
  <2>2. f.h \in Called(f.at)
    BY <1>2, <1>7, <1>9 DEF s
  <2>3. f.h \notin Called(e.at)
    BY <1>9, <2>1
  <2>4. f.h \notin Called(f.at)'
    BY <1>6, <1>8, <1>12, <2>1
  <2>5. ASSUME NEW h \in Called(f.at)' PROVE h \in Called(f.at)
    BY <1>6, <1>8, <1>9, <2>5
  <2>6. ASSUME NEW h \in Called(f.at), h # f.h PROVE h \in Called(f.at)'
    <3>1. PICK u, g : u \in Threads /\ g \in AllOf(sCalls[u]) /\ g.h = h /\ g.at = f.at
      BY <1>9, <2>6
    <3>2. g \in AllOf(sCalls'[u])
      BY <1>2, <1>3, <1>4, <2>6, <3>1 DEF s
    <3> QED
      BY <1>8, <1>9, <2>6, <3>1, <3>2
  <2> QED
    BY <2>2, <2>3, <2>4, <2>5, <2>6
<1>13. /\ \A u : u \in Cloners <=> u \in Threads /\ Clones(sCalls[u])
       /\ \A u : u \in Cloners' <=> u \in Threads /\ Clones(sCalls'[u])
  BY DEF Cloners
<1>14. /\ f.at # "leave" => Cloners' \subseteq Cloners
       /\ f.op = "clone" /\ f.at # "leave" => t \in Cloners
       /\ f.op = "clone" /\ e.at = "leave" => t \notin Cloners'
  BY <1>3, <1>4, <1>13 DEF s
<1>15. f \in AllOf(sCalls[t])
  BY <1>2 DEF s
<1> QED
  BY <1>4, <1>5, <1>6, <1>10, <1>11, <1>12, <1>14, <1>15

Goals == {"check", "block", "inside", "made", "done", "leave"}

\* The same for the steps of the module.
LEMMA GoesTo ==
  ASSUME SharedConstants, SharedTypes, StacksInv,
         NEW t \in Threads, S!Running(t), NEW f, f = S!Top(t),
         NEW goal \in Goals, f.at # goal, S!Goto(t, goal)
  PROVE  /\ sCalls' \in [Threads -> Seq(S!Call)] /\ f.h \in Handles
         /\ \A u \in Threads : Tidy(sCalls'[u]) /\ Nested(sCalls'[u])
         /\ \A u \in Threads : \A g \in AllOf(sCalls'[u]) :
              \/ u = t /\ g.h = f.h /\ g.at = goal
              \/ g \in AllOf(sCalls[u]) /\ (u = t => g.h # f.h)
         /\ f \in AllOf(sCalls[t])
         /\ \A where : where \notin {f.at, goal} => Called(where)' = Called(where)
         /\ Called(goal)' = Called(goal) \cup {f.h}
         /\ f.at # "enter" => /\ Called(f.at)' = Called(f.at) \ {f.h} /\ f.h \in Called(f.at)
                              /\ f.h \notin Called(goal)
         /\ f.at # "leave" => Cloners' \subseteq Cloners
         /\ f.op = "clone" /\ f.at # "leave" => t \in Cloners
         /\ f.op = "clone" /\ goal = "leave" => t \notin Cloners'
<1>1. sCalls[t] \in Seq(S!Call) /\ sCalls[t] # <<>>
  BY DEF SharedTypes, S!Running
<1>2. f = sCalls[t][1] /\ f \in S!Call
  BY <1>1 DEF S!Top
<1>3. PICK e : e = [f EXCEPT !.at = goal]
  OBVIOUS
<1>4. e \in S!Call /\ e.h = f.h /\ e.op = f.op /\ e.at = goal /\ f.h \in Handles
  BY <1>2, <1>3 DEF S!Call, Goals
<1>5. sCalls' = [sCalls EXCEPT ![t] = [sCalls[t] EXCEPT ![1] = e]]
  BY <1>2, <1>3 DEF S!Goto
<1>6. goal # "enter"
  BY DEF Goals
<1>7. /\ sCalls' \in [Threads -> Seq(S!Call)]
      /\ \A u \in Threads : Tidy(sCalls'[u]) /\ Nested(sCalls'[u])
      /\ \A u \in Threads : \A g \in AllOf(sCalls'[u]) :
           \/ u = t /\ g = e
           \/ g \in AllOf(sCalls[u]) /\ (u = t => g.h # f.h)
      /\ f \in AllOf(sCalls[t])
      /\ \A where : where \notin {f.at, e.at} => Called(where)' = Called(where)
      /\ Called(e.at)' = Called(e.at) \cup {f.h}
      /\ f.at # "enter" => /\ Called(f.at)' = Called(f.at) \ {f.h} /\ f.h \in Called(f.at)
                           /\ f.h \notin Called(e.at)
      /\ f.at # "leave" => Cloners' \subseteq Cloners
      /\ f.op = "clone" /\ f.at # "leave" => t \in Cloners
      /\ f.op = "clone" /\ e.at = "leave" => t \notin Cloners'
  <2>1. e.at # f.at /\ e.at # "enter"
    BY <1>4, <1>6
  <2>2. SharedConstants /\ SharedTypes /\ StacksInv
    OBVIOUS
  <2> HIDE DEF S!Running, S!Top, S!Goto
  <2> QED
    BY <1>1, <1>2, <1>4, <1>5, <2>1, <2>2, CalledMoves
<1> QED
  BY <1>4, <1>7

\* Whoever waits for the handle of the call that goes on is still waiting.
LEMMA StacksKept ==
  ASSUME SharedConstants, SharedTypes, StacksInv,
         NEW t \in Threads, S!Running(t), NEW f, f = S!Top(t),
         NEW goal \in Goals, f.at # goal, S!Goto(t, goal),
         f.at # "enter" \/ sHandleLock[f.h] = NoOne,
         sHandleLock'[f.h] = t, goal # "leave" /\ goal # "check" => sState'[f.h] = "open",
         \A h \in Handles \ {f.h} : /\ sHandleLock'[h] = sHandleLock[h]
                                    /\ sState[h] = "open" => sState'[h] = "open",
         UNCHANGED <<sFinalized, sGarbage>>
  PROVE  StacksInv'
<1>1. /\ f \in AllOf(sCalls[t]) /\ f.h \in Handles
      /\ \A u \in Threads : Tidy(sCalls'[u]) /\ Nested(sCalls'[u])
      /\ \A u \in Threads : \A g \in AllOf(sCalls'[u]) :
           \/ u = t /\ g.h = f.h /\ g.at = goal
           \/ g \in AllOf(sCalls[u]) /\ (u = t => g.h # f.h)
  BY GoesTo
<1>2. CallInv(t, f)
  BY <1>1 DEF StacksInv
<1>3. \A u \in Threads : sCalls[u] \in Seq(S!Call)
  BY DEF SharedTypes
<1>4. sCalls[t] # <<>> /\ f = sCalls[t][1]
  BY <1>3 DEF S!Running, S!Top
<1>5. ASSUME NEW u \in Threads, NEW g \in AllOf(sCalls'[u]) PROVE CallInv(u, g)'
  <2>1. CASE u = t /\ g.h = f.h /\ g.at = goal
    BY <1>2, <2>1 DEF CallInv, Goals
  <2>2. CASE g \in AllOf(sCalls[u]) /\ (u = t => g.h # f.h)
    <3>1. CallInv(u, g)
      BY <2>2 DEF StacksInv
    <3>2. g.h \in Handles
      <4>1. sCalls[u] # <<>>
        <5>1. sCalls[u] = <<>> => AllOf(sCalls[u]) = {}
          BY DEF AllOf
        <5> QED
          BY <2>2, <5>1
      <4>2. g \in S!Call
        BY <1>3, <2>2, <4>1, StackFacts
      <4> QED
        BY <4>2 DEF S!Call
    <3>3. CASE g.h # f.h
      BY <3>1, <3>2, <3>3 DEF CallInv
    <3>4. CASE g.h = f.h /\ g.at # "enter"
      <4>1. u # t
        BY <2>2, <3>4
      <4>2. sHandleLock[f.h] = u
        BY <3>1, <3>4 DEF CallInv
      <4>3. f.at # "enter"
        BY <4>2 DEF SharedConstants
      <4>4. sHandleLock[f.h] = t
        BY <1>2, <4>3 DEF CallInv
      <4> QED
        BY <4>1, <4>2, <4>4
    <3>5. CASE g.h = f.h /\ g.at = "enter"
      BY <3>1, <3>5 DEF CallInv
    <3> QED
      BY <3>3, <3>4, <3>5
  <2> QED
    BY <1>1, <2>1, <2>2
<1> QED
  BY <1>1, <1>5 DEF StacksInv

\* Whoever is in the control block has its own open handle counted.
LEMMA InsideCounts ==
  ASSUME SharedConstants, SharedInv, NEW t \in Threads, S!Running(t), S!Top(t).at = "inside"
  PROVE  sCount > 0
<1> DEFINE f == S!Top(t)
<1>1. /\ sCalls[t] \in Seq(S!Call) /\ sCalls[t] # <<>> /\ f = sCalls[t][1]
      /\ SharedTypes /\ StacksInv
  BY DEF SharedInv, SharedTypes, S!Running, S!Top
<1>2. f \in AllOf(sCalls[t]) /\ f \in S!Call
  BY <1>1, StackFacts
<1>3. f.h \in Handles /\ f.h \in Opened
  BY <1>1, <1>2 DEF S!Call, StacksInv, CallInv, Opened
<1>4. Called("done") \subseteq Opened
  BY <1>1 DEF Called, Opened, StacksInv, CallInv
<1>5. f.h \notin Called("done")
  BY <1>1, AloneWithHandle DEF Called
<1>6. Cardinality(Called("done")) <= Cardinality(Opened \ {f.h}) /\ Cardinality(Opened \ {f.h}) = Cardinality(Opened) - 1
  <2>1. IsFiniteSet(Opened)
    BY SharedFinite
  <2>2. IsFiniteSet(Opened \ {f.h}) /\ Cardinality(Opened \ {f.h}) = Cardinality(Opened) - 1
    BY <1>3, <2>1, FS_RemoveElement
  <2>3. Called("done") \in SUBSET (Opened \ {f.h})
    BY <1>4, <1>5
  <2> QED
    BY <2>2, <2>3, FS_Subset
<1>7. /\ Cardinality(Called("done")) \in Nat /\ Cardinality(Opened) \in Nat /\ Cardinality(Called("made")) \in Nat
      /\ sCount \in Nat
  BY <1>1, SharedFinite DEF SharedTypes
<1> QED
  BY <1>6, <1>7 DEF SharedInv, CountInv

\* With no more threads that clone, the handles still suffice.
LEMMA EnoughKept ==
  ASSUME SharedConstants, EnoughUnborn, Cloners' \subseteq Cloners, Unborn' = Unborn
  PROVE  EnoughUnborn'
<1>1. /\ IsFiniteSet(Cloners) /\ Cardinality(Cloners) \in Nat /\ Cardinality(Unborn) \in Nat
      /\ Cloners' \in SUBSET Cloners
  BY SharedFinite
<1>2. Cardinality(Cloners') <= Cardinality(Cloners) /\ Cardinality(Cloners') \in Nat
  BY <1>1, FS_Subset, FS_CardinalityType
<1> QED
  BY <1>1, <1>2 DEF EnoughUnborn

\* The count after a step, from what becomes of the sets.
LEMMA CountMoves ==
  ASSUME SharedConstants, CountInv, sCount \in Nat, sCount' \in Nat,
         NEW x \in Int, NEW y \in Int, NEW z \in Int,
         Cardinality(Called("done")') = Cardinality(Called("done")) + x,
         Cardinality(Opened') = Cardinality(Opened) + y,
         Cardinality(Called("made")') = Cardinality(Called("made")) + z,
         sCount' + x = sCount + y + z,
         sCloses' = IF sCount' = 0 THEN 1 ELSE 0
  PROVE  CountInv'
<1>1. /\ Cardinality(Called("done")) \in Nat /\ Cardinality(Opened) \in Nat /\ Cardinality(Called("made")) \in Nat
      /\ sCount + Cardinality(Called("done")) = Cardinality(Opened) + Cardinality(Called("made"))
  BY SharedFinite DEF CountInv
<1>2. PICK d \in Nat, o \in Nat, m \in Nat :
        d = Cardinality(Called("done")) /\ o = Cardinality(Opened) /\ m = Cardinality(Called("made"))
  BY <1>1
<1>3. sCount + d = o + m /\ sCount' + (d + x) = (o + y) + (m + z)
  <2>1. sCount + d = o + m
    BY <1>1, <1>2
  <2>2. ASSUME NEW c \in Nat, NEW n \in Nat, c + d = o + m, n + x = c + y + z
        PROVE  n + (d + x) = (o + y) + (m + z)
    BY <2>2, SMT
  <2> QED
    BY <2>1, <2>2
<1>4. /\ Cardinality(Called("done")') = d + x /\ Cardinality(Opened') = o + y
      /\ Cardinality(Called("made")') = m + z
  BY <1>2
<1>5. sCount' + Cardinality(Called("done")') = Cardinality(Opened') + Cardinality(Called("made")')
  BY <1>3, <1>4
<1> QED
  BY <1>5 DEF CountInv

LEMMA NothingMore ==
  ASSUME SharedConstants
  PROVE  /\ Cardinality(Called("done")) + 0 = Cardinality(Called("done"))
         /\ Cardinality(Opened) + 0 = Cardinality(Opened)
         /\ Cardinality(Called("made")) + 0 = Cardinality(Called("made"))
<1>1. \A n \in Nat : n + 0 = n
  OBVIOUS
<1> QED
  BY <1>1, SharedFinite, Zenon

LEMMA OneMore ==
  ASSUME NEW A, IsFiniteSet(A), NEW x, x \notin A, NEW B0, B0 = A \cup {x}
  PROVE  Cardinality(B0) = Cardinality(A) + 1
BY FS_AddElement

LEMMA OneLess ==
  ASSUME NEW A, IsFiniteSet(A), NEW x \in A
  PROVE  Cardinality(A \ {x}) = Cardinality(A) + (-1) /\ Cardinality(A) \in Nat \ {0}
<1>1. Cardinality(A \ {x}) = Cardinality(A) - 1 /\ Cardinality(A) \in Nat /\ Cardinality(A \ {x}) \in Nat
  BY FS_RemoveElement, FS_CardinalityType
<1> QED
  BY <1>1

\* A call moves on and neither the count nor a handle's state changes.
LEMMA QuietStep ==
  ASSUME SharedConstants, SharedInv, NEW t \in Threads, S!Running(t), NEW f, f = S!Top(t),
         NEW goal \in {"check", "block", "inside", "leave"}, f.at \in {"enter", "check", "block", "inside"},
         f.at # goal, S!Goto(t, goal),
         f.at # "enter" \/ sHandleLock[f.h] = NoOne,
         sHandleLock' \in [Handles -> Threads \cup {NoOne}], sHandleLock'[f.h] = t,
         \A h \in Handles \ {f.h} : sHandleLock'[h] = sHandleLock[h],
         goal # "leave" /\ goal # "check" => sState[f.h] = "open",
         UNCHANGED <<sState, sFinalized, sGarbage, sCount, sCloses>>
  PROVE  SharedInv'
<1>1. SharedTypes /\ StacksInv /\ CountInv /\ EnoughUnborn /\ goal \in Goals
  BY DEF SharedInv, Goals
<1>2. /\ sCalls' \in [Threads -> Seq(S!Call)]
      /\ \A where : where \notin {f.at, goal} => Called(where)' = Called(where)
      /\ f.at # "leave" => Cloners' \subseteq Cloners
  BY <1>1, GoesTo
<1>3. Called("done")' = Called("done") /\ Called("made")' = Called("made") /\ Cloners' \subseteq Cloners
  BY <1>2
<1>4. StacksInv'
  BY <1>1, StacksKept
<1>5. SharedTypes'
  BY <1>1, <1>2 DEF SharedTypes
<1>6. Opened' = Opened /\ Unborn' = Unborn
  BY DEF Opened, Unborn
<1>7. CountInv'
  BY <1>1, <1>3, <1>6 DEF CountInv
<1>8. EnoughUnborn'
  BY <1>1, <1>3, <1>6, EnoughKept
<1> QED
  BY <1>4, <1>5, <1>7, <1>8 DEF SharedInv

\* What is known of the call in progress when it is past "enter".
LEMMA InProgress ==
  ASSUME SharedConstants, SharedInv, NEW t \in Threads, S!Running(t), NEW f, f = S!Top(t)
  PROVE  /\ SharedTypes /\ StacksInv /\ CountInv /\ EnoughUnborn
         /\ sCalls[t] \in Seq(S!Call) /\ sCalls[t] # <<>> /\ f = sCalls[t][1]
         /\ f \in S!Call /\ f \in AllOf(sCalls[t]) /\ f.h \in Handles /\ CallInv(t, f)
<1>1. SharedTypes /\ StacksInv /\ CountInv /\ EnoughUnborn
  BY DEF SharedInv
<1>2. sCalls[t] \in Seq(S!Call) /\ sCalls[t] # <<>> /\ f = sCalls[t][1]
  BY <1>1 DEF SharedTypes, S!Running, S!Top
<1>3. f \in S!Call /\ f \in AllOf(sCalls[t])
  BY <1>2, StackFacts
<1>4. f.h \in Handles /\ CallInv(t, f)
  BY <1>1, <1>3 DEF S!Call, StacksInv
<1> QED
  BY <1>1, <1>2, <1>3, <1>4

LEMMA EnterStep ==
  ASSUME SharedConstants, SharedInv, NEW t \in Threads, S!Enter(t)
  PROVE  SharedInv'
<1>1. PICK f : f = S!Top(t)
  OBVIOUS
<1>2. /\ S!Running(t) /\ f.at = "enter" /\ S!Goto(t, "check") /\ sHandleLock[f.h] = NoOne
      /\ sHandleLock' = [sHandleLock EXCEPT ![f.h] = t]
      /\ UNCHANGED <<sState, sFinalized, sGarbage, sCount, sCloses>>
  BY <1>1 DEF S!Enter, S!At
<1>3. f.h \in Handles /\ SharedTypes
  BY <1>1, <1>2, InProgress
<1>4. /\ sHandleLock' \in [Handles -> Threads \cup {NoOne}] /\ sHandleLock'[f.h] = t
      /\ \A h \in Handles \ {f.h} : sHandleLock'[h] = sHandleLock[h]
  BY <1>2, <1>3 DEF SharedTypes
<1> QED
  BY <1>1, <1>2, <1>4, QuietStep

\* The steps that change no handle's lock.
LEMMA QuietStepInLock ==
  ASSUME SharedConstants, SharedInv, NEW t \in Threads, S!Running(t), NEW f, f = S!Top(t),
         NEW goal \in {"block", "inside", "leave"}, f.at \in {"check", "block", "inside"},
         f.at # goal, S!Goto(t, goal), goal # "leave" => sState[f.h] = "open",
         UNCHANGED <<sState, sFinalized, sGarbage, sCount, sCloses, sHandleLock>>
  PROVE  SharedInv'
<1>1. SharedTypes /\ CallInv(t, f)
  BY InProgress
<1>2. sHandleLock' \in [Handles -> Threads \cup {NoOne}] /\ sHandleLock'[f.h] = t
  BY <1>1 DEF SharedTypes, CallInv
<1> QED
  BY <1>2, QuietStep

LEMMA CheckStep ==
  ASSUME SharedConstants, SharedInv, NEW t \in Threads, S!Check(t)
  PROVE  SharedInv'
<1>1. PICK f : f = S!Top(t)
  OBVIOUS
<1>2. PICK goal : goal = IF sState[f.h] = "open" THEN "block" ELSE "leave"
  OBVIOUS
<1>3. /\ S!Running(t) /\ f.at = "check" /\ S!Goto(t, goal)
      /\ UNCHANGED <<sState, sFinalized, sGarbage, sCount, sCloses, sHandleLock>>
  BY <1>1, <1>2 DEF S!Check, S!At
<1>4. goal \in {"block", "inside", "leave"} /\ f.at # goal /\ (goal # "leave" => sState[f.h] = "open")
  BY <1>2, <1>3
<1> QED
  BY <1>1, <1>3, <1>4, QuietStepInLock

LEMMA TakeBlockStep ==
  ASSUME SharedConstants, SharedInv, NEW t \in Threads, S!TakeBlock(t)
  PROVE  SharedInv'
<1>1. PICK f : f = S!Top(t)
  OBVIOUS
<1>2. /\ S!Running(t) /\ f.at = "block" /\ S!Goto(t, "inside")
      /\ UNCHANGED <<sState, sFinalized, sGarbage, sCount, sCloses, sHandleLock>>
  BY <1>1 DEF S!TakeBlock, S!At
<1>3. sState[f.h] = "open"
  BY <1>1, <1>2, InProgress DEF CallInv
<1> QED
  BY <1>1, <1>2, <1>3, QuietStepInLock

LEMMA PublishInnerStep ==
  ASSUME SharedConstants, SharedInv, NEW t \in Threads, S!PublishInner(t)
  PROVE  SharedInv'
<1>1. PICK f : f = S!Top(t)
  OBVIOUS
<1>2. /\ S!Running(t) /\ f.at = "inside" /\ S!Goto(t, "leave")
      /\ UNCHANGED <<sState, sFinalized, sGarbage, sCount, sCloses, sHandleLock>>
  BY <1>1 DEF S!PublishInner, S!At
<1> QED
  BY <1>1, <1>2, QuietStepInLock

\* A handle that is open and in the lock of the thread stays so: the rest of
\* StacksInv when the call in progress moves on in the lock.
LEMMA StacksKeptInLock ==
  ASSUME SharedConstants, SharedInv, NEW t \in Threads, S!Running(t), NEW f, f = S!Top(t),
         NEW goal \in {"made", "done", "leave"}, f.at \in {"inside", "made", "done"}, f.at # goal, S!Goto(t, goal),
         goal # "leave" => sState'[f.h] = "open",
         \A h \in Handles \ {f.h} : sState[h] = "open" => sState'[h] = "open",
         UNCHANGED <<sFinalized, sGarbage, sHandleLock>>
  PROVE  StacksInv'
<1>1. /\ SharedTypes /\ StacksInv /\ goal \in Goals /\ f.at # "enter"
      /\ sHandleLock'[f.h] = t /\ \A h \in Handles \ {f.h} : sHandleLock'[h] = sHandleLock[h]
  BY InProgress DEF Goals, CallInv
<1> QED
  BY <1>1, StacksKept

LEMMA IncrementStep ==
  ASSUME SharedConstants, SharedInv, NEW t \in Threads, S!Increment(t)
  PROVE  SharedInv'
<1>1. PICK f : f = S!Top(t)
  OBVIOUS
<1>2. /\ S!Running(t) /\ f.at = "inside"
      /\ UNCHANGED <<sState, sFinalized, sGarbage, sCloses, sHandleLock>>
  BY <1>1 DEF S!Increment, S!At
<1>3. sCount > 0
  BY <1>1, <1>2, InsideCounts
<1>4. S!Goto(t, "made") /\ sCount' = sCount + 1
  BY <1>3 DEF S!Increment
<1>5. SharedTypes /\ StacksInv /\ CountInv /\ EnoughUnborn /\ sState'[f.h] = "open"
  BY <1>1, <1>2, InProgress DEF CallInv
<1>6. "made" \in Goals /\ f.at # "made"
  BY <1>2 DEF Goals
<1>7. /\ sCalls' \in [Threads -> Seq(S!Call)]
      /\ \A where : where \notin {f.at, "made"} => Called(where)' = Called(where)
      /\ Called("made")' = Called("made") \cup {f.h}
      /\ f.at # "enter" => f.h \notin Called("made")
      /\ f.at # "leave" => Cloners' \subseteq Cloners
  BY <1>1, <1>2, <1>4, <1>5, <1>6, GoesTo
<1>8. Called("done")' = Called("done") /\ f.h \notin Called("made") /\ Cloners' \subseteq Cloners
  BY <1>2, <1>7
<1>9. Opened' = Opened /\ Unborn' = Unborn
  BY <1>2 DEF Opened, Unborn
<1>10. Cardinality(Called("made") \cup {f.h}) = Cardinality(Called("made")) + 1
  <2>1. IsFiniteSet(Called("made")) /\ f.h \notin Called("made")
    BY <1>8, SharedFinite, Zenon
  <2> QED
    BY <2>1, OneMore, Zenon
<1>11. CountInv'
  <2>1. sCount \in Nat /\ sCount' \in Nat /\ sCount' = sCount + 1 /\ sCount' # 0 /\ sCloses' = 0
    BY <1>2, <1>3, <1>4, <1>5 DEF SharedTypes, CountInv
  <2>2. /\ Cardinality(Called("done")') = Cardinality(Called("done")) + 0
        /\ Cardinality(Opened') = Cardinality(Opened) + 0
        /\ Cardinality(Called("made")') = Cardinality(Called("made")) + 1
    <3>1. /\ Called("done")' = Called("done") /\ Opened' = Opened
          /\ Called("made")' = Called("made") \cup {f.h}
      BY <1>7, <1>8, <1>9
    <3> QED
      BY <1>10, <3>1, NothingMore, Zenon
  <2>3. sCount' + 0 = sCount + 0 + 1 /\ sCloses' = IF sCount' = 0 THEN 1 ELSE 0
    BY <2>1
  <2> QED
    BY <1>5, <2>1, <2>2, <2>3, CountMoves
<1>12. StacksInv'
  BY <1>1, <1>2, <1>4, <1>5, StacksKeptInLock
<1>13. SharedTypes'
  BY <1>2, <1>4, <1>5, <1>7 DEF SharedTypes
<1>14. EnoughUnborn'
  BY <1>5, <1>8, <1>9, EnoughKept
<1> QED
  BY <1>11, <1>12, <1>13, <1>14 DEF SharedInv

LEMMA FromStateStep ==
  ASSUME SharedConstants, SharedInv, NEW t \in Threads, S!FromState(t)
  PROVE  SharedInv'
<1>1. PICK f, x : f = S!Top(t) /\ x = CHOOSE y \in Handles : sState[y] = "unborn"
  OBVIOUS
<1>2. /\ S!Running(t) /\ f.op = "clone" /\ f.at = "made" /\ S!Goto(t, "leave")
      /\ sState' = [sState EXCEPT ![x] = "open"]
      /\ UNCHANGED <<sFinalized, sGarbage, sHandleLock, sCount, sCloses>>
  BY <1>1 DEF S!FromState, S!At
<1>3. SharedTypes /\ StacksInv /\ CountInv /\ EnoughUnborn /\ f.h \in Handles /\ sState[f.h] = "open"
  BY <1>1, <1>2, InProgress DEF CallInv
<1>4. "leave" \in Goals /\ f.at # "leave"
  BY <1>2 DEF Goals
<1>5. /\ sCalls' \in [Threads -> Seq(S!Call)]
      /\ \A where : where \notin {f.at, "leave"} => Called(where)' = Called(where)
      /\ f.at # "leave" => Cloners' \subseteq Cloners
      /\ f.op = "clone" /\ f.at # "leave" => t \in Cloners
      /\ f.op = "clone" /\ "leave" = "leave" => t \notin Cloners'
  BY <1>1, <1>2, <1>3, <1>4, GoesTo
<1>15. f.at # "enter" => Called(f.at)' = Called(f.at) \ {f.h} /\ f.h \in Called(f.at)
  BY <1>1, <1>2, <1>3, <1>4, GoesTo
<1>6. /\ Called("done")' = Called("done") /\ Called("made")' = Called("made") \ {f.h} /\ f.h \in Called("made")
      /\ t \in Cloners /\ Cloners' \subseteq Cloners \ {t}
  BY <1>2, <1>5, <1>15
<1>7. Cardinality(Cloners \ {t}) = Cardinality(Cloners) + (-1) /\ Cardinality(Cloners) \in Nat \ {0}
  BY <1>6, SharedFinite, OneLess
<1>8. \E y \in Handles : sState[y] = "unborn"
  <2>1. Unborn # {}
    <3>1. Cardinality(Unborn) \in Nat /\ Cardinality(Unborn) # 0
      BY <1>3, <1>7, SharedFinite DEF EnoughUnborn
    <3> QED
      BY <3>1, FS_EmptySet
  <2> QED
    BY <2>1 DEF Unborn
<1>9. x \in Handles /\ sState[x] = "unborn"
  BY <1>1, <1>8
<1>10. /\ Opened' = Opened \cup {x} /\ x \notin Opened
       /\ Unborn' = Unborn \ {x} /\ x \in Unborn
  BY <1>2, <1>3, <1>9 DEF Opened, Unborn, SharedTypes
<1>11. CountInv'
  <2>1. Cardinality(Opened') = Cardinality(Opened) + 1
    BY <1>10, SharedFinite, OneMore
  <2>2. Cardinality(Called("made")') = Cardinality(Called("made")) + (-1)
    BY <1>6, SharedFinite, OneLess
  <2>3. Cardinality(Called("done")') = Cardinality(Called("done")) + 0
    BY <1>6, NothingMore, Zenon
  <2>4. sCount \in Nat /\ sCount' \in Nat /\ sCount' + 0 = sCount + 1 + (-1) /\ sCloses' = IF sCount' = 0 THEN 1 ELSE 0
    BY <1>2, <1>3 DEF SharedTypes, CountInv
  <2>5. 1 \in Int /\ 0 \in Int /\ -1 \in Int
    OBVIOUS
  <2> QED
    BY <1>3, <2>1, <2>2, <2>3, <2>4, <2>5, CountMoves
<1>12. StacksInv'
  <2>1. \A h \in Handles \ {f.h} : sState[h] = "open" => sState'[h] = "open"
    BY <1>2, <1>3 DEF SharedTypes
  <2> QED
    BY <1>1, <1>2, <2>1, StacksKeptInLock
<1>13. SharedTypes'
  BY <1>2, <1>3, <1>5 DEF SharedTypes
<1>14. EnoughUnborn'
  <2>1. Cardinality(Unborn') = Cardinality(Unborn) + (-1) /\ Cardinality(Unborn) \in Nat \ {0}
    BY <1>10, SharedFinite, OneLess
  <2>2. Cardinality(Cloners') <= Cardinality(Cloners \ {t}) /\ Cardinality(Cloners') \in Nat
    <3>1. IsFiniteSet(Cloners \ {t}) /\ Cloners' \in SUBSET (Cloners \ {t})
      BY <1>6, SharedFinite, FS_RemoveElement
    <3> QED
      BY <3>1, FS_Subset, FS_CardinalityType
  <2>3. Cardinality(Cloners) <= Cardinality(Unborn)
    BY <1>3 DEF EnoughUnborn
  <2>4. ASSUME NEW c \in Nat, NEW n \in Nat, NEW d \in Nat, c <= n, d <= c + (-1) PROVE d <= n + (-1)
    BY <2>4, SMT
  <2>5. Cardinality(Cloners') <= Cardinality(Unborn) + (-1)
    <3>1. PICK c \in Nat, n \in Nat, d \in Nat :
            c = Cardinality(Cloners) /\ n = Cardinality(Unborn) /\ d = Cardinality(Cloners')
      BY <1>7, <2>1, <2>2
    <3>2. c <= n /\ d <= c + (-1)
      BY <1>7, <2>2, <2>3, <3>1
    <3> QED
      BY <2>4, <3>1, <3>2
  <2> QED
    BY <2>1, <2>5 DEF EnoughUnborn
<1> QED
  BY <1>11, <1>12, <1>13, <1>14 DEF SharedInv

LEMMA DecrementStep ==
  ASSUME SharedConstants, SharedInv, NEW t \in Threads, S!Decrement(t)
  PROVE  SharedInv'
<1>1. PICK f : f = S!Top(t)
  OBVIOUS
<1>2. /\ S!Running(t) /\ f.at = "inside" /\ S!Goto(t, "done")
      /\ UNCHANGED <<sState, sFinalized, sGarbage, sHandleLock>>
  BY <1>1 DEF S!Decrement, S!At
<1>3. sCount > 0
  BY <1>1, <1>2, InsideCounts
<1>4. sCount' = sCount - 1 /\ sCloses' = IF sCount' = 0 THEN sCloses + 1 ELSE sCloses
  BY <1>3 DEF S!Decrement
<1>5. SharedTypes /\ StacksInv /\ CountInv /\ EnoughUnborn /\ sState'[f.h] = "open"
  BY <1>1, <1>2, InProgress DEF CallInv
<1>6. "done" \in Goals /\ f.at # "done"
  BY <1>2 DEF Goals
<1>7. /\ sCalls' \in [Threads -> Seq(S!Call)]
      /\ \A where : where \notin {f.at, "done"} => Called(where)' = Called(where)
      /\ Called("done")' = Called("done") \cup {f.h}
      /\ f.at # "enter" => f.h \notin Called("done")
      /\ f.at # "leave" => Cloners' \subseteq Cloners
  BY <1>1, <1>2, <1>5, <1>6, GoesTo
<1>8. Called("made")' = Called("made") /\ f.h \notin Called("done") /\ Cloners' \subseteq Cloners
  BY <1>2, <1>7
<1>9. Opened' = Opened /\ Unborn' = Unborn
  BY <1>2 DEF Opened, Unborn
<1>10. CountInv'
  <2>1. Cardinality(Called("done")') = Cardinality(Called("done")) + 1
    <3>1. IsFiniteSet(Called("done")) /\ f.h \notin Called("done")
      BY <1>8, SharedFinite, Zenon
    <3> QED
      BY <1>7, <3>1, OneMore, Zenon
  <2>2. /\ Cardinality(Opened') = Cardinality(Opened) + 0
        /\ Cardinality(Called("made")') = Cardinality(Called("made")) + 0
    BY <1>8, <1>9, NothingMore, Zenon
  <2>3. sCount \in Nat /\ sCount' \in Nat /\ sCount' + 1 = sCount + 0 + 0 /\ sCloses' = IF sCount' = 0 THEN 1 ELSE 0
    BY <1>3, <1>4, <1>5 DEF SharedTypes, CountInv
  <2>4. 1 \in Int /\ 0 \in Int
    OBVIOUS
  <2> QED
    BY <1>5, <2>1, <2>2, <2>3, <2>4, CountMoves
<1>11. StacksInv'
  BY <1>1, <1>2, <1>5, StacksKeptInLock
<1>12. SharedTypes'
  BY <1>2, <1>3, <1>4, <1>5, <1>7 DEF SharedTypes
<1>13. EnoughUnborn'
  BY <1>5, <1>8, <1>9, EnoughKept
<1> QED
  BY <1>10, <1>11, <1>12, <1>13 DEF SharedInv

LEMMA DropStateStep ==
  ASSUME SharedConstants, SharedInv, NEW t \in Threads, S!DropState(t)
  PROVE  SharedInv'
<1>1. PICK f : f = S!Top(t)
  OBVIOUS
<1>2. /\ S!Running(t) /\ f.at = "done" /\ S!Goto(t, "leave")
      /\ sState' = [sState EXCEPT ![f.h] = "none"]
      /\ UNCHANGED <<sFinalized, sGarbage, sHandleLock, sCount, sCloses>>
  BY <1>1 DEF S!DropState, S!At
<1>3. SharedTypes /\ StacksInv /\ CountInv /\ EnoughUnborn /\ f.h \in Handles /\ sState[f.h] = "open"
  BY <1>1, <1>2, InProgress DEF CallInv
<1>4. "leave" \in Goals /\ f.at # "leave"
  BY <1>2 DEF Goals
<1>5. /\ sCalls' \in [Threads -> Seq(S!Call)]
      /\ \A where : where \notin {f.at, "leave"} => Called(where)' = Called(where)
      /\ f.at # "leave" => Cloners' \subseteq Cloners
  BY <1>1, <1>2, <1>3, <1>4, GoesTo
<1>15. f.at # "enter" => Called(f.at)' = Called(f.at) \ {f.h} /\ f.h \in Called(f.at)
  BY <1>1, <1>2, <1>3, <1>4, GoesTo
<1>6. /\ Called("made")' = Called("made") /\ Called("done")' = Called("done") \ {f.h} /\ f.h \in Called("done")
      /\ Cloners' \subseteq Cloners
  BY <1>2, <1>5, <1>15
<1>7. Opened' = Opened \ {f.h} /\ f.h \in Opened /\ Unborn' = Unborn
  BY <1>2, <1>3 DEF Opened, Unborn, SharedTypes
<1>8. CountInv'
  <2>1. Cardinality(Opened') = Cardinality(Opened) + (-1)
    BY <1>7, SharedFinite, OneLess
  <2>2. Cardinality(Called("done")') = Cardinality(Called("done")) + (-1)
    BY <1>6, SharedFinite, OneLess
  <2>3. Cardinality(Called("made")') = Cardinality(Called("made")) + 0
    BY <1>6, NothingMore, Zenon
  <2>4. sCount \in Nat /\ sCount' \in Nat /\ sCount' + (-1) = sCount + (-1) + 0 /\ sCloses' = IF sCount' = 0 THEN 1 ELSE 0
    BY <1>2, <1>3 DEF SharedTypes, CountInv
  <2>5. 1 \in Int /\ 0 \in Int /\ -1 \in Int
    OBVIOUS
  <2> QED
    BY <1>3, <2>1, <2>2, <2>3, <2>4, <2>5, CountMoves
<1>9. StacksInv'
  <2>1. \A h \in Handles \ {f.h} : sState[h] = "open" => sState'[h] = "open"
    BY <1>2, <1>3 DEF SharedTypes
  <2> QED
    BY <1>1, <1>2, <2>1, StacksKeptInLock
<1>10. SharedTypes'
  BY <1>2, <1>3, <1>5 DEF SharedTypes
<1>11. EnoughUnborn'
  BY <1>3, <1>6, <1>7, EnoughKept
<1> QED
  BY <1>8, <1>9, <1>10, <1>11 DEF SharedInv

LEMMA LeaveStep ==
  ASSUME SharedConstants, SharedInv, NEW t \in Threads, S!Leave(t)
  PROVE  SharedInv'
<1>1. PICK f, w : f = S!Top(t) /\ w = Tail(sCalls[t])
  OBVIOUS
<1>2. /\ S!Running(t) /\ f.at = "leave"
      /\ sHandleLock' = [sHandleLock EXCEPT ![f.h] = NoOne]
      /\ sCalls' = [sCalls EXCEPT ![t] = w]
      /\ UNCHANGED <<sState, sFinalized, sGarbage, sCount, sCloses>>
  BY <1>1 DEF S!Leave, S!At
<1>3. /\ SharedTypes /\ StacksInv /\ CountInv /\ EnoughUnborn /\ f.h \in Handles
      /\ sCalls[t] \in Seq(S!Call) /\ sCalls[t] # <<>> /\ f = sCalls[t][1]
  BY <1>1, <1>2, InProgress
<1>4. /\ AllOf(sCalls[t]) = {f} \cup Below(sCalls[t])
      /\ \A g \in Below(sCalls[t]) : g.h # f.h
  BY <1>3, StackFacts DEF StacksInv
<1>5. /\ w \in Seq(S!Call) /\ AllOf(w) = Below(sCalls[t]) /\ Tidy(w) /\ Nested(w)
      /\ Clones(w) => Clones(sCalls[t])
  BY <1>1, <1>3, StackLeft DEF StacksInv
<1>6. /\ sCalls' \in [Threads -> Seq(S!Call)] /\ sCalls'[t] = w
      /\ \A u \in Threads \ {t} : sCalls'[u] = sCalls[u]
  BY <1>2, <1>3, <1>5 DEF SharedTypes
<1>7. \A u \in Threads : \A g \in AllOf(sCalls'[u]) : g \in AllOf(sCalls[u]) /\ (u = t => g.h # f.h)
  BY <1>4, <1>5, <1>6
<1>8. Cloners' \subseteq Cloners
  BY <1>5, <1>6 DEF Cloners
<1>9. ASSUME NEW where, where # "leave" PROVE Called(where)' = Called(where)
  <2>1. \A h : h \in Called(where)' <=>
          h \in Handles /\ \E u \in Threads : \E g \in AllOf(sCalls'[u]) : g.h = h /\ g.at = where
    BY DEF Called
  <2>2. \A h : h \in Called(where) <=>
          h \in Handles /\ \E u \in Threads : \E g \in AllOf(sCalls[u]) : g.h = h /\ g.at = where
    BY DEF Called
  <2>3. \A u \in Threads : \A g \in AllOf(sCalls[u]) : g.at = where => g \in AllOf(sCalls'[u])
    BY <1>2, <1>4, <1>5, <1>6, <1>9
  <2>4. Called(where)' \subseteq Called(where)
    BY <1>7, <2>1, <2>2
  <2>5. Called(where) \subseteq Called(where)'
    BY <2>1, <2>2, <2>3
  <2> QED
    BY <2>4, <2>5
<1>10. Called("done")' = Called("done") /\ Called("made")' = Called("made")
  BY <1>9
<1>11. Opened' = Opened /\ Unborn' = Unborn
  BY <1>2 DEF Opened, Unborn
<1>12. CountInv'
  BY <1>2, <1>3, <1>10, <1>11 DEF CountInv
<1>13. ASSUME NEW u \in Threads, NEW g \in AllOf(sCalls'[u]) PROVE CallInv(u, g)'
  <2>1. g \in AllOf(sCalls[u]) /\ CallInv(u, g) /\ (u = t => g.h # f.h)
    BY <1>3, <1>7 DEF StacksInv
  <2>2. CASE g.at = "enter"
    BY <1>2, <2>1, <2>2 DEF CallInv
  <2>3. CASE g.at # "enter"
    <3>1. g.h # f.h
      BY <1>2, <1>3, <2>1, <2>3, AloneWithHandle
    <3>2. sHandleLock'[g.h] = sHandleLock[g.h]
      BY <1>2, <1>3, <3>1 DEF SharedTypes
    <3> QED
      BY <1>2, <2>1, <3>2 DEF CallInv
  <2> QED
    BY <2>2, <2>3
<1>14. StacksInv'
  <2>1. \A u \in Threads : Tidy(sCalls'[u]) /\ Nested(sCalls'[u])
    BY <1>3, <1>5, <1>6 DEF StacksInv
  <2> QED
    BY <1>13, <2>1 DEF StacksInv
<1>15. SharedTypes'
  BY <1>2, <1>3, <1>6 DEF SharedTypes
<1>16. EnoughUnborn'
  BY <1>3, <1>8, <1>11, EnoughKept
<1> QED
  BY <1>12, <1>14, <1>15, <1>16 DEF SharedInv

\* A call begins, or is put on top of another.
LEMMA Pushed ==
  ASSUME SharedConstants, SharedInv, NEW t \in Threads, NEW op \in {"clone", "publish", "close"},
         NEW h \in Handles, S!Push(t, op, h),
         \A g \in AllOf(sCalls[t]) : g.h # h, sCalls[t] # <<>> => op = "close",
         h \in sFinalized' \/ h \notin sGarbage, sFinalized \subseteq sFinalized',
         UNCHANGED <<sState, sGarbage, sHandleLock, sCount, sCloses>>
  PROVE  /\ SharedTypes' /\ StacksInv' /\ CountInv'
         /\ Cloners' \subseteq Cloners \cup {t}
         /\ op # "clone" => Cloners' \subseteq Cloners
<1>1. PICK f, w : f = [op |-> op, h |-> h, at |-> "enter"] /\ w = <<f>> \o sCalls[t]
  OBVIOUS
<1>2. sCalls' = [sCalls EXCEPT ![t] = w] /\ f \in S!Call /\ f.op = op /\ f.h = h /\ f.at = "enter"
  BY <1>1 DEF S!Push, S!Call
<1>3. SharedTypes /\ StacksInv /\ CountInv /\ sCalls[t] \in Seq(S!Call)
  BY DEF SharedInv, SharedTypes
<1>4. /\ w \in Seq(S!Call) /\ AllOf(w) = {f} \cup AllOf(sCalls[t]) /\ Tidy(w) /\ Nested(w)
      /\ Clones(w) => Clones(sCalls[t]) \/ op = "clone"
  <2>1. Tidy(sCalls[t]) /\ Nested(sCalls[t])
    BY <1>3 DEF StacksInv
  <2>2. PICK s \in Seq(S!Call) : s = sCalls[t]
    BY <1>3
  <2>3. f \in S!Call /\ w = <<f>> \o s
    BY <1>1, <1>2, <2>2
  <2>4. /\ w \in Seq(S!Call) /\ AllOf(w) = {f} \cup AllOf(s)
        /\ Tidy(s) /\ (\A g \in AllOf(s) : g.h # f.h) => Tidy(w)
        /\ Nested(s) /\ (s # <<>> => f.op = "close") => Nested(w)
        /\ Clones(w) => Clones(s) \/ f.op = "clone"
    <3>1. f \in S!Call
      BY <2>3
    <3>2. /\ <<f>> \o s \in Seq(S!Call) /\ AllOf(<<f>> \o s) = {f} \cup AllOf(s)
          /\ Tidy(s) /\ (\A g \in AllOf(s) : g.h # f.h) => Tidy(<<f>> \o s)
          /\ Nested(s) /\ (s # <<>> => f.op = "close") => Nested(<<f>> \o s)
          /\ Clones(<<f>> \o s) => Clones(s) \/ f.op = "clone"
      BY <3>1, StackPushed, Zenon
    <3> QED
      BY <2>3, <3>2
  <2>5. \A g \in AllOf(s) : g.h # f.h
    BY <1>2, <2>2
  <2>6. s # <<>> => f.op = "close"
    BY <1>2, <2>2
  <2>7. Tidy(s) /\ Nested(s)
    BY <2>1, <2>2
  <2>8. Tidy(w) /\ Nested(w)
    BY <2>4, <2>5, <2>6, <2>7, Zenon
  <2> QED
    BY <1>2, <2>2, <2>4, <2>8
<1>5. /\ sCalls' \in [Threads -> Seq(S!Call)] /\ sCalls'[t] = w
      /\ \A u \in Threads \ {t} : sCalls'[u] = sCalls[u]
  BY <1>2, <1>3, <1>4 DEF SharedTypes
<1>6. /\ \A u \in Threads : \A g \in AllOf(sCalls'[u]) : g \in AllOf(sCalls[u]) \/ g = f
      /\ \A u \in Threads : AllOf(sCalls[u]) \subseteq AllOf(sCalls'[u])
  BY <1>4, <1>5
<1>7. ASSUME NEW where, where # "enter" PROVE Called(where)' = Called(where)
  BY <1>2, <1>6, <1>7 DEF Called
<1>8. Called("done")' = Called("done") /\ Called("made")' = Called("made") /\ Opened' = Opened
  BY <1>7 DEF Opened
<1>9. CountInv'
  BY <1>3, <1>8 DEF CountInv
<1>10. SharedTypes'
  BY <1>3, <1>5 DEF SharedTypes
<1>11. StacksInv'
  <2>1. \A u \in Threads : Tidy(sCalls'[u]) /\ Nested(sCalls'[u])
    BY <1>3, <1>4, <1>5 DEF StacksInv
  <2>2. ASSUME NEW u \in Threads, NEW g \in AllOf(sCalls'[u]) PROVE CallInv(u, g)'
    <3>1. CASE g = f
      BY <1>2, <3>1 DEF CallInv
    <3>2. CASE g \in AllOf(sCalls[u])
      <4>1. CallInv(u, g)
        BY <1>3, <3>2 DEF StacksInv
      <4> QED
        BY <4>1 DEF CallInv
    <3> QED
      BY <1>6, <3>1, <3>2
  <2> QED
    BY <2>1, <2>2 DEF StacksInv
<1>12. /\ Cloners' \subseteq Cloners \cup {t}
       /\ op # "clone" => Cloners' \subseteq Cloners
  BY <1>4, <1>5 DEF Cloners
<1> QED
  BY <1>9, <1>10, <1>11, <1>12

\* The module's own Cardinality is the library's.
LEMMA SameCardinality == \A X : S!Cardinality(X) = Cardinality(X)
BY DEF S!Cardinality, Cardinality

\* No more handles are asked for than there are.
LEMMA CallMethodStep ==
  ASSUME SharedConstants, SharedInv, NEW t \in Threads, NEW op \in {"clone", "publish", "close"},
         NEW h \in Handles, S!CallMethod(t, op, h)
  PROVE  SharedInv'
<1>1. /\ sCalls[t] = <<>> /\ h \notin sGarbage /\ S!Push(t, op, h)
      /\ UNCHANGED <<sState, sFinalized, sGarbage, sHandleLock, sCount, sCloses>>
  BY DEF S!CallMethod, S!Running
<1>2. AllOf(sCalls[t]) = {}
  BY <1>1 DEF AllOf
<1>3. /\ SharedTypes' /\ StacksInv' /\ CountInv' /\ Cloners' \subseteq Cloners \cup {t}
      /\ op # "clone" => Cloners' \subseteq Cloners
  BY <1>1, <1>2, Pushed
<1>4. EnoughUnborn /\ Unborn' = Unborn /\ SharedTypes
  BY <1>1 DEF SharedInv, Unborn
<1>5. CASE op # "clone"
  BY <1>3, <1>4, <1>5, EnoughKept DEF SharedInv
<1>6. CASE op = "clone"
  <2>1. PICK C : C = {u \in Threads : S!Running(u) /\ S!Last(sCalls[u]).op = "clone"}
    OBVIOUS
  <2>2. IsFiniteSet(C) /\ Cardinality(C) \in Nat
    BY <2>1, FS_Subset, FS_CardinalityType DEF SharedConstants
  <2>3. Cloners \subseteq C /\ t \notin Cloners
    BY <1>1, <2>1 DEF Cloners, Clones, S!Running, S!Last
  <2>4. Cardinality(Cloners) <= Cardinality(C) /\ Cardinality(Cloners) \in Nat
    BY <2>2, <2>3, FS_Subset, FS_CardinalityType
  <2>5. Cardinality(Unborn) > Cardinality(C)
    <3>1. S!Cloning = Cardinality(C)
      BY <2>1, SameCardinality DEF S!Cloning
    <3>2. Cardinality(Unborn) > S!Cloning
      <4>1. S!Cardinality({x \in Handles : sState[x] = "unborn"}) > S!Cloning
        BY <1>6 DEF S!CallMethod
      <4> QED
        BY <4>1, SameCardinality DEF Unborn
    <3> QED
      BY <3>1, <3>2
  <2>6. IsFiniteSet(Cloners \cup {t}) /\ Cardinality(Cloners \cup {t}) = Cardinality(Cloners) + 1
    BY <2>3, SharedFinite, FS_AddElement
  <2>7. Cardinality(Cloners') <= Cardinality(Cloners \cup {t}) /\ Cardinality(Cloners') \in Nat
    <3>1. Cloners' \in SUBSET (Cloners \cup {t})
      BY <1>3
    <3> QED
      BY <2>6, <3>1, FS_Subset, FS_CardinalityType
  <2>8. EnoughUnborn'
    <3>1. Cardinality(Unborn) \in Nat
      BY SharedFinite
    <3>2. Cardinality(Cloners') <= Cardinality(Unborn)
      BY <2>2, <2>4, <2>5, <2>6, <2>7, <3>1
    <3> QED
      BY <1>4, <3>2 DEF EnoughUnborn
  <2> QED
    BY <1>3, <2>8 DEF SharedInv
<1> QED
  BY <1>5, <1>6

\* __del__ is about a handle no call is with.
LEMMA FinalizeStep ==
  ASSUME SharedConstants, SharedInv, NEW t \in Threads, NEW h \in Handles, S!Finalize(t, h)
  PROVE  SharedInv'
<1>1. /\ h \in sGarbage \ sFinalized /\ sFinalized' = sFinalized \cup {h} /\ S!Push(t, "close", h)
      /\ UNCHANGED <<sState, sGarbage, sHandleLock, sCount, sCloses>>
  BY DEF S!Finalize
<1>2. \A g \in AllOf(sCalls[t]) : g.h # h
  BY <1>1 DEF SharedInv, StacksInv, CallInv
<1>3. SharedTypes' /\ StacksInv' /\ CountInv' /\ Cloners' \subseteq Cloners
  BY <1>1, <1>2, Pushed
<1>4. EnoughUnborn /\ Unborn' = Unborn
  BY <1>1 DEF SharedInv, Unborn
<1> QED
  BY <1>3, <1>4, EnoughKept DEF SharedInv

LEMMA ForgetStep ==
  ASSUME SharedConstants, SharedInv, NEW h \in Handles, S!Forget(h)
  PROVE  SharedInv'
<1>1. /\ ~S!InUse(h) /\ sGarbage' = sGarbage \cup {h}
      /\ UNCHANGED <<sState, sFinalized, sHandleLock, sCount, sCloses, sCalls>>
  BY DEF S!Forget
<1>2. SharedTypes /\ StacksInv /\ CountInv /\ EnoughUnborn
  BY DEF SharedInv
<1>3. \A u \in Threads : \A g \in AllOf(sCalls[u]) : g.h # h
  BY <1>1 DEF S!InUse, AllOf
<1>4. StacksInv'
  <2>1. ASSUME NEW u \in Threads, NEW g \in AllOf(sCalls[u]) PROVE CallInv(u, g)'
    <3>1. CallInv(u, g) /\ g.h # h
      BY <1>2, <1>3 DEF StacksInv
    <3> QED
      BY <1>1, <3>1 DEF CallInv
  <2> QED
    BY <1>1, <1>2, <2>1 DEF StacksInv
<1>5. SharedTypes'
  BY <1>1, <1>2 DEF SharedTypes
<1>6. CountInv' /\ EnoughUnborn'
  BY <1>1, <1>2 DEF CountInv, EnoughUnborn, Called, Opened, Unborn, Cloners
<1> QED
  BY <1>4, <1>5, <1>6 DEF SharedInv

LEMMA SharedStep ==
  ASSUME SharedConstants, SharedInv, [S!Next]_(S!vars)
  PROVE  SharedInv'
<1>1. CASE UNCHANGED S!vars
  <2>1. UNCHANGED <<sState, sGarbage, sFinalized, sHandleLock, sCount, sCloses, sCalls>>
    BY <1>1 DEF S!vars
  <2> QED
    BY <2>1 DEF SharedInv, SharedTypes, StacksInv, CallInv, CountInv, EnoughUnborn, Called, Opened, Unborn, Cloners
<1>2. ASSUME NEW t \in Threads, S!CallStep(t) PROVE SharedInv'
  BY <1>2, EnterStep, CheckStep, TakeBlockStep, LeaveStep, IncrementStep, FromStateStep, PublishInnerStep,
     DecrementStep, DropStateStep DEF S!CallStep
<1>3. ASSUME NEW t \in Threads, NEW h \in Handles, S!Finalize(t, h) PROVE SharedInv'
  BY <1>3, FinalizeStep
<1>4. ASSUME NEW t \in Threads, NEW op \in {"clone", "publish", "close"}, NEW h \in Handles, S!CallMethod(t, op, h)
      PROVE  SharedInv'
  BY <1>4, CallMethodStep
<1>5. ASSUME NEW h \in Handles, S!Forget(h) PROVE SharedInv'
  BY <1>5, ForgetStep
<1> QED
  BY <1>1, <1>2, <1>3, <1>4, <1>5 DEF S!Next

LEMMA SharedInit ==
  ASSUME SharedConstants, S!Init
  PROVE  SharedInv
<1>1. \A u \in Threads : sCalls[u] = <<>> /\ AllOf(sCalls[u]) = {}
  BY DEF S!Init, AllOf
<1>2. SharedTypes
  BY DEF S!Init, SharedTypes, SharedConstants
<1>3. StacksInv
  BY <1>1 DEF StacksInv, Tidy, Nested
<1>4. Called("done") = {} /\ Called("made") = {} /\ Cloners = {}
  BY <1>1 DEF Called, Cloners, Clones
<1>5. Opened = {First}
  BY DEF S!Init, Opened, SharedConstants
<1>6. Cardinality({}) = 0 /\ Cardinality({First}) = 1
  BY FS_EmptySet, FS_Singleton
<1>7. CountInv
  BY <1>4, <1>5, <1>6 DEF S!Init, CountInv
<1>8. EnoughUnborn
  BY <1>4, <1>6, SharedFinite DEF EnoughUnborn
<1> QED
  BY <1>2, <1>3, <1>7, <1>8 DEF SharedInv

\* Whichever handles any number of threads close, clone, forget and publish to,
\* and wherever the garbage collector steps in, the wrapped publisher is closed
\* once, with the last open handle, and gets nothing afterwards.
THEOREM LastHandleCloses ==
  ASSUME SharedConstants
  PROVE  S!Spec => []ClosedByLast
<1>1. S!Init => SharedInv
  BY SharedInit
<1>2. SharedInv /\ [S!Next]_(S!vars) => SharedInv'
  BY SharedStep
<1>3. SharedInv => ClosedByLast
  <2> SUFFICES ASSUME SharedInv PROVE S!ClosedByLast
    BY DEF ClosedByLast
  <2>1. \A where : S!CalledAt(where) = Called(where)
    BY DEF S!CalledAt, Called, AllOf
  <2>2. S!CountIsHandles
    <3>1. S!CalledAt("done") = Called("done") /\ S!CalledAt("made") = Called("made")
      BY <2>1
    <3>2. sCount + Cardinality(S!CalledAt("done")) = Cardinality(Opened) + Cardinality(S!CalledAt("made"))
      BY <3>1, Zenon DEF SharedInv, CountInv
    <3> QED
      BY <3>2, SameCardinality, Zenon DEF S!CountIsHandles, Opened
  <2>3. S!BlockInUse
    BY InsideCounts DEF S!BlockInUse, S!At
  <2>4. sCloses = IF sCount = 0 THEN 1 ELSE 0
    BY DEF SharedInv, CountInv
  <2> QED
    BY <2>2, <2>3, <2>4 DEF S!ClosedByLast
<1> QED
  BY <1>1, <1>2, <1>3, PTL DEF S!Spec
=============================================================================
