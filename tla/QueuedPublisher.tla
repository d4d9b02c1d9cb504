--------------------------- MODULE QueuedPublisher ---------------------------
(***************************************************************************)
(* QueuedPublisher of instro/lib/publishers/publisher.py: publish() puts   *)
(* into a bounded queue.Queue, one worker thread takes items out and hands *)
(* them to the wrapped publisher, close() stops the worker, joins it and   *)
(* closes the wrapped publisher.                                           *)
(*                                                                         *)
(* The stop event and the queue are separate objects, so publish() has a   *)
(* gap between the test of the one and the put into the other.             *)
(* task_done() has no counterpart: nothing joins the queue.  MaxQueue = 0  *)
(* (an unbounded queue.Queue) is left out.                                 *)
(***************************************************************************)
EXTENDS Naturals, Sequences, FiniteSets

CONSTANTS
    Producers,      \* threads calling publish()
    MaxQueue,       \* max_queue_size
    WaitForQueue,   \* wait_for_queue
    InnerMayFail,   \* the wrapped publisher's publish() may raise
    MaxItems        \* bound: calls of publish()

ASSUME QueueAssumption ==
    /\ MaxQueue \in Nat \ {0} /\ MaxItems \in Nat
    /\ WaitForQueue \in BOOLEAN /\ InnerMayFail \in BOOLEAN

Items == 1..MaxItems
NoItem == 0

VARIABLES
    queue,      \* _queue
    stop,       \* _stop_event
    wpc,        \* where the worker is
    inHand,     \* the item the worker took; kept by a worker it killed
    pc,         \* where each producer is
    item,       \* the item a producer carries
    made,       \* calls of publish() so far
    closing,    \* where the thread that calls close() is
    innerClosed,\* the wrapped publisher was closed
    put,        \* history: items put into the queue, in order
    got,        \* history: items the wrapped publisher got, in order
    queuedAtClose \* history: items in the wrapper's care when close() was called

vars == <<queue, stop, wpc, inHand, pc, item, made, closing, innerClosed, put, got, queuedAtClose>>

TypeOK ==
    /\ queue \in Seq(Items) /\ Len(queue) <= MaxQueue
    /\ stop \in BOOLEAN
    /\ wpc \in {"loop", "get", "publish", "dead"}
    /\ inHand \in Items \cup {NoItem}
    /\ wpc = "publish" => inHand # NoItem
    /\ inHand # NoItem => wpc \in {"publish", "dead"}
    /\ pc \in [Producers -> {"idle", "put"}]
    /\ item \in [Producers -> Items \cup {NoItem}]
    /\ made \in 0..MaxItems
    /\ closing \in {"no", "set", "join", "inner", "done"}
    /\ innerClosed \in BOOLEAN
    /\ put \in Seq(Items) /\ got \in Seq(Items)
    /\ queuedAtClose \subseteq Items

Init ==
    /\ queue = <<>> /\ stop = FALSE
    /\ wpc = "loop" /\ inHand = NoItem
    /\ pc = [p \in Producers |-> "idle"] /\ item = [p \in Producers |-> NoItem]
    /\ made = 0
    /\ closing = "no" /\ innerClosed = FALSE
    /\ put = <<>> /\ got = <<>> /\ queuedAtClose = {}

Elements(s) == {s[i] : i \in 1..Len(s)}

-----------------------------------------------------------------------------
(* Producers *)

\* publish() up to the put: dropped with a warning once the event is set.
Publish(p) ==
    /\ pc[p] = "idle" /\ made < MaxItems
    /\ made' = made + 1
    /\ IF stop THEN UNCHANGED <<pc, item>>
       ELSE /\ pc' = [pc EXCEPT ![p] = "put"]
            /\ item' = [item EXCEPT ![p] = made']
    /\ UNCHANGED <<queue, stop, wpc, inHand, closing, innerClosed, put, got, queuedAtClose>>

\* _queue.put: blocks while the queue is full.
Put(p) ==
    /\ pc[p] = "put" /\ Len(queue) < MaxQueue
    /\ queue' = Append(queue, item[p]) /\ put' = Append(put, item[p])
    /\ pc' = [pc EXCEPT ![p] = "idle"] /\ item' = [item EXCEPT ![p] = NoItem]
    /\ UNCHANGED <<stop, wpc, inHand, made, closing, innerClosed, got, queuedAtClose>>

-----------------------------------------------------------------------------
(* The worker *)

WorkerGoto(at) == wpc' = at
WorkerUnchanged == UNCHANGED <<stop, pc, item, made, closing, innerClosed, put, queuedAtClose>>

\* Faulty: the wait_for_queue option is not looked at.
WorkerLoopIgnoresWait ==
    /\ wpc = "loop"
    /\ WorkerGoto(IF stop THEN "dead" ELSE "get")
    /\ UNCHANGED <<queue, inHand, got>> /\ WorkerUnchanged

\* Faulty: drains whatever the option says, and does not see the event.
WorkerLoopForever ==
    /\ wpc = "loop"
    /\ WorkerGoto("get")
    /\ UNCHANGED <<queue, inHand, got>> /\ WorkerUnchanged

\* while not stop or (wait_for_queue and queue not empty)
WorkerLoop ==
    /\ wpc = "loop"
    /\ WorkerGoto(IF ~stop \/ (WaitForQueue /\ queue # <<>>) THEN "get" ELSE "dead")
    /\ UNCHANGED <<queue, inHand, got>> /\ WorkerUnchanged

\* _queue.get(timeout=0.1): an item, or queue.Empty after the timeout.
WorkerGet ==
    /\ wpc = "get"
    /\ \/ /\ queue # <<>>
          /\ inHand' = Head(queue) /\ queue' = Tail(queue)
          /\ WorkerGoto("publish")
       \/ /\ queue = <<>>
          /\ WorkerGoto("loop")
          /\ UNCHANGED <<queue, inHand>>
    /\ UNCHANGED got /\ WorkerUnchanged

\* The wrapped publisher takes the item; what it raises ends the thread.
WorkerPublish ==
    /\ wpc = "publish"
    /\ \/ got' = Append(got, inHand) /\ inHand' = NoItem /\ WorkerGoto("loop")
       \/ InnerMayFail /\ UNCHANGED <<got, inHand>> /\ WorkerGoto("dead")
    /\ UNCHANGED queue /\ WorkerUnchanged

-----------------------------------------------------------------------------
(* close() *)

CloserUnchanged == UNCHANGED <<queue, wpc, inHand, pc, item, made, put, got>>

CloseCall ==
    /\ closing = "no" \/ closing = "done"
    /\ closing' = "set"
    /\ queuedAtClose' = IF closing = "no" THEN Elements(put) \ Elements(got) ELSE queuedAtClose
    /\ UNCHANGED <<stop, innerClosed>> /\ CloserUnchanged

CloseSetStop ==
    /\ closing = "set"
    /\ stop' = TRUE /\ closing' = "join"
    /\ UNCHANGED <<innerClosed, queuedAtClose>> /\ CloserUnchanged

\* Faulty: the worker is not joined.
CloseNoJoin ==
    /\ closing = "join"
    /\ closing' = "inner"
    /\ UNCHANGED <<stop, innerClosed, queuedAtClose>> /\ CloserUnchanged

CloseJoin ==
    /\ closing = "join" /\ wpc = "dead"
    /\ closing' = "inner"
    /\ UNCHANGED <<stop, innerClosed, queuedAtClose>> /\ CloserUnchanged

CloseInner ==
    /\ closing = "inner"
    /\ innerClosed' = TRUE /\ closing' = "done"
    /\ UNCHANGED <<stop, queuedAtClose>> /\ CloserUnchanged

-----------------------------------------------------------------------------

WorkerStep == WorkerLoop \/ WorkerGet \/ WorkerPublish
CloserStep == CloseSetStop \/ CloseJoin \/ CloseInner

Next ==
    \/ \E p \in Producers : Publish(p) \/ Put(p)
    \/ WorkerStep
    \/ CloseCall \/ CloserStep

Spec == Init /\ [][Next]_vars

\* The threads that can run do; close() may never be called.
Fairness ==
    /\ WF_vars(WorkerStep) /\ WF_vars(CloserStep)
    /\ \A p \in Producers : WF_vars(Put(p))

FairSpec == Spec /\ Fairness

-----------------------------------------------------------------------------
(* Properties *)

Refused == wpc = "dead" /\ inHand # NoItem

\* The queue keeps the order of the puts, and nothing is dropped on the way, also
\* when the wrapped publisher refuses an item and the worker dies.
InOrder == put = got \o (IF inHand = NoItem THEN <<>> ELSE <<inHand>>) \o queue

\* With wait_for_queue, what was queued when close() was called has reached the
\* wrapped publisher when close() returns, unless that refused an item.
CloseFlushes ==
    WaitForQueue /\ closing = "done" /\ ~Refused => queuedAtClose \subseteq Elements(got)

\* close() returns, whatever the producers do and whatever the publisher raises.
CloseReturns == (closing = "set") ~> (closing = "done")

\* A publish() returns.
PublishReturns == \A p \in Producers : (pc[p] = "put") ~> (pc[p] = "idle")

\* The wrapper is a relay: what was put is handed on in that order, each item
\* once, and nothing after the wrapped publisher's close().
R == INSTANCE Relay WITH accepted <- put, delivered <- got, ended <- innerClosed
ImplementsRelay == R!RelaySpec
=============================================================================
