--------------------------- MODULE SharedPublisher ---------------------------
(***************************************************************************)
(* SharedPublisher of instro/lib/publishers/publisher.py: handles that     *)
(* share one wrapped publisher through a control block with a reference    *)
(* count.  A handle has a lock around its pointer to the block, the block  *)
(* has a lock around the count and the wrapped publisher; neither lock is  *)
(* reentrant.                                                              *)
(*                                                                         *)
(* A thread is a stack of calls: a call of clone(), publish() or close(),  *)
(* and on top of it a close() that __del__ makes when the garbage          *)
(* collector runs in that thread.  A handle in a reference cycle (an       *)
(* instrument with a background daemon refers to itself) is collected in   *)
(* whichever thread happens to run the collector, in the middle of a call. *)
(* The control block's own __del__ never finds a count above 0, because    *)
(* every handle's __del__ has run by then; it is left out.                 *)
(***************************************************************************)
EXTENDS Naturals, Sequences, FiniteSets, SequencesExt

CONSTANTS
    Threads,        \* threads using the handles
    Handles,        \* handles that may ever exist
    First,          \* the handle made by SharedPublisher(publisher)
    NoOne,          \* no thread
    GcInCalls,      \* the collector may run in the middle of a call
    MaxCalls        \* bound: calls of clone(), publish() and close()

VARIABLES
    state,      \* handle -> "unborn", "open" (_state is the block) or "none" (_state is None)
    garbage,    \* handles nobody refers to any more
    finalized,  \* handles whose __del__ was called
    handleLock, \* handle -> the thread in its _state_lock
    blockLock,  \* the thread in the block's _lock
    count,      \* _count
    closes,     \* calls of the wrapped publisher's close()
    calls,      \* thread -> stack of calls, innermost first
    made        \* calls made so far

vars == <<state, garbage, finalized, handleLock, blockLock, count, closes, calls, made>>

Call == [op : {"clone", "publish", "close"}, h : Handles,
         at : {"enter", "check", "block", "inside", "made", "done", "leave"}]

TypeOK ==
    /\ state \in [Handles -> {"unborn", "open", "none"}]
    /\ garbage \subseteq Handles /\ finalized \subseteq garbage
    /\ handleLock \in [Handles -> Threads \cup {NoOne}] /\ blockLock \in Threads \cup {NoOne}
    /\ count \in 0..Cardinality(Handles) /\ closes \in Nat
    /\ \A t \in Threads : calls[t] \in Seq(Call) /\ Len(calls[t]) <= Cardinality(Handles)
    /\ made \in 0..MaxCalls

Init ==
    /\ state = [h \in Handles |-> IF h = First THEN "open" ELSE "unborn"]
    /\ garbage = {} /\ finalized = {}
    /\ handleLock = [h \in Handles |-> NoOne] /\ blockLock = NoOne
    /\ count = 1 /\ closes = 0
    /\ calls = [t \in Threads |-> <<>>] /\ made = 0

-----------------------------------------------------------------------------
(* References and calls *)

Running(t) == calls[t] # <<>>
Top(t) == Head(calls[t])
At(t, op, where) == Running(t) /\ Top(t).op \in op /\ Top(t).at = where
Goto(t, where) == calls' = [calls EXCEPT ![t][1].at = where]
Push(t, op, h) == calls' = [calls EXCEPT ![t] = <<[op |-> op, h |-> h, at |-> "enter"]>> \o @]

InUse(h) == \E t \in Threads : \E i \in 1..Len(calls[t]) : calls[t][i].h = h

\* Handles with a call that is at a place.
CalledAt(where) ==
    {h \in Handles : \E t \in Threads : \E i \in 1..Len(calls[t]) :
                         calls[t][i].h = h /\ calls[t][i].at = where}

Cloning == Cardinality({t \in Threads : Running(t) /\ Last(calls[t]).op = "clone"})

CallMethod(t, op, h) ==
    /\ ~Running(t) /\ made < MaxCalls
    /\ state[h] # "unborn" /\ h \notin garbage
    /\ op = "clone" => Cardinality({x \in Handles : state[x] = "unborn"}) > Cloning \* bound
    /\ made' = made + 1 /\ Push(t, op, h)
    /\ UNCHANGED <<state, garbage, finalized, handleLock, blockLock, count, closes>>

\* The last reference to a handle goes away.
Forget(h) ==
    /\ state[h] # "unborn" /\ h \notin garbage /\ ~InUse(h)
    /\ garbage' = garbage \cup {h}
    /\ UNCHANGED <<state, finalized, handleLock, blockLock, count, closes, calls, made>>

\* __del__ of a handle, in whichever thread drops the reference or runs the
\* collector: a close() on top of what the thread is doing.
Finalize(t, h) ==
    /\ h \in garbage \ finalized
    /\ Running(t) => GcInCalls
    /\ finalized' = finalized \cup {h} /\ Push(t, "close", h)
    /\ UNCHANGED <<state, garbage, handleLock, blockLock, count, closes, made>>

-----------------------------------------------------------------------------
(* The handle: its lock and its test of _state *)

Enter(t) ==
    /\ At(t, {"clone", "publish", "close"}, "enter")
    /\ handleLock[Top(t).h] = NoOne
    /\ handleLock' = [handleLock EXCEPT ![Top(t).h] = t] /\ Goto(t, "check")
    /\ UNCHANGED <<state, garbage, finalized, blockLock, count, closes, made>>

\* A closed handle: close() does nothing, clone() and publish() raise.
Check(t) ==
    /\ At(t, {"clone", "publish", "close"}, "check")
    /\ Goto(t, IF state[Top(t).h] = "open" THEN "block" ELSE "leave")
    /\ UNCHANGED <<state, garbage, finalized, handleLock, blockLock, count, closes, made>>

\* The block's lock, for increment(), decrement() and publish() alike.
TakeBlock(t) ==
    /\ At(t, {"clone", "publish", "close"}, "block")
    /\ blockLock = NoOne
    /\ blockLock' = t /\ Goto(t, "inside")
    /\ UNCHANGED <<state, garbage, finalized, handleLock, count, closes, made>>

\* Return through the with statement of the handle's lock.
Leave(t) ==
    /\ At(t, {"clone", "publish", "close"}, "leave")
    /\ handleLock' = [handleLock EXCEPT ![Top(t).h] = NoOne]
    /\ calls' = [calls EXCEPT ![t] = Tail(@)]
    /\ UNCHANGED <<state, garbage, finalized, blockLock, count, closes, made>>

-----------------------------------------------------------------------------
(* The control block *)

\* increment(), then the new handle around the same block.
Increment(t) ==
    /\ At(t, {"clone"}, "inside")
    /\ blockLock' = NoOne
    /\ IF count = 0
       THEN Goto(t, "leave") /\ UNCHANGED count
       ELSE Goto(t, "made") /\ count' = count + 1
    /\ UNCHANGED <<state, garbage, finalized, handleLock, closes, made>>

FromState(t) ==
    /\ At(t, {"clone"}, "made")
    /\ LET h == CHOOSE x \in Handles : state[x] = "unborn"
       IN state' = [state EXCEPT ![h] = "open"]
    /\ Goto(t, "leave")
    /\ UNCHANGED <<garbage, finalized, handleLock, blockLock, count, closes, made>>

\* Faulty: the block's lock is kept when the wrapped publisher raises.
PublishKeepsLock(t) ==
    /\ At(t, {"publish"}, "inside")
    /\ blockLock' \in {t, NoOne} /\ Goto(t, "leave")
    /\ UNCHANGED <<state, garbage, finalized, handleLock, count, closes, made>>

\* publish() of the wrapped publisher under the block's lock; what it raises
\* leaves both locks.
PublishInner(t) ==
    /\ At(t, {"publish"}, "inside")
    /\ blockLock' = NoOne /\ Goto(t, "leave")
    /\ UNCHANGED <<state, garbage, finalized, handleLock, count, closes, made>>

\* Faulty: the count is tested before it goes down.
DecrementTestsFirst(t) ==
    /\ At(t, {"close"}, "inside")
    /\ blockLock' = NoOne /\ Goto(t, "done")
    /\ count' = count - 1 /\ closes' = IF count = 0 THEN closes + 1 ELSE closes
    /\ UNCHANGED <<state, garbage, finalized, handleLock, made>>

\* decrement(): the last handle closes the wrapped publisher, under the lock.
\* What that raises reaches the caller with the count already at 0.
Decrement(t) ==
    /\ At(t, {"close"}, "inside")
    /\ blockLock' = NoOne /\ Goto(t, "done")
    /\ IF count = 0
       THEN UNCHANGED <<count, closes>>
       ELSE /\ count' = count - 1
            /\ closes' = IF count' = 0 THEN closes + 1 ELSE closes
    /\ UNCHANGED <<state, garbage, finalized, handleLock, made>>

\* finally: _state = None, whatever decrement() raised.
DropState(t) ==
    /\ At(t, {"close"}, "done")
    /\ state' = [state EXCEPT ![Top(t).h] = "none"]
    /\ Goto(t, "leave")
    /\ UNCHANGED <<garbage, finalized, handleLock, blockLock, count, closes, made>>

-----------------------------------------------------------------------------

CallStep(t) ==
    \/ Enter(t) \/ Check(t) \/ TakeBlock(t) \/ Leave(t)
    \/ Increment(t) \/ FromState(t) \/ PublishInner(t) \/ Decrement(t) \/ DropState(t)

Next ==
    \/ \E t \in Threads : \/ CallStep(t)
                          \/ \E h \in Handles : Finalize(t, h)
                          \/ \E op \in {"clone", "publish", "close"}, h \in Handles : CallMethod(t, op, h)
    \/ \E h \in Handles : Forget(h)

Spec == Init /\ [][Next]_vars

\* A thread that can go on does, and a forgotten handle is collected.
Fairness ==
    /\ \A t \in Threads : WF_vars(CallStep(t))
    /\ WF_vars(\E t \in Threads, h \in Handles : Finalize(t, h))

FairSpec == Spec /\ Fairness

-----------------------------------------------------------------------------
(* Properties *)

\* The count is the number of open handles, but for those whose call is between
\* the block's change and the handle's.
CountIsHandles ==
    count + Cardinality(CalledAt("done"))
        = Cardinality({h \in Handles : state[h] = "open"}) + Cardinality(CalledAt("made"))

\* Whoever is in the control block finds it in use.
BlockInUse ==
    \A t \in Threads : At(t, {"clone", "publish", "close"}, "inside") => count > 0

\* Whichever handles the threads close, clone, forget and publish to, the
\* wrapped publisher is closed once, when the last open handle is, and gets
\* nothing afterwards; the errors that ask to be reported to the developers
\* are never raised.
ClosedByLast ==
    /\ closes = (IF count = 0 THEN 1 ELSE 0)
    /\ CountIsHandles
    /\ BlockInUse

\* Calls on different handles in different threads never wait for each other
\* for good: every call returns, as long as the collector finalizes no handle in
\* the middle of a call.
CallsReturn ==
    [](\A t \in Threads : Len(calls[t]) <= 1) => \A t \in Threads : Running(t) ~> ~Running(t)
=============================================================================
