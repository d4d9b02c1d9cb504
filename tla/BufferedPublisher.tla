-------------------------- MODULE BufferedPublisher --------------------------
(***************************************************************************)
(* BufferedPublisher and BasicBufferedPublisher of                         *)
(* instro/lib/publishers/publisher.py: items collect in a list, a full     *)
(* list is handed to the wrapped publisher item by item and then cleared.  *)
(*                                                                         *)
(* Nothing is locked.  An instrument publishes from its daemon and from    *)
(* the thread that uses it, so every line that touches the list, the flag  *)
(* or the wrapped publisher is a step of its own.                          *)
(***************************************************************************)
EXTENDS Naturals, Sequences, FiniteSets, SequencesExt

CONSTANTS
    Threads,        \* threads calling publish() and close()
    BufferSize,     \* buffer_size
    InnerMayFail,   \* the wrapped publisher's publish() and close() may raise
    MaxItems,       \* bound: calls of publish()
    MaxGot          \* bound: items the wrapped publisher is handed

Items == 1..MaxItems

VARIABLES
    buffer,     \* the list of items
    closed,     \* _closed
    innerClosed,\* the wrapped publisher was closed
    at,         \* what each thread does next
    op,         \* the method each thread is in
    item,       \* the item each thread carries
    pos,        \* where each thread's batch loop is in the list
    made,       \* calls of publish() so far
    accepted,   \* history: items appended, in order
    got         \* history: items the wrapped publisher got, in order

vars == <<buffer, closed, innerClosed, at, op, item, pos, made, accepted, got>>

TypeOK ==
    /\ buffer \in Seq(Items) /\ Len(buffer) <= made /\ closed \in BOOLEAN /\ innerClosed \in BOOLEAN
    /\ at \in [Threads -> {"idle", "append", "size", "batch", "clear", "close", "flag"}]
    /\ op \in [Threads -> {"publish", "close"}]
    /\ \A t \in Threads : at[t] \in {"append", "size"} => op[t] = "publish"
    /\ item \in [Threads -> 0..MaxItems] /\ pos \in [Threads -> 1..(MaxGot + 1)]
    /\ made \in 0..MaxItems
    /\ accepted \in Seq(Items) /\ got \in Seq(Items)

Init ==
    /\ buffer = <<>> /\ closed = FALSE /\ innerClosed = FALSE
    /\ at = [t \in Threads |-> "idle"] /\ op = [t \in Threads |-> "publish"]
    /\ item = [t \in Threads |-> 0] /\ pos = [t \in Threads |-> 1]
    /\ made = 0 /\ accepted = <<>> /\ got = <<>>

Goto(t, where) == at' = [at EXCEPT ![t] = where]

-----------------------------------------------------------------------------
(* publish() *)

\* Dropped once the flag is set.
Publish(t) ==
    /\ at[t] = "idle" /\ made < MaxItems
    /\ made' = made + 1
    /\ IF closed THEN UNCHANGED <<at, op, item>>
       ELSE /\ Goto(t, "append") /\ op' = [op EXCEPT ![t] = "publish"]
            /\ item' = [item EXCEPT ![t] = made']
    /\ UNCHANGED <<buffer, closed, innerClosed, pos, accepted, got>>

AppendItem(t) ==
    /\ at[t] = "append"
    /\ buffer' = Append(buffer, item[t]) /\ accepted' = Append(accepted, item[t])
    /\ Goto(t, "size")
    /\ UNCHANGED <<closed, innerClosed, op, item, pos, made, got>>

CheckSize(t) ==
    /\ at[t] = "size"
    /\ IF Len(buffer) >= BufferSize
       THEN Goto(t, "batch") /\ pos' = [pos EXCEPT ![t] = 1]
       ELSE Goto(t, "idle") /\ UNCHANGED pos
    /\ UNCHANGED <<buffer, closed, innerClosed, op, item, made, accepted, got>>

-----------------------------------------------------------------------------
(* publish_batch() and the clear that follows it *)

\* Faulty: hands the list over from its end.
BatchBackwards(t) ==
    /\ at[t] = "batch"
    /\ \/ /\ pos[t] > Len(buffer)
          /\ Goto(t, "clear") /\ UNCHANGED <<pos, got>>
       \/ /\ pos[t] <= Len(buffer) /\ Len(got) < MaxGot
          /\ got' = Append(got, buffer[Len(buffer) + 1 - pos[t]])
          /\ pos' = [pos EXCEPT ![t] = @ + 1]
          /\ UNCHANGED at
    /\ UNCHANGED <<buffer, closed, innerClosed, op, item, made, accepted>>

\* Faulty: clears the list even when the wrapped publisher raised.
BatchClearsAlways(t) ==
    /\ at[t] = "batch"
    /\ \/ /\ pos[t] > Len(buffer) \/ InnerMayFail
          /\ Goto(t, "clear") /\ UNCHANGED <<pos, got>>
       \/ /\ pos[t] <= Len(buffer) /\ Len(got) < MaxGot
          /\ got' = Append(got, buffer[pos[t]])
          /\ pos' = [pos EXCEPT ![t] = @ + 1]
          /\ UNCHANGED at
    /\ UNCHANGED <<buffer, closed, innerClosed, op, item, made, accepted>>

\* One turn of the loop over the live list.  What the wrapped publisher raises
\* leaves publish() or close() with the list as it is.
Batch(t) ==
    /\ at[t] = "batch"
    /\ \/ /\ pos[t] > Len(buffer)
          /\ Goto(t, "clear") /\ UNCHANGED <<pos, got>>
       \/ /\ pos[t] <= Len(buffer) /\ Len(got) < MaxGot
          /\ got' = Append(got, buffer[pos[t]])
          /\ pos' = [pos EXCEPT ![t] = @ + 1]
          /\ UNCHANGED at
       \/ /\ pos[t] <= Len(buffer) /\ InnerMayFail
          /\ Goto(t, "idle") /\ UNCHANGED <<pos, got>>
    /\ UNCHANGED <<buffer, closed, innerClosed, op, item, made, accepted>>

Clear(t) ==
    /\ at[t] = "clear"
    /\ buffer' = <<>>
    /\ Goto(t, IF op[t] = "publish" THEN "idle" ELSE "close")
    /\ UNCHANGED <<closed, innerClosed, op, item, pos, made, accepted, got>>

-----------------------------------------------------------------------------
(* close() *)

Close(t) ==
    /\ at[t] = "idle" /\ ~closed
    /\ op' = [op EXCEPT ![t] = "close"] /\ pos' = [pos EXCEPT ![t] = 1]
    /\ Goto(t, "batch")
    /\ UNCHANGED <<buffer, closed, innerClosed, item, made, accepted, got>>

\* The wrapped publisher's close() may raise: the flag is then not set and
\* close() can be called again.
CloseInner(t) ==
    /\ at[t] = "close"
    /\ \/ innerClosed' = TRUE /\ Goto(t, "flag")
       \/ InnerMayFail /\ Goto(t, "idle") /\ UNCHANGED innerClosed
    /\ UNCHANGED <<buffer, closed, op, item, pos, made, accepted, got>>

SetClosed(t) ==
    /\ at[t] = "flag"
    /\ closed' = TRUE /\ Goto(t, "idle")
    /\ UNCHANGED <<buffer, innerClosed, op, item, pos, made, accepted, got>>

-----------------------------------------------------------------------------

ThreadStep(t) ==
    \/ Publish(t) \/ AppendItem(t) \/ CheckSize(t)
    \/ Batch(t) \/ Clear(t)
    \/ Close(t) \/ CloseInner(t) \/ SetClosed(t)

Next == \E t \in Threads : ThreadStep(t)

Spec == Init /\ [][Next]_vars

-----------------------------------------------------------------------------
(* Properties *)

\* No item is lost: what publish() took is in the list or has reached the
\* wrapped publisher, also when that raises in the middle of a batch and the
\* batch is sent again.
NoLoss == ToSet(accepted) \subseteq ToSet(buffer) \cup ToSet(got)

\* Up to the items that are sent again after a failure, the wrapper is a relay:
\* the wrapped publisher sees every item in the order of publish(), and none
\* after its close().
Firsts(s) == {i \in 1..Len(s) : \A j \in 1..(i - 1) : s[j] # s[i]}
InTurn(s, k) == {s[i] : i \in {i \in Firsts(s) : Cardinality({j \in Firsts(s) : j <= i}) = k}}
FirstTimes(s) == [k \in 1..Cardinality(Firsts(s)) |-> CHOOSE x \in InTurn(s, k) : TRUE]
FirstSeen == FirstTimes(got)
R == INSTANCE Relay WITH accepted <- accepted, delivered <- FirstSeen, ended <- innerClosed
ImplementsRelay == R!RelaySpec
=============================================================================
