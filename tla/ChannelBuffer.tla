---------------------------- MODULE ChannelBuffer ----------------------------
(***************************************************************************)
(* The in-memory channel buffer of an instrument                           *)
(* (instro/lib/publishers/channel_buffer.py, DequeInMemoryPublisher).      *)
(*                                                                         *)
(* Writers publish measurements, readers call get(), and anybody closes    *)
(* it.  Everything but one membership test runs under one Condition; a     *)
(* step of this module is the code between two points where a thread may   *)
(* lose that lock: the call, a wait, the return.  A sample is its          *)
(* timestamp: measurement samples carry increasing ticks of `clock`, and   *)
(* the value of a sample is its tick too, so that a value read beside the  *)
(* wrong timestamp, or a window with a hole in it, shows.                  *)
(***************************************************************************)
EXTENDS Naturals, Sequences

CONSTANTS
    Readers,    \* threads calling get()
    Channels,   \* channel names that may be published
    MaxLen,     \* maxlen, the samples kept per channel
    Lengths,    \* the `length` arguments readers pass
    Batches,    \* numbers of samples in one Measurement
    MaxClock    \* bound: samples published in a behaviour

ASSUME BufferAssumption ==
    /\ MaxLen \in Nat \ {0}
    /\ Channels # {}
    /\ Lengths \subseteq Nat \ {0} /\ Lengths # {}
    /\ Batches \subseteq Nat
    /\ MaxClock \in Nat

VARIABLES
    values,     \* _values: the channels seen so far, each a deque of values
    stamps,     \* _timestamps
    total,      \* _total_added_count, a Counter: 0 for a missing channel
    closed,     \* _closed
    clock,      \* the last tick given to a sample
    hist,       \* history: all samples ever published, per channel
    pc,         \* where each reader is in get()
    req,        \* the arguments of the reader's call
    target,     \* target_count of _get_with_wait
    awake,      \* FALSE while the reader sleeps in Condition.wait
    outcome,    \* how the reader's last call ended, and the samples it returned
    arrived     \* history: samples of req.ch published before the call

vars == <<values, stamps, total, closed, clock, hist,
          pc, req, target, awake, outcome, arrived>>
store == <<values, stamps, total, closed, clock, hist>>

Requests == [ch : Channels, length : Lengths, fresh : BOOLEAN]

LastN(s, n) == SubSeq(s, Len(s) - n + 1, Len(s))
Least(a, b) == IF a <= b THEN a ELSE b

\* Faulty: a full deque drops the new samples.
ExtendKeepsOldest(s, xs) == LET both == s \o xs IN SubSeq(both, 1, Least(MaxLen, Len(both)))

\* A deque(maxlen) after extend(xs).
Extend(s, xs) == LET both == s \o xs IN LastN(both, Least(MaxLen, Len(both)))

Known(c) == c \in DOMAIN values

Nothing == [kind |-> "none", samples |-> <<>>]
Raised(kind) == [Nothing EXCEPT !.kind = kind]
Ok(c, n) == [Nothing EXCEPT !.kind = "ok",
                            !.samples = LastN(values[c], Least(n, Len(values[c])))]

Kinds == {"none", "ok", "closed_early", "key_error", "value_error", "value_timeout", "not_found"}

TypeOK ==
    /\ DOMAIN values \subseteq Channels
    /\ \A c \in DOMAIN values : values[c] \in Seq(1..MaxClock) /\ Len(values[c]) <= MaxLen
    /\ DOMAIN stamps = DOMAIN values
    /\ total \in [Channels -> Nat]
    /\ closed \in BOOLEAN
    /\ clock \in 0..MaxClock
    /\ hist \in [Channels -> Seq(1..MaxClock)]
    /\ pc \in [Readers -> {"idle", "probe", "find", "count", "waitCount", "waitPoints"}]
    /\ req \in [Readers -> Requests]
    /\ target \in [Readers -> Nat]
    /\ awake \in [Readers -> BOOLEAN]
    /\ outcome \in [Readers -> [kind : Kinds, samples : Seq(1..MaxClock)]]
    /\ arrived \in [Readers -> Nat]

Init ==
    /\ values = << >> /\ stamps = << >>
    /\ total = [c \in Channels |-> 0]
    /\ closed = FALSE
    /\ clock = 0
    /\ hist = [c \in Channels |-> <<>>]
    /\ pc = [r \in Readers |-> "idle"]
    /\ req = [r \in Readers |-> CHOOSE q \in Requests : ~q.fresh]
    /\ target = [r \in Readers |-> 0]
    /\ awake = [r \in Readers |-> TRUE]
    /\ outcome = [r \in Readers |-> Nothing]
    /\ arrived = [r \in Readers |-> 0]

-----------------------------------------------------------------------------
(* Writers *)

NotifyAll == awake' = [r \in Readers |-> TRUE]

\* publish(): there is no test of _closed, so a publish after close() brings
\* the channel back.
Publish(cs, n) ==
    LET new == [i \in 1..n |-> clock + i]
        all == DOMAIN values \cup cs
        put(store_, c) == LET old == IF c \in DOMAIN store_ THEN store_[c] ELSE <<>>
                          IN IF c \in cs THEN Extend(old, new) ELSE old
    IN /\ clock + n <= MaxClock
       /\ values' = [c \in all |-> put(values, c)]
       /\ stamps' = [c \in all |-> put(stamps, c)]
       /\ total' = [c \in Channels |-> IF c \in cs THEN total[c] + n ELSE total[c]]
       /\ hist' = [c \in Channels |-> IF c \in cs THEN hist[c] \o new ELSE hist[c]]
       /\ clock' = clock + n
       /\ NotifyAll
       /\ UNCHANGED <<closed, pc, req, target, outcome, arrived>>

\* Faulty: the waiters are not told.
CloseSilently ==
    /\ closed' = TRUE
    /\ values' = << >> /\ stamps' = << >>
    /\ total' = [c \in Channels |-> 0]
    /\ UNCHANGED <<clock, hist, pc, req, target, awake, outcome, arrived>>

Close ==
    /\ closed' = TRUE
    /\ NotifyAll
    /\ values' = << >> /\ stamps' = << >>
    /\ total' = [c \in Channels |-> 0]
    /\ UNCHANGED <<clock, hist, pc, req, target, outcome, arrived>>

-----------------------------------------------------------------------------
(* Readers *)

Return(r, out) ==
    /\ pc' = [pc EXCEPT ![r] = "idle"]
    /\ outcome' = [outcome EXCEPT ![r] = out]
    /\ awake' = [awake EXCEPT ![r] = TRUE]
    /\ target' = [target EXCEPT ![r] = 0]
    /\ UNCHANGED <<store, req, arrived>>

Move(r, at) ==
    /\ pc' = [pc EXCEPT ![r] = at]
    /\ UNCHANGED <<store, req, target, outcome, arrived>>

\* wait_for found its predicate false: release the lock and sleep.
Sleep(r, at) == Move(r, at) /\ awake' = [awake EXCEPT ![r] = FALSE]
Proceed(r, at) == Move(r, at) /\ awake' = awake

Call(r, q) ==
    /\ pc[r] = "idle"
    /\ req' = [req EXCEPT ![r] = q]
    /\ pc' = [pc EXCEPT ![r] = IF q.fresh THEN "probe" ELSE "find"]
    /\ awake' = [awake EXCEPT ![r] = TRUE]
    /\ outcome' = [outcome EXCEPT ![r] = Nothing]
    /\ arrived' = [arrived EXCEPT ![r] = Len(hist[q.ch])]
    /\ UNCHANGED <<store, target>>

\* `if channel_name not in self._values`, outside the lock.
Probe(r) ==
    /\ pc[r] = "probe"
    /\ Proceed(r, IF Known(req[r].ch) THEN "count" ELSE "find")

\* The last lines of both paths, in the lock hold that ended the wait.
Finish(r, enough) ==
    LET c == req[r].ch
    IN IF closed /\ ~enough THEN Return(r, Raised("closed_early"))
       ELSE IF ~Known(c) THEN Return(r, Raised("key_error"))
       ELSE Return(r, Ok(c, req[r].length))

\* wait_for(channel in _values or _closed), then the closed test.  A fresh
\* call gives the lock up before _get_with_wait; the other goes on under it.
\* `expired` is `remaining <= 0`: the second wait is skipped.
Find(r, expired) ==
    LET c == req[r].ch
    IN /\ pc[r] = "find" /\ awake[r]
       /\ IF ~(Known(c) \/ closed) THEN Sleep(r, "find")
          ELSE IF closed THEN Return(r, Raised("value_error"))
          ELSE IF req[r].fresh THEN Proceed(r, "count")
          ELSE IF expired \/ Len(values[c]) >= req[r].length
               THEN Return(r, Ok(c, req[r].length))
          ELSE Sleep(r, "waitPoints")

\* Woken in the second wait of _get_with_buffer_wait.  The predicate looks
\* the channel up before it looks at _closed.
WakePoints(r) ==
    LET c == req[r].ch
    IN /\ pc[r] = "waitPoints" /\ awake[r]
       /\ IF ~Known(c) THEN Return(r, Raised("key_error"))
          ELSE IF Len(values[c]) >= req[r].length \/ closed
               THEN Finish(r, Len(values[c]) >= req[r].length)
          ELSE Sleep(r, "waitPoints")

\* Faulty: wait for `length` samples in all, not `length` more.
StartCountFromZero(r) ==
    /\ pc[r] = "count" /\ ~closed
    /\ target' = [target EXCEPT ![r] = req[r].length]
    /\ pc' = [pc EXCEPT ![r] = "waitCount"]
    /\ UNCHANGED <<store, req, awake, outcome, arrived>>

\* _get_with_wait enters: count from here, and evaluate the predicate once.
StartCount(r) ==
    LET goal == total[req[r].ch] + req[r].length
    IN /\ pc[r] = "count"
       /\ target' = [target EXCEPT ![r] = goal]
       /\ IF closed
          THEN /\ pc' = [pc EXCEPT ![r] = "idle"]
               /\ outcome' = [outcome EXCEPT ![r] = Raised("closed_early")]
               /\ awake' = awake
          ELSE /\ pc' = [pc EXCEPT ![r] = "waitCount"]
               /\ awake' = [awake EXCEPT ![r] = FALSE]
               /\ outcome' = outcome
       /\ UNCHANGED <<store, req, arrived>>

WakeCount(r) ==
    LET enough == total[req[r].ch] >= target[r]
    IN /\ pc[r] = "waitCount" /\ awake[r]
       /\ IF enough \/ closed THEN Finish(r, enough) ELSE Sleep(r, "waitCount")

\* A wait ran out of time: wait_for evaluates its predicate once more.
Timeout(r) ==
    LET c == req[r].ch
    IN \/ /\ pc[r] = "find" /\ ~Known(c) /\ ~closed
          /\ Return(r, Raised("not_found"))
       \/ /\ pc[r] = "waitPoints"
          /\ IF ~Known(c) THEN Return(r, Raised("key_error"))
             ELSE /\ Len(values[c]) < req[r].length /\ ~closed
                  /\ Return(r, Raised("value_timeout"))
       \/ /\ pc[r] = "waitCount" /\ total[c] < target[r] /\ ~closed
          /\ Return(r, Raised("value_timeout"))

ReaderStep(r) ==
    \/ Probe(r)
    \/ \E expired \in BOOLEAN : Find(r, expired)
    \/ WakePoints(r)
    \/ StartCount(r)
    \/ WakeCount(r)

Next ==
    \/ \E cs \in SUBSET Channels \ {{}}, n \in Batches : Publish(cs, n)
    \/ Close
    \/ \E r \in Readers :
         \/ \E q \in Requests : Call(r, q)
         \/ ReaderStep(r)
         \/ Timeout(r)

Spec == Init /\ [][Next]_vars

-----------------------------------------------------------------------------
(* Properties *)

\* The deque of a channel is exactly the newest samples published since the
\* buffer was opened (or since close() emptied it), capped at maxlen, in order
\* and with no hole, and its timestamps belong to its values.
WindowIsNewest ==
    \A c \in DOMAIN values :
        /\ values[c] = LastN(hist[c], Least(MaxLen, total[c]))
        /\ stamps[c] = values[c]

\* A get() that waits for new samples hands out only samples published after
\* the call, unless more were asked for than a channel keeps.
FreshMeansNew ==
    \A r \in Readers :
        /\ pc[r] = "idle" /\ outcome[r].kind = "ok"
        /\ req[r].fresh /\ req[r].length <= MaxLen
        => /\ Len(outcome[r].samples) = req[r].length
           /\ \A i \in 1..req[r].length, j \in 1..arrived[r] :
                  outcome[r].samples[i] # hist[req[r].ch][j]

\* A sleeping reader has nothing to do: every publish and close that could
\* satisfy its predicate has notified it (no lost wakeup).
NoLostWakeup ==
    \A r \in Readers : ~awake[r] =>
        /\ ~closed
        /\ pc[r] = "find" => ~Known(req[r].ch)
        /\ pc[r] = "waitCount" => total[req[r].ch] < target[r]
        /\ pc[r] = "waitPoints" => Known(req[r].ch) /\ Len(values[req[r].ch]) < req[r].length
=============================================================================
