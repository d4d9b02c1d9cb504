----------------------------- MODULE SdrStream -----------------------------
(***************************************************************************)
(* The IQ stream of a software-defined radio                               *)
(* (packages/instro-unstable, sdr.py, InstroSDR).                          *)
(*                                                                         *)
(* One thread starts and stops streams, the daemon and any other thread    *)
(* read blocks.  All of them reach the radio under one lock, _resource_    *)
(* lock, so a step of this module is what one hold of that lock does.  The *)
(* radio takes one receive sample per tick; a stream keeps the last Depth  *)
(* of them and counts those it lost, and a block is stamped with the host  *)
(* clock when it is read, however late that is.                            *)
(***************************************************************************)
EXTENDS Naturals, FiniteSets

CONSTANTS
    Lengths,   \* the `n_samples` arguments
    Depth,     \* samples a stream's buffer keeps
    MaxNow     \* bound: ticks in a behaviour

VARIABLES
    opened,    \* the radio is open
    flowing,   \* directions that stream in the radio
    streams,   \* _streams: directions that stream for InstroSDR
    daemon,    \* the daemon runs fetch_iq
    stale,     \* history: close() left a stream listed
    ctl,       \* where the controlling thread is in start(), stop() or close()
    now,       \* the host clock
    next,      \* the next sample the radio hands out
    due,       \* the sample that would follow the last one read
    last,      \* _last_iq_timestamp, 0 for None
    block,     \* the last block stamped: its first sample, its first stamp, its length
    before,    \* the block before that
    chain      \* history: 2 when nothing but counted losses lies between the
               \* two, 1 when the last block may begin such a pair

radio == <<opened, flowing, now>>
control == <<streams, daemon, stale, ctl>>
stamping == <<last, block, before, chain>>
vars == <<radio, control, next, due, stamping>>

Directions == {"rx", "tx"}
NoBlock == [first |-> 0, stamp |-> 0, length |-> 0]
Latest(a, b) == IF a >= b THEN a ELSE b

Init ==
    /\ opened = FALSE /\ flowing = {} /\ now = 1
    /\ streams = {} /\ daemon = FALSE /\ stale = FALSE /\ ctl = "idle"
    /\ next = 1 /\ due = 1
    /\ last = 0 /\ block = NoBlock /\ before = NoBlock /\ chain = 0

Open ==
    /\ ctl = "idle" /\ ~opened
    /\ opened' = TRUE
    /\ UNCHANGED <<flowing, now, control, next, due, stamping>>

-----------------------------------------------------------------------------
(* Streams.                                                                *)

\* start(): the driver may refuse; a stream begins with the next sample.  A
\* radio that streams already refuses.
Start(d, background) ==
    /\ ctl = "idle" /\ opened /\ d \notin flowing
    /\ flowing' = flowing \cup {d}
    /\ streams' = streams \cup {d}
    /\ IF d = "rx" THEN next' = now + 1 /\ due' = now + 1 /\ chain' = 0
       ELSE UNCHANGED <<next, due, chain>>
    /\ ctl' = IF background THEN "daemon" ELSE "idle"
    /\ UNCHANGED <<opened, now, daemon, stale, last, block, before>>

\* super().start(), outside the lock.
StartDaemon ==
    /\ ctl = "daemon"
    /\ daemon' = TRUE /\ ctl' = "idle"
    /\ UNCHANGED <<radio, streams, stale, next, due, stamping>>

\* stop(), and close() which begins with it: super().stop() joins the daemon,
Stop(path) ==
    /\ ctl = "idle" /\ opened
    /\ daemon' = FALSE /\ ctl' = path
    /\ UNCHANGED <<radio, streams, stale, next, due, stamping>>

Then(path) == IF path = "close" THEN "release" ELSE "idle"

\* then each direction in turn; one that raises ends stop(), and is dropped
\* from _streams like one that does not.
StopStream(d) ==
    /\ ctl \in {"stop", "close"} /\ d \in streams
    /\ streams' = streams \ {d}
    /\ \/ flowing' = flowing \ {d} /\ UNCHANGED ctl
       \/ flowing' \in {flowing, flowing \ {d}} /\ ctl' = Then(ctl)
    /\ UNCHANGED <<opened, now, daemon, stale, next, due, stamping>>

Stopped ==
    /\ ctl \in {"stop", "close"} /\ streams = {}
    /\ ctl' = Then(ctl)
    /\ UNCHANGED <<radio, streams, daemon, stale, next, due, stamping>>

\* close() goes on in any case: what stop() raised is swallowed, and a stream
\* it did not come to stays listed.
Release ==
    /\ ctl = "release"
    /\ opened' = FALSE /\ flowing' = {}
    /\ ctl' = "idle"
    /\ stale' = (stale \/ streams # {})
    /\ UNCHANGED <<now, streams, daemon, next, due, stamping>>

-----------------------------------------------------------------------------
(* Blocks.                                                                 *)

\* Time passes; a stream whose buffer is full loses its oldest sample.
Tick ==
    /\ now < MaxNow
    /\ now' = now + 1
    /\ next' = IF "rx" \in flowing /\ now' - next >= Depth THEN next + 1 ELSE next
    /\ UNCHANGED <<opened, flowing, control, due, stamping>>

\* Faulty: the samples a stream lost are not allowed for.
ContinuedBare(dropped) == last + 1

Continued(dropped) == last + dropped + 1

\* _iq_timestamps: n samples that begin with `first`, read at `now`; the first
\* stamp is counted back from the clock, but never before the timeline goes on.
Stamp(first, n, dropped) ==
    LET back == (now + 1) - n
        t0 == IF last = 0 THEN back ELSE Latest(back, Continued(dropped))
    IN  /\ last' = t0 + n - 1
        /\ block' = [first |-> first, stamp |-> t0, length |-> n]
        /\ before' = block

\* fetch_iq(), or a measurement routed to the stream.
FetchBlock(n) ==
    /\ next + n - 1 <= now
    /\ next' = next + n /\ due' = next + n
    /\ Stamp(next, n, next - due)
    /\ chain' = IF chain = 0 THEN 1 ELSE 2
    /\ UNCHANGED <<radio, control>>

\* fetch_iq(), whatever _streams says, and measure_iq(), measure_spectrum() or
\* compute_psd() while it lists a stream; the driver refuses the others.
Fetch(n) == opened /\ "rx" \in flowing /\ FetchBlock(n)

\* ... of which those that ask for a channel the stream does not cover consume the
\* block before select() raises.
RoutedInVain(n) ==
    /\ "rx" \in streams /\ "rx" \in flowing
    /\ next + n - 1 <= now
    /\ next' = next + n /\ due' = next + n
    /\ chain' = 0
    /\ UNCHANGED <<radio, control, last, block, before>>

\* ... and while none does: a read of its own, whenever in the past it began.
Direct(n, first) ==
    /\ opened /\ "rx" \notin streams /\ "rx" \notin flowing
    /\ due <= first /\ first + n - 1 <= now
    /\ next' = first + n /\ due' = first + n
    /\ Stamp(first, n, 0)
    /\ chain' = 0
    /\ UNCHANGED <<radio, control>>

-----------------------------------------------------------------------------
Next ==
    \/ Open
    \/ \E d \in Directions, background \in BOOLEAN : Start(d, background)
    \/ StartDaemon \/ (\E path \in {"stop", "close"} : Stop(path))
    \/ (\E d \in Directions : StopStream(d)) \/ Stopped \/ Release
    \/ Tick
    \/ \E n \in Lengths : Fetch(n) \/ RoutedInVain(n)
    \/ \E n \in Lengths, first \in 1..MaxNow : Direct(n, first)

Spec == Init /\ [][Next]_vars
-----------------------------------------------------------------------------
TypeOK ==
    /\ opened \in BOOLEAN /\ daemon \in BOOLEAN /\ stale \in BOOLEAN /\ chain \in 0..2
    /\ flowing \subseteq Directions /\ streams \subseteq Directions
    /\ ctl \in {"idle", "daemon", "stop", "close", "release"}
    /\ now \in 1..MaxNow
    /\ {next, due} \subseteq 1..(MaxNow + 1)
    /\ last \in Nat

\* Blocks are on one timeline, whoever reads them and whether from a stream or
\* straight from the radio: none begins before the one before it has ended,
\* and inside a stream two blocks are stamped at least as far apart as their
\* samples were taken, losses included, however late each of them was read
\* ("a dropout keeps its true width").  And unless
\* close() came to a stream that would not stop and left another listed, no
\* read is ever routed to a stream that the radio has ended.
OneTimeline ==
    /\ before # NoBlock => block.stamp >= before.stamp + before.length
    /\ before # NoBlock /\ chain = 2 => block.stamp - before.stamp >= block.first - before.first
    /\ stale \/ streams \subseteq flowing
=============================================================================
