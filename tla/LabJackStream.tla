--------------------------- MODULE LabJackStream ---------------------------
(***************************************************************************)
(* The stream of a LabJack T-series device                                 *)
(* (packages/instro-daq-labjack, t_series.py).                             *)
(*                                                                         *)
(* The vendor's library (LJM) calls _stream_callback from a thread of its  *)
(* own whenever a block of scans is ready; the callback reads the block    *)
(* and queues it, fetch_analog takes it out and stamps it.  start() and    *)
(* stop() run in the caller's thread; the library's call that unregisters  *)
(* the callback waits for one in flight, and the lock _stream_lock orders  *)
(* the callback's read against stop().                                     *)
(*                                                                         *)
(* There is one fetcher: the daemon of InstroDAQ, which its stop() joins   *)
(* before it stops the driver (module DAQ), or the caller itself.  That    *)
(* order is the caller's: it stands in Next, not in Stop and Close.        *)
(* Streams are numbered from 1, and so are the blocks of each.             *)
(***************************************************************************)
EXTENDS Naturals, Sequences

CONSTANTS
    MaxStreams,   \* bound: streams started in a behaviour
    MaxBlocks,    \* bound: blocks read of each stream
    MaxQueue      \* bound: blocks waiting in the queue

VARIABLES
    opened,       \* _handle is not None
    inputs,       \* an analog input is configured
    timed,        \* _global_scan_rate is set
    active,       \* _streaming_active
    lock,         \* _stream_lock: "free", "control" or "callback"
    queue,        \* _data_queue: <<stream, block>>
    stamper,      \* _timestamper: the stream whose block seeded it, 0 for None
    streaming,    \* the device streams
    stream,       \* the number of the last stream started
    taken,        \* blocks read of it
    registered,   \* the library has the callback
    ctl,          \* where the caller is in start() or stop()
    cb,           \* where the library's thread is in the callback
    fetch,        \* where the fetcher is in fetch_analog()
    block,        \* the block the fetcher took out last
    spoiled       \* history: the library refused to unregister the callback

device == <<streaming, stream, taken>>
config == <<opened, inputs, timed>>
vars == <<config, active, lock, queue, stamper, device, registered, ctl, cb, fetch, block, spoiled>>

NoBlock == <<0, 0>>

Init ==
    /\ opened = FALSE /\ inputs = FALSE /\ timed = FALSE
    /\ active = FALSE /\ lock = "free" /\ queue = <<>> /\ stamper = 0
    /\ streaming \in BOOLEAN      \* left on by a process that died
    /\ stream = 0 /\ taken = 0
    /\ registered = FALSE
    /\ ctl = "idle" /\ cb = "out" /\ fetch = "idle" /\ block = NoBlock
    /\ spoiled = FALSE

Goto(place) == ctl' = place

-----------------------------------------------------------------------------
(* The caller.                                                             *)

\* A stream that is still running is stopped; the failure of that is
\* swallowed (_stop_stream).
StopStream == streaming' \in {FALSE, streaming} /\ UNCHANGED <<stream, taken>>

Open ==
    /\ ctl = "idle" /\ ~opened
    /\ opened' = TRUE
    /\ StopStream
    /\ UNCHANGED <<inputs, timed, active, lock, queue, stamper, registered, ctl, cb, fetch, block, spoiled>>

\* ljm.close() ends the stream and forgets the callback, after one in flight.
Close ==
    /\ ctl = "idle" /\ opened /\ cb = "out"
    /\ opened' = FALSE /\ registered' = FALSE /\ streaming' = FALSE
    /\ UNCHANGED <<inputs, timed, active, lock, queue, stamper, stream, taken, ctl, cb, fetch, block, spoiled>>

\* InstroDAQ configures a device that does not acquire; writing the registers
\* may raise before anything is remembered.
Configure ==
    /\ ctl = "idle" /\ opened /\ ~active
    /\ \/ inputs' = TRUE /\ UNCHANGED timed
       \/ inputs /\ timed' = TRUE /\ UNCHANGED inputs
    /\ UNCHANGED <<opened, active, lock, queue, stamper, device, registered, ctl, cb, fetch, block, spoiled>>

\* start(): refused without a configuration or while streaming; the library
\* may refuse too, and does if the device streams already.
Start ==
    /\ ctl = "idle" /\ opened /\ timed /\ inputs /\ ~active
    /\ stamper' = 0
    /\ \/ /\ ~streaming /\ stream < MaxStreams
          /\ streaming' = TRUE /\ stream' = stream + 1 /\ taken' = 0
          /\ Goto("activate")
       \/ UNCHANGED <<device, ctl>>
    /\ UNCHANGED <<config, active, lock, queue, registered, cb, fetch, block, spoiled>>

Activate ==
    /\ ctl = "activate" /\ lock = "free"
    /\ active' = TRUE
    /\ Goto("register")
    /\ UNCHANGED <<config, lock, queue, stamper, device, registered, cb, fetch, block, spoiled>>

\* setStreamCallback(callback), and what start() does if it raises.
Register ==
    /\ ctl = "register"
    /\ \/ registered' = TRUE /\ Goto("idle")
       \/ UNCHANGED registered /\ Goto("retract")
    /\ UNCHANGED <<config, active, lock, queue, stamper, device, cb, fetch, block, spoiled>>

Retract ==
    /\ ctl = "retract" /\ lock = "free"
    /\ active' = FALSE
    /\ Goto("giveUp")
    /\ UNCHANGED <<config, lock, queue, stamper, device, registered, cb, fetch, block, spoiled>>

GiveUp ==
    /\ ctl = "giveUp"
    /\ StopStream
    /\ Goto("idle")
    /\ UNCHANGED <<config, active, lock, queue, stamper, registered, cb, fetch, block, spoiled>>

\* stop(): nothing to do unless streaming.
Stop ==
    /\ ctl = "idle" /\ active /\ lock = "free"
    /\ active' = FALSE
    /\ Goto("unregister")
    /\ UNCHANGED <<config, lock, queue, stamper, device, registered, cb, fetch, block, spoiled>>

\* setStreamCallback(None) waits for a callback in flight; or it raises, and
\* stop() ends there.
Unregister ==
    /\ ctl = "unregister"
    /\ \/ cb = "out" /\ registered' = FALSE /\ Goto("halt") /\ UNCHANGED spoiled
       \/ UNCHANGED registered /\ Goto("idle") /\ spoiled' = TRUE
    /\ UNCHANGED <<config, active, lock, queue, stamper, device, cb, fetch, block>>

Halt ==
    /\ ctl = "halt"
    /\ StopStream
    /\ stamper' = 0
    /\ Goto("drain")
    /\ UNCHANGED <<config, active, lock, queue, registered, cb, fetch, block, spoiled>>

\* _drain_stream_queue discards what the callback queued.
\* Faulty: only the oldest block is discarded.
DrainOne ==
    /\ ctl = "drain"
    /\ queue' = IF queue = <<>> THEN <<>> ELSE Tail(queue)
    /\ Goto("idle")
    /\ UNCHANGED <<config, active, lock, stamper, device, registered, cb, fetch, block, spoiled>>

Drain ==
    /\ ctl = "drain"
    /\ queue' = <<>>
    /\ Goto("idle")
    /\ UNCHANGED <<config, active, lock, stamper, device, registered, cb, fetch, block, spoiled>>

-----------------------------------------------------------------------------
(* The library's thread.                                                   *)

\* A block is ready: the callback is entered.
Enter ==
    /\ cb = "out" /\ registered /\ streaming
    /\ taken < MaxBlocks /\ Len(queue) < MaxQueue
    /\ cb' = "want"
    /\ UNCHANGED <<config, active, lock, queue, stamper, device, registered, ctl, fetch, block, spoiled>>

Look ==
    /\ cb = "want" /\ lock = "free"
    /\ IF active THEN lock' = "callback" /\ cb' = "read" ELSE UNCHANGED lock /\ cb' = "out"
    /\ UNCHANGED <<config, active, queue, stamper, device, registered, ctl, fetch, block, spoiled>>

\* eStreamRead, and the lock is let go.
ReadBlock ==
    /\ cb = "read"
    /\ taken' = taken + 1
    /\ lock' = "free" /\ cb' = "put"
    /\ UNCHANGED <<config, active, queue, stamper, streaming, stream, registered, ctl, fetch, block, spoiled>>

Put ==
    /\ cb = "put"
    /\ queue' = Append(queue, <<stream, taken>>)
    /\ cb' = "out"
    /\ UNCHANGED <<config, active, lock, stamper, device, registered, ctl, fetch, block, spoiled>>

-----------------------------------------------------------------------------
(* The fetcher.                                                            *)

Fetch ==
    /\ fetch = "idle" /\ active
    /\ fetch' = "wait"
    /\ UNCHANGED <<config, active, lock, queue, stamper, device, registered, ctl, cb, block, spoiled>>

TakeOut ==
    /\ fetch = "wait" /\ queue # <<>>
    /\ block' = Head(queue) /\ queue' = Tail(queue)
    /\ fetch' = "stamp"
    /\ UNCHANGED <<config, active, lock, stamper, device, registered, ctl, cb, spoiled>>

\* Nothing came before the deadline.
Expire ==
    /\ fetch = "wait" /\ queue = <<>>
    /\ fetch' = "idle"
    /\ UNCHANGED <<config, active, lock, queue, stamper, device, registered, ctl, cb, block, spoiled>>

\* _read_to_measurements: the first block of a stream anchors its timeline,
\* the others continue it.
Stamp ==
    /\ fetch = "stamp"
    /\ stamper' = IF stamper = 0 THEN block[1] ELSE stamper
    /\ fetch' = "idle"
    /\ UNCHANGED <<config, active, lock, queue, device, registered, ctl, cb, block, spoiled>>

-----------------------------------------------------------------------------
(* The order that InstroDAQ keeps.  The driver tests neither of these: its *)
(* stop() and close() run whatever a fetcher does.                         *)

\* stop(): the daemon was joined before the driver is stopped.
Joined == fetch = "idle"

\* close(): the driver was stopped before it is closed.
Stopped == Joined /\ ~active

Next ==
    \/ Open \/ (Stopped /\ Close) \/ Configure
    \/ Start \/ Activate \/ Register \/ Retract \/ GiveUp
    \/ (Joined /\ Stop) \/ Unregister \/ Halt \/ Drain
    \/ Enter \/ Look \/ ReadBlock \/ Put
    \/ Fetch \/ TakeOut \/ Expire \/ Stamp

Spec == Init /\ [][Next]_vars

-----------------------------------------------------------------------------
TypeOK ==
    /\ <<opened, inputs, timed, active, streaming, registered, spoiled>> \in
           BOOLEAN \X BOOLEAN \X BOOLEAN \X BOOLEAN \X BOOLEAN \X BOOLEAN \X BOOLEAN
    /\ lock \in {"free", "callback"}
    /\ queue \in Seq((1..MaxStreams) \X (1..MaxBlocks))
    /\ stamper \in 0..MaxStreams
    /\ stream \in 0..MaxStreams /\ taken \in 0..MaxBlocks
    /\ ctl \in {"idle", "activate", "register", "retract", "giveUp", "unregister", "halt", "drain"}
    /\ cb \in {"out", "want", "read", "put"}
    /\ fetch \in {"idle", "wait", "stamp"}
    /\ block \in {NoBlock} \cup (1..MaxStreams) \X (1..MaxBlocks)

\* The callback never reads a stream that stop() has ended ("keeps this read
\* strictly before stop()'s eStreamStop, so it cannot fail"), and unless the
\* library refused to unregister it, what a fetch hands out is a block of the
\* stream that runs now, in order and without a gap, on the timeline that
\* this stream began: nothing of an earlier stream is left in the queue, in
\* the callback or in the stamper.
InOrder == \A i \in DOMAIN queue : queue[i] = <<stream, taken - Len(queue) + i>>

StreamIsCurrent ==
    /\ cb = "read" => streaming
    /\ ~spoiled =>
           /\ active /\ cb # "put" => InOrder
           /\ fetch = "stamp" => block[1] = stream /\ stamper \in {0, stream}
           /\ stamper # 0 => stamper = stream
=============================================================================
