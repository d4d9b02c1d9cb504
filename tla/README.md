# A TLA+ specification of instro

instro drives laboratory instruments from Python: an instrument object talks to
hardware through a driver, polls it from a background thread, and publishes what
it reads. Two protocols (OPC UA, EtherNet/IP) are Rust crates under the Python
packages. This directory holds a specification of the parts whose correctness
depends on the order in which threads, callbacks, failures, devices and messages
meet, the TLC configurations that check them, and machine-checked proofs of some
of what they promise.

To check a run: `tlc -workers 2 -config Instrument.cfg MCInstrument.tla`.
To check the proofs of a module: `tlapm InstrumentProofs.tla`.

Contents: [the system](#the-system), [the modules](#the-modules),
[the runs](#the-runs), [fairness](#fairness), [proofs](#proofs),
[where the code and its documents part](#where-the-code-and-its-documents-part),
[what is not modelled](#what-is-not-modelled), [plan](#plan).

## The system

Paths are under `src/`. `threads` are those that touch the component's state.

| Component | State | Operations | Threads, and what is hard |
|---|---|---|---|
| Instrument, `instro/lib/instrument.py` | the daemon thread, a stop event, the channel buffer, the list of publishers | `start`, `stop`, `close`, `add_publisher`, `publish`, `get_channel`, the daemon loop | No lock anywhere. The program's threads and the daemon read and write the same attributes; the list is iterated while it changes; publishers raise. |
| Channel buffer, `instro/lib/publishers/channel_buffer.py` | a deque of values and one of timestamps per channel (or a numpy ring), counters, closed flag, one condition | `publish`, `get` (two paths), `close` | The daemon publishes, readers wait with timeouts, `stop()` closes. The lock is given up at every wait, and between the two halves of one path. |
| Transport, `instro/lib/transports/transport_base.py` | the owners, the session | `open`, `close`, each with or without naming an owner; `lock` | Several devices share one connection: who may close it, who sets it up. |
| Queued publisher, `instro/lib/publishers/publisher.py` | a bounded queue, a stop event, a worker | `publish`, `close`, the worker loop | The event and the queue are separate; the wrapped publisher raises in the worker. |
| Buffered publisher, same file | a list, a flag | `publish`, `publish_batch`, `close` | Failure in the middle of a batch; no lock. |
| Shared publisher, same file | handles, a count, two kinds of locks | `clone`, `publish`, `close`, `__del__` | Finalizers run anywhere; two locks in turn. |
| Modbus device, `instro/modbus/modbus.py`, over `instro/lib/transports/modbus.py` | opened flag, stop event, ownership, client, socket, lock | `open`, `start`, `stop`, `close`, `read`, `write`, the poll daemon | Many devices on one line, each with a daemon; `close()` against requests in flight; sockets that drop. |
| DAQ, `instro/daq/daq.py` | timing mode, running flag, condition with an acquisition count | configure, `start`, `stop`, `close`, `read_batch`, `read_analog`, the daemon | Readers wait for the daemon's next acquisition; the driver raises. |
| LabJack stream, `packages/instro-daq-labjack/.../t_series.py` | a queue of blocks, a timestamper, flags, a lock | `start`, `stop`, the vendor library's callback, `fetch_analog` | A callback in flight while the stream is taken down and the next one begins. |
| MCC scan, `packages/instro-daq-mcc/.../mccdaq.py`, `mcc_engines.py` | scan list, counter and its offset, samples consumed | configure, `start`, `stop`, `fetch_analog` | The device overwrites the memory that is being copied; a counter of 32 bits. |
| Software-defined radio, `packages/instro-unstable/.../sdr.py` | streams, daemon, last timestamp | `start`, `stop`, `close`, `fetch_iq` and the measurements | Blocks read late and by several threads on one timeline; directions that fail to stop. |
| OPC UA streaming, `crates/instro-opcua/src/client.rs`, `client/stream.rs` | quiet nodes, held-back reads, stop and termination channels | `poll_loop`, `subscription_loop`, `stop`, `stop_timeout`, drop | Two sources of the same data that must be merged in order; a loop that awaits a server; a callback that panics. |
| EtherNet/IP, `packages/instro-ethernetip` and `crates/instro-ethernetip` | session, the client inside, the device's lock, stop event | `open`, `start`, `stop`, `close`, batches and single tags | A session for one thread at a time; errors that drop the client, and the reconnection. |
| Bench instruments: power supplies, multimeters, loads, scopes, generators (`instro/psu`, `dmm`, `eload`, `scope`, `awg`), I2C, flow, motor, chamber, network analyser and scanner | the facade's lock and memory, the transport's lock; in the instrument the selected channel or function and the error queue | every method of every facade and driver | What one caller selects another works on; the entry of one caller's refusal is read by another; sequences that must be seen whole; two nested locks. |
| File, plot and Nominal publishers, simulators, configuration, the NI driver, the rest | see `PROJECT.json` | | See [what is not modelled](#what-is-not-modelled). |

How they interact. An instrument's daemon and the threads of the program call
`Instrument.publish`, which calls `publish` of everything in the list: the
channel buffer, and the publishers the user attached, often a wrapper (queued,
buffered, shared) around a sink. `get_channel` goes through the instrument to the
channel buffer, which `stop()` closes and drops. A Modbus device is an
instrument; its requests, from the daemon or not, take the lock of a transport
that other devices own as well, and its `close()` first joins its daemon, which
may be waiting for that lock. A DAQ is an instrument whose readers wait for its
daemon on a condition of the DAQ; its driver may be fed by a library's thread
(LabJack) or by a device that writes memory (MCC). A bench instrument's facade
takes its own lock, then the driver takes the transport's, and other owners of
the transport come to the same instrument beside it. OPC UA and EtherNet/IP
sessions run in Rust, the first with a loop on its own thread.

What makes each one correct:

- *Instrument*: one daemon at a time over any number of restarts; after
  `stop()` nothing of it is left; while it runs its readers see what it
  publishes; a publish and a close reach every publisher; `stop()` returns and
  leaves no reader blocked.
- *Channel buffer*: the window is the newest samples and has no hole, in either
  storage; "new" samples are new; nobody sleeps through what it waits for.
- *Transport*: an owner keeps its session whatever others do; exactly one owner
  of a session does the setup that is due once.
- *Wrappers*: what was accepted arrives, in order, once (again only after a
  failure), and nothing arrives after the wrapped publisher's `close()`.
- *Modbus device*: only an owner talks on the line; a closed device has let go of
  it; every call returns.
- *DAQ*: the analog inputs change only while nothing acquires; the daemon has a driver to
  talk to; `stop()` and `close()` return and wake readers.
- *Streams*: a fetch returns samples of the stream that runs, of the right channel,
  without a tear, on one timeline.
- *OPC UA*: a node never goes back in time; its newest value always gets through;
  after `stop()` there are no more callbacks; `stop()` returns.
- *EtherNet/IP*: one request at a time in the session; nothing left after `close()`;
  an outage heals.
- *Bench instruments*: a call that returned was accepted by the instrument, worked on
  its own channel and returned the quantity it names; nobody talks into the middle of a
  sequence; nobody waits for ever.

## The modules

```
Transport <== ModbusDevice <-- ModbusDeviceProofs
Relay <== QueuedPublisher    \          ChannelBuffer  \
  ^==== BufferedPublisher     > MCWrappers   NumpyRing  |
        SharedPublisher      /      |    LabJackStream  > MCSamples <-- SamplesProofs
                          WrapperProofs        MccScan  |
Instrument <-- InstrumentProofs              SdrStream /
DAQ <-- DAQProofs
OpcUaStream <-- OpcUaProofs
EipSession <-- EipProofs
Programs <-- Bench <-- BenchProofs
         <-- PowerSupplies, Multimeters, ElectronicLoads, Oscilloscopes,
             WaveformGenerators, ProcessInstruments, AcquisitionDevices
             (all of them and Bench <-- MCBench)
```

`<--` is EXTENDS, `<==` is "implements" (`ModbusDevice` EXTENDS `Transport` besides; the
publishers map to `Relay` by INSTANCE ... WITH). A definition whose comment begins with
*Faulty:* is a plausible bug in the code beside it; no specification uses it. It is
there to show that the properties would notice (`mutants` in `PROJECT.json`).

`MC` modules instantiate for TLC. Three of them join parts that share no state in the
code either: each behaviour of `MCWrappers` is one of the three wrappers, chosen in the
initial state, and the others stay where they are; `MCSamples` does so for the five
places where samples change hands, `MCInstrument` for two instances of `Instrument`. The
fairness of each is that of the part at hand.

The grain of the steps follows the locking in the code. Where nothing is locked
(`Instrument`, `BufferedPublisher`) a step is at most one access to what another
thread writes. Where a lock is held from end to end (`Transport`, `SdrStream`) a call, or
a hold of the lock, is one step. Where a lock is given up in the middle (`ChannelBuffer`, a
condition) a step goes from one point where it may be lost to the next. In `Bench` a step is
one exchange with the instrument, or one lock taken or let go. The OPC UA loop runs
undisturbed between two awaits, and so do its steps.

**Instrument.** `thread`, `stopEvent`, `buffer` and `publishers` are
`_background_thread`, `_background_stop_event`, `_channel_buffer` and
`publishers`. Daemon threads and buffers bear the number of the `start()` that
made them, and `dpc` says where each daemon thread is, which may be none, several,
or one the attribute no longer names. `start()` is `CallStart`, `StartCheck`,
`SetupBuffer`, `BuildBuffer`, `RegisterBuffer`, `ClearStopEvent`, `Spawn`,
`Launch`; `stop()` is `CallStop`, `StopCheck`, `SetStopEvent`, `Join`,
`CloseBuffer`, `RemoveBuffer`, `DropBuffer`, and `close()` goes on with
`ClosePublisher` per publisher. A publish is a loop over the *live* list with an
index of its own (`Deliver`, `Raises`), in a foreground thread (`Publish`), in
the daemon's methods (`DaemonWork`, whose errors are caught) or in its timing
measurement (`DaemonTiming`, whose errors end the thread). `get_channel()` reads
the attributes one by one (`GetCheck`, `GetAssert`, `GetEnter`), then waits
inside a buffer, which here answers, times out or reports that it was closed.

**ChannelBuffer** is what happens inside. A sample is a tick that grows with each
sample, and its value is the same tick, so a hole, an overlap or a value beside
another's timestamp shows. `get()` is `Call`, then `Probe` (the test outside the
lock), `Find` (the wait for the channel), `StartCount` and `WakeCount`
(`_get_with_wait`), `WakePoints` (`_get_with_buffer_wait`), or `Timeout`. A
reader whose predicate was false sleeps (`awake` is false) until a `notify_all`.

**Transport.** `holders`, `session`, `firsts`. `Open(h, connects)` and `Close(h)`
name the owner, `BareOpen` and `BareClose` do not; connecting may fail. Owners
are told apart by identity in the code, hence a set.

**ModbusDevice** extends it with the transport's lock, the socket under the
client, and for each device its `_opened` flag, its stop event and three kinds of
threads. A request (`Request`, `Acquire`, `RequireReady`, `Wire`) is the same for
a reader and the daemon: take the lock, test the flags, talk, return. The lock is
not held between `transport.close(self)` and `_opened = False`, nor by the stop
event, which is why `Release` and `ClearOpened` are two steps.

**Relay** is the abstract specification of a wrapper: `Accept`, `Forward` the next
item in order, `End` once.

**QueuedPublisher.** `publish()` is two steps, the test of the event and the put;
the worker is three (loop condition, get, hand over); `close()` sets, joins,
closes. It implements `Relay` with what was put for `accepted` and what the
wrapped publisher got for `delivered`.

**BufferedPublisher.** A step per line. It implements `Relay` when items that are
sent again after a failure count once (`FirstSeen`).

**SharedPublisher.** A thread is a stack of calls, because a finalizer runs as a
`close()` on top of whatever the thread is doing. `Enter` and `Leave` hold the
handle's lock, `TakeBlock` and the step after it the control block's.

**DAQ.** The controller's `start()`, `stop()` and `close()` are split where the
daemon and the readers can run; the driver's calls may raise, and what the code
then leaves behind is what the model leaves behind. `fresh`, `alive` and `awake`
stand for what a waiting reader's predicate compares. The driver keeps the channels, of
which the model keeps the names; `ConfigureChannel` is any of the methods that test for
duplicates and for a running acquisition (voltage, current, thermocouple, digital line),
`ConfigurePort` the one that tests neither. `fetches` tells whether the daemon was given
something to fetch, and `DriverCall` is a write, a relay or a digital read, which go to
the driver beside the daemon.

**OpcUaStream.** A sample is the version of the node's value it shows. `mode` is
the way the session was started, `monitored` the nodes whose monitored item the
server accepted, `stamps` the timestamps it sends; all three are chosen in `Init`
and never change. The loop is `TickDue`, `Tick`, `PollTick`, `ReadQuiet`, `ReadAll`,
`ReadError`, `ReadDisconnected`, `Chunk`, `StreamEnd`; `Merged` is
`polled_sample_filter` and the code around it. `Cancel`, `Finish` and `Panic` end
the thread; `Stop`, `StopDone`, `StopTimeout` and `Drop` are the handle's.
`Change`, `Sample` and the answers are the server's, from how the code uses it.

**NumpyRing** is the other storage of the channel buffer: `extend()` as one or two slice
assignments or a replacement, `get_latest()` as the cells it picks. Its values are numbered,
so that what a reader gets can be compared with what was given.

**LabJackStream.** `start()` is `Start`, `Activate`, `Register`, with `Retract` and `GiveUp`
for its retreat; `stop()` is `Unregister`, `Halt`, `Drain`; the library's thread is `Enter`,
`Look`, `ReadBlock`, `Put`; `fetch_analog()` is `Fetch`, `TakeOut` or `Expire`, `Stamp`. A block
is its stream's number and its own. Unregistering, and closing the device, wait for a callback in
flight, from how the code relies on it. `Stop` and `Close` run, as in the driver, whatever a fetcher does;
that they meet none is InstroDAQ's order, and stands in `Next` as `Joined` and `Stopped`.

**MccScan.** A sample is its number in the scan, which decides its channel and its cell in the
ring. `Copy` is one sample of the window, and the device may take samples (`TakeSample`)
between any two. Both engines' scan lists are built as the code builds them, from the inputs
in the order they were configured, and so is the assignment of a window's values to aliases.
The counter wraps at `Wrap`, and the driver sees it only when it looks. `Joined` in `Next` is
InstroDAQ's order again.

**SdrStream.** Everything that touches the radio does so in one hold of `_resource_lock`, which
is the grain. A block has the number of its first sample and the stamp it was given; `due` is
the sample that should follow, so the losses the radio counts are `next - due`.

**EipSession.** The device of `ethernetip.py`, the wrapper that lends the session to one thread
at a time, and the session that drops its client after a retriable error and reconnects before
the next operation. `up` is the PLC, which goes away (`Outage`: what is connected breaks) and
comes back at any time. A request is `Request`, `Enter`, `Admit`, `Reconnect` and one of
`Answer`, `FailRetriable`, `FailItems`; the last is a batch in which some item failed, all of them
or only one of an otherwise answered batch, and the client is dropped after either. The session is
its client or none; the route that the next client takes over is left out.

**Programs, Bench and the instruments.** A driver method is, for the instrument, a short
program: enter a section, send, ask, read the error queue, leave. `Programs` is the vocabulary;
`PowerSupplies`, `Multimeters`, `ElectronicLoads`, `Oscilloscopes`, `WaveformGenerators`,
`ProcessInstruments` and `AcquisitionDevices` give, for each driver, the programs of each of its
methods and, for each facade, what it wraps around them. Locks, guards, refusals, exchanges and
error checks are in the order of the code; commands, values and formats are left out. The two quadrants of the EA PSB own
their device together: an `open()` that finds the other one open and a `close()` that leaves it open do
nothing on the line, and any of them may be such a one (`HeldAlready`, `HeldStill`). `Bench`
gives the steps their meaning for any number of callers: exchanges that fail (`NoAnswer`),
commands the instrument refuses (`Refuse`, an entry in its error queue, unseen by the sender),
exchanges made only to clean up after a failure, whose own failure is swallowed (`Due`, `Swallowed`),
arguments rejected before or between exchanges (`Examine`), and the way out of a raised call,
which lets go of the locks it is in from the innermost outward. The facade's memory of the
function in force is `label`, the driver's of the channel selected is `active`.
What each method of an instrument owes to the others is stated program by program, in the
assumptions of `Bench`: sections are closed as they were opened and calls do not nest
(`ShapeAssumption`, `LockAssumption`); the error queue is read before the lock that guards it
is let go (`CheckAssumption`); a selection is made in the section that relies on it, and who
skips selections is the only one who selects (`SelectAssumption`); between the steps that are to
be seen whole there is a lock that every other exchange takes (`WholeAssumption`). TLC evaluates
them for all 32 instruments when it runs `bench`.
Where a loop asks until an answer comes, or walks all channels, the program keeps one or two turns,
and the comment says so. Drivers whose methods do not lock are reached through their facade only;
the others by direct callers too.

## The runs

Distinct states in brackets.

- `instrument` [261,485], two instances of `Instrument`. One: a controller (the documented use), a
  reader, three starts. Three are needed: one to run, one to find what `stop()` left, one
  to find what a `start()` after a `stop()` left. No publisher raises, so a daemon
  ends only through `stop()`. *OneDaemon*, *StopLeavesNothing*, *RunningMeansServed*,
  *StopReleasesReaders*. The other: a foreground publisher thread, two user publishers of
  which one raises in `publish()` and `close()` and is attached while the program runs, two
  starts. *CloseReachesAllF* (a `close()` that raised nothing has closed all), *StopReturnsF*.
- `instrument_fan_out` [3,663 in the whole graph of the instance]. *FanOutReachesAll* fails; see below.
- `samples` [1,127,408], five parts.
  The channel buffer: two interchangeable readers, deques of 2, requests for 1 and 2 samples, new
  or not, batches of 0, 1 and 3 (so one is longer than the deque), 4 samples in all: enough to fill,
  overflow and, after a `close()`, refill a channel while readers wait. *WindowIsNewest*,
  *FreshMeansNew*, *NoLostWakeup*.
  The numpy ring: 4 cells, batches of 0 to 5, 12 values: every index, both kinds of write, both
  sides of the replacement. *RingIsDeque*.
  LabJack: three streams (the third meets what the second left), three blocks each, a queue of two.
  *StreamIsCurrent*.
  MCC: a plain input between two thermocouples, in every order and on both engines, two inputs at a
  time, windows of one scan in a ring of two, a counter that wraps at 10 and 14 samples: the wrap
  falls inside a scan, and the device laps the reader. *WindowIsWhole*.
  The radio: blocks of 1 and 2, a buffer of 3, six ticks: late, lost and adjacent blocks in streams and
  between them. *OneTimeline*.
- `wrappers` [238,945], three parts.
  Queued: two producers, a queue of 2, five items: the queue is full while both wait, before and after
  `close()`. `wait_for_queue` is on; the wrapped publisher may refuse any item. *CloseFlushes*,
  *ImplementsRelay* (which includes the order), *CloseReturns*.
  Buffered: one thread (with two, items are lost, see below), a buffer of 2, five items, at most nine
  hand-overs: a batch that fails, is sent again and fails again. *NoLoss*, *BufferedIsRelay*.
  Shared: two threads, three handles, four calls, finalizers anywhere. *ClosedByLast* (with the
  count of handles and the use of the wrapped publisher as parts), *CallsReturn* (for behaviours in
  which no finalizer runs inside a call).
- `queued_publisher_stuck` [176]. A publisher in use, two producers and a queue of one; nobody calls
  `close()`, so that only an error of the wrapped publisher can end the worker. *PublishReturns* fails,
  and holds when the wrapped publisher raises nothing (`InnerMayFail = FALSE`).
- `modbus_line` [24,072]. Two devices, each with controller and daemon, a reader on
  one, and bare calls. *OneFirstOwner* of Transport (an owned line is up, and one owner was told it is
  first), *OnlyOwnersTalk*, *CloseLetsGo*, *CallsReturn*. No counter, no bound: this is the
  whole state space of two devices.
- `daq` [172,519]. One controller, the daemon, two readers, one analog input and one
  digital port to configure, a driver and publishers that may raise. No bound.
  *InputsAreFixed* (an action property: no step changes the inputs under an acquisition,
  through stops and closes that failed halfway), *DaemonHasDriver*,
  *ControllerReturns*, *StopReleasesReaders*.
- `opcua_stream` [249,172]. A node whose value changes twice and one that never does,
  in every mode, with every set of accepted items and of timestamps; at most two
  notifications of a node on their way, so a third loses one. `Brisk` and `Prompt`
  hold. *Ordered*, *KeepsUp*, *StopEndsSession*, *StopReturns*.
- `opcua_starved`. The same with reads slower than the interval: *NotificationsEmitted* fails.
- `ethernetip` [4,064]. Controller, daemon, two readers, outages at any point. No bound.
  *OneInSession*, *CloseDropsSession*, *CallsReturn*, *Recovers*.
- `bench` [524,589]. Two callers at each of 32 instruments, each caller running any method of any
  facade or, where it has direct users, of the driver, two channels, an error queue of 2 (one caller's
  refusal and the other's, or a call that leaves two). *SuccessMeansDone*, *RightSelection*,
  *NobodySeesHalf*, *NobodyStuck*. Everything these say is about an interval of one caller into
  which a second one gets; a third finds the same locks taken.
- `bench_wrong_quantity` [16,509 in the whole graph]. The multimeter whose driver names the function with every
  reading: *QuantityIsRight* fails all the same, in the facade.

Bounds are constants named for what they bound: `MaxStarts`, `MaxClock`, `MaxTotal`, `MaxStreams`,
`MaxBlocks`, `MaxQueue`, `MaxInputs`, `MaxCount`, `MaxNow`, `MaxItems`, `MaxGot`, `MaxCalls`,
`MaxVersion`, `MaxErrors`; each appears in a guard of the step it bounds. Two
of everything that competes (readers, producers, devices, nodes, callers) is where the code
first has a choice to get wrong; a third adds one more of what a second
already is, except for handles, where three let one be closed while another is cloned
from the third. Symmetry is used in `samples` and the `bench` runs, which check invariants
only.

The type invariants of modules that have proofs are proved, and no run lists them.

Deadlock is checked except in `wrappers`, `queued_publisher_stuck` and the OPC UA runs. There the
system really stops: a bounded number of calls has been made and all handles are gone, a finalizer
waits for the lock its own thread holds, the worker is dead and nobody publishes any more, or the
session has ended. It is checked in `bench`, where *NobodyStuck* says
more: callers wait for each other's locks, not for a call nobody makes.

## Fairness

A thread that can take a step takes one: weak fairness of the steps of each thread
*inside* a call, never of the calls. No program has to stop or read anything, and no
timeout has to run out, so liveness here never rests on a timeout. Three
assumptions are stronger.

- `ModbusDevice`: strong fairness for taking the transport's lock. Python's locks
  make no promise of fairness; under weak fairness alone a daemon that polls without
  a pause could take the lock before everybody else forever. It does pause: the
  loop waits between polls, outside the lock.
- `EipSession`: the same for the device's lock (`Enter`, `Open`, `DropSession`), for the same
  reason. The PLC need not come back; *Recovers* speaks of behaviours in which it has.
- `OpcUaStream`: strong fairness of `Chunk`: a loop that comes to the select with
  notifications there and no tick due takes them, which is what `select_biased!` does.
  Reads are answered only as the premise of a property (`Answers`), never
  by fairness. `StopReturns` does without it.

## Proofs

The proofs hold for every value of the constants that the modules' assumptions
allow: any number of threads, publishers, devices, items, samples and restarts.

A theorem about a part that an `MC` module joins to others is about that part's own
specification (`B!Spec`, `S!Spec`, `N!Spec`, `L!Spec`, `M!Spec`, `D!Spec` of `MCWrappers` and `MCSamples`) and
the property under the name the run has for it.

- *TransportCorrect* (in `ModbusDeviceProofs`). The types, `HeldMeansOpen` and `OneFirstOwner` are inductive
  together: neither of the last two is without the other, as a bare close
  is refused by `holders # {}`, and an open that finds owners must find a session.
- *InstrumentTypes*. The type invariant in three parts that need different facts: the
  daemon's, the buffer's and list's (removing an element of a sequence keeps its
  type, `WithoutType`), and the callers'.
- *OneDaemonAlways*. With one controlling thread, never two live daemons. `OneDaemon`
  counts live threads and is not inductive: between `StartCheck` and `Launch` it
  says nothing of the thread about to be made. `DaemonInv` adds that a live or
  created thread is the one `_background_thread` names, and that while a `start()`
  is past its test there is none alive. The assumption (one controller) is the one
  the class is documented for; two controllers in `start()` at once do make two.
- *StopCleans*, *DaemonIsServed* (`LifeInv`). With one controller that has no other role and publishers
  that do not raise (a daemon killed by one is not cleaned up after, see below). What the attributes
  `_background_thread` and `_channel_buffer`, the list and the one live thread are depends on how
  far the controller has come: `Fits` has a clause for each of its places, idle after a
  `start()` and idle after a `stop()` among them, and `Moved` says what a step of the
  controller must leave for the next clause. `Numbered` keeps a new thread's or buffer's number
  apart from all earlier ones. Steps of everybody else change nothing `Fits` reads (`LifeKept`).
- *CloseReaches* (`CloseInv`), with one controller and any publishers. From the call on, what
  `close()` owes is in the list, though the buffer leaves it on the way (`WithoutKeeps`: `list.remove`
  keeps every other element); in the loop, what is owed is shut or at the index or past it, which one turn
  of the loop preserves. It rests on nobody else attaching or removing during the call.
- *DequeIsWindow*, *WaitGetsNew*, *NobodySleepsThrough* (`BufferInvariant`). `Window` says more
  than `WindowIsNewest`: a deque is the last `total[c]` samples of the channel's history, `MaxLen` at
  most, so that a batch appended to it can be followed (`ExtendKeepsLast`); `Counted` that `total`
  counts no more than the history has, and nothing for a channel nobody published. `FreshMeansNew`
  speaks of a `get()` that returned, long after the samples it was waiting for were counted.
  `Waiting` follows the call meanwhile: `target` lies so far beyond what has been counted that
  whoever gets there has been given `length` samples more than were known at the call, whatever
  the lock was given up for in between; `Ticking`, that the clock grows along a history, makes
  more samples newer samples (`NewestAreNew`). `Asleep` ties a sleeping reader's place to the
  predicate it found false: publishing wakes everybody, closing too, and nothing else makes a
  predicate true. All steps of a reader are reduced to what they leave (`Sound`), so that the
  invariant is proved for one move and not for eight (`ReaderMoves`).
- *RingCorrect*. The invariant `NewestBehind`: the `k`-th newest value lies `k` cells behind the
  index, round the array. The three kinds of write keep it and `get_latest` reads by it. With it the
  ring and the deque make readers the same promise.
- *FetchIsCurrent* (LabJack). The library's lock keeps `stop()` from ending the stream under
  a read of the callback, and starting and stopping leave the flags so that whoever reads finds
  a stream that runs (`ActiveInv`). Unless unregistering failed once (`lSpoiled`), there is no
  callback in flight between streams, and the queue holds the last blocks of the stream that
  runs (`QuietInv`, `UpTo`); a block that was read and not yet put is the next.
- *WindowHasNoTear*, *ScanGoesForward*, *WindowsAreWhole* (MCC). The driver has a counter that wraps and knows a count;
  `CounterInv` says that `prev + offset` is the device's count at the last look, and that fewer than a
  round of the counter came since, so one comparison with `prev` tells whether it wrapped
  (`CountsAll`). `CopyInv` follows a window while it is copied: unless the device has come round
  since, what was copied is what was sampled for it, as the last sample with a cell's remainder is
  then the one wanted (`LastInCell`); the second look at the counter finds out whether it has. A
  window begins with a scan, after an overrun too (`NextScan`). The arithmetic rests on lemmas about
  `\div` and `%` (`DivisionIs`, `OneRemainder`, `RemainderIs`), which the provers do not find by themselves.
  *WindowsAreWhole* follows the loop of `convert()` count by count (`LoopFills`): what it has made so
  far is the samples so far but the cold junctions, in order (`Filled`), and the number of values made is
  a multiple of the aliases and the turn of the next slot (`InTurn`), so that the next value goes to the
  alias of its own channel. The induction is by a least counterexample (`CountingUp`), which needs no operator
  as a parameter; that the recursive function exists at all is proved the same way (`LoopEnds`). A
  window begins behind the last sample of the one before, as `consumed` is behind both (`Behind`).
- *BlocksOnOneTimeline* (radio; blocks have a sample). `OneTimeline` compares a block with the one
  before; `TimelineInv` ties the last stamp to the end of the last block and, as long as only
  losses followed, the sample that is due to the one after it. A new block then starts later by
  exactly what was lost.
- *QueueKeepsOrder*, *QueueCloseFlushes*, *QueueImplementsRelay*. The invariant
  `QueueInv` adds to the order (`put` is `got`, the item in the worker's hand, and
  the queue, in that order) that a worker that ended its loop had been told to, and with
  `wait_for_queue` left nothing behind that was there when `close()` was called
  (`DeadHasFlushed`), which follows because the worker re-tests an empty queue after
  the event, and that once `close()` is past its join the worker is dead
  (`JoinedIsDead`). The last gives that nothing is forwarded after `End`; the order
  gives that each `WorkerPublish` is the relay's next `Forward`.
- *BufferLosesNothing*, with one thread, as `docs/library/publishers.md:355` asks. While a batch is
  handed over, what lies before the place in the list has been; when the list is cleared, all of it
  has.
- *BufferImplementsRelay*, with one thread. The relay's output is what the wrapped publisher has seen,
  each item where it was first seen (`FirstSeen`). Items are numbered as they come; the list is the last
  of what was accepted (`ListIsLast`) and what was seen is the first of it (`SeenIsFirst`), and the
  two overlap after a failure. An item that is handed over therefore was seen before, and the relay
  stutters (`SeenAgain`), or is the next one, and the relay forwards it (`SeenFirst`). `FirstSeen`
  chooses positions instead of folding the sequence, so that this can be proved.
- *LastHandleCloses*, for any finite number of threads and handles. The count is not the number of open
  handles: between the change of the block and that of the handle it is one off, for every thread
  that is there. `CountInv` counts them (`Called`, calls by their place in the stacks), `CallInv` says
  that a call that has got past its test has the handle's lock and finds it open to the end, and
  `StacksInv` that a finalizer lies on top of other handles' calls only, or stays at the lock for
  good. Cardinalities are changed by one element at a time (`OneMore`, `OneLess`).
- *DeviceTypes*, *LineBelongsToOwners*, *ClosedDeviceLetsGo*, *DevicesUseTransport*,
  *LineStaysUp*. Every step of a device is a step of `Transport` or leaves it alone, so
  the line is a behaviour of `TransportSpec` and what is proved there holds of
  it. For the rest `DeviceInv` relates the flags, which no lock protects, to
  the ownership, which one does: `OpenedIsHeld` (they agree but for the two steps
  in which `open()` and `close()` change one after the other), `ClosingIsStopping` (in
  that gap of `close()` the stop event is set, and from the join on there is no daemon),
  `LockFollows` and `TalksAsOwner`. The argument: a request that passed
  `_require_ready_locked` saw `_opened` and no stop event, so the device was an owner; it
  keeps the lock until it returns; the line changes hands under that lock only.
- *DAQTypes*, *DriverOutlivesDaemon*, *AcquisitionKeepsInputs*. Neither property is
  inductive: nothing in the state says by itself why the daemon is gone in `close()`, or why
  a device that is not running does not acquire. The invariant of `DAQProofs` says it:
  from the join of `stop()` to the end of `close()` there is no daemon
  (`JoinedHasNoDaemon`), what acquires is running (`RunningIsKnown`), and only hardware
  timing starts the device (`OnlyHwAcquires`), so the branch of `stop()` for software timing,
  which clears `_running` and leaves the device alone, leaves nothing acquiring.

- *OpcUaStopEnds*. `stop()` returns by the termination channel only, and the thread sends on it as
  the last thing it does, on every way out.
- *OpcUaOrdered*, under `Brisk` and `Prompt` (see the list below for why), for any nodes, versions,
  length of the server's queue and timestamps. Per node the notifications lie between what was
  given and the value there is, in order, and what is held back between those sampled before the
  read and those after (`InLine`). When the tick is due those before are gone (`TurnInv`), so what is
  held back may go out; a queue that overflows and a chunk that is taken keep the line
  (`LineLoses`, `LineShifts` and their like).
- *EipOneInside*, *EipCloseLetsGo*. Whoever is past `Enter` has the device's lock, and from `Admit` on
  the session it found is there (`Inside`): closing takes the same lock. After its join `close()` meets no
  daemon (`Closing`). `Openers` may open the device beside.
- *LocksAreHeld*, *NobodyIsStuck*, *SequencesAreWhole*, *SuccessIsDone*, *SelectionIsRight*,
  *BenchTypes*. What the assumptions say of each program by itself becomes what holds of any number of
  callers that run them at once. What is left of a caller's program is always a remainder of one of the
  facade's programs, or, once it raised, its leaving part (`Shape`, `NextLeft`, `Raised`): so an
  assumption about remainders speaks of every caller at every step. From the brackets follows
  `Locked`: in a section of either lock exactly if one holds it, also on the way out of a raise
  (`UnwoundKeeps`); hence between any two steps of one section nobody else is in one. The rest tells what
  the others may not do meanwhile: a refusal the caller has not met lies in the queue until it
  looks (`Heeding`); what the next exchange works on is what the caller chose, and the driver's
  memory is right wherever selections are skipped by it (`Rightly`). *NobodyIsStuck* needs the order of
  the two locks alone. *SelectionIsRight* and *BenchTypes* assume `Named \subseteq Channels`: callers name
  channels the instrument has. Without it the BK 914x is a counterexample (first of the bench
  instruments below).

The assumptions of the constants are those of the modules, which TLC evaluates in the runs, and three that
theorems name: one thread (`Buffering = {t}`), finite threads and handles with the first handle among
them (`SharedConstants`), blocks that have a sample (`SdrConstants`). That every list of inputs gives a
scan list whose slots, the cold junctions left out, are the aliases in their order is the assumption
`ScanAssumption` of `MCSamples`: the lists are made by sorting and flattening, which the prover cannot
follow, and TLC evaluates them for every list of inputs of the run. *WindowsAreWhole* rests on it;
*WindowHasNoTear* and *ScanGoesForward* need only that a scan list has slots.

Only model-checked: all liveness and whatever rests on ENABLED, which is out of the prover's reach;
how the scan list of an MCC device is sorted and flattened (above); *CloseReachesAllF*, which is
*CloseReaches* for the instance of the run; and of Instrument all that two controllers add.

## Where the code and its documents part

Checked by a run that TLC must find violated:

1. `instrument_fan_out`. `publish()` (`instro/lib/instrument.py:177`) iterates the live
   list; `stop()` removes the buffer from it (`:319`). A foreground publish past the
   buffer's index skips the publisher that moves into its place, against "Fan
   ``data`` out to every configured publisher" (`:176`).
2. `queued_publisher_stuck`. What the wrapped publisher raises ends the worker
   (`publisher.py:83`); when the queue is full `publish()` blocks for good (`:77`), against
   "making publish calls non-blocking" (`docs/library/publishers.md:360`). The run has no `close()`:
   the error is the only cause.
3. `opcua_starved`. A read that takes longer than the interval leaves the next tick due
   when the loop comes back, and ticks are looked at first (`client.rs:421`): waiting
   notifications are never taken, against "Notifications are emitted as they
   arrive" (`:389`).
4. `bench_wrong_quantity`. `read()` of the multimeter names its reading after the function in
   force when the lock has been let go (`instro/dmm/dmm.py:393`): another thread that sets
   the function in between makes a voltage a resistance. The comment at `:399` rules out
   just that for the calls beside it.

Seen while modelling. The models do what the code does, unless "left out" is said, and no
property denies it:

*Instruments and publishers*

- `instrument.py:287`: two threads in `start()` at once both find no live thread and make two
  daemons. `:345-349`: `get_channel()` meets an assertion or an AttributeError
  when `stop()` drops the buffer between its tests (`GetAssert`, `GetEnter`).
- `instrument.py:404`: a publisher that raises in the timing measurement ends the
  daemon. `stop()` then finds no live thread and drops nothing, `close()` closes the
  buffer as one of the list, and a later `start()` takes that closed buffer again
  (`:278`), against the comment at `:314-315`.
- `instrument.py:243`: `close()` stops at the first publisher whose `close()` raises, and
  the rest stay open (`docs/library/custom-instruments.md:1673` promises a single
  `close()` is enough).
- `channel_buffer.py:113`, `:181-185`: `close()` wakes readers and then clears what their
  predicates read, so they raise KeyError instead of the documented errors. `:111`
  and `:130`: a wait whose timeout was spent on the channel returns fewer samples
  than asked. `:145`: the samples that made a channel appear do not count as new.
- `publisher.py:77`: an item put after the worker's last look at the queue is lost, also
  with `wait_for_queue` (`docs/library/publishers.md:400`), and a producer that waits for room when
  `close()` ends the worker (`:95`) goes on waiting. `:36`: two threads in a
  BufferedPublisher lose items (`:355` of that document). `:181`: a finalizer that
  runs inside a call of its own control block waits for itself, against `:180`.
- `files.py:182`: the JSON writer truncates the file and writes all of it anew for each record; a
  crash in between loses the records before (left out).

*Networks*

- `modbus.py:155`: after `stop()` the stop event stays set, so an open device rejects every
  read and write as if it were closing until `open()` or `start()`, against `:154`.
  `ethernetip.py` does the same.
- `ethernetip.py:149`: `open()` of an open device clears the stop event that another thread's
  `close()` has set and then joins its daemon by (`:165`): with a thread in `Openers` that `close()`
  never returns. The run has none.
- `client.rs`: without source timestamps the merge falls through to the server's
  (comment at `:468`). A tick after the client is gone flushes what was held back, where a
  test's text expects the loop to break first. A slow read makes held-back samples go out
  with no chance for late notifications (`:390-391`): `Ordered` therefore asks for
  `Brisk` and `Prompt`. Held-back samples are lost on `stop()`.

*Acquisition*

- `daq.py:1194`, `:1244`: a reader that found no daemon fetches beside one that was started
  since. `:577`: `close()` that fails in `driver.stop()` or a publisher leaves the
  driver open, against the docstring at `:575`. `:925`, `:974`: ports and relays can be added
  to a running device and under a name in use, which `:551` and `:561` keep from the other
  kinds of channel.
- LabJack: `stop()` whose unregistering raises leaves blocks of the old stream queued for the next
  (`spoiled`).
- MCC: after an overrun the host timestamps go on as if nothing was lost (left out); with a
  `buffer_multiplier` of 1 the device is on the window's heels and every copy may be
  thrown away until the deadline.
- Radio: `sdr.py:589-598`, a `close()` whose `stop()` raises leaves the other direction listed
  (`stale`), against the comment at `:795`. `:668`, a measurement of channels the stream does not
  cover takes a block and drops it (`RoutedInVain`). Left out: two threads in `stop()` at once
  (KeyError), a daemon for a transmitting direction (it spins), the order in which two
  readers' blocks are published.

*Bench instruments*

- `bk_914x.py:31-35`: the channel is believed selected though the instrument refused, and also
  after the device was closed and opened again.
- Drivers that read one entry of the error queue after a command that leaves two (Keithley 2400,
  33521B, DG1022Z) fail the next call with the other. `get_waveform` of the DG1022Z raises
  without reading the queue.
- `rigol_dg1022z.py:250`, `:254`: `set_modulation` looks at the carrier in a section of its own;
  in the 33521B a failure in its middle leaves modulation off.
- `dmm.py:321`, `:334`, `:352`, `:369`: digits, aperture and range are remembered outside the lock. A
  refused selection leaves `read()` with the name of a function that is not in force.
- A facade's `close()` takes no lock, and may cut into `apply()` (`NobodySeesHalf` excepts it). The two
  facades of the EA PSB do not share a lock: each sees the other's channel half applied.
- `ea_psb10000.py:60`: the session is opened outside the `try`, so a failing `open()` leaves the quadrant
  in `_views`, and a retry does nothing and reports success, against the comment at `:68`
  (in the model an `open()` may be `HeldAlready` without a session, too).
- `scope.py:743`, `:757`, `:769`: the flag that an acquisition is armed is written and read by threads
  without a lock. Siglent's `digitize` arms again after `single()`.
- The scanner's `fetch_analog` polls inside its section, so that `stop()` waits for it.
  `i2c.py:129`, `:150`: raw reads and writes take no lock.

What the models assume: one fetcher of a LabJack or MCC stream at a time, none while the driver is
stopped or closed (`Joined`); a socket of the Modbus line that pymodbus connects again before any request,
for which no guard stands in the model; fewer than 2^32 samples
between two looks at the MCC counter; a write that raises did not arrive; an exchange on a line without a
lock is atomic; Keithley multimeters, scopes, the network analyser and I2C are used through their
facades. The `open()` of simulated and virtual instruments may fail in the model, as any other.

## What is not modelled

Every component is listed in `PROJECT.json` with its status. Not modelled at all:

- files (JSON, JSON Lines, CSV, Avro, storage of the unstable instruments), the Nominal Core and
  Connect adapters and the plot publisher: formats and calls to client libraries. To the wrappers and to
  `Instrument` they are publishers that may raise;
- Modbus registers and the codec, OPC UA browsing, metrics and batches, DAQ scaling: functions of their
  arguments, without state that outlives a call;
- the NI driver, whose buffering is the vendor library's: to `DAQ` it is a driver that may raise;
- configuration, registry, discovery, the command line; simulators and test servers; the CAN
  bus below the motor controller, of which an exchange is one step.

Within modelled components: what commands say and values are, ranges and units; editing the
list of daemon methods while the daemon runs; an unbounded queue (`max_queue_size` 0); channels of
strings in the channel buffer and the accounting of its size; what a DAQ channel is besides its name and
kind; software-timed reads of the LabJack and MCC drivers; the front end of the radio; the setup of an
OPC UA subscription; `start(background=False)` of a software-timed DAQ, which starts nothing.

## Plan

Done, in order: Instrument, ChannelBuffer, Transport, the three wrappers over Relay,
ModbusDevice over Transport, DAQ, OpcUaStream; EipSession; the bench instruments over Bench;
LabJackStream, MccScan, SdrStream, NumpyRing; proofs of Transport, Instrument, QueuedPublisher,
ModbusDevice, DAQ, NumpyRing, ChannelBuffer, BufferedPublisher (and that it is a relay), SharedPublisher,
LabJackStream, MccScan, SdrStream, OpcUaStream, EipSession and Bench.

Next, to prove:

1. Instrument with a second thread that opens, closes or publishes: which of *StopCleans* and
   *DaemonIsServed* remain, and under which roles.
2. The types of the sample streams and of SharedPublisher as theorems of their own.

Next, to model: a queued publisher around a buffered one, the combination the documents recommend,
as one module that implements `Relay`; the Modbus codec (`transports/modbus.py:24`) against the
definition of a word order; the flush thread of the plot publisher; OPC UA browsing.
