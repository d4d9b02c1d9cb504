------------------------------ MODULE MccScan ------------------------------
(***************************************************************************)
(* A hardware-timed scan of an MCC device                                  *)
(* (packages/instro-daq-mcc, mccdaq.py and mcc_engines.py).                *)
(*                                                                         *)
(* The device writes samples into a ring in memory while the driver reads  *)
(* windows out of it, with nothing between them but a counter the driver   *)
(* polls; the counter has 32 bits and wraps.  A sample is its number in    *)
(* the scan: number n is of the slot n % width of the scan list and lies   *)
(* in cell n % size of the ring.  There is one fetcher, which the caller   *)
(* joins before stop() and close(), as for LabJack (LabJackStream).        *)
(***************************************************************************)
EXTENDS Naturals, Sequences, SequencesExt

CONSTANTS
    Inputs,       \* <<physical channel, "volt" or "tc">> of the inputs
    MaxInputs,    \* bound: inputs configured
    PerChannel,   \* samples_per_channel
    Multiplier,   \* buffer_multiplier
    Wrap,         \* 2^32, the counter's range
    MaxCount      \* bound: samples taken in a scan

VARIABLES
    daqIn,        \* the device has daq_in_scan (otherwise a_in_scan)
    opened,       \* _info is not None
    inputs,       \* _ai_channels, in the order they were configured
    timed,        \* _ai_hw_timing_config is set
    engine,       \* _engine: its scan list and aliases, or NoEngine
    scanning,     \* the device takes samples
    count,        \* samples it has taken
    polled,       \* history: `count` when the driver last looked
    prev,         \* _raw_count_prev
    offset,       \* _count_offset
    consumed,     \* _samples_consumed
    at,           \* where the fetcher is in fetch_analog()
    snapshot,     \* buffer_snapshot
    window,       \* what the last fetch returned: <<alias, sample>>
    reached       \* history: the end of the window before that

device == <<scanning, count>>
tracking == <<polled, prev, offset>>
config == <<daqIn, opened, inputs, timed>>
vars == <<config, engine, device, tracking, consumed, at, snapshot, window, reached>>

NoEngine == [slots |-> <<>>, aliases |-> <<>>]
Idle == engine = NoEngine

Width == Len(engine.slots)
FetchSize == Width * PerChannel
Size == FetchSize * Multiplier

-----------------------------------------------------------------------------
(* The scan list.                                                          *)

Cjc(number) == <<number, "cjc">>
ByNumber(chans) == SortSeq(chans, LAMBDA a, b : a[1] < b[1])
IsTc(c) == c[2] = "tc"
NotTc(c) == ~IsTc(c)

\* daq_in_scan: the plain channels, then each thermocouple behind its
\* cold-junction channel, in the order of their numbers.
ThermocoupleSlots(tcs) == FlattenSeq([i \in DOMAIN tcs |-> <<Cjc(tcs[i][1]), tcs[i]>>])
DaqInLists(chans) ==
    LET plain == SelectSeq(chans, NotTc)
        tcs == ByNumber(SelectSeq(chans, IsTc))
    IN  [slots |-> plain \o ThermocoupleSlots(tcs), aliases |-> plain \o tcs]

\* a_in_scan: the channel/gain queue in the order of the numbers.
AInLists(chans) == [slots |-> ByNumber(chans), aliases |-> ByNumber(chans)]

Lists(chans) == IF daqIn THEN DaqInLists(chans) ELSE AInLists(chans)

\* The slot that sample n was taken from.
Slot(n) == engine.slots[(n % Width) + 1]
IsCjc(slot) == slot[2] = "cjc"

\* The loop of convert() drops the cold junctions; the values that are left go
\* to the aliases in turn.
Converted ==
    LET aliases == engine.aliases
        data[i \in 0..Len(snapshot)] ==
            IF i = 0 THEN <<>>
            ELSE IF IsCjc(Slot(i - 1)) THEN data[i - 1]
            ELSE Append(data[i - 1], <<aliases[(Len(data[i - 1]) % Len(aliases)) + 1], snapshot[i]>>)
    IN  data[Len(snapshot)]

-----------------------------------------------------------------------------
Init ==
    /\ daqIn \in BOOLEAN
    /\ opened = FALSE /\ inputs = <<>> /\ timed = FALSE
    /\ engine = NoEngine
    /\ scanning = FALSE /\ count = 0
    /\ polled = 0 /\ prev = 0 /\ offset = 0 /\ consumed = 0
    /\ at = "idle" /\ snapshot = <<>> /\ window = <<>> /\ reached = 0

Open ==
    /\ ~opened
    /\ opened' = TRUE
    /\ UNCHANGED <<daqIn, inputs, timed, engine, device, tracking, consumed, at, snapshot, window, reached>>

\* The end of a scan; what stop_background() raises is swallowed.
EndScan ==
    /\ engine' = NoEngine
    /\ scanning' \in IF Idle THEN {scanning} ELSE {FALSE, scanning}
    /\ UNCHANGED count

\* close() stops the scan and releases the board, which ends it in any case.
Close ==
    /\ opened
    /\ opened' = FALSE /\ engine' = NoEngine /\ scanning' = FALSE
    /\ UNCHANGED <<daqIn, inputs, timed, count, tracking, consumed, at, snapshot, window, reached>>

\* configure_ai_voltage_channel and configure_ai_thermocouple_channel: an
\* alias configured again keeps its place.  InstroDAQ does not configure a
\* device that acquires.
Configure(c) ==
    /\ opened /\ Idle
    /\ c \in ToSet(inputs) \/ Len(inputs) < MaxInputs
    /\ inputs' = IF c \in ToSet(inputs) THEN inputs ELSE Append(inputs, c)
    /\ UNCHANGED <<daqIn, opened, timed, engine, device, tracking, consumed, at, snapshot, window, reached>>

ConfigureTiming ==
    /\ opened /\ Idle
    /\ timed' = TRUE
    /\ UNCHANGED <<daqIn, opened, inputs, engine, device, tracking, consumed, at, snapshot, window, reached>>

\* start(): the bookkeeping is reset before anything is checked, and the
\* library may refuse the scan.
Start ==
    /\ Idle
    /\ polled' = 0 /\ prev' = 0 /\ offset' = 0 /\ consumed' = 0
    /\ window' = <<>> /\ reached' = 0
    /\ \/ /\ opened /\ timed /\ inputs # <<>> /\ ~scanning
          /\ engine' = Lists(inputs)
          /\ scanning' = TRUE /\ count' = 0
       \/ UNCHANGED <<engine, device>>
    /\ UNCHANGED <<config, at, snapshot>>

Stop ==
    /\ EndScan
    /\ UNCHANGED <<config, tracking, consumed, at, snapshot, window, reached>>

-----------------------------------------------------------------------------
(* The device.                                                             *)

\* One sample more.  Fewer than Wrap samples come between two looks at the
\* counter.
TakeSample ==
    /\ scanning /\ ~Idle /\ count < MaxCount /\ count + 1 - polled < Wrap
    /\ count' = count + 1
    /\ UNCHANGED <<config, engine, scanning, tracking, consumed, at, snapshot, window, reached>>

\* The scan ends by itself: the counter stands, and its status is IDLE.
Die ==
    /\ scanning
    /\ scanning' = FALSE
    /\ UNCHANGED <<config, engine, count, tracking, consumed, at, snapshot, window, reached>>

\* The sample in a cell is the last one written there.
InCell(cell) == (count - 1) - ((count - 1 - cell) % Size)

-----------------------------------------------------------------------------
(* fetch_analog().                                                         *)

Raw == count % Wrap

\* _accumulate_count: a counter that went down has wrapped.
Accumulated == Raw + offset + (IF Raw < prev THEN Wrap ELSE 0)

Look ==
    /\ prev' = Raw /\ polled' = count
    /\ offset' = offset + (IF Raw < prev THEN Wrap ELSE 0)

Fetch ==
    /\ at = "idle" /\ ~Idle
    /\ at' = "poll"
    /\ UNCHANGED <<config, engine, device, tracking, consumed, snapshot, window, reached>>

\* After an overrun the window begins at the oldest whole scan left.
SkipTo(oldest) == LET over == oldest % Width IN IF over = 0 THEN oldest ELSE oldest + Width - over

\* One look at the counter: too few samples, too many, or a window to copy.
Poll ==
    /\ at = "poll" /\ scanning /\ count > 0
    /\ Look
    /\ IF Accumulated < consumed + FetchSize THEN UNCHANGED <<consumed, at>>
       ELSE IF Accumulated > consumed + Size
       THEN consumed' = SkipTo(Accumulated - Size) /\ UNCHANGED at
       ELSE at' = "copy" /\ UNCHANGED consumed
    /\ UNCHANGED <<config, engine, device, snapshot, window, reached>>

\* The copies, in one part or two, sample by sample: the device writes on.
Copy ==
    /\ at = "copy" /\ Len(snapshot) < FetchSize
    /\ snapshot' = Append(snapshot, InCell((consumed + Len(snapshot)) % Size))
    /\ UNCHANGED <<config, engine, device, tracking, consumed, at, window, reached>>

\* Faulty: a window of which one sample may be new passes.
OverwrittenLax == Accumulated > consumed + Size + 1

Overwritten == Accumulated > consumed + Size

\* A second look: a window the device has begun to overwrite is thrown away,
\* another one is handed out.
Check ==
    /\ at = "copy" /\ Len(snapshot) = FetchSize
    /\ Look
    /\ snapshot' = <<>>
    /\ IF Overwritten
       THEN at' = "poll" /\ UNCHANGED <<consumed, window, reached>>
       ELSE /\ window' = Converted
            /\ reached' = IF window = <<>> THEN reached ELSE Last(window)[2] + 1
            /\ consumed' = consumed + FetchSize
            /\ at' = "idle"
    /\ UNCHANGED <<config, engine, device>>

\* The deadline passes, or the library raises.
GiveUp ==
    /\ at # "idle"
    /\ at' = "idle" /\ snapshot' = <<>>
    /\ UNCHANGED <<config, engine, device, tracking, consumed, window, reached>>

-----------------------------------------------------------------------------
\* InstroDAQ joined its daemon before it stops or closes the driver, which
\* does not look whether somebody fetches.
Joined == at = "idle"

Next ==
    \/ Open \/ (Joined /\ Close) \/ (\E c \in Inputs : Configure(c)) \/ ConfigureTiming
    \/ Start \/ (Joined /\ Stop)
    \/ TakeSample \/ Die
    \/ Fetch \/ Poll \/ Copy \/ Check \/ GiveUp

Spec == Init /\ [][Next]_vars

-----------------------------------------------------------------------------
TypeOK ==
    /\ {daqIn, opened, timed, scanning} \subseteq BOOLEAN
    /\ inputs \in Seq(Inputs)
    /\ {count, polled, consumed, reached} \subseteq 0..(MaxCount + Size + Wrap)
    /\ prev \in 0..(Wrap - 1) /\ offset % Wrap = 0
    /\ at \in {"idle", "poll", "copy"}
    /\ ToSet(snapshot) \subseteq 0..MaxCount

\* A window that fetch_analog() hands out has no tear: its samples are
\* consecutive but for the cold junctions, they begin with a whole scan,
\* none was handed out before, and each bears the alias of the channel it
\* was taken from, whatever the device wrote while they were copied, however
\* far it had run ahead and however often its counter wrapped.
WindowIsWhole ==
    window # <<>> /\ ~Idle =>
        LET from == window[1][2] - (window[1][2] % Width)
        IN  /\ {window[i][2] : i \in DOMAIN window} =
                   {n \in from..(from + FetchSize - 1) : ~IsCjc(Slot(n))}
            /\ \A i, j \in DOMAIN window : i < j => window[i][2] < window[j][2]
            /\ from >= reached
            /\ \A i \in DOMAIN window : window[i][1] = Slot(window[i][2])
=============================================================================
