--------------------------------- MODULE DAQ ---------------------------------
(***************************************************************************)
(* Lifecycle of InstroDAQ (instro/daq/daq.py): a controller opens the      *)
(* device, chooses hardware or software timing, starts and stops the       *)
(* acquisition and closes; a daemon fetches; other threads call            *)
(* read_batch() and read_analog(), which fetch themselves while there is   *)
(* no daemon and otherwise wait for its next acquisition, and write and    *)
(* switch outputs beside it.                                               *)
(*                                                                         *)
(* The vendor driver is external: its start() makes the device acquire,    *)
(* its stop() ends that, and any of its calls may raise.  The channels are *)
(* kept by the driver; InstroDAQ decides when one may be added.  The       *)
(* channel buffer that Instrument.start() and stop() manage is in          *)
(* Instrument.                                                             *)
(***************************************************************************)
EXTENDS Naturals

CONSTANTS
    Readers,    \* threads that read and write channels
    Aliases,    \* names a channel may be configured under
    Analog      \* those used for analog inputs; the others are digital or outputs

ASSUME ChannelAssumption == Analog \subseteq Aliases

VARIABLES
    isOpen,     \* _is_open
    hw, sw,     \* is_hw_timing_configured, is_sw_timing_configured
    running,    \* _running
    acquiring,  \* the device acquires (the driver's state)
    driverUp,   \* the driver's session is up
    channels,   \* the aliases configured on the driver
    fetches,    \* _background_methods holds _daemon_analog_fetch
    stopEvent,  \* _background_stop_event
    ctl,        \* where the controller is
    closing,    \* the stop() under way was called by close()
    daemon,     \* where the daemon is
    rd,         \* where each reader is
    awake,      \* a waiting reader has its predicate to evaluate
    fresh,      \* _acquisition_count > seen, for each waiting reader
    alive       \* the daemon thread each reader took is alive

config == <<channels, fetches>>
device == <<isOpen, hw, sw, running, acquiring, driverUp, config>>
readers == <<rd, awake, fresh, alive>>
vars == <<device, stopEvent, ctl, closing, daemon, readers>>

Inputs == channels \cap Analog

TypeOK ==
    /\ isOpen \in BOOLEAN /\ hw \in BOOLEAN /\ sw \in BOOLEAN /\ ~(hw /\ sw)
    /\ running \in BOOLEAN /\ acquiring \in BOOLEAN
    /\ driverUp \in BOOLEAN /\ stopEvent \in BOOLEAN
    /\ channels \subseteq Aliases /\ fetches \in BOOLEAN
    /\ ctl \in {"idle", "spawn", "join", "notify", "halt", "publishers", "driver"}
    /\ closing \in BOOLEAN
    /\ daemon \in {"off", "loop", "fetch", "hand", "wait"}
    /\ rd \in [Readers -> {"idle", "begin", "fetch", "enter", "wait"}]
    /\ awake \in [Readers -> BOOLEAN] /\ fresh \in [Readers -> BOOLEAN]
    /\ alive \in [Readers -> BOOLEAN]

Init ==
    /\ isOpen = FALSE /\ hw = FALSE /\ sw = FALSE
    /\ running = FALSE /\ acquiring = FALSE /\ driverUp = FALSE
    /\ channels = {} /\ fetches = FALSE
    /\ stopEvent = FALSE /\ ctl = "idle" /\ closing = FALSE
    /\ daemon = "off"
    /\ rd = [r \in Readers |-> "idle"]
    /\ awake = [r \in Readers |-> FALSE] /\ fresh = [r \in Readers |-> FALSE]
    /\ alive = [r \in Readers |-> FALSE]

DaemonAlive == daemon # "off"

-----------------------------------------------------------------------------
(* The controller: open and configure *)

Open ==
    /\ ctl = "idle"
    /\ isOpen' = TRUE /\ driverUp' = TRUE
    /\ UNCHANGED <<hw, sw, running, acquiring, config, stopEvent, ctl, closing, daemon, readers>>

ConfigureHw ==
    /\ ctl = "idle" /\ isOpen /\ ~sw
    /\ hw' = TRUE
    /\ UNCHANGED <<isOpen, sw, running, acquiring, driverUp, config, stopEvent, ctl, closing, daemon, readers>>

ConfigureSw ==
    /\ ctl = "idle" /\ isOpen /\ ~hw
    /\ sw' = TRUE
    /\ UNCHANGED <<isOpen, hw, running, acquiring, driverUp, config, stopEvent, ctl, closing, daemon, readers>>

\* Faulty: the device may run.
MayConfigureAlways(a) == a \notin channels

\* A name is given once, and no channel is added to a device that runs.
MayConfigure(a) == a \notin channels /\ ~running

ConfigureUnchanged == UNCHANGED <<isOpen, hw, sw, running, acquiring, driverUp, fetches,
                                  stopEvent, ctl, closing, daemon, readers>>

\* Analog inputs and outputs, thermocouples and digital lines; a driver that
\* raises adds nothing.
ConfigureChannel(a) ==
    /\ ctl = "idle" /\ isOpen /\ MayConfigure(a)
    /\ channels' = channels \cup {a}
    /\ ConfigureUnchanged

\* configure_digital_port() tests neither.
ConfigurePort(a) ==
    /\ ctl = "idle" /\ isOpen /\ a \notin Analog
    /\ channels' = channels \cup {a}
    /\ ConfigureUnchanged

-----------------------------------------------------------------------------
(* The controller: start() *)

\* _define_background_daemon(): nothing to fetch, nothing registered.
DefineDaemon == fetches' = (fetches \/ Inputs # {})

\* Software timing, chosen by default, starts the daemon only; background=False
\* starts nothing and is left out.  Instrument.start() comes first here.
StartSw ==
    /\ ctl = "idle" /\ isOpen /\ ~hw
    /\ sw' = TRUE
    /\ DefineDaemon
    /\ ctl' = "spawn"
    /\ UNCHANGED <<isOpen, hw, running, acquiring, driverUp, channels, stopEvent, closing, daemon, readers>>

\* Hardware timing starts the device, then, with background=True, the daemon.
\* A driver.start() that raises leaves everything as it was.
StartHw(background) ==
    /\ ctl = "idle" /\ isOpen /\ hw /\ ~sw
    /\ acquiring' = TRUE /\ running' = TRUE
    /\ IF background THEN DefineDaemon /\ ctl' = "spawn" ELSE UNCHANGED <<fetches, ctl>>
    /\ UNCHANGED <<isOpen, hw, sw, driverUp, channels, stopEvent, closing, daemon, readers>>

\* Instrument.start(): a no-op while the daemon lives.
Spawn ==
    /\ ctl = "spawn"
    /\ ctl' = "idle" /\ running' = TRUE
    /\ IF DaemonAlive THEN UNCHANGED <<daemon, stopEvent>>
       ELSE daemon' = "loop" /\ stopEvent' = FALSE
    /\ UNCHANGED <<isOpen, hw, sw, acquiring, driverUp, config, closing, readers>>

-----------------------------------------------------------------------------
(* The controller: stop() and close() *)

\* stop(), alone or as the first thing close() calls.
Stop(inClose) ==
    /\ ctl = "idle"
    /\ closing' = inClose
    /\ IF DaemonAlive THEN stopEvent' = TRUE /\ ctl' = "join"
       ELSE ctl' = "notify" /\ UNCHANGED stopEvent
    /\ UNCHANGED <<device, daemon, readers>>

\* Faulty: the daemon is not joined.
JoinNobody ==
    /\ ctl = "join"
    /\ ctl' = "notify"
    /\ UNCHANGED <<device, stopEvent, closing, daemon, readers>>

Join ==
    /\ ctl = "join" /\ ~DaemonAlive
    /\ ctl' = "notify"
    /\ UNCHANGED <<device, stopEvent, closing, daemon, readers>>

\* Faulty: the waiting readers are not told.
NotifyNobody ==
    /\ ctl = "notify"
    /\ ctl' = "halt"
    /\ UNCHANGED <<device, stopEvent, closing, daemon, readers>>

\* _acquisition_ready.notify_all()
Notify ==
    /\ ctl = "notify"
    /\ awake' = [r \in Readers |-> TRUE]
    /\ ctl' = "halt"
    /\ UNCHANGED <<device, stopEvent, closing, daemon, rd, fresh, alive>>

\* After stop(): back to the caller or on with close().
StopReturns == ctl' = IF closing THEN "publishers" ELSE "idle"

\* The device is stopped unless it is not open or software timed.  What
\* driver.stop() raises leaves stop(), and with it close().
Halt ==
    /\ ctl = "halt"
    /\ \/ /\ ~isOpen
          /\ StopReturns /\ UNCHANGED <<running, acquiring>>
       \/ /\ isOpen /\ sw
          /\ running' = FALSE
          /\ StopReturns /\ UNCHANGED acquiring
       \/ /\ isOpen /\ ~sw
          /\ running' = FALSE /\ acquiring' = FALSE
          /\ StopReturns
       \/ /\ isOpen /\ ~sw
          /\ ctl' = "idle"
          /\ UNCHANGED <<running, acquiring>>
    /\ UNCHANGED <<isOpen, hw, sw, driverUp, config, stopEvent, closing, daemon, readers>>

\* The rest of Instrument.close(): a publisher may raise.
ClosePublishers ==
    /\ ctl = "publishers"
    /\ ctl' \in {"driver", "idle"}
    /\ UNCHANGED <<device, stopEvent, closing, daemon, readers>>

CloseDriver ==
    /\ ctl = "driver"
    /\ ctl' = "idle"
    /\ \/ /\ driverUp' = FALSE /\ isOpen' = FALSE /\ acquiring' = FALSE
       \/ UNCHANGED <<driverUp, isOpen, acquiring>>
    /\ UNCHANGED <<hw, sw, running, config, stopEvent, closing, daemon, readers>>

-----------------------------------------------------------------------------
(* The daemon *)

\* The end of the thread, seen by the readers that took it.
Die == daemon' = "off" /\ alive' = [r \in Readers |-> FALSE]

\* Faulty: the stop event is not looked at.
DaemonLoopUnstopped ==
    /\ daemon = "loop"
    /\ daemon' = "fetch"
    /\ UNCHANGED <<device, stopEvent, ctl, closing, readers>>

\* A daemon that has nothing to fetch only waits.
DaemonLoop ==
    /\ daemon = "loop"
    /\ IF stopEvent THEN Die ELSE daemon' = (IF fetches THEN "fetch" ELSE "wait") /\ UNCHANGED alive
    /\ UNCHANGED <<device, stopEvent, ctl, closing, rd, awake, fresh>>

\* _acquire_analog(): the loop catches what it raises.
DaemonFetch ==
    /\ daemon = "fetch"
    /\ daemon' \in {"hand", "wait"}
    /\ UNCHANGED <<device, stopEvent, ctl, closing, readers>>

\* The acquisition is handed to the waiting readers, under the condition.
DaemonHand ==
    /\ daemon = "hand"
    /\ fresh' = [r \in Readers |-> rd[r] = "wait"]
    /\ awake' = [r \in Readers |-> TRUE]
    /\ daemon' = "wait"
    /\ UNCHANGED <<device, stopEvent, ctl, closing, rd, alive>>

\* The wait for the interval; the timing publish that follows may raise and
\* end the thread.
DaemonWait ==
    /\ daemon = "wait"
    /\ \/ daemon' = "loop" /\ UNCHANGED alive
       \/ Die
    /\ UNCHANGED <<device, stopEvent, ctl, closing, rd, awake, fresh>>

-----------------------------------------------------------------------------
(* Readers *)

ReadGoto(r, where) == rd' = [rd EXCEPT ![r] = where]
ReaderUnchanged == UNCHANGED <<device, stopEvent, ctl, closing, daemon>>

\* read_batch(): `daemon_running` is looked at once, here.
ReadBatch(r) ==
    /\ rd[r] = "idle" /\ isOpen /\ Inputs # {}
    /\ ReadGoto(r, IF DaemonAlive THEN "enter" ELSE "begin")
    /\ UNCHANGED <<awake, fresh, alive>> /\ ReaderUnchanged

\* read_analog() raises while the daemon lives.
ReadAnalog(r) ==
    /\ rd[r] = "idle" /\ isOpen /\ ~DaemonAlive
    /\ ReadGoto(r, "begin")
    /\ UNCHANGED <<awake, fresh, alive>> /\ ReaderUnchanged

\* Writes, relays and digital reads go to the driver beside the daemon.
DriverCall(r) ==
    /\ rd[r] = "idle" /\ isOpen
    /\ ReadGoto(r, "begin")
    /\ UNCHANGED <<awake, fresh, alive>> /\ ReaderUnchanged

BeginFetch(r) ==
    /\ rd[r] = "begin"
    /\ ReadGoto(r, "fetch")
    /\ UNCHANGED <<awake, fresh, alive>> /\ ReaderUnchanged

EndFetch(r) ==
    /\ rd[r] = "fetch"
    /\ ReadGoto(r, "idle")
    /\ UNCHANGED <<awake, fresh, alive>> /\ ReaderUnchanged

\* _wait_for_acquisition(): take the daemon and the count, evaluate once.
EnterWait(r) ==
    /\ rd[r] = "enter"
    /\ ReadGoto(r, IF DaemonAlive THEN "wait" ELSE "idle")
    /\ alive' = [alive EXCEPT ![r] = DaemonAlive]
    /\ fresh' = [fresh EXCEPT ![r] = FALSE] /\ awake' = [awake EXCEPT ![r] = FALSE]
    /\ ReaderUnchanged

\* Notified: an acquisition, the error of a daemon that stopped, or sleep on.
Wake(r) ==
    /\ rd[r] = "wait" /\ awake[r]
    /\ ReadGoto(r, IF fresh[r] \/ ~alive[r] THEN "idle" ELSE "wait")
    /\ awake' = [awake EXCEPT ![r] = FALSE]
    /\ UNCHANGED <<fresh, alive>> /\ ReaderUnchanged

\* wait_for() gives up; it evaluates its predicate a last time.
Timeout(r) ==
    /\ rd[r] = "wait"
    /\ ReadGoto(r, "idle")
    /\ UNCHANGED <<awake, fresh, alive>> /\ ReaderUnchanged

-----------------------------------------------------------------------------

ControlStep == Spawn \/ Join \/ Notify \/ Halt \/ ClosePublishers \/ CloseDriver
ControlCall ==
    \/ Open \/ ConfigureHw \/ ConfigureSw \/ StartSw
    \/ \E a \in Aliases : ConfigureChannel(a) \/ ConfigurePort(a)
    \/ \E background \in BOOLEAN : StartHw(background)
    \/ \E inClose \in BOOLEAN : Stop(inClose)
DaemonStep == DaemonLoop \/ DaemonFetch \/ DaemonHand \/ DaemonWait
ReaderStep(r) == BeginFetch(r) \/ EndFetch(r) \/ EnterWait(r) \/ Wake(r)

Next ==
    \/ ControlCall \/ ControlStep
    \/ DaemonStep
    \/ \E r \in Readers : ReadBatch(r) \/ ReadAnalog(r) \/ DriverCall(r) \/ ReaderStep(r) \/ Timeout(r)

Spec == Init /\ [][Next]_vars

\* Threads that can run do; no thread makes a call and no timeout runs out
\* because it has to.
FairSpec ==
    /\ Spec
    /\ WF_vars(ControlStep) /\ WF_vars(DaemonStep)
    /\ \A r \in Readers : WF_vars(ReaderStep(r))

-----------------------------------------------------------------------------
(* Properties *)

\* The analog inputs change only while the device does not acquire and no daemon
\* lives, through failed stops, failed closes and daemons that died: the channels
\* an acquisition was made for are those its readers look up in it.
InputsAreFixed == [][Inputs' # Inputs => ~acquiring /\ ~DaemonAlive]_vars

\* The daemon never talks to a driver that was closed under it.
DaemonHasDriver == daemon \in {"fetch", "hand"} => driverUp /\ isOpen

\* The controller comes back from stop() and close(), whatever the daemon, the
\* readers and the driver do.
ControllerReturns == ctl # "idle" ~> ctl = "idle"

\* stop() wakes the readers that wait for an acquisition that will not come:
\* they need not sit out their timeout.
StopReleasesReaders == \A r \in Readers : (rd[r] = "wait" /\ ctl = "notify") ~> (rd[r] # "wait")
=============================================================================
