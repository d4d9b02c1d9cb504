------------------------------ MODULE DAQProofs ------------------------------
(***************************************************************************)
(* Proofs about DAQ, for every set of readers and of channels.             *)
(*                                                                         *)
(* What carries them: stop() joins the daemon before it touches the        *)
(* device, so from the join to the end of close() there is none; running   *)
(* is set with whatever acquires and cleared only where both the device    *)
(* and the daemon were stopped; and only hardware timing, which excludes   *)
(* software timing, starts the device.                                     *)
(***************************************************************************)
EXTENDS DAQ, TLAPS

\* Where the controller is after the join of stop().
Joined == {"notify", "halt", "publishers", "driver"}

JoinedHasNoDaemon == ctl \in Joined => ~DaemonAlive
RunningIsKnown == acquiring \/ DaemonAlive => running
OnlyHwAcquires == acquiring => hw
OpenHasDriver == isOpen = driverUp /\ (ctl = "spawn" \/ DaemonAlive => isOpen)

IInv == TypeOK /\ JoinedHasNoDaemon /\ RunningIsKnown /\ OnlyHwAcquires /\ OpenHasDriver

\* What the steps of readers leave alone.
LEMMA ReadersKeep ==
    ASSUME IInv, NEW r \in Readers,
           ReadBatch(r) \/ ReadAnalog(r) \/ DriverCall(r) \/ ReaderStep(r) \/ Timeout(r)
    PROVE  IInv'
<1> DEFINE Places == {"idle", "begin", "fetch", "enter", "wait"}
<1>0. ASSUME rd' \in [Readers -> Places],
             awake' \in [Readers -> BOOLEAN], fresh' \in [Readers -> BOOLEAN], alive' \in [Readers -> BOOLEAN],
             UNCHANGED <<device, stopEvent, ctl, closing, daemon>>
      PROVE  IInv'
  <2>1. TypeOK'
    BY <1>0 DEF IInv, TypeOK, device, config
  <2>2. JoinedHasNoDaemon' /\ RunningIsKnown' /\ OnlyHwAcquires' /\ OpenHasDriver'
    BY <1>0 DEF IInv, JoinedHasNoDaemon, RunningIsKnown, OnlyHwAcquires, OpenHasDriver, DaemonAlive, device, config
  <2> QED
    BY <2>1, <2>2 DEF IInv
<1>1. /\ rd \in [Readers -> Places]
      /\ awake \in [Readers -> BOOLEAN] /\ fresh \in [Readers -> BOOLEAN] /\ alive \in [Readers -> BOOLEAN]
  BY DEF IInv, TypeOK
<1>2. ASSUME NEW w \in Places, rd' = [rd EXCEPT ![r] = w], UNCHANGED <<awake, fresh, alive>>, ReaderUnchanged
      PROVE  IInv'
  BY <1>0, <1>1, <1>2 DEF ReaderUnchanged
<1>3. CASE ReadBatch(r)
  BY <1>2, <1>3 DEF ReadBatch, ReadGoto
<1>4. CASE ReadAnalog(r) \/ DriverCall(r) \/ BeginFetch(r)
  BY <1>2, <1>4 DEF ReadAnalog, DriverCall, BeginFetch, ReadGoto
<1>5. CASE EndFetch(r) \/ Timeout(r)
  BY <1>2, <1>5 DEF EndFetch, Timeout, ReadGoto
<1>6. CASE EnterWait(r)
  <2>1. PICK w \in Places, live \in BOOLEAN :
            rd' = [rd EXCEPT ![r] = w] /\ alive' = [alive EXCEPT ![r] = live]
    BY <1>6 DEF EnterWait, ReadGoto, DaemonAlive
  <2>2. fresh' = [fresh EXCEPT ![r] = FALSE] /\ awake' = [awake EXCEPT ![r] = FALSE] /\ ReaderUnchanged
    BY <1>6 DEF EnterWait
  <2> QED
    BY <1>0, <1>1, <2>1, <2>2 DEF ReaderUnchanged
<1>7. CASE Wake(r)
  <2>1. PICK w \in Places : rd' = [rd EXCEPT ![r] = w]
    BY <1>7 DEF Wake, ReadGoto
  <2>2. awake' = [awake EXCEPT ![r] = FALSE] /\ UNCHANGED <<fresh, alive>> /\ ReaderUnchanged
    BY <1>7 DEF Wake
  <2> QED
    BY <1>0, <1>1, <2>1, <2>2 DEF ReaderUnchanged
<1>8. QED
  BY <1>3, <1>4, <1>5, <1>6, <1>7 DEF ReaderStep

\* The daemon ends or goes round; it is never brought back by itself.
LEMMA DaemonKeeps ==
    ASSUME IInv, DaemonStep
    PROVE  IInv'
<1> USE DEF IInv, TypeOK, JoinedHasNoDaemon, RunningIsKnown, OnlyHwAcquires, OpenHasDriver,
            DaemonAlive, device, config, readers, Die
<1>1. CASE DaemonLoop
  BY <1>1 DEF DaemonLoop
<1>2. CASE DaemonFetch
  BY <1>2 DEF DaemonFetch
<1>3. CASE DaemonHand
  BY <1>3 DEF DaemonHand
<1>4. CASE DaemonWait
  BY <1>4 DEF DaemonWait
<1>5. QED
  BY <1>1, <1>2, <1>3, <1>4 DEF DaemonStep

\* The calls of the controller.
LEMMA CallsKeep ==
    ASSUME IInv, ControlCall
    PROVE  IInv'
<1> USE DEF IInv, TypeOK, JoinedHasNoDaemon, RunningIsKnown, OnlyHwAcquires, OpenHasDriver,
            DaemonAlive, device, config, readers, Joined, Inputs
<1>1. CASE Open
  BY <1>1 DEF Open
<1>2. CASE ConfigureHw
  BY <1>2 DEF ConfigureHw
<1>3. CASE ConfigureSw
  BY <1>3 DEF ConfigureSw
<1>4. CASE StartSw
  BY <1>4 DEF StartSw, DefineDaemon
<1>5. ASSUME NEW a \in Aliases, ConfigureChannel(a)
      PROVE  IInv'
  BY <1>5 DEF ConfigureChannel, ConfigureUnchanged
<1>6. ASSUME NEW a \in Aliases, ConfigurePort(a)
      PROVE  IInv'
  BY <1>6 DEF ConfigurePort, ConfigureUnchanged
<1>7. ASSUME NEW background \in BOOLEAN, StartHw(background)
      PROVE  IInv'
  BY <1>7 DEF StartHw, DefineDaemon
<1>8. ASSUME NEW inClose \in BOOLEAN, Stop(inClose)
      PROVE  IInv'
  BY <1>8 DEF Stop
<1>9. QED
  BY <1>1, <1>2, <1>3, <1>4, <1>5, <1>6, <1>7, <1>8 DEF ControlCall

\* What the controller's calls go on to do.
LEMMA ControlKeeps ==
    ASSUME IInv, ControlStep
    PROVE  IInv'
<1> USE DEF IInv, TypeOK, JoinedHasNoDaemon, RunningIsKnown, OnlyHwAcquires, OpenHasDriver,
            DaemonAlive, device, config, readers, Joined
<1>1. CASE Spawn
  <2>1. /\ ctl = "spawn" /\ ctl' = "idle" /\ running' = TRUE
        /\ UNCHANGED <<isOpen, hw, sw, acquiring, driverUp, channels, fetches, closing, rd, awake,
                       fresh, alive>>
    BY <1>1 DEF Spawn
  <2>2. \/ UNCHANGED <<daemon, stopEvent>>
        \/ daemon' = "loop" /\ stopEvent' = FALSE
    BY <1>1 DEF Spawn
  <2>3. TypeOK'
    BY <2>1, <2>2
  <2>4. JoinedHasNoDaemon' /\ RunningIsKnown' /\ OnlyHwAcquires' /\ OpenHasDriver'
    BY <2>1
  <2>5. QED
    BY <2>3, <2>4
<1>2. CASE Join
  BY <1>2 DEF Join
<1>3. CASE Notify
  BY <1>3 DEF Notify
<1>4. CASE Halt
  <2>1. /\ ctl = "halt" /\ ~DaemonAlive
        /\ UNCHANGED <<isOpen, hw, sw, driverUp, channels, fetches, stopEvent, closing, daemon, rd,
                       awake, fresh, alive>>
    BY <1>4 DEF Halt
  <2>2. ctl' \in {"idle", "publishers"}
    BY <1>4 DEF Halt, StopReturns
  <2>3. \/ UNCHANGED <<running, acquiring>>
        \/ sw /\ running' = FALSE /\ UNCHANGED acquiring
        \/ running' = FALSE /\ acquiring' = FALSE
    BY <1>4 DEF Halt
  <2>4. TypeOK'
    BY <2>1, <2>2, <2>3
  <2>5. JoinedHasNoDaemon' /\ OpenHasDriver'
    BY <2>1, <2>2
  <2>6. sw => ~acquiring
    OBVIOUS
  <2>7. RunningIsKnown' /\ OnlyHwAcquires'
    BY <2>1, <2>3, <2>6
  <2>8. QED
    BY <2>4, <2>5, <2>7
<1>5. CASE ClosePublishers
  BY <1>5 DEF ClosePublishers
<1>6. CASE CloseDriver
  <2>1. /\ ctl = "driver" /\ ctl' = "idle"
        /\ UNCHANGED <<hw, sw, running, channels, fetches, stopEvent, closing, daemon, rd, awake,
                       fresh, alive>>
    BY <1>6 DEF CloseDriver
  <2>2. \/ driverUp' = FALSE /\ isOpen' = FALSE /\ acquiring' = FALSE
        \/ UNCHANGED <<driverUp, isOpen, acquiring>>
    BY <1>6 DEF CloseDriver
  <2>3. TypeOK'
    BY <2>1, <2>2
  <2>4. JoinedHasNoDaemon' /\ RunningIsKnown' /\ OnlyHwAcquires'
    BY <2>1, <2>2
  <2>5. ~DaemonAlive
    BY <2>1
  <2>6. OpenHasDriver'
    BY <2>1, <2>2, <2>5
  <2>7. QED
    BY <2>3, <2>4, <2>6
<1>7. QED
  BY <1>1, <1>2, <1>3, <1>4, <1>5, <1>6 DEF ControlStep

\* The invariant that the theorems below need.
LEMMA DAQInvariant == Spec => []IInv
<1>1. Init => IInv
  BY DEF Init, IInv, TypeOK, JoinedHasNoDaemon, RunningIsKnown, OnlyHwAcquires, OpenHasDriver,
         DaemonAlive, Joined
<1>2. IInv /\ [Next]_vars => IInv'
  <2> SUFFICES ASSUME IInv, [Next]_vars
               PROVE  IInv'
    OBVIOUS
  <2>1. CASE Next
    BY <2>1, ReadersKeep, DaemonKeeps, CallsKeep, ControlKeeps DEF Next
  <2>2. CASE UNCHANGED vars
    BY <2>2 DEF vars, device, config, readers, IInv, TypeOK, JoinedHasNoDaemon, RunningIsKnown,
                OnlyHwAcquires, OpenHasDriver, DaemonAlive
  <2>3. QED
    BY <2>1, <2>2
<1>3. QED
  BY <1>1, <1>2, PTL DEF Spec

\* The types, with software and hardware timing excluding each other.
THEOREM DAQTypes == Spec => []TypeOK
<1>1. IInv => TypeOK
  BY DEF IInv
<1>2. QED
  BY <1>1, DAQInvariant, PTL

\* close() never takes the driver from under the daemon: it has joined it.
THEOREM DriverOutlivesDaemon == Spec => []DaemonHasDriver
<1>1. IInv => DaemonHasDriver
  BY DEF IInv, OpenHasDriver, DaemonAlive, DaemonHasDriver
<1>2. QED
  BY <1>1, DAQInvariant, PTL

\* Channels are configured by the controller only.
LEMMA OnlyConfigureAdds ==
    ASSUME Next, channels' # channels
    PROVE  \E a \in Aliases : ConfigureChannel(a) \/ ConfigurePort(a)
<1> USE DEF device, config
<1>1. ASSUME NEW r \in Readers,
             ReadBatch(r) \/ ReadAnalog(r) \/ DriverCall(r) \/ ReaderStep(r) \/ Timeout(r)
      PROVE  UNCHANGED channels
  BY <1>1 DEF ReadBatch, ReadAnalog, DriverCall, ReaderStep, BeginFetch, EndFetch, EnterWait, Wake,
              Timeout, ReaderUnchanged
<1>2. DaemonStep => UNCHANGED channels
  BY DEF DaemonStep, DaemonLoop, DaemonFetch, DaemonHand, DaemonWait
<1>3. ControlStep => UNCHANGED channels
  BY DEF ControlStep, Spawn, Join, Notify, Halt, ClosePublishers, CloseDriver
<1>4. Open \/ ConfigureHw \/ ConfigureSw \/ StartSw => UNCHANGED channels
  BY DEF Open, ConfigureHw, ConfigureSw, StartSw
<1>5. ASSUME NEW background \in BOOLEAN, StartHw(background)
      PROVE  UNCHANGED channels
  BY <1>5 DEF StartHw
<1>6. ASSUME NEW inClose \in BOOLEAN, Stop(inClose)
      PROVE  UNCHANGED channels
  BY <1>6 DEF Stop
<1>7. QED
  BY <1>1, <1>2, <1>3, <1>4, <1>5, <1>6 DEF Next, ControlCall

\* The analog inputs change only while nothing acquires: configuring one tests
\* running, and whatever acquires is running.
THEOREM AcquisitionKeepsInputs == Spec => InputsAreFixed
<1>1. IInv /\ [Next]_vars => [Inputs' # Inputs => ~acquiring /\ ~DaemonAlive]_vars
  <2> SUFFICES ASSUME IInv, Next, Inputs' # Inputs
               PROVE  ~acquiring /\ ~DaemonAlive
    BY DEF vars
  <2>1. PICK a \in Aliases : ConfigureChannel(a) \/ ConfigurePort(a)
    BY OnlyConfigureAdds DEF Inputs
  <2>2. ~ConfigurePort(a)
    BY DEF ConfigurePort, Inputs
  <2>3. ~running
    BY <2>1, <2>2 DEF ConfigureChannel, MayConfigure
  <2>4. QED
    BY <2>3 DEF IInv, RunningIsKnown
<1>2. QED
  BY <1>1, DAQInvariant, PTL DEF Spec, InputsAreFixed
=============================================================================
