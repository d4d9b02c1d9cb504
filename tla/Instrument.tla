----------------------------- MODULE Instrument -----------------------------
(***************************************************************************)
(* The life of an instrument (instro/lib/instrument.py): a background      *)
(* daemon thread that polls and publishes, the in-memory channel buffer    *)
(* that exists while it runs, and the threads that use them: controllers   *)
(* call start(), stop(), close() and add_publisher(), readers call         *)
(* get_channel(), speakers call methods that publish in the foreground.    *)
(*                                                                         *)
(* Nothing in instrument.py takes a lock, so a step is at most one access  *)
(* to an attribute another thread writes; a test of the publisher list     *)
(* with the change that depends on it is one step too.  The buffer         *)
(* and the daemon thread that a start() makes bear the number of that call *)
(* of start(); 0 stands for None.  ChannelBuffer models what happens       *)
(* inside one buffer.                                                      *)
(***************************************************************************)
EXTENDS Naturals, Sequences, FiniteSets

CONSTANTS
    Controllers,    \* threads calling start, stop, close, add_publisher
    Readers,        \* threads calling get_channel
    Speakers,       \* threads whose calls publish
    Users,          \* publishers the user attaches
    InitialUsers,   \* a sequence: the publishers given to __init__
    Failing,        \* user publishers whose publish() may raise
    FailingClose,   \* user publishers whose close() may raise
    MaxStarts       \* bound: calls of start() in a behaviour

ASSUME InstrumentAssumption ==
    /\ Failing \subseteq Users /\ FailingClose \subseteq Users
    /\ InitialUsers \in Seq(Users)
    /\ MaxStarts \in Nat

Ids == 1..MaxStarts
Ids0 == 0..MaxStarts
Callers == Controllers \cup Readers \cup Speakers

VARIABLES
    thread,     \* _background_thread
    dpc,        \* where each daemon thread is
    stopEvent,  \* _background_stop_event
    buffer,     \* _channel_buffer
    closedBufs, \* channel buffers that were closed
    fed,        \* channel buffers that hold samples
    publishers, \* the list `publishers`: user publishers and buffers
    shut,       \* user publishers that were closed
    starts,     \* calls of start() so far
    pc,         \* where each caller is
    op,         \* what it was called for
    mine,       \* the number of a controller's latest start()
    pos,        \* index of a thread's `for publisher in self.publishers`
    got,        \* the buffer a reader is in
    reached,    \* history: user publishers a speaker's publish() got to
    owed,       \* history: user publishers attached when that publish(), or a
                \* controller's close(), began
    outcome     \* how a caller's last call ended

daemonVars == <<thread, dpc, stopEvent>>
bufferVars == <<buffer, closedBufs, fed>>
callerVars == <<op, mine, got, reached, owed>>
listVars == <<publishers, shut>>
vars == <<daemonVars, bufferVars, listVars, starts, pc, pos, callerVars, outcome>>

User(u) == [kind |-> "user", id |-> u]
Buf(b) == [kind |-> "buffer", id |-> b]

\* What the list holds; Buf(0) is a None that a start() racing a stop() added.
Listed == {User(u) : u \in Users} \cup {Buf(b) : b \in Ids0}

Live == {"check", "work", "wait", "timing"}
IsAlive(t) == t # 0 /\ dpc[t] \in Live

Registered(p) == \E i \in 1..Len(publishers) : publishers[i] = p
AttachedUsers == {u \in Users : Registered(User(u))}

\* list.remove: the first occurrence goes, the rest moves up.
Without(seq, p) ==
    LET i == CHOOSE i \in 1..Len(seq) : seq[i] = p /\ \A j \in 1..(i - 1) : seq[j] # p
    IN [j \in 1..(Len(seq) - 1) |-> IF j < i THEN seq[j] ELSE seq[j + 1]]

ControllerAt == {"idle", "st_check", "st_setup", "st_build", "st_register", "st_clear",
                 "st_spawn", "st_launch", "sp_check", "sp_set", "sp_join", "sp_close", "sp_remove", "sp_drop", "cl_loop"}
ReaderAt == {"g_check", "g_assert", "g_enter", "g_wait"}

DaemonTypeOK ==
    /\ thread \in Ids0 /\ (thread # 0 => dpc[thread] # "none")
    /\ dpc \in [Ids -> {"none", "created", "dead"} \cup Live]
    /\ stopEvent \in BOOLEAN

BufferTypeOK ==
    /\ buffer \in Ids0
    /\ closedBufs \subseteq Ids0 /\ fed \subseteq Ids0
    /\ publishers \in Seq(Listed)
    /\ shut \subseteq Users

CallerTypeOK ==
    /\ starts \in 0..MaxStarts
    /\ pc \in [Callers -> ControllerAt \cup ReaderAt \cup {"publish"}]
    /\ op \in [Callers -> {"none", "start", "stop", "close"}]
    /\ mine \in [Callers -> Ids0] /\ got \in [Callers -> Ids0]
    /\ pos \in [Callers \cup Ids -> Nat \ {0}]

TypeOK == DaemonTypeOK /\ BufferTypeOK /\ CallerTypeOK

Init ==
    /\ thread = 0
    /\ dpc = [t \in Ids |-> "none"]
    /\ stopEvent = FALSE
    /\ buffer = 0 /\ closedBufs = {} /\ fed = {}
    /\ publishers = [i \in 1..Len(InitialUsers) |-> User(InitialUsers[i])]
    /\ shut = {}
    /\ starts = 0
    /\ pc = [c \in Callers |-> "idle"]
    /\ op = [c \in Callers |-> "none"]
    /\ mine = [c \in Callers |-> 0]
    /\ pos = [t \in Callers \cup Ids |-> 1]
    /\ got = [c \in Callers |-> 0]
    /\ reached = [c \in Callers |-> {}]
    /\ owed = [c \in Callers |-> {}]
    /\ outcome = [c \in Callers |-> "none"]

Goto(c, at) == pc' = [pc EXCEPT ![c] = at]
Leave(c, how) == Goto(c, "idle") /\ outcome' = [outcome EXCEPT ![c] = how]

-----------------------------------------------------------------------------
(* Fanning data out: Instrument.publish(), by a speaker or a daemon *)

Current(t) == publishers[pos[t]]
AtEnd(t) == pos[t] > Len(publishers)

\* One turn of the loop: the next publisher takes the data.
Deliver(t) ==
    /\ ~AtEnd(t)
    /\ pos' = [pos EXCEPT ![t] = @ + 1]
    /\ fed' = IF Current(t).kind = "buffer" THEN fed \cup {Current(t).id} ELSE fed

\* ... or raises, and the rest of the list gets nothing.
Raises(t) == ~AtEnd(t) /\ Current(t).kind = "user" /\ Current(t).id \in Failing

-----------------------------------------------------------------------------
(* start() *)

CallStart(c) ==
    /\ pc[c] = "idle" /\ starts < MaxStarts
    /\ starts' = starts + 1
    /\ mine' = [mine EXCEPT ![c] = starts']
    /\ op' = [op EXCEPT ![c] = "start"]
    /\ outcome' = [outcome EXCEPT ![c] = "none"]
    /\ owed' = [owed EXCEPT ![c] = {}]
    /\ Goto(c, "st_check")
    /\ UNCHANGED <<daemonVars, bufferVars, listVars, pos, got, reached>>

\* Faulty: a daemon that runs does not stop a second one from starting.
StartChecksNothing(c) ==
    /\ pc[c] = "st_check"
    /\ Goto(c, "st_setup")
    /\ UNCHANGED <<daemonVars, bufferVars, listVars, starts, pos, callerVars, outcome>>

StartCheck(c) ==
    /\ pc[c] = "st_check"
    /\ IF IsAlive(thread) THEN Leave(c, "ok") ELSE Goto(c, "st_setup") /\ UNCHANGED outcome
    /\ UNCHANGED <<daemonVars, bufferVars, listVars, starts, pos, callerVars>>

\* _setup_channel_buffer: a buffer only if there is none ...
SetupBuffer(c) ==
    /\ pc[c] = "st_setup"
    /\ Goto(c, IF buffer = 0 THEN "st_build" ELSE "st_register")
    /\ UNCHANGED <<daemonVars, bufferVars, listVars, starts, pos, callerVars, outcome>>

BuildBuffer(c) ==
    /\ pc[c] = "st_build"
    /\ buffer' = mine[c]
    /\ Goto(c, "st_register")
    /\ UNCHANGED <<daemonVars, closedBufs, fed, listVars, starts, pos, callerVars, outcome>>

\* ... and registered only if it is not.
RegisterBuffer(c) ==
    /\ pc[c] = "st_register"
    /\ publishers' = IF Registered(Buf(buffer)) THEN publishers ELSE Append(publishers, Buf(buffer))
    /\ Goto(c, "st_clear")
    /\ UNCHANGED <<daemonVars, bufferVars, shut, starts, pos, callerVars, outcome>>

ClearStopEvent(c) ==
    /\ pc[c] = "st_clear"
    /\ stopEvent' = FALSE
    /\ Goto(c, "st_spawn")
    /\ UNCHANGED <<thread, dpc, bufferVars, listVars, starts, pos, callerVars, outcome>>

Spawn(c) ==
    /\ pc[c] = "st_spawn"
    /\ thread' = mine[c]
    /\ dpc' = [dpc EXCEPT ![mine[c]] = "created"]
    /\ Goto(c, "st_launch")
    /\ UNCHANGED <<stopEvent, bufferVars, listVars, starts, pos, callerVars, outcome>>

\* `self._background_thread.start()` reads the attribute again; a thread can
\* be started once.
Launch(c) ==
    /\ pc[c] = "st_launch"
    /\ IF dpc[thread] = "created"
       THEN dpc' = [dpc EXCEPT ![thread] = "check"] /\ Leave(c, "ok")
       ELSE UNCHANGED dpc /\ Leave(c, "runtime_error")
    /\ UNCHANGED <<thread, stopEvent, bufferVars, listVars, starts, pos, callerVars>>

-----------------------------------------------------------------------------
(* stop() and close() *)

CallStop(c, why) ==
    /\ pc[c] = "idle"
    /\ op' = [op EXCEPT ![c] = why]
    /\ owed' = [owed EXCEPT ![c] = IF why = "close" THEN AttachedUsers ELSE {}]
    /\ outcome' = [outcome EXCEPT ![c] = "none"]
    /\ Goto(c, "sp_check")
    /\ UNCHANGED <<daemonVars, bufferVars, listVars, starts, pos, mine, got, reached>>

\* stop() is done: close() goes on to the publishers.
AfterStop(c) ==
    IF op[c] = "close"
    THEN Goto(c, "cl_loop") /\ pos' = [pos EXCEPT ![c] = 1] /\ UNCHANGED outcome
    ELSE Leave(c, "ok") /\ UNCHANGED pos

StopCheck(c) ==
    /\ pc[c] = "sp_check"
    /\ IF IsAlive(thread) THEN Goto(c, "sp_set") /\ UNCHANGED <<pos, outcome>> ELSE AfterStop(c)
    /\ UNCHANGED <<daemonVars, bufferVars, listVars, starts, callerVars>>

\* Faulty: waits for the thread before it tells it.
SetStopEventLate(c) ==
    /\ pc[c] = "sp_set"
    /\ dpc[thread] = "dead"
    /\ stopEvent' = TRUE
    /\ Goto(c, "sp_close")
    /\ UNCHANGED <<thread, dpc, bufferVars, listVars, starts, pos, callerVars, outcome>>

SetStopEvent(c) ==
    /\ pc[c] = "sp_set"
    /\ stopEvent' = TRUE
    /\ Goto(c, "sp_join")
    /\ UNCHANGED <<thread, dpc, bufferVars, listVars, starts, pos, callerVars, outcome>>

\* Faulty: the thread is told to stop and not waited for.
JoinNobody(c) ==
    /\ pc[c] = "sp_join"
    /\ Goto(c, "sp_close")
    /\ UNCHANGED <<daemonVars, bufferVars, listVars, starts, pos, callerVars, outcome>>

Join(c) ==
    /\ pc[c] = "sp_join"
    /\ dpc[thread] = "dead"
    /\ Goto(c, "sp_close")
    /\ UNCHANGED <<daemonVars, bufferVars, listVars, starts, pos, callerVars, outcome>>

\* Faulty: blocked readers are left in the buffer that goes.
CloseNothing(c) ==
    /\ pc[c] = "sp_close"
    /\ Goto(c, "sp_remove")
    /\ UNCHANGED <<daemonVars, bufferVars, listVars, starts, pos, callerVars, outcome>>

\* assert self._channel_buffer; self._channel_buffer.close()
CloseBuffer(c) ==
    /\ pc[c] = "sp_close"
    /\ IF buffer = 0
       THEN Leave(c, "assertion_error") /\ UNCHANGED closedBufs
       ELSE closedBufs' = closedBufs \cup {buffer} /\ Goto(c, "sp_remove") /\ UNCHANGED outcome
    /\ UNCHANGED <<daemonVars, buffer, fed, listVars, starts, pos, callerVars>>

RemoveBuffer(c) ==
    /\ pc[c] = "sp_remove"
    /\ publishers' = IF Registered(Buf(buffer)) THEN Without(publishers, Buf(buffer)) ELSE publishers
    /\ Goto(c, "sp_drop")
    /\ UNCHANGED <<daemonVars, bufferVars, shut, starts, pos, callerVars, outcome>>

\* Faulty: the closed buffer stays the instrument's buffer.
DropNothing(c) ==
    /\ pc[c] = "sp_drop"
    /\ AfterStop(c)
    /\ UNCHANGED <<daemonVars, bufferVars, listVars, starts, callerVars>>

DropBuffer(c) ==
    /\ pc[c] = "sp_drop"
    /\ buffer' = 0
    /\ AfterStop(c)
    /\ UNCHANGED <<daemonVars, closedBufs, fed, listVars, starts, callerVars>>

\* Faulty: each publisher leaves the list the loop runs over.
ClosePublisherPopping(c) ==
    /\ pc[c] = "cl_loop"
    /\ IF AtEnd(c) THEN Leave(c, "ok") /\ UNCHANGED <<pos, shut, publishers>>
       ELSE /\ publishers' = Without(publishers, Current(c))
            /\ shut' = IF Current(c).kind = "user" THEN shut \cup {Current(c).id} ELSE shut
            /\ pos' = [pos EXCEPT ![c] = @ + 1]
            /\ UNCHANGED <<pc, outcome>>
    /\ UNCHANGED <<daemonVars, bufferVars, starts, callerVars>>

\* close(): one publisher after the other; a buffer that is still listed is
\* closed like the rest.  One that raises keeps the rest open.
ClosePublisher(c) ==
    /\ pc[c] = "cl_loop"
    /\ \/ AtEnd(c) /\ Leave(c, "ok") /\ UNCHANGED <<pos, closedBufs, shut>>
       \/ /\ ~AtEnd(c)
          /\ pos' = [pos EXCEPT ![c] = @ + 1]
          /\ IF Current(c).kind = "buffer"
             THEN closedBufs' = closedBufs \cup {Current(c).id} /\ UNCHANGED shut
             ELSE shut' = shut \cup {Current(c).id} /\ UNCHANGED closedBufs
          /\ UNCHANGED <<pc, outcome>>
       \/ /\ ~AtEnd(c) /\ Current(c).kind = "user" /\ Current(c).id \in FailingClose
          /\ Leave(c, "raised")
          /\ UNCHANGED <<pos, closedBufs, shut>>
    /\ UNCHANGED <<daemonVars, buffer, fed, publishers, starts, callerVars>>

AddPublisher(c, u) ==
    /\ pc[c] = "idle" /\ ~Registered(User(u))
    /\ publishers' = Append(publishers, User(u))
    /\ UNCHANGED <<daemonVars, bufferVars, shut, starts, pc, pos, callerVars, outcome>>

-----------------------------------------------------------------------------
(* The daemon thread *)

DGoto(t, at) == dpc' = [dpc EXCEPT ![t] = at]
DaemonUnchanged == UNCHANGED <<thread, stopEvent, buffer, closedBufs,
                               listVars, starts, pc, callerVars, outcome>>

\* while not self._background_stop_event.is_set()
DaemonCheck(t) ==
    /\ dpc[t] = "check"
    /\ DGoto(t, IF stopEvent THEN "dead" ELSE "work")
    /\ pos' = [pos EXCEPT ![t] = 1]
    /\ UNCHANGED fed /\ DaemonUnchanged

\* _background_daemon: the registered methods publish; whatever they raise is
\* caught.  When all is published the loop waits out its interval.
DaemonWork(t) ==
    /\ dpc[t] = "work"
    /\ \/ Deliver(t) /\ UNCHANGED dpc
       \/ (AtEnd(t) \/ Raises(t)) /\ DGoto(t, "wait") /\ UNCHANGED <<pos, fed>>
    /\ DaemonUnchanged

\* _background_stop_event.wait(...) returns: interval over or event set.
DaemonWait(t) ==
    /\ dpc[t] = "wait"
    /\ DGoto(t, "timing")
    /\ pos' = [pos EXCEPT ![t] = 1]
    /\ UNCHANGED fed /\ DaemonUnchanged

\* _publish_daemon_timing is outside every try: what it raises ends the thread.
DaemonTiming(t) ==
    /\ dpc[t] = "timing"
    /\ \/ Deliver(t) /\ UNCHANGED dpc
       \/ AtEnd(t) /\ DGoto(t, "check") /\ UNCHANGED <<pos, fed>>
       \/ Raises(t) /\ DGoto(t, "dead") /\ UNCHANGED <<pos, fed>>
    /\ DaemonUnchanged

-----------------------------------------------------------------------------
(* Readers and speakers *)

ReaderUnchanged == UNCHANGED <<daemonVars, bufferVars, listVars, starts, pos, op, mine, reached, owed>>

CallGet(r) ==
    /\ pc[r] = "idle"
    /\ Goto(r, "g_check")
    /\ UNCHANGED <<got, outcome>> /\ ReaderUnchanged

GetCheck(r) ==
    /\ pc[r] = "g_check"
    /\ IF IsAlive(thread) THEN Goto(r, "g_assert") /\ UNCHANGED outcome ELSE Leave(r, "runtime_error")
    /\ UNCHANGED got /\ ReaderUnchanged

\* assert self._channel_buffer
GetAssert(r) ==
    /\ pc[r] = "g_assert"
    /\ IF buffer = 0 THEN Leave(r, "assertion_error") ELSE Goto(r, "g_enter") /\ UNCHANGED outcome
    /\ UNCHANGED got /\ ReaderUnchanged

\* self._channel_buffer.get(...): the attribute is read once more.
GetEnter(r) ==
    /\ pc[r] = "g_enter"
    /\ IF buffer = 0 THEN Leave(r, "attribute_error") ELSE Goto(r, "g_wait") /\ UNCHANGED outcome
    /\ got' = [got EXCEPT ![r] = buffer]
    /\ ReaderUnchanged

\* The buffer answers: samples, or an error once it is closed.
GetReturn(r) ==
    /\ pc[r] = "g_wait"
    /\ \/ got[r] \in closedBufs /\ Leave(r, "closed")
       \/ got[r] \in fed \ closedBufs /\ Leave(r, "ok")
    /\ got' = [got EXCEPT ![r] = 0]
    /\ ReaderUnchanged

GetTimeout(r) ==
    /\ pc[r] = "g_wait"
    /\ Leave(r, "timeout")
    /\ got' = [got EXCEPT ![r] = 0]
    /\ ReaderUnchanged

CallPublish(s) ==
    /\ pc[s] = "idle"
    /\ Goto(s, "publish")
    /\ pos' = [pos EXCEPT ![s] = 1]
    /\ reached' = [reached EXCEPT ![s] = {}]
    /\ owed' = [owed EXCEPT ![s] = AttachedUsers]
    /\ outcome' = [outcome EXCEPT ![s] = "none"]
    /\ UNCHANGED <<daemonVars, bufferVars, listVars, starts, op, mine, got>>

Publish(s) ==
    /\ pc[s] = "publish"
    /\ \/ /\ Deliver(s)
          /\ reached' = [reached EXCEPT ![s] = IF Current(s).kind = "user" THEN @ \cup {Current(s).id} ELSE @]
          /\ UNCHANGED <<pc, outcome>>
       \/ AtEnd(s) /\ Leave(s, "ok") /\ UNCHANGED <<pos, fed, reached>>
       \/ Raises(s) /\ Leave(s, "raised") /\ UNCHANGED <<pos, fed, reached>>
    /\ UNCHANGED <<daemonVars, buffer, closedBufs, listVars, starts, op, mine, got, owed>>

-----------------------------------------------------------------------------

ControllerStep(c) ==
    \/ StartCheck(c) \/ SetupBuffer(c) \/ BuildBuffer(c) \/ RegisterBuffer(c)
    \/ ClearStopEvent(c) \/ Spawn(c) \/ Launch(c)
    \/ StopCheck(c) \/ SetStopEvent(c) \/ Join(c)
    \/ CloseBuffer(c) \/ RemoveBuffer(c) \/ DropBuffer(c) \/ ClosePublisher(c)

DaemonStep(t) == DaemonCheck(t) \/ DaemonWork(t) \/ DaemonWait(t) \/ DaemonTiming(t)

ReaderStep(r) == GetCheck(r) \/ GetAssert(r) \/ GetEnter(r) \/ GetReturn(r)

Next ==
    \/ \E c \in Controllers :
         \/ CallStart(c)
         \/ \E why \in {"stop", "close"} : CallStop(c, why)
         \/ \E u \in Users : AddPublisher(c, u)
         \/ ControllerStep(c)
    \/ \E t \in Ids : DaemonStep(t)
    \/ \E r \in Readers : CallGet(r) \/ ReaderStep(r) \/ GetTimeout(r)
    \/ \E s \in Speakers : CallPublish(s) \/ Publish(s)

Spec == Init /\ [][Next]_vars

\* Threads that can run do; nobody is obliged to call, and no timeout to elapse.
Fairness ==
    /\ \A c \in Controllers : WF_vars(ControllerStep(c))
    /\ \A t \in Ids : WF_vars(DaemonStep(t))
    /\ \A r \in Readers : WF_vars(ReaderStep(r))

FairSpec == Spec /\ Fairness

-----------------------------------------------------------------------------
(* Properties *)

LiveThreads == {t \in Ids : dpc[t] \in Live}
RegisteredBufs == {b \in Ids0 : Registered(Buf(b))}
AllIdle == \A c \in Controllers : pc[c] = "idle"
Stopped(c) == pc[c] = "idle" /\ op[c] \in {"stop", "close"} /\ outcome[c] = "ok"

\* start() is a no-op while a daemon runs: never two daemons, over any number
\* of restarts, even though a new one clears the event the old one waits for.
OneDaemon == Cardinality(LiveThreads) <= 1

\* After stop() or close() nothing of the daemon is left: no thread, no buffer,
\* and no buffer in the list of publishers.
StopLeavesNothing ==
    (\A c \in Controllers : Stopped(c)) =>
        LiveThreads = {} /\ buffer = 0 /\ RegisteredBufs = {}

\* While the daemon runs, its buffer is the one get_channel() reads, it is open,
\* and it is in the list exactly once: readers see what the daemon publishes.
RunningMeansServed ==
    AllIdle /\ LiveThreads # {} =>
        /\ buffer # 0 /\ buffer \notin closedBufs
        /\ RegisteredBufs = {buffer}
        /\ Cardinality({i \in 1..Len(publishers) : publishers[i] = Buf(buffer)}) = 1

\* Every stop() and close() returns.
StopReturns == \A c \in Controllers : (pc[c] = "sp_check") ~> (pc[c] = "idle")

\* stop() ends every get_channel() that was blocked when it was called.
StopReleasesReaders ==
    \A r \in Readers, c \in Controllers :
        (pc[r] = "g_wait" /\ pc[c] = "sp_join") ~> (pc[r] # "g_wait")

\* A publish() that returns has reached every publisher that was attached when
\* it began.
FanOutReachesAll == \A s \in Speakers : outcome[s] = "ok" => owed[s] \subseteq reached[s]

\* A close() that returns has closed every attached publisher, however the
\* list was changed before.
CloseReachesAll ==
    \A c \in Controllers :
        pc[c] = "idle" /\ op[c] = "close" /\ outcome[c] = "ok" => owed[c] \subseteq shut
=============================================================================
