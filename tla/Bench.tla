------------------------------- MODULE Bench -------------------------------
(***************************************************************************)
(* Callers at a bench instrument: a facade (InstroPSU, InstroDMM,          *)
(* InstroELoad, InstroScope, InstroAWG ...), its driver, the transport and *)
(* the instrument itself, with its selected channel or function and its    *)
(* queue of errors.                                                        *)
(*                                                                         *)
(* Every caller runs a program (module Programs), one step at a time:      *)
(* through a facade, whose resource lock the program takes, or on the      *)
(* driver itself, as a second owner of the transport may.  A step may      *)
(* fail; the caller then leaves the sections it is in, from the innermost  *)
(* outward, and the call ends with an exception.                           *)
(*                                                                         *)
(* An instrument is a record: for each facade the programs of its open(),  *)
(* of its close() and of its other methods, and the programs that may be   *)
(* run on the driver directly.                                             *)
(***************************************************************************)
EXTENDS Programs, Naturals, FiniteSets

CONSTANTS
    Threads,      \* the callers
    Instruments,  \* the instruments the run looks at, one per behaviour
    Facades,      \* the facades an instrument may have
    Channels,     \* the channels (or functions) the instrument has
    Named,        \* those a caller may name
    MaxErrors,    \* the depth of the instrument's error queue
    None

ASSUME BenchAssumption ==
    /\ None \notin Threads \cup Channels \cup Named \cup Facades
    /\ MaxErrors \in Nat \ {0}

VARIABLES
    instrument,  \* which of Instruments this behaviour is about
    connected,   \* the transport has a session
    todo,        \* what is left of each caller's program
    failed,      \* callers whose program has raised and is being left
    facade,      \* the facade each caller goes through, if any
    choice,      \* the channel or function each call is about
    resource,    \* the holder of each facade's resource lock
    bus,         \* the holder of the transport's lock
    selected,    \* what the instrument works on
    active,      \* what the driver believes it works on (_active_channel)
    label,       \* what the facade believes (_measurement_config.function)
    errors,      \* the number of entries in the instrument's error queue
    doubt,       \* callers one of whose commands was refused
    acted        \* what the last such exchange of each caller worked on

locks == <<resource, bus>>
beliefs == <<active, label>>
device == <<selected, errors>>
record == <<facade, choice, doubt, acted>>
vars == <<instrument, connected, todo, failed, locks, beliefs, device, record>>

Idle(t) == todo[t] = <<>>
At(t, step) == todo[t] # <<>> /\ Head(todo[t]) = step

\* The steps that talk to the instrument.
Exchanges == {"write", "query", "hush", "undo", "finally", "select", "reselect", "act", "measure",
              "sample", "check", "drain", "clear"}

\* The commands and questions that the instrument may refuse at any time.
Refusable == {"write", "query", "finally", "hush", "undo", "act", "measure", "sample"}

\* The steps after which a caller's program is about a channel or function.
Choosing == {"select", "reselect", "measure", "ensure", "adopt"}

Occurs(step, program) == \E i \in DOMAIN program : program[i] = step

\* The program comes to one of the goals, and to none of the others before it.
Reaches(program, goals, others) ==
    \E i \in DOMAIN program :
        program[i] \in goals /\ \A j \in 1..(i - 1) : program[j] \notin others

\* The program reads the error queue, and does not empty it unseen before.
Looks(program) == Reaches(program, {"check", "drain"}, {"clear"})

-----------------------------------------------------------------------------
(* What is left of a program.                                              *)

Rest(program, i) == SubSeq(program, i, Len(program))
From(program, places) == Rest(program, CHOOSE i \in places : \A j \in places : i <= j)
After(program, step) == Tail(From(program, {i \in DOMAIN program : program[i] = step}))

\* The step that opens what a step of leaving closes.
Opener == [drop |-> "take", unlock |-> "lock", undo |-> "try", settle |-> "try",
           finally |-> "enter", hangUp |-> "connect"]

\* Step i closes something that was opened before this program.
Leaves(program, i) ==
    \/ program[i] = "return"
    \/ /\ program[i] \in DOMAIN Opener
       /\ \A j \in 1..(i - 1) :
              program[j] = Opener[program[i]] => \E k \in j..(i - 1) : program[k] = program[i]

\* What is left to be done once the program has raised.
\* Faulty: the caller leaves without releasing what it holds.
UnwoundBare(program) == <<"return">>

Unwound(program) == From(program, {i \in DOMAIN program : Leaves(program, i)})

-----------------------------------------------------------------------------
(* What the facades and drivers keep to.  Each of these is about one       *)
(* program at a time: that it is enough for any number of callers is what  *)
(* module BenchProofs shows.                                               *)

ProgramsOf(i, f) == IF f = None THEN i.direct ELSE i.open[f] \cup i.close[f] \cup i.calls[f]

\* What may be left of them.
Remainders(i, f) == UNION {{Rest(p, k) : k \in DOMAIN p} : p \in ProgramsOf(i, f)}

\* The program has yet to make the step end that closes what it is in.
Inside(program, begin, end) == Reaches(program, {end}, {begin})

InSection(program) == Inside(program, "lock", "unlock")
InCall(program) == Inside(program, "take", "drop")

\* Programs end with "return" and nowhere else; only an open() makes ready.
ASSUME ShapeAssumption ==
    \A i \in Instruments : \A f \in Facades \cup {None} :
        /\ ProgramsOf(i, f) \subseteq Seq(STRING) \ {<<>>}
        /\ \A p \in ProgramsOf(i, f) :
               Occurs("ready", p) => f # None /\ p \notin i.close[f] \cup i.calls[f]
        /\ \A r \in Remainders(i, f) :
               /\ Head(r) = "return" <=> Len(r) = 1
               /\ Head(r) = "ensure" => Occurs("adopt", r)

\* A lock is let go by whoever took it, in the program and by whatever
\* exception (with self._resource_lock, with self._visa.lock()).
Bracketed(begin, end) ==
    \A i \in Instruments : \A f \in Facades \cup {None} :
        /\ \A p \in ProgramsOf(i, f) : ~Inside(p, begin, end)
        /\ \A r \in Remainders(i, f) :
               /\ Head(r) = begin =>
                      /\ Inside(Tail(r), begin, end)
                      /\ \A k \in DOMAIN r : Leaves(r, k) => \E j \in 1..(k - 1) : r[j] = end
               /\ Head(r) = end => ~Inside(Tail(r), begin, end)
               /\ Head(r) = "ensure" =>
                      (Inside(After(r, "adopt"), begin, end) <=> Inside(Tail(r), begin, end))

\* The facade's lock comes before the transport's, and only through a facade.
ASSUME LockAssumption ==
    /\ Bracketed("lock", "unlock")
    /\ Bracketed("take", "drop")
    /\ \A i \in Instruments : \A f \in Facades \cup {None} : \A r \in Remainders(i, f) :
           Head(r) \in {"take", "drop"} => f # None /\ ~InSection(r)

\* Steps of these kinds are made in calls of facade f only, or while it is
\* being opened.
Kept(i, f, steps) ==
    \A g \in Facades \cup {None} : \A r \in Remainders(i, g) :
        Head(r) \in steps => Occurs("ready", r) \/ (g = f /\ InCall(r))

\* The error queue is read before the step end.
Reads(program, end) == Reaches(program, {"check", "drain"}, {"clear", "ensure", end})

\* Where a method looks at the error queue, it does so before it lets go of
\* what keeps others from emptying the queue.
ASSUME CheckAssumption ==
    \A i \in Instruments : \A f \in Facades \cup {None} : \A r \in Remainders(i, f) :
        Head(r) \in Refusable \cup {"select", "reselect"} /\ Looks(r) =>
            \/ InSection(r) /\ Reads(Tail(r), "unlock")
            \/ Occurs("ready", r) /\ Reads(Tail(r), "ready")
            \/ InCall(r) /\ Reads(Tail(r), "drop") /\ Kept(i, f, {"check", "drain", "clear"})

\* The next step that works on what is selected does not select it itself.
Relies(program) == Reaches(program, {"act"}, {"select", "reselect"})

\* From the selection to the work nobody else can select, and the call is
\* about one channel; a driver that remembers what it selected is the only
\* one that selects.
ASSUME SelectAssumption ==
    \A i \in Instruments : \A f \in Facades \cup {None} :
        /\ \A p \in ProgramsOf(i, f) : ~Relies(p)
        /\ \A r \in Remainders(i, f) :
               /\ Relies(r) => \/ InSection(r)
                               \/ Occurs("ready", r)
                               \/ InCall(r) /\ Kept(i, f, {"select", "reselect", "measure"})
               /\ Head(r) \in {"act", "measure"} => ~Occurs("follow", r)
               /\ Head(r) = "follow" => ~Relies(r)
               /\ Head(r) = "ensure" => ~Relies(After(r, "adopt"))
               /\ Head(r) = "reselect" =>
                      \A g \in Facades \cup {None} : \A q \in Remainders(i, g) :
                          Head(q) \notin {"select", "measure"}

InTheMiddle(program) == Occurs("whole", program) /\ ~Occurs("half", program)

\* A sequence that is to be seen whole is one call, and where there is one the
\* other methods of the facade talk to the instrument in calls as well.
ASSUME WholeAssumption ==
    \A i \in Instruments : \A f \in Facades \cup {None} : \A r \in Remainders(i, f) :
        InTheMiddle(r) =>
            /\ f # None /\ InCall(r)
            /\ \A q \in Remainders(i, f) :
                   Head(q) \in Exchanges => InCall(q) \/ Occurs("ready", q) \/ Occurs("hangUp", q)

-----------------------------------------------------------------------------
(* The steps of a program.                                                 *)

Raise(t) ==
    /\ failed' = [failed EXCEPT ![t] = TRUE]
    /\ todo' = [todo EXCEPT ![t] = Unwound(Tail(@))]

Advance(t) ==
    /\ todo' = [todo EXCEPT ![t] = IF failed[t] THEN Unwound(Tail(@)) ELSE Tail(@)]
    /\ UNCHANGED failed

-----------------------------------------------------------------------------
(* Calls.                                                                  *)

Begin(t, through, program) ==
    /\ Idle(t)
    /\ todo' = [todo EXCEPT ![t] = program]
    /\ facade' = [facade EXCEPT ![t] = through]
    /\ \E c \in (IF \E step \in Choosing : Occurs(step, program) THEN Named ELSE {None}) :
           choice' = [choice EXCEPT ![t] = c]
    /\ UNCHANGED <<instrument, connected, failed, locks, beliefs, device, doubt, acted>>

\* open() of a facade, which comes before every other use.
Open(t) ==
    /\ \A u \in Threads : Idle(u)
    /\ \E f \in Facades : \E program \in instrument.open[f] : Begin(t, f, program)

InUse == connected /\ \A u \in Threads : ~Occurs("ready", todo[u])

Close(t) ==
    /\ InUse
    /\ \E f \in Facades : \E program \in instrument.close[f] : Begin(t, f, program)

CallFacade(t) ==
    /\ InUse
    /\ \E f \in Facades : \E program \in instrument.calls[f] : Begin(t, f, program)

CallDriver(t) == InUse /\ \E program \in instrument.direct : Begin(t, None, program)

Return(t) ==
    /\ At(t, "return")
    /\ todo' = [todo EXCEPT ![t] = <<>>]
    /\ failed' = [failed EXCEPT ![t] = FALSE]
    /\ facade' = [facade EXCEPT ![t] = None]
    /\ choice' = [choice EXCEPT ![t] = None]
    /\ doubt' = [doubt EXCEPT ![t] = FALSE]
    /\ acted' = [acted EXCEPT ![t] = None]
    /\ UNCHANGED <<instrument, connected, locks, beliefs, device>>

-----------------------------------------------------------------------------
(* Steps that stay inside the program.                                     *)

\* The arguments of the call are examined, or the answer to it.
Examine(t) ==
    /\ At(t, "args")
    /\ Advance(t) \/ Raise(t)
    /\ UNCHANGED <<instrument, connected, locks, beliefs, device, record>>

Unsupported(t) ==
    /\ At(t, "unsupported")
    /\ Raise(t)
    /\ UNCHANGED <<instrument, connected, locks, beliefs, device, record>>

\* Steps that only mark a place of the program, and the clearing up that is
\* not called for.
Pass(t) ==
    /\ \/ \E mark \in {"half", "whole", "try", "enter", "ready"} : At(t, mark)
       \/ At(t, "undo") /\ ~failed[t]
    /\ Advance(t)
    /\ UNCHANGED <<instrument, connected, locks, beliefs, device, record>>

-----------------------------------------------------------------------------
(* Locks.                                                                  *)

\* Faulty: the lock keeps nobody out.
TakeFreely(t) ==
    /\ At(t, "take")
    /\ resource' = [resource EXCEPT ![facade[t]] = t]
    /\ Advance(t)
    /\ UNCHANGED <<instrument, connected, bus, beliefs, device, record>>

Take(t) ==
    /\ At(t, "take")
    /\ resource[facade[t]] = None
    /\ resource' = [resource EXCEPT ![facade[t]] = t]
    /\ Advance(t)
    /\ UNCHANGED <<instrument, connected, bus, beliefs, device, record>>

Drop(t) ==
    /\ At(t, "drop")
    /\ resource' = [resource EXCEPT ![facade[t]] = None]
    /\ Advance(t)
    /\ UNCHANGED <<instrument, connected, bus, beliefs, device, record>>

Lock(t) ==
    /\ At(t, "lock")
    /\ bus = None
    /\ bus' = t
    /\ Advance(t)
    /\ UNCHANGED <<instrument, connected, resource, beliefs, device, record>>

Unlock(t) ==
    /\ At(t, "unlock")
    /\ bus' = None
    /\ Advance(t)
    /\ UNCHANGED <<instrument, connected, resource, beliefs, device, record>>

-----------------------------------------------------------------------------
(* The session.                                                            *)

Connect(t) ==
    /\ At(t, "connect")
    /\ \/ connected' = TRUE /\ Advance(t)
       \/ UNCHANGED connected /\ Raise(t)
    /\ UNCHANGED <<instrument, locks, beliefs, device, record>>

\* The transport is closed under its lock, between the sections of others.
HangUp(t) ==
    /\ At(t, "hangUp")
    /\ bus \in {None, t}
    /\ connected' = FALSE
    /\ Advance(t)
    /\ UNCHANGED <<instrument, locks, beliefs, device, record>>

\* The end of the part of open() whose failure forgets and closes.
Settle(t) ==
    /\ At(t, "settle")
    /\ connected' = (connected /\ ~failed[t])
    /\ label' = IF failed[t] THEN None ELSE label
    /\ Advance(t)
    /\ UNCHANGED <<instrument, locks, active, device, record>>

-----------------------------------------------------------------------------
(* Exchanges with the instrument: each takes the transport's lock.         *)

Talks(t) == \E step \in Exchanges : At(t, step)
Online(t) == bus \in {None, t} /\ connected

\* What clears up after a failure is sent only after one.
Due(t) == At(t, "undo") => failed[t]
Swallowed(t) == At(t, "hush") \/ At(t, "undo")

\* The session is closed, the line is silent, the answer is not understood.
\* Faulty: the driver remembers the channel before it has selected it.
NoAnswerRemembered(t) ==
    /\ Talks(t) /\ Due(t)
    /\ bus \in {None, t}
    /\ IF Swallowed(t) THEN Advance(t) ELSE Raise(t)
    /\ active' = IF At(t, "reselect") THEN choice[t] ELSE active
    /\ UNCHANGED <<instrument, connected, locks, label, device, record>>

NoAnswer(t) ==
    /\ Talks(t) /\ Due(t)
    /\ bus \in {None, t}
    /\ IF Swallowed(t) THEN Advance(t) ELSE Raise(t)
    /\ UNCHANGED <<instrument, connected, locks, beliefs, device, record>>

\* The instrument refuses and says so in its error queue; a question is then
\* answered with something, or not at all.
Refuse(t) ==
    /\ \E step \in Refusable : At(t, step)
    /\ Online(t) /\ Due(t)
    /\ errors' = IF errors < MaxErrors THEN errors + 1 ELSE errors
    /\ doubt' = [doubt EXCEPT ![t] = @ \/ Looks(todo[t])]
    /\ Advance(t) \/ (Raise(t) /\ ~Swallowed(t))
    /\ UNCHANGED <<instrument, connected, locks, beliefs, selected, facade, choice, acted>>

Exchange(t) ==
    /\ \E step \in {"write", "query", "finally", "hush", "undo"} : At(t, step)
    /\ Online(t) /\ Due(t)
    /\ Advance(t)
    /\ UNCHANGED <<instrument, connected, locks, beliefs, device, record>>

\* A channel the instrument does not have is refused; the driver takes it
\* for selected all the same.
Select(t) ==
    /\ At(t, "select") \/ (At(t, "reselect") /\ active # choice[t])
    /\ Online(t)
    /\ IF choice[t] \in Channels
          THEN selected' = choice[t] /\ UNCHANGED <<errors, doubt>>
          ELSE /\ errors' = IF errors < MaxErrors THEN errors + 1 ELSE errors
               /\ doubt' = [doubt EXCEPT ![t] = @ \/ Looks(todo[t])]
               /\ UNCHANGED selected
    /\ active' = IF At(t, "reselect") THEN choice[t] ELSE active
    /\ Advance(t)
    /\ UNCHANGED <<instrument, connected, locks, label, facade, choice, acted>>

InForce(t) ==
    /\ At(t, "reselect")
    /\ active = choice[t]
    /\ Advance(t)
    /\ UNCHANGED <<instrument, connected, locks, beliefs, device, record>>

\* What is selected is worked on, or read.
Act(t) ==
    /\ At(t, "act") \/ At(t, "sample")
    /\ Online(t)
    /\ acted' = [acted EXCEPT ![t] = <<Head(todo[t]), selected>>]
    /\ Advance(t)
    /\ UNCHANGED <<instrument, connected, locks, beliefs, device, facade, choice, doubt>>

\* MEAS:...? selects the function and reads it in one command.
Measure(t) ==
    /\ At(t, "measure")
    /\ Online(t)
    /\ selected' = choice[t]
    /\ acted' = [acted EXCEPT ![t] = <<"act", choice[t]>>]
    /\ Advance(t)
    /\ UNCHANGED <<instrument, connected, locks, beliefs, errors, facade, choice, doubt>>

\* SYST:ERR? takes the oldest entry out of the queue.
\* Faulty: what it says is logged, not raised.
CheckLogs(t) ==
    /\ At(t, "check")
    /\ Online(t)
    /\ errors' = IF errors = 0 THEN 0 ELSE errors - 1
    /\ Advance(t)
    /\ UNCHANGED <<instrument, connected, locks, beliefs, selected, record>>

Check(t) ==
    /\ At(t, "check")
    /\ Online(t)
    /\ IF errors = 0
          THEN Advance(t) /\ UNCHANGED errors
          ELSE Raise(t) /\ errors' = errors - 1
    /\ UNCHANGED <<instrument, connected, locks, beliefs, selected, record>>

Drain(t) ==
    /\ At(t, "drain")
    /\ Online(t)
    /\ errors' = 0
    /\ IF errors = 0 THEN Advance(t) ELSE Raise(t)
    /\ UNCHANGED <<instrument, connected, locks, beliefs, selected, record>>

Clear(t) ==
    /\ At(t, "clear")
    /\ Online(t)
    /\ errors' = 0
    /\ Advance(t)
    /\ UNCHANGED <<instrument, connected, locks, beliefs, selected, record>>

-----------------------------------------------------------------------------
(* The facade's memory of the function in force.                           *)

\* The function is set first, unless the facade believes it in force.
Ensure(t) ==
    /\ At(t, "ensure")
    /\ todo' = [todo EXCEPT ![t] = IF label = choice[t] THEN After(@, "adopt") ELSE Tail(@)]
    /\ UNCHANGED <<instrument, connected, failed, locks, beliefs, device, record>>

Adopt(t) ==
    /\ At(t, "adopt")
    /\ label' = choice[t]
    /\ Advance(t)
    /\ UNCHANGED <<instrument, connected, locks, active, device, record>>

\* A call that is about the function in force: it needs one.
Follow(t) ==
    /\ At(t, "follow")
    /\ choice' = [choice EXCEPT ![t] = label]
    /\ IF label = None THEN Raise(t) ELSE Advance(t)
    /\ UNCHANGED <<instrument, connected, locks, beliefs, device, facade, doubt, acted>>

\* The reading is named after the function in force by now.
Name(t) ==
    /\ At(t, "name")
    /\ Advance(t)
    /\ UNCHANGED <<instrument, connected, locks, beliefs, device, record>>

-----------------------------------------------------------------------------
Init ==
    /\ instrument \in Instruments
    /\ connected = FALSE
    /\ todo = [t \in Threads |-> <<>>]
    /\ failed = [t \in Threads |-> FALSE]
    /\ facade = [t \in Threads |-> None]
    /\ choice = [t \in Threads |-> None]
    /\ resource = [f \in Facades |-> None]
    /\ bus = None
    /\ selected \in Channels
    /\ active = None
    /\ label = None
    /\ errors = 0
    /\ doubt = [t \in Threads |-> FALSE]
    /\ acted = [t \in Threads |-> None]

Step(t) ==
    \/ Examine(t) \/ Unsupported(t) \/ Pass(t)
    \/ Take(t) \/ Drop(t) \/ Lock(t) \/ Unlock(t)
    \/ Connect(t) \/ HangUp(t) \/ Settle(t)
    \/ NoAnswer(t) \/ Refuse(t) \/ Exchange(t)
    \/ Select(t) \/ InForce(t) \/ Act(t) \/ Measure(t)
    \/ Check(t) \/ Drain(t) \/ Clear(t)
    \/ Ensure(t) \/ Adopt(t) \/ Follow(t) \/ Name(t)
    \/ Return(t)

Next ==
    \E t \in Threads :
        Open(t) \/ Close(t) \/ CallFacade(t) \/ CallDriver(t) \/ Step(t)

Spec == Init /\ [][Next]_vars

-----------------------------------------------------------------------------
TypeOK ==
    /\ instrument \in Instruments
    /\ connected \in BOOLEAN
    /\ todo \in [Threads -> Seq(STRING)]
    /\ failed \in [Threads -> BOOLEAN]
    /\ facade \in [Threads -> Facades \cup {None}]
    /\ choice \in [Threads -> Named \cup {None}]
    /\ resource \in [Facades -> Threads \cup {None}]
    /\ bus \in Threads \cup {None}
    /\ selected \in Channels
    /\ active \in Named \cup {None}
    /\ label \in Named \cup {None}
    /\ errors \in 0..MaxErrors
    /\ doubt \in [Threads -> BOOLEAN]
    /\ acted \in [Threads -> {None} \cup ({"act", "sample"} \X Channels)]

Succeeds(t) == At(t, "return") /\ ~failed[t]

\* A call that returns has had none of its commands refused, wherever the
\* method looks at the error queue after sending them: with a write and the
\* check that belongs to it in one section of the transport, no other caller
\* takes the entry that the refusal left (_write_checked of every driver).
SuccessMeansDone == \A t \in Threads : Succeeds(t) => ~doubt[t]

\* A call that selects a channel, a source or a function and then works on
\* what is selected has worked on its own (_channel_select_locked of the
\* BK 914x, _measure of the 34461A, fetch_waveform of the oscilloscopes).
RightSelection ==
    \A t \in Threads :
        Succeeds(t) /\ acted[t] # None /\ acted[t][1] = "act" => acted[t][2] = choice[t]

\* While one caller is in the middle of a sequence that is to be seen whole
\* (InstroPSU.apply), no other caller of that facade talks to the instrument,
\* unless to close it, for which no lock is taken.
NobodySeesHalf ==
    \A t, u \in Threads :
        t # u /\ InTheMiddle(todo[t]) /\ facade[u] = facade[t] /\ Talks(u) => Occurs("hangUp", todo[u])

\* Some caller can always go on: with the facade's lock taken before the
\* transport's, and both let go by an exception, nobody waits for ever.
Waits(t) ==
    \/ At(t, "take") /\ resource[facade[t]] # None
    \/ (At(t, "lock") \/ At(t, "hangUp") \/ Talks(t)) /\ bus \notin {None, t}

NobodyStuck ==
    (\E t \in Threads : ~Idle(t)) => \E t \in Threads : ~Idle(t) /\ ~Waits(t)

\* A reading reaches its caller under the function it was measured in: the
\* promise of _set_function_and_read, which holds the lock throughout.
QuantityIsRight ==
    \A t \in Threads :
        /\ At(t, "name") /\ ~failed[t] /\ acted[t] # None => acted[t][2] = label
        /\ Succeeds(t) /\ acted[t] # None => acted[t][2] = choice[t]
=============================================================================
