---------------------------- MODULE MCInstrument ----------------------------
(***************************************************************************)
(* Instances of Instrument for TLC: a behaviour is either one of the       *)
(* instance the .cfg gives (publishers that never raise, and a reader) or, *)
(* with the variables f..., one with a speaker and a second publisher      *)
(* whose publish() and close() raise.  The other instance stays in its     *)
(* initial state.                                                          *)
(***************************************************************************)
EXTENDS Instrument, TLC
CONSTANTS u1, u2, s1

OneUser == <<u1>>

VARIABLES
    faults,     \* this behaviour is the one with faults
    fMine, fBuffer, fOutcome, fClosedBufs, fDpc, fThread, fOp, fPos, fPc, fFed,
    fPublishers, fGot, fStopEvent, fStarts, fShut, fReached, fOwed

F == INSTANCE Instrument WITH
    Readers <- {}, Speakers <- {s1}, Users <- {u1, u2}, InitialUsers <- OneUser,
    Failing <- {u2}, FailingClose <- {u2}, MaxStarts <- 2,
    mine <- fMine, buffer <- fBuffer, outcome <- fOutcome, closedBufs <- fClosedBufs,
    dpc <- fDpc, thread <- fThread, op <- fOp, pos <- fPos, pc <- fPc, fed <- fFed,
    publishers <- fPublishers, got <- fGot, stopEvent <- fStopEvent, starts <-
    fStarts, shut <- fShut, reached <- fReached, owed <- fOwed

fVars == <<fMine, fBuffer, fOutcome, fClosedBufs, fDpc, fThread, fOp, fPos, fPc, fFed,
           fPublishers, fGot, fStopEvent, fStarts, fShut, fReached, fOwed>>

BothInit == faults \in BOOLEAN /\ Init /\ F!Init

BothNext ==
    /\ UNCHANGED faults
    /\ \/ ~faults /\ Next /\ UNCHANGED fVars
       \/ faults /\ F!Next /\ UNCHANGED vars

\* Nothing the fairness names is enabled in an initial state, so it binds the
\* instance that runs.
BothSpec == BothInit /\ [][BothNext]_<<faults, vars, fVars>> /\ Fairness /\ F!Fairness

\* The instance of the .cfg alone.
OneSpec == BothInit /\ ~faults /\ [][BothNext]_<<faults, vars, fVars>>

-----------------------------------------------------------------------------
(* The properties of the instance with faults, stated in Instrument *)

CloseReachesAllF == F!CloseReachesAll
StopReturnsF == F!StopReturns
=============================================================================
