----------------------------- MODULE MCWrappers -----------------------------
(***************************************************************************)
(* The three wrappers of instro/lib/publishers/publisher.py for TLC: each  *)
(* behaviour is one of QueuedPublisher, BufferedPublisher (b...) or        *)
(* SharedPublisher (s...), while the other two stay in their initial       *)
(* states.  They share no state in the code either.                        *)
(***************************************************************************)
EXTENDS QueuedPublisher

CONSTANTS BufferSize, MaxGot, Threads, Buffering, Handles, First, NoOne, GcInCalls, MaxCalls

VARIABLES
    wrapper,    \* the wrapper this behaviour is about
    bBuffer, bClosed, bInnerClosed, bAt, bOp, bItem, bPos, bMade, bAccepted, bGot,
    sState, sGarbage, sFinalized, sHandleLock, sBlockLock, sCount, sCloses, sCalls, sMade

B == INSTANCE BufferedPublisher WITH Threads <- Buffering,
    buffer <- bBuffer, closed <- bClosed, innerClosed <- bInnerClosed, at <- bAt, op <- bOp,
    item <- bItem, pos <- bPos, made <- bMade, accepted <- bAccepted, got <- bGot

S == INSTANCE SharedPublisher WITH
    state <- sState, garbage <- sGarbage, finalized <- sFinalized, handleLock <- sHandleLock,
    blockLock <- sBlockLock, count <- sCount, closes <- sCloses, calls <- sCalls, made <- sMade

bVars == <<bBuffer, bClosed, bInnerClosed, bAt, bOp, bItem, bPos, bMade, bAccepted, bGot>>
sVars == <<sState, sGarbage, sFinalized, sHandleLock, sBlockLock, sCount, sCloses, sCalls, sMade>>

WrappersInit ==
    /\ wrapper \in {"queued", "buffered", "shared"}
    /\ Init /\ B!Init /\ S!Init

WrappersNext ==
    /\ UNCHANGED wrapper
    /\ \/ wrapper = "queued" /\ Next /\ UNCHANGED <<bVars, sVars>>
       \/ wrapper = "buffered" /\ B!Next /\ UNCHANGED <<vars, sVars>>
       \/ wrapper = "shared" /\ S!Next /\ UNCHANGED <<vars, bVars>>

\* The wrapper at hand has the fairness of its module.
WrappersSpec ==
    /\ WrappersInit /\ [][WrappersNext]_<<wrapper, vars, bVars, sVars>>
    /\ (wrapper = "queued") => Fairness
    /\ (wrapper = "shared") => S!Fairness

-----------------------------------------------------------------------------
(* The properties of the wrappers, stated in their modules *)

NoLoss == B!NoLoss
BufferedIsRelay == B!ImplementsRelay
ClosedByLast == S!ClosedByLast
CallsReturn == S!CallsReturn
=============================================================================
