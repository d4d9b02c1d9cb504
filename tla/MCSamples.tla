----------------------------- MODULE MCSamples -----------------------------
(***************************************************************************)
(* The places where samples are handed from one thread, or from a device,  *)
(* to another, for TLC: each behaviour is one of ChannelBuffer, NumpyRing  *)
(* (n...), LabJackStream (l...), MccScan (m...) and SdrStream (d...),      *)
(* while the others stay in their initial states.  They share no state in  *)
(* the code either.  The readers of the channel buffer are                 *)
(* interchangeable: the run checks invariants only and has one channel.    *)
(***************************************************************************)
EXTENDS ChannelBuffer, FiniteSets, TLC

CONSTANTS
    RingLength, RingBatches, MaxTotal,
    MaxStreams, MaxBlocks, MaxQueue,
    MaxInputs, PerChannel, Multiplier, Wrap, MaxCount,
    BlockLengths, Depth, MaxNow

VARIABLES
    component,    \* the component this behaviour is about
    nRing, nGiven,
    lOpened, lInputs, lTimed, lActive, lLock, lQueue, lStamper, lStreaming, lStream, lTaken,
    lRegistered, lCtl, lCb, lFetch, lBlock, lSpoiled,
    mDaqIn, mOpened, mInputs, mTimed, mEngine, mScanning, mCount, mPolled, mPrev, mOffset,
    mConsumed, mAt, mSnapshot, mWindow, mReached,
    dOpened, dFlowing, dStreams, dDaemon, dStale, dCtl, dNow, dNext, dDue, dLast, dBlock,
    dBefore, dChain

N == INSTANCE NumpyRing WITH MaxLen <- RingLength, Batches <- RingBatches,
    ring <- nRing, given <- nGiven

L == INSTANCE LabJackStream WITH
    opened <- lOpened, inputs <- lInputs, timed <- lTimed, active <- lActive, lock <- lLock,
    queue <- lQueue, stamper <- lStamper, streaming <- lStreaming, stream <- lStream,
    taken <- lTaken, registered <- lRegistered, ctl <- lCtl, cb <- lCb, fetch <- lFetch,
    block <- lBlock, spoiled <- lSpoiled

\* A plain input between two thermocouples.
Inputs == {<<0, "tc">>, <<1, "volt">>, <<2, "tc">>}

M == INSTANCE MccScan WITH
    daqIn <- mDaqIn, opened <- mOpened, inputs <- mInputs, timed <- mTimed, engine <- mEngine,
    scanning <- mScanning, count <- mCount, polled <- mPolled, prev <- mPrev, offset <- mOffset,
    consumed <- mConsumed, at <- mAt, snapshot <- mSnapshot, window <- mWindow, reached <- mReached

\* In each scan, every slot that is no cold junction has its alias's turn.
SlotsMatchAliases(lists) ==
    \E turn \in [0..Len(lists.slots) -> 0..Len(lists.aliases)] :
        /\ turn[0] = 0 /\ turn[Len(lists.slots)] = Len(lists.aliases)
        /\ \A k \in 1..Len(lists.slots) :
               IF M!IsCjc(lists.slots[k]) THEN turn[k] = turn[k - 1]
               ELSE turn[k] = turn[k - 1] + 1 /\ lists.aliases[turn[k]] = lists.slots[k]

\* A ring holds a window, and every list of inputs gives a scan list with slots
\* and aliases that match.
ASSUME ScanAssumption ==
    /\ PerChannel \in Nat \ {0} /\ Multiplier \in Nat \ {0} /\ Wrap \in Nat \ {0} /\ MaxInputs \in Nat
    /\ \A n \in 1..MaxInputs : \A chans \in [1..n -> Inputs] :
           \A lists \in {M!DaqInLists(chans), M!AInLists(chans)} :
               /\ {Len(lists.slots), Len(lists.aliases)} \subseteq Nat \ {0}
               /\ SlotsMatchAliases(lists)

D == INSTANCE SdrStream WITH Lengths <- BlockLengths,
    opened <- dOpened, flowing <- dFlowing, streams <- dStreams, daemon <- dDaemon,
    stale <- dStale, ctl <- dCtl, now <- dNow, next <- dNext, due <- dDue, last <- dLast,
    block <- dBlock, before <- dBefore, chain <- dChain

nVars == <<nRing, nGiven>>
lVars == <<lOpened, lInputs, lTimed, lActive, lLock, lQueue, lStamper, lStreaming, lStream,
           lTaken, lRegistered, lCtl, lCb, lFetch, lBlock, lSpoiled>>
mVars == <<mDaqIn, mOpened, mInputs, mTimed, mEngine, mScanning, mCount, mPolled, mPrev,
           mOffset, mConsumed, mAt, mSnapshot, mWindow, mReached>>
dVars == <<dOpened, dFlowing, dStreams, dDaemon, dStale, dCtl, dNow, dNext, dDue, dLast,
           dBlock, dBefore, dChain>>

SamplesInit ==
    /\ component \in {"buffer", "ring", "labjack", "mcc", "sdr"}
    /\ Init /\ N!Init /\ L!Init /\ M!Init /\ D!Init
    /\ component # "labjack" => ~lStreaming
    /\ component # "mcc" => mDaqIn

SamplesNext ==
    /\ UNCHANGED component
    /\ \/ component = "buffer" /\ Next /\ UNCHANGED <<nVars, lVars, mVars, dVars>>
       \/ component = "ring" /\ N!Next /\ UNCHANGED <<vars, lVars, mVars, dVars>>
       \/ component = "labjack" /\ L!Next /\ UNCHANGED <<vars, nVars, mVars, dVars>>
       \/ component = "mcc" /\ M!Next /\ UNCHANGED <<vars, nVars, lVars, dVars>>
       \/ component = "sdr" /\ D!Next /\ UNCHANGED <<vars, nVars, lVars, mVars>>

SamplesSpec == SamplesInit /\ [][SamplesNext]_<<component, vars, nVars, lVars, mVars, dVars>>

ReaderSymmetry == Permutations(Readers)

-----------------------------------------------------------------------------
(* The properties of the others, stated in their modules *)

RingIsDeque == N!RingIsDeque
StreamIsCurrent == L!StreamIsCurrent
WindowIsWhole == M!WindowIsWhole
OneTimeline == D!OneTimeline
=============================================================================
