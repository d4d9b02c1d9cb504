----------------------------- MODULE NumpyRing -----------------------------
(***************************************************************************)
(* The storage of one channel of NumpyInMemoryPublisher                    *)
(* (instro/lib/publishers/channel_buffer.py, NumpyRingBuffer): an array    *)
(* written round and round, which must be to its readers what the deque of *)
(* module ChannelBuffer is.  All of it runs under the publisher's lock.    *)
(***************************************************************************)
EXTENDS Integers, Sequences

CONSTANTS
    MaxLen,     \* _maxlen
    Batches,    \* numbers of values in one extend()
    MaxTotal    \* bound: values given to the ring in a behaviour

\* What the parameters may be; the theorems assume it.
RingAssumption == MaxLen \in Nat \ {0} /\ Batches \subseteq Nat /\ MaxTotal \in Nat

VARIABLES
    ring,    \* _buffer, _index and _size
    given    \* history: every value given to the ring

vars == <<ring, given>>

Cells == 0..(MaxLen - 1)
Least(a, b) == IF a <= b THEN a ELSE b

\* np.zeros(maxlen), nothing of which is valid.
Empty == [cells |-> [i \in Cells |-> 0], index |-> 0, size |-> 0]

Init == ring = Empty /\ given = <<>>

\* The slice assignments of extend(): one that fits before the end of the
\* array, or two.
Straight(cells, index, xs) ==
    [i \in Cells |-> IF index <= i /\ i < index + Len(xs) THEN xs[i - index + 1] ELSE cells[i]]
Wrapped(cells, index, xs) ==
    [i \in Cells |-> IF index <= i THEN xs[i - index + 1]
                     ELSE IF i < index + Len(xs) - MaxLen THEN xs[MaxLen - index + i + 1]
                     ELSE cells[i]]

\* Faulty: a batch as long as the array, or longer, leaves the index alone.
ReplacedInPlace(r, xs) ==
    [r EXCEPT !.cells = [i \in Cells |-> xs[Len(xs) - MaxLen + i + 1]], !.size = MaxLen]

\* A batch as long as the array, or longer, replaces it.
Replaced(r, xs) ==
    [cells |-> [i \in Cells |-> xs[Len(xs) - MaxLen + i + 1]], index |-> 0, size |-> MaxLen]

Extended(r, xs) ==
    LET n == Len(xs)
    IN  IF n = 0 THEN r
        ELSE IF n >= MaxLen THEN Replaced(r, xs)
        ELSE [cells |-> IF r.index + n <= MaxLen THEN Straight(r.cells, r.index, xs)
                       ELSE Wrapped(r.cells, r.index, xs),
              index |-> (r.index + n) % MaxLen,
              size  |-> Least(r.size + n, MaxLen)]

\* get_latest(n): the cells up to the index, from the end of the array first
\* if there are not enough of them.
Latest(r, n0) ==
    LET n == Least(n0, r.size)
        start == (r.index - n) % MaxLen
        cell(k) == IF start < r.index \/ start + k < MaxLen THEN start + k ELSE start + k - MaxLen
    IN  [k \in 1..n |-> r.cells[cell(k - 1)]]

Extend(n) ==
    /\ Len(given) + n <= MaxTotal
    /\ LET xs == [i \in 1..n |-> Len(given) + i]
       IN  ring' = Extended(ring, xs) /\ given' = given \o xs

Next == \E n \in Batches : Extend(n)

Spec == Init /\ [][Next]_vars

-----------------------------------------------------------------------------
TypeOK ==
    /\ ring \in [cells : [Cells -> Nat], index : Cells, size : 0..MaxLen]
    /\ given \in Seq(Nat)

\* Whatever was asked for, and however the batches before fell on the array,
\* a reader gets the newest values, in order: as many as it asked for, or as
\* were given, or as the array holds.
RingIsDeque ==
    \A n \in 0..(MaxLen + 1) :
        LET m == Least(n, Least(Len(given), MaxLen))
        IN  Latest(ring, n) = SubSeq(given, Len(given) - m + 1, Len(given))
=============================================================================
