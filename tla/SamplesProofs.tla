---------------------------- MODULE SamplesProofs ----------------------------
(***************************************************************************)
(* Where samples are handed on, for every size and number of readers the   *)
(* theorems name.  ChannelBuffer: the deque of a channel is its newest     *)
(* samples, a get() that waits for new samples returns only those, and no  *)
(* reader sleeps through what it waits for.  NumpyRing is a deque.         *)
(* LabJackStream: a fetch hands out the stream that runs, in order.        *)
(* MccScan: a window is whole, and its values have their own aliases.      *)
(* SdrStream: all blocks are on one timeline.                              *)
(*                                                                         *)
(* The names are those of MCSamples, which has the components side by      *)
(* side: the theorems are about the specification of each, Spec, N!Spec,   *)
(* L!Spec, M!Spec and D!Spec, for all values of its constants.             *)
(***************************************************************************)
EXTENDS MCSamples, SequenceTheorems, WellFoundedInduction, TLAPS

Places == {"idle", "probe", "find", "count", "waitCount", "waitPoints"}
Outcomes == [kind : Kinds, samples : Seq(1..MaxClock)]

-----------------------------------------------------------------------------
(* ChannelBuffer: the last samples of a sequence *)

LEMMA LastNProperties ==
  ASSUME NEW S, NEW s \in Seq(S), NEW n \in 0..Len(s)
  PROVE  /\ LastN(s, n) \in Seq(S)
         /\ Len(LastN(s, n)) = n
         /\ \A i \in 1..n : LastN(s, n)[i] = s[Len(s) - n + i]
<1>1. Len(s) \in Nat /\ n \in Nat /\ n <= Len(s)
  BY LenProperties
<1>2. PICK m \in Int : m = Len(s) - n + 1
  BY <1>1
<1>3. \A i \in m..Len(s) : s[i] \in S
  BY <1>1, <1>2, ElementOfSeq
<1>4. /\ SubSeq(s, m, Len(s)) \in Seq(S)
      /\ Len(SubSeq(s, m, Len(s))) = IF m <= Len(s) THEN Len(s) - m + 1 ELSE 0
      /\ \A i \in 1..(Len(s) - m + 1) : SubSeq(s, m, Len(s))[i] = s[m + i - 1]
  BY <1>1, <1>2, <1>3, SubSeqProperties
<1>5. Len(s) - m + 1 = n /\ (m <= Len(s) <=> 0 < n)
  BY <1>1, <1>2
<1>6. \A i \in 1..n : m + i - 1 = Len(s) - n + i
  BY <1>1, <1>2
<1> QED
  BY <1>1, <1>2, <1>4, <1>5, <1>6 DEF LastN

\* extend() of a deque that holds the last samples of a history leaves it with
\* the last samples of the longer history.
LEMMA ExtendKeepsLast ==
  ASSUME NEW S, NEW h \in Seq(S), NEW xs \in Seq(S), NEW t \in 0..Len(h), MaxLen \in Nat
  PROVE  Extend(LastN(h, Least(MaxLen, t)), xs) = LastN(h \o xs, Least(MaxLen, t + Len(xs)))
<1>1. PICK l \in Nat, x \in Nat : l = Len(h) /\ x = Len(xs) /\ t \in 0..l
  BY LenProperties
<1>2. PICK k \in 0..l : k = Least(MaxLen, t) /\ k <= t
  BY <1>1 DEF Least
<1>a. PICK s : s = LastN(h, k)
  OBVIOUS
<1>b. PICK both : both = s \o xs
  OBVIOUS
<1>c. PICK all : all = h \o xs
  OBVIOUS
<1>3. s \in Seq(S) /\ Len(s) = k /\ \A i \in 1..k : s[i] = h[l - k + i]
  BY <1>1, <1>2, <1>a, LastNProperties
<1>4. /\ both \in Seq(S) /\ Len(both) = k + x
      /\ \A i \in 1..(k + x) : both[i] = IF i <= k THEN s[i] ELSE xs[i - k]
  <2>1. /\ s \o xs \in Seq(S)
        /\ Len(s \o xs) = Len(s) + Len(xs)
        /\ \A i \in 1..(Len(s) + Len(xs)) : (s \o xs)[i] = IF i <= Len(s) THEN s[i] ELSE xs[i - Len(s)]
    BY <1>3, ConcatProperties
  <2> QED
    BY <1>1, <1>3, <1>b, <2>1
<1>5. /\ all \in Seq(S) /\ Len(all) = l + x
      /\ \A i \in 1..(l + x) : all[i] = IF i <= l THEN h[i] ELSE xs[i - l]
  BY <1>1, <1>c, ConcatProperties
<1>6. PICK n \in Nat : n = Least(MaxLen, k + x) /\ n = Least(MaxLen, t + x) /\ n <= k + x /\ n <= l + x
  BY <1>1, <1>2 DEF Least
<1>7. /\ LastN(both, n) \in Seq(S) /\ Len(LastN(both, n)) = n
      /\ \A i \in 1..n : LastN(both, n)[i] = both[k + x - n + i]
  <2>1. both \in Seq(S) /\ n \in 0..Len(both)
    BY <1>4, <1>6
  <2>2. /\ LastN(both, n) \in Seq(S) /\ Len(LastN(both, n)) = n
        /\ \A i \in 1..n : LastN(both, n)[i] = both[Len(both) - n + i]
    BY <2>1, LastNProperties
  <2> QED
    BY <1>4, <2>2
<1>8. /\ LastN(all, n) \in Seq(S) /\ Len(LastN(all, n)) = n
      /\ \A i \in 1..n : LastN(all, n)[i] = all[l + x - n + i]
  <2>1. all \in Seq(S) /\ n \in 0..Len(all)
    BY <1>5, <1>6
  <2>2. /\ LastN(all, n) \in Seq(S) /\ Len(LastN(all, n)) = n
        /\ \A i \in 1..n : LastN(all, n)[i] = all[Len(all) - n + i]
    BY <2>1, LastNProperties
  <2> QED
    BY <1>5, <2>2
<1>9. ASSUME NEW i \in 1..n
      PROVE  both[k + x - n + i] = all[l + x - n + i]
  <2>1. PICK u \in 1..(k + x) : u = k + x - n + i
    BY <1>6
  <2>2. PICK w \in 1..(l + x) : w = l + x - n + i /\ w = l - k + u
    <3>1. n <= l + x /\ u = k + x - n + i
      BY <1>6, <2>1
    <3>2. l + x - n + i \in 1..(l + x)
      BY <3>1
    <3>3. l + x - n + i = l - k + u
      BY <3>1
    <3> QED
      BY <3>2, <3>3
  <2>3. CASE u <= k
    <3>1. both[u] = h[l - k + u] /\ w <= l
      BY <1>3, <1>4, <2>1, <2>2, <2>3
    <3> QED
      BY <1>5, <2>1, <2>2, <3>1
  <2>4. CASE ~(u <= k)
    <3>1. ~(w <= l) /\ u - k = w - l
      BY <2>1, <2>2, <2>4
    <3> QED
      BY <1>4, <1>5, <2>1, <2>2, <2>4, <3>1
  <2> QED
    BY <2>3, <2>4
<1>10. LastN(both, n) = LastN(all, n)
  BY <1>7, <1>8, <1>9, SeqEqual
<1> QED
  BY <1>1, <1>2, <1>4, <1>6, <1>10, <1>a, <1>b, <1>c DEF Extend

\* A deque never outgrows maxlen.
LEMMA ExtendProperties ==
  ASSUME NEW S, NEW s \in Seq(S), NEW xs \in Seq(S), MaxLen \in Nat
  PROVE  Extend(s, xs) \in Seq(S) /\ Len(Extend(s, xs)) <= MaxLen
<1>1. s \o xs \in Seq(S) /\ Len(s \o xs) \in Nat
  BY ConcatProperties, LenProperties
<1>2. Least(MaxLen, Len(s \o xs)) \in 0..Len(s \o xs) /\ Least(MaxLen, Len(s \o xs)) <= MaxLen
  BY <1>1 DEF Least
<1> QED
  BY <1>1, <1>2, LastNProperties DEF Extend

-----------------------------------------------------------------------------
(* ChannelBuffer: the inductive invariant *)

\* What the buffer counts of a channel was published on it; a channel it does
\* not know counts nothing.
Counted ==
  \A c \in Channels : total[c] <= Len(hist[c]) /\ (c \notin DOMAIN values => total[c] = 0)

Window ==
  /\ stamps = values
  /\ \A c \in DOMAIN values : values[c] = LastN(hist[c], Least(MaxLen, total[c]))

\* The ticks of a channel increase and the clock is not behind them.
Ticking ==
  \A c \in Channels : \A i \in 1..Len(hist[c]) :
    hist[c][i] <= clock /\ \A j \in 1..(i - 1) : hist[c][j] < hist[c][i]

\* Who waits for new samples waits for as many as were asked for: `target` is
\* that far beyond what was counted when the samples known at the call had
\* all been counted or dropped.
WaitsForNew(r, p, t) ==
  /\ p \in {"probe", "count", "waitCount"} => req[r].fresh
  /\ p = "waitPoints" => ~req[r].fresh
  /\ p = "waitCount" =>
       /\ req[r].length <= t
       /\ arrived[r] + total[req[r].ch] + req[r].length <= Len(hist[req[r].ch]) + t

Waiting == \A r \in Readers : arrived[r] <= Len(hist[req[r].ch]) /\ WaitsForNew(r, pc[r], target[r])

\* A reader that sleeps is in a wait whose predicate is false.
SleepsInWait(r, p, t) ==
  /\ p \in {"find", "waitCount", "waitPoints"}
  /\ ~closed
  /\ p = "find" => ~Known(req[r].ch)
  /\ p = "waitCount" => total[req[r].ch] < t
  /\ p = "waitPoints" => Known(req[r].ch) /\ Len(values[req[r].ch]) < req[r].length

Asleep == \A r \in Readers : ~awake[r] => SleepsInWait(r, pc[r], target[r])

IInv == TypeOK /\ Counted /\ Window /\ Ticking /\ Waiting /\ Asleep /\ FreshMeansNew

-----------------------------------------------------------------------------
(* A step of a reader in get() *)

\* The step moves nothing but the reader.
Moves(r, p, t, a, o) ==
  /\ UNCHANGED <<store, req, arrived>>
  /\ pc' = [pc EXCEPT ![r] = p]
  /\ target' = [target EXCEPT ![r] = t]
  /\ awake' = [awake EXCEPT ![r] = a]
  /\ outcome' = [outcome EXCEPT ![r] = o]

\* What holds of the reader where the step leaves it.
Sound(r, p, t, a, o) ==
  LET c == req[r].ch
      n == req[r].length
  IN /\ p \in Places /\ t \in Nat /\ a \in BOOLEAN /\ o \in Outcomes
     /\ WaitsForNew(r, p, t)
     /\ ~a => SleepsInWait(r, p, t)
     /\ p = "idle" /\ o.kind = "ok" /\ req[r].fresh =>
          /\ Known(c) /\ n <= total[c] /\ arrived[r] + n <= Len(hist[c])
          /\ o.samples = LastN(values[c], Least(n, Len(values[c])))

Settles(r) ==
  \E p \in Places, t \in Nat, a \in BOOLEAN, o \in Outcomes :
    Moves(r, p, t, a, o) /\ Sound(r, p, t, a, o)

LEMMA RaisedProperties ==
  ASSUME NEW kind \in Kinds
  PROVE  Raised(kind) \in Outcomes /\ Raised(kind).kind = kind
<1>1. <<>> \in Seq(1..MaxClock)
  BY EmptySeq
<1> QED
  BY <1>1 DEF Raised, Nothing, Outcomes

LEMMA OkProperties ==
  ASSUME TypeOK, NEW c \in DOMAIN values, NEW n \in Nat
  PROVE  /\ Ok(c, n) \in Outcomes
         /\ Ok(c, n).samples = LastN(values[c], Least(n, Len(values[c])))
<1>1. values[c] \in Seq(1..MaxClock) /\ Len(values[c]) \in Nat
  BY LenProperties DEF TypeOK
<1>2. Least(n, Len(values[c])) \in 0..Len(values[c])
  BY <1>1 DEF Least
<1>3. LastN(values[c], Least(n, Len(values[c]))) \in Seq(1..MaxClock)
  BY <1>1, <1>2, LastNProperties
<1> QED
  BY <1>3 DEF Ok, Nothing, Outcomes, Kinds

\* The reader returns.
LEMMA ReturnMoves ==
  ASSUME TypeOK, NEW r \in Readers, NEW o \in Outcomes, Return(r, o),
         o.kind = "ok" /\ req[r].fresh =>
           LET c == req[r].ch
               n == req[r].length
           IN /\ Known(c) /\ n <= total[c] /\ arrived[r] + n <= Len(hist[c])
              /\ o.samples = LastN(values[c], Least(n, Len(values[c])))
  PROVE  Moves(r, "idle", 0, TRUE, o) /\ Sound(r, "idle", 0, TRUE, o)
<1>1. Moves(r, "idle", 0, TRUE, o)
  BY DEF Return, Moves
<1>2. Sound(r, "idle", 0, TRUE, o)
  BY DEF Sound, WaitsForNew, Places
<1> QED
  BY <1>1, <1>2

\* The reader goes on, awake or not, to the place p.
LEMMA MoveMoves ==
  ASSUME TypeOK, NEW r \in Readers, NEW p \in Places \ {"idle"},
         (Sleep(r, p) /\ SleepsInWait(r, p, target[r])) \/ (Proceed(r, p) /\ awake[r]),
         WaitsForNew(r, p, target[r])
  PROVE  \E a \in BOOLEAN : Moves(r, p, target[r], a, outcome[r]) /\ Sound(r, p, target[r], a, outcome[r])
<1>1. /\ target = [target EXCEPT ![r] = target[r]]
      /\ outcome = [outcome EXCEPT ![r] = outcome[r]]
      /\ awake = [awake EXCEPT ![r] = awake[r]]
      /\ target[r] \in Nat /\ outcome[r] \in Outcomes
  BY DEF TypeOK, Outcomes
<1>2. CASE Sleep(r, p) /\ SleepsInWait(r, p, target[r])
  <2>1. Moves(r, p, target[r], FALSE, outcome[r])
    BY <1>1, <1>2 DEF Sleep, Move, Moves
  <2>2. Sound(r, p, target[r], FALSE, outcome[r])
    BY <1>1, <1>2 DEF Sound
  <2> QED
    BY <2>1, <2>2
<1>3. CASE Proceed(r, p) /\ awake[r]
  <2>1. Moves(r, p, target[r], TRUE, outcome[r])
    BY <1>1, <1>3 DEF Proceed, Move, Moves
  <2>2. Sound(r, p, target[r], TRUE, outcome[r])
    BY <1>1, <1>3 DEF Sound
  <2> QED
    BY <2>1, <2>2
<1> QED
  BY <1>2, <1>3

\* The facts of the invariant that a step of one reader uses.
LEMMA ReaderFacts ==
  ASSUME BufferAssumption, IInv, NEW r \in Readers
  PROVE  LET c == req[r].ch
         IN /\ c \in Channels /\ req[r].length \in Nat \ {0} /\ req[r].fresh \in BOOLEAN
            /\ total[c] \in Nat /\ Len(hist[c]) \in Nat /\ arrived[r] \in Nat /\ target[r] \in Nat
            /\ Known(c) => Len(values[c]) \in Nat
            /\ arrived[r] <= Len(hist[c])
            /\ WaitsForNew(r, pc[r], target[r])
            /\ ~awake[r] => SleepsInWait(r, pc[r], target[r])
<1>1. req[r] \in Requests
  BY DEF IInv, TypeOK
<1>2. /\ req[r].ch \in Channels /\ req[r].length \in Nat \ {0} /\ req[r].fresh \in BOOLEAN
  BY <1>1 DEF Requests, BufferAssumption
<1>3. hist[req[r].ch] \in Seq(1..MaxClock) /\ total[req[r].ch] \in Nat
  BY <1>2 DEF IInv, TypeOK
<1>4. Known(req[r].ch) => Len(values[req[r].ch]) \in Nat
  BY LenProperties DEF IInv, TypeOK, Known
<1>5. Len(hist[req[r].ch]) \in Nat
  BY <1>3, LenProperties
<1>6. arrived[r] \in Nat /\ target[r] \in Nat
  BY DEF IInv, TypeOK
<1> QED
  BY <1>2, <1>3, <1>4, <1>5, <1>6 DEF IInv, Waiting, Asleep

\* A step of get() leaves its reader as `Sound` says and moves nothing else.
LEMMA ReaderMoves ==
  ASSUME BufferAssumption, IInv, NEW r \in Readers, ReaderStep(r) \/ Timeout(r)
  PROVE  Settles(r)
<1> DEFINE c == req[r].ch
           n == req[r].length
<1>1. TypeOK
  BY DEF IInv
<1>2. /\ c \in Channels /\ n \in Nat \ {0} /\ req[r].fresh \in BOOLEAN
      /\ total[c] \in Nat /\ Len(hist[c]) \in Nat /\ arrived[r] \in Nat /\ target[r] \in Nat
      /\ Known(c) => Len(values[c]) \in Nat
      /\ arrived[r] <= Len(hist[c])
      /\ WaitsForNew(r, pc[r], target[r])
      /\ ~awake[r] => SleepsInWait(r, pc[r], target[r])
  BY ReaderFacts
<1>3. ASSUME NEW kind \in Kinds, kind # "ok", Return(r, Raised(kind))
      PROVE  Settles(r)
  BY <1>1, <1>3, RaisedProperties, ReturnMoves DEF Places, Settles
<1>4. ASSUME Known(c), Return(r, Ok(c, n)),
             req[r].fresh => n <= total[c] /\ arrived[r] + n <= Len(hist[c])
      PROVE  Settles(r)
  <2>1. Ok(c, n) \in Outcomes /\ Ok(c, n).samples = LastN(values[c], Least(n, Len(values[c])))
    BY <1>1, <1>2, <1>4, OkProperties DEF Known
  <2>2. Moves(r, "idle", 0, TRUE, Ok(c, n)) /\ Sound(r, "idle", 0, TRUE, Ok(c, n))
    BY <1>1, <1>4, <2>1, ReturnMoves
  <2> QED
    BY <2>1, <2>2 DEF Places, Settles
<1>5. ASSUME NEW p \in Places \ {"idle"},
             (Sleep(r, p) /\ SleepsInWait(r, p, target[r])) \/ (Proceed(r, p) /\ awake[r]),
             WaitsForNew(r, p, target[r])
      PROVE  Settles(r)
  <2>1. target[r] \in Nat /\ outcome[r] \in Outcomes
    BY <1>1 DEF TypeOK, Outcomes
  <2>2. PICK a \in BOOLEAN : Moves(r, p, target[r], a, outcome[r])
                               /\ Sound(r, p, target[r], a, outcome[r])
    BY <1>1, <1>5, MoveMoves
  <2> QED
    BY <2>1, <2>2 DEF Settles
<1>6. {"find", "count", "waitCount", "waitPoints"} \subseteq Places \ {"idle"}
  BY DEF Places
<1>7. CASE Probe(r)
  <2>1. awake[r] /\ req[r].fresh
    BY <1>2, <1>7 DEF Probe, SleepsInWait, WaitsForNew
  <2>2. PICK p \in {"count", "find"} : Proceed(r, p)
    BY <1>7 DEF Probe
  <2>3. p \in Places \ {"idle"} /\ WaitsForNew(r, p, target[r])
    BY <2>1, <2>2 DEF Places, WaitsForNew
  <2> QED
    BY <1>5, <2>1, <2>2, <2>3
<1>8. ASSUME NEW expired \in BOOLEAN, Find(r, expired)
      PROVE  Settles(r)
  <2>1. pc[r] = "find" /\ awake[r]
    BY <1>8 DEF Find
  <2>2. CASE ~(Known(c) \/ closed)
    <3>1. Sleep(r, "find") /\ SleepsInWait(r, "find", target[r]) /\ WaitsForNew(r, "find", target[r])
      BY <1>8, <2>2 DEF Find, SleepsInWait, WaitsForNew
    <3> QED
      BY <1>5, <1>6, <3>1
  <2>3. CASE closed
    BY <1>3, <1>8, <2>3 DEF Find, Kinds
  <2>4. CASE Known(c) /\ ~closed /\ req[r].fresh
    <3>1. Proceed(r, "count") /\ WaitsForNew(r, "count", target[r])
      BY <1>8, <2>4 DEF Find, WaitsForNew
    <3> QED
      BY <1>5, <1>6, <2>1, <3>1
  <2>5. CASE Known(c) /\ ~closed /\ ~req[r].fresh /\ (expired \/ Len(values[c]) >= n)
    BY <1>4, <1>8, <2>5 DEF Find
  <2>6. CASE Known(c) /\ ~closed /\ ~req[r].fresh /\ ~(expired \/ Len(values[c]) >= n)
    <3>1. Sleep(r, "waitPoints")
      BY <1>8, <2>6 DEF Find
    <3>2. Len(values[c]) < n
      BY <1>2, <2>6
    <3>3. SleepsInWait(r, "waitPoints", target[r]) /\ WaitsForNew(r, "waitPoints", target[r])
      BY <2>6, <3>2 DEF SleepsInWait, WaitsForNew
    <3> QED
      BY <1>5, <1>6, <3>1, <3>3
  <2> QED
    BY <2>2, <2>3, <2>4, <2>5, <2>6
<1>9. CASE WakePoints(r)
  <2>1. ~req[r].fresh
    BY <1>2, <1>9 DEF WakePoints, WaitsForNew
  <2>2. CASE ~Known(c)
    BY <1>3, <1>9, <2>2 DEF WakePoints, Kinds
  <2>3. CASE Known(c) /\ Len(values[c]) >= n
    BY <1>4, <1>9, <2>1, <2>3 DEF WakePoints, Finish
  <2>4. CASE Known(c) /\ ~(Len(values[c]) >= n) /\ closed
    BY <1>3, <1>9, <2>4 DEF WakePoints, Finish, Kinds
  <2>5. CASE Known(c) /\ ~(Len(values[c]) >= n) /\ ~closed
    <3>1. Sleep(r, "waitPoints") /\ Len(values[c]) < n
      BY <1>2, <1>9, <2>5 DEF WakePoints
    <3>2. SleepsInWait(r, "waitPoints", target[r]) /\ WaitsForNew(r, "waitPoints", target[r])
      BY <2>1, <2>5, <3>1 DEF SleepsInWait, WaitsForNew
    <3> QED
      BY <1>5, <1>6, <3>1, <3>2
  <2> QED
    BY <2>2, <2>3, <2>4, <2>5
<1>10. CASE StartCount(r)
  <2> DEFINE goal == total[c] + n
  <2>1. goal \in Nat /\ target' = [target EXCEPT ![r] = goal] /\ UNCHANGED <<store, req, arrived>>
    BY <1>2, <1>10 DEF StartCount
  <2>2. awake[r] /\ req[r].fresh
    BY <1>2, <1>10 DEF StartCount, SleepsInWait, WaitsForNew
  <2>3. CASE closed
    <3>1. awake = [awake EXCEPT ![r] = TRUE]
      BY <1>1, <2>2 DEF TypeOK
    <3>2. Raised("closed_early") \in Outcomes /\ Raised("closed_early").kind = "closed_early"
      BY RaisedProperties DEF Kinds
    <3>3. Moves(r, "idle", goal, TRUE, Raised("closed_early"))
      BY <1>10, <2>1, <2>3, <3>1 DEF StartCount, Moves
    <3>4. Sound(r, "idle", goal, TRUE, Raised("closed_early"))
      BY <2>1, <3>2 DEF Sound, Places, WaitsForNew
    <3> QED
      BY <2>1, <3>2, <3>3, <3>4 DEF Places, Settles
  <2>4. CASE ~closed
    <3>1. outcome = [outcome EXCEPT ![r] = outcome[r]] /\ outcome[r] \in Outcomes
      BY <1>1 DEF TypeOK, Outcomes
    <3>2. Moves(r, "waitCount", goal, FALSE, outcome[r])
      BY <1>10, <2>1, <2>4, <3>1 DEF StartCount, Moves
    <3>3. n <= goal /\ arrived[r] + total[c] + n <= Len(hist[c]) + goal /\ total[c] < goal
      BY <1>2
    <3>4. WaitsForNew(r, "waitCount", goal) /\ SleepsInWait(r, "waitCount", goal)
      BY <2>2, <2>4, <3>3 DEF WaitsForNew, SleepsInWait
    <3>5. Sound(r, "waitCount", goal, FALSE, outcome[r])
      BY <2>1, <3>1, <3>4 DEF Sound, Places
    <3> QED
      BY <2>1, <3>1, <3>2, <3>5 DEF Places, Settles
  <2> QED
    BY <2>3, <2>4
<1>11. CASE WakeCount(r)
  <2>1. pc[r] = "waitCount" /\ awake[r] /\ WaitsForNew(r, "waitCount", target[r])
    BY <1>2, <1>11 DEF WakeCount
  <2>2. CASE total[c] >= target[r]
    <3>1. n <= total[c] /\ arrived[r] + n <= Len(hist[c])
      <4>1. n <= target[r] /\ arrived[r] + total[c] + n <= Len(hist[c]) + target[r]
        BY <2>1 DEF WaitsForNew
      <4> QED
        BY <1>2, <2>2, <4>1
    <3>2. CASE Known(c)
      BY <1>4, <1>11, <2>2, <3>1, <3>2 DEF WakeCount, Finish
    <3>3. CASE ~Known(c)
      BY <1>3, <1>11, <2>2, <3>3 DEF WakeCount, Finish, Kinds
    <3> QED
      BY <3>2, <3>3
  <2>3. CASE ~(total[c] >= target[r]) /\ closed
    BY <1>3, <1>11, <2>3 DEF WakeCount, Finish, Kinds
  <2>4. CASE ~(total[c] >= target[r]) /\ ~closed
    <3>1. Sleep(r, "waitCount") /\ total[c] < target[r]
      BY <1>2, <1>11, <2>4 DEF WakeCount
    <3>2. SleepsInWait(r, "waitCount", target[r])
      BY <2>4, <3>1 DEF SleepsInWait
    <3> QED
      BY <1>5, <1>6, <2>1, <3>1, <3>2
  <2> QED
    BY <2>2, <2>3, <2>4
<1>12. CASE Timeout(r)
  BY <1>3, <1>12 DEF Timeout, Kinds
<1> QED
  BY <1>7, <1>8, <1>9, <1>10, <1>11, <1>12 DEF ReaderStep

-----------------------------------------------------------------------------
(* Every action keeps the invariant *)

LEMMA InitInv ==
  ASSUME BufferAssumption, Init
  PROVE  IInv
<1>1. PICK q \in Requests : ~q.fresh
  <2>1. PICK c \in Channels, n \in Lengths : TRUE
    BY DEF BufferAssumption
  <2>2. [ch |-> c, length |-> n, fresh |-> FALSE] \in Requests
    BY DEF Requests
  <2> QED
    BY <2>2
<1>2. (CHOOSE x \in Requests : ~x.fresh) \in Requests
  BY <1>1
<1>3. /\ <<>> \in Seq(1..MaxClock) /\ Len(<<>>) = 0
  BY EmptySeq
<1>4. DOMAIN values = {} /\ stamps = values
  BY DEF Init
<1>5. \A c \in Channels : hist[c] = <<>> /\ total[c] = 0
  BY DEF Init
<1>6. TypeOK
  <2>1. outcome \in [Readers -> Outcomes]
    BY <1>3 DEF Init, Nothing, Outcomes, Kinds
  <2>2. hist \in [Channels -> Seq(1..MaxClock)]
    BY <1>3 DEF Init
  <2>3. req \in [Readers -> Requests]
    BY <1>2 DEF Init
  <2>4. clock \in 0..MaxClock
    BY DEF Init, BufferAssumption
  <2> QED
    BY <1>4, <2>1, <2>2, <2>3, <2>4 DEF Init, TypeOK, Outcomes
<1>7. Counted /\ Window /\ Ticking
  BY <1>3, <1>4, <1>5 DEF Counted, Window, Ticking
<1>8. Waiting
  <2> SUFFICES ASSUME NEW r \in Readers
               PROVE  arrived[r] <= Len(hist[req[r].ch]) /\ WaitsForNew(r, pc[r], target[r])
    BY DEF Waiting
  <2>1. req[r].ch \in Channels
    BY <1>6 DEF TypeOK, Requests
  <2>2. arrived[r] <= Len(hist[req[r].ch])
    BY <1>3, <1>5, <2>1 DEF Init
  <2> QED
    BY <2>2 DEF Init, WaitsForNew
<1>9. Asleep /\ FreshMeansNew
  BY DEF Init, Asleep, FreshMeansNew, Nothing
<1> QED
  BY <1>6, <1>7, <1>8, <1>9 DEF IInv

\* The history of a channel, l long, has gained the k samples counted.
Grows(c, l, k) ==
  /\ l = Len(hist[c]) /\ Len(hist'[c]) = l + k /\ hist'[c] \in Seq(1..MaxClock)
  /\ total'[c] = total[c] + k
  /\ \A i \in 1..(l + k) : hist'[c][i] = IF i <= l THEN hist[c][i] ELSE clock + (i - l)

LEMMA GrowsBy ==
  ASSUME NEW c \in Channels, NEW n \in Nat, NEW new \in Seq(1..MaxClock), hist[c] \in Seq(1..MaxClock),
         Len(new) = n, \A i \in 1..n : new[i] = clock + i,
         hist'[c] = hist[c] \o new, total'[c] = total[c] + n
  PROVE  Len(hist[c]) \in Nat /\ Grows(c, Len(hist[c]), n)
<1>1. PICK h \in Seq(1..MaxClock), l \in Nat : h = hist[c] /\ l = Len(h)
  BY LenProperties
<1>2. /\ h \o new \in Seq(1..MaxClock)
      /\ Len(h \o new) = l + n
      /\ \A i \in 1..(l + n) : (h \o new)[i] = IF i <= l THEN h[i] ELSE new[i - l]
  <2>1. /\ h \o new \in Seq(1..MaxClock)
        /\ Len(h \o new) = Len(h) + Len(new)
        /\ \A i \in 1..(Len(h) + Len(new)) : (h \o new)[i] = IF i <= Len(h) THEN h[i] ELSE new[i - Len(h)]
    BY ConcatProperties
  <2> QED
    BY <1>1, <2>1
<1>3. \A i \in 1..(l + n) : ~(i <= l) => new[i - l] = clock + (i - l)
  <2>1. \A i \in 1..(l + n) : ~(i <= l) => i - l \in 1..n
    OBVIOUS
  <2> QED
    BY <2>1
<1> QED
  BY <1>1, <1>2, <1>3 DEF Grows

\* A publish appends the same new samples to the deque and to the history of
\* each of its channels.
LEMMA PublishInv ==
  ASSUME BufferAssumption, IInv,
         NEW cs \in SUBSET Channels, NEW n \in Batches, Publish(cs, n)
  PROVE  IInv'
<1> DEFINE all == DOMAIN values \cup cs
           deque(c) == LastN(hist[c], Least(MaxLen, total[c]))
<1>1. PICK new : new = [i \in 1..n |-> clock + i]
  OBVIOUS
<1>2. /\ n \in Nat /\ MaxLen \in Nat \ {0} /\ MaxClock \in Nat
      /\ clock \in Nat /\ clock + n <= MaxClock
  BY DEF IInv, TypeOK, Publish, BufferAssumption
<1>3. /\ new \in Seq(1..MaxClock) /\ Len(new) = n
      /\ \A i \in 1..n : new[i] = clock + i
  BY <1>1, <1>2
<1>4. ASSUME NEW c \in Channels
      PROVE  /\ hist[c] \in Seq(1..MaxClock) /\ Len(hist[c]) \in Nat /\ total[c] \in 0..Len(hist[c])
             /\ c \notin DOMAIN values => total[c] = 0
  BY LenProperties DEF IInv, TypeOK, Counted
<1>5. ASSUME NEW c \in Channels
      PROVE  /\ hist'[c] = IF c \in cs THEN hist[c] \o new ELSE hist[c]
             /\ total'[c] = IF c \in cs THEN total[c] + n ELSE total[c]
  BY <1>1 DEF Publish
<1>6. /\ DOMAIN values' = all /\ stamps' = values'
      /\ \A c \in all : values'[c] = IF c \in cs THEN Extend(IF c \in DOMAIN values THEN values[c] ELSE <<>>, new)
                                     ELSE values[c]
  BY <1>1 DEF Publish, IInv, Window
<1>7. /\ clock' = clock + n
      /\ awake' = [r \in Readers |-> TRUE]
      /\ UNCHANGED <<closed, pc, req, target, outcome, arrived>>
  BY DEF Publish, NotifyAll
<1>8. all \subseteq Channels
  BY DEF IInv, TypeOK
<1>9. ASSUME NEW c \in cs
      PROVE  (IF c \in DOMAIN values THEN values[c] ELSE <<>>) = deque(c)
  <2>1. CASE c \in DOMAIN values
    BY <2>1 DEF IInv, Window
  <2>2. CASE c \notin DOMAIN values
    <3>1. Least(MaxLen, total[c]) = 0
      BY <1>2, <1>4, <2>2 DEF Least
    <3>2. LastN(hist[c], 0) = <<>>
      BY <1>4, SubSeqEmpty DEF LastN
    <3> QED
      BY <2>2, <3>1, <3>2
  <2> QED
    BY <2>1, <2>2
<1>10. ASSUME NEW c \in Channels
       PROVE  \E l \in Nat, k \in 0..n : Grows(c, l, k)
  <2>1. hist[c] \in Seq(1..MaxClock) /\ Len(hist[c]) \in Nat /\ total[c] \in Nat
    BY <1>4
  <2>2. CASE c \in cs
    <3>1. Len(hist[c]) \in Nat /\ Grows(c, Len(hist[c]), n)
      BY <1>2, <1>3, <1>5, <2>1, <2>2, GrowsBy
    <3> QED
      BY <1>2, <3>1
  <2>3. CASE c \notin cs
    <3>1. Grows(c, Len(hist[c]), 0)
      BY <1>5, <2>1, <2>3 DEF Grows
    <3> QED
      BY <1>2, <2>1, <3>1
  <2> QED
    BY <2>2, <2>3
<1>11. ASSUME NEW c \in all
       PROVE  /\ values'[c] = LastN(hist'[c], Least(MaxLen, total'[c]))
              /\ values'[c] \in Seq(1..MaxClock) /\ Len(values'[c]) <= MaxLen
  <2>1. c \in Channels
    BY <1>8
  <2>2. CASE c \in cs
    <3>1. values'[c] = Extend(deque(c), new)
      BY <1>6, <1>9, <2>2
    <3>2. deque(c) \in Seq(1..MaxClock)
      <4>1. Least(MaxLen, total[c]) \in 0..Len(hist[c])
        BY <1>2, <1>4, <2>1 DEF Least
      <4> QED
        BY <1>4, <2>1, <4>1, LastNProperties
    <3>3. Extend(deque(c), new) = LastN(hist[c] \o new, Least(MaxLen, total[c] + n))
      <4>1. MaxLen \in Nat \ {0} /\ total[c] \in 0..Len(hist[c]) /\ hist[c] \in Seq(1..MaxClock)
        BY <1>2, <1>4, <2>1
      <4> QED
        BY <1>3, <4>1, ExtendKeepsLast
    <3>4. Extend(deque(c), new) \in Seq(1..MaxClock) /\ Len(Extend(deque(c), new)) <= MaxLen
      BY <1>2, <1>3, <3>2, ExtendProperties
    <3> QED
      BY <1>5, <2>1, <2>2, <3>1, <3>3, <3>4
  <2>3. CASE c \notin cs
    BY <1>5, <1>6, <2>1, <2>3 DEF IInv, TypeOK, Window
  <2> QED
    BY <2>2, <2>3
<1>12. TypeOK'
  <2>1. total' \in [Channels -> Nat]
    BY <1>2, <1>4 DEF Publish
  <2>2. hist' \in [Channels -> Seq(1..MaxClock)]
    <3>1. hist' = [c \in Channels |-> hist'[c]]
      BY DEF Publish
    <3> QED
      BY <1>10, <3>1 DEF Grows
  <2> QED
    BY <1>2, <1>6, <1>7, <1>8, <1>11, <2>1, <2>2 DEF IInv, TypeOK
<1>13. Counted'
  <2> SUFFICES ASSUME NEW c \in Channels
               PROVE  total'[c] <= Len(hist'[c]) /\ (c \notin DOMAIN values' => total'[c] = 0)
    BY DEF Counted
  <2>1. total'[c] <= Len(hist'[c])
    <3>1. PICK l \in Nat, k \in 0..n : Grows(c, l, k)
      BY <1>10
    <3>2. l = Len(hist[c]) /\ Len(hist'[c]) = l + k /\ total'[c] = total[c] + k
      BY <3>1 DEF Grows
    <3>3. total[c] \in Nat /\ total[c] <= l
      BY <1>4, <3>2
    <3> QED
      BY <1>2, <3>2, <3>3
  <2>2. c \notin all => total'[c] = 0
    BY <1>4, <1>5
  <2> QED
    BY <1>6, <2>1, <2>2
<1>14. Window'
  BY <1>6, <1>11 DEF Window
<1>15. Ticking'
  <2> SUFFICES ASSUME NEW c \in Channels, NEW i \in 1..Len(hist'[c])
               PROVE  hist'[c][i] <= clock' /\ \A j \in 1..(i - 1) : hist'[c][j] < hist'[c][i]
    BY DEF Ticking
  <2>0. PICK l \in Nat, k \in 0..n : Grows(c, l, k)
    BY <1>10
  <2>a. k \in Nat /\ k <= n
    BY <1>2
  <2>1. /\ l = Len(hist[c]) /\ Len(hist'[c]) = l + k
        /\ \A x \in 1..(l + k) : hist'[c][x] = IF x <= l THEN hist[c][x] ELSE clock + (x - l)
    BY <2>0 DEF Grows
  <2>2. \A x \in 1..l : /\ hist[c][x] \in Nat /\ hist[c][x] <= clock
                        /\ \A j \in 1..(x - 1) : hist[c][j] < hist[c][x]
    <3>1. \A x \in 1..l : hist[c][x] \in 1..MaxClock
      BY <1>4, <2>1, ElementOfSeq
    <3> QED
      BY <1>2, <2>1, <3>1 DEF IInv, Ticking
  <2>3. PICK l2 \in Nat : l2 = l + k /\ l2 <= l + n /\ i \in 1..l2
    BY <1>2, <2>1, <2>a
  <2>4. \A x \in 1..l2 : hist'[c][x] = IF x <= l THEN hist[c][x] ELSE clock + (x - l)
    BY <2>1, <2>3
  <2>5. CASE i <= l
    <3>1. hist'[c][i] = hist[c][i] /\ hist[c][i] \in Nat /\ hist[c][i] <= clock
      BY <2>2, <2>3, <2>4, <2>5
    <3>2. ASSUME NEW j \in 1..(i - 1)
          PROVE  hist'[c][j] < hist'[c][i]
      <4>1. j \in 1..l2 /\ j <= l
        BY <2>3, <2>5
      <4> QED
        BY <2>2, <2>3, <2>4, <2>5, <3>1, <4>1
    <3> QED
      BY <1>2, <1>7, <3>1, <3>2
  <2>6. CASE ~(i <= l)
    <3>1. hist'[c][i] = clock + (i - l) /\ i - l <= n
      BY <1>2, <2>3, <2>4, <2>6
    <3>2. ASSUME NEW j \in 1..(i - 1)
          PROVE  hist'[c][j] < hist'[c][i]
      <4>1. j \in 1..l2 /\ j < i
        BY <2>3
      <4>2. CASE j <= l
        <5>1. hist'[c][j] = hist[c][j] /\ hist[c][j] \in Nat /\ hist[c][j] <= clock
          BY <2>2, <2>4, <4>1, <4>2
        <5> QED
          BY <1>2, <2>3, <2>6, <3>1, <5>1
      <4>3. CASE ~(j <= l)
        BY <1>2, <2>3, <2>4, <3>1, <4>1, <4>3
      <4> QED
        BY <4>2, <4>3
    <3> QED
      BY <1>2, <1>7, <2>3, <3>1, <3>2
  <2> QED
    BY <2>5, <2>6
<1>16. Waiting'
  <2> SUFFICES ASSUME NEW r \in Readers
               PROVE  /\ arrived[r] <= Len(hist'[req[r].ch])
                      /\ WaitsForNew(r, pc[r], target[r])'
    BY <1>7 DEF Waiting
  <2>1. req[r].ch \in Channels /\ arrived[r] \in Nat /\ target[r] \in Nat /\ req[r].length \in Nat
    BY ReaderFacts
  <2>2. arrived[r] <= Len(hist[req[r].ch]) /\ WaitsForNew(r, pc[r], target[r])
    BY ReaderFacts
  <2>3. PICK l \in Nat, k \in 0..n : Grows(req[r].ch, l, k)
    BY <1>10, <2>1
  <2>4. /\ l = Len(hist[req[r].ch]) /\ Len(hist'[req[r].ch]) = l + k /\ k \in Nat
        /\ total'[req[r].ch] = total[req[r].ch] + k /\ total[req[r].ch] \in Nat
    BY <1>2, <1>4, <2>1, <2>3 DEF Grows
  <2>5. arrived[r] <= Len(hist'[req[r].ch])
    BY <2>1, <2>2, <2>4
  <2>6. ASSUME pc[r] = "waitCount"
        PROVE  arrived[r] + total'[req[r].ch] + req[r].length <= Len(hist'[req[r].ch]) + target[r]
    <3>1. arrived[r] + total[req[r].ch] + req[r].length <= l + target[r]
      BY <2>2, <2>4, <2>6 DEF WaitsForNew
    <3>2. PICK a \in Nat, t \in Nat, w \in Nat, g \in Nat :
             a = arrived[r] /\ t = total[req[r].ch] /\ w = req[r].length /\ g = target[r]
      BY <2>1, <2>4
    <3>3. a + (t + k) + w <= (l + k) + g
      <4>1. a + t + w <= l + g
        BY <3>1, <3>2
      <4> QED
        BY <2>4, <4>1
    <3> QED
      BY <2>4, <3>2, <3>3
  <2>7. WaitsForNew(r, pc[r], target[r])'
    BY <1>7, <2>2, <2>6 DEF WaitsForNew
  <2> QED
    BY <2>5, <2>7
<1>17. Asleep'
  BY <1>7 DEF Asleep
<1>18. FreshMeansNew'
  <2> SUFFICES ASSUME NEW r \in Readers,
                      pc[r] = "idle" /\ outcome[r].kind = "ok",
                      req[r].fresh /\ req[r].length <= MaxLen
               PROVE  /\ Len(outcome[r].samples) = req[r].length
                      /\ \A i \in 1..req[r].length, j \in 1..arrived[r] :
                            outcome[r].samples[i] # hist'[req[r].ch][j]
    BY <1>7 DEF FreshMeansNew
  <2>1. /\ Len(outcome[r].samples) = req[r].length
        /\ \A i \in 1..req[r].length, j \in 1..arrived[r] :
              outcome[r].samples[i] # hist[req[r].ch][j]
    BY DEF IInv, FreshMeansNew
  <2>2. req[r].ch \in Channels /\ arrived[r] \in Nat /\ arrived[r] <= Len(hist[req[r].ch])
    BY ReaderFacts
  <2>3. \A j \in 1..arrived[r] : hist'[req[r].ch][j] = hist[req[r].ch][j]
    <3>0. PICK l \in Nat, k \in 0..n : Grows(req[r].ch, l, k)
      BY <1>10, <2>2
    <3>1. /\ l = Len(hist[req[r].ch])
          /\ \A i \in 1..(l + k) :
                hist'[req[r].ch][i] = IF i <= l THEN hist[req[r].ch][i] ELSE clock + (i - l)
      BY <3>0 DEF Grows
    <3>3. k \in Nat
      BY <1>2
    <3>2. \A j \in 1..arrived[r] : j \in 1..(l + k) /\ j <= l
      BY <2>2, <3>1, <3>3
    <3> QED
      BY <3>1, <3>2
  <2> QED
    BY <2>1, <2>3
<1> QED
  BY <1>12, <1>13, <1>14, <1>15, <1>16, <1>17, <1>18 DEF IInv

\* close() drops what was counted, never what was published.
LEMMA CloseInv ==
  ASSUME BufferAssumption, IInv, Close
  PROVE  IInv'
<1>1. /\ closed' = TRUE
      /\ awake' = [r \in Readers |-> TRUE]
      /\ values' = << >> /\ stamps' = << >>
      /\ total' = [c \in Channels |-> 0]
      /\ UNCHANGED <<clock, hist, pc, req, target, outcome, arrived>>
  BY DEF Close, NotifyAll
<1>2. DOMAIN values' = {} /\ DOMAIN stamps' = {}
  BY <1>1
<1>3. TypeOK'
  BY <1>1, <1>2 DEF IInv, TypeOK
<1>4. \A c \in Channels : total'[c] = 0 /\ Len(hist[c]) \in Nat
  BY <1>1, LenProperties DEF IInv, TypeOK
<1>5. Counted' /\ Window' /\ Ticking'
  <2>1. Counted'
    BY <1>1, <1>4 DEF Counted
  <2>2. Window'
    BY <1>1, <1>2 DEF Window
  <2>3. Ticking'
    BY <1>1 DEF IInv, Ticking
  <2> QED
    BY <2>1, <2>2, <2>3
<1>6. Waiting'
  <2> SUFFICES ASSUME NEW r \in Readers
               PROVE  /\ arrived[r] <= Len(hist[req[r].ch])
                      /\ WaitsForNew(r, pc[r], target[r])'
    BY <1>1 DEF Waiting
  <2>1. /\ req[r].ch \in Channels /\ arrived[r] \in Nat /\ target[r] \in Nat /\ req[r].length \in Nat
        /\ total[req[r].ch] \in Nat
        /\ arrived[r] <= Len(hist[req[r].ch]) /\ WaitsForNew(r, pc[r], target[r])
    BY ReaderFacts
  <2>2. PICK l \in Nat, a \in Nat, t \in Nat, w \in Nat, g \in Nat :
           l = Len(hist[req[r].ch]) /\ a = arrived[r] /\ t = total[req[r].ch]
             /\ w = req[r].length /\ g = target[r]
    BY <1>4, <2>1
  <2>3. pc[r] = "waitCount" => a + 0 + w <= l + g
    <3>1. pc[r] = "waitCount" => a + t + w <= l + g
      BY <2>1, <2>2 DEF WaitsForNew
    <3> QED
      BY <3>1
  <2>4. total'[req[r].ch] = 0
    BY <1>4, <2>1
  <2> QED
    BY <1>1, <2>1, <2>2, <2>3, <2>4 DEF WaitsForNew
<1>7. Asleep'
  BY <1>1 DEF Asleep
<1>8. FreshMeansNew'
  BY <1>1 DEF IInv, FreshMeansNew
<1> QED
  BY <1>3, <1>5, <1>6, <1>7, <1>8 DEF IInv

\* A call notes how much of its channel was published before it.
LEMMA CallInv ==
  ASSUME BufferAssumption, IInv, NEW r \in Readers, NEW q \in Requests, Call(r, q)
  PROVE  IInv'
<1>1. /\ pc[r] = "idle"
      /\ req' = [req EXCEPT ![r] = q]
      /\ pc' = [pc EXCEPT ![r] = IF q.fresh THEN "probe" ELSE "find"]
      /\ awake' = [awake EXCEPT ![r] = TRUE]
      /\ outcome' = [outcome EXCEPT ![r] = Nothing]
      /\ arrived' = [arrived EXCEPT ![r] = Len(hist[q.ch])]
      /\ UNCHANGED <<values, stamps, total, closed, clock, hist, target>>
  BY DEF Call, store
<1>2. Nothing \in Outcomes /\ Nothing.kind = "none"
  BY EmptySeq DEF Nothing, Outcomes, Kinds
<1>3. q.ch \in Channels /\ Len(hist[q.ch]) \in Nat
  BY LenProperties DEF IInv, TypeOK, Requests
<1>4. TypeOK'
  BY <1>1, <1>2, <1>3 DEF IInv, TypeOK, Outcomes
<1>5. Counted' /\ Window' /\ Ticking'
  BY <1>1 DEF IInv, Counted, Window, Ticking
<1>6. \A s \in Readers \ {r} : /\ req'[s] = req[s] /\ pc'[s] = pc[s] /\ awake'[s] = awake[s]
                               /\ outcome'[s] = outcome[s] /\ arrived'[s] = arrived[s]
  BY <1>1 DEF IInv, TypeOK
<1>7. /\ req'[r] = q /\ pc'[r] = IF q.fresh THEN "probe" ELSE "find"
      /\ awake'[r] = TRUE /\ outcome'[r] = Nothing /\ arrived'[r] = Len(hist[q.ch])
  BY <1>1 DEF IInv, TypeOK
<1>8. Waiting'
  <2> SUFFICES ASSUME NEW s \in Readers
               PROVE  arrived'[s] <= Len(hist[req'[s].ch]) /\ WaitsForNew(s, pc[s], target[s])'
    BY <1>1 DEF Waiting
  <2>1. CASE s = r
    BY <1>3, <1>7, <2>1 DEF WaitsForNew
  <2>2. CASE s # r
    <3>1. arrived[s] <= Len(hist[req[s].ch]) /\ WaitsForNew(s, pc[s], target[s])
      BY ReaderFacts
    <3> QED
      BY <1>1, <1>6, <2>2, <3>1 DEF WaitsForNew
  <2> QED
    BY <2>1, <2>2
<1>9. Asleep'
  <2> SUFFICES ASSUME NEW s \in Readers, ~awake'[s]
               PROVE  SleepsInWait(s, pc[s], target[s])'
    BY DEF Asleep
  <2>1. s # r
    BY <1>7
  <2>2. SleepsInWait(s, pc[s], target[s])
    BY <1>6, <2>1 DEF IInv, Asleep
  <2> QED
    BY <1>1, <1>6, <2>1, <2>2 DEF SleepsInWait, Known
<1>10. FreshMeansNew'
  <2> SUFFICES ASSUME NEW s \in Readers,
                      pc'[s] = "idle" /\ outcome'[s].kind = "ok",
                      req'[s].fresh /\ req'[s].length <= MaxLen
               PROVE  /\ Len(outcome'[s].samples) = req'[s].length
                      /\ \A i \in 1..req'[s].length, j \in 1..arrived'[s] :
                            outcome'[s].samples[i] # hist'[req'[s].ch][j]
    BY DEF FreshMeansNew
  <2>1. s # r
    BY <1>2, <1>7
  <2> QED
    BY <1>1, <1>6, <2>1 DEF IInv, FreshMeansNew
<1> QED
  BY <1>4, <1>5, <1>8, <1>9, <1>10 DEF IInv

\* The last samples of a deque that holds the newest of a channel came after
\* everything that many places back in its history.
LEMMA NewestAreNew ==
  ASSUME BufferAssumption, TypeOK, Counted, Window, Ticking,
         NEW c \in DOMAIN values, NEW n \in Nat, NEW before \in Nat,
         n <= MaxLen, n <= total[c], before + n <= Len(hist[c])
  PROVE  LET s == LastN(values[c], Least(n, Len(values[c])))
         IN  Len(s) = n /\ \A i \in 1..n, j \in 1..before : s[i] # hist[c][j]
<1>1. /\ c \in Channels /\ hist[c] \in Seq(1..MaxClock) /\ MaxLen \in Nat /\ total[c] \in Nat
      /\ values[c] = LastN(hist[c], Least(MaxLen, total[c]))
  BY DEF TypeOK, Window, BufferAssumption
<1>2. PICK l \in Nat : l = Len(hist[c]) /\ total[c] <= l /\ before + n <= l
  BY <1>1, LenProperties DEF Counted
<1>3. PICK m \in 0..l : m = Least(MaxLen, total[c]) /\ n <= m
  BY <1>1, <1>2 DEF Least
<1>4. /\ values[c] \in Seq(1..MaxClock) /\ Len(values[c]) = m
      /\ \A i \in 1..m : values[c][i] = hist[c][l - m + i]
  <2>1. PICK h \in Seq(1..MaxClock) : h = hist[c]
    BY <1>1
  <2>2. m \in 0..Len(h)
    BY <1>2, <2>1
  <2>3. /\ LastN(h, m) \in Seq(1..MaxClock) /\ Len(LastN(h, m)) = m
        /\ \A i \in 1..m : LastN(h, m)[i] = h[Len(h) - m + i]
    BY <2>2, LastNProperties
  <2> QED
    BY <1>1, <1>2, <1>3, <2>1, <2>3
<1>5. PICK s : s = LastN(values[c], n)
  OBVIOUS
<1>6. Len(s) = n /\ \A i \in 1..n : s[i] = values[c][m - n + i]
  <2>1. PICK v \in Seq(1..MaxClock) : v = values[c]
    BY <1>4
  <2>2. n \in 0..Len(v)
    BY <1>3, <1>4, <2>1
  <2>3. Len(LastN(v, n)) = n /\ \A i \in 1..n : LastN(v, n)[i] = v[Len(v) - n + i]
    BY <2>2, LastNProperties
  <2> QED
    BY <1>4, <1>5, <2>1, <2>3
<1>7. ASSUME NEW i \in 1..n, NEW j \in 1..before
      PROVE  s[i] # hist[c][j]
  <2>1. PICK k \in 1..l : k = l - n + i /\ j \in 1..(k - 1)
    <3>1. l - n + i \in 1..l /\ j <= l - n
      BY <1>2
    <3> QED
      BY <3>1
  <2>2. s[i] = hist[c][k]
    <3>1. m - n + i \in 1..m /\ l - m + (m - n + i) = k
      BY <1>3, <2>1
    <3> QED
      BY <1>4, <1>6, <3>1
  <2>3. hist[c][j] < hist[c][k]
    BY <1>1, <1>2, <2>1 DEF Ticking
  <2>4. hist[c][j] \in Nat /\ hist[c][k] \in Nat
    <3>1. j \in 1..l
      BY <2>1
    <3>2. hist[c][j] \in 1..MaxClock /\ hist[c][k] \in 1..MaxClock
      BY <1>1, <1>2, <2>1, <3>1, ElementOfSeq
    <3> QED
      BY <3>2 DEF BufferAssumption
  <2> QED
    BY <2>2, <2>3, <2>4
<1>8. Least(n, Len(values[c])) = n
  BY <1>3, <1>4 DEF Least
<1> QED
  BY <1>5, <1>6, <1>7, <1>8

\* A step of a reader in get().
LEMMA ReaderInv ==
  ASSUME BufferAssumption, IInv, NEW r \in Readers, ReaderStep(r) \/ Timeout(r)
  PROVE  IInv'
<1>1. PICK p \in Places, t \in Nat, a \in BOOLEAN, o \in Outcomes :
         Moves(r, p, t, a, o) /\ Sound(r, p, t, a, o)
  BY ReaderMoves DEF Settles
<1>2. /\ UNCHANGED <<values, stamps, total, closed, clock, hist, req, arrived>>
      /\ pc' = [pc EXCEPT ![r] = p]
      /\ target' = [target EXCEPT ![r] = t]
      /\ awake' = [awake EXCEPT ![r] = a]
      /\ outcome' = [outcome EXCEPT ![r] = o]
  BY <1>1 DEF Moves, store
<1>3. TypeOK'
  BY <1>2 DEF IInv, TypeOK, Places, Outcomes
<1>4. Counted' /\ Window' /\ Ticking'
  BY <1>2 DEF IInv, Counted, Window, Ticking
<1>5. \A s \in Readers \ {r} : /\ pc'[s] = pc[s] /\ target'[s] = target[s]
                               /\ awake'[s] = awake[s] /\ outcome'[s] = outcome[s]
  BY <1>2 DEF IInv, TypeOK
<1>6. pc'[r] = p /\ target'[r] = t /\ awake'[r] = a /\ outcome'[r] = o
  BY <1>2 DEF IInv, TypeOK
<1>7. Waiting'
  <2> SUFFICES ASSUME NEW s \in Readers
               PROVE  arrived[s] <= Len(hist[req[s].ch]) /\ WaitsForNew(s, pc[s], target[s])'
    BY <1>2 DEF Waiting
  <2>1. arrived[s] <= Len(hist[req[s].ch]) /\ WaitsForNew(s, pc[s], target[s])
    BY ReaderFacts
  <2>2. CASE s = r
    <3>1. WaitsForNew(r, p, t)
      BY <1>1 DEF Sound
    <3> QED
      BY <1>2, <1>6, <2>1, <2>2, <3>1 DEF WaitsForNew
  <2>3. CASE s # r
    BY <1>2, <1>5, <2>1, <2>3 DEF WaitsForNew
  <2> QED
    BY <2>2, <2>3
<1>8. Asleep'
  <2> SUFFICES ASSUME NEW s \in Readers, ~awake'[s]
               PROVE  SleepsInWait(s, pc[s], target[s])'
    BY DEF Asleep
  <2>1. CASE s = r
    <3>1. SleepsInWait(r, p, t)
      BY <1>1, <1>6, <2>1 DEF Sound
    <3> QED
      BY <1>2, <1>6, <2>1, <3>1 DEF SleepsInWait, Known
  <2>2. CASE s # r
    <3>1. SleepsInWait(s, pc[s], target[s])
      BY <1>5, <2>2 DEF IInv, Asleep
    <3> QED
      BY <1>2, <1>5, <2>2, <3>1 DEF SleepsInWait, Known
  <2> QED
    BY <2>1, <2>2
<1>9. FreshMeansNew'
  <2> SUFFICES ASSUME NEW s \in Readers,
                      pc'[s] = "idle" /\ outcome'[s].kind = "ok",
                      req[s].fresh /\ req[s].length <= MaxLen
               PROVE  /\ Len(outcome'[s].samples) = req[s].length
                      /\ \A i \in 1..req[s].length, j \in 1..arrived[s] :
                            outcome'[s].samples[i] # hist[req[s].ch][j]
    BY <1>2 DEF FreshMeansNew
  <2>1. CASE s = r
    <3>1. p = "idle" /\ o.kind = "ok" /\ req[r].fresh
      BY <1>6, <2>1
    <3>2. /\ Known(req[r].ch) /\ req[r].length <= total[req[r].ch]
          /\ arrived[r] + req[r].length <= Len(hist[req[r].ch])
          /\ o.samples = LastN(values[req[r].ch], Least(req[r].length, Len(values[req[r].ch])))
      BY <1>1, <3>1 DEF Sound
    <3>3. req[r].length \in Nat /\ arrived[r] \in Nat
      BY ReaderFacts
    <3>4. /\ Len(o.samples) = req[r].length
          /\ \A i \in 1..req[r].length, j \in 1..arrived[r] : o.samples[i] # hist[req[r].ch][j]
      <4>1. req[r].ch \in DOMAIN values /\ req[r].length <= MaxLen
        BY <2>1, <3>2 DEF Known
      <4>2. LET x == LastN(values[req[r].ch], Least(req[r].length, Len(values[req[r].ch])))
            IN  /\ Len(x) = req[r].length
                /\ \A i \in 1..req[r].length, j \in 1..arrived[r] : x[i] # hist[req[r].ch][j]
        BY <3>2, <3>3, <4>1, NewestAreNew DEF IInv
      <4> QED
        BY <3>2, <4>2
    <3> QED
      BY <1>6, <2>1, <3>4
  <2>2. CASE s # r
    BY <1>5, <2>2 DEF IInv, FreshMeansNew
  <2> QED
    BY <2>1, <2>2
<1> QED
  BY <1>3, <1>4, <1>7, <1>8, <1>9 DEF IInv

-----------------------------------------------------------------------------
(* ChannelBuffer: the theorems *)

\* The invariant is inductive.
THEOREM BufferInvariant ==
  ASSUME BufferAssumption
  PROVE  Spec => []IInv
<1>1. Init => IInv
  BY InitInv
<1>2. IInv /\ [Next]_vars => IInv'
  <2> SUFFICES ASSUME IInv, [Next]_vars
               PROVE  IInv'
    OBVIOUS
  <2>1. CASE \E cs \in SUBSET Channels \ {{}}, n \in Batches : Publish(cs, n)
    BY <2>1, PublishInv
  <2>2. CASE Close
    BY <2>2, CloseInv
  <2>3. CASE \E r \in Readers : \/ \E q \in Requests : Call(r, q)
                                \/ ReaderStep(r)
                                \/ Timeout(r)
    BY <2>3, CallInv, ReaderInv
  <2>4. CASE UNCHANGED vars
    BY <2>4 DEF vars, IInv, TypeOK, Counted, Window, Ticking, Waiting, WaitsForNew,
                Asleep, SleepsInWait, Known, FreshMeansNew
  <2> QED
    BY <2>1, <2>2, <2>3, <2>4 DEF Next
<1> QED
  BY <1>1, <1>2, PTL DEF Spec

\* Type correctness of the buffer and its readers.
THEOREM TypeCorrect ==
  ASSUME BufferAssumption
  PROVE  Spec => []TypeOK
<1>1. IInv => TypeOK
  BY DEF IInv
<1> QED
  BY <1>1, BufferInvariant, PTL

\* Whatever is published, in whatever batches, and whenever the buffer is
\* closed, a channel's deque is the newest samples since, with no hole, each
\* beside its own timestamp.
THEOREM DequeIsWindow ==
  ASSUME BufferAssumption
  PROVE  Spec => []WindowIsNewest
<1>1. IInv => WindowIsNewest
  BY DEF IInv, Window, WindowIsNewest
<1> QED
  BY <1>1, BufferInvariant, PTL

\* A get() that waits for new samples returns as many as were asked for, all
\* of them published after the call, whoever publishes, closes or calls
\* meanwhile and wherever the lock is given up between the two waits.
THEOREM WaitGetsNew ==
  ASSUME BufferAssumption
  PROVE  Spec => []FreshMeansNew
<1>1. IInv => FreshMeansNew
  BY DEF IInv
<1> QED
  BY <1>1, BufferInvariant, PTL

\* No number of readers makes a notification miss one that it could satisfy.
THEOREM NobodySleepsThrough ==
  ASSUME BufferAssumption
  PROVE  Spec => []NoLostWakeup
<1>1. IInv => NoLostWakeup
  <2> SUFFICES ASSUME IInv, NEW r \in Readers, ~awake[r]
               PROVE  SleepsInWait(r, pc[r], target[r])
    BY DEF NoLostWakeup, SleepsInWait
  <2> QED
    BY DEF IInv, Asleep
<1> QED
  BY <1>1, BufferInvariant, PTL

-----------------------------------------------------------------------------
(* NumpyRing: arithmetic *)

\* A remainder once round the array in either direction.
LEMMA OnceRound ==
  ASSUME NEW m \in Nat \ {0}, NEW x \in Int, -m <= x, x < 2 * m
  PROVE  x % m = IF x < 0 THEN x + m ELSE IF x < m THEN x ELSE x - m
OBVIOUS

-----------------------------------------------------------------------------
(* NumpyRing: the invariant, the k-th newest value lies k cells behind the index. *)

Back(index, k) == IF k <= index THEN index - k ELSE index - k + RingLength

NewestBehind(r, s) ==
  \A k \in 1..r.size : r.cells[Back(r.index, k)] = s[Len(s) - k + 1]

RingInv ==
  /\ N!TypeOK
  /\ nRing.size = N!Least(Len(nGiven), RingLength)
  /\ NewestBehind(nRing, nGiven)

Rings == [cells : [N!Cells -> Nat], index : N!Cells, size : 0..RingLength]

\* A batch that replaces the whole array.
LEMMA ReplacedKeeps ==
  ASSUME N!RingAssumption, NEW s \in Seq(Nat), NEW xs \in Seq(Nat), NEW r \in Rings,
         Len(xs) >= RingLength
  PROVE  /\ N!Replaced(r, xs) \in Rings
         /\ N!Replaced(r, xs).size = N!Least(Len(s \o xs), RingLength)
         /\ NewestBehind(N!Replaced(r, xs), s \o xs)
<1> DEFINE q == N!Replaced(r, xs)
<1>1. Len(s \o xs) = Len(s) + Len(xs) /\ Len(s) \in Nat /\ Len(xs) \in Nat
  BY ConcatProperties, LenProperties
<1>2. q.index = 0 /\ q.size = RingLength /\ q.cells = [i \in N!Cells |-> xs[Len(xs) - RingLength + i + 1]]
  BY DEF N!Replaced
<1>3. q \in Rings
  <2>1. \A i \in N!Cells : Len(xs) - RingLength + i + 1 \in 1..Len(xs)
    BY <1>1 DEF N!Cells, N!RingAssumption
  <2>2. \A i \in N!Cells : xs[Len(xs) - RingLength + i + 1] \in Nat
    BY <2>1, ElementOfSeq
  <2> QED
    BY <2>2 DEF N!Replaced, Rings, N!Cells, N!RingAssumption
<1>4. q.size = N!Least(Len(s \o xs), RingLength)
  BY <1>1, <1>2 DEF N!Least, N!RingAssumption
<1>5. ASSUME NEW k \in 1..RingLength
      PROVE  q.cells[Back(q.index, k)] = (s \o xs)[Len(s \o xs) - k + 1]
  <2>1. Back(q.index, k) = RingLength - k /\ RingLength - k \in N!Cells
    BY <1>2 DEF Back, N!Cells, N!RingAssumption
  <2>2. q.cells[RingLength - k] = xs[Len(xs) - k + 1]
    BY <1>1, <1>2, <2>1 DEF N!RingAssumption
  <2>3. (s \o xs)[Len(s \o xs) - k + 1] = xs[Len(xs) - k + 1]
    BY <1>1, ConcatProperties DEF N!RingAssumption
  <2> QED
    BY <2>1, <2>2, <2>3
<1> QED
  BY <1>2, <1>3, <1>4, <1>5 DEF NewestBehind

\* A shorter batch, which overwrites what lies before the new index; `end` is
\* that index not yet taken round.
LEMMA WrittenKeeps ==
  ASSUME N!RingAssumption, NEW s \in Seq(Nat), NEW xs \in Seq(Nat), NEW r \in Rings,
         r.size = N!Least(Len(s), RingLength), NewestBehind(r, s),
         0 < Len(xs), Len(xs) < RingLength
  PROVE  /\ N!Extended(r, xs) \in Rings
         /\ N!Extended(r, xs).size = N!Least(Len(s \o xs), RingLength)
         /\ NewestBehind(N!Extended(r, xs), s \o xs)
<1>0. RingLength \in Nat \ {0}
  BY DEF N!RingAssumption
<1>1. PICK n \in 1..(RingLength - 1) : n = Len(xs)
  BY <1>0, LenProperties
<1>2. PICK j \in 0..(RingLength - 1) : j = r.index
  BY DEF Rings, N!Cells
<1>3. PICK l \in Nat : l = Len(s)
  BY LenProperties
<1>4. PICK z \in 0..RingLength : z = r.size
  BY DEF Rings
<1>5. r.cells \in [0..(RingLength - 1) -> Nat]
  BY DEF Rings, N!Cells
<1>6. PICK q : q = N!Extended(r, xs)
  OBVIOUS
<1>7. PICK end \in Nat : end = j + n
  BY <1>0
<1>8. /\ q = [cells |-> q.cells, index |-> q.index, size |-> q.size]
      /\ q.cells = IF end <= RingLength THEN N!Straight(r.cells, r.index, xs) ELSE N!Wrapped(r.cells, r.index, xs)
      /\ q.index = end % RingLength
      /\ q.size = N!Least(z + n, RingLength)
  <2>1. Len(xs) # 0 /\ ~(Len(xs) >= RingLength)
    BY <1>0, <1>1
  <2>2. q = [cells |-> IF r.index + Len(xs) <= RingLength THEN N!Straight(r.cells, r.index, xs)
                       ELSE N!Wrapped(r.cells, r.index, xs),
             index |-> (r.index + Len(xs)) % RingLength,
             size |-> N!Least(r.size + Len(xs), RingLength)]
    BY <1>6, <2>1 DEF N!Extended
  <2>3. r.index + Len(xs) = end /\ r.size + Len(xs) = z + n
    BY <1>1, <1>2, <1>4, <1>7
  <2> QED
    BY <2>2, <2>3
<1>9. q.index = IF end < RingLength THEN end ELSE end - RingLength
  <2>1. -RingLength <= end /\ end < 2 * RingLength /\ ~(end < 0)
    BY <1>0, <1>7
  <2> QED
    BY <1>0, <1>8, <2>1, OnceRound
<1>10. q.index \in 0..(RingLength - 1) /\ q.size \in 0..RingLength
  <2>1. q.size = N!Least(z + n, RingLength)
    BY <1>8
  <2> QED
    BY <1>0, <1>7, <1>9, <2>1 DEF N!Least
<1>11. Len(s \o xs) = l + n
  BY <1>1, <1>3, ConcatProperties
<1>12. q.size = N!Least(Len(s \o xs), RingLength)
  <2>1. z = N!Least(l, RingLength)
    BY <1>3, <1>4
  <2> QED
    BY <1>0, <1>8, <1>11, <2>1 DEF N!Least
<1>13. \A i \in 0..(RingLength - 1) :
          q.cells[i] = IF end <= RingLength
                       THEN IF j <= i /\ i < end THEN xs[i - j + 1] ELSE r.cells[i]
                       ELSE IF j <= i THEN xs[i - j + 1]
                            ELSE IF i < end - RingLength THEN xs[RingLength - j + i + 1] ELSE r.cells[i]
  <2>1. CASE end <= RingLength
    BY <1>1, <1>2, <1>7, <1>8, <2>1 DEF N!Straight, N!Cells
  <2>2. CASE ~(end <= RingLength)
    <3>1. q.cells = N!Wrapped(r.cells, j, xs)
      BY <1>2, <1>8, <2>2
    <3>2. q.cells = [i \in N!Cells |-> IF j <= i THEN xs[i - j + 1]
                                    ELSE IF i < end - RingLength THEN xs[RingLength - j + i + 1]
                                    ELSE r.cells[i]]
      <4>1. j + Len(xs) - RingLength = end - RingLength
        BY <1>0, <1>1, <1>7
      <4> QED
        BY <3>1, <4>1 DEF N!Wrapped
    <3> QED
      BY <2>2, <3>2 DEF N!Cells
  <2> QED
    BY <2>1, <2>2
<1>14. q.cells \in [0..(RingLength - 1) -> Nat]
  <2>1. q.cells = [i \in 0..(RingLength - 1) |-> q.cells[i]]
    BY <1>8 DEF N!Straight, N!Wrapped, N!Cells
  <2>2. \A i \in 1..n : xs[i] \in Nat
    BY <1>1, ElementOfSeq
  <2>3. ASSUME NEW i \in 0..(RingLength - 1)
        PROVE  q.cells[i] \in Nat
    <3>1. CASE end <= RingLength /\ j <= i /\ i < end
      <4>1. i - j + 1 \in 1..n
        BY <1>0, <1>7, <3>1
      <4> QED
        BY <1>13, <2>2, <3>1, <4>1
    <3>2. CASE end > RingLength /\ j <= i
      <4>1. i - j + 1 \in 1..n /\ ~(end <= RingLength)
        BY <1>0, <1>7, <3>2
      <4> QED
        BY <1>13, <2>2, <3>2, <4>1
    <3>3. CASE end > RingLength /\ ~(j <= i) /\ i < end - RingLength
      <4>1. RingLength - j + i + 1 \in 1..n /\ ~(end <= RingLength)
        BY <1>0, <1>7, <3>3
      <4> QED
        BY <1>13, <2>2, <3>3, <4>1
    <3>4. CASE /\ ~(end <= RingLength /\ j <= i /\ i < end)
               /\ ~(end > RingLength /\ j <= i)
               /\ ~(end > RingLength /\ ~(j <= i) /\ i < end - RingLength)
      <4>1. q.cells[i] = r.cells[i]
        BY <1>0, <1>7, <1>13, <3>4
      <4> QED
        BY <1>5, <4>1
    <3> QED
      BY <3>1, <3>2, <3>3, <3>4
  <2> QED
    BY <2>1, <2>3
<1>15. q \in Rings
  BY <1>8, <1>10, <1>14 DEF Rings, N!Cells
<1>16. ASSUME NEW k \in 1..q.size
       PROVE  q.cells[Back(q.index, k)] = (s \o xs)[Len(s \o xs) - k + 1]
  <2>1. k \in 1..RingLength /\ k <= z + n
    BY <1>0, <1>8, <1>10 DEF N!Least
  <2>2. PICK new : new = Back(q.index, k)
    OBVIOUS
  <2>3. PICK old : old = Back(j, k - n)
    OBVIOUS
  <2>4. /\ new = IF k <= q.index THEN q.index - k ELSE q.index - k + RingLength
        /\ old = IF k - n <= j THEN j - (k - n) ELSE j - (k - n) + RingLength
    BY <2>2, <2>3 DEF Back
  <2>5. /\ k <= n => q.cells[new] = xs[n - k + 1]
        /\ k > n => q.cells[new] = r.cells[old]
    <3> DEFINE a == r.cells
               b == q.cells
               next == q.index
    <3>0. \A i \in 0..(RingLength - 1) :
             b[i] = IF end <= RingLength
                    THEN IF j <= i /\ i < end THEN xs[i - j + 1] ELSE a[i]
                    ELSE IF j <= i THEN xs[i - j + 1]
                         ELSE IF i < end - RingLength THEN xs[RingLength - j + i + 1] ELSE a[i]
      BY <1>13
    <3>1. /\ next \in Int /\ new \in Int
          /\ next = IF end < RingLength THEN end ELSE end - RingLength
          /\ new = IF k <= next THEN next - k ELSE next - k + RingLength
      BY <1>0, <1>9, <2>1, <2>4
    <3> HIDE DEF a, b, next
    <3>2. new \in 0..(RingLength - 1)
      BY <1>0, <1>7, <2>1, <3>1
    <3>3. k <= n => b[new] = xs[n - k + 1]
      <4> SUFFICES ASSUME k <= n PROVE b[new] = xs[n - k + 1]
        OBVIOUS
      <4>1. CASE end <= RingLength
        <5>1. new - j + 1 = n - k + 1 /\ j <= new /\ new < end
          BY <1>0, <1>7, <2>1, <3>1, <4>1
        <5> QED
          BY <3>0, <3>2, <4>1, <5>1
      <4>2. CASE ~(end <= RingLength) /\ k <= end - RingLength
        <5>1. RingLength - j + new + 1 = n - k + 1 /\ ~(j <= new) /\ new < end - RingLength
          BY <1>0, <1>7, <2>1, <3>1, <4>2
        <5> QED
          BY <3>0, <3>2, <4>2, <5>1
      <4>3. CASE ~(end <= RingLength) /\ ~(k <= end - RingLength)
        <5>1. new - j + 1 = n - k + 1 /\ j <= new
          BY <1>0, <1>7, <2>1, <3>1, <4>3
        <5> QED
          BY <3>0, <3>2, <4>3, <5>1
      <4> QED
        BY <4>1, <4>2, <4>3
    <3>4. k > n => b[new] = a[old]
      <4> SUFFICES ASSUME k > n PROVE b[new] = a[old]
        OBVIOUS
      <4>1. new = old
        BY <1>0, <1>7, <2>1, <2>4, <3>1
      <4>2. CASE end <= RingLength
        <5>1. ~(j <= new /\ new < end)
          BY <1>0, <1>7, <2>1, <3>1, <4>2
        <5> QED
          BY <3>0, <3>2, <4>1, <4>2, <5>1
      <4>3. CASE ~(end <= RingLength)
        <5>1. ~(j <= new) /\ ~(new < end - RingLength)
          BY <1>0, <1>7, <2>1, <3>1, <4>3
        <5> QED
          BY <3>0, <3>2, <4>1, <4>3, <5>1
      <4> QED
        BY <4>2, <4>3
    <3> QED
      BY <3>3, <3>4 DEF a, b
  <2>6. CASE k <= n
    <3>1. (s \o xs)[l + n - k + 1] = xs[n - k + 1]
      BY <1>1, <1>3, <2>6, ConcatProperties
    <3>2. Len(s \o xs) - k + 1 = l + n - k + 1
      BY <1>11
    <3> QED
      BY <2>2, <2>5, <2>6, <3>1, <3>2
  <2>7. CASE k > n
    <3>1. k - n \in 1..z /\ z <= l
      BY <1>0, <1>3, <1>4, <2>1, <2>7 DEF N!Least
    <3>2. (s \o xs)[l + n - k + 1] = s[l + n - k + 1]
      <4>1. PICK i \in 1..l : i = l + n - k + 1
        BY <2>7, <3>1
      <4>2. (s \o xs)[i] = s[i]
        BY <1>3, ConcatProperties
      <4> QED
        BY <4>1, <4>2
    <3>3. r.cells[Back(j, k - n)] = s[l - (k - n) + 1]
      BY <1>2, <1>3, <1>4, <3>1 DEF NewestBehind
    <3>4. l - (k - n) + 1 = l + n - k + 1 /\ Len(s \o xs) - k + 1 = l + n - k + 1
      BY <1>11, <2>1
    <3> QED
      BY <2>2, <2>3, <2>5, <2>7, <3>2, <3>3, <3>4
  <2>8. k <= n \/ k > n
    BY <1>0, <2>1
  <2> QED
    BY <2>6, <2>7, <2>8
<1> QED
  BY <1>6, <1>12, <1>15, <1>16 DEF NewestBehind

\* extend() of any batch.
LEMMA ExtendedKeeps ==
  ASSUME N!RingAssumption, NEW s \in Seq(Nat), NEW xs \in Seq(Nat), NEW r \in Rings,
         r.size = N!Least(Len(s), RingLength), NewestBehind(r, s)
  PROVE  /\ N!Extended(r, xs) \in Rings
         /\ N!Extended(r, xs).size = N!Least(Len(s \o xs), RingLength)
         /\ NewestBehind(N!Extended(r, xs), s \o xs)
<1>1. Len(xs) \in Nat
  BY LenProperties
<1>2. CASE Len(xs) = 0
  <2>1. xs = <<>>
    BY <1>2, EmptySeq
  <2>2. s \o xs = s
    BY <2>1, ConcatEmptySeq
  <2> QED
    BY <1>2, <2>2 DEF N!Extended
<1>3. CASE Len(xs) >= RingLength
  BY <1>1, <1>3, ReplacedKeeps DEF N!Extended, N!RingAssumption
<1> QED
  BY <1>1, <1>2, <1>3, WrittenKeeps DEF N!RingAssumption

-----------------------------------------------------------------------------
(* Readers *)

\* get_latest() walks from the n-th newest value to the newest.
LEMMA LatestIsNewest ==
  ASSUME N!RingAssumption, NEW s \in Seq(Nat), NEW r \in Rings,
         r.size = N!Least(Len(s), RingLength), NewestBehind(r, s), NEW n0 \in Nat
  PROVE  LET m == N!Least(n0, N!Least(Len(s), RingLength))
         IN  N!Latest(r, n0) = SubSeq(s, Len(s) - m + 1, Len(s))
<1>0. RingLength \in Nat \ {0}
  BY DEF N!RingAssumption
<1>1. PICK l \in Nat : l = Len(s)
  BY LenProperties
<1>2. PICK j \in 0..(RingLength - 1) : j = r.index
  BY DEF Rings, N!Cells
<1>3. PICK z \in 0..RingLength : z = r.size /\ z = N!Least(l, RingLength)
  BY <1>1 DEF Rings
<1>4. PICK n \in 0..z : n = N!Least(n0, z)
  BY <1>3 DEF N!Least
<1>5. PICK start : start = (j - n) % RingLength
  OBVIOUS
<1>6. start = IF j < n THEN j - n + RingLength ELSE j - n
  <2>1. j - n \in Int /\ -RingLength <= j - n /\ j - n < 2 * RingLength
    BY <1>0
  <2>2. (j - n) % RingLength = IF j - n < 0 THEN j - n + RingLength
                           ELSE IF j - n < RingLength THEN j - n ELSE j - n - RingLength
    BY <1>0, <2>1, OnceRound
  <2> QED
    BY <1>0, <1>5, <2>2
<1> DEFINE cell(k) == IF start < j \/ start + k < RingLength THEN start + k ELSE start + k - RingLength
<1>7. N!Latest(r, n0) = [k \in 1..n |-> r.cells[cell(k - 1)]]
  BY <1>2, <1>3, <1>4, <1>5 DEF N!Latest
<1>8. ASSUME NEW k \in 1..n
      PROVE  r.cells[cell(k - 1)] = s[l - n + k]
  <2>1. n - k + 1 \in 1..z /\ z <= l
    BY <1>0, <1>3 DEF N!Least
  <2>2. cell(k - 1) = Back(j, n - k + 1)
    <3>1. CASE n <= j
      BY <1>0, <1>6, <3>1 DEF Back
    <3>2. CASE n > j
      BY <1>0, <1>6, <3>2 DEF Back
    <3> QED
      BY <3>1, <3>2
  <2>3. r.cells[Back(j, n - k + 1)] = s[l - (n - k + 1) + 1]
    BY <1>1, <1>2, <1>3, <2>1 DEF NewestBehind
  <2>4. l - (n - k + 1) + 1 = l - n + k
    BY <2>1
  <2> QED
    BY <2>2, <2>3, <2>4
<1> HIDE DEF cell
<1>9. N!Latest(r, n0) = [k \in 1..n |-> s[l - n + k]]
  BY <1>7, <1>8
<1>10. SubSeq(s, l - n + 1, l) = [k \in 1..n |-> s[l - n + k]]
  <2>1. z <= l
    BY <1>0, <1>3 DEF N!Least
  <2>2. SubSeq(s, l - n + 1, l) = [k \in 1..(l - (l - n + 1) + 1) |-> s[(l - n + 1) + k - 1]]
    BY <1>1
  <2>3. l - (l - n + 1) + 1 = n /\ \A k \in 1..n : (l - n + 1) + k - 1 = l - n + k
    BY <2>1
  <2> QED
    BY <2>2, <2>3
<1>11. n = N!Least(n0, N!Least(Len(s), RingLength))
  BY <1>1, <1>3, <1>4
<1> QED
  BY <1>1, <1>9, <1>10, <1>11

-----------------------------------------------------------------------------
\* For every length of the array and all batches, a reader of the ring gets
\* the newest values in order, and as many as a deque would give it.
THEOREM RingCorrect ==
  ASSUME N!RingAssumption
  PROVE  N!Spec => []RingIsDeque
<1>1. N!Init => RingInv
  BY DEF N!Init, N!Empty, RingInv, N!TypeOK, NewestBehind, N!Least, N!Cells, N!RingAssumption
<1>2. RingInv /\ [N!Next]_(N!vars) => RingInv'
  <2> SUFFICES ASSUME RingInv, [N!Next]_(N!vars)
               PROVE  RingInv'
    OBVIOUS
  <2>1. ASSUME NEW n \in RingBatches, N!Extend(n)
        PROVE  RingInv'
    <3> DEFINE xs == [i \in 1..n |-> Len(nGiven) + i]
    <3>1. nGiven \in Seq(Nat) /\ nRing \in Rings /\ Len(nGiven) \in Nat /\ n \in Nat
      BY LenProperties DEF RingInv, N!TypeOK, Rings, N!RingAssumption
    <3>2. xs \in Seq(Nat)
      BY <3>1
    <3>3. nRing' = N!Extended(nRing, xs) /\ nGiven' = nGiven \o xs
      BY <2>1 DEF N!Extend
    <3>4. nGiven \o xs \in Seq(Nat)
      BY <3>1, <3>2, ConcatProperties
    <3>5. /\ N!Extended(nRing, xs) \in Rings
          /\ N!Extended(nRing, xs).size = N!Least(Len(nGiven \o xs), RingLength)
          /\ NewestBehind(N!Extended(nRing, xs), nGiven \o xs)
      BY <3>1, <3>2, ExtendedKeeps DEF RingInv
    <3> QED
      BY <3>3, <3>4, <3>5 DEF RingInv, N!TypeOK, Rings
  <2>2. CASE UNCHANGED N!vars
    BY <2>2 DEF N!vars, RingInv, N!TypeOK, NewestBehind
  <2> QED
    BY <2>1, <2>2 DEF N!Next
<1>3. RingInv => RingIsDeque
  <2> SUFFICES ASSUME RingInv, NEW n \in 0..(RingLength + 1)
               PROVE  LET m == N!Least(n, N!Least(Len(nGiven), RingLength))
                      IN  N!Latest(nRing, n) = SubSeq(nGiven, Len(nGiven) - m + 1, Len(nGiven))
    BY DEF RingIsDeque, N!RingIsDeque
  <2>1. n \in Nat /\ nGiven \in Seq(Nat) /\ nRing \in Rings
    BY DEF RingInv, N!TypeOK, Rings, N!RingAssumption
  <2> QED
    BY <2>1, LatestIsNewest DEF RingInv
<1> QED
  BY <1>1, <1>2, <1>3, PTL DEF N!Spec

-----------------------------------------------------------------------------
(* LabJackStream: the invariant *)

\* The blocks of a queue are the last ones of a stream, up to block n.
UpTo(q, s, n) == \A i \in 1..Len(q) : q[i] = <<s, n - Len(q) + i>>

\* A block and its stream.
Blocks == Nat \X Nat

LabTypes ==
  /\ lQueue \in Seq(Blocks) /\ lTaken \in Nat /\ lStream \in Nat
  /\ lLock \in {"free", "callback"}
  /\ lCtl \in {"idle", "activate", "register", "retract", "giveUp", "unregister", "halt", "drain"}
  /\ lCb \in {"out", "want", "read", "put"}
  /\ lFetch \in {"idle", "wait", "stamp"}
  /\ lActive \in BOOLEAN /\ lStreaming \in BOOLEAN /\ lRegistered \in BOOLEAN

\* The lock keeps stop() from ending the stream under a read of the callback.
ActiveInv ==
  /\ lLock = "callback" <=> lCb = "read"
  /\ lCb = "read" => lActive
  /\ lActive => lStreaming /\ lOpened
  /\ lCtl \in {"activate", "giveUp", "unregister", "halt", "drain"} => ~lActive
  /\ lCtl \in {"register", "retract"} => lActive
  /\ lCtl # "idle" => lOpened
  /\ lCtl = "activate" => lStreaming
  /\ lCtl \in {"unregister", "halt", "drain"} => lFetch = "idle"

\* Between streams the library has no callback, and once stop() is through
\* nothing of the stream is left.
QuietInv ==
  /\ lRegistered => (lActive /\ lCtl = "idle") \/ lCtl = "unregister"
  /\ lCb # "out" => lRegistered
  /\ lQueue # <<>> => (lActive /\ lCtl = "idle") \/ lCtl \in {"unregister", "halt", "drain"}
  /\ lActive => UpTo(lQueue, lStream, IF lCb = "put" THEN lTaken - 1 ELSE lTaken)
  /\ lFetch = "stamp" => lActive /\ lCtl = "idle" /\ lBlock[1] = lStream
  /\ lStamper # 0 => lStamper = lStream

LabInv == LabTypes /\ ActiveInv /\ (~lSpoiled => QuietInv)

LEMMA NothingIsUpTo ==
  ASSUME NEW s, NEW n PROVE UpTo(<<>>, s, n)
BY DEF UpTo

\* A block is put behind the others, and one is taken out.
LEMMA UpToMoves ==
  ASSUME NEW q \in Seq(Blocks), NEW s \in Nat, NEW n \in Int, UpTo(q, s, n)
  PROVE  /\ n + 1 \in Nat => Append(q, <<s, n + 1>>) \in Seq(Blocks) /\ UpTo(Append(q, <<s, n + 1>>), s, n + 1)
         /\ q # <<>> => Tail(q) \in Seq(Blocks) /\ UpTo(Tail(q), s, n) /\ Head(q)[1] = s
<1>1. Len(q) \in Nat
  OBVIOUS
<1>2. ASSUME n + 1 \in Nat
      PROVE  Append(q, <<s, n + 1>>) \in Seq(Blocks) /\ UpTo(Append(q, <<s, n + 1>>), s, n + 1)
  <2>1. PICK w : w = Append(q, <<s, n + 1>>)
    OBVIOUS
  <2>2. /\ w \in Seq(Blocks) /\ Len(w) = Len(q) + 1 /\ w[Len(q) + 1] = <<s, n + 1>>
        /\ \A i \in 1..Len(q) : w[i] = q[i]
    <3>1. <<s, n + 1>> \in Blocks
      BY <1>2 DEF Blocks
    <3> QED
      BY <2>1, <3>1
  <2>3. ASSUME NEW i \in 1..Len(w) PROVE w[i] = <<s, n + 1 - Len(w) + i>>
    <3>1. CASE i = Len(q) + 1
      <4>1. n + 1 - Len(w) + i = n + 1
        BY <1>1, <2>2, <3>1
      <4> QED
        BY <2>2, <3>1, <4>1
    <3>2. CASE i # Len(q) + 1
      <4>1. i \in 1..Len(q) /\ n + 1 - Len(w) + i = n - Len(q) + i
        BY <1>1, <2>2, <3>2
      <4> QED
        BY <2>2, <4>1 DEF UpTo
    <3> QED
      BY <3>1, <3>2
  <2> QED
    BY <2>1, <2>2, <2>3 DEF UpTo
<1>3. ASSUME q # <<>>
      PROVE  Tail(q) \in Seq(Blocks) /\ UpTo(Tail(q), s, n) /\ Head(q)[1] = s
  <2>1. PICK w : w = Tail(q)
    OBVIOUS
  <2>2. /\ w \in Seq(Blocks) /\ Len(w) = Len(q) - 1 /\ Len(q) # 0 /\ Head(q) = q[1]
        /\ \A i \in 1..Len(w) : w[i] = q[i + 1]
    BY <1>3, <2>1
  <2>3. ASSUME NEW i \in 1..Len(w) PROVE w[i] = <<s, n - Len(w) + i>>
    <3>1. i + 1 \in 1..Len(q) /\ n - Len(w) + i = n - Len(q) + (i + 1)
      BY <1>1, <2>2
    <3> QED
      BY <2>2, <3>1 DEF UpTo
  <2>4. 1 \in 1..Len(q)
    BY <1>1, <2>2
  <2>5. q[1] = <<s, n - Len(q) + 1>>
    BY <2>4 DEF UpTo
  <2> QED
    BY <2>1, <2>2, <2>3, <2>5 DEF UpTo
<1> QED
  BY <1>2, <1>3

\* The caller: configuration, start() and stop().
LEMMA LabCallerStep ==
  ASSUME LabInv,
         \/ L!Open \/ (L!Stopped /\ L!Close) \/ L!Configure \/ L!Start \/ L!Activate \/ L!Register \/ L!Retract \/ L!GiveUp
         \/ (L!Joined /\ L!Stop) \/ L!Unregister \/ L!Halt \/ L!Drain
  PROVE  LabInv'
<1> USE DEF LabInv, LabTypes, ActiveInv, QuietInv, L!Goto, L!config, L!device, L!StopStream
<1>1. CASE L!Open
  BY <1>1 DEF L!Open
<1>2. CASE L!Stopped /\ L!Close
  BY <1>2 DEF L!Close, L!Stopped, L!Joined
<1>3. CASE L!Configure
  BY <1>3 DEF L!Configure
<1>4. CASE L!Start
  <2>1. lStream + 1 \in Nat
    OBVIOUS
  <2>2. LabTypes'
    <3>1. UNCHANGED <<lQueue, lLock, lCb, lFetch, lActive, lRegistered>>
      BY <1>4 DEF L!Start
    <3>2. \/ lStreaming' = TRUE /\ lStream' = lStream + 1 /\ lTaken' = 0
          \/ UNCHANGED <<lStreaming, lStream, lTaken>>
      BY <1>4, Zenon DEF L!Start
    <3>3. lCtl' \in {"idle", "activate"}
      BY <1>4 DEF L!Start
    <3>4. lTaken' \in Nat /\ lStream' \in Nat /\ lStreaming' \in BOOLEAN
      <4>1. lTaken \in Nat /\ lStream \in Nat /\ lStreaming \in BOOLEAN /\ 0 \in Nat
        OBVIOUS
      <4> HIDE DEF LabInv, LabTypes, ActiveInv, QuietInv
      <4> QED
        BY <2>1, <3>2, <4>1, Zenon
    <3>5. lQueue' \in Seq(Blocks) /\ lLock' \in {"free", "callback"}
      BY <3>1
    <3> QED
      BY <3>1, <3>3, <3>4, <3>5
  <2>3. ActiveInv'
    BY <1>4 DEF L!Start
  <2>4. ASSUME ~lSpoiled' PROVE QuietInv'
    <3>1. /\ ~lSpoiled /\ lCtl = "idle" /\ ~lActive /\ lStamper' = 0 /\ ~lActive'
          /\ UNCHANGED <<lQueue, lRegistered, lCb, lFetch>>
      BY <1>4, <2>4 DEF L!Start
    <3>2. ~lRegistered /\ lCb = "out" /\ lQueue = <<>> /\ lFetch # "stamp"
      BY <3>1
    <3> QED
      BY <3>1, <3>2
  <2> QED
    BY <2>2, <2>3, <2>4
<1>5. CASE L!Activate
  BY <1>5, NothingIsUpTo DEF L!Activate
<1>6. CASE L!Register
  <2>1. LabTypes'
    BY <1>6 DEF L!Register
  <2>2. ActiveInv'
    BY <1>6 DEF L!Register
  <2>3. ~lSpoiled' => QuietInv'
    BY <1>6 DEF L!Register
  <2> QED
    BY <2>1, <2>2, <2>3
<1>7. CASE L!Retract
  BY <1>7 DEF L!Retract
<1>8. CASE L!GiveUp
  BY <1>8 DEF L!GiveUp
<1>9. CASE L!Joined /\ L!Stop
  BY <1>9 DEF L!Stop, L!Joined
<1>10. CASE L!Unregister
  BY <1>10 DEF L!Unregister
<1>11. CASE L!Halt
  BY <1>11 DEF L!Halt
<1>12. CASE L!Drain
  BY <1>12, EmptySeq DEF L!Drain
<1> QED
  BY <1>1, <1>2, <1>3, <1>4, <1>5, <1>6, <1>7, <1>8, <1>9, <1>10, <1>11, <1>12

\* The library's thread and the fetcher.
LEMMA LabBlockStep ==
  ASSUME LabInv,
         \/ L!Enter \/ L!Look \/ L!ReadBlock \/ L!Put
         \/ L!Fetch \/ L!TakeOut \/ L!Expire \/ L!Stamp
  PROVE  LabInv'
<1> USE DEF LabInv, LabTypes, ActiveInv, QuietInv, L!config, L!device
<1>1. CASE L!Enter
  BY <1>1 DEF L!Enter
<1>2. CASE L!Look
  BY <1>2 DEF L!Look
<1>3. CASE L!ReadBlock
  <2>1. lTaken' \in Nat /\ lTaken' - 1 = lTaken
    BY <1>3 DEF L!ReadBlock
  <2> QED
    BY <1>3, <2>1 DEF L!ReadBlock
<1>4. CASE L!Put
  <2>1. lTaken - 1 \in Int /\ (lTaken - 1) + 1 = lTaken
    OBVIOUS
  <2>2. lQueue' = Append(lQueue, <<lStream, lTaken>>) /\ lCb = "put" /\ lCb' = "out"
        /\ UNCHANGED <<lOpened, lInputs, lTimed, lActive, lLock, lStamper, lStreaming, lStream, lTaken, lRegistered, lCtl, lFetch, lBlock, lSpoiled>>
    BY <1>4 DEF L!Put
  <2>3. lQueue' \in Seq(Blocks)
    BY <2>2 DEF Blocks
  <2>4. ~lSpoiled /\ lActive => UpTo(lQueue', lStream, lTaken)
    <3>1. PICK n \in Int : n = lTaken - 1 /\ n + 1 = lTaken
      BY <2>1
    <3>2. ~lSpoiled /\ lActive => UpTo(lQueue, lStream, n)
      BY <2>2, <3>1
    <3>3. ASSUME UpTo(lQueue, lStream, n) PROVE UpTo(Append(lQueue, <<lStream, n + 1>>), lStream, n + 1)
      <4>1. n + 1 \in Nat /\ lQueue \in Seq(Blocks) /\ lStream \in Nat
        BY <3>1
      <4> HIDE DEF LabInv, LabTypes, ActiveInv, QuietInv
      <4> QED
        BY <3>3, <4>1, UpToMoves
    <3> QED
      BY <2>2, <3>1, <3>2, <3>3
  <2>5. LabTypes' /\ ActiveInv'
    BY <2>2, <2>3
  <2>6. ~lSpoiled' => QuietInv'
    BY <2>2, <2>4
  <2> QED
    BY <2>5, <2>6
<1>5. CASE L!Fetch
  BY <1>5 DEF L!Fetch
<1>6. CASE L!TakeOut
  <2>1. /\ lQueue # <<>> /\ lBlock' = Head(lQueue) /\ lQueue' = Tail(lQueue) /\ lFetch = "wait" /\ lFetch' = "stamp"
        /\ UNCHANGED <<lOpened, lInputs, lTimed, lActive, lLock, lStamper, lStreaming, lStream, lTaken, lRegistered, lCtl, lCb, lSpoiled>>
    BY <1>6 DEF L!TakeOut
  <2>2. lQueue' \in Seq(Blocks)
    BY <2>1
  <2>3. PICK n \in Int : n = IF lCb = "put" THEN lTaken - 1 ELSE lTaken
    OBVIOUS
  <2>4. ~lSpoiled /\ lActive => UpTo(lQueue', lStream, n) /\ lBlock'[1] = lStream
    <3>1. ~lSpoiled /\ lActive => UpTo(lQueue, lStream, n)
      BY <2>3
    <3> QED
      BY <2>1, <3>1, UpToMoves
  <2>5. LabTypes' /\ ActiveInv'
    BY <2>1, <2>2
  <2>6. ~lSpoiled' => QuietInv'
    BY <2>1, <2>3, <2>4
  <2> QED
    BY <2>5, <2>6
<1>7. CASE L!Expire
  BY <1>7 DEF L!Expire
<1>8. CASE L!Stamp
  BY <1>8 DEF L!Stamp
<1> QED
  BY <1>1, <1>2, <1>3, <1>4, <1>5, <1>6, <1>7, <1>8

-----------------------------------------------------------------------------
(* LabJackStream: the theorem *)

\* However the caller, the library's thread and the fetcher interleave, the
\* callback reads no stream that stop() has ended; and unless the library
\* refused to unregister the callback, a fetch hands out the blocks of the
\* stream that runs, in order, on the timeline that stream began.
THEOREM FetchIsCurrent == L!Spec => []StreamIsCurrent
<1>1. L!Init => LabInv
  <2> SUFFICES ASSUME L!Init PROVE LabInv
    OBVIOUS
  <2>1. LabTypes
    BY EmptySeq DEF L!Init, LabTypes
  <2>2. ActiveInv
    BY DEF L!Init, ActiveInv
  <2>3. QuietInv
    BY DEF L!Init, QuietInv
  <2> QED
    BY <2>1, <2>2, <2>3 DEF LabInv
<1>2. LabInv /\ [L!Next]_(L!vars) => LabInv'
  <2>1. LabInv /\ UNCHANGED L!vars => LabInv'
    BY DEF L!vars, L!config, L!device, LabInv, LabTypes, ActiveInv, QuietInv
  <2> QED
    BY <2>1, LabCallerStep, LabBlockStep DEF L!Next
<1>3. LabInv => StreamIsCurrent
  <2> SUFFICES ASSUME LabInv PROVE L!StreamIsCurrent
    BY DEF StreamIsCurrent
  <2>1. ~lSpoiled /\ lActive /\ lCb # "put" => L!InOrder
    <3>1. DOMAIN lQueue = 1..Len(lQueue)
      BY DEF LabInv, LabTypes
    <3>2. ~lSpoiled /\ lActive /\ lCb # "put" => UpTo(lQueue, lStream, lTaken)
      BY DEF LabInv, QuietInv
    <3> QED
      BY <3>1, <3>2 DEF UpTo, L!InOrder
  <2>2. lCb = "read" => lStreaming
    BY DEF LabInv, ActiveInv
  <2>3. ~lSpoiled => /\ lFetch = "stamp" => lBlock[1] = lStream /\ lStamper \in {0, lStream}
                     /\ lStamper # 0 => lStamper = lStream
    BY DEF LabInv, QuietInv
  <2> QED
    BY <2>1, <2>2, <2>3 DEF L!StreamIsCurrent
<1> QED
  BY <1>1, <1>2, <1>3, PTL DEF L!Spec

-----------------------------------------------------------------------------
(* SdrStream: the invariant *)

\* A block has a sample, and depths and clocks are numbers.
SdrConstants == BlockLengths \subseteq Nat \ {0} /\ Depth \in Nat /\ MaxNow \in Nat

Spans == [first : Nat, stamp : Nat, length : Nat]

SdrTypes ==
  /\ dNow \in Nat \ {0} /\ dNext \in Nat \ {0} /\ dDue \in Nat \ {0} /\ dDue <= dNext
  /\ dLast \in Nat /\ dChain \in Nat /\ dBlock \in Spans /\ dBefore \in Spans

\* The timeline has come to the end of the last block; while nothing but
\* losses followed that block, the sample due is the one after it.
TimelineInv ==
  /\ dLast = 0 => dBlock = D!NoBlock /\ dChain = 0
  /\ dLast # 0 => dLast = dBlock.stamp + dBlock.length - 1
  /\ dChain # 0 => dDue = dBlock.first + dBlock.length

SdrInv == SdrTypes /\ TimelineInv /\ D!OneTimeline

\* Where the next block is put on the timeline.
LEMMA StampedAfter ==
  ASSUME NEW now \in Nat, NEW last \in Nat, NEW first \in Nat \ {0}, NEW n \in Nat \ {0}, NEW lost \in Nat,
         NEW t0 \in Int, first + n - 1 <= now,
         t0 = IF last = 0 THEN (now + 1) - n
              ELSE IF (now + 1) - n >= last + lost + 1 THEN (now + 1) - n ELSE last + lost + 1
  PROVE  t0 \in Nat \ {0} /\ t0 + n - 1 \in Nat \ {0} /\ (last # 0 => t0 >= last + lost + 1)
OBVIOUS

LEMMA StampStep ==
  ASSUME SdrInv, NEW first \in Nat \ {0}, NEW n \in Nat \ {0}, NEW lost \in Nat,
         first + n - 1 <= dNow, D!Stamp(first, n, lost)
  PROVE  /\ dLast' \in Nat \ {0} /\ dBlock' \in Spans /\ dBefore' = dBlock
         /\ dBlock'.first = first /\ dBlock'.length = n /\ dLast' = dBlock'.stamp + n - 1
         /\ dBlock # D!NoBlock => dBlock'.stamp >= dBlock.stamp + dBlock.length + lost
<1>1. /\ dNow \in Nat /\ dLast \in Nat /\ dBlock \in Spans
      /\ dLast = 0 => dBlock = D!NoBlock
      /\ dLast # 0 => dLast = dBlock.stamp + dBlock.length - 1
  BY DEF SdrInv, SdrTypes, TimelineInv
<1>2. PICK t0 : t0 = IF dLast = 0 THEN (dNow + 1) - n
                     ELSE IF (dNow + 1) - n >= dLast + lost + 1 THEN (dNow + 1) - n ELSE dLast + lost + 1
  OBVIOUS
<1>3. t0 \in Int
  BY <1>1, <1>2
<1>4. /\ dLast' = t0 + n - 1 /\ dBefore' = dBlock
      /\ dBlock' = [first |-> first, stamp |-> t0, length |-> n]
  BY <1>2 DEF D!Stamp, D!Latest, D!Continued
<1>5. t0 \in Nat \ {0} /\ t0 + n - 1 \in Nat \ {0} /\ (dLast # 0 => t0 >= dLast + lost + 1)
  BY <1>1, <1>2, <1>3, StampedAfter
<1>6. dBlock' \in Spans /\ dBlock'.first = first /\ dBlock'.length = n /\ dBlock'.stamp = t0
  BY <1>4, <1>5 DEF Spans
<1>7. ASSUME dBlock # D!NoBlock PROVE t0 >= dBlock.stamp + dBlock.length + lost
  <2>1. PICK s \in Nat, l \in Nat : s = dBlock.stamp /\ l = dBlock.length
    BY <1>1 DEF Spans
  <2>2. dLast # 0 /\ dLast = s + l - 1 /\ t0 >= dLast + lost + 1
    BY <1>1, <1>5, <1>7, <2>1
  <2>3. t0 >= s + l + lost
    BY <1>5, <2>2
  <2> QED
    BY <2>1, <2>3
<1> QED
  BY <1>4, <1>5, <1>6, <1>7

\* A block of the stream.
LEMMA FetchKeeps ==
  ASSUME SdrConstants, SdrInv, NEW n \in BlockLengths, D!FetchBlock(n)
  PROVE  SdrInv'
<1>1. /\ n \in Nat \ {0} /\ dNext \in Nat \ {0} /\ dDue \in Nat \ {0} /\ dNow \in Nat \ {0} /\ dNext - dDue \in Nat
      /\ dChain \in Nat /\ dBlock \in Spans
  BY DEF SdrConstants, SdrInv, SdrTypes
<1>2. /\ dNext + n - 1 <= dNow /\ dNext' = dNext + n /\ dDue' = dNext + n
      /\ D!Stamp(dNext, n, dNext - dDue) /\ dChain' = IF dChain = 0 THEN 1 ELSE 2
      /\ UNCHANGED <<dNow, dFlowing, dStreams, dStale>>
  BY DEF D!FetchBlock, D!radio, D!control
<1>3. /\ dLast' \in Nat \ {0} /\ dBlock' \in Spans /\ dBefore' = dBlock
      /\ dBlock'.first = dNext /\ dBlock'.length = n /\ dLast' = dBlock'.stamp + n - 1
      /\ dBlock # D!NoBlock => dBlock'.stamp >= dBlock.stamp + dBlock.length + (dNext - dDue)
  BY <1>1, <1>2, StampStep
<1>4. SdrTypes'
  BY <1>1, <1>2, <1>3 DEF SdrTypes
<1>5. TimelineInv'
  BY <1>1, <1>2, <1>3 DEF TimelineInv
<1>6. PICK s \in Nat, l \in Nat, f \in Nat, t \in Nat, d \in Nat :
        /\ s = dBlock.stamp /\ l = dBlock.length /\ f = dBlock.first /\ t = dBlock'.stamp /\ d = dNext - dDue
  BY <1>1, <1>3 DEF Spans
<1>7. D!OneTimeline'
  <2>1. ASSUME dBlock # D!NoBlock PROVE t >= s + l + d /\ t >= s + l
    <3>1. t >= s + l + d
      BY <1>3, <1>6, <2>1
    <3> QED
      BY <3>1
  <2>2. ASSUME dBlock # D!NoBlock, dChain' = 2 PROVE t - s >= dNext - f
    <3>1. dDue = f + l
      BY <1>2, <1>6, <2>2 DEF SdrInv, TimelineInv
    <3>2. d = dNext - (f + l) /\ t >= s + l + d
      BY <1>6, <2>1, <2>2, <3>1
    <3> QED
      BY <1>1, <3>2
  <2>3. dStale' \/ dStreams' \subseteq dFlowing'
    BY <1>2 DEF SdrInv, D!OneTimeline
  <2> QED
    BY <1>3, <1>6, <2>1, <2>2, <2>3 DEF D!OneTimeline
<1> QED
  BY <1>4, <1>5, <1>7 DEF SdrInv

\* A block that is read past InstroSDR's stream.
LEMMA DirectKeeps ==
  ASSUME SdrConstants, SdrInv, NEW n \in BlockLengths, NEW first \in 1..MaxNow, D!Direct(n, first)
  PROVE  SdrInv'
<1>1. /\ n \in Nat \ {0} /\ first \in Nat \ {0} /\ dNow \in Nat \ {0} /\ 0 \in Nat
      /\ dBlock \in Spans
  BY DEF SdrConstants, SdrInv, SdrTypes
<1>2. /\ first + n - 1 <= dNow /\ dNext' = first + n /\ dDue' = first + n
      /\ D!Stamp(first, n, 0) /\ dChain' = 0
      /\ UNCHANGED <<dNow, dFlowing, dStreams, dStale>>
  BY DEF D!Direct, D!radio, D!control
<1>3. /\ dLast' \in Nat \ {0} /\ dBlock' \in Spans /\ dBefore' = dBlock
      /\ dBlock'.length = n /\ dLast' = dBlock'.stamp + n - 1
      /\ dBlock # D!NoBlock => dBlock'.stamp >= dBlock.stamp + dBlock.length + 0
  BY <1>1, <1>2, StampStep
<1>4. SdrTypes'
  BY <1>1, <1>2, <1>3 DEF SdrTypes
<1>5. TimelineInv'
  BY <1>1, <1>2, <1>3 DEF TimelineInv
<1>6. D!OneTimeline'
  <2>1. dBlock.stamp + dBlock.length + 0 = dBlock.stamp + dBlock.length
    BY <1>1 DEF Spans
  <2>2. dStale' \/ dStreams' \subseteq dFlowing'
    BY <1>2 DEF SdrInv, D!OneTimeline
  <2> QED
    BY <1>2, <1>3, <2>1, <2>2 DEF D!OneTimeline
<1> QED
  BY <1>4, <1>5, <1>6 DEF SdrInv

\* The steps that stamp no block: what they change of the streams, and of the
\* samples, keeps the timeline.
LEMMA UnstampedKeeps ==
  ASSUME SdrConstants, SdrInv, UNCHANGED <<dLast, dBlock, dBefore>>,
         dNow' \in Nat \ {0}, dNext' \in Nat \ {0}, dDue' \in Nat \ {0}, dDue' <= dNext',
         dStale' \/ dStreams' \subseteq dFlowing',
         dChain' = 0 \/ UNCHANGED <<dDue, dChain>>
  PROVE  SdrInv'
<1>1. SdrTypes'
  BY DEF SdrInv, SdrTypes
<1>2. TimelineInv'
  BY DEF SdrInv, TimelineInv
<1>3. D!OneTimeline'
  BY DEF SdrInv, D!OneTimeline
<1> QED
  BY <1>1, <1>2, <1>3 DEF SdrInv

\* The controlling thread.
LEMMA ControlKeeps ==
  ASSUME SdrConstants, SdrInv,
         \/ D!Open
         \/ \E d \in D!Directions, background \in BOOLEAN : D!Start(d, background)
         \/ D!StartDaemon \/ (\E path \in {"stop", "close"} : D!Stop(path))
         \/ (\E d \in D!Directions : D!StopStream(d)) \/ D!Stopped \/ D!Release
  PROVE  SdrInv'
<1>1. /\ dNow \in Nat \ {0} /\ dNext \in Nat \ {0} /\ dDue \in Nat \ {0} /\ dDue <= dNext
      /\ dStale \/ dStreams \subseteq dFlowing
  BY DEF SdrInv, SdrTypes, D!OneTimeline
<1> USE DEF D!radio, D!control, D!stamping
<1>2. CASE D!Open
  BY <1>1, <1>2, UnstampedKeeps DEF D!Open
<1>3. ASSUME NEW d \in D!Directions, NEW background \in BOOLEAN, D!Start(d, background) PROVE SdrInv'
  <2>1. dNow + 1 \in Nat \ {0} /\ dNow + 1 <= dNow + 1
    BY <1>1
  <2>2. /\ \/ dNext' = dNow + 1 /\ dDue' = dNow + 1 /\ dChain' = 0
           \/ UNCHANGED <<dNext, dDue, dChain>>
        /\ dFlowing' = dFlowing \cup {d} /\ dStreams' = dStreams \cup {d}
        /\ UNCHANGED <<dNow, dStale, dLast, dBlock, dBefore>>
    BY <1>3 DEF D!Start
  <2>3. dStale' \/ dStreams' \subseteq dFlowing'
    BY <1>1, <2>2
  <2>4. dNow' \in Nat \ {0} /\ dNext' \in Nat \ {0} /\ dDue' \in Nat \ {0} /\ dDue' <= dNext'
    BY <1>1, <2>1, <2>2
  <2>5. dChain' = 0 \/ UNCHANGED <<dDue, dChain>>
    BY <2>2
  <2> QED
    BY <2>2, <2>3, <2>4, <2>5, UnstampedKeeps
<1>4. CASE D!StartDaemon
  BY <1>1, <1>4, UnstampedKeeps DEF D!StartDaemon
<1>5. ASSUME NEW path \in {"stop", "close"}, D!Stop(path) PROVE SdrInv'
  BY <1>1, <1>5, UnstampedKeeps DEF D!Stop
<1>6. ASSUME NEW d \in D!Directions, D!StopStream(d) PROVE SdrInv'
  <2>1. /\ dStreams' = dStreams \ {d} /\ dFlowing' \in {dFlowing, dFlowing \ {d}}
        /\ UNCHANGED <<dNow, dStale, dNext, dDue, dLast, dBlock, dBefore, dChain>>
    BY <1>6 DEF D!StopStream
  <2>2. dStale' \/ dStreams' \subseteq dFlowing'
    BY <1>1, <2>1
  <2> QED
    BY <1>1, <2>1, <2>2, UnstampedKeeps
<1>7. CASE D!Stopped
  BY <1>1, <1>7, UnstampedKeeps DEF D!Stopped
<1>8. CASE D!Release
  <2>1. /\ dStale' = (dStale \/ dStreams # {})
        /\ UNCHANGED <<dNow, dStreams, dNext, dDue, dLast, dBlock, dBefore, dChain>>
    BY <1>8 DEF D!Release
  <2>2. dStale' \/ dStreams' \subseteq dFlowing'
    BY <2>1
  <2> QED
    BY <1>1, <2>1, <2>2, UnstampedKeeps
<1> QED
  BY <1>2, <1>3, <1>4, <1>5, <1>6, <1>7, <1>8

\* Time passes, and a read that raises has consumed a block.
LEMMA SampleKeeps ==
  ASSUME SdrConstants, SdrInv, D!Tick \/ \E n \in BlockLengths : D!RoutedInVain(n)
  PROVE  SdrInv'
<1>1. /\ dNow \in Nat \ {0} /\ dNext \in Nat \ {0} /\ dDue \in Nat \ {0} /\ dDue <= dNext
      /\ dStale \/ dStreams \subseteq dFlowing
  BY DEF SdrInv, SdrTypes, D!OneTimeline
<1> USE DEF D!radio, D!control, D!stamping
<1>2. CASE D!Tick
  <2>1. /\ dNow' = dNow + 1 /\ dNext' \in {dNext, dNext + 1}
        /\ UNCHANGED <<dStale, dFlowing, dStreams, dDue, dLast, dBlock, dBefore, dChain>>
    BY <1>2 DEF D!Tick
  <2>2. dNow' \in Nat \ {0} /\ dNext' \in Nat \ {0} /\ dDue' \in Nat \ {0} /\ dDue' <= dNext'
    BY <1>1, <2>1
  <2> QED
    BY <1>1, <2>1, <2>2, UnstampedKeeps
<1>3. ASSUME NEW n \in BlockLengths, D!RoutedInVain(n) PROVE SdrInv'
  <2>1. /\ dNext' = dNext + n /\ dDue' = dNext + n /\ dChain' = 0
        /\ UNCHANGED <<dNow, dStale, dFlowing, dStreams, dLast, dBlock, dBefore>>
    BY <1>3 DEF D!RoutedInVain
  <2>2. dNow' \in Nat \ {0} /\ dNext' \in Nat \ {0} /\ dDue' \in Nat \ {0} /\ dDue' <= dNext'
    BY <1>1, <2>1 DEF SdrConstants
  <2> QED
    BY <1>1, <2>1, <2>2, UnstampedKeeps
<1> QED
  BY <1>2, <1>3

-----------------------------------------------------------------------------
(* SdrStream: the theorem *)

\* Whoever reads blocks, from a stream or straight from the radio, however
\* late and with whatever losses, no block begins on the timeline before the
\* one before it has ended, and a loss keeps its width; and no read is routed to
\* a stream the radio has ended, unless close() left one listed.
THEOREM BlocksOnOneTimeline ==
  ASSUME SdrConstants
  PROVE  D!Spec => []OneTimeline
<1>1. D!Init => SdrInv
  BY DEF D!Init, SdrInv, SdrTypes, TimelineInv, Spans, D!NoBlock, D!OneTimeline
<1>2. SdrInv /\ [D!Next]_(D!vars) => SdrInv'
  <2> SUFFICES ASSUME SdrInv, [D!Next]_(D!vars) PROVE SdrInv'
    OBVIOUS
  <2>1. CASE UNCHANGED D!vars
    BY <2>1 DEF D!vars, D!radio, D!control, D!stamping, SdrInv, SdrTypes, TimelineInv, D!OneTimeline
  <2>2. ASSUME NEW n \in BlockLengths, D!Fetch(n) PROVE SdrInv'
    BY <2>2, FetchKeeps DEF D!Fetch
  <2>3. ASSUME NEW n \in BlockLengths, NEW first \in 1..MaxNow, D!Direct(n, first) PROVE SdrInv'
    BY <2>3, DirectKeeps
  <2> QED
    BY <2>1, <2>2, <2>3, ControlKeeps, SampleKeeps DEF D!Next
<1>3. SdrInv => OneTimeline
  BY DEF SdrInv, OneTimeline
<1> QED
  BY <1>1, <1>2, <1>3, PTL DEF D!Spec

-----------------------------------------------------------------------------
(* MccScan: arithmetic *)

LEMMA DivisionIs ==
  ASSUME NEW n \in Nat \ {0}, NEW a \in Int
  PROVE  a \div n \in Int /\ a % n \in 0..(n - 1) /\ a = n * (a \div n) + (a % n)
OBVIOUS

LEMMA OneRemainder ==
  ASSUME NEW n \in Nat \ {0}, NEW p \in Int, NEW q \in Int, NEW r \in 0..(n - 1), NEW s \in 0..(n - 1),
         n * p + r = n * q + s
  PROVE  p = q /\ r = s
<1>1. n * (p - q) = s - r
  OBVIOUS
<1>2. CASE p - q >= 1
  <2>1. n * (p - q) >= n
    BY <1>2
  <2> QED
    BY <2>1, <1>1
<1>3. CASE p - q <= -1
  <2>1. n * (p - q) <= -n
    BY <1>3
  <2> QED
    BY <2>1, <1>1
<1>4. CASE p = q
  BY <1>4
<1> QED
  BY <1>2, <1>3, <1>4

LEMMA RemainderIs ==
  ASSUME NEW n \in Nat \ {0}, NEW a \in Int, NEW q \in Int, NEW r \in 0..(n - 1), a = n * q + r
  PROVE  a % n = r
<1> DEFINE d == a \div n
           m == a % n
<1>1. d \in Int /\ m \in 0..(n - 1) /\ a = n * d + m
  BY DivisionIs
<1> HIDE DEF d, m
<1>2. m = r
  BY <1>1, OneRemainder
<1> QED
  BY <1>2 DEF m

\* The number of the sample that lies where number b belongs, when c is the
\* newest and less than a round ahead.
LEMMA LastInCell ==
  ASSUME NEW n \in Nat \ {0}, NEW c \in Int, NEW b \in Int, b <= c, c - b < n
  PROVE  c - ((c - (b % n)) % n) = b
<1> DEFINE k == b \div n
           s == b % n
<1>1. k \in Int /\ s \in 0..(n - 1) /\ b = n * k + s
  BY DivisionIs
<1> HIDE DEF k, s
<1>2. c - s = n * k + (c - b) /\ c - s \in Int /\ c - b \in 0..(n - 1)
  BY <1>1
<1>3. (c - s) % n = c - b
  BY <1>1, <1>2, RemainderIs
<1> QED
  BY <1>3 DEF s

\* A counter that was looked at less than a round ago has wrapped just if it
\* went down.
LEMMA Unwrapped ==
  ASSUME NEW n \in Nat \ {0}, NEW p \in Int, NEW c \in Int, p <= c, c - p < n
  PROVE  c - p = (c % n) - (p % n) + (IF c % n < p % n THEN n ELSE 0)
<1> DEFINE k == p \div n
           s == p % n
<1>1. k \in Int /\ s \in 0..(n - 1) /\ p = n * k + s
  BY DivisionIs
<1> HIDE DEF k, s
<1>2. CASE s + (c - p) < n
  <2>1. c = n * k + (s + (c - p)) /\ s + (c - p) \in 0..(n - 1)
    BY <1>1, <1>2
  <2>2. c % n = s + (c - p)
    BY <2>1, <1>1, RemainderIs
  <2> QED
    BY <2>2, <1>1 DEF s
<1>3. CASE s + (c - p) >= n
  <2>1. n * (k + 1) = n * k + n
    BY <1>1
  <2>2. c = n * (k + 1) + (s + (c - p) - n) /\ s + (c - p) - n \in 0..(n - 1) /\ k + 1 \in Int
    BY <1>1, <1>3, <2>1
  <2>3. c % n = s + (c - p) - n
    BY <2>2, RemainderIs
  <2>4. c % n < s /\ c - p = (c % n) - s + n
    BY <2>3, <1>1
  <2> QED
    BY <2>4 DEF s
<1> QED
  BY <1>1, <1>2, <1>3

\* Whole scans further on a whole scan begins.
LEMMA ScansOn ==
  ASSUME NEW n \in Nat \ {0}, NEW a \in Nat, NEW k \in Nat, a % n = 0
  PROVE  n * k \in Nat /\ (a + n * k) % n = 0
<1> DEFINE d == a \div n
<1>1. d \in Int /\ a = n * d
  BY DivisionIs
<1> HIDE DEF d
<1>2. n * k \in Nat /\ a + n * k = n * (d + k) + 0 /\ d + k \in Int
  BY <1>1
<1>3. (a + n * k) % n = 0
  BY <1>2, RemainderIs
<1> QED
  BY <1>2, <1>3

\* The next whole scan.
LEMMA NextScan ==
  ASSUME NEW n \in Nat \ {0}, NEW a \in Nat
  PROVE  a % n # 0 => (a + n - (a % n)) \in Nat /\ a + n - (a % n) >= a /\ (a + n - (a % n)) % n = 0
<1> DEFINE d == a \div n
           m == a % n
<1>1. d \in Int /\ m \in 0..(n - 1) /\ a = n * d + m
  BY DivisionIs
<1> HIDE DEF d, m
<1>2. a + n - m = n * (d + 1) + 0 /\ a + n - m \in Nat /\ a + n - m >= a /\ d + 1 \in Int
  BY <1>1
<1>3. \A x \in Int : x = n * (d + 1) + 0 => x % n = 0
  BY <1>1, RemainderIs
<1>4. (a + n - m) % n = 0
  BY <1>2, <1>3
<1> QED
  BY <1>2, <1>4 DEF m

-----------------------------------------------------------------------------
(* MccScan: the invariant *)

\* A scan list has as many slots as its inputs need, and at least one.
EngineInv ==
  /\ mInputs \in Seq(Inputs) /\ Len(mInputs) <= MaxInputs
  /\ ~M!Idle => M!Width \in Nat \ {0}
  /\ mAt # "idle" => ~M!Idle

\* The driver's count is the device's at the last look, which is less than a
\* round of the counter ago.
CounterInv ==
  /\ mCount \in Nat /\ mPolled \in Nat /\ mPrev \in Nat /\ mOffset \in Nat
  /\ mPrev = mPolled % Wrap /\ mPrev + mOffset = mPolled
  /\ ~M!Idle => mPolled <= mCount /\ mCount - mPolled < Wrap

\* A window begins with a whole scan; what has been copied of it is what was
\* sampled for it, unless the device has come round since.
CopyInv ==
  /\ mConsumed \in Nat /\ mSnapshot \in Seq(Int)
  /\ ~M!Idle => mConsumed % M!Width = 0
  /\ mAt # "copy" => mSnapshot = <<>>
  /\ mAt = "copy" =>
       /\ Len(mSnapshot) <= M!FetchSize /\ mConsumed + M!FetchSize <= mCount
       /\ mCount <= mConsumed + M!Size =>
            \A i \in 1..Len(mSnapshot) : mSnapshot[i] = mConsumed + i - 1

MccInv == EngineInv /\ CounterInv /\ CopyInv

\* What the second look lets through.
SnapshotIsWhole ==
  mAt = "copy" /\ Len(mSnapshot) = M!FetchSize /\ ~M!Overwritten =>
    /\ mConsumed % M!Width = 0
    /\ \A i \in 1..M!FetchSize : mSnapshot[i] = mConsumed + i - 1

LEMMA MccSizes ==
  ASSUME MccInv, ~M!Idle
  PROVE  /\ M!Width \in Nat \ {0} /\ M!FetchSize \in Nat \ {0} /\ M!Size \in Nat \ {0}
         /\ M!FetchSize = M!Width * PerChannel /\ M!FetchSize <= M!Size
<1>1. \A a, b \in Nat \ {0} : a * b \in Nat \ {0} /\ a <= a * b
  <2> SUFFICES ASSUME NEW a \in Nat \ {0}, NEW b \in Nat \ {0} PROVE a * b \in Nat \ {0} /\ a <= a * b
    OBVIOUS
  <2>1. a * (b - 1) \in Nat /\ a * b = a * (b - 1) + a
    OBVIOUS
  <2> QED
    BY <2>1
<1>2. M!Width \in Nat \ {0}
  BY DEF MccInv, EngineInv
<1>3. M!FetchSize \in Nat \ {0}
  BY <1>1, <1>2, ScanAssumption DEF ScanAssumption, M!FetchSize
<1> QED
  BY <1>1, <1>2, <1>3, ScanAssumption DEF ScanAssumption, M!FetchSize, M!Size

\* The count the driver makes of the counter is the device's.
LEMMA CountsAll ==
  ASSUME MccInv, ~M!Idle
  PROVE  M!Accumulated = mCount
<1>1. Wrap \in Nat \ {0}
  BY ScanAssumption DEF ScanAssumption
<1>2. /\ mCount \in Nat /\ mPolled \in Nat /\ mPrev \in Nat /\ mOffset \in Nat
      /\ mPrev = mPolled % Wrap /\ mPrev + mOffset = mPolled
      /\ mPolled <= mCount /\ mCount - mPolled < Wrap
  BY DEF MccInv, CounterInv
<1>3. mCount - mPolled = (mCount % Wrap) - mPrev + (IF mCount % Wrap < mPrev THEN Wrap ELSE 0)
  <2>1. mCount - mPolled = (mCount % Wrap) - (mPolled % Wrap)
                           + (IF mCount % Wrap < mPolled % Wrap THEN Wrap ELSE 0)
    <3>1. mPolled \in Int /\ mCount \in Int /\ mPolled <= mCount /\ mCount - mPolled < Wrap
      BY <1>2
    <3> QED
      BY ONLY <1>1, <3>1, Unwrapped
  <2> QED
    BY <2>1, <1>2
<1>4. mCount % Wrap \in Nat
  BY <1>1, <1>2, DivisionIs
<1> QED
  BY <1>1, <1>2, <1>3, <1>4 DEF M!Accumulated, M!Raw

LEMMA LookKeeps ==
  ASSUME MccInv, ~M!Idle, M!Look, UNCHANGED <<mCount, mEngine>>
  PROVE  CounterInv'
<1>1. M!Accumulated = mCount
  BY CountsAll
<1>2. Wrap \in Nat \ {0} /\ mCount \in Nat /\ mOffset \in Nat
  BY ScanAssumption DEF ScanAssumption, MccInv, CounterInv
<1>3. mCount % Wrap \in 0..(Wrap - 1)
  BY <1>2, DivisionIs
<1>4. mPolled' = mCount /\ mPrev' = mCount % Wrap /\ mPrev' + mOffset' = mCount /\ mOffset' \in Nat
  BY <1>1, <1>2, <1>3 DEF M!Look, M!Accumulated, M!Raw
<1>5. mCount' = mCount /\ mPrev' = mPolled' % Wrap /\ mPrev' \in Nat /\ mCount - mPolled' = 0
  BY <1>2, <1>3, <1>4
<1>6. mPolled' <= mCount' /\ mCount' - mPolled' < Wrap
  BY <1>2, <1>4, <1>5
<1> QED
  BY <1>2, <1>4, <1>5, <1>6 DEF CounterInv

\* The scan begins and ends, and is configured in between.
LEMMA MccSetUp ==
  ASSUME MccInv,
         \/ M!Open \/ (M!Joined /\ M!Close) \/ (\E c \in Inputs : M!Configure(c)) \/ M!ConfigureTiming
         \/ M!Start \/ (M!Joined /\ M!Stop)
  PROVE  MccInv'
<1> USE DEF MccInv
<1>1. CASE M!Open \/ M!ConfigureTiming
  BY <1>1 DEF M!Open, M!ConfigureTiming, EngineInv, CounterInv, CopyInv, M!device, M!tracking, M!Idle, M!Width,
              M!FetchSize, M!Size
<1>2. CASE M!Joined /\ (M!Close \/ M!Stop)
  <2>1. mAt = "idle" /\ mAt' = mAt /\ mEngine' = M!NoEngine
        /\ UNCHANGED <<mInputs, mCount, mPolled, mPrev, mOffset, mConsumed, mSnapshot>>
    BY <1>2 DEF M!Joined, M!Close, M!Stop, M!EndScan, M!config, M!tracking
  <2> QED
    BY <2>1 DEF EngineInv, CounterInv, CopyInv, M!Idle
<1>3. ASSUME NEW c \in Inputs, M!Configure(c) PROVE MccInv'
  <2>1. mAt = "idle" /\ M!Idle /\ UNCHANGED <<mEngine, mAt, mCount, mPolled, mPrev, mOffset, mConsumed, mSnapshot>>
    BY <1>3 DEF M!Configure, M!device, M!tracking, EngineInv
  <2>2. mInputs' \in Seq(Inputs) /\ Len(mInputs') <= MaxInputs
    BY <1>3, ScanAssumption DEF M!Configure, ScanAssumption, EngineInv
  <2> QED
    BY <2>1, <2>2 DEF EngineInv, CounterInv, CopyInv, M!Idle
<1>4. CASE M!Start
  <2>1. /\ mAt = "idle" /\ M!Idle /\ UNCHANGED <<mAt, mInputs, mSnapshot>>
        /\ mPolled' = 0 /\ mPrev' = 0 /\ mOffset' = 0 /\ mConsumed' = 0
    BY <1>4 DEF M!Start, M!config, EngineInv
  <2>2. 0 % Wrap = 0 /\ \A n \in Nat \ {0} : 0 % n = 0
    BY ScanAssumption DEF ScanAssumption
  <2>3. CASE mInputs # <<>> /\ mEngine' = M!Lists(mInputs) /\ mCount' = 0
    <3>1. Len(mInputs) \in 1..MaxInputs /\ mInputs \in [1..Len(mInputs) -> Inputs]
      BY <2>3, ScanAssumption DEF ScanAssumption, EngineInv
    <3>2. M!Lists(mInputs) \in {M!DaqInLists(mInputs), M!AInLists(mInputs)}
      BY DEF M!Lists
    <3>3. Len(M!Lists(mInputs).slots) \in Nat \ {0}
      BY <3>1, <3>2, ScanAssumption DEF ScanAssumption
    <3>4. M!Width' \in Nat \ {0}
      BY <3>3, <2>3 DEF M!Width
    <3>5. EngineInv'
      BY <2>1, <3>4 DEF EngineInv
    <3>6. CounterInv'
      BY <2>1, <2>2, <2>3, ScanAssumption DEF ScanAssumption, CounterInv
    <3>7. mConsumed' % M!Width' = 0
      BY <2>1, <2>2, <3>4
    <3>8. CopyInv'
      BY <2>1, <3>7 DEF CopyInv
    <3> QED
      BY <3>5, <3>6, <3>8
  <2>4. CASE UNCHANGED <<mEngine, mScanning, mCount>>
    BY <2>1, <2>2, <2>4, ScanAssumption DEF ScanAssumption, EngineInv, CounterInv, CopyInv, M!Idle
  <2> QED
    BY <1>4, <2>3, <2>4 DEF M!Start, M!device
<1> QED
  BY <1>1, <1>2, <1>3, <1>4

\* The device samples, or the scan ends by itself.
LEMMA MccDevice ==
  ASSUME MccInv, M!TakeSample \/ M!Die
  PROVE  MccInv'
<1>1. CASE M!TakeSample
  <2>1. /\ ~M!Idle /\ mCount' = mCount + 1 /\ mCount + 1 - mPolled < Wrap
        /\ UNCHANGED <<mInputs, mEngine, mAt, mPolled, mPrev, mOffset, mConsumed, mSnapshot>>
    BY <1>1 DEF M!TakeSample, M!config, M!tracking
  <2>2. mCount \in Nat /\ mConsumed \in Nat /\ M!Size \in Nat /\ M!FetchSize \in Nat
    BY <2>1, MccSizes DEF MccInv, CounterInv, CopyInv
  <2>3. EngineInv'
    BY <2>1 DEF MccInv, EngineInv, M!Idle, M!Width
  <2>4. CounterInv'
    BY <2>1, <2>2 DEF MccInv, CounterInv, M!Idle
  <2>5. M!Width' = M!Width /\ M!FetchSize' = M!FetchSize /\ M!Size' = M!Size
    BY <2>1 DEF M!Width, M!FetchSize, M!Size
  <2>6. CopyInv'
    BY <2>1, <2>2, <2>5 DEF MccInv, CopyInv, M!Idle
  <2> QED
    BY <2>3, <2>4, <2>6 DEF MccInv
<1>2. CASE M!Die
  BY <1>2 DEF M!Die, M!config, M!tracking, MccInv, EngineInv, CounterInv, CopyInv, M!Idle, M!Width, M!FetchSize, M!Size
<1> QED
  BY <1>1, <1>2

\* The step changes nothing of the scan, and looks at the counter or does not.
LEMMA ScanStays ==
  ASSUME MccInv, ~M!Idle, UNCHANGED <<mInputs, mEngine, mCount>>,
         M!Look \/ UNCHANGED <<mPolled, mPrev, mOffset>>
  PROVE  /\ EngineInv' /\ CounterInv'
         /\ M!Width' = M!Width /\ M!FetchSize' = M!FetchSize /\ M!Size' = M!Size /\ ~M!Idle'
<1>1. EngineInv'
  BY DEF MccInv, EngineInv, M!Idle, M!Width
<1>2. CounterInv'
  <2>1. CASE M!Look
    BY <2>1, LookKeeps
  <2>2. CASE UNCHANGED <<mPolled, mPrev, mOffset>>
    BY <2>2 DEF MccInv, CounterInv, M!Idle
  <2> QED
    BY <2>1, <2>2
<1> QED
  BY <1>1, <1>2 DEF M!Width, M!FetchSize, M!Size, M!Idle

LEMMA SkipIs ==
  ASSUME NEW oldest \in Nat, M!Width \in Nat \ {0}
  PROVE  M!SkipTo(oldest) \in Nat /\ M!SkipTo(oldest) >= oldest /\ M!SkipTo(oldest) % M!Width = 0
<1>1. CASE oldest % M!Width = 0
  BY <1>1 DEF M!SkipTo
<1>2. CASE oldest % M!Width # 0
  BY <1>2, NextScan DEF M!SkipTo
<1> QED
  BY <1>1, <1>2

\* Each of the three outcomes of a look.
LEMMA MccPoll ==
  ASSUME MccInv, M!Poll
  PROVE  MccInv' /\ mConsumed' >= mConsumed
<1>1. /\ mAt = "poll" /\ M!Look
      /\ UNCHANGED <<mInputs, mEngine, mCount, mSnapshot>>
  BY DEF M!Poll, M!config, M!device
<1>2. ~M!Idle /\ mSnapshot = <<>> /\ mConsumed \in Nat /\ mConsumed % M!Width = 0 /\ mCount \in Nat
  BY <1>1 DEF MccInv, EngineInv, CopyInv, CounterInv
<1>3. M!Accumulated = mCount
  BY <1>2, CountsAll
<1>4. /\ M!Width \in Nat \ {0} /\ M!FetchSize \in Nat \ {0} /\ M!Size \in Nat \ {0}
  BY <1>2, MccSizes
<1>5. /\ EngineInv' /\ CounterInv'
      /\ M!Width' = M!Width /\ M!FetchSize' = M!FetchSize /\ M!Size' = M!Size /\ ~M!Idle'
  BY <1>1, <1>2, ScanStays
<1>6. CASE UNCHANGED <<mConsumed, mAt>>
  BY <1>1, <1>2, <1>5, <1>6 DEF MccInv, CopyInv
<1>7. CASE mCount > mConsumed + M!Size /\ mConsumed' = M!SkipTo(mCount - M!Size) /\ mAt' = mAt
  <2>1. mCount - M!Size \in Nat /\ mCount - M!Size > mConsumed
    BY <1>2, <1>4, <1>7
  <2>2. mConsumed' \in Nat /\ mConsumed' >= mConsumed /\ mConsumed' % M!Width = 0
    BY <1>2, <1>4, <1>7, <2>1, SkipIs
  <2> QED
    BY <1>1, <1>2, <1>5, <1>7, <2>2 DEF MccInv, CopyInv
<1>8. CASE mCount >= mConsumed + M!FetchSize /\ mAt' = "copy" /\ mConsumed' = mConsumed
  <2>1. CopyInv'
    BY <1>1, <1>2, <1>4, <1>5, <1>8 DEF CopyInv
  <2> QED
    BY <1>2, <1>5, <1>8, <2>1 DEF MccInv
<1> QED
  BY <1>2, <1>3, <1>4, <1>6, <1>7, <1>8 DEF M!Poll

\* A cell keeps its sample until the device has come round.
LEMMA CellIs ==
  ASSUME NEW b \in Nat, M!Size \in Nat \ {0}, mCount \in Nat, b < mCount
  PROVE  /\ M!InCell(b % M!Size) \in Int
         /\ mCount <= b + M!Size => M!InCell(b % M!Size) = b
<1> DEFINE n == M!Size
           c == mCount - 1
           s == b % n
           d == (c - s) % n
<1>1. n \in Nat \ {0} /\ c \in Int /\ b \in Int /\ b <= c
  OBVIOUS
<1>2. M!InCell(b % M!Size) = c - d
  BY DEF M!InCell
<1>3. mCount <= b + M!Size => c - b < n
  OBVIOUS
<1> HIDE DEF n, c
<1>4. s \in Int
  BY <1>1, DivisionIs
<1> HIDE DEF s
<1>5. c - s \in Int
  BY <1>1, <1>4
<1>6. d \in Int
  BY <1>1, <1>5, DivisionIs
<1>7. c - b < n => c - d = b
  BY <1>1, LastInCell DEF s
<1> HIDE DEF d
<1>8. c - d \in Int
  BY <1>1, <1>6
<1> QED
  BY <1>2, <1>3, <1>7, <1>8

\* One sample more of the window.
LEMMA MccCopy ==
  ASSUME MccInv, M!Copy
  PROVE  MccInv'
<1> DEFINE number == mConsumed + Len(mSnapshot)
<1>1. /\ mAt = "copy" /\ Len(mSnapshot) < M!FetchSize
      /\ mSnapshot' = Append(mSnapshot, M!InCell(number % M!Size))
      /\ UNCHANGED <<mInputs, mEngine, mCount, mPolled, mPrev, mOffset, mConsumed, mAt>>
  BY DEF M!Copy, M!config, M!device, M!tracking
<1>2. /\ ~M!Idle /\ mSnapshot \in Seq(Int) /\ mConsumed \in Nat /\ mConsumed % M!Width = 0 /\ mCount \in Nat
      /\ mConsumed + M!FetchSize <= mCount
      /\ mCount <= mConsumed + M!Size => \A i \in 1..Len(mSnapshot) : mSnapshot[i] = mConsumed + i - 1
  BY <1>1 DEF MccInv, EngineInv, CopyInv, CounterInv
<1>3. M!FetchSize \in Nat \ {0} /\ M!Size \in Nat \ {0}
  BY <1>2, MccSizes
<1>4. /\ EngineInv' /\ CounterInv'
      /\ M!Width' = M!Width /\ M!FetchSize' = M!FetchSize /\ M!Size' = M!Size /\ ~M!Idle'
  BY <1>1, <1>2, ScanStays
<1>5. number \in Nat /\ number < mCount
  <2>1. Len(mSnapshot) \in Nat /\ Len(mSnapshot) < M!FetchSize
    BY <1>1, <1>2
  <2>2. mConsumed \in Nat /\ mCount \in Nat /\ mConsumed + M!FetchSize <= mCount
    BY <1>2
  <2> QED
    BY ONLY <1>3, <2>1, <2>2
<1> DEFINE sample == M!InCell(number % M!Size)
<1>6. sample \in Int /\ (mCount <= number + M!Size => sample = number)
  BY <1>2, <1>3, <1>5, CellIs
<1>7. mSnapshot' = Append(mSnapshot, sample)
  BY <1>1
<1> HIDE DEF sample
<1>8. /\ mSnapshot' \in Seq(Int) /\ Len(mSnapshot') = Len(mSnapshot) + 1 /\ Len(mSnapshot) \in Nat
      /\ \A i \in 1..Len(mSnapshot) : mSnapshot'[i] = mSnapshot[i]
      /\ mSnapshot'[Len(mSnapshot) + 1] = sample
  BY <1>2, <1>6, <1>7
<1>9. ASSUME mCount <= mConsumed + M!Size, NEW i \in 1..Len(mSnapshot') PROVE mSnapshot'[i] = mConsumed + i - 1
  <2>1. CASE i <= Len(mSnapshot)
    BY <1>2, <1>8, <1>9, <2>1
  <2>2. CASE i = Len(mSnapshot) + 1
    <3>1. mCount <= number + M!Size
      BY <1>2, <1>3, <1>8, <1>9
    <3>2. number = mConsumed + i - 1
      BY <1>2, <1>8, <2>2
    <3> QED
      BY <1>6, <1>8, <2>2, <3>1, <3>2
  <2> QED
    BY <1>8, <1>9, <2>1, <2>2
<1>10. CopyInv'
  BY <1>1, <1>2, <1>3, <1>4, <1>8, <1>9 DEF CopyInv
<1> QED
  BY <1>4, <1>10 DEF MccInv

LEMMA MccCheck ==
  ASSUME MccInv, M!Check
  PROVE  MccInv' /\ mConsumed' >= mConsumed
<1>1. /\ mAt = "copy" /\ M!Look /\ mSnapshot' = <<>> /\ mAt' \in {"poll", "idle"}
      /\ UNCHANGED <<mInputs, mEngine, mCount>>
      /\ mConsumed' \in {mConsumed, mConsumed + M!FetchSize}
  BY DEF M!Check, M!config, M!device
<1>2. ~M!Idle /\ mConsumed \in Nat /\ mConsumed % M!Width = 0
  BY <1>1 DEF MccInv, EngineInv, CopyInv
<1>3. /\ M!Width \in Nat \ {0} /\ M!FetchSize \in Nat \ {0} /\ M!FetchSize = M!Width * PerChannel /\ PerChannel \in Nat
  BY <1>2, MccSizes, ScanAssumption DEF ScanAssumption
<1>4. /\ EngineInv' /\ CounterInv'
      /\ M!Width' = M!Width /\ M!FetchSize' = M!FetchSize /\ M!Size' = M!Size /\ ~M!Idle'
  BY <1>1, <1>2, ScanStays
<1>5. (mConsumed + M!FetchSize) % M!Width = 0
  BY <1>2, <1>3, ScansOn
<1>6. mConsumed' \in Nat /\ mConsumed' >= mConsumed /\ mConsumed' % M!Width = 0
  <2>1. CASE mConsumed' = mConsumed
    BY <1>2, <2>1
  <2>2. CASE mConsumed' = mConsumed + M!FetchSize
    <3>1. mConsumed' % M!Width = 0
      BY <1>5, <2>2
    <3>2. mConsumed' \in Nat /\ mConsumed' >= mConsumed
      BY ONLY <1>2, <1>3, <2>2
    <3> QED
      BY <3>1, <3>2
  <2> QED
    BY <1>1, <2>1, <2>2
<1>7. CopyInv'
  BY <1>1, <1>4, <1>6 DEF CopyInv
<1> QED
  BY <1>4, <1>6, <1>7 DEF MccInv

\* The call begins, or gives up.
LEMMA MccCalls ==
  ASSUME MccInv, M!Fetch \/ M!GiveUp
  PROVE  MccInv'
<1>1. /\ ~M!Idle /\ mAt' \in {"poll", "idle"} /\ mSnapshot' = <<>>
      /\ UNCHANGED <<mInputs, mEngine, mCount, mPolled, mPrev, mOffset, mConsumed>>
  BY DEF M!Fetch, M!GiveUp, M!config, M!device, M!tracking, MccInv, EngineInv, CopyInv
<1>2. /\ EngineInv' /\ CounterInv'
      /\ M!Width' = M!Width /\ M!FetchSize' = M!FetchSize /\ M!Size' = M!Size /\ ~M!Idle'
  BY <1>1, ScanStays
<1> QED
  BY <1>1, <1>2 DEF MccInv, CopyInv

LEMMA MccBegins == M!Init => MccInv
<1>1. 0 % Wrap = 0
  BY ScanAssumption DEF ScanAssumption
<1> QED
  BY <1>1, ScanAssumption DEF ScanAssumption, M!Init, M!Idle, MccInv, EngineInv, CounterInv, CopyInv

LEMMA MccInvariant == M!Spec => []MccInv
<1>1. M!Init => MccInv
  BY MccBegins
<1>2. MccInv /\ [M!Next]_(M!vars) => MccInv'
  <2>1. MccInv /\ UNCHANGED M!vars => MccInv'
    BY DEF M!vars, M!config, M!device, M!tracking, MccInv, EngineInv, CounterInv, CopyInv, M!Idle, M!Width,
           M!FetchSize, M!Size
  <2> QED
    BY <2>1, MccSetUp, MccDevice, MccPoll, MccCopy, MccCheck, MccCalls DEF M!Next
<1> QED
  BY <1>1, <1>2, PTL DEF M!Spec

LEMMA WholeSnapshot == MccInv => SnapshotIsWhole
<1> SUFFICES ASSUME MccInv, mAt = "copy", Len(mSnapshot) = M!FetchSize, ~M!Overwritten
             PROVE  /\ mConsumed % M!Width = 0
                    /\ \A i \in 1..M!FetchSize : mSnapshot[i] = mConsumed + i - 1
  BY DEF SnapshotIsWhole
<1>1. ~M!Idle
  BY DEF MccInv, EngineInv
<1>2. M!Accumulated = mCount /\ M!Size \in Nat /\ mCount \in Nat /\ mConsumed \in Nat
  BY <1>1, CountsAll, MccSizes DEF MccInv, CounterInv, CopyInv
<1>3. mCount <= mConsumed + M!Size
  BY <1>2 DEF M!Overwritten
<1> QED
  BY <1>1, <1>3 DEF MccInv, CopyInv

\* However far the device runs ahead and however often its counter wraps, a
\* window that passes the second look of fetch_analog() begins with a scan and
\* holds consecutive samples, without a tear.
THEOREM WindowHasNoTear == M!Spec => []SnapshotIsWhole
<1> QED
  BY WholeSnapshot, MccInvariant, PTL

\* Within a scan fetch_analog() never goes back to a sample it has handed out
\* or dropped.
THEOREM ScanGoesForward ==
  M!Spec => [][~M!Idle /\ mEngine' = mEngine => mConsumed' >= mConsumed]_(M!vars)
<1>1. MccInv /\ [M!Next]_(M!vars) => [~M!Idle /\ mEngine' = mEngine => mConsumed' >= mConsumed]_(M!vars)
  <2> SUFFICES ASSUME MccInv, M!Next, ~M!Idle
               PROVE  mConsumed' >= mConsumed
    OBVIOUS
  <2>1. CASE M!Poll \/ M!Check
    BY <2>1, MccPoll, MccCheck
  <2>2. CASE ~(M!Poll \/ M!Check)
    <3>1. mConsumed' = mConsumed
      BY <2>2 DEF M!Next, M!Joined, M!Open, M!Close, M!Configure, M!ConfigureTiming, M!Start, M!Stop, M!TakeSample, M!Die,
                  M!Fetch, M!Copy, M!GiveUp
    <3> QED
      BY <3>1 DEF MccInv, CopyInv
  <2> QED
    BY <2>1, <2>2
<1> QED
  BY <1>1, MccInvariant, PTL DEF M!Spec

-----------------------------------------------------------------------------
(* MccScan: the loop of convert() *)

LEMMA CountingUp ==
  ASSUME NEW n \in Nat, NEW T \in SUBSET Nat, 0 \in T, \A i \in T : i < n => i + 1 \in T
  PROVE  \A i \in 0..n : i \in T
<1> DEFINE Missed == {i \in 0..n : i \notin T}
<1>1. CASE Missed = {}
  BY <1>1
<1>2. CASE Missed # {}
  <2>1. Missed \in SUBSET Nat
    OBVIOUS
  <2>2. PICK i \in Missed : \A j \in Missed : ~(<<j, i>> \in OpToRel(<, Nat))
    BY <1>2, <2>1, WFMin, NatLessThanWellFounded, Zenon
  <2>3. \A j \in Missed : ~(j < i)
    <3>1. i \in Nat /\ \A j \in Missed : j \in Nat
      BY <2>1
    <3> QED
      BY <2>2, <3>1, Zenon DEF OpToRel
  <2>4. i \in 0..n /\ i \notin T /\ i # 0
    OBVIOUS
  <2>5. i - 1 \in 0..n /\ i - 1 < i /\ i - 1 < n /\ (i - 1) + 1 = i
    BY <2>4
  <2>6. i - 1 \in T
    BY <2>3, <2>5
  <2> QED
    BY <2>4, <2>5, <2>6
<1> QED
  BY <1>1, <1>2

SlotOf(slots, m) == slots[(m % Len(slots)) + 1]

\* The body of the loop: the i-th count of a snapshot comes to the values `s`.
Convert(lists, counts, s, i) ==
  IF M!IsCjc(SlotOf(lists.slots, i - 1)) THEN s
  ELSE Append(s, <<lists.aliases[(Len(s) % Len(lists.aliases)) + 1], counts[i]>>)

Runs(lists, counts, n, d) ==
  d = [i \in 0..n |-> IF i = 0 THEN <<>> ELSE Convert(lists, counts, d[i - 1], i)]

LEMMA LoopEnds ==
  ASSUME NEW lists, NEW counts, NEW n \in Nat
  PROVE  \E d : Runs(lists, counts, n, d)
<1> DEFINE T == {m \in Nat : \E d : Runs(lists, counts, m, d)}
<1>1. 0 \in T
  <2>1. PICK d : d = [i \in 0..0 |-> <<>>]
    OBVIOUS
  <2>2. Runs(lists, counts, 0, d)
    BY <2>1 DEF Runs
  <2> QED
    BY <2>2
<1>2. ASSUME NEW m \in T PROVE m + 1 \in T
  <2>1. PICK d : Runs(lists, counts, m, d)
    OBVIOUS
  <2>2. PICK last : last = Convert(lists, counts, d[m], m + 1)
    OBVIOUS
  <2>3. PICK e : e = [i \in 0..(m + 1) |-> IF i <= m THEN d[i] ELSE last]
    OBVIOUS
  <2>4. m \in Nat
    OBVIOUS
  <2>5. e[0] = <<>>
    BY <2>1, <2>3, <2>4 DEF Runs
  <2>6. ASSUME NEW i \in 1..(m + 1) PROVE e[i] = Convert(lists, counts, e[i - 1], i)
    <3>1. i - 1 \in 0..m /\ e[i - 1] = d[i - 1]
      BY <2>3, <2>4
    <3>2. CASE i <= m
      <4>1. d[i] = Convert(lists, counts, d[i - 1], i)
        BY <2>1, <2>4, <3>2 DEF Runs
      <4> QED
        BY <2>3, <2>4, <3>1, <3>2, <4>1
    <3>3. CASE i = m + 1
      <4>1. i - 1 = m /\ e[i] = last
        BY <2>3, <2>4, <3>3
      <4> QED
        BY <2>2, <3>1, <3>3, <4>1
    <3> QED
      BY <2>4, <3>2, <3>3
  <2>7. Runs(lists, counts, m + 1, e)
    <3>1. e = [i \in 0..(m + 1) |-> e[i]]
      BY <2>3
    <3>2. \A i \in 0..(m + 1) : e[i] = IF i = 0 THEN <<>> ELSE Convert(lists, counts, e[i - 1], i)
      BY <2>4, <2>5, <2>6
    <3> QED
      BY <3>1, <3>2, Zenon DEF Runs
  <2> QED
    BY <2>4, <2>7
<1>3. n \in T
  <2>1. T \in SUBSET Nat
    OBVIOUS
  <2> HIDE DEF T
  <2> QED
    BY <1>1, <1>2, <2>1, CountingUp
<1> QED
  BY <1>3

\* What the loop has made of the first i counts: the samples from c on that are
\* no cold junctions, in order, under the channels they were taken from.
Samples(lists, c, i) == {m \in c..(c + i - 1) : ~M!IsCjc(SlotOf(lists.slots, m))}

Filled(lists, c, i, s) ==
  /\ s \in Seq({lists.slots[k] : k \in 1..Len(lists.slots)} \X Int)
  /\ \A j \in 1..Len(s) : s[j][2] \in Samples(lists, c, i) /\ s[j][1] = SlotOf(lists.slots, s[j][2])
  /\ \A m \in Samples(lists, c, i) : \E j \in 1..Len(s) : s[j][2] = m
  /\ \A j \in 1..Len(s) : \A k \in 1..(j - 1) : s[k][2] < s[j][2]

\* The next value has the turn of the next slot.
Turns(lists, turn) ==
  /\ turn \in [0..Len(lists.slots) -> 0..Len(lists.aliases)]
  /\ turn[0] = 0 /\ turn[Len(lists.slots)] = Len(lists.aliases)
  /\ \A k \in 1..Len(lists.slots) :
        IF M!IsCjc(lists.slots[k]) THEN turn[k] = turn[k - 1]
        ELSE turn[k] = turn[k - 1] + 1 /\ lists.aliases[turn[k]] = lists.slots[k]

InTurn(lists, turn, i, s) ==
  \E p, k \in Nat : /\ k < Len(lists.slots) /\ i = Len(lists.slots) * p + k
                    /\ Len(s) = Len(lists.aliases) * p + turn[k]

Converts(lists, counts, turn, i, s) ==
  /\ M!IsCjc(SlotOf(lists.slots, i)) => Convert(lists, counts, s, i + 1) = s
  /\ ~M!IsCjc(SlotOf(lists.slots, i)) =>
        Convert(lists, counts, s, i + 1) = Append(s, <<SlotOf(lists.slots, i), counts[i + 1]>>)
  /\ \A t : Len(t) = Len(s) + (IF M!IsCjc(SlotOf(lists.slots, i)) THEN 0 ELSE 1)
             => InTurn(lists, turn, i + 1, t)

\* One count more: a cold junction is dropped, any other is appended under its
\* own channel.
LEMMA ConvertIs ==
  ASSUME NEW lists, NEW counts, NEW turn, Turns(lists, turn), NEW S, NEW s \in Seq(S), NEW i \in Nat,
         Len(lists.slots) \in Nat \ {0}, Len(lists.aliases) \in Nat \ {0}, InTurn(lists, turn, i, s)
  PROVE  Converts(lists, counts, turn, i, s)
<1>1. PICK W \in Nat \ {0}, A \in Nat \ {0} : W = Len(lists.slots) /\ A = Len(lists.aliases)
  OBVIOUS
<1>2. PICK l \in Nat : l = Len(s)
  BY LenProperties
<1>3. PICK p \in Nat, k \in Nat : k < W /\ i = W * p + k /\ l = A * p + turn[k]
  BY <1>1, <1>2 DEF InTurn
<1>4. /\ turn[k] \in 0..A /\ turn[k + 1] \in 0..A /\ turn[0] = 0 /\ turn[W] = A
      /\ IF M!IsCjc(lists.slots[k + 1]) THEN turn[k + 1] = turn[k]
         ELSE turn[k + 1] = turn[k] + 1 /\ lists.aliases[turn[k + 1]] = lists.slots[k + 1]
  <2>1. k \in 0..W /\ k + 1 \in 1..W /\ k + 1 \in 0..W /\ (k + 1) - 1 = k
    BY <1>3
  <2> QED
    BY <1>1, <2>1 DEF Turns
<1>5. SlotOf(lists.slots, i) = lists.slots[k + 1]
  <2>1. i % W = k
    <3>1. i \in Int /\ p \in Int /\ k \in 0..(W - 1)
      BY <1>3
    <3> QED
      BY <1>3, <3>1, RemainderIs
  <2> QED
    BY <1>1, <2>1 DEF SlotOf
<1>6. Convert(lists, counts, s, i + 1) =
        IF M!IsCjc(SlotOf(lists.slots, i)) THEN s ELSE Append(s, <<lists.aliases[(l % A) + 1], counts[i + 1]>>)
  <2>1. (i + 1) - 1 = i
    OBVIOUS
  <2> QED
    BY <1>1, <1>2, <2>1 DEF Convert
<1>7. ASSUME ~M!IsCjc(SlotOf(lists.slots, i)) PROVE lists.aliases[(l % A) + 1] = SlotOf(lists.slots, i)
  <2>1. turn[k + 1] = turn[k] + 1 /\ lists.aliases[turn[k] + 1] = lists.slots[k + 1]
    BY <1>4, <1>5, <1>7
  <2>2. turn[k] \in 0..(A - 1)
    BY <1>4, <2>1
  <2>3. l % A = turn[k]
    <3>1. l \in Int /\ p \in Int
      OBVIOUS
    <3> QED
      BY <1>3, <2>2, <3>1, RemainderIs
  <2> QED
    BY <1>5, <2>1, <2>3
<1>8. ASSUME NEW t, Len(t) = Len(s) + (IF M!IsCjc(SlotOf(lists.slots, i)) THEN 0 ELSE 1)
      PROVE  InTurn(lists, turn, i + 1, t)
  <2>1. Len(t) = A * p + turn[k + 1]
    <3>1. PICK g \in {0, 1} : g = IF M!IsCjc(SlotOf(lists.slots, i)) THEN 0 ELSE 1
      OBVIOUS
    <3>2. turn[k + 1] = turn[k] + g
      <4>1. turn[k] + 0 = turn[k]
        BY <1>4
      <4> QED
        BY <1>4, <1>5, <3>1, <4>1, Zenon
    <3>3. Len(t) = l + g
      BY <1>2, <1>8, <3>1, Zenon
    <3>4. PICK u \in Nat, x \in Nat : u = turn[k] /\ x = A * p
      BY <1>4
    <3>5. l = x + u
      BY <1>3, <3>4
    <3>6. Len(t) = x + (u + g)
      BY ONLY <3>1, <3>3, <3>4, <3>5
    <3> QED
      BY <3>2, <3>4, <3>6
  <2>2. CASE k + 1 < W
    <3>1. k + 1 \in Nat /\ i + 1 = W * p + (k + 1)
      BY <1>3
    <3> QED
      BY <1>1, <2>1, <2>2, <3>1 DEF InTurn
  <2>3. CASE k + 1 = W
    <3>1. p + 1 \in Nat /\ W * (p + 1) = W * p + W /\ A * (p + 1) = A * p + A
      OBVIOUS
    <3>2. i + 1 = W * (p + 1) + 0
      BY <1>3, <2>3, <3>1
    <3>3. Len(t) = A * (p + 1) + turn[0]
      BY <1>4, <2>1, <2>3, <3>1
    <3> QED
      BY <1>1, <3>1, <3>2, <3>3, 0 < W DEF InTurn
  <2> QED
    BY <1>3, <2>2, <2>3
<1> QED
  BY <1>6, <1>7, <1>8 DEF Converts

LEMMA SlotIs ==
  ASSUME NEW lists, NEW c \in Nat, NEW i \in Nat, Len(lists.slots) \in Nat \ {0}, c % Len(lists.slots) = 0
  PROVE  /\ SlotOf(lists.slots, c + i) = SlotOf(lists.slots, i)
         /\ SlotOf(lists.slots, i) \in {lists.slots[k] : k \in 1..Len(lists.slots)}
<1>1. PICK W \in Nat \ {0} : W = Len(lists.slots)
  OBVIOUS
<1>2. PICK q \in Int, p \in Int, r \in 0..(W - 1) : c = W * q + 0 /\ i = W * p + r /\ r = i % W
  <2> c \in Int /\ i \in Int
    OBVIOUS
  <2>1. c % W \in 0..(W - 1) /\ c = W * (c \div W) + (c % W) /\ c \div W \in Int
    BY DivisionIs
  <2>2. i % W \in 0..(W - 1) /\ i = W * (i \div W) + (i % W) /\ i \div W \in Int
    BY DivisionIs
  <2>3. c = W * (c \div W) + 0
    BY <1>1, <2>1
  <2> QED
    BY <2>1, <2>2, <2>3
<1>3. c + i = W * (q + p) + r /\ q + p \in Int /\ c + i \in Int
  BY <1>2
<1>4. (c + i) % W = r
  BY <1>3, RemainderIs
<1>5. r + 1 \in 1..W
  OBVIOUS
<1> QED
  BY <1>1, <1>2, <1>4, <1>5 DEF SlotOf

LEMMA SamplesOn ==
  ASSUME NEW lists, NEW c \in Nat, NEW i \in Nat
  PROVE  /\ M!IsCjc(SlotOf(lists.slots, c + i)) => Samples(lists, c, i + 1) = Samples(lists, c, i)
         /\ ~M!IsCjc(SlotOf(lists.slots, c + i)) => Samples(lists, c, i + 1) = Samples(lists, c, i) \cup {c + i}
<1>1. c..(c + (i + 1) - 1) = (c..(c + i - 1)) \cup {c + i}
  OBVIOUS
<1> QED
  BY <1>1 DEF Samples

LEMMA FilledOn ==
  ASSUME NEW lists, NEW c \in Nat, NEW i \in Nat, NEW s, Filled(lists, c, i, s),
         Len(lists.slots) \in Nat \ {0}, c % Len(lists.slots) = 0
  PROVE  /\ M!IsCjc(SlotOf(lists.slots, i)) => Filled(lists, c, i + 1, s)
         /\ ~M!IsCjc(SlotOf(lists.slots, i)) => Filled(lists, c, i + 1, Append(s, <<SlotOf(lists.slots, i), c + i>>))
<1>1. PICK S : S = {lists.slots[k] : k \in 1..Len(lists.slots)} \X Int
  OBVIOUS
<1>2. /\ SlotOf(lists.slots, c + i) = SlotOf(lists.slots, i)
      /\ <<SlotOf(lists.slots, i), c + i>> \in S
  <2>1. /\ SlotOf(lists.slots, c + i) = SlotOf(lists.slots, i)
        /\ SlotOf(lists.slots, i) \in {lists.slots[k] : k \in 1..Len(lists.slots)}
    BY SlotIs
  <2>2. c + i \in Int
    OBVIOUS
  <2> QED
    BY <1>1, <2>1, <2>2
<1>3. CASE M!IsCjc(SlotOf(lists.slots, i))
  <2>1. Samples(lists, c, i + 1) = Samples(lists, c, i)
    BY <1>2, <1>3, SamplesOn
  <2> QED
    BY <1>3, <2>1 DEF Filled
<1>4. CASE ~M!IsCjc(SlotOf(lists.slots, i))
  <2>1. Samples(lists, c, i + 1) = Samples(lists, c, i) \cup {c + i}
    BY <1>2, <1>4, SamplesOn
  <2>2. PICK e : e = <<SlotOf(lists.slots, i), c + i>>
    OBVIOUS
  <2>3. PICK t : t = Append(s, e)
    OBVIOUS
  <2>4. s \in Seq(S) /\ e \in S /\ e[2] = c + i /\ e[1] = SlotOf(lists.slots, e[2])
    BY <1>1, <1>2, <2>2 DEF Filled
  <2>5. /\ t \in Seq(S) /\ Len(t) = Len(s) + 1 /\ t[Len(s) + 1] = e
        /\ \A j \in 1..Len(s) : t[j] = s[j]
    BY <2>3, <2>4, AppendProperties
  <2>6. PICK l \in Nat : l = Len(s) /\ Len(t) = l + 1
    BY <2>4, <2>5, LenProperties
  <2>7. \A j \in 1..(l + 1) : j \in 1..l \/ j = l + 1
    OBVIOUS
  <2>8. \A j \in 1..l : t[j] = s[j] /\ s[j][2] \in Samples(lists, c, i) /\ s[j][1] = SlotOf(lists.slots, s[j][2])
    BY <2>5, <2>6 DEF Filled
  <2>9. \A j \in 1..(l + 1) : t[j][2] \in Samples(lists, c, i + 1) /\ t[j][1] = SlotOf(lists.slots, t[j][2])
    BY <2>1, <2>4, <2>5, <2>6, <2>7, <2>8
  <2>10. \A m \in Samples(lists, c, i + 1) : \E j \in 1..(l + 1) : t[j][2] = m
    <3>1. ASSUME NEW m \in Samples(lists, c, i) PROVE \E j \in 1..(l + 1) : t[j][2] = m
      <4>1. PICK j \in 1..l : s[j][2] = m
        BY <2>6 DEF Filled
      <4>2. j \in 1..(l + 1) /\ t[j][2] = m
        BY <2>8, <4>1
      <4> QED
        BY <4>2
    <3>2. l + 1 \in 1..(l + 1) /\ t[l + 1][2] = c + i
      BY <2>4, <2>5, <2>6
    <3> QED
      BY <2>1, <3>1, <3>2
  <2>11. ASSUME NEW j \in 1..(l + 1), NEW k \in 1..(j - 1) PROVE t[k][2] < t[j][2]
    <3>1. k \in 1..l
      OBVIOUS
    <3>2. CASE j \in 1..l
      <4>1. s[k][2] < s[j][2]
        BY <2>6, <3>2 DEF Filled
      <4> QED
        BY <2>8, <3>1, <3>2, <4>1
    <3>3. CASE j = l + 1
      <4>1. t[k][2] \in c..(c + i - 1)
        BY <2>8, <3>1 DEF Samples
      <4>2. t[j][2] = c + i
        BY <2>4, <2>5, <2>6, <3>3
      <4> QED
        BY <4>1, <4>2
    <3> QED
      BY <2>7, <3>2, <3>3
  <2>12. Filled(lists, c, i + 1, t)
    BY <1>1, <2>5, <2>6, <2>9, <2>10, <2>11 DEF Filled
  <2> QED
    BY <1>4, <2>2, <2>3, <2>12
<1> QED
  BY <1>3, <1>4

\* After each count the values are those of the samples so far, and the next
\* alias is the next slot's.
LEMMA LoopFills ==
  ASSUME NEW lists, NEW counts, NEW turn, Turns(lists, turn), NEW c \in Nat, NEW n \in Nat, NEW d,
         Len(lists.slots) \in Nat \ {0}, Len(lists.aliases) \in Nat \ {0}, c % Len(lists.slots) = 0,
         \A i \in 1..n : counts[i] = c + i - 1, Runs(lists, counts, n, d)
  PROVE  \A i \in 0..n : Filled(lists, c, i, d[i]) /\ InTurn(lists, turn, i, d[i])
<1> DEFINE T == {i \in Nat : i <= n => Filled(lists, c, i, d[i]) /\ InTurn(lists, turn, i, d[i])}
           S == {lists.slots[k] : k \in 1..Len(lists.slots)} \X Int
<1>1. 0 \in T
  <2>1. d[0] = <<>>
    BY DEF Runs
  <2>2. <<>> \in Seq(S) /\ Len(<<>>) = 0
    BY EmptySeq
  <2>3. Samples(lists, c, 0) = {}
    BY DEF Samples
  <2>4. Filled(lists, c, 0, <<>>)
    BY <2>2, <2>3 DEF Filled
  <2>5. PICK W \in Nat \ {0}, A \in Nat \ {0} : W = Len(lists.slots) /\ A = Len(lists.aliases)
    OBVIOUS
  <2>6. 0 \in Nat /\ 0 < W /\ 0 = W * 0 + 0 /\ 0 = A * 0 + 0 /\ turn[0] = 0
    BY DEF Turns
  <2>7. InTurn(lists, turn, 0, <<>>)
    BY <2>2, <2>5, <2>6 DEF InTurn
  <2> QED
    BY <2>1, <2>4, <2>7
<1>2. ASSUME NEW i \in T, i < n PROVE i + 1 \in T
  <2>1. i \in Nat /\ i + 1 \in 1..n /\ (i + 1) - 1 = i /\ i <= n
    BY <1>2
  <2>2. Filled(lists, c, i, d[i]) /\ InTurn(lists, turn, i, d[i])
    BY <2>1
  <2>3. counts[i + 1] = c + i
    BY <2>1
  <2>4. d[i + 1] = Convert(lists, counts, d[i], i + 1)
    <3>1. i + 1 \in 0..n /\ i + 1 # 0
      BY <2>1
    <3>2. d[i + 1] = Convert(lists, counts, d[(i + 1) - 1], i + 1)
      BY <3>1, Zenon DEF Runs
    <3> QED
      BY <2>1, <3>2
  <2>5. d[i] \in Seq(S) /\ Len(d[i]) \in Nat
    BY <2>2, LenProperties DEF Filled
  <2>6. PICK R : R = S
    OBVIOUS
  <2>7. d[i] \in Seq(R)
    BY <2>5, <2>6
  <2> HIDE DEF S
  <2>8. Converts(lists, counts, turn, i, d[i])
    <3>1. i \in Nat /\ InTurn(lists, turn, i, d[i])
      BY <2>1, <2>2
    <3> QED
      BY <2>7, <3>1, ConvertIs
  <2>9. Filled(lists, c, i + 1, d[i + 1]) /\ InTurn(lists, turn, i + 1, d[i + 1])
    <3>1. CASE M!IsCjc(SlotOf(lists.slots, i))
      <4>1. d[i + 1] = d[i] /\ Len(d[i]) = Len(d[i]) + 0
        BY <2>4, <2>5, <2>8, <3>1 DEF Converts
      <4>2. InTurn(lists, turn, i + 1, d[i])
        BY <2>8, <3>1, <4>1 DEF Converts
      <4>3. Filled(lists, c, i + 1, d[i])
        BY <2>1, <2>2, <3>1, FilledOn
      <4> QED
        BY <4>1, <4>2, <4>3
    <3>2. CASE ~M!IsCjc(SlotOf(lists.slots, i))
      <4>1. PICK e : e = <<SlotOf(lists.slots, i), c + i>>
        OBVIOUS
      <4>2. d[i + 1] = Append(d[i], e)
        BY <2>3, <2>4, <2>8, <3>2, <4>1 DEF Converts
      <4>3. e \in R
        <5>1. SlotOf(lists.slots, i) \in {lists.slots[k] : k \in 1..Len(lists.slots)}
          BY <2>1, SlotIs
        <5>2. c + i \in Int
          BY <2>1
        <5> QED
          BY <2>6, <4>1, <5>1, <5>2 DEF S
      <4>4. Len(Append(d[i], e)) = Len(d[i]) + 1
        BY <2>7, <4>3, AppendProperties
      <4>5. InTurn(lists, turn, i + 1, Append(d[i], e))
        BY <2>8, <3>2, <4>4 DEF Converts
      <4>6. Filled(lists, c, i + 1, Append(d[i], e))
        BY <2>1, <2>2, <3>2, <4>1, FilledOn
      <4> QED
        BY <4>2, <4>5, <4>6
    <3> QED
      BY <3>1, <3>2
  <2> QED
    BY <2>1, <2>9
<1>3. \A i \in 0..n : i \in T
  <2>1. T \in SUBSET Nat /\ \A i \in T : i < n => i + 1 \in T
    BY <1>2
  <2> HIDE DEF T
  <2> QED
    BY <1>1, <2>1, CountingUp
<1> QED
  BY <1>3

HandsOut(lists, c, n, w) ==
  /\ Filled(lists, c, n, w) /\ Len(w) \in Nat \ {0}
  /\ w[1][2] \in Nat /\ w[1][2] - (w[1][2] % Len(lists.slots)) = c

\* A window's worth of counts that begins with a scan comes to a window that
\* begins in that scan.
LEMMA LoopHandsOut ==
  ASSUME NEW lists, NEW counts, NEW turn, Turns(lists, turn), NEW c \in Nat, NEW n \in Nat, NEW d,
         Len(lists.slots) \in Nat \ {0}, Len(lists.aliases) \in Nat \ {0}, c % Len(lists.slots) = 0,
         \A i \in 1..n : counts[i] = c + i - 1, Runs(lists, counts, n, d), Len(lists.slots) <= n
  PROVE  HandsOut(lists, c, n, d[n])
<1>1. PICK W \in Nat \ {0}, A \in Nat \ {0} : W = Len(lists.slots) /\ A = Len(lists.aliases)
  OBVIOUS
<1>2. \A i \in 0..n : Filled(lists, c, i, d[i]) /\ InTurn(lists, turn, i, d[i])
  BY LoopFills
<1>3. Filled(lists, c, W, d[W]) /\ InTurn(lists, turn, W, d[W]) /\ Filled(lists, c, n, d[n])
  <2>1. W \in 0..n /\ n \in 0..n
    BY <1>1
  <2> QED
    BY <1>2, <2>1
<1>4. Len(d[W]) = A
  <2>1. PICK p \in Nat, k \in Nat : k < W /\ W = W * p + k /\ Len(d[W]) = A * p + turn[k]
    BY <1>1, <1>3 DEF InTurn
  <2>2. p \in Int /\ 1 \in Int /\ k \in 0..(W - 1) /\ 0 \in 0..(W - 1) /\ W * p + k = W * 1 + 0
    BY <2>1
  <2>3. p = 1 /\ k = 0
    BY <2>2, OneRemainder
  <2>4. turn[0] = 0
    BY DEF Turns
  <2> QED
    BY <2>1, <2>3, <2>4
<1>5. PICK m \in Samples(lists, c, W) : TRUE
  <2>1. 1 \in 1..Len(d[W])
    BY <1>4
  <2> QED
    BY <1>3, <2>1 DEF Filled
<1>6. m \in c..(c + W - 1) /\ m \in Samples(lists, c, n)
  BY <1>1, <1>5 DEF Samples
<1>7. PICK l \in Nat : l = Len(d[n])
  BY <1>3, LenProperties DEF Filled
<1>8. PICK j \in 1..l : d[n][j][2] = m
  BY <1>3, <1>6, <1>7 DEF Filled
<1>9. 1 \in 1..l /\ l \in Nat \ {0}
  OBVIOUS
<1>10. PICK f \in Nat : f = d[n][1][2] /\ c <= f
  <2>1. d[n][1][2] \in Samples(lists, c, n)
    BY <1>3, <1>7, <1>9 DEF Filled
  <2>2. d[n][1][2] \in c..(c + n - 1)
    BY <2>1 DEF Samples
  <2> QED
    BY <2>2
<1>11. f <= m
  <2>1. CASE j = 1
    BY <1>8, <1>10, <2>1
  <2>2. CASE j # 1
    <3>1. 1 \in 1..(j - 1)
      BY <2>2
    <3>2. d[n][1][2] < d[n][j][2]
      BY <1>3, <1>7, <3>1 DEF Filled
    <3> QED
      BY <1>6, <1>8, <1>10, <3>2
  <2> QED
    BY <2>1, <2>2
<1>12. f - (f % W) = c
  <2>1. PICK q \in Int : c = W * q
    <3>1. c \in Int
      OBVIOUS
    <3>2. c \div W \in Int /\ c = W * (c \div W) + (c % W)
      BY <3>1, DivisionIs
    <3>3. c % W = 0
      BY <1>1
    <3> DEFINE q == c \div W
    <3>4. q \in Int /\ c = W * q + 0
      BY <3>2, <3>3
    <3> HIDE DEF q
    <3>5. c = W * q
      BY <3>4
    <3> QED
      BY <3>4, <3>5
  <2>2. PICK r \in 0..(W - 1) : r = f - c
    BY <1>6, <1>10, <1>11
  <2>3. f = W * q + r /\ f \in Int
    BY <2>1, <2>2
  <2>4. f % W = r
    BY <2>3, RemainderIs
  <2> QED
    BY <2>2, <2>4
<1> QED
  BY <1>1, <1>3, <1>7, <1>9, <1>10, <1>12 DEF HandsOut
-----------------------------------------------------------------------------
(* MccScan: the windows that are handed out *)

\* Every list the driver scans by matches its aliases.
ListsInv ==
  ~M!Idle => Len(mEngine.aliases) \in Nat \ {0} /\ SlotsMatchAliases(mEngine)

Whole(lists, w, start) ==
  w # <<>> =>
    LET from == w[1][2] - (w[1][2] % Len(lists.slots))
    IN  /\ {w[i][2] : i \in DOMAIN w} =
              {n \in from..(from + Len(lists.slots) * PerChannel - 1) : ~M!IsCjc(SlotOf(lists.slots, n))}
        /\ \A i, j \in DOMAIN w : i < j => w[i][2] < w[j][2]
        /\ from >= start
        /\ \A i \in DOMAIN w : w[i][1] = SlotOf(lists.slots, w[i][2])

\* The next window begins behind the last one, or behind what was dropped.
Behind(w, start, c) ==
  /\ start \in Nat
  /\ w = <<>> => start <= c
  /\ w # <<>> => w[Len(w)][2] \in 0..(c - 1)

HandedOut == ~M!Idle => Whole(mEngine, mWindow, mReached) /\ Behind(mWindow, mReached, mConsumed)

WindowInv == MccInv /\ ListsInv /\ HandedOut

LEMMA WholeIs ==
  HandedOut => WindowIsWhole
BY DEF HandedOut, WindowIsWhole, M!WindowIsWhole, Whole, M!Slot, SlotOf, M!Width, M!FetchSize

\* convert() makes a whole window of a whole snapshot.
LEMMA ConvertedIs ==
  ASSUME MccInv, ListsInv, ~M!Idle, Len(mSnapshot) = M!FetchSize,
         \A i \in 1..M!FetchSize : mSnapshot[i] = mConsumed + i - 1,
         NEW w, w = M!Converted
  PROVE  /\ \A start \in Nat : start <= mConsumed => Whole(mEngine, w, start)
         /\ w # <<>>
         /\ w[Len(w)][2] \in 0..(mConsumed + M!FetchSize - 1)
<1>1. PICK n \in Nat \ {0}, c \in Nat, W \in Nat \ {0} :
        n = M!FetchSize /\ c = mConsumed /\ W = Len(mEngine.slots) /\ n = W * PerChannel
  BY MccSizes DEF MccInv, CopyInv, M!Width
<1>2. W <= n /\ c % W = 0
  <2>1. PerChannel \in Nat \ {0}
    BY ScanAssumption DEF ScanAssumption
  <2>2. \A a, b \in Nat \ {0} : a <= a * b
    <3> SUFFICES ASSUME NEW a \in Nat \ {0}, NEW b \in Nat \ {0} PROVE a <= a * b
      OBVIOUS
    <3>1. a * (b - 1) \in Nat /\ a * b = a * (b - 1) + a
      OBVIOUS
    <3> QED
      BY <3>1
  <2>3. W <= n
    BY <1>1, <2>1, <2>2
  <2> QED
    BY <1>1, <2>3 DEF MccInv, CopyInv, M!Width
<1>3. PICK turn : Turns(mEngine, turn)
  BY DEF ListsInv, SlotsMatchAliases, Turns
<1>4. PICK d : Runs(mEngine, mSnapshot, n, d) /\ d[n] = M!Converted
  <2>1. \E e : Runs(mEngine, mSnapshot, n, e)
    BY LoopEnds
  <2>2. PICK d : d = CHOOSE e : e = [i \in 0..n |-> IF i = 0 THEN <<>> ELSE Convert(mEngine, mSnapshot, e[i - 1], i)]
    OBVIOUS
  <2>3. Runs(mEngine, mSnapshot, n, d)
    BY <2>1, <2>2 DEF Runs
  <2>4. M!Converted = d[n]
    BY <1>1, <2>2 DEF M!Converted, Convert, SlotOf, M!Slot, M!Width
  <2> QED
    BY <2>3, <2>4
<1>5. w = d[n]
  BY <1>4
<1>6. /\ Filled(mEngine, c, n, w) /\ Len(w) \in Nat \ {0}
      /\ w[1][2] \in Nat /\ w[1][2] - (w[1][2] % W) = c
  <2>1. \A i \in 1..n : mSnapshot[i] = c + i - 1
    BY <1>1
  <2>2. Len(mEngine.slots) \in Nat \ {0} /\ Len(mEngine.aliases) \in Nat \ {0} /\ c % Len(mEngine.slots) = 0
        /\ Len(mEngine.slots) <= n
    BY <1>1, <1>2 DEF ListsInv
  <2>3. HandsOut(mEngine, c, n, d[n])
    BY <1>3, <1>4, <2>1, <2>2, LoopHandsOut
  <2> QED
    BY <1>1, <1>5, <2>3 DEF HandsOut
<1>7. PICK l \in Nat \ {0} : l = Len(w) /\ DOMAIN w = 1..l
  BY <1>6, LenProperties DEF Filled
<1>8. w # <<>>
  BY <1>7, EmptySeq
<1>9. {w[i][2] : i \in 1..l} = Samples(mEngine, c, n)
  <2>1. \A i \in 1..l : w[i][2] \in Samples(mEngine, c, n)
    BY <1>6, <1>7 DEF Filled
  <2>2. \A m \in Samples(mEngine, c, n) : \E i \in 1..l : w[i][2] = m
    BY <1>6, <1>7 DEF Filled
  <2> QED
    BY ONLY <2>1, <2>2
<1>10. \A i, j \in 1..l : i < j => w[i][2] < w[j][2]
  <2> SUFFICES ASSUME NEW i \in 1..l, NEW j \in 1..l, i < j PROVE w[i][2] < w[j][2]
    OBVIOUS
  <2>1. i \in 1..(j - 1)
    OBVIOUS
  <2> QED
    BY <1>6, <1>7, <2>1 DEF Filled
<1>11. \A i \in 1..l : w[i][1] = SlotOf(mEngine.slots, w[i][2])
  BY <1>6, <1>7 DEF Filled
<1>12. ASSUME NEW start \in Nat, start <= c PROVE Whole(mEngine, w, start)
  BY <1>1, <1>6, <1>7, <1>9, <1>10, <1>11, <1>12 DEF Whole, Samples
<1>13. w[l][2] \in 0..(c + n - 1)
  <2>1. l \in 1..l
    OBVIOUS
  <2>2. w[l][2] \in Samples(mEngine, c, n)
    BY <1>9, <2>1
  <2>3. w[l][2] \in c..(c + n - 1)
    BY <2>2 DEF Samples
  <2> QED
    BY <2>3
<1> QED
  BY <1>1, <1>7, <1>8, <1>12, <1>13

\* A step that hands nothing out.
LEMMA WindowStays ==
  ASSUME WindowInv, MccInv', UNCHANGED <<mEngine, mWindow, mReached>>, ~M!Idle => mConsumed' >= mConsumed
  PROVE  WindowInv'
<1>1. ListsInv'
  BY DEF WindowInv, ListsInv, M!Idle
<1>2. HandedOut'
  <2> SUFFICES ASSUME ~M!Idle PROVE Whole(mEngine, mWindow, mReached) /\ Behind(mWindow, mReached, mConsumed')
    BY DEF HandedOut, M!Idle, Behind
  <2>1. mConsumed \in Nat /\ mConsumed' \in Nat /\ mConsumed' >= mConsumed
    BY DEF WindowInv, MccInv, CopyInv
  <2> QED
    BY <2>1 DEF WindowInv, HandedOut, Behind
<1> QED
  BY <1>1, <1>2 DEF WindowInv

LEMMA WindowSetUp ==
  ASSUME WindowInv, MccInv', M!Close \/ M!Start \/ M!Stop
  PROVE  WindowInv'
<1>1. CASE M!Close \/ M!Stop
  <2>1. M!Idle'
    BY <1>1 DEF M!Close, M!Stop, M!EndScan, M!Idle
  <2> QED
    BY <2>1 DEF WindowInv, ListsInv, HandedOut
<1>2. CASE M!Start
  <2>1. mWindow' = <<>> /\ mReached' = 0 /\ mConsumed' = 0 /\ mInputs' = mInputs /\ M!Idle
    BY <1>2 DEF M!Start, M!config
  <2>2. HandedOut'
    BY <2>1 DEF HandedOut, Whole, Behind
  <2>3. CASE mInputs # <<>> /\ mEngine' = M!Lists(mInputs)
    <3>1. mInputs \in Seq(Inputs) /\ Len(mInputs) <= MaxInputs /\ Len(mInputs) \in Nat \ {0}
      BY <2>3 DEF WindowInv, MccInv, EngineInv
    <3>2. Len(mInputs) \in 1..MaxInputs /\ mInputs \in [1..Len(mInputs) -> Inputs]
      BY <3>1, ScanAssumption DEF ScanAssumption
    <3>3. mEngine' \in {M!DaqInLists(mInputs), M!AInLists(mInputs)}
      BY <2>3 DEF M!Lists
    <3>4. Len(mEngine'.aliases) \in Nat \ {0} /\ SlotsMatchAliases(mEngine')
      BY <3>2, <3>3, ScanAssumption DEF ScanAssumption
    <3>5. ListsInv'
      BY <3>4 DEF ListsInv, SlotsMatchAliases
    <3> QED
      BY <2>2, <3>5 DEF WindowInv
  <2>4. CASE mEngine' = mEngine
    <3>1. ListsInv'
      BY <2>1, <2>4 DEF ListsInv, M!Idle
    <3> QED
      BY <2>2, <3>1 DEF WindowInv
  <2> QED
    BY <1>2, <2>3, <2>4 DEF M!Start, M!device
<1> QED
  BY <1>1, <1>2

LEMMA WindowCheck ==
  ASSUME WindowInv, MccInv', M!Check
  PROVE  WindowInv'
<1>1. /\ mAt = "copy" /\ Len(mSnapshot) = M!FetchSize /\ mEngine' = mEngine
      /\ M!Overwritten => UNCHANGED <<mConsumed, mWindow, mReached>>
      /\ ~M!Overwritten => /\ mWindow' = M!Converted /\ mConsumed' = mConsumed + M!FetchSize
                           /\ mReached' = IF mWindow = <<>> THEN mReached ELSE M!Last(mWindow)[2] + 1
  BY DEF M!Check
<1>2. ~M!Idle /\ mConsumed \in Nat
  BY <1>1 DEF WindowInv, MccInv, EngineInv, CopyInv
<1>3. CASE M!Overwritten
  <2>1. UNCHANGED <<mEngine, mWindow, mReached>> /\ mConsumed' >= mConsumed
    BY <1>1, <1>2, <1>3
  <2> QED
    BY <2>1, WindowStays
<1>4. CASE ~M!Overwritten
  <2>1. \A i \in 1..M!FetchSize : mSnapshot[i] = mConsumed + i - 1
    BY <1>1, <1>4, WholeSnapshot DEF WindowInv, SnapshotIsWhole
  <2> DEFINE w == M!Converted
  <2>2. /\ \A start \in Nat : start <= mConsumed => Whole(mEngine, w, start)
        /\ w # <<>>
        /\ w[Len(w)][2] \in 0..(mConsumed + M!FetchSize - 1)
    BY <1>1, <1>2, <2>1, ConvertedIs DEF WindowInv
  <2>3. mWindow' = w
    BY <1>1, <1>4
  <2> HIDE DEF w
  <2>4. mReached' \in Nat /\ mReached' <= mConsumed
    <3>1. Behind(mWindow, mReached, mConsumed)
      BY <1>2 DEF WindowInv, HandedOut
    <3>2. CASE mWindow = <<>>
      BY <1>1, <1>4, <3>1, <3>2 DEF Behind
    <3>3. CASE mWindow # <<>>
      <4>1. mWindow[Len(mWindow)][2] \in 0..(mConsumed - 1) /\ mReached' = mWindow[Len(mWindow)][2] + 1
        BY <1>1, <1>4, <3>1, <3>3 DEF Behind, M!Last
      <4> QED
        BY <1>2, <4>1
    <3> QED
      BY <3>2, <3>3
  <2>5. Whole(mEngine', mWindow', mReached')
    BY <1>1, <2>2, <2>3, <2>4
  <2>6. Behind(mWindow', mReached', mConsumed')
    <3>1. M!FetchSize \in Nat
      BY <1>2, MccSizes DEF WindowInv
    <3>2. mConsumed' = mConsumed + M!FetchSize /\ mConsumed' - 1 = mConsumed + M!FetchSize - 1
      BY <1>1, <1>2, <1>4, <3>1
    <3>3. w[Len(w)][2] \in 0..(mConsumed' - 1)
      BY <2>2, <3>2
    <3> QED
      BY <2>2, <2>3, <2>4, <3>3 DEF Behind
  <2>7. HandedOut'
    BY <2>5, <2>6 DEF HandedOut
  <2>8. ListsInv'
    BY <1>1 DEF WindowInv, ListsInv, M!Idle
  <2> QED
    BY <2>7, <2>8 DEF WindowInv
<1> QED
  BY <1>3, <1>4

\* Whatever the device writes while a window is copied, however far it has run
\* ahead and however often its counter has wrapped, a window that
\* fetch_analog() hands out holds every sample of whole scans but the cold
\* junctions, once and in order, under the aliases of their channels, and none
\* that was handed out before.
THEOREM WindowsAreWhole == M!Spec => []WindowIsWhole
<1>1. M!Init => WindowInv
  <2>1. M!Init => MccInv
    BY MccBegins
  <2>2. M!Init => M!Idle
    BY DEF M!Init, M!Idle
  <2> QED
    BY <2>1, <2>2 DEF WindowInv, ListsInv, HandedOut
<1>2. WindowInv /\ MccInv' /\ [M!Next]_(M!vars) => WindowInv'
  <2> SUFFICES ASSUME WindowInv, MccInv', [M!Next]_(M!vars) PROVE WindowInv'
    OBVIOUS
  <2>1. MccInv
    BY DEF WindowInv
  <2>2. CASE M!Poll
    <3>1. mConsumed' >= mConsumed
      BY <2>1, <2>2, MccPoll
    <3>2. UNCHANGED <<mEngine, mWindow, mReached>>
      BY <2>2 DEF M!Poll
    <3> QED
      BY <3>1, <3>2, WindowStays
  <2>3. CASE M!Close \/ M!Start \/ M!Stop
    BY <2>3, WindowSetUp
  <2>4. CASE M!Check
    BY <2>4, WindowCheck
  <2>5. CASE M!Open \/ M!ConfigureTiming \/ (\E c \in Inputs : M!Configure(c)) \/ M!TakeSample \/ M!Die \/ M!Fetch
             \/ M!Copy \/ M!GiveUp \/ UNCHANGED M!vars
    <3>1. UNCHANGED <<mEngine, mWindow, mReached, mConsumed>>
      BY <2>5 DEF M!Open, M!ConfigureTiming, M!Configure, M!TakeSample, M!Die, M!Fetch, M!Copy, M!GiveUp, M!vars
    <3>2. ~M!Idle => mConsumed' >= mConsumed
      BY <2>1, <3>1 DEF MccInv, CopyInv
    <3> QED
      BY <3>1, <3>2, WindowStays
  <2> QED
    BY <2>2, <2>3, <2>4, <2>5 DEF M!Next
<1>3. WindowInv => WindowIsWhole
  BY WholeIs DEF WindowInv
<1> QED
  BY <1>1, <1>2, <1>3, MccInvariant, PTL DEF M!Spec
=============================================================================
