----------------------------- MODULE OpcUaProofs -----------------------------
(***************************************************************************)
(* For any nodes, timestamps and lengths of queue: stop() ends on_data,    *)
(* and on_data sees the values of each node in the order they were taken.  *)
(***************************************************************************)
EXTENDS OpcUaStream, SequenceTheorems, TLAPS

-----------------------------------------------------------------------------
(* What stop() has ended *)

\* The watch channel changes hands at the very end of the session's thread, and
\* stop() returns by it only.
EndInv ==
  /\ term # "running" => pc \in {"done", "panicked"}
  /\ session = "stopped" => term # "running"

\* However the loop ended, once stop() has returned on_data is not called again.
THEOREM OpcUaStopEnds == Spec => []StopEndsSession
<1>1. Init => EndInv
  BY DEF Init, EndInv
<1>2. EndInv /\ [Next]_vars => EndInv'
  <2> SUFFICES ASSUME EndInv, [Next]_vars PROVE EndInv'
    OBVIOUS
  <2> USE DEF EndInv, sessionVars, pumpVars
  <2>1. ASSUME NEW n \in Nodes, Change(n) \/ Sample(n) PROVE EndInv'
    BY <2>1 DEF Change, Sample
  <2>2. CASE Disconnect \/ TickDue
    BY <2>2 DEF Disconnect, TickDue
  <2>3. CASE ReadQuiet \/ ReadAll \/ ReadError
    BY <2>3 DEF ReadQuiet, ReadAll, ReadError, Answer
  <2>4. CASE Loop
    BY <2>4 DEF Loop, Tick, PollTick, Chunk, StreamEnd, ReadDisconnected, Cancel, Finish
  <2>5. CASE Panic
    BY <2>5 DEF Panic
  <2>6. CASE Stop \/ StopDone \/ StopTimeout \/ Drop
    BY <2>6 DEF Stop, StopDone, StopTimeout, Drop
  <2>7. CASE UNCHANGED vars
    BY <2>7 DEF vars
  <2> QED
    BY <2>1, <2>2, <2>3, <2>4, <2>5, <2>6, <2>7 DEF Next
<1>3. EndInv => StopEndsSession
  BY DEF EndInv, StopEndsSession
<1> QED
  BY <1>1, <1>2, <1>3, PTL DEF Spec

-----------------------------------------------------------------------------
(* The order of the two sources *)

Noted == [version : Nat, after : BOOLEAN]

StreamTypes ==
  /\ value \in [Nodes -> Nat \ {0}] /\ last \in [Nodes -> Nat] /\ polled \in [Nodes -> Nat]
  /\ inbox \in [Nodes -> Seq(Noted)]

\* Notifications q wait in the order they were sampled in, none older than what
\* on_data was given (l) nor newer than the value (v); what was read (p) lies
\* between, and before every notification sampled after the read.
InLine(q, l, p, v) ==
  /\ \A i, j \in 1..Len(q) : i <= j => q[i].version <= q[j].version
  /\ \A i \in 1..Len(q) : l <= q[i].version /\ q[i].version <= v
  /\ l <= v /\ p <= v
  /\ p # 0 => l <= p /\ \A i \in 1..Len(q) : q[i].after => p <= q[i].version

AllAfter(q) == \A i \in 1..Len(q) : q[i].after

NodeInv(n) == InLine(inbox[n], last[n], polled[n], value[n])

\* When the tick is due, nothing sampled before a read is left that would go out
\* after it; a sample is held back between two turns only; without a
\* subscription there are no notifications.
TurnInv ==
  /\ due /\ mode = "both" =>
       \A n \in Nodes : polled[n] # 0 => AllAfter(inbox[n])
  /\ due => pc # "reading"
  /\ polled # NothingPolled => mode = "both" /\ pc = "select"
  /\ mode = "poll" => monitored = {} /\ \A n \in Nodes : inbox[n] = <<>>

StreamInv == StreamTypes /\ (\A n \in Nodes : NodeInv(n)) /\ TurnInv /\ disordered = {}

OrderInv == Brisk /\ Prompt => StreamInv

\* A sequence in order stays in order behind something that is not greater.
LEMMA OrderedBehind ==
  ASSUME NEW l \in Nat, NEW s \in Seq(Nat), \A i, j \in 1..Len(s) : i <= j => s[i] <= s[j],
         \A i \in 1..Len(s) : l <= s[i], NEW k \in 1..Len(s)
  PROVE  ~((<<l>> \o s)[k + 1] < (<<l>> \o s)[k])
<1>1. PICK m \in Nat : m = Len(s) /\ k \in 1..m
  BY LenProperties
<1>2. /\ (<<l>> \o s)[k + 1] = s[k]
      /\ (<<l>> \o s)[k] = IF k = 1 THEN l ELSE s[k - 1]
  <2>1. \A i \in 1..(Len(s) + 1) : (<<l>> \o s)[i] = IF i = 1 THEN l ELSE s[i - 1]
    OBVIOUS
  <2>2. k \in 1..(m + 1) /\ k + 1 \in 1..(m + 1) /\ k + 1 # 1 /\ (k + 1) - 1 = k
    BY <1>1
  <2> QED
    BY <1>1, <2>1, <2>2
<1>3. s[k] \in Nat /\ l <= s[k]
  OBVIOUS
<1>4. CASE k = 1
  BY <1>2, <1>3, <1>4
<1>5. CASE k # 1
  <2>1. k - 1 \in 1..m /\ k - 1 <= k
    BY <1>1, <1>5
  <2>2. s[k - 1] \in Nat /\ s[k - 1] <= s[k]
    BY <1>1, <2>1
  <2> QED
    BY <1>2, <1>3, <1>5, <2>2
<1> QED
  BY <1>4, <1>5

\* on_data given what is in order, and nothing older than before, stays in order.
LEMMA Delivered ==
  ASSUME StreamTypes, disordered = {}, NEW samples \in [Nodes -> Seq(Nat)], Deliver(samples),
         \A n \in Nodes : \A i, j \in 1..Len(samples[n]) : i <= j => samples[n][i] <= samples[n][j],
         \A n \in Nodes : \A i \in 1..Len(samples[n]) : last[n] <= samples[n][i]
  PROVE  /\ disordered' = {}
         /\ last' \in [Nodes -> Nat]
         /\ \A n \in Nodes : last'[n] = IF samples[n] = <<>> THEN last[n] ELSE samples[n][Len(samples[n])]
<1>1. ASSUME NEW n \in Nodes, NEW i \in 2..Len(<<last[n]>> \o samples[n])
      PROVE  ~((<<last[n]>> \o samples[n])[i] < (<<last[n]>> \o samples[n])[i - 1])
  <2>1. PICK s \in Seq(Nat), l \in Nat : s = samples[n] /\ l = last[n]
    BY DEF StreamTypes
  <2>2. Len(<<l>> \o s) = Len(s) + 1 /\ Len(s) \in Nat
    OBVIOUS
  <2>3. PICK k \in 1..Len(s) : i = k + 1 /\ i - 1 = k
    BY <2>1, <2>2
  <2>4. ~((<<l>> \o s)[k + 1] < (<<l>> \o s)[k])
    BY <2>1, OrderedBehind
  <2> QED
    BY <2>1, <2>3, <2>4
<1>2. disordered' = {}
  BY <1>1 DEF Deliver
<1>3. ASSUME NEW n \in Nodes, samples[n] # <<>> PROVE samples[n][Len(samples[n])] \in Nat
  BY <1>3
<1> QED
  BY <1>2, <1>3 DEF Deliver, StreamTypes

\* ... when it is at most one sample of a node.
LEMMA DeliveredAlone ==
  ASSUME StreamTypes, disordered = {}, NEW read \in [Nodes -> Nat], Deliver(Alone(read)),
         \A n \in Nodes : read[n] # 0 => last[n] <= read[n]
  PROVE  /\ disordered' = {}
         /\ last' \in [Nodes -> Nat]
         /\ \A n \in Nodes : last'[n] = IF read[n] = 0 THEN last[n] ELSE read[n]
<1>1. PICK samples : samples = Alone(read)
  OBVIOUS
<1>2. \A n \in Nodes : samples[n] = IF read[n] = 0 THEN <<>> ELSE <<read[n]>>
  BY <1>1 DEF Alone
<1>3. samples \in [Nodes -> Seq(Nat)]
  BY <1>1 DEF Alone
<1>4. ASSUME NEW n \in Nodes
      PROVE  /\ \A i, j \in 1..Len(samples[n]) : i <= j => samples[n][i] <= samples[n][j]
             /\ \A i \in 1..Len(samples[n]) : last[n] <= samples[n][i]
             /\ samples[n] # <<>> => samples[n][Len(samples[n])] = read[n]
             /\ samples[n] = <<>> <=> read[n] = 0
  <2>1. CASE read[n] = 0
    <3>1. samples[n] = <<>> /\ Len(<<>>) = 0
      BY <1>2, <2>1
    <3> QED
      BY <2>1, <3>1
  <2>2. CASE read[n] # 0
    <3>1. PICK r \in Nat : r = read[n]
      OBVIOUS
    <3>2. samples[n] = <<r>> /\ last[n] <= r
      BY <1>2, <2>2, <3>1
    <3>3. Len(<<r>>) = 1 /\ <<r>>[1] = r /\ <<r>> # <<>>
      OBVIOUS
    <3>4. \A i \in 1..Len(samples[n]) : samples[n][i] = r
      BY <3>2, <3>3
    <3> QED
      BY <2>2, <3>1, <3>2, <3>3, <3>4
  <2> QED
    BY <2>1, <2>2
<1> QED
  BY <1>1, <1>3, <1>4, Delivered

\* The versions in a queue of notifications are numbers.
LEMMA NotedTypes ==
  ASSUME NEW q \in Seq(Noted)
  PROVE  /\ Len(q) \in Nat
         /\ \A i \in 1..Len(q) : q[i] \in Noted /\ q[i].version \in Nat /\ q[i].after \in BOOLEAN
<1>1. \A i \in 1..Len(q) : q[i] \in Noted
  OBVIOUS
<1> QED
  BY <1>1 DEF Noted

\* What is held back is dropped, or handed out when all that waits is newer.
LEMMA LineDropped ==
  ASSUME NEW q \in Seq(Noted), NEW l \in Nat, NEW p \in Nat, NEW v \in Nat, InLine(q, l, p, v),
         NEW h, h = l \/ (h = p /\ p # 0 /\ AllAfter(q))
  PROVE  InLine(q, h, 0, v)
<1>1. /\ \A i, j \in 1..Len(q) : i <= j => q[i].version <= q[j].version
      /\ \A i \in 1..Len(q) : l <= q[i].version /\ q[i].version <= v
      /\ l <= v /\ p <= v
      /\ p # 0 => l <= p /\ \A i \in 1..Len(q) : q[i].after => p <= q[i].version
  BY DEF InLine
<1>2. h <= v /\ \A i \in 1..Len(q) : h <= q[i].version
  BY <1>1 DEF AllAfter
<1> QED
  BY <1>1, <1>2 DEF InLine

LEMMA LineGrows ==
  ASSUME NEW q \in Seq(Noted), NEW l \in Nat, NEW p \in Nat, NEW v \in Nat, InLine(q, l, p, v)
  PROVE  InLine(q, l, p, v + 1)
<1>1. \A i \in 1..Len(q) : q[i].version \in Nat
  BY NotedTypes
<1> QED
  BY <1>1 DEF InLine

\* The server samples the value it has now.
LEMMA LineSampled ==
  ASSUME NEW q \in Seq(Noted), NEW l \in Nat, NEW p \in Nat, NEW v \in Nat, InLine(q, l, p, v),
         NEW w, w = Append(q, [version |-> v, after |-> TRUE])
  PROVE  w \in Seq(Noted) /\ InLine(w, l, p, v) /\ (AllAfter(q) => AllAfter(w))
<1>1. PICK e : e = [version |-> v, after |-> TRUE]
  OBVIOUS
<1>2. e \in Noted /\ e.version = v /\ e.after
  BY <1>1 DEF Noted
<1>3. /\ w \in Seq(Noted) /\ Len(w) = Len(q) + 1 /\ Len(q) \in Nat
      /\ \A i \in 1..Len(q) : w[i] = q[i]
      /\ w[Len(q) + 1] = e
  BY <1>1, <1>2
<1>4. /\ \A i, j \in 1..Len(q) : i <= j => q[i].version <= q[j].version
      /\ \A i \in 1..Len(q) : l <= q[i].version /\ q[i].version <= v
      /\ l <= v /\ p <= v
      /\ p # 0 => l <= p /\ \A i \in 1..Len(q) : q[i].after => p <= q[i].version
  BY DEF InLine
<1>5. \A i \in 1..Len(w) : i \in 1..Len(q) \/ i = Len(q) + 1
  BY <1>3
<1>6. \A i \in 1..Len(w) : l <= w[i].version /\ w[i].version <= v
  BY <1>2, <1>3, <1>4, <1>5
<1>7. \A i, j \in 1..Len(w) : i <= j => w[i].version <= w[j].version
  <2> SUFFICES ASSUME NEW i \in 1..Len(w), NEW j \in 1..Len(w), i <= j
               PROVE  w[i].version <= w[j].version
    OBVIOUS
  <2>1. CASE j = Len(q) + 1
    BY <1>2, <1>3, <1>6, <2>1
  <2>2. CASE j # Len(q) + 1
    BY <1>3, <1>4, <1>5, <2>2
  <2> QED
    BY <2>1, <2>2
<1>8. p # 0 => \A i \in 1..Len(w) : w[i].after => p <= w[i].version
  BY <1>2, <1>3, <1>4, <1>5
<1>9. AllAfter(q) => AllAfter(w)
  BY <1>2, <1>3, <1>5 DEF AllAfter
<1> QED
  BY <1>3, <1>4, <1>6, <1>7, <1>8, <1>9 DEF InLine

\* The k oldest notifications leave and w wait on: they were lost, or handed out.
Taken(q, k, w) == k \in 0..Len(q) /\ w = SubSeq(q, k + 1, Len(q))
Handed(q, k, l, p, h, g) == (h = l /\ g = p) \/ (k > 0 /\ h = q[k].version /\ g = 0)

LEMMA LineTaken ==
  ASSUME NEW q \in Seq(Noted), NEW l \in Nat, NEW p \in Nat, NEW v \in Nat, InLine(q, l, p, v),
         NEW k, NEW w, Taken(q, k, w), NEW h, NEW g, Handed(q, k, l, p, h, g)
  PROVE  w \in Seq(Noted) /\ InLine(w, h, g, v) /\ (AllAfter(q) => AllAfter(w))
<1>1. /\ Len(q) \in Nat /\ k \in Nat /\ k <= Len(q) /\ w = SubSeq(q, k + 1, Len(q))
      /\ \A i \in 1..Len(q) : q[i].version \in Nat
      /\ (h = l /\ g = p) \/ (k > 0 /\ h = q[k].version /\ g = 0)
  BY NotedTypes DEF Taken, Handed
<1>2. /\ w \in Seq(Noted) /\ Len(w) = Len(q) - k
      /\ \A i \in 1..Len(w) : w[i] = q[k + i] /\ k + i \in 1..Len(q) /\ k <= k + i
  <2>1. k + 1 \in Int /\ Len(q) \in Int /\ \A i \in (k + 1)..Len(q) : i \in 1..Len(q)
    BY <1>1
  <2>2. \A i \in (k + 1)..Len(q) : q[i] \in Noted
    BY <2>1, NotedTypes
  <2>3. /\ w \in Seq(Noted)
        /\ Len(w) = IF k + 1 <= Len(q) THEN Len(q) - (k + 1) + 1 ELSE 0
        /\ \A i \in 1..(Len(q) - (k + 1) + 1) : w[i] = q[(k + 1) + i - 1]
    BY <1>1, <2>1, <2>2, SubSeqProperties
  <2>4. Len(w) = Len(q) - k /\ Len(q) - (k + 1) + 1 = Len(q) - k
    BY <1>1, <2>3
  <2>5. \A i \in 1..(Len(q) - k) : (k + 1) + i - 1 = k + i /\ k + i \in 1..Len(q) /\ k <= k + i
    BY <1>1
  <2> QED
    BY <2>3, <2>4, <2>5
<1>3. /\ \A i, j \in 1..Len(q) : i <= j => q[i].version <= q[j].version
      /\ \A i \in 1..Len(q) : l <= q[i].version /\ q[i].version <= v
      /\ l <= v /\ p <= v
      /\ p # 0 => l <= p /\ \A i \in 1..Len(q) : q[i].after => p <= q[i].version
  BY DEF InLine
<1>4. \A i \in 1..Len(w) : h <= w[i].version /\ w[i].version <= v
  <2>1. CASE h = l
    BY <1>2, <1>3, <2>1
  <2>2. CASE k > 0 /\ h = q[k].version
    <3>1. k \in 1..Len(q)
      BY <1>1, <2>2
    <3> QED
      BY <1>2, <1>3, <2>2, <3>1
  <2> QED
    BY <1>1, <2>1, <2>2
<1>5. \A i, j \in 1..Len(w) : i <= j => w[i].version <= w[j].version
  <2> SUFFICES ASSUME NEW i \in 1..Len(w), NEW j \in 1..Len(w), i <= j
               PROVE  w[i].version <= w[j].version
    OBVIOUS
  <2>1. k + i <= k + j
    BY <1>1, <1>2
  <2> QED
    BY <1>2, <1>3, <2>1
<1>6. h <= v /\ g <= v
  <2>1. k > 0 => k \in 1..Len(q)
    BY <1>1
  <2> QED
    BY <1>1, <1>3, <2>1
<1>7. g # 0 => h <= g /\ \A i \in 1..Len(w) : w[i].after => g <= w[i].version
  BY <1>1, <1>2, <1>3
<1>8. AllAfter(q) => AllAfter(w)
  BY <1>2 DEF AllAfter
<1> QED
  BY <1>2, <1>4, <1>5, <1>6, <1>7, <1>8 DEF InLine

\* The node is read: what waits was sampled before.
LEMMA LineRead ==
  ASSUME NEW q \in Seq(Noted), NEW l \in Nat, NEW p \in Nat, NEW v \in Nat, InLine(q, l, p, v),
         NEW w, w = [i \in 1..Len(q) |-> [q[i] EXCEPT !.after = FALSE]]
  PROVE  w \in Seq(Noted) /\ InLine(w, l, v, v)
<1>1. Len(q) \in Nat /\ \A i \in 1..Len(q) : q[i] \in Noted
  BY NotedTypes
<1>2. \A i \in 1..Len(q) : /\ [q[i] EXCEPT !.after = FALSE] \in Noted
                           /\ [q[i] EXCEPT !.after = FALSE].version = q[i].version
                           /\ ~[q[i] EXCEPT !.after = FALSE].after
  BY <1>1 DEF Noted
<1>3. /\ w \in Seq(Noted) /\ Len(w) = Len(q)
      /\ \A i \in 1..Len(q) : w[i].version = q[i].version /\ ~w[i].after
  <2>1. \A i \in 1..Len(q) : w[i] \in Noted /\ w[i].version = q[i].version /\ ~w[i].after
    BY <1>2
  <2>2. w \in [1..Len(q) -> Noted]
    BY <2>1, Zenon
  <2> QED
    BY <1>1, <2>1, <2>2
<1> QED
  BY <1>3 DEF InLine

\* What a chunk hands out of one node: the sample held back only before
\* something newer, then the notifications.
HandedOut(n, k, s) ==
  /\ s \in Seq(Nat)
  /\ \A i, j \in 1..Len(s) : i <= j => s[i] <= s[j]
  /\ \A i \in 1..Len(s) : last[n] <= s[i]
  /\ k = 0 => s = <<>>
  /\ k > 0 => s # <<>> /\ s[Len(s)] = inbox[n][k].version

LEMMA MergedInOrder ==
  ASSUME NEW n \in Nodes, inbox[n] \in Seq(Noted), last[n] \in Nat, polled[n] \in Nat, value[n] \in Nat,
         InLine(inbox[n], last[n], polled[n], value[n]), NEW k \in 0..Len(inbox[n]),
         NEW s, s = Merged(n, k)
  PROVE  HandedOut(n, k, s)
<1>1. PICK q, l, p : q = inbox[n] /\ l = last[n] /\ p = polled[n]
  OBVIOUS
<1>2. /\ q \in Seq(Noted) /\ l \in Nat /\ p \in Nat /\ Len(q) \in Nat /\ k \in Nat /\ k <= Len(q)
      /\ \A i \in 1..Len(q) : q[i].version \in Nat
      /\ \A i, j \in 1..Len(q) : i <= j => q[i].version <= q[j].version
      /\ \A i \in 1..Len(q) : l <= q[i].version
      /\ p # 0 => l <= p /\ \A i \in 1..Len(q) : q[i].after => p <= q[i].version
  BY <1>1, NotedTypes DEF InLine
<1>3. PICK r : r = [i \in 1..k |-> q[i].version]
  OBVIOUS
<1>4. /\ r \in Seq(Nat) /\ Len(r) = k /\ \A i \in 1..k : r[i] = q[i].version /\ r[i] \in Nat /\ i \in 1..Len(q)
  BY <1>2, <1>3
<1>5. /\ \A i, j \in 1..k : i <= j => r[i] <= r[j]
      /\ \A i \in 1..k : l <= r[i]
  BY <1>2, <1>4
<1>6. CASE k > 0 /\ p # 0 /\ Older(n, q[1])
  <2>1. s = <<p>> \o r
    BY <1>1, <1>3, <1>6 DEF Merged
  <2>2. 1 \in 1..Len(q) /\ 1 \in 1..k /\ r[1] = q[1].version
    BY <1>2, <1>4, <1>6
  <2>3. p <= r[1] /\ l <= p
    BY <1>1, <1>2, <1>6, <2>2 DEF Older
  <2>4. \A i \in 1..k : p <= r[i]
    BY <1>2, <1>4, <1>5, <2>2, <2>3
  <2>5. /\ s \in Seq(Nat) /\ Len(s) = k + 1
        /\ \A i \in 1..(k + 1) : s[i] = IF i = 1 THEN p ELSE r[i - 1]
    BY <1>2, <1>4, <2>1
  <2>6. \A i \in 2..(k + 1) : i - 1 \in 1..k
    BY <1>2
  <2>7. \A i \in 1..Len(s) : l <= s[i] /\ p <= s[i]
    <3> SUFFICES ASSUME NEW i \in 1..Len(s) PROVE l <= s[i] /\ p <= s[i]
      OBVIOUS
    <3>1. CASE i = 1
      BY <1>2, <2>3, <2>5, <3>1
    <3>2. CASE i # 1
      <4>1. i - 1 \in 1..k /\ s[i] = r[i - 1]
        BY <1>2, <2>5, <3>2
      <4> QED
        BY <1>5, <2>4, <4>1
    <3> QED
      BY <3>1, <3>2
  <2>8. \A i, j \in 1..Len(s) : i <= j => s[i] <= s[j]
    <3> SUFFICES ASSUME NEW i \in 1..Len(s), NEW j \in 1..Len(s), i <= j PROVE s[i] <= s[j]
      OBVIOUS
    <3>1. CASE i = 1
      BY <2>5, <2>7, <3>1
    <3>2. CASE i # 1
      <4>1. i - 1 \in 1..k /\ j - 1 \in 1..k /\ i - 1 <= j - 1 /\ j # 1
        BY <1>2, <2>5, <3>2
      <4>2. s[i] = r[i - 1] /\ s[j] = r[j - 1]
        BY <2>5, <3>2, <4>1
      <4> QED
        BY <1>5, <4>1, <4>2
    <3> QED
      BY <3>1, <3>2
  <2>9. s # <<>> /\ s[Len(s)] = q[k].version
    <3>1. Len(s) = k + 1 /\ k + 1 # 1 /\ (k + 1) - 1 = k /\ k \in 1..k /\ k + 1 \in 1..(k + 1)
      BY <1>2, <1>6, <2>5
    <3>2. s[k + 1] = r[k]
      BY <2>5, <3>1
    <3> QED
      BY <1>4, <2>5, <3>1, <3>2
  <2>10. (\A i \in 1..Len(s) : last[n] <= s[i]) /\ s[Len(s)] = inbox[n][k].version
    BY <1>1, <2>7, <2>9
  <2>11. k # 0 /\ s \in Seq(Nat)
    BY <1>2, <1>6, <2>5
  <2> QED
    BY <2>8, <2>9, <2>10, <2>11, Zenon DEF HandedOut
<1>7. CASE ~(k > 0 /\ p # 0 /\ Older(n, q[1]))
  <2>1. s = <<>> \o r
    BY <1>1, <1>3, <1>7 DEF Merged
  <2>2. s = r
    BY <1>4, <2>1
  <2>3. k = 0 => s = <<>>
    BY <1>4, <2>2
  <2>4. k > 0 => s # <<>> /\ s[Len(s)] = q[k].version
    BY <1>2, <1>4, <2>2
  <2> QED
    BY <1>1, <1>4, <1>5, <2>2, <2>3, <2>4 DEF HandedOut
<1> QED
  BY <1>6, <1>7

LEMMA StreamStep ==
  ASSUME StreamAssumption, Brisk, Prompt, StreamInv, [Next]_vars
  PROVE  StreamInv'
<1>1. /\ value \in [Nodes -> Nat \ {0}] /\ last \in [Nodes -> Nat] /\ polled \in [Nodes -> Nat]
      /\ inbox \in [Nodes -> Seq(Noted)] /\ disordered = {}
  BY DEF StreamInv, StreamTypes
<1>2. ASSUME NEW m \in Nodes
      PROVE  /\ value[m] \in Nat \ {0} /\ last[m] \in Nat /\ polled[m] \in Nat /\ inbox[m] \in Seq(Noted)
             /\ InLine(inbox[m], last[m], polled[m], value[m])
  BY <1>1 DEF StreamInv, NodeInv
\* The turns of the loop in which on_data is given nothing.
<1>3. ASSUME UNCHANGED <<mode, monitored, serverVars, outVars>>, polled' = polled \/ polled' = NothingPolled,
             TurnInv'
      PROVE  StreamInv'
  <2>1. polled' \in [Nodes -> Nat]
    <3>1. NothingPolled \in [Nodes -> Nat]
      BY DEF NothingPolled
    <3> QED
      BY <1>1, <1>3, <3>1
  <2>2. ASSUME NEW m \in Nodes PROVE NodeInv(m)'
    <3>1. CASE polled' = polled
      BY <1>2, <1>3, <3>1 DEF NodeInv, serverVars, outVars
    <3>2. CASE polled' = NothingPolled
      <4>1. polled'[m] = 0
        BY <3>2 DEF NothingPolled
      <4>2. InLine(inbox[m], last[m], 0, value[m])
        BY <1>2, LineDropped
      <4> QED
        BY <1>3, <4>1, <4>2 DEF NodeInv, serverVars, outVars
    <3> QED
      BY <1>3, <3>1, <3>2
  <2> QED
    BY <1>1, <1>3, <2>1, <2>2 DEF StreamInv, StreamTypes, serverVars, outVars
\* Those in which it is given what was held back.
<1>4. ASSUME UNCHANGED <<mode, monitored, serverVars>>, polled' = NothingPolled, Deliver(Alone(polled)), TurnInv',
             \A m \in Nodes : polled[m] # 0 => AllAfter(inbox[m])
      PROVE  StreamInv'
  <2>1. \A m \in Nodes : polled[m] # 0 => last[m] <= polled[m]
    BY <1>2 DEF InLine
  <2>2. /\ disordered' = {} /\ last' \in [Nodes -> Nat]
        /\ \A m \in Nodes : last'[m] = IF polled[m] = 0 THEN last[m] ELSE polled[m]
    BY <1>1, <1>4, <2>1, DeliveredAlone DEF StreamInv
  <2>3. polled' \in [Nodes -> Nat]
    BY <1>4 DEF NothingPolled
  <2>4. ASSUME NEW m \in Nodes PROVE NodeInv(m)'
    <3>1. polled'[m] = 0
      BY <1>4 DEF NothingPolled
    <3>2. InLine(inbox[m], last'[m], 0, value[m])
      BY <1>2, <1>4, <2>2, LineDropped
    <3> QED
      BY <1>4, <3>1, <3>2 DEF NodeInv, serverVars
  <2> QED
    BY <1>1, <1>4, <2>2, <2>3, <2>4 DEF StreamInv, StreamTypes, serverVars
<1>5. ASSUME NEW n \in Nodes, Change(n) PROVE StreamInv'
  <2>1. /\ value' = [value EXCEPT ![n] = @ + 1]
        /\ UNCHANGED <<mode, monitored, inbox, pc, due, polled, last, disordered>>
    BY <1>5 DEF Change, configVars, pumpVars, outVars
  <2>2. value' \in [Nodes -> Nat \ {0}]
    BY <1>1, <2>1
  <2>3. TurnInv'
    BY <2>1 DEF StreamInv, TurnInv
  <2>4. ASSUME NEW m \in Nodes PROVE NodeInv(m)'
    <3>1. InLine(inbox[m], last[m], polled[m], value[m] + 1)
      BY <1>2, LineGrows
    <3> QED
      BY <1>1, <1>2, <2>1, <3>1 DEF NodeInv
  <2> QED
    BY <1>1, <2>1, <2>2, <2>3, <2>4 DEF StreamInv, StreamTypes
<1>6. ASSUME NEW n \in Nodes, Sample(n) PROVE StreamInv'
  <2>1. n \in monitored /\ UNCHANGED <<mode, monitored, value, pc, due, polled, last, disordered>>
    BY <1>6 DEF Sample, configVars, pumpVars, outVars
  <2>2. mode # "poll"
    BY <2>1 DEF StreamInv, TurnInv
  <2>3. PICK w : /\ inbox' = [inbox EXCEPT ![n] = w]
                 /\ w \in Seq(Noted) /\ InLine(w, last[n], polled[n], value[n])
                 /\ AllAfter(inbox[n]) => AllAfter(w)
    <3>1. PICK q, e : q = inbox[n] /\ e = [version |-> value[n], after |-> TRUE]
      OBVIOUS
    <3>2. CASE inbox' = inbox
      BY <1>1, <1>2, <3>2
    <3>3. CASE inbox' = [inbox EXCEPT ![n] = Append(q, e)]
      <4>1. PICK w : w = Append(q, e)
        OBVIOUS
      <4>2. w \in Seq(Noted) /\ InLine(w, last[n], polled[n], value[n]) /\ (AllAfter(q) => AllAfter(w))
        BY <1>2, <3>1, <4>1, LineSampled
      <4> QED
        BY <3>1, <3>3, <4>1, <4>2
    <3>4. CASE Len(q) = QueueSize /\ inbox' = [inbox EXCEPT ![n] = Append(Tail(q), e)]
      <4>1. q \in Seq(Noted) /\ Len(q) \in Nat /\ Len(q) # 0
        BY <1>2, <3>1, <3>4 DEF StreamAssumption
      <4>2. q # <<>>
        BY <4>1
      <4>3. PICK r : r = Tail(q)
        OBVIOUS
      <4>4. r = SubSeq(q, 1 + 1, Len(q)) /\ 1 \in 0..Len(q)
        BY <4>1, <4>2, <4>3, TailIsSubSeq
      <4>5. r \in Seq(Noted) /\ InLine(r, last[n], polled[n], value[n]) /\ (AllAfter(q) => AllAfter(r))
        <5>1. PICK l, p, v : l = last[n] /\ p = polled[n] /\ v = value[n]
          OBVIOUS
        <5>2. l \in Nat /\ p \in Nat /\ v \in Nat /\ q \in Seq(Noted) /\ InLine(q, l, p, v)
          BY <1>2, <3>1, <5>1
        <5>3. Taken(q, 1, r) /\ Handed(q, 1, l, p, l, p)
          BY <4>4 DEF Taken, Handed
        <5>4. r \in Seq(Noted) /\ InLine(r, l, p, v) /\ (AllAfter(q) => AllAfter(r))
          BY <5>2, <5>3, LineTaken
        <5> QED
          BY <5>1, <5>4
      <4>6. PICK w : w = Append(r, e)
        OBVIOUS
      <4>7. w \in Seq(Noted) /\ InLine(w, last[n], polled[n], value[n]) /\ (AllAfter(r) => AllAfter(w))
        BY <1>2, <3>1, <4>5, <4>6, LineSampled
      <4> QED
        BY <3>1, <3>4, <4>3, <4>5, <4>6, <4>7
    <3> QED
      BY <1>6, <3>1, <3>2, <3>3, <3>4 DEF Sample
  <2>4. ASSUME NEW m \in Nodes PROVE NodeInv(m)' /\ (AllAfter(inbox[m]) => AllAfter(inbox'[m]))
    <3>1. CASE m = n
      BY <1>1, <2>1, <2>3, <3>1 DEF NodeInv
    <3>2. CASE m # n
      BY <1>1, <1>2, <2>1, <2>3, <3>2 DEF NodeInv
    <3> QED
      BY <3>1, <3>2
  <2>5. inbox' \in [Nodes -> Seq(Noted)]
    BY <1>1, <2>3
  <2>6. TurnInv'
    BY <2>1, <2>2, <2>4 DEF StreamInv, TurnInv
  <2> QED
    BY <1>1, <2>1, <2>4, <2>5, <2>6 DEF StreamInv, StreamTypes
<1>7. CASE Disconnect
  <2>1. UNCHANGED <<mode, monitored, serverVars, outVars, pc, due, polled>>
    BY <1>7 DEF Disconnect, configVars, pumpVars
  <2> QED
    BY <1>3, <2>1 DEF StreamInv, TurnInv, serverVars
<1>8. CASE TickDue
  <2>1. /\ due' = TRUE /\ pc = "select" /\ \A m \in Nodes : ~Overdue(m)
        /\ UNCHANGED <<mode, monitored, serverVars, outVars, pc, polled>>
    BY <1>8 DEF TickDue, configVars
  <2>2. \A m \in Nodes : polled[m] # 0 => AllAfter(inbox[m])
    BY <2>1 DEF Overdue, AllAfter
  <2>3. TurnInv'
    BY <2>1, <2>2 DEF StreamInv, TurnInv, serverVars
  <2> QED
    BY <1>3, <2>1, <2>3
<1>9. CASE Tick
  <2>1. /\ mode = "both" /\ pc = "select" /\ due /\ Deliver(Alone(polled)) /\ polled' = NothingPolled
        /\ due' = FALSE /\ UNCHANGED <<mode, monitored, serverVars>>
    BY <1>9 DEF Tick, configVars
  <2>2. TurnInv'
    BY <2>1 DEF StreamInv, TurnInv
  <2>3. \A m \in Nodes : polled[m] # 0 => AllAfter(inbox[m])
    BY <2>1 DEF StreamInv, TurnInv
  <2> QED
    BY <1>4, <2>1, <2>2, <2>3
<1>10. CASE PollTick
  <2>1. /\ mode = "poll" /\ due' = FALSE
        /\ UNCHANGED <<mode, monitored, serverVars, polled, outVars>>
    BY <1>10 DEF PollTick, configVars
  <2>2. TurnInv'
    BY <2>1 DEF StreamInv, TurnInv, serverVars
  <2> QED
    BY <1>3, <2>1, <2>2
<1>11. CASE ReadQuiet
  <2>1. /\ mode = "both" /\ pc = "reading" /\ pc' = "select"
        /\ inbox' = [m \in Nodes |-> IF m \notin quiet THEN inbox[m]
                       ELSE [i \in 1..Len(inbox[m]) |-> [inbox[m][i] EXCEPT !.after = FALSE]]]
        /\ polled' = [m \in Nodes |-> IF m \in quiet THEN value[m] ELSE polled[m]]
        /\ UNCHANGED <<mode, monitored, value, due, last, disordered>>
    BY <1>11 DEF ReadQuiet, Answer, configVars, outVars
  <2>2. ~due
    BY <2>1 DEF StreamInv, TurnInv
  <2>3. polled' \in [Nodes -> Nat]
    BY <1>1, <2>1
  <2>4. ASSUME NEW m \in Nodes PROVE NodeInv(m)' /\ inbox'[m] \in Seq(Noted)
    <3>1. CASE m \in quiet
      <4>1. PICK w : w = inbox'[m]
        OBVIOUS
      <4>2. w = [i \in 1..Len(inbox[m]) |-> [inbox[m][i] EXCEPT !.after = FALSE]] /\ polled'[m] = value[m]
        BY <2>1, <3>1, <4>1
      <4>3. w \in Seq(Noted) /\ InLine(w, last[m], value[m], value[m])
        BY <1>2, <4>2, LineRead
      <4> QED
        BY <2>1, <4>1, <4>2, <4>3 DEF NodeInv
    <3>2. CASE m \notin quiet
      BY <1>2, <2>1, <3>2 DEF NodeInv
    <3> QED
      BY <3>1, <3>2
  <2>5. inbox' \in [Nodes -> Seq(Noted)]
    <3>1. inbox' = [m \in Nodes |-> inbox'[m]]
      BY <2>1
    <3> QED
      BY <2>4, <3>1
  <2>6. TurnInv'
    BY <2>1, <2>2 DEF TurnInv
  <2> QED
    BY <1>1, <2>1, <2>3, <2>4, <2>5, <2>6 DEF StreamInv, StreamTypes
<1>12. CASE ReadAll
  <2>1. /\ mode = "poll" /\ pc = "reading" /\ pc' = "select" /\ Deliver(Alone(value))
        /\ inbox' = [m \in Nodes |-> [i \in 1..Len(inbox[m]) |-> [inbox[m][i] EXCEPT !.after = FALSE]]]
        /\ UNCHANGED <<mode, monitored, value, due, polled>>
    BY <1>12 DEF ReadAll, Answer, configVars
  <2>2. /\ ~due /\ monitored = {} /\ polled = NothingPolled /\ \A m \in Nodes : inbox[m] = <<>>
    BY <2>1 DEF StreamInv, TurnInv
  <2>3. inbox' = inbox
    <3>1. ASSUME NEW m \in Nodes
          PROVE  [i \in 1..Len(inbox[m]) |-> [inbox[m][i] EXCEPT !.after = FALSE]] = inbox[m]
      <4>1. inbox[m] = <<>> /\ 1..Len(inbox[m]) = {}
        BY <2>2
      <4> QED
        BY <4>1
    <3> QED
      BY <1>1, <2>1, <3>1
  <2>4. value \in [Nodes -> Nat] /\ \A m \in Nodes : last[m] <= value[m]
    BY <1>1, <1>2 DEF InLine
  <2>5. /\ disordered' = {} /\ last' \in [Nodes -> Nat]
        /\ \A m \in Nodes : last'[m] = IF value[m] = 0 THEN last[m] ELSE value[m]
    BY <1>1, <2>1, <2>4, DeliveredAlone DEF StreamInv
  <2>6. ASSUME NEW m \in Nodes PROVE NodeInv(m)'
    <3>1. inbox'[m] = <<>> /\ Len(<<>>) = 0 /\ polled'[m] = 0 /\ last'[m] = value[m] /\ value'[m] = value[m]
      BY <1>2, <2>1, <2>2, <2>3, <2>5 DEF NothingPolled
    <3>2. InLine(<<>>, value[m], 0, value[m])
      BY <1>2, <3>1 DEF InLine
    <3> QED
      BY <3>1, <3>2 DEF NodeInv
  <2>7. TurnInv'
    BY <2>1, <2>2, <2>3 DEF TurnInv
  <2> QED
    BY <1>1, <2>1, <2>3, <2>5, <2>6, <2>7 DEF StreamInv, StreamTypes
<1>13. CASE ReadError
  <2>1. pc = "reading" /\ pc' = "select" /\ UNCHANGED <<mode, monitored, serverVars, due, polled, outVars>>
    BY <1>13 DEF ReadError, configVars
  <2>2. TurnInv'
    BY <2>1 DEF StreamInv, TurnInv, serverVars
  <2> QED
    BY <1>3, <2>1, <2>2
<1>14. CASE ReadDisconnected
  <2>1. /\ pc = "reading" /\ pc' = "ended" /\ Deliver(Alone(polled)) /\ polled' = NothingPolled
        /\ UNCHANGED <<mode, monitored, serverVars, due>>
    BY <1>14 DEF ReadDisconnected, configVars
  <2>2. polled = NothingPolled
    BY <2>1 DEF StreamInv, TurnInv
  <2>3. \A m \in Nodes : polled[m] = 0
    BY <2>2 DEF NothingPolled
  <2>4. TurnInv'
    BY <2>1, <2>2 DEF StreamInv, TurnInv, serverVars
  <2> QED
    BY <1>4, <2>1, <2>3, <2>4
<1>15. CASE StreamEnd
  <2>1. /\ pc' = "ended" /\ ~due /\ Deliver(Alone(polled)) /\ polled' = NothingPolled
        /\ \A m \in Nodes : inbox[m] = <<>>
        /\ UNCHANGED <<mode, monitored, serverVars, due>>
    BY <1>15 DEF StreamEnd, configVars
  <2>2. \A m \in Nodes : AllAfter(inbox[m])
    BY <2>1 DEF AllAfter
  <2>3. TurnInv'
    BY <2>1 DEF StreamInv, TurnInv, serverVars
  <2> QED
    BY <1>4, <2>1, <2>2, <2>3
<1>16. CASE Cancel \/ Panic
  <2>1. /\ polled' = NothingPolled /\ pc' # "reading"
        /\ UNCHANGED <<mode, monitored, serverVars, due, outVars>>
    BY <1>16 DEF Cancel, Panic, configVars
  <2>2. \A m \in Nodes : polled'[m] = 0
    BY <2>1 DEF NothingPolled
  <2>3. TurnInv'
    BY <2>1, <2>2 DEF StreamInv, TurnInv, serverVars
  <2> QED
    BY <1>3, <2>1, <2>3
<1>17. CASE Finish
  <2>1. /\ pc = "ended" /\ pc' = "done"
        /\ UNCHANGED <<mode, monitored, serverVars, due, polled, outVars>>
    BY <1>17 DEF Finish, configVars
  <2>2. TurnInv'
    BY <2>1 DEF StreamInv, TurnInv, serverVars
  <2> QED
    BY <1>3, <2>1, <2>2
<1>18. CASE Chunk
  <2>1. PICK count \in [Nodes -> 0..QueueSize] :
          /\ \A m \in Nodes : count[m] <= Len(inbox[m])
          /\ Deliver([m \in Nodes |-> Merged(m, count[m])])
          /\ polled' = [m \in Nodes |-> IF count[m] > 0 THEN 0 ELSE polled[m]]
          /\ inbox' = [m \in Nodes |-> SubSeq(inbox[m], count[m] + 1, Len(inbox[m]))]
    BY <1>18, Zenon DEF Chunk
  <2>2. mode # "poll" /\ pc = "select" /\ ~due /\ UNCHANGED <<mode, monitored, value, pc, due>>
    BY <1>18 DEF Chunk, configVars
  <2>3. PICK samples : samples = [m \in Nodes |-> Merged(m, count[m])]
    OBVIOUS
  <2>4. ASSUME NEW m \in Nodes
        PROVE  /\ samples[m] \in Seq(Nat)
               /\ \A i, j \in 1..Len(samples[m]) : i <= j => samples[m][i] <= samples[m][j]
               /\ \A i \in 1..Len(samples[m]) : last[m] <= samples[m][i]
               /\ count[m] = 0 => samples[m] = <<>>
               /\ count[m] > 0 => /\ samples[m] # <<>>
                                  /\ samples[m][Len(samples[m])] = inbox[m][count[m]].version
    <3>1. PICK s, k : s = samples[m] /\ k = count[m]
      OBVIOUS
    <3>2. inbox[m] \in Seq(Noted) /\ Len(inbox[m]) \in Nat
      BY <1>2
    <3>3. k \in 0..QueueSize /\ k <= Len(inbox[m])
      BY <2>1, <3>1
    <3>4. k \in 0..Len(inbox[m])
      BY <3>2, <3>3 DEF StreamAssumption
    <3>5. s = Merged(m, k)
      BY <2>3, <3>1
    <3>6. HandedOut(m, k, s)
      BY <1>2, <3>4, <3>5, MergedInOrder
    <3> QED
      BY <3>1, <3>6 DEF HandedOut
  <2>5. samples \in [Nodes -> Seq(Nat)]
    <3>1. samples = [m \in Nodes |-> samples[m]]
      BY <2>3
    <3> QED
      BY <2>4, <3>1
  <2>6. /\ disordered' = {} /\ last' \in [Nodes -> Nat]
        /\ \A m \in Nodes : last'[m] = IF samples[m] = <<>> THEN last[m] ELSE samples[m][Len(samples[m])]
    <3>1. Deliver(samples) /\ StreamTypes /\ disordered = {}
      BY <2>1, <2>3 DEF StreamInv
    <3> QED
      BY <2>4, <2>5, <3>1, Delivered
  <2>7. ASSUME NEW m \in Nodes PROVE NodeInv(m)' /\ inbox'[m] \in Seq(Noted)
    <3>1. PICK w, h, g, k : w = inbox'[m] /\ h = last'[m] /\ g = polled'[m] /\ k = count[m]
      OBVIOUS
    <3>2. k \in 0..Len(inbox[m]) /\ w = SubSeq(inbox[m], k + 1, Len(inbox[m]))
      <4>1. Len(inbox[m]) \in Nat
        BY <1>2
      <4>2. k \in 0..QueueSize /\ k <= Len(inbox[m])
        BY <2>1, <3>1
      <4>3. w = SubSeq(inbox[m], count[m] + 1, Len(inbox[m]))
        BY <2>1, <3>1
      <4> QED
        BY <3>1, <4>1, <4>2, <4>3 DEF StreamAssumption
    <3>3. (h = last[m] /\ g = polled[m]) \/ (k > 0 /\ h = inbox[m][k].version /\ g = 0)
      <4>1. CASE k = 0
        BY <2>1, <2>4, <2>6, <3>1, <4>1
      <4>2. CASE k > 0
        BY <2>1, <2>4, <2>6, <3>1, <4>2
      <4> QED
        BY <3>2, <4>1, <4>2
    <3>4. w \in Seq(Noted) /\ InLine(w, h, g, value[m])
      <4>1. PICK q, l, p, v : q = inbox[m] /\ l = last[m] /\ p = polled[m] /\ v = value[m]
        OBVIOUS
      <4>2. l \in Nat /\ p \in Nat /\ v \in Nat /\ q \in Seq(Noted) /\ InLine(q, l, p, v)
        BY <1>2, <4>1
      <4>3. Taken(q, k, w) /\ Handed(q, k, l, p, h, g)
        BY <3>2, <3>3, <4>1 DEF Taken, Handed
      <4>4. w \in Seq(Noted) /\ InLine(w, h, g, v)
        BY <4>2, <4>3, LineTaken
      <4> QED
        BY <4>1, <4>4
    <3> QED
      BY <2>2, <3>1, <3>4 DEF NodeInv
  <2>8. inbox' \in [Nodes -> Seq(Noted)]
    <3>1. inbox' = [m \in Nodes |-> inbox'[m]]
      BY <2>1
    <3> QED
      BY <2>7, <3>1
  <2>9. polled' \in [Nodes -> Nat]
    BY <1>1, <2>1
  <2>10. TurnInv'
    <3>1. polled = NothingPolled => polled' = NothingPolled
      BY <2>1 DEF NothingPolled
    <3> QED
      BY <2>2, <3>1 DEF StreamInv, TurnInv
  <2> QED
    BY <1>1, <2>2, <2>6, <2>7, <2>8, <2>9, <2>10 DEF StreamInv, StreamTypes
<1>19. CASE Stop \/ StopDone \/ StopTimeout \/ Drop
  <2>1. UNCHANGED <<mode, monitored, serverVars, outVars, pc, due, polled>>
    BY <1>19 DEF Stop, StopDone, StopTimeout, Drop, configVars, pumpVars
  <2> QED
    BY <1>3, <2>1 DEF StreamInv, TurnInv, serverVars
<1>20. CASE UNCHANGED vars
  <2>1. UNCHANGED <<mode, monitored, serverVars, outVars, pc, due, polled>>
    BY <1>20 DEF vars, configVars, pumpVars
  <2> QED
    BY <1>3, <2>1 DEF StreamInv, TurnInv, serverVars
<1> QED
  BY <1>5, <1>6, <1>7, <1>8, <1>9, <1>10, <1>11, <1>12, <1>13, <1>14, <1>15, <1>16, <1>17, <1>18,
     <1>19, <1>20 DEF Next, Loop

\* With reads and notifications faster than the ticks, on_data never sees a node
\* go back in time, whichever timestamps the server sends and whatever is lost.
THEOREM OpcUaOrdered ==
  ASSUME StreamAssumption
  PROVE  Spec => []Ordered
<1>1. Init => OrderInv
  <2> SUFFICES ASSUME Init PROVE StreamInv
    BY DEF OrderInv
  <2>1. StreamTypes
    BY DEF Init, StreamTypes, NothingPolled
  <2>2. \A n \in Nodes : inbox[n] = <<>> /\ last[n] = 0 /\ polled[n] = 0 /\ value[n] = 1
    BY DEF Init, NothingPolled
  <2>3. \A n \in Nodes : NodeInv(n)
    BY <2>2 DEF NodeInv, InLine
  <2>4. TurnInv
    BY <2>2 DEF TurnInv, Init
  <2>5. disordered = {}
    BY DEF Init
  <2> QED
    BY <2>1, <2>3, <2>4, <2>5 DEF StreamInv
<1>2. OrderInv /\ [Next]_vars => OrderInv'
  BY StreamStep DEF OrderInv
<1>3. OrderInv => Ordered
  BY DEF OrderInv, StreamInv, Ordered
<1> QED
  BY <1>1, <1>2, <1>3, PTL DEF Spec
=============================================================================
