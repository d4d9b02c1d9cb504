----------------------------- MODULE BenchProofs -----------------------------
(***************************************************************************)
(* For any number of callers, and any instrument whose programs keep to    *)
(* the assumptions of module Bench, one program at a time: no success      *)
(* after a refusal, no work on another's channel, nobody in the middle of  *)
(* a sequence, and no deadlock.                                            *)
(***************************************************************************)
EXTENDS Bench, SequenceTheorems, WellFoundedInduction, TLAPS

Owners == Facades \cup {None}
Leaving == {"return", "drop", "unlock", "undo", "settle", "finally", "hangUp"}

-----------------------------------------------------------------------------
(* What is left of a program *)

LEMMA LeastOf ==
  ASSUME NEW T \in SUBSET Nat, T # {}
  PROVE  \E i \in T : \A j \in T : i <= j
<1>1. PICK i \in T : \A j \in T : ~(<<j, i>> \in OpToRel(<, Nat))
  BY WFMin, NatLessThanWellFounded, Zenon
<1>2. \A j \in T : ~(j < i)
  <2>1. i \in Nat /\ \A j \in T : j \in Nat
    OBVIOUS
  <2> QED
    BY <1>1, <2>1, Zenon DEF OpToRel
<1> QED
  BY <1>2

LEMMA GreatestOf ==
  ASSUME NEW n \in Nat, NEW T \in SUBSET (0..n), T # {}
  PROVE  \E i \in T : \A j \in T : j <= i
<1>1. PICK U : U = {n - i : i \in T}
  OBVIOUS
<1>2. U \in SUBSET Nat /\ U # {}
  <2>1. PICK j \in T : TRUE
    OBVIOUS
  <2>2. n - j \in U
    BY <1>1, <2>1
  <2>3. \A i \in T : i \in 0..n /\ n - i \in Nat
    OBVIOUS
  <2> QED
    BY <1>1, <2>2, <2>3
<1>3. PICK k \in U : \A j \in U : k <= j
  BY <1>2, LeastOf
<1>4. PICK i \in T : k = n - i
  BY <1>1
<1>5. ASSUME NEW j \in T
      PROVE  j <= i
  <2>1. n - i <= n - j
    BY <1>1, <1>3, <1>4
  <2> QED
    BY <2>1
<1> QED
  BY <1>5

LEMMA RestIs ==
  ASSUME NEW S, NEW p \in Seq(S), NEW i \in 1..Len(p)
  PROVE  /\ Rest(p, i) \in Seq(S) /\ Rest(p, i) # <<>>
         /\ Len(Rest(p, i)) = Len(p) - i + 1
         /\ \A k \in 1..(Len(p) - i + 1) : Rest(p, i)[k] = p[i + k - 1]
         /\ Head(Rest(p, i)) = p[i]
         /\ i < Len(p) => Tail(Rest(p, i)) = Rest(p, i + 1)
         /\ i = Len(p) => Tail(Rest(p, i)) = <<>>
<1>1. Len(p) \in Nat /\ \A k \in 1..Len(p) : p[k] \in S
  BY LenProperties, ElementOfSeq
<1>2. /\ Rest(p, i) \in Seq(S)
      /\ Len(Rest(p, i)) = Len(p) - i + 1
      /\ \A k \in 1..(Len(p) - i + 1) : Rest(p, i)[k] = p[i + k - 1]
  BY <1>1, SubSeqProperties DEF Rest
<1>3. Rest(p, i) # <<>>
  BY <1>1, <1>2, EmptySeq
<1>4. /\ Head(Rest(p, i)) = p[i]
      /\ Tail(Rest(p, i)) = SubSeq(p, i + 1, Len(p))
  BY <1>1, HeadTailOfSubSeq DEF Rest
<1>5. i = Len(p) => SubSeq(p, i + 1, Len(p)) = <<>>
  BY <1>1, SubSeqEmpty
<1> QED
  BY <1>2, <1>3, <1>4, <1>5 DEF Rest

LEMMA RestOfRest ==
  ASSUME NEW S, NEW p \in Seq(S), NEW i \in 1..Len(p), NEW k \in 1..(Len(p) - i + 1)
  PROVE  Rest(Rest(p, i), k) = Rest(p, i + k - 1) /\ i + k - 1 \in 1..Len(p)
<1>1. PICK n \in Nat : n = Len(p)
  BY LenProperties
<1>2. PICK l \in Nat : l = n - i + 1 /\ l = Len(Rest(p, i)) /\ k \in 1..l
  BY <1>1, RestIs
<1>3. PICK m \in 1..n : m = i + k - 1
  BY <1>1, <1>2
<1>4. Rest(p, i) \in Seq(S) /\ Rest(Rest(p, i), k) \in Seq(S) /\ Rest(p, m) \in Seq(S)
  BY <1>1, <1>2, <1>3, RestIs
<1>5. Len(Rest(Rest(p, i), k)) = l - k + 1 /\ Len(Rest(p, m)) = n - m + 1 /\ l - k + 1 = n - m + 1
  <2>1. PICK q \in Seq(S) : q = Rest(p, i) /\ k \in 1..Len(q)
    BY <1>2, <1>4
  <2>2. Len(Rest(q, k)) = Len(q) - k + 1
    BY <2>1, RestIs, Zenon
  <2>4. Len(Rest(p, m)) = Len(p) - m + 1
    BY <1>1, RestIs, Zenon
  <2>3. i \in Int /\ k \in Int /\ l - k + 1 = n - m + 1
    BY <1>1, <1>2, <1>3
  <2> QED
    BY <1>1, <1>2, <2>1, <2>2, <2>3, <2>4
<1>6. ASSUME NEW j \in 1..(n - m + 1)
      PROVE  Rest(Rest(p, i), k)[j] = Rest(p, m)[j]
  <2>1. Rest(Rest(p, i), k)[j] = Rest(p, i)[k + j - 1]
    <3>1. PICK q \in Seq(S) : q = Rest(p, i)
      BY <1>4
    <3>2. k \in 1..Len(q) /\ j \in 1..(Len(q) - k + 1)
      BY <1>2, <1>5, <3>1
    <3>3. \A h \in 1..(Len(q) - k + 1) : Rest(q, k)[h] = q[k + h - 1]
      BY <3>2, RestIs, Zenon
    <3> QED
      BY <3>1, <3>2, <3>3
  <2>2. Rest(p, i)[k + j - 1] = p[i + (k + j - 1) - 1]
    <3>1. k + j - 1 \in 1..(Len(p) - i + 1)
      BY <1>1, <1>2, <1>3
    <3> QED
      BY <3>1, RestIs, Zenon
  <2>3. Rest(p, m)[j] = p[m + j - 1]
    BY <1>1, RestIs, Zenon
  <2>4. i + (k + j - 1) - 1 = m + j - 1
    BY <1>3
  <2> QED
    BY <2>1, <2>2, <2>3, <2>4
<1>7. Rest(Rest(p, i), k) = Rest(p, m)
  BY <1>1, <1>3, <1>4, <1>5, <1>6, SeqEqual
<1> QED
  BY <1>1, <1>3, <1>7

\* What remains of a program is one of the remainders until it has returned.
LEMMA RemainderIs ==
  ASSUME NEW i \in Instruments, NEW f \in Owners, NEW r \in Remainders(i, f)
  PROVE  /\ r \in Seq(STRING) /\ r # <<>> /\ Len(r) \in Nat /\ DOMAIN r = 1..Len(r)
         /\ \A k \in 1..Len(r) : Rest(r, k) \in Remainders(i, f)
         /\ Head(r) = r[1] /\ Tail(r) \in Seq(STRING)
         /\ Head(r) # "return" => Tail(r) \in Remainders(i, f) /\ Tail(r) = Rest(r, 2)
         /\ Head(r) = "return" => Tail(r) = <<>> /\ \A step : Occurs(step, r) => step = "return"
         /\ Len(r) \in 1..Len(r) /\ r[Len(r)] = "return"
<1>0. PICK p \in ProgramsOf(i, f) : \E m \in DOMAIN p : r = Rest(p, m)
  BY DEF Remainders
<1>1. PICK m \in DOMAIN p : r = Rest(p, m)
  BY <1>0
<1>2. p \in Seq(STRING) /\ Len(p) \in Nat /\ m \in 1..Len(p)
  BY <1>1, ShapeAssumption, LenProperties DEF Owners
<1>3. r \in Seq(STRING) /\ r # <<>> /\ Len(r) = Len(p) - m + 1 /\ Head(r) = p[m]
  BY <1>1, <1>2, RestIs
<1>4. Len(r) \in Nat \ {0} /\ DOMAIN r = 1..Len(r)
  BY <1>3, EmptySeq, LenProperties
<1>5. ASSUME NEW k \in 1..Len(r)
      PROVE  Rest(r, k) \in Remainders(i, f)
  <2>1. Rest(r, k) = Rest(p, m + k - 1) /\ m + k - 1 \in 1..Len(p)
    BY <1>1, <1>2, <1>3, RestOfRest
  <2> QED
    BY <1>2, <2>1, LenProperties DEF Remainders
<1>6. Head(r) = r[1] /\ Tail(r) \in Seq(STRING)
  BY <1>3, <1>4, HeadTailProperties
<1>7. Head(r) = "return" <=> Len(r) = 1
  BY ShapeAssumption DEF Owners
<1>8. ASSUME Head(r) # "return"
      PROVE  Tail(r) \in Remainders(i, f) /\ Tail(r) = Rest(r, 2)
  <2>1. 2 \in 1..Len(r)
    BY <1>4, <1>7, <1>8
  <2>2. Tail(r) = Rest(r, 2)
    BY <1>3, TailIsSubSeq DEF Rest
  <2> QED
    BY <1>5, <2>1, <2>2
<1>9. ASSUME Head(r) = "return"
      PROVE  Tail(r) = <<>> /\ \A step : Occurs(step, r) => step = "return"
  <2>1. Len(r) = 1 /\ DOMAIN r = {1}
    BY <1>4, <1>7, <1>9
  <2>2. Tail(r) = <<>>
    <3>1. Tail(r) \in Seq(STRING) /\ Len(Tail(r)) = 1 - 1
      BY <1>3, <2>1, HeadTailProperties
    <3>2. Tail(r) # <<>> => Len(Tail(r)) \in Nat \ {0}
      BY <3>1, EmptySeq
    <3> QED
      BY <3>1, <3>2
  <2> QED
    BY <1>6, <1>9, <2>1, <2>2 DEF Occurs
<1>10. r[Len(r)] = "return"
  <2>1. PICK l : l = Len(r) /\ l \in 1..Len(r)
    BY <1>4
  <2>2. Rest(r, l) \in Remainders(i, f)
    BY <1>5, <2>1
  <2>3. Len(Rest(r, l)) = Len(r) - l + 1 /\ Head(Rest(r, l)) = r[l]
    <3>1. r \in Seq(STRING)
      BY <1>3
    <3>2. \A k \in 1..Len(r) : Len(Rest(r, k)) = Len(r) - k + 1 /\ Head(Rest(r, k)) = r[k]
      BY <3>1, RestIs, Zenon
    <3> QED
      BY <2>1, <3>2
  <2>4. Len(Rest(r, l)) = 1
    BY <1>4, <2>1, <2>3
  <2> QED
    BY <2>1, <2>2, <2>3, <2>4, ShapeAssumption DEF Owners
<1> QED
  BY <1>3, <1>4, <1>5, <1>6, <1>8, <1>9, <1>10

LEMMA FromIs ==
  ASSUME NEW S, NEW r \in Seq(S), NEW places \in SUBSET (1..Len(r)), places # {}
  PROVE  \E m \in places : (\A j \in places : m <= j) /\ From(r, places) = Rest(r, m)
<1>1. places \in SUBSET Nat
  BY LenProperties
<1>2. \E m \in places : \A j \in places : m <= j
  BY <1>1, LeastOf
<1> QED
  BY <1>2 DEF From

LEMMA RestIn ==
  ASSUME NEW i \in Instruments, NEW f \in Owners, NEW r \in Remainders(i, f), NEW k \in 1..Len(r)
  PROVE  /\ Rest(r, k) \in Remainders(i, f) /\ Head(Rest(r, k)) = r[k]
         /\ Len(Rest(r, k)) = Len(r) - k + 1
         /\ \A l \in 1..(Len(r) - k + 1) : Rest(r, k)[l] = r[k + l - 1]
         /\ k < Len(r) => Tail(Rest(r, k)) = Rest(r, k + 1)
<1>1. r \in Seq(STRING)
  BY RemainderIs
<1>2. Rest(r, k) \in Remainders(i, f)
  BY RemainderIs
<1> QED
  BY <1>1, <1>2, RestIs

\* What stands at the head decides, or is passed over.
LEMMA ReachesFrom ==
  ASSUME NEW r \in Seq(STRING), NEW k \in 1..Len(r), NEW goals, NEW others
  PROVE  /\ Reaches(Rest(r, k), goals, others) /\ (\A j \in 1..(k - 1) : r[j] \notin others)
                => Reaches(r, goals, others)
         /\ \A i \in k..Len(r) :
                r[i] \in goals /\ (\A j \in k..(i - 1) : r[j] \notin others)
                => Reaches(Rest(r, k), goals, others)
         /\ Reaches(Rest(r, k), goals, others) =>
                \E i \in k..Len(r) : r[i] \in goals /\ \A j \in k..(i - 1) : r[j] \notin others
<1>1. PICK n \in Nat : n = Len(r) /\ k \in 1..n /\ DOMAIN r = 1..n
  BY LenProperties
<1>2. PICK q \in Seq(STRING) : q = Rest(r, k)
  BY RestIs
<1>3. /\ Len(q) = n - k + 1
      /\ \A i \in 1..(n - k + 1) : q[i] = r[k + i - 1]
  <2>1. /\ Len(Rest(r, k)) = Len(r) - k + 1
        /\ \A i \in 1..(Len(r) - k + 1) : Rest(r, k)[i] = r[k + i - 1]
    BY RestIs, Zenon
  <2> QED
    BY <1>1, <1>2, <2>1, Zenon
<1>4. DOMAIN q = 1..(n - k + 1)
  BY <1>3, LenProperties
<1>5. ASSUME Reaches(q, goals, others)
      PROVE  \E i \in k..n : r[i] \in goals /\ \A j \in k..(i - 1) : r[j] \notin others
  <2>1. PICK i \in 1..(n - k + 1) : q[i] \in goals /\ \A j \in 1..(i - 1) : q[j] \notin others
    BY <1>4, <1>5 DEF Reaches
  <2>2. k + i - 1 \in k..n /\ r[k + i - 1] \in goals
    BY <1>1, <1>3, <2>1
  <2>3. ASSUME NEW j \in k..(k + i - 1 - 1)
        PROVE  r[j] \notin others
    <3>1. j - k + 1 \in 1..(i - 1) /\ j - k + 1 \in 1..(n - k + 1) /\ k + (j - k + 1) - 1 = j
      BY <1>1, <2>1, <2>3
    <3> QED
      BY <1>3, <2>1, <3>1
  <2> QED
    BY <2>2, <2>3
<1>6. ASSUME NEW i \in k..n, r[i] \in goals, \A j \in k..(i - 1) : r[j] \notin others
      PROVE  Reaches(q, goals, others)
  <2>1. PICK m \in 1..(n - k + 1) : m = i - k + 1 /\ k + m - 1 = i
    BY <1>1
  <2>2. q[m] \in goals
    BY <1>3, <1>6, <2>1
  <2>3. ASSUME NEW j \in 1..(m - 1)
        PROVE  q[j] \notin others
    <3>1. j \in 1..(n - k + 1) /\ k + j - 1 \in k..(i - 1)
      BY <1>1, <2>1
    <3> QED
      BY <1>3, <1>6, <3>1
  <2> QED
    BY <1>4, <2>1, <2>2, <2>3 DEF Reaches
<1>7. ASSUME Reaches(q, goals, others), \A j \in 1..(k - 1) : r[j] \notin others
      PROVE  Reaches(r, goals, others)
  <2>1. PICK i \in k..n : r[i] \in goals /\ \A j \in k..(i - 1) : r[j] \notin others
    BY <1>5, <1>7
  <2>2. i \in 1..n /\ \A j \in 1..(i - 1) : j \in 1..(k - 1) \/ j \in k..(i - 1)
    BY <1>1
  <2> QED
    BY <1>1, <1>7, <2>1, <2>2 DEF Reaches
<1> QED
  BY <1>1, <1>2, <1>5, <1>6, <1>7

LEMMA ReachesTail ==
  ASSUME NEW i \in Instruments, NEW f \in Owners, NEW r \in Remainders(i, f), NEW goals, NEW others
  PROVE  /\ Head(r) \in goals => Reaches(r, goals, others)
         /\ Head(r) \in others \ goals => ~Reaches(r, goals, others)
         /\ Head(r) \notin goals \cup others /\ Head(r) # "return" =>
                (Reaches(Tail(r), goals, others) <=> Reaches(r, goals, others))
<1>1. PICK n \in Nat \ {0} : n = Len(r) /\ DOMAIN r = 1..n /\ r \in Seq(STRING) /\ Head(r) = r[1]
  <2>1. Len(r) \in Nat /\ Len(r) \in 1..Len(r) /\ DOMAIN r = 1..Len(r) /\ r \in Seq(STRING) /\ Head(r) = r[1]
    BY RemainderIs
  <2>2. Len(r) \in Nat \ {0}
    BY <2>1
  <2> QED
    BY <2>1, <2>2, Zenon
<1>2. 1 \in 1..n /\ (\A j \in 1..(1 - 1) : FALSE) /\ \A j \in 1..n : j = 1 \/ (1 \in 1..(j - 1))
  BY <1>1
<1>3. Head(r) \in goals => Reaches(r, goals, others)
  BY <1>1, <1>2 DEF Reaches
<1>4. Head(r) \in others \ goals => ~Reaches(r, goals, others)
  BY <1>1, <1>2 DEF Reaches
<1>5. ASSUME Head(r) \notin goals \cup others, Head(r) # "return"
      PROVE  Reaches(Tail(r), goals, others) <=> Reaches(r, goals, others)
  <2>1. Tail(r) = Rest(r, 2) /\ Tail(r) \in Remainders(i, f)
    BY <1>5, RemainderIs
  <2>2. 2 \in 1..n
    <3>1. n # 1
      BY <1>1, <1>5, ShapeAssumption DEF Owners
    <3> QED
      BY <1>1, <3>1
  <2>3. \A j \in 1..(2 - 1) : r[j] \notin others
    BY <1>1, <1>5
  <2>r. r \in Seq(STRING) /\ 2 \in 1..Len(r)
    BY <1>1, <2>2
  <2>4. Reaches(Rest(r, 2), goals, others) => Reaches(r, goals, others)
    BY <2>r, <2>3, ReachesFrom
  <2>5. ASSUME Reaches(r, goals, others)
        PROVE  Reaches(Rest(r, 2), goals, others)
    <3>1. PICK m \in 1..n : r[m] \in goals /\ \A j \in 1..(m - 1) : r[j] \notin others
      BY <1>1, <2>5 DEF Reaches
    <3>2. m \in 2..n /\ \A j \in 2..(m - 1) : j \in 1..(m - 1)
      BY <1>1, <1>5, <3>1
    <3> QED
      <4>1. m \in 2..Len(r) /\ r[m] \in goals /\ \A j \in 2..(m - 1) : r[j] \notin others
        BY <1>1, <3>1, <3>2
      <4> QED
        BY <2>r, <4>1, ReachesFrom
  <2> QED
    BY <2>1, <2>4, <2>5
<1> QED
  BY <1>3, <1>4, <1>5

LEMMA OccursIs ==
  ASSUME NEW p, NEW step
  PROVE  Occurs(step, p) <=> Reaches(p, {step}, {})
BY DEF Occurs, Reaches

LEMMA OccursRest ==
  ASSUME NEW i \in Instruments, NEW f \in Owners, NEW r \in Remainders(i, f), NEW step
  PROVE  /\ \A k \in 1..Len(r) : Occurs(step, Rest(r, k)) => Occurs(step, r)
         /\ Occurs(step, Tail(r)) => Occurs(step, r)
         /\ Occurs(step, r) /\ Head(r) # step => Occurs(step, Tail(r))
<1>1. r \in Seq(STRING)
  BY RemainderIs
<1>2. ASSUME NEW k \in 1..Len(r), Occurs(step, Rest(r, k))
      PROVE  Occurs(step, r)
  <2>1. Reaches(Rest(r, k), {step}, {})
    BY <1>2, OccursIs
  <2>2. Reaches(r, {step}, {})
    BY <1>1, <2>1, ReachesFrom
  <2> QED
    BY <2>2, OccursIs
<1>3. CASE Head(r) = "return"
  <2>1. Tail(r) = <<>> /\ (Occurs(step, r) => step = "return")
    BY <1>3, RemainderIs
  <2>2. ~Occurs(step, <<>>)
    <3>1. DOMAIN <<>> = {}
      BY EmptySeq
    <3> QED
      BY <3>1 DEF Occurs
  <2> QED
    BY <1>2, <1>3, <2>1, <2>2
<1>4. CASE Head(r) # "return"
  <2>1. /\ Head(r) \notin {step} \cup {} => (Reaches(Tail(r), {step}, {}) <=> Reaches(r, {step}, {}))
        /\ Head(r) \in {step} => Reaches(r, {step}, {})
    BY <1>4, ReachesTail
  <2> QED
    BY <1>2, <2>1, OccursIs
<1> QED
  BY <1>3, <1>4

LEMMA UnwoundIs ==
  ASSUME NEW i \in Instruments, NEW f \in Owners, NEW q \in Remainders(i, f)
  PROVE  /\ \E m \in 1..Len(q) : Unwound(q) = Rest(q, m) /\ Leaves(q, m) /\ \A j \in 1..(m - 1) : ~Leaves(q, j)
         /\ Unwound(q) \in Remainders(i, f)
         /\ Head(Unwound(q)) \in Leaving
         /\ \A step : Occurs(step, Unwound(q)) => Occurs(step, q)
<1> DEFINE places == {k \in DOMAIN q : Leaves(q, k)}
<1>1. q \in Seq(STRING) /\ Len(q) \in Nat /\ DOMAIN q = 1..Len(q) /\ Len(q) \in 1..Len(q) /\ q[Len(q)] = "return"
  BY RemainderIs
<1>2. Leaves(q, Len(q))
  BY <1>1 DEF Leaves
<1>3. places \in SUBSET (1..Len(q)) /\ places # {}
  BY <1>1, <1>2
<1>4. PICK m \in places : (\A j \in places : m <= j) /\ From(q, places) = Rest(q, m)
  BY <1>1, <1>3, FromIs
<1>5. Unwound(q) = Rest(q, m)
  BY <1>4 DEF Unwound
<1>6. m \in 1..Len(q) /\ Leaves(q, m)
  BY <1>1
<1>7. ASSUME NEW j \in 1..(m - 1)
      PROVE  ~Leaves(q, j)
  <2>1. j \in 1..Len(q) /\ ~(m <= j)
    BY <1>1, <1>6
  <2> QED
    BY <1>1, <1>4, <2>1
<1>8. Unwound(q) \in Remainders(i, f) /\ Head(Unwound(q)) = q[m]
  BY <1>5, <1>6, RestIn
<1>9. q[m] \in Leaving
  BY <1>6 DEF Leaves, Opener, Leaving
<1>10. \A step : Occurs(step, Unwound(q)) => Occurs(step, q)
  BY <1>5, <1>6, OccursRest
<1> QED
  BY <1>5, <1>6, <1>7, <1>8, <1>9, <1>10

\* Whoever raises leaves the section it is in, and no other.
LEMMA UnwoundBrackets ==
  ASSUME NEW i \in Instruments, NEW f \in Owners, NEW q \in Remainders(i, f), NEW begin, NEW end,
         Bracketed(begin, end), end \in DOMAIN Opener, Opener[end] = begin, begin # end
  PROVE  Inside(Unwound(q), begin, end) <=> Inside(q, begin, end)
<1>1. PICK n \in Nat : n = Len(q) /\ DOMAIN q = 1..n /\ q \in Seq(STRING)
  BY RemainderIs
<1>2. PICK m \in 1..n : Unwound(q) = Rest(q, m) /\ Leaves(q, m) /\ \A j \in 1..(m - 1) : ~Leaves(q, j)
  BY <1>1, UnwoundIs
<1>3. ASSUME Inside(q, begin, end)
      PROVE  Inside(Unwound(q), begin, end)
  <2>1. PICK k \in 1..n : q[k] = end /\ \A j \in 1..(k - 1) : q[j] # begin
    BY <1>1, <1>3 DEF Inside, Reaches
  <2>2. Leaves(q, k)
    BY <2>1 DEF Leaves
  <2>3. k \in m..n
    BY <1>1, <1>2, <2>1, <2>2
  <2>4. \A j \in m..(k - 1) : j \in 1..(k - 1)
    BY <1>1, <1>2, <2>1
  <2>5. Reaches(Rest(q, m), {end}, {begin})
    <3>1. q \in Seq(STRING) /\ m \in 1..Len(q) /\ k \in m..Len(q)
      BY <1>1, <2>3
    <3>2. q[k] \in {end} /\ \A j \in m..(k - 1) : q[j] \notin {begin}
      BY <2>1, <2>4
    <3> QED
      BY <3>1, <3>2, ReachesFrom
  <2> QED
    BY <1>2, <2>5 DEF Inside
<1>4. ASSUME Inside(Unwound(q), begin, end)
      PROVE  Inside(q, begin, end)
  <2>1. m \in 1..Len(q) /\ Reaches(Rest(q, m), {end}, {begin})
    BY <1>1, <1>2, <1>4 DEF Inside
  <2>2. PICK k \in m..n : q[k] \in {end} /\ \A j \in m..(k - 1) : q[j] \notin {begin}
    BY <1>1, <2>1, ReachesFrom
  <2>3. CASE \A j \in 1..(m - 1) : q[j] # begin
    <3>1. k \in 1..n /\ q[k] \in {end} /\ \A j \in 1..(k - 1) : q[j] \notin {begin}
      BY <1>2, <2>2, <2>3
    <3> QED
      BY <1>1, <3>1 DEF Inside, Reaches
  <2>4. CASE \E j \in 1..(m - 1) : q[j] = begin
    <3> DEFINE T == {j \in 1..(m - 1) : q[j] = begin}
    <3>1. T \in SUBSET (0..n) /\ T # {}
      BY <1>2, <2>4
    <3>2. PICK j \in T : \A l \in T : l <= j
      BY <3>1, GreatestOf
    <3>3. j \in 1..n /\ j < m /\ q[j] = begin
      BY <1>2
    <3>4. PICK r \in Remainders(i, f) : r = Rest(q, j) /\ Head(r) = begin /\ Len(r) = n - j + 1
                /\ \A l \in 1..(n - j + 1) : r[l] = q[j + l - 1]
      <4>1. j \in 1..Len(q)
        BY <1>1, <3>3
      <4>2. /\ Rest(q, j) \in Remainders(i, f) /\ Head(Rest(q, j)) = q[j]
            /\ Len(Rest(q, j)) = Len(q) - j + 1
            /\ \A l \in 1..(Len(q) - j + 1) : Rest(q, j)[l] = q[j + l - 1]
        BY <4>1, RestIn
      <4>3. Len(q) = n /\ q[j] = begin
        BY <1>1, <3>3
      <4>4. PICK r \in Remainders(i, f) : r = Rest(q, j)
        BY <4>2
      <4>5. /\ Head(r) = begin /\ Len(r) = n - j + 1
            /\ \A l \in 1..(n - j + 1) : r[l] = q[j + l - 1]
        <5>1. /\ Head(r) = q[j] /\ Len(r) = Len(q) - j + 1
              /\ \A l \in 1..(Len(q) - j + 1) : r[l] = q[j + l - 1]
          BY <4>2, <4>4, Zenon
        <5> QED
          BY <4>3, <5>1
      <4> QED
        BY <4>4, <4>5
    <3>5. m - j + 1 \in 1..(n - j + 1) /\ r[m - j + 1] = q[m]
      <4>1. m - j + 1 \in 1..(n - j + 1) /\ j + (m - j + 1) - 1 = m
        BY <3>3
      <4>2. r[m - j + 1] = q[j + (m - j + 1) - 1]
        BY <3>4, <4>1
      <4> QED
        BY <4>1, <4>2
    <3>6. Leaves(r, m - j + 1)
      <4>1. CASE q[m] = "return"
        BY <3>5, <4>1 DEF Leaves
      <4>2. CASE /\ q[m] \in DOMAIN Opener
                 /\ \A a \in 1..(m - 1) :
                        q[a] = Opener[q[m]] => \E c \in a..(m - 1) : q[c] = q[m]
        <5>1. ASSUME NEW a \in 1..(m - j + 1 - 1), r[a] = Opener[q[m]]
              PROVE  \E c \in a..(m - j + 1 - 1) : r[c] = q[m]
          <6>1. PICK b \in 1..(m - 1) : b = j + a - 1 /\ a \in 1..(n - j + 1) /\ a = b - j + 1
            BY <1>1, <1>2, <3>3
          <6>2. q[b] = Opener[q[m]]
            BY <3>4, <5>1, <6>1
          <6>3. PICK c \in b..(m - 1) : q[c] = q[m]
            BY <4>2, <6>2
          <6>4. c - j + 1 \in a..(m - j + 1 - 1) /\ c - j + 1 \in 1..(n - j + 1) /\ j + (c - j + 1) - 1 = c
            BY <1>1, <1>2, <3>3, <6>1, <6>3
          <6> QED
            BY <3>4, <6>3, <6>4
        <5> QED
          BY <3>5, <4>2, <5>1 DEF Leaves
      <4> QED
        BY <1>2, <4>1, <4>2 DEF Leaves
    <3>7. PICK c \in 1..(m - j + 1 - 1) : r[c] = end
      <4>1. m - j + 1 \in DOMAIN r
        BY <3>4, <3>5, RemainderIs
      <4> QED
        BY <3>4, <3>6, <4>1 DEF Bracketed, Owners
    <3>8. PICK l \in 1..n : l = j + c - 1 /\ q[l] = end /\ j < l /\ l < m
      <4>1. c \in 1..(n - j + 1) /\ j + c - 1 \in 1..n /\ j + c - 1 < m /\ j <= j + c - 1
        BY <1>1, <1>2, <3>3
      <4>2. q[j + c - 1] = end
        BY <3>4, <3>7, <4>1
      <4>3. j + c - 1 # j
        BY <3>3, <4>2
      <4> QED
        BY <3>3, <4>1, <4>2, <4>3
    <3>9. PICK u \in Remainders(i, f) : u = Rest(q, l) /\ Head(u) = end
      <4>1. l \in 1..Len(q)
        BY <1>1, <3>8
      <4>2. Rest(q, l) \in Remainders(i, f) /\ Head(Rest(q, l)) = q[l]
        BY <4>1, RestIn
      <4> QED
        BY <3>8, <4>2, Zenon
    <3>10. ~Inside(Tail(u), begin, end)
      BY <3>9 DEF Bracketed, Owners
    <3>11. Tail(u) = Rest(q, l + 1) /\ l + 1 \in 1..Len(q)
      <4>1. l < Len(q) /\ l \in 1..Len(q) /\ l + 1 \in 1..Len(q)
        BY <1>1, <1>2, <3>8
      <4> QED
        BY <1>1, <3>9, <4>1, RestIs
    <3>12. k \in (l + 1)..Len(q) /\ q[k] \in {end}
      BY <1>1, <2>2, <3>8
    <3>13. ASSUME NEW a \in (l + 1)..(k - 1)
           PROVE  q[a] \notin {begin}
      <4>1. a \in 1..(m - 1) \/ a \in m..(k - 1)
        BY <2>2, <3>8
      <4>2. ~(a <= j)
        BY <3>3, <3>8
      <4> QED
        BY <2>2, <3>2, <4>1, <4>2
    <3>14. Reaches(Rest(q, l + 1), {end}, {begin})
      BY <1>1, <3>11, <3>12, <3>13, ReachesFrom
    <3> QED
      BY <3>10, <3>11, <3>14 DEF Inside
  <2> QED
    BY <2>3, <2>4
<1> QED
  BY <1>3, <1>4

LEMMA AfterIs ==
  ASSUME NEW i \in Instruments, NEW f \in Owners, NEW r \in Remainders(i, f),
         NEW step, step # "return", Occurs(step, r)
  PROVE  /\ After(r, step) \in Remainders(i, f)
         /\ \A other : Occurs(other, After(r, step)) => Occurs(other, r)
<1> DEFINE places == {k \in DOMAIN r : r[k] = step}
<1>1. r \in Seq(STRING) /\ DOMAIN r = 1..Len(r)
  BY RemainderIs
<1>2. places \in SUBSET (1..Len(r)) /\ places # {}
  BY <1>1 DEF Occurs
<1>3. PICK m \in places : From(r, places) = Rest(r, m)
  BY <1>1, <1>2, FromIs
<1>4. m \in 1..Len(r) /\ r[m] = step
  BY <1>1
<1>5. PICK q \in Remainders(i, f) : q = Rest(r, m) /\ Head(q) = step
  BY <1>4, RestIn
<1>6. After(r, step) = Tail(q) /\ Tail(q) \in Remainders(i, f)
  BY <1>3, <1>5, RemainderIs DEF After
<1>7. ASSUME NEW other, Occurs(other, Tail(q))
      PROVE  Occurs(other, r)
  <2>1. Occurs(other, q)
    BY <1>7, OccursRest
  <2> QED
    BY <1>4, <1>5, <2>1, OccursRest
<1> QED
  BY <1>6, <1>7

-----------------------------------------------------------------------------
(* The steps *)

\* Every caller is in a program of its facade, and in the part that leaves it
\* once it has raised.
Shape ==
    /\ instrument \in Instruments
    /\ todo \in [Threads -> Seq(STRING)]
    /\ facade \in [Threads -> Owners]
    /\ failed \in [Threads -> BOOLEAN]
    /\ resource \in [Facades -> Threads \cup {None}]
    /\ bus \in Threads \cup {None}
    /\ \A t \in Threads :
           /\ ~Idle(t) => todo[t] \in Remainders(instrument, facade[t])
           /\ failed[t] => ~Idle(t) /\ Head(todo[t]) \in Leaving

\* A step but the last of a call, with what it does to the locks.
Onward(t) ==
    /\ ~Idle(t) /\ Head(todo[t]) # "return"
    /\ Advance(t) \/ Raise(t) \/ Ensure(t)
    /\ UNCHANGED <<instrument, facade>>
    /\ At(t, "lock") => bus = None /\ bus' = t
    /\ At(t, "unlock") => bus' = None
    /\ ~At(t, "lock") /\ ~At(t, "unlock") => bus' = bus
    /\ At(t, "take") => resource[facade[t]] = None /\ resource' = [resource EXCEPT ![facade[t]] = t]
    /\ At(t, "drop") => resource' = [resource EXCEPT ![facade[t]] = None]
    /\ ~At(t, "take") /\ ~At(t, "drop") => resource' = resource

LEMMA StepIs ==
  ASSUME NEW t \in Threads, Step(t)
  PROVE  Onward(t) \/ Return(t)
<1>1. CASE Examine(t) \/ Unsupported(t) \/ Pass(t)
  BY <1>1 DEF Examine, Unsupported, Pass, Onward, At, Idle, locks, record
<1>2. CASE Take(t) \/ Drop(t) \/ Lock(t) \/ Unlock(t)
  BY <1>2 DEF Take, Drop, Lock, Unlock, Onward, At, Idle, locks, record
<1>3. CASE Connect(t) \/ HangUp(t) \/ Settle(t)
  BY <1>3 DEF Connect, HangUp, Settle, Onward, At, Idle, locks, record
<1>4. CASE NoAnswer(t)
  BY <1>4 DEF NoAnswer, Talks, Exchanges, Onward, At, Idle, locks, record
<1>5. CASE Refuse(t)
  BY <1>5 DEF Refuse, Refusable, Onward, At, Idle, locks
<1>6. CASE Exchange(t)
  BY <1>6 DEF Exchange, Onward, At, Idle, locks, record
<1>7. CASE Select(t)
  BY <1>7 DEF Select, Onward, At, Idle, locks
<1>8. CASE InForce(t) \/ Act(t) \/ Measure(t)
  BY <1>8 DEF InForce, Act, Measure, Onward, At, Idle, locks, record
<1>9. CASE Check(t) \/ Drain(t) \/ Clear(t)
  BY <1>9 DEF Check, Drain, Clear, Onward, At, Idle, locks, record
<1>10. CASE Ensure(t) \/ Adopt(t) \/ Follow(t) \/ Name(t)
  BY <1>10 DEF Ensure, Adopt, Follow, Name, Onward, At, Idle, locks, record
<1>11. CASE Return(t)
  BY <1>11
<1> QED
  BY <1>1, <1>2, <1>3, <1>4, <1>5, <1>6, <1>7, <1>8, <1>9, <1>10, <1>11 DEF Step

\* What is left after a step.
LEMMA OnwardIs ==
  ASSUME Shape, NEW t \in Threads, Onward(t)
  PROVE  /\ todo[t] \in Remainders(instrument, facade[t]) /\ instrument \in Instruments /\ facade[t] \in Owners
         /\ \E q \in Remainders(instrument, facade[t]) :
                /\ todo' = [todo EXCEPT ![t] = q]
                /\ failed' = failed \/ failed' = [failed EXCEPT ![t] = TRUE]
                /\ failed'[t] => Head(q) \in Leaving
                /\ ~failed'[t] => ~failed[t] /\ (q = Tail(todo[t]) \/ (At(t, "ensure") /\ q = After(todo[t], "adopt")))
                /\ \A step : Occurs(step, q) => Occurs(step, todo[t])
                /\ \A begin, end :
                       Bracketed(begin, end) /\ end \in DOMAIN Opener /\ Opener[end] = begin /\ begin # end =>
                           (Inside(q, begin, end) <=> Inside(Tail(todo[t]), begin, end))
<1> DEFINE r == todo[t]
<1> DEFINE f == facade[t]
<1>1. r \in Remainders(instrument, f) /\ instrument \in Instruments /\ f \in Owners /\ r # <<>> /\ Head(r) # "return"
  BY DEF Shape, Onward, Idle
<1>2. Tail(r) \in Remainders(instrument, f) /\ \A step : Occurs(step, Tail(r)) => Occurs(step, r)
  BY <1>1, RemainderIs, OccursRest
<1>3. CASE Ensure(t)
  <2>1. Head(r) = "ensure"
    BY <1>3 DEF Ensure, At
  <2>2. Occurs("adopt", r)
    BY <1>1, <2>1, ShapeAssumption DEF Owners
  <2>3. After(r, "adopt") \in Remainders(instrument, f) /\ \A step : Occurs(step, After(r, "adopt")) => Occurs(step, r)
    BY <1>1, <2>2, AfterIs
  <2>4. PICK q \in Remainders(instrument, f) :
            todo' = [todo EXCEPT ![t] = q] /\ q = IF label = choice[t] THEN After(r, "adopt") ELSE Tail(r)
    BY <1>2, <1>3, <2>3 DEF Ensure
  <2>5. failed' = failed /\ ~failed[t]
    BY <1>3, <2>1 DEF Ensure, Shape, Leaving
  <2>6. ASSUME NEW begin, NEW end, Bracketed(begin, end)
        PROVE  Inside(q, begin, end) <=> Inside(Tail(r), begin, end)
    BY <1>1, <2>1, <2>4, <2>6 DEF Bracketed, Owners
  <2> QED
    BY <1>1, <1>2, <2>1, <2>3, <2>4, <2>5, <2>6 DEF At
<1>4. CASE Advance(t) \/ Raise(t)
  <2>1. PICK u \in Remainders(instrument, f) : u = Unwound(Tail(r)) /\ Head(u) \in Leaving
            /\ \A step : Occurs(step, u) => Occurs(step, Tail(r))
    BY <1>1, <1>2, UnwoundIs
  <2>2. PICK q \in Remainders(instrument, f) :
            /\ todo' = [todo EXCEPT ![t] = q]
            /\ \/ q = Tail(r) /\ failed' = failed /\ ~failed[t]
               \/ q = u /\ failed[t] /\ failed' = failed
               \/ q = u /\ failed' = [failed EXCEPT ![t] = TRUE]
    BY <1>2, <1>4, <2>1 DEF Advance, Raise
  <2>3. ASSUME NEW begin, NEW end,
               Bracketed(begin, end), end \in DOMAIN Opener, Opener[end] = begin, begin # end
        PROVE  Inside(q, begin, end) <=> Inside(Tail(r), begin, end)
    <3>1. Inside(u, begin, end) <=> Inside(Tail(r), begin, end)
      BY <1>1, <1>2, <2>1, <2>3, UnwoundBrackets
    <3> QED
      BY <2>2, <3>1
  <2>4. failed \in [Threads -> BOOLEAN]
    BY DEF Shape
  <2>5. /\ failed' = failed \/ failed' = [failed EXCEPT ![t] = TRUE]
        /\ failed'[t] => q = u
        /\ ~failed'[t] => ~failed[t] /\ q = Tail(r)
    BY <2>2, <2>4
  <2> QED
    BY <1>1, <1>2, <2>1, <2>2, <2>3, <2>5
<1> QED
  BY <1>3, <1>4 DEF Onward

\* A call, with the program it runs.
Begins(t, f, p) ==
    /\ Begin(t, f, p)
    /\ p \in ProgramsOf(instrument, f)
    /\ \A u \in Threads : ~Occurs("ready", todo[u])
    /\ Occurs("ready", p) => \A u \in Threads : Idle(u)

Calls(t) == Open(t) \/ Close(t) \/ CallFacade(t) \/ CallDriver(t)

LEMMA IdleIs ==
  ASSUME NEW t \in Threads, Idle(t), NEW goals, NEW others
  PROVE  ~Reaches(todo[t], goals, others) /\ \A step : ~Occurs(step, todo[t])
<1>1. DOMAIN <<>> = {}
  BY EmptySeq
<1> QED
  BY <1>1 DEF Idle, Reaches, Occurs

LEMMA CallIs ==
  ASSUME Shape, NEW t \in Threads, Calls(t)
  PROVE  \E f \in Owners : \E p \in ProgramsOf(instrument, f) : Begins(t, f, p)
<1>1. None \notin Facades /\ instrument \in Instruments
  BY BenchAssumption DEF Shape
<1>2. CASE Open(t)
  <2>1. PICK f \in Facades : \E p \in instrument.open[f] : Begin(t, f, p)
    BY <1>2 DEF Open
  <2>2. PICK p \in instrument.open[f] : Begin(t, f, p)
    BY <2>1
  <2>3. \A u \in Threads : Idle(u) /\ ~Occurs("ready", todo[u])
    BY <1>2, IdleIs DEF Open
  <2> QED
    BY <1>1, <2>2, <2>3 DEF Begins, ProgramsOf, Owners
<1>3. CASE Close(t) \/ CallFacade(t)
  <2>1. PICK f \in Facades : \E p \in instrument.close[f] \cup instrument.calls[f] : Begin(t, f, p)
    BY <1>3 DEF Close, CallFacade
  <2>2. PICK p \in instrument.close[f] \cup instrument.calls[f] : Begin(t, f, p)
    BY <2>1
  <2>3. \A u \in Threads : ~Occurs("ready", todo[u])
    BY <1>3 DEF Close, CallFacade, InUse
  <2>4. p \in ProgramsOf(instrument, f) /\ f \in Owners
    BY <1>1, <2>2 DEF ProgramsOf, Owners
  <2>5. ~Occurs("ready", p)
    BY <1>1, <2>2, <2>4, ShapeAssumption DEF Owners
  <2> QED
    BY <2>2, <2>3, <2>4, <2>5 DEF Begins
<1>4. CASE CallDriver(t)
  <2>1. PICK p \in instrument.direct : Begin(t, None, p)
    BY <1>4 DEF CallDriver
  <2>2. \A u \in Threads : ~Occurs("ready", todo[u])
    BY <1>4 DEF CallDriver, InUse
  <2>3. p \in ProgramsOf(instrument, None) /\ None \in Owners
    BY <2>1 DEF ProgramsOf, Owners
  <2>4. ~Occurs("ready", p)
    BY <1>1, <2>3, ShapeAssumption DEF Owners
  <2> QED
    BY <2>1, <2>2, <2>3, <2>4 DEF Begins
<1> QED
  BY <1>2, <1>3, <1>4 DEF Calls

LEMMA BeginsIs ==
  ASSUME Shape, NEW t \in Threads, NEW f \in Owners, NEW p \in ProgramsOf(instrument, f), Begins(t, f, p)
  PROVE  /\ Idle(t) /\ p \in Remainders(instrument, f) /\ p # <<>>
         /\ ~InSection(p) /\ ~InCall(p) /\ ~Relies(p)
         /\ todo' = [todo EXCEPT ![t] = p] /\ facade' = [facade EXCEPT ![t] = f]
         /\ UNCHANGED <<instrument, failed, bus, resource, active, label, selected, errors, doubt, acted>>
<1>1. instrument \in Instruments /\ p \in Seq(STRING) /\ p # <<>>
  BY ShapeAssumption DEF Shape, Owners
<1>2. Len(p) \in Nat \ {0} /\ DOMAIN p = 1..Len(p)
  BY <1>1, EmptySeq, LenProperties
<1>3. 1 \in DOMAIN p /\ 1 \in 1..Len(p)
  BY <1>2
<1>4. Rest(p, 1) = p
  BY <1>1, SubSeqFull DEF Rest
<1>5. p \in Remainders(instrument, f)
  BY <1>3, <1>4 DEF Remainders
<1>6. ~InSection(p) /\ ~InCall(p)
  BY <1>1, LockAssumption DEF Bracketed, InSection, InCall, Owners
<1>7. ~Relies(p)
  BY <1>1, SelectAssumption DEF Owners
<1> QED
  BY <1>1, <1>5, <1>6, <1>7 DEF Begins, Begin, Idle, locks, beliefs, device

\* A step of the system is a call's first step, a later one or its last.
LEMMA NextIs ==
  ASSUME Shape, Next
  PROVE  \E t \in Threads :
             \/ \E f \in Owners : \E p \in ProgramsOf(instrument, f) : Begins(t, f, p)
             \/ Step(t) /\ Onward(t)
             \/ Return(t)
<1>1. PICK t \in Threads : Calls(t) \/ Step(t)
  BY DEF Next, Calls
<1> QED
  BY <1>1, CallIs, StepIs

LEMMA ReturnIs ==
  ASSUME Shape, NEW t \in Threads, Return(t)
  PROVE  /\ ~Idle(t) /\ todo[t] \in Remainders(instrument, facade[t]) /\ Head(todo[t]) = "return"
         /\ todo' = [todo EXCEPT ![t] = <<>>] /\ <<>> \in Seq(STRING) /\ None \in Owners
         /\ facade' = [facade EXCEPT ![t] = None] /\ failed' = [failed EXCEPT ![t] = FALSE]
         /\ UNCHANGED <<instrument, bus, resource, active, label, selected, errors>>
         /\ \A goals, others : "return" \notin goals => ~Reaches(todo[t], goals, others)
         /\ \A goals, others : ~Reaches(<<>>, goals, others)
         /\ \A step : ~Occurs(step, <<>>)
<1>1. /\ ~Idle(t) /\ todo[t] \in Remainders(instrument, facade[t]) /\ Head(todo[t]) = "return"
      /\ instrument \in Instruments /\ facade[t] \in Owners
  BY DEF Return, At, Shape, Idle
<1>2. \A step : Occurs(step, todo[t]) => step = "return"
  BY <1>1, RemainderIs
<1>3. ASSUME NEW goals, NEW others, "return" \notin goals
      PROVE  ~Reaches(todo[t], goals, others)
  BY <1>2, <1>3 DEF Reaches, Occurs
<1>4. DOMAIN <<>> = {}
  BY EmptySeq
<1>5. \A goals, others : ~Reaches(<<>>, goals, others)
  BY <1>4 DEF Reaches
<1>6. \A step : ~Occurs(step, <<>>)
  BY <1>4 DEF Occurs
<1>7. <<>> \in Seq(STRING)
  BY EmptySeq
<1> QED
  BY <1>1, <1>3, <1>5, <1>6, <1>7 DEF Return, locks, beliefs, device, Owners

-----------------------------------------------------------------------------
(* The locks *)

\* Whoever is in a section holds the lock of it, and nobody else.
Locked ==
    \A t \in Threads :
        /\ bus = t <=> InSection(todo[t])
        /\ \A f \in Facades : resource[f] = t <=> facade[t] = f /\ InCall(todo[t])

\* While an instrument is opened nobody uses it.
Alone == \A t, u \in Threads : t # u /\ Occurs("ready", todo[t]) => Idle(u)

LEMMA ShapeStays ==
  ASSUME Shape, [Next]_vars
  PROVE  Shape'
<1>1. CASE UNCHANGED vars
  BY <1>1 DEF Shape, vars, Idle, locks, record
<1>2. ASSUME NEW t \in Threads, NEW f \in Owners, NEW p \in ProgramsOf(instrument, f), Begins(t, f, p)
      PROVE  Shape'
  <2>1. /\ Idle(t) /\ p \in Remainders(instrument, f) /\ p \in Seq(STRING) /\ p # <<>>
        /\ todo' = [todo EXCEPT ![t] = p] /\ facade' = [facade EXCEPT ![t] = f]
        /\ UNCHANGED <<instrument, failed, resource, bus>>
    BY <1>2, BeginsIs, RemainderIs DEF Shape
  <2> QED
    BY <2>1 DEF Shape, Idle
<1>3. ASSUME NEW t \in Threads, Onward(t)
      PROVE  Shape'
  <2>1. PICK q \in Remainders(instrument, facade[t]) :
            /\ todo' = [todo EXCEPT ![t] = q]
            /\ failed' = failed \/ failed' = [failed EXCEPT ![t] = TRUE]
            /\ failed'[t] => Head(q) \in Leaving
    BY <1>3, OnwardIs
  <2>2. q \in Seq(STRING) /\ q # <<>> /\ UNCHANGED <<instrument, facade>>
    BY <1>3, RemainderIs DEF Shape, Onward
  <2>3. resource' \in [Facades -> Threads \cup {None}] /\ bus' \in Threads \cup {None}
    BY <1>3 DEF Onward, Shape
  <2> QED
    BY <2>1, <2>2, <2>3 DEF Shape, Idle
<1>4. ASSUME NEW t \in Threads, Return(t)
      PROVE  Shape'
  <2>1. /\ todo' = [todo EXCEPT ![t] = <<>>] /\ <<>> \in Seq(STRING) /\ None \in Owners
        /\ facade' = [facade EXCEPT ![t] = None] /\ failed' = [failed EXCEPT ![t] = FALSE]
        /\ UNCHANGED <<instrument, resource, bus>>
    BY <1>4, ReturnIs
  <2> QED
    BY <2>1 DEF Shape, Idle
<1> QED
  BY <1>1, <1>2, <1>3, <1>4, NextIs

\* A step enters a section, leaves it or stays where it is.
LEMMA BracketStep ==
  ASSUME NEW i \in Instruments, NEW f \in Owners, NEW r \in Remainders(i, f), Head(r) # "return",
         NEW begin, NEW end, Bracketed(begin, end), begin # end
  PROVE  /\ Head(r) = begin => ~Inside(r, begin, end) /\ Inside(Tail(r), begin, end)
         /\ Head(r) = end => Inside(r, begin, end) /\ ~Inside(Tail(r), begin, end)
         /\ Head(r) \notin {begin, end} => (Inside(Tail(r), begin, end) <=> Inside(r, begin, end))
<1>1. Head(r) \in {end} => Reaches(r, {end}, {begin})
  BY ReachesTail
<1>2. Head(r) \in {begin} \ {end} => ~Reaches(r, {end}, {begin})
  BY ReachesTail
<1>3. Head(r) \notin {end} \cup {begin} => (Reaches(Tail(r), {end}, {begin}) <=> Reaches(r, {end}, {begin}))
  BY ReachesTail
<1>4. /\ Head(r) = begin => Inside(Tail(r), begin, end)
      /\ Head(r) = end => ~Inside(Tail(r), begin, end)
  BY DEF Bracketed, Owners
<1> QED
  BY <1>1, <1>2, <1>3, <1>4 DEF Inside

LEMMA OnwardBrackets ==
  ASSUME Shape, NEW t \in Threads, Onward(t)
  PROVE  /\ At(t, "lock") => ~InSection(todo[t]) /\ InSection(todo'[t])
         /\ At(t, "unlock") => InSection(todo[t]) /\ ~InSection(todo'[t])
         /\ ~At(t, "lock") /\ ~At(t, "unlock") => (InSection(todo'[t]) <=> InSection(todo[t]))
         /\ At(t, "take") => ~InCall(todo[t]) /\ InCall(todo'[t])
         /\ At(t, "drop") => InCall(todo[t]) /\ ~InCall(todo'[t])
         /\ ~At(t, "take") /\ ~At(t, "drop") => (InCall(todo'[t]) <=> InCall(todo[t]))
<1>1. /\ todo[t] \in Remainders(instrument, facade[t]) /\ instrument \in Instruments /\ facade[t] \in Owners
      /\ ~Idle(t) /\ Head(todo[t]) # "return"
  BY OnwardIs DEF Onward
<1>2. /\ Bracketed("lock", "unlock") /\ "unlock" \in DOMAIN Opener /\ Opener["unlock"] = "lock" /\ "lock" # "unlock"
      /\ Bracketed("take", "drop") /\ "drop" \in DOMAIN Opener /\ Opener["drop"] = "take" /\ "take" # "drop"
  BY LockAssumption DEF Opener
<1>3. PICK q : /\ todo' = [todo EXCEPT ![t] = q]
               /\ Inside(q, "lock", "unlock") <=> Inside(Tail(todo[t]), "lock", "unlock")
               /\ Inside(q, "take", "drop") <=> Inside(Tail(todo[t]), "take", "drop")
  BY <1>2, OnwardIs
<1>4. todo'[t] = q
  BY <1>3 DEF Shape
<1>5. /\ Head(todo[t]) = "lock" => ~Inside(todo[t], "lock", "unlock") /\ Inside(Tail(todo[t]), "lock", "unlock")
      /\ Head(todo[t]) = "unlock" => Inside(todo[t], "lock", "unlock") /\ ~Inside(Tail(todo[t]), "lock", "unlock")
      /\ Head(todo[t]) \notin {"lock", "unlock"} =>
             (Inside(Tail(todo[t]), "lock", "unlock") <=> Inside(todo[t], "lock", "unlock"))
  BY <1>1, <1>2, BracketStep
<1>6. /\ Head(todo[t]) = "take" => ~Inside(todo[t], "take", "drop") /\ Inside(Tail(todo[t]), "take", "drop")
      /\ Head(todo[t]) = "drop" => Inside(todo[t], "take", "drop") /\ ~Inside(Tail(todo[t]), "take", "drop")
      /\ Head(todo[t]) \notin {"take", "drop"} =>
             (Inside(Tail(todo[t]), "take", "drop") <=> Inside(todo[t], "take", "drop"))
  BY <1>1, <1>2, BracketStep
<1> QED
  BY <1>1, <1>3, <1>4, <1>5, <1>6 DEF InSection, InCall, At, Idle

LEMMA LockedStays ==
  ASSUME Shape, Locked, [Next]_vars
  PROVE  Locked'
<1>0. None \notin Threads
  BY BenchAssumption
<1>1. CASE UNCHANGED vars
  BY <1>1 DEF Locked, vars, locks, record
<1>2. ASSUME NEW t \in Threads, NEW f \in Owners, NEW p \in ProgramsOf(instrument, f), Begins(t, f, p)
      PROVE  Locked'
  <2>1. /\ Idle(t) /\ ~InSection(p) /\ ~InCall(p)
        /\ todo' = [todo EXCEPT ![t] = p] /\ facade' = [facade EXCEPT ![t] = f]
        /\ UNCHANGED <<bus, resource>>
    BY <1>2, BeginsIs
  <2>2. ~InSection(todo[t]) /\ ~InCall(todo[t])
    BY <2>1, IdleIs DEF InSection, InCall, Inside
  <2> QED
    BY <2>1, <2>2 DEF Locked, Shape
<1>3. ASSUME NEW t \in Threads, Onward(t)
      PROVE  Locked'
  <2>1. /\ todo' = [todo EXCEPT ![t] = todo'[t]]
        /\ facade' = facade /\ facade[t] \in Owners
    BY <1>3, OnwardIs DEF Onward, Shape
  <2>2. ASSUME NEW u \in Threads
        PROVE  bus' = u <=> InSection(todo'[u])
    <3>1. bus = u <=> InSection(todo[u])
      BY DEF Locked
    <3>2. bus = t <=> InSection(todo[t])
      BY DEF Locked
    <3>3. CASE u = t
      BY <1>0, <1>3, <3>2, <3>3, OnwardBrackets DEF Onward
    <3>4. CASE u # t
      <4>1. todo'[u] = todo[u]
        BY <2>1, <3>4 DEF Shape
      <4> QED
        BY <1>0, <1>3, <3>1, <3>2, <3>4, <4>1, OnwardBrackets DEF Onward
    <3> QED
      BY <3>3, <3>4
  <2>3. ASSUME NEW u \in Threads, NEW f \in Facades
        PROVE  resource'[f] = u <=> facade'[u] = f /\ InCall(todo'[u])
    <3>1. resource[f] = u <=> facade[u] = f /\ InCall(todo[u])
      BY DEF Locked
    <3>2. resource[f] = t <=> facade[t] = f /\ InCall(todo[t])
      BY DEF Locked
    <3>3. \A g \in Facades : resource' = [resource EXCEPT ![facade[t]] = t] =>
                                 resource'[g] = IF g = facade[t] THEN t ELSE resource[g]
      BY DEF Shape
    <3>4. \A g \in Facades : resource' = [resource EXCEPT ![facade[t]] = None] =>
                                 resource'[g] = IF g = facade[t] THEN None ELSE resource[g]
      BY DEF Shape
    <3>5. CASE u = t
      BY <1>0, <1>3, <2>1, <3>2, <3>3, <3>4, <3>5, OnwardBrackets DEF Onward
    <3>6. CASE u # t
      <4>1. todo'[u] = todo[u]
        BY <2>1, <3>6 DEF Shape
      <4> QED
        BY <1>0, <1>3, <2>1, <3>1, <3>2, <3>3, <3>4, <3>6, <4>1, OnwardBrackets DEF Onward
    <3> QED
      BY <3>5, <3>6
  <2> QED
    BY <2>2, <2>3 DEF Locked
<1>4. ASSUME NEW t \in Threads, Return(t)
      PROVE  Locked'
  <2>1. /\ todo' = [todo EXCEPT ![t] = <<>>] /\ facade' = [facade EXCEPT ![t] = None]
        /\ UNCHANGED <<bus, resource>>
        /\ \A goals, others : "return" \notin goals => ~Reaches(todo[t], goals, others)
        /\ \A goals, others : ~Reaches(<<>>, goals, others)
    BY <1>4, ReturnIs
  <2>2. ~InSection(todo[t]) /\ ~InCall(todo[t]) /\ ~InSection(<<>>) /\ ~InCall(<<>>)
    BY <2>1 DEF InSection, InCall, Inside
  <2> QED
    BY <2>1, <2>2 DEF Locked, Shape
<1> QED
  BY <1>1, <1>2, <1>3, <1>4, NextIs

LEMMA AloneStays ==
  ASSUME Shape, Alone, [Next]_vars
  PROVE  Alone'
<1>1. CASE UNCHANGED vars
  BY <1>1 DEF Alone, vars, Idle
<1>2. ASSUME NEW t \in Threads, NEW f \in Owners, NEW p \in ProgramsOf(instrument, f), Begins(t, f, p)
      PROVE  Alone'
  <2>1. todo' = [todo EXCEPT ![t] = p]
    BY <1>2, BeginsIs
  <2> QED
    BY <1>2, <2>1 DEF Begins, Alone, Idle, Shape
<1>3. ASSUME NEW t \in Threads, Onward(t)
      PROVE  Alone'
  <2>1. PICK q : todo' = [todo EXCEPT ![t] = q] /\ \A step : Occurs(step, q) => Occurs(step, todo[t])
    BY <1>3, OnwardIs
  <2>2. ~Idle(t)
    BY <1>3 DEF Onward
  <2> QED
    BY <2>1, <2>2 DEF Alone, Idle, Shape
<1>4. ASSUME NEW t \in Threads, Return(t)
      PROVE  Alone'
  <2>1. todo' = [todo EXCEPT ![t] = <<>>] /\ \A step : ~Occurs(step, <<>>)
    BY <1>4, ReturnIs
  <2> QED
    BY <2>1 DEF Alone, Idle, Shape
<1> QED
  BY <1>1, <1>2, <1>3, <1>4, NextIs

LEMMA LocksAtFirst ==
  ASSUME Init
  PROVE  Shape /\ Locked /\ Alone
<1>1. None \notin Threads /\ None \in Owners /\ <<>> \in Seq(STRING)
  BY BenchAssumption, EmptySeq DEF Owners
<1>2. \A t \in Threads : Idle(t)
  BY DEF Init, Idle
<1>3. \A t \in Threads : ~InSection(todo[t]) /\ ~InCall(todo[t]) /\ ~Occurs("ready", todo[t])
  BY <1>2, IdleIs DEF InSection, InCall, Inside
<1>4. Shape
  BY <1>1, <1>2 DEF Init, Shape
<1> QED
  BY <1>1, <1>3, <1>4 DEF Init, Locked, Alone

\* Both locks are held by whoever is in a section of them, through calls that
\* raise anywhere, and an instrument is opened with nobody else at it.
THEOREM LocksAreHeld == Spec => [](Shape /\ Locked /\ Alone)
<1>1. Init => Shape /\ Locked /\ Alone
  BY LocksAtFirst
<1>2. (Shape /\ Locked /\ Alone) /\ [Next]_vars => (Shape /\ Locked /\ Alone)'
  BY ShapeStays, LockedStays, AloneStays
<1> QED
  BY <1>1, <1>2, PTL DEF Spec

LEMMA CallHasFacade ==
  ASSUME NEW i \in Instruments, NEW f \in Owners, NEW r \in Remainders(i, f), InCall(r)
  PROVE  f \in Facades
<1>1. DOMAIN r = 1..Len(r)
  BY RemainderIs
<1>2. PICK k \in 1..Len(r) : r[k] = "drop"
  BY <1>1 DEF InCall, Inside, Reaches
<1>3. Rest(r, k) \in Remainders(i, f) /\ Head(Rest(r, k)) = "drop"
  BY <1>2, RestIn
<1> QED
  BY <1>3, LockAssumption DEF Owners

\* What keeps another caller from what this one is in the middle of.
LEMMA KeptOut ==
  ASSUME Shape, Locked, Alone, NEW t \in Threads, NEW u \in Threads, t # u, ~Idle(u)
  PROVE  /\ ~Occurs("ready", todo[t])
         /\ InSection(todo[t]) => bus \notin {None, u}
         /\ InCall(todo[t]) => ~(facade[u] = facade[t] /\ InCall(todo[u]))
<1>1. ~Occurs("ready", todo[t])
  BY DEF Alone
<1>2. InSection(todo[t]) => bus \notin {None, u}
  BY BenchAssumption DEF Locked
<1>3. ASSUME InCall(todo[t]), facade[u] = facade[t], InCall(todo[u])
      PROVE  FALSE
  <2>1. facade[t] \in Facades
    <3>1. CASE Idle(t)
      BY <1>3, <3>1, IdleIs DEF InCall, Inside
    <3>2. CASE ~Idle(t)
      <4>1. todo[t] \in Remainders(instrument, facade[t]) /\ instrument \in Instruments /\ facade[t] \in Owners
        BY <3>2 DEF Shape
      <4> QED
        BY <1>3, <4>1, CallHasFacade
    <3> QED
      BY <3>1, <3>2
  <2> QED
    BY <1>3, <2>1 DEF Locked
<1> QED
  BY <1>1, <1>2, <1>3

LEMMA NoneInterferes ==
  ASSUME Shape, Locked, Alone, NEW t \in Threads, NEW u \in Threads, t # u,
         NEW steps, ~Idle(t), Head(todo[t]) \in steps, bus \in {None, t},
         \/ InSection(todo[u])
         \/ Occurs("ready", todo[u])
         \/ InCall(todo[u]) /\ Kept(instrument, facade[u], steps)
  PROVE  FALSE
<1>1. /\ ~Occurs("ready", todo[u]) /\ ~InSection(todo[u])
      /\ InCall(todo[u]) => ~(facade[t] = facade[u] /\ InCall(todo[t]))
  BY KeptOut
<1>2. InCall(todo[u]) /\ Kept(instrument, facade[u], steps)
  BY <1>1
<1>3. todo[t] \in Remainders(instrument, facade[t]) /\ facade[t] \in Owners
  BY DEF Shape
<1>4. Occurs("ready", todo[t])
  BY <1>1, <1>2, <1>3 DEF Kept, Owners
<1>5. ~Idle(u)
  BY <1>2, IdleIs DEF InCall, Inside
<1> QED
  BY <1>4, <1>5 DEF Alone

\* Nobody waits for ever (NobodyStuck): the holder of the transport's lock
\* waits for nothing, and while nobody holds that, no holder of a facade's does.
THEOREM NobodyIsStuck == Spec => []NobodyStuck
<1>1. ASSUME Shape, Locked, Alone
      PROVE  NobodyStuck
  <2> SUFFICES ASSUME NEW t \in Threads, ~Idle(t)
               PROVE  \E u \in Threads : ~Idle(u) /\ ~Waits(u)
    BY DEF NobodyStuck
  <2>0. \A u \in Threads : (InSection(todo[u]) \/ InCall(todo[u])) => ~Idle(u)
    BY IdleIs DEF InSection, InCall, Inside
  <2>1. ASSUME NEW u \in Threads, At(u, "take")
        PROVE  facade[u] \in Facades /\ ~InSection(todo[u]) /\ ~InCall(todo[u])
    <3>1. /\ todo[u] \in Remainders(instrument, facade[u]) /\ instrument \in Instruments /\ facade[u] \in Owners
          /\ Head(todo[u]) = "take"
      BY <1>1, <2>1 DEF Shape, At, Idle
    <3>2. facade[u] \in Facades /\ ~InSection(todo[u])
      BY <3>1, LockAssumption DEF Owners
    <3>3. Bracketed("take", "drop") /\ "take" # "drop"
      BY LockAssumption
    <3>4. ~InCall(todo[u])
      BY <3>1, <3>3, BracketStep DEF InCall
    <3> QED
      BY <3>2, <3>4
  <2>2. CASE bus \in Threads
    <3>1. InSection(todo[bus]) /\ ~Idle(bus)
      BY <1>1, <2>0, <2>2 DEF Locked
    <3>2. ~At(bus, "take")
      BY <2>1, <2>2, <3>1
    <3> QED
      BY <2>2, <3>1, <3>2 DEF Waits
  <2>3. CASE bus = None
    <3>1. CASE Waits(t)
      <4>1. At(t, "take") /\ resource[facade[t]] # None
        BY <2>3, <3>1 DEF Waits
      <4>2. facade[t] \in Facades
        BY <2>1, <4>1
      <4>3. PICK u \in Threads : resource[facade[t]] = u
        BY <1>1, <4>1, <4>2 DEF Shape
      <4>4. InCall(todo[u]) /\ ~Idle(u)
        BY <1>1, <2>0, <4>2, <4>3 DEF Locked
      <4>5. ~At(u, "take")
        BY <2>1, <4>4
      <4> QED
        BY <2>3, <4>4, <4>5 DEF Waits
    <3> QED
      BY <3>1
  <2> QED
    BY <1>1, <2>2, <2>3 DEF Shape
<1> QED
  BY <1>1, LocksAreHeld, PTL

\* A sequence that is to be seen whole (InstroPSU.apply) is (NobodySeesHalf).
THEOREM SequencesAreWhole == Spec => []NobodySeesHalf
<1>1. ASSUME Shape, Locked, Alone
      PROVE  NobodySeesHalf
  <2> SUFFICES ASSUME NEW t \in Threads, NEW u \in Threads, t # u,
                      InTheMiddle(todo[t]), facade[u] = facade[t], Talks(u)
               PROVE  Occurs("hangUp", todo[u])
    BY DEF NobodySeesHalf
  <2>1. ~Idle(t)
    BY IdleIs DEF InTheMiddle
  <2>2. ~Idle(u) /\ Head(todo[u]) \in Exchanges
    BY DEF Talks, At, Idle
  <2>3. /\ todo[t] \in Remainders(instrument, facade[t]) /\ instrument \in Instruments /\ facade[t] \in Owners
        /\ todo[u] \in Remainders(instrument, facade[t])
    BY <1>1, <2>1, <2>2 DEF Shape
  <2>4. InCall(todo[t])
    BY <2>3, WholeAssumption DEF Owners
  <2>5. InCall(todo[u]) \/ Occurs("ready", todo[u]) \/ Occurs("hangUp", todo[u])
    BY <2>2, <2>3, WholeAssumption DEF Owners
  <2>6. ~InCall(todo[u])
    BY <1>1, <2>2, <2>4, KeptOut
  <2>7. ~Occurs("ready", todo[u])
    BY <1>1, <2>1, KeptOut
  <2> QED
    BY <2>5, <2>6, <2>7
<1> QED
  BY <1>1, LocksAreHeld, PTL

-----------------------------------------------------------------------------
(* Refusals *)

\* The caller will read the error queue before anybody else can.
Pending(t) ==
    \/ InSection(todo[t]) /\ Reads(todo[t], "unlock")
    \/ Occurs("ready", todo[t]) /\ Reads(todo[t], "ready")
    \/ /\ InCall(todo[t]) /\ Reads(todo[t], "drop")
       /\ Kept(instrument, facade[t], {"check", "drain", "clear"})

\* A refusal that the caller has not met yet is still in the queue.
Heeding ==
    /\ errors \in Nat
    /\ doubt \in [Threads -> BOOLEAN]
    /\ \A t \in Threads :
           /\ doubt[t] /\ ~failed[t] => errors > 0 /\ Pending(t)
           /\ Idle(t) => ~doubt[t]

Doubts(t) ==
    /\ Head(todo[t]) \in Refusable \cup {"select", "reselect"}
    /\ Looks(todo[t])
    /\ errors' > 0

\* What a step does to the error queue, and to the doubt of the caller.
Heeds(t) ==
    /\ errors' \in Nat
    /\ doubt' \in [Threads -> BOOLEAN]
    /\ \A u \in Threads : doubt'[u] => doubt[u] \/ (u = t /\ Doubts(t))
    /\ Head(todo[t]) \notin {"check", "drain", "clear"} => errors' >= errors
    /\ errors' < errors => bus \in {None, t}
    /\ Head(todo[t]) \in {"check", "drain"} => errors = 0 \/ failed'[t]

LEMMA StepHeeds ==
  ASSUME NEW t \in Threads, Step(t), ~At(t, "return"), errors \in Nat,
         doubt \in [Threads -> BOOLEAN], failed \in [Threads -> BOOLEAN]
  PROVE  Heeds(t)
<1>0. MaxErrors \in Nat \ {0}
  BY BenchAssumption
<1>1. CASE Examine(t) \/ Unsupported(t) \/ Pass(t)
  BY <1>1 DEF Examine, Unsupported, Pass, Heeds, At, device, record
<1>2. CASE Take(t) \/ Drop(t) \/ Lock(t) \/ Unlock(t)
  BY <1>2 DEF Take, Drop, Lock, Unlock, Heeds, At, device, record
<1>3. CASE Connect(t) \/ HangUp(t) \/ Settle(t)
  BY <1>3 DEF Connect, HangUp, Settle, Heeds, At, device, record
<1>4. CASE NoAnswer(t)
  <2>1. UNCHANGED <<errors, doubt>>
    BY <1>4 DEF NoAnswer, device, record
  <2>2. ASSUME Head(todo[t]) \in {"check", "drain"} PROVE failed'[t]
    BY <1>4, <2>2 DEF NoAnswer, Swallowed, At, Raise
  <2> QED
    BY <2>1, <2>2 DEF Heeds
<1>5. CASE Refuse(t)
  <2>1. /\ todo[t] # <<>> /\ Head(todo[t]) \in Refusable
        /\ errors' = IF errors < MaxErrors THEN errors + 1 ELSE errors
        /\ doubt' = [doubt EXCEPT ![t] = doubt[t] \/ Looks(todo[t])]
    BY <1>5 DEF Refuse, At
  <2>2. errors' \in Nat /\ errors' >= errors /\ errors' > 0 /\ ~(errors' < errors)
    BY <1>0, <2>1
  <2>3. Head(todo[t]) \notin {"check", "drain", "clear"}
    BY <2>1 DEF Refusable
  <2>4. doubt' \in [Threads -> BOOLEAN] /\ \A u \in Threads : doubt'[u] => doubt[u] \/ (u = t /\ Looks(todo[t]))
    BY <2>1
  <2> QED
    BY <2>1, <2>2, <2>3, <2>4 DEF Heeds, Doubts
<1>6. CASE Exchange(t)
  BY <1>6 DEF Exchange, Heeds, At, device, record
<1>7. CASE Select(t)
  <2>1. /\ todo[t] # <<>> /\ Head(todo[t]) \in {"select", "reselect"}
        /\ \/ UNCHANGED <<errors, doubt>>
           \/ /\ errors' = IF errors < MaxErrors THEN errors + 1 ELSE errors
              /\ doubt' = [doubt EXCEPT ![t] = doubt[t] \/ Looks(todo[t])]
    BY <1>7 DEF Select, At
  <2>2. CASE UNCHANGED <<errors, doubt>>
    BY <2>1, <2>2 DEF Heeds
  <2>3. CASE /\ errors' = IF errors < MaxErrors THEN errors + 1 ELSE errors
             /\ doubt' = [doubt EXCEPT ![t] = doubt[t] \/ Looks(todo[t])]
    <3>1. errors' \in Nat /\ errors' >= errors /\ errors' > 0 /\ ~(errors' < errors)
      BY <1>0, <2>3
    <3>2. doubt' \in [Threads -> BOOLEAN] /\ \A u \in Threads : doubt'[u] => doubt[u] \/ (u = t /\ Looks(todo[t]))
      BY <2>3
    <3> QED
      BY <2>1, <3>1, <3>2 DEF Heeds, Doubts
  <2> QED
    BY <2>1, <2>2, <2>3
<1>8. CASE InForce(t) \/ Act(t) \/ Measure(t)
  BY <1>8 DEF InForce, Act, Measure, Heeds, At, device, record
<1>9. CASE Check(t) \/ Drain(t) \/ Clear(t)
  BY <1>9 DEF Check, Drain, Clear, Online, Heeds, At, record, Raise
<1>10. CASE Ensure(t) \/ Adopt(t) \/ Follow(t) \/ Name(t)
  BY <1>10 DEF Ensure, Adopt, Follow, Name, Heeds, At, device, record
<1> QED
  BY <1>1, <1>2, <1>3, <1>4, <1>5, <1>6, <1>7, <1>8, <1>9, <1>10 DEF Step, Return

\* The step after a command, once the caller is in doubt, keeps what is pending.
LEMMA PendingStays ==
  ASSUME Shape, NEW t \in Threads, Onward(t), ~failed'[t],
         \/ Pending(t) /\ Head(todo[t]) \notin {"check", "drain"}
         \/ Doubts(t)
  PROVE  Pending(t)'
<1> DEFINE r == todo[t]
<1>1. /\ r \in Remainders(instrument, facade[t]) /\ instrument \in Instruments /\ facade[t] \in Owners
      /\ ~Idle(t) /\ Head(r) # "return"
      /\ UNCHANGED <<instrument, facade>>
  BY OnwardIs DEF Onward
<1>2. PICK q : /\ todo' = [todo EXCEPT ![t] = q]
               /\ q = Tail(r) \/ (At(t, "ensure") /\ q = After(r, "adopt"))
  BY OnwardIs
<1>3. todo'[t] = q
  BY <1>2 DEF Shape
<1>4. ASSUME NEW end, end \notin {"check", "drain"},
             \/ Reads(r, end) /\ Head(r) \notin {"check", "drain"}
             \/ Doubts(t) /\ Reads(Tail(r), end) /\ end \notin Refusable \cup {"select", "reselect"}
      PROVE  Reads(q, end) /\ Head(r) # end /\ Head(r) # "ensure"
  <2>1. CASE Reads(r, end) /\ Head(r) \notin {"check", "drain"}
    <3>1. Head(r) \notin {"clear", "ensure", end}
      <4>1. Head(r) \in {"clear", "ensure", end} \ {"check", "drain"} =>
                ~Reaches(r, {"check", "drain"}, {"clear", "ensure", end})
        BY <1>1, ReachesTail
      <4> QED
        BY <1>4, <2>1, <4>1 DEF Reads
    <3>2. Reads(Tail(r), end)
      <4>1. Head(r) \notin {"check", "drain"} \cup {"clear", "ensure", end} =>
                (Reaches(Tail(r), {"check", "drain"}, {"clear", "ensure", end})
                 <=> Reaches(r, {"check", "drain"}, {"clear", "ensure", end}))
        BY <1>1, ReachesTail
      <4> QED
        BY <2>1, <3>1, <4>1 DEF Reads
    <3>3. q = Tail(r)
      BY <1>2, <3>1 DEF At
    <3> QED
      BY <3>1, <3>2, <3>3
  <2>2. CASE Doubts(t) /\ Reads(Tail(r), end) /\ end \notin Refusable \cup {"select", "reselect"}
    <3>1. Head(r) # "ensure" /\ Head(r) # end
      BY <2>2 DEF Doubts, Refusable
    <3> QED
      BY <1>2, <2>2, <3>1 DEF At
  <2> QED
    BY <1>4, <2>1, <2>2
<1>5. CASE InSection(r) /\ ((Reads(r, "unlock") /\ Head(r) \notin {"check", "drain"}) \/ (Doubts(t) /\ Reads(Tail(r), "unlock")))
  <2>1. Reads(q, "unlock") /\ Head(r) # "unlock"
    BY <1>4, <1>5 DEF Refusable
  <2>2. InSection(todo'[t])
    BY <1>5, <2>1, OnwardBrackets DEF At
  <2> QED
    BY <1>3, <2>1, <2>2 DEF Pending
<1>6. CASE Occurs("ready", r) /\ ((Reads(r, "ready") /\ Head(r) \notin {"check", "drain"}) \/ (Doubts(t) /\ Reads(Tail(r), "ready")))
  <2>1. Reads(q, "ready") /\ Head(r) # "ready" /\ Head(r) # "ensure"
    BY <1>4, <1>6 DEF Refusable
  <2>2. Occurs("ready", Tail(r)) /\ q = Tail(r)
    BY <1>1, <1>2, <1>6, <2>1, OccursRest DEF At
  <2> QED
    BY <1>3, <2>1, <2>2 DEF Pending
<1>7. CASE /\ InCall(r) /\ ((Reads(r, "drop") /\ Head(r) \notin {"check", "drain"}) \/ (Doubts(t) /\ Reads(Tail(r), "drop")))
           /\ Kept(instrument, facade[t], {"check", "drain", "clear"})
  <2>1. Reads(q, "drop") /\ Head(r) # "drop"
    BY <1>4, <1>7 DEF Refusable
  <2>2. InCall(todo'[t])
    BY <1>7, <2>1, OnwardBrackets DEF At
  <2> QED
    BY <1>1, <1>3, <1>7, <2>1, <2>2 DEF Pending
<1>8. CASE Pending(t) /\ Head(r) \notin {"check", "drain"}
  BY <1>5, <1>6, <1>7, <1>8 DEF Pending
<1>9. CASE Doubts(t)
  <2>1. \/ InSection(r) /\ Reads(Tail(r), "unlock")
        \/ Occurs("ready", r) /\ Reads(Tail(r), "ready")
        \/ InCall(r) /\ Reads(Tail(r), "drop") /\ Kept(instrument, facade[t], {"check", "drain", "clear"})
    BY <1>1, <1>9, CheckAssumption DEF Doubts, Owners
  <2> QED
    BY <1>5, <1>6, <1>7, <1>9, <2>1
<1> QED
  BY <1>8, <1>9

LEMMA HeedingStays ==
  ASSUME Shape, Locked, Alone, Heeding, [Next]_vars
  PROVE  Heeding'
<1>1. CASE UNCHANGED vars
  BY <1>1 DEF Heeding, Pending, vars, Idle, device, record
<1>2. ASSUME NEW t \in Threads, NEW f \in Owners, NEW p \in ProgramsOf(instrument, f), Begins(t, f, p)
      PROVE  Heeding'
  <2>1. /\ Idle(t) /\ p # <<>>
        /\ todo' = [todo EXCEPT ![t] = p] /\ facade' = [facade EXCEPT ![t] = f]
        /\ UNCHANGED <<instrument, failed, errors, doubt>>
    BY <1>2, BeginsIs
  <2>2. ASSUME NEW u \in Threads
        PROVE  /\ doubt'[u] /\ ~failed'[u] => errors' > 0 /\ Pending(u)'
               /\ Idle(u)' => ~doubt'[u]
    <3>1. CASE u = t
      BY <2>1, <3>1 DEF Heeding
    <3>2. CASE u # t
      <4>1. todo'[u] = todo[u] /\ facade'[u] = facade[u]
        BY <2>1, <3>2 DEF Shape
      <4> QED
        BY <2>1, <4>1 DEF Heeding, Pending, Idle
    <3> QED
      BY <3>1, <3>2
  <2> QED
    BY <2>1, <2>2 DEF Heeding
<1>3. ASSUME NEW t \in Threads, Step(t), Onward(t)
      PROVE  Heeding'
  <2>1. Heeds(t)
    BY <1>3, StepHeeds DEF Onward, At, Heeding, Shape
  <2>2. /\ ~Idle(t) /\ todo[t] \in Remainders(instrument, facade[t]) /\ facade[t] \in Owners
        /\ UNCHANGED <<instrument, facade>>
    BY <1>3, OnwardIs DEF Onward
  <2>3. PICK q : /\ todo' = [todo EXCEPT ![t] = q] /\ q # <<>>
                 /\ failed' = failed \/ failed' = [failed EXCEPT ![t] = TRUE]
                 /\ ~failed'[t] => ~failed[t]
    <3>1. PICK q \in Remainders(instrument, facade[t]) :
              /\ todo' = [todo EXCEPT ![t] = q]
              /\ failed' = failed \/ failed' = [failed EXCEPT ![t] = TRUE]
              /\ ~failed'[t] => ~failed[t]
      BY <1>3, OnwardIs
    <3>2. q # <<>>
      BY <2>2, RemainderIs DEF Shape
    <3> QED
      BY <3>1, <3>2
  <2>4. errors' \in Nat /\ doubt' \in [Threads -> BOOLEAN]
    BY <2>1 DEF Heeds
  <2>5. ASSUME doubt'[t], ~failed'[t]
        PROVE  errors' > 0 /\ Pending(t)'
    <3>1. CASE Doubts(t)
      BY <1>3, <2>5, <3>1, PendingStays DEF Doubts
    <3>2. CASE doubt[t]
      <4>1. errors > 0 /\ errors \in Nat /\ Pending(t)
        BY <2>3, <2>5, <3>2 DEF Heeding
      <4>2. Head(todo[t]) \notin {"check", "drain"}
        BY <2>1, <2>5, <4>1 DEF Heeds
      <4>3. Head(todo[t]) # "clear"
        <5>1. ASSUME NEW end, Reads(todo[t], end)
              PROVE  Head(todo[t]) # "clear"
          <6>1. Head(todo[t]) \in {"clear", "ensure", end} \ {"check", "drain"} =>
                    ~Reaches(todo[t], {"check", "drain"}, {"clear", "ensure", end})
            BY <2>2, ReachesTail DEF Shape
          <6> QED
            BY <5>1, <6>1 DEF Reads
        <5> QED
          BY <4>1, <5>1 DEF Pending
      <4>4. errors' >= errors
        BY <2>1, <4>2, <4>3 DEF Heeds
      <4>5. Pending(t)'
        BY <1>3, <2>5, <4>1, <4>2, PendingStays
      <4> QED
        BY <2>4, <4>1, <4>4, <4>5
    <3> QED
      BY <2>1, <2>5, <3>1, <3>2 DEF Heeds
  <2>6. ASSUME NEW u \in Threads, u # t
        PROVE  /\ doubt'[u] /\ ~failed'[u] => errors' > 0 /\ Pending(u)'
               /\ Idle(u)' => ~doubt'[u]
    <3>1. todo'[u] = todo[u] /\ facade'[u] = facade[u] /\ failed'[u] = failed[u] /\ (doubt'[u] => doubt[u])
      BY <2>1, <2>2, <2>3, <2>6 DEF Shape, Heeds
    <3>2. Idle(u)' => ~doubt'[u]
      BY <3>1 DEF Heeding, Idle
    <3>3. ASSUME doubt[u], ~failed[u]
          PROVE  errors' > 0 /\ Pending(u)'
      <4>1. errors > 0 /\ errors \in Nat /\ Pending(u)
        BY <3>3 DEF Heeding
      <4>2. Pending(u)'
        BY <2>2, <3>1, <4>1 DEF Pending
      <4>3. ASSUME errors' < errors
            PROVE  FALSE
        <5>1. bus \in {None, t} /\ Head(todo[t]) \in {"check", "drain", "clear"}
          BY <2>1, <2>4, <4>1, <4>3 DEF Heeds
        <5> QED
          BY <2>2, <2>6, <4>1, <5>1, NoneInterferes DEF Pending
      <4> QED
        BY <2>4, <4>1, <4>2, <4>3
    <3> QED
      BY <3>1, <3>2, <3>3
  <2>7. ~Idle(t)'
    BY <2>3 DEF Idle, Shape
  <2> QED
    BY <2>4, <2>5, <2>6, <2>7 DEF Heeding
<1>4. ASSUME NEW t \in Threads, Return(t)
      PROVE  Heeding'
  <2>1. /\ todo' = [todo EXCEPT ![t] = <<>>] /\ facade' = [facade EXCEPT ![t] = None]
        /\ failed' = [failed EXCEPT ![t] = FALSE] /\ doubt' = [doubt EXCEPT ![t] = FALSE]
        /\ UNCHANGED <<instrument, errors>>
    BY <1>4, ReturnIs DEF Return
  <2>2. ASSUME NEW u \in Threads
        PROVE  /\ doubt'[u] /\ ~failed'[u] => errors' > 0 /\ Pending(u)'
               /\ Idle(u)' => ~doubt'[u]
    <3>1. CASE u = t
      BY <2>1, <3>1 DEF Heeding
    <3>2. CASE u # t
      <4>1. todo'[u] = todo[u] /\ facade'[u] = facade[u] /\ failed'[u] = failed[u] /\ doubt'[u] = doubt[u]
        BY <2>1, <3>2 DEF Shape, Heeding
      <4> QED
        BY <2>1, <4>1 DEF Heeding, Pending, Idle
    <3> QED
      BY <3>1, <3>2
  <2> QED
    BY <2>1, <2>2 DEF Heeding
<1> QED
  BY <1>1, <1>2, <1>3, <1>4, NextIs

LEMMA HeedingAtFirst ==
  ASSUME Init
  PROVE  Heeding
<1>1. \A t \in Threads : ~doubt[t]
  BY DEF Init
<1> QED
  BY <1>1 DEF Init, Heeding

\* A call that returns has had none of its commands refused, wherever the
\* method looks at the error queue (SuccessMeansDone).
THEOREM SuccessIsDone == Spec => []SuccessMeansDone
<1>1. Init => Heeding
  BY HeedingAtFirst
<1>2. Shape /\ Locked /\ Alone /\ Heeding /\ [Next]_vars => Heeding'
  BY HeedingStays
<1>3. ASSUME Shape, Heeding
      PROVE  SuccessMeansDone
  <2> SUFFICES ASSUME NEW t \in Threads, Succeeds(t), doubt[t]
               PROVE  FALSE
    BY DEF SuccessMeansDone
  <2>1. Head(todo[t]) = "return" /\ ~failed[t] /\ todo[t] # <<>>
    BY DEF Succeeds, At
  <2>2. todo[t] \in Remainders(instrument, facade[t]) /\ instrument \in Instruments /\ facade[t] \in Owners
    BY <1>3, <2>1 DEF Shape, Idle
  <2>3. Pending(t)
    BY <1>3, <2>1 DEF Heeding
  <2>4. \A step : Occurs(step, todo[t]) => step = "return"
    BY <2>1, <2>2, RemainderIs
  <2>5. PICK end : Reads(todo[t], end)
    BY <2>3 DEF Pending
  <2> QED
    BY <2>4, <2>5 DEF Reads, Reaches, Occurs
<1> QED
  BY <1>1, <1>2, <1>3, LocksAreHeld, PTL DEF Spec

-----------------------------------------------------------------------------
(* Selections *)

\* The driver of this instrument remembers what it selected.
Remembers == \E f \in Owners : \E q \in Remainders(instrument, f) : Head(q) = "reselect"

\* What the last exchange worked on, and what the next one will.
Chosen(t) ==
    /\ acted[t] # None /\ acted[t][1] = "act" => acted[t][2] = choice[t] /\ ~Occurs("follow", todo[t])
    /\ ~failed[t] /\ Relies(todo[t]) => selected = choice[t]
    /\ ~failed[t] /\ (\E step \in Choosing : Occurs(step, todo[t])) => choice[t] \in Named
    /\ Idle(t) => acted[t] = None

Rightly ==
    /\ choice \in [Threads -> Named \cup {None}]
    /\ acted \in [Threads -> {None} \cup ({"act", "sample"} \X Channels)]
    /\ selected \in Channels
    /\ label \in Named \cup {None}
    /\ active = None \/ (active = selected /\ active \in Named /\ Remembers)
    /\ \A t \in Threads : Chosen(t)

\* What a step does to the selection and to the memories of it.
Selects(t) ==
    /\ \/ selected' = selected
       \/ Head(todo[t]) \in {"select", "reselect", "measure"} /\ bus \in {None, t} /\ selected' = choice[t]
    /\ Head(todo[t]) = "select" => selected' = choice[t] \/ failed'[t]
    /\ \/ active' = active /\ (Head(todo[t]) = "reselect" => selected' = selected)
       \/ Head(todo[t]) = "reselect" /\ active' = choice[t] /\ selected' = choice[t]
    /\ Head(todo[t]) = "reselect" => active' = choice[t] \/ failed'[t]

Works(t) ==
    \/ acted' = acted
    \/ Head(todo[t]) = "act" /\ acted' = [acted EXCEPT ![t] = <<"act", selected>>]
    \/ Head(todo[t]) = "sample" /\ acted' = [acted EXCEPT ![t] = <<"sample", selected>>]
    \/ Head(todo[t]) = "measure" /\ acted' = [acted EXCEPT ![t] = <<"act", choice[t]>>]

Adopts(t) ==
    /\ Head(todo[t]) # "follow" => choice' = choice
    /\ Head(todo[t]) = "follow" => choice' = [choice EXCEPT ![t] = label] /\ (label = None => failed'[t])
    /\ label' \in {label, None} \/ (Head(todo[t]) = "adopt" /\ label' = choice[t])

LEMMA StepSelects ==
  ASSUME NEW t \in Threads, Step(t), ~At(t, "return"), failed \in [Threads -> BOOLEAN],
         Head(todo[t]) \in {"select", "reselect", "measure"} => choice[t] \in Channels
  PROVE  Selects(t) /\ Works(t) /\ Adopts(t)
<1>0. USE DEF Selects, Works, Adopts
<1>1. CASE Examine(t) \/ Unsupported(t) \/ Pass(t)
  BY <1>1 DEF Examine, Unsupported, Pass, At, device, beliefs, record
<1>2. CASE Take(t) \/ Drop(t) \/ Lock(t) \/ Unlock(t)
  BY <1>2 DEF Take, Drop, Lock, Unlock, At, device, beliefs, record
<1>3. CASE Connect(t) \/ HangUp(t) \/ Settle(t)
  BY <1>3 DEF Connect, HangUp, Settle, At, device, beliefs, record
<1>4. CASE NoAnswer(t)
  <2>1. /\ UNCHANGED <<selected, active, label, choice, acted>>
        /\ Head(todo[t]) \notin {"hush", "undo"} => failed' = [failed EXCEPT ![t] = TRUE]
        /\ Head(todo[t]) \in Exchanges
    BY <1>4 DEF NoAnswer, Talks, Swallowed, At, device, beliefs, record, Raise
  <2>2. Head(todo[t]) \notin {"hush", "undo"} => failed'[t]
    BY <2>1
  <2>3. Head(todo[t]) # "follow"
    BY <2>1 DEF Exchanges
  <2> QED
    BY <2>1, <2>2, <2>3
<1>5. CASE Refuse(t)
  <2>1. Head(todo[t]) \in Refusable /\ UNCHANGED <<selected, active, label, choice, acted>>
    BY <1>5 DEF Refuse, At, beliefs
  <2> QED
    BY <2>1 DEF Refusable
<1>6. CASE Exchange(t)
  BY <1>6 DEF Exchange, At, device, beliefs, record
<1>7. CASE Select(t)
  BY <1>7 DEF Select, At, Online
<1>8. CASE InForce(t) \/ Act(t) \/ Measure(t)
  BY <1>8 DEF InForce, Act, Measure, Online, At, device, beliefs, record
<1>9. CASE Check(t) \/ Drain(t) \/ Clear(t)
  BY <1>9 DEF Check, Drain, Clear, At, beliefs, record
<1>10. CASE Ensure(t) \/ Adopt(t) \/ Name(t)
  BY <1>10 DEF Ensure, Adopt, Name, At, device, beliefs, record
<1>11. CASE Follow(t)
  BY <1>11 DEF Follow, At, device, beliefs, Raise
<1> QED
  BY <1>1, <1>2, <1>3, <1>4, <1>5, <1>6, <1>7, <1>8, <1>9, <1>10, <1>11 DEF Step, Return

\* What the caller relies on after its own step.
LEMMA ReliesStays ==
  ASSUME Shape, Rightly, NEW t \in Threads, Onward(t), Selects(t), ~failed'[t], Relies(todo'[t])
  PROVE  Head(todo[t]) # "follow" /\ selected' = choice[t]
<1> DEFINE r == todo[t]
<1>1. /\ r \in Remainders(instrument, facade[t]) /\ instrument \in Instruments /\ facade[t] \in Owners
      /\ ~Idle(t) /\ Head(r) # "return"
  BY OnwardIs DEF Onward
<1>2. PICK q : /\ todo' = [todo EXCEPT ![t] = q] /\ ~failed[t]
               /\ q = Tail(r) \/ (At(t, "ensure") /\ q = After(r, "adopt"))
  BY OnwardIs
<1>3. Relies(q)
  BY <1>2 DEF Shape
<1>4. q = Tail(r)
  BY <1>1, <1>2, <1>3, SelectAssumption DEF At, Owners
<1>5. /\ Head(r) \in {"act"} => Reaches(r, {"act"}, {"select", "reselect"})
      /\ Head(r) \notin {"act"} \cup {"select", "reselect"} =>
             (Reaches(Tail(r), {"act"}, {"select", "reselect"}) <=> Reaches(r, {"act"}, {"select", "reselect"}))
  BY <1>1, ReachesTail
<1>6. CASE Head(r) = "select"
  BY <1>6 DEF Selects
<1>7. CASE Head(r) = "reselect"
  <2>1. active' = choice[t]
    BY <1>7 DEF Selects
  <2>2. choice[t] \in Named /\ None \notin Named
    <3>1. Occurs("reselect", r)
      BY <1>1, <1>7, ReachesTail, OccursIs
    <3> QED
      BY <1>2, <3>1, BenchAssumption DEF Rightly, Chosen, Choosing
  <2> QED
    BY <1>7, <2>1, <2>2 DEF Selects, Rightly
<1>8. CASE Head(r) \notin {"select", "reselect"}
  <2>1. Relies(r)
    BY <1>3, <1>4, <1>5, <1>8 DEF Relies
  <2>2. selected = choice[t] /\ Head(r) # "follow"
    BY <1>1, <1>2, <2>1, SelectAssumption DEF Rightly, Chosen, Owners
  <2> QED
    BY <1>8, <2>2 DEF Selects
<1> QED
  BY <1>6, <1>7, <1>8

LEMMA ChosenStays ==
  ASSUME Shape, Rightly, NEW t \in Threads, Onward(t), Selects(t), Works(t), Adopts(t)
  PROVE  Chosen(t)'
<1> DEFINE r == todo[t]
<1>1. /\ r \in Remainders(instrument, facade[t]) /\ instrument \in Instruments /\ facade[t] \in Owners
      /\ ~Idle(t) /\ Head(r) # "return"
  BY OnwardIs DEF Onward
<1>2. PICK q \in Remainders(instrument, facade[t]) :
          /\ todo' = [todo EXCEPT ![t] = q]
          /\ ~failed'[t] => ~failed[t]
          /\ \A step : Occurs(step, q) => Occurs(step, r)
  BY OnwardIs
<1>3. todo'[t] = q /\ q # <<>>
  <2>1. q # <<>>
    BY <1>1, <1>2, RemainderIs, Zenon
  <2>2. DOMAIN todo = Threads
    BY DEF Shape
  <2> QED
    BY <1>2, <2>1, <2>2
<1>4. Occurs(Head(r), r)
  <2>1. Head(r) \in {Head(r)} => Reaches(r, {Head(r)}, {})
    BY <1>1, ReachesTail
  <2> QED
    BY <2>1, OccursIs
<1>5. ASSUME acted'[t] # None, acted'[t][1] = "act"
      PROVE  acted'[t][2] = choice'[t] /\ ~Occurs("follow", q)
  <2>0. acted \in [Threads -> {None} \cup ({"act", "sample"} \X Channels)] /\ Chosen(t)
    BY DEF Rightly
  <2>1. ASSUME acted'[t][2] = choice[t], ~Occurs("follow", r)
        PROVE  acted'[t][2] = choice'[t] /\ ~Occurs("follow", q)
    BY <1>2, <1>4, <2>1 DEF Adopts
  <2>2. CASE acted' = acted
    BY <1>5, <2>0, <2>1, <2>2 DEF Chosen
  <2>3. CASE Head(r) = "act" /\ acted' = [acted EXCEPT ![t] = <<"act", selected>>]
    <3>1. ~Occurs("follow", r)
      BY <1>1, <2>3, SelectAssumption DEF Owners
    <3>2. Relies(r)
      <4>1. Head(r) \in {"act"} => Reaches(r, {"act"}, {"select", "reselect"})
        BY <1>1, ReachesTail
      <4> QED
        BY <2>3, <4>1 DEF Relies
    <3>3. ~failed[t]
      BY <2>3 DEF Shape, Leaving
    <3>4. selected = choice[t]
      BY <2>0, <3>2, <3>3 DEF Chosen
    <3>5. acted'[t][2] = choice[t]
      BY <2>0, <2>3, <3>4
    <3> QED
      BY <2>1, <3>1, <3>5
  <2>4. CASE Head(r) = "measure" /\ acted' = [acted EXCEPT ![t] = <<"act", choice[t]>>]
    <3>1. ~Occurs("follow", r)
      BY <1>1, <2>4, SelectAssumption DEF Owners
    <3>2. acted'[t][2] = choice[t]
      BY <2>0, <2>4
    <3> QED
      BY <2>1, <3>1, <3>2
  <2>5. CASE Head(r) = "sample" /\ acted' = [acted EXCEPT ![t] = <<"sample", selected>>]
    <3>1. acted'[t][1] = "sample"
      BY <2>0, <2>5
    <3> QED
      BY <1>5, <3>1
  <2> QED
    BY <2>2, <2>3, <2>4, <2>5 DEF Works
<1>6. ASSUME ~failed'[t], Relies(q)
      PROVE  selected' = choice'[t]
  <2>1. Head(r) # "follow" /\ selected' = choice[t]
    BY <1>3, <1>6, ReliesStays
  <2> QED
    BY <2>1 DEF Adopts
<1>7. ASSUME ~failed'[t], \E step \in Choosing : Occurs(step, q)
      PROVE  choice'[t] \in Named
  <2>1. choice[t] \in Named
    BY <1>2, <1>7 DEF Rightly, Chosen
  <2>2. CASE Head(r) = "follow"
    <3>1. label # None /\ choice'[t] = label
      BY <1>7, <2>2 DEF Adopts, Rightly
    <3> QED
      BY <3>1 DEF Rightly
  <2> QED
    BY <2>1, <2>2 DEF Adopts
<1> QED
  BY <1>3, <1>5, <1>6, <1>7 DEF Chosen, Idle

LEMMA RightlyStays ==
  ASSUME Named \subseteq Channels, Shape, Locked, Alone, Rightly, [Next]_vars
  PROVE  Rightly'
<1>0. None \notin Named
  BY BenchAssumption
<1>1. CASE UNCHANGED vars
  BY <1>1 DEF Rightly, Chosen, Remembers, vars, Idle, device, beliefs, record
<1>2. ASSUME NEW t \in Threads, NEW f \in Owners, NEW p \in ProgramsOf(instrument, f), Begins(t, f, p)
      PROVE  Rightly'
  <2>1. /\ Idle(t) /\ ~Relies(p) /\ p # <<>>
        /\ todo' = [todo EXCEPT ![t] = p]
        /\ UNCHANGED <<instrument, failed, active, label, selected, acted>>
    BY <1>2, BeginsIs
  <2>2. PICK c \in Named \cup {None} :
            choice' = [choice EXCEPT ![t] = c] /\ ((\E step \in Choosing : Occurs(step, p)) => c \in Named)
    BY <1>2 DEF Begins, Begin
  <2>3. ASSUME NEW u \in Threads
        PROVE  Chosen(u)'
    <3>1. Chosen(u) /\ acted'[u] = acted[u] /\ failed'[u] = failed[u]
      BY <2>1 DEF Rightly
    <3>2. CASE u = t
      <4>1. todo'[t] = p /\ choice'[t] = c /\ acted'[t] = None
        BY <2>1, <2>2, <3>1, <3>2 DEF Shape, Rightly, Chosen
      <4> QED
        BY <2>1, <2>2, <3>2, <4>1 DEF Chosen, Idle
    <3>3. CASE u # t
      <4>1. todo'[u] = todo[u] /\ choice'[u] = choice[u]
        BY <2>1, <2>2, <3>3 DEF Shape, Rightly
      <4> QED
        BY <2>1, <3>1, <4>1 DEF Chosen, Idle
    <3> QED
      BY <3>2, <3>3
  <2>4. choice' \in [Threads -> Named \cup {None}]
    BY <2>2 DEF Rightly
  <2> QED
    BY <2>1, <2>3, <2>4 DEF Rightly, Remembers
<1>3. ASSUME NEW t \in Threads, Step(t), Onward(t)
      PROVE  Rightly'
  <2>1. /\ ~Idle(t) /\ todo[t] \in Remainders(instrument, facade[t]) /\ facade[t] \in Owners
        /\ instrument \in Instruments /\ Head(todo[t]) # "return"
        /\ UNCHANGED <<instrument, facade>>
    BY <1>3, OnwardIs DEF Onward
  <2>2. PICK q : /\ todo' = [todo EXCEPT ![t] = q]
                 /\ failed' = failed \/ failed' = [failed EXCEPT ![t] = TRUE]
    BY <1>3, OnwardIs
  <2>3. Occurs(Head(todo[t]), todo[t])
    <3>1. Head(todo[t]) \in {Head(todo[t])} => Reaches(todo[t], {Head(todo[t])}, {})
      BY <2>1, ReachesTail
    <3> QED
      BY <3>1, OccursIs
  <2>4. Head(todo[t]) \in {"select", "reselect", "measure", "adopt"} => choice[t] \in Named
    BY <2>3 DEF Rightly, Chosen, Choosing, Shape, Leaving
  <2>5. Selects(t) /\ Works(t) /\ Adopts(t)
    <3>1. Head(todo[t]) \in {"select", "reselect", "measure"} => choice[t] \in Channels
      BY <2>4
    <3>2. ~At(t, "return") /\ failed \in [Threads -> BOOLEAN]
      BY <2>1 DEF At, Shape
    <3> QED
      BY <1>3, <3>1, <3>2, StepSelects
  <2>6. Chosen(t)'
    BY <1>3, <2>5, ChosenStays
  <2>7. ASSUME NEW u \in Threads, u # t
        PROVE  Chosen(u)'
    <3>1. Chosen(u)
      BY DEF Rightly
    <3>2. todo'[u] = todo[u] /\ failed'[u] = failed[u]
      BY <2>2, <2>7 DEF Shape
    <3>3. choice'[u] = choice[u]
      BY <2>5, <2>7 DEF Adopts, Rightly
    <3>4. acted'[u] = acted[u]
      BY <2>5, <2>7 DEF Works, Rightly
    <3>5. ASSUME Relies(todo[u]), selected' # selected
          PROVE  FALSE
      <4>1. Head(todo[t]) \in {"select", "reselect", "measure"} /\ bus \in {None, t}
        BY <2>5, <3>5 DEF Selects
      <4>2. ~Idle(u)
        BY <3>5, IdleIs DEF Relies
      <4>3. todo[u] \in Remainders(instrument, facade[u]) /\ facade[u] \in Owners
        BY <4>2 DEF Shape
      <4>4. \/ InSection(todo[u])
            \/ Occurs("ready", todo[u])
            \/ InCall(todo[u]) /\ Kept(instrument, facade[u], {"select", "reselect", "measure"})
        BY <2>1, <3>5, <4>3, SelectAssumption DEF Owners
      <4> QED
        BY <2>1, <2>7, <4>1, <4>4, NoneInterferes
    <3> QED
      BY <3>1, <3>2, <3>3, <3>4, <3>5 DEF Chosen, Idle
  <2>8. choice' \in [Threads -> Named \cup {None}] /\ label' \in Named \cup {None}
    BY <2>4, <2>5 DEF Rightly, Adopts
  <2>9. selected' \in Channels
    BY <2>4, <2>5 DEF Rightly, Selects
  <2>10. acted' \in [Threads -> {None} \cup ({"act", "sample"} \X Channels)]
    <3>1. acted \in [Threads -> {None} \cup ({"act", "sample"} \X Channels)] /\ selected \in Channels
      BY DEF Rightly
    <3>2. Head(todo[t]) = "measure" => choice[t] \in Channels
      BY <2>4
    <3> QED
      BY <2>5, <3>1, <3>2 DEF Works
  <2>11. active' = None \/ (active' = selected' /\ active' \in Named /\ Remembers')
    <3>1. Remembers' <=> Remembers
      BY <2>1 DEF Remembers
    <3>2. CASE Head(todo[t]) = "reselect"
      <4>1. Remembers
        BY <2>1, <3>2 DEF Remembers
      <4> QED
        BY <2>4, <2>5, <3>1, <3>2, <4>1 DEF Selects, Rightly
    <3>3. CASE Head(todo[t]) # "reselect"
      <4>1. active' = active
        BY <2>5, <3>3 DEF Selects
      <4>2. Remembers => Head(todo[t]) \notin {"select", "measure"}
        BY <2>1, SelectAssumption DEF Remembers, Owners
      <4>3. Remembers => selected' = selected
        BY <2>5, <3>3, <4>2 DEF Selects
      <4> QED
        BY <3>1, <4>1, <4>3 DEF Rightly
    <3> QED
      BY <3>2, <3>3
  <2> QED
    BY <2>6, <2>7, <2>8, <2>9, <2>10, <2>11 DEF Rightly
<1>4. ASSUME NEW t \in Threads, Return(t)
      PROVE  Rightly'
  <2>1. /\ todo' = [todo EXCEPT ![t] = <<>>] /\ failed' = [failed EXCEPT ![t] = FALSE]
        /\ choice' = [choice EXCEPT ![t] = None] /\ acted' = [acted EXCEPT ![t] = None]
        /\ UNCHANGED <<instrument, active, label, selected>>
        /\ \A goals, others : ~Reaches(<<>>, goals, others)
        /\ \A step : ~Occurs(step, <<>>)
    BY <1>4, ReturnIs DEF Return
  <2>2. ASSUME NEW u \in Threads
        PROVE  Chosen(u)'
    <3>1. Chosen(u)
      BY DEF Rightly
    <3>2. CASE u = t
      <4>1. todo'[t] = <<>> /\ acted'[t] = None
        BY <2>1 DEF Shape, Rightly
      <4> QED
        BY <2>1, <3>2, <4>1 DEF Chosen, Relies
    <3>3. CASE u # t
      <4>1. todo'[u] = todo[u] /\ choice'[u] = choice[u] /\ acted'[u] = acted[u] /\ failed'[u] = failed[u]
        BY <2>1, <3>3 DEF Shape, Rightly
      <4> QED
        BY <2>1, <3>1, <4>1 DEF Chosen, Idle
    <3> QED
      BY <3>2, <3>3
  <2>3. choice' \in [Threads -> Named \cup {None}] /\ acted' \in [Threads -> {None} \cup ({"act", "sample"} \X Channels)]
    BY <2>1 DEF Rightly
  <2> QED
    BY <2>1, <2>2, <2>3 DEF Rightly, Remembers
<1> QED
  BY <1>1, <1>2, <1>3, <1>4, NextIs

LEMMA RightlyAtFirst ==
  ASSUME Init
  PROVE  Rightly
<1>1. \A t \in Threads : Idle(t)
  BY DEF Init, Idle
<1>2. \A t \in Threads : ~Relies(todo[t]) /\ \A step : ~Occurs(step, todo[t])
  BY <1>1, IdleIs DEF Relies
<1> QED
  BY <1>2 DEF Init, Rightly, Chosen

\* A call that selects and works has worked on its own selection
\* (RightSelection), where the instrument has what callers name.
THEOREM SelectionIsRight == ASSUME Named \subseteq Channels PROVE Spec => []RightSelection
<1>1. Init => Rightly
  BY RightlyAtFirst
<1>2. Shape /\ Locked /\ Alone /\ Rightly /\ [Next]_vars => Rightly'
  BY RightlyStays
<1>3. Rightly => RightSelection
  BY DEF Rightly, Chosen, RightSelection
<1> QED
  BY <1>1, <1>2, <1>3, LocksAreHeld, PTL DEF Spec

-----------------------------------------------------------------------------
(* Types *)

Limits == connected \in BOOLEAN /\ errors \in 0..MaxErrors

LEMMA LimitsStay ==
  ASSUME Limits, [Next]_vars
  PROVE  Limits'
<1>0. MaxErrors \in Nat \ {0}
  BY BenchAssumption
<1>1. CASE UNCHANGED vars
  BY <1>1 DEF Limits, vars, device
<1>2. ASSUME NEW t \in Threads, Calls(t)
      PROVE  UNCHANGED <<connected, errors>>
  BY <1>2 DEF Calls, Open, Close, CallFacade, CallDriver, Begin, device
<1>3. ASSUME NEW t \in Threads, Step(t)
      PROVE  Limits'
  <2>1. CASE Examine(t) \/ Unsupported(t) \/ Pass(t) \/ Take(t) \/ Drop(t) \/ Lock(t) \/ Unlock(t)
    BY <2>1 DEF Examine, Unsupported, Pass, Take, Drop, Lock, Unlock, Limits, device
  <2>2. CASE Connect(t) \/ HangUp(t) \/ Settle(t)
    <3>1. errors' = errors
      BY <2>2 DEF Connect, HangUp, Settle, device
    <3>2. connected' \in BOOLEAN
      <4>1. connected' = connected \/ connected' = TRUE \/ connected' = FALSE \/ connected' = (connected /\ ~failed[t])
        BY <2>2, Zenon DEF Connect, HangUp, Settle
      <4> QED
        BY <4>1, Zenon DEF Limits
    <3> QED
      BY <3>1, <3>2 DEF Limits
  <2>3. CASE NoAnswer(t) \/ Exchange(t) \/ InForce(t) \/ Act(t) \/ Measure(t)
    <3>1. UNCHANGED <<connected, errors>>
      BY <2>3 DEF NoAnswer, Exchange, InForce, Act, Measure, device
    <3> QED
      BY <3>1 DEF Limits
  <2>4. CASE Refuse(t) \/ Select(t)
    <3>1. connected' = connected /\ (errors' = errors \/ errors' = IF errors < MaxErrors THEN errors + 1 ELSE errors)
      BY <2>4 DEF Refuse, Select
    <3> QED
      BY <1>0, <3>1 DEF Limits
  <2>5. CASE Check(t) \/ Drain(t) \/ Clear(t)
    <3>1. connected' = connected /\ (errors' = errors \/ errors' = 0 \/ (errors # 0 /\ errors' = errors - 1))
      BY <2>5 DEF Check, Drain, Clear
    <3> QED
      BY <1>0, <3>1 DEF Limits
  <2>6. CASE Ensure(t) \/ Adopt(t) \/ Follow(t) \/ Name(t) \/ Return(t)
    BY <2>6 DEF Ensure, Adopt, Follow, Name, Return, Limits, device
  <2> QED
    BY <1>3, <2>1, <2>2, <2>3, <2>4, <2>5, <2>6 DEF Step
<1>4. UNCHANGED <<connected, errors>> => Limits'
  BY DEF Limits
<1> QED
  BY <1>1, <1>2, <1>3, <1>4 DEF Next, Calls

\* Every variable keeps its type, where the instrument has what callers name.
THEOREM BenchTypes == ASSUME Named \subseteq Channels PROVE Spec => []TypeOK
<1>1. Init => Limits /\ Rightly /\ Heeding
  <2>1. Init => connected \in BOOLEAN
    BY Zenon DEF Init
  <2>2. Init => errors \in 0..MaxErrors
    BY BenchAssumption DEF Init
  <2> QED
    BY <2>1, <2>2, RightlyAtFirst, HeedingAtFirst DEF Limits
<1>2. Shape /\ Locked /\ Alone /\ Limits /\ Rightly /\ Heeding /\ [Next]_vars => (Limits /\ Rightly /\ Heeding)'
  BY LimitsStay, RightlyStays, HeedingStays
<1>3. Shape /\ Limits /\ Rightly /\ Heeding => TypeOK
  BY DEF Shape, Limits, Rightly, Heeding, TypeOK, Owners
<1> QED
  BY <1>1, <1>2, <1>3, LocksAreHeld, PTL DEF Spec
=============================================================================
