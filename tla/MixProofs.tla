------------------------------ MODULE MixProofs ------------------------------
(***************************************************************************)
(* Proofs about the mix: MixSolver's operators for every list of cues and    *)
(* every set of cameras, the promises of SolverPromise, and MixEngine.       *)
(*                                                                          *)
(* solve and meanwhile_at are recursive functions.  What they compute is     *)
(* proved by induction over the naturals, stated for sets (Induction) and    *)
(* functions (Recursion) and got from their being well-founded.  In order:   *)
(* the loops of the solver; what solve promises; the engine, its threads,    *)
(* its plan and the walk through it.                                         *)
(***************************************************************************)
EXTENDS MixEngine, SolverPromise, FiniteSetTheorems, WellFoundedInduction, TLAPS

-----------------------------------------------------------------------------
(* Induction and recursion over the naturals.                               *)

(* The naturals are well-founded: a set of them that is not empty has a     *)
(* least member.  Induction and recursion are stated for sets and functions *)
(* below, so that they can be used without an operator as a parameter.      *)
LEMMA LeastNat ==
  ASSUME NEW T, T \subseteq Nat, T # {}
  PROVE  \E x \in T : \A y \in T : x <= y
<1> DEFINE R == {ss \in Nat \X Nat : ss[1] < ss[2]}
<1>1. IsWellFoundedOn(R, Nat)
  BY NatLessThanWellFounded DEF OpToRel
<1> HIDE DEF R
<1>2. PICK x \in T : \A y \in T : ~ (<<y, x>> \in R)
  BY <1>1, WFMin
<1>3. ASSUME NEW y \in T PROVE x <= y
  <2>1. ~ (<<y, x>> \in R)
    BY <1>2
  <2>2. x \in Nat /\ y \in Nat
    OBVIOUS
  <2> QED
    BY <2>1, <2>2 DEF R
<1> QED
  BY <1>3

(* A set of naturals with 0 and each successor of a member has them all.    *)
LEMMA Induction ==
  ASSUME NEW S, 0 \in S, \A n \in Nat : n \in S => n + 1 \in S
  PROVE  \A n \in Nat : n \in S
<1> SUFFICES ASSUME Nat \ S # {} PROVE FALSE
  OBVIOUS
<1>1. PICK x \in Nat \ S : \A y \in Nat \ S : x <= y
  BY LeastNat
<1>2. x # 0 /\ x - 1 \in Nat
  BY <1>1
<1>3. x - 1 \in S
  BY <1>1, <1>2
<1>4. (x - 1) + 1 \in S
  BY <1>2, <1>3
<1> QED
  BY <1>1, <1>4

Steps(f, n, a, step) == f[0] = a /\ \A k \in 1..n : f[k] = step[k][f[k - 1]]

(* A function whose values are each defined from the one before exists.     *)
LEMMA Recursion ==
  ASSUME NEW X, NEW a \in X, NEW n \in Nat, NEW step \in [1..n -> [X -> X]]
  PROVE  \E f \in [0..n -> X] : Steps(f, n, a, step)
<1> DEFINE Made(m) == \E f \in [0..m -> X] : f[0] = a /\ \A k \in 1..m : f[k] = step[k][f[k - 1]]
           S == {m \in Nat : m <= n => Made(m)}
<1>1. 0 \in S
  <2>1. Made(0)
    <3> DEFINE g == [k \in 0..0 |-> a]
    <3>1. g \in [0..0 -> X] /\ g[0] = a
      OBVIOUS
    <3>2. \A k \in 1..0 : g[k] = step[k][g[k - 1]]
      OBVIOUS
    <3> HIDE DEF g
    <3> QED
      BY <3>1, <3>2
  <2> QED
    BY <2>1
<1>2. ASSUME NEW m \in Nat, m \in S PROVE m + 1 \in S
  <2> SUFFICES ASSUME m + 1 <= n PROVE Made(m + 1)
    OBVIOUS
  <2>1. PICK f \in [0..m -> X] : f[0] = a /\ \A k \in 1..m : f[k] = step[k][f[k - 1]]
    BY <1>2
  <2> DEFINE g == [k \in 0..(m + 1) |-> IF k <= m THEN f[k] ELSE step[m + 1][f[m]]]
  <2>2. step[m + 1][f[m]] \in X
    OBVIOUS
  <2>3. g \in [0..(m + 1) -> X] /\ g[0] = a
    BY <2>1, <2>2
  <2>4. ASSUME NEW k \in 1..(m + 1) PROVE g[k] = step[k][g[k - 1]]
    <3>1. CASE k <= m
      BY <2>1, <3>1
    <3>2. CASE k = m + 1
      BY <3>2
    <3> QED
      BY <3>1, <3>2
  <2> HIDE DEF g
  <2> QED
    BY <2>3, <2>4
<1>3. n \in S
  <2> HIDE DEF S
  <2> QED
    BY <1>1, <1>2, Induction
<1> QED
  BY <1>3 DEF Steps

-----------------------------------------------------------------------------
(* The loops that pick the cues that take part and the cameras that are     *)
(* there.                                                                   *)
Upto(f, S, n) ==
  f = [k \in 0..n |-> IF k = 0 THEN <<>> ELSE IF k \in S THEN Append(f[k - 1], k) ELSE f[k - 1]]

(* The list that such a loop has made after each of its rounds exists.      *)
LEMMA UptoExists ==
  ASSUME NEW n \in Nat, NEW S
  PROVE  \E f : Upto(f, S, n)
<1> DEFINE X == Seq(Nat)
           step == [k \in 1..n |-> [q \in X |-> IF k \in S THEN Append(q, k) ELSE q]]
<1>1. step \in [1..n -> [X -> X]]
  OBVIOUS
<1>2. \A q \in X, k \in 1..n : step[k][q] = IF k \in S THEN Append(q, k) ELSE q
  OBVIOUS
<1>3. <<>> \in X
  OBVIOUS
<1> HIDE DEF step, X
<1>4. PICK f \in [0..n -> X] : Steps(f, n, <<>>, step)
  BY <1>1, <1>3, Recursion
<1>5. ASSUME NEW k \in 0..n
      PROVE  f[k] = IF k = 0 THEN <<>> ELSE IF k \in S THEN Append(f[k - 1], k) ELSE f[k - 1]
  <2>1. CASE k = 0
    BY <1>4, <2>1 DEF Steps
  <2>2. CASE k # 0
    <3>1. k \in 1..n /\ f[k - 1] \in X
      BY <2>2
    <3> QED
      BY <1>2, <1>4, <2>2, <3>1 DEF Steps
  <2> QED
    BY <2>1, <2>2
<1> QED
  BY <1>5 DEF Upto

(* What the loop has when it has seen 1..k.                                 *)
PickedTo(q, S, k) ==
  /\ q \in Seq(Nat)
  /\ \A i \in 1..Len(q) : q[i] \in S /\ q[i] \in 1..k
  /\ \A i, j \in 1..Len(q) : i < j => q[i] < q[j]
  /\ \A s \in S : s \in 1..k => \E i \in 1..Len(q) : q[i] = s
  /\ Len(q) = Cardinality(S \cap (1..k))

(* What a loop picks, and in which order.                                   *)
LEMMA PickedOnce ==
  ASSUME NEW S \in SUBSET Nat, NEW k \in Nat, NEW q \in Seq(Nat), PickedTo(q, S, k)
  PROVE  PickedTo(IF k + 1 \in S THEN Append(q, k + 1) ELSE q, S, k + 1)
<1>1. Len(q) \in Nat
  OBVIOUS
<1>2. \A i \in 1..Len(q) : q[i] \in S /\ q[i] \in 1..k
  BY DEF PickedTo
<1>3. \A i, j \in 1..Len(q) : i < j => q[i] < q[j]
  BY DEF PickedTo
<1>4. \A s \in S : s \in 1..k => \E i \in 1..Len(q) : q[i] = s
  BY DEF PickedTo
<1>5. CASE k + 1 \notin S
  <2>1. S \cap (1..(k + 1)) = S \cap (1..k)
    BY <1>5
  <2>2. Len(q) = Cardinality(S \cap (1..(k + 1)))
    BY <2>1 DEF PickedTo
  <2>3. \A i \in 1..Len(q) : q[i] \in S /\ q[i] \in 1..(k + 1)
    BY <1>2
  <2>4. ASSUME NEW s \in S, s \in 1..(k + 1) PROVE \E i \in 1..Len(q) : q[i] = s
    <3>1. s \in 1..k
      BY <1>5, <2>4
    <3> QED
      BY <1>4, <3>1
  <2>5. PickedTo(q, S, k + 1)
    BY <1>3, <2>2, <2>3, <2>4 DEF PickedTo
  <2> QED
    BY <1>5, <2>5
<1>6. CASE k + 1 \in S
  <2> DEFINE r == Append(q, k + 1)
  <2>1. r \in Seq(Nat) /\ Len(r) = Len(q) + 1
    OBVIOUS
  <2>2. r[Len(q) + 1] = k + 1 /\ \A i \in 1..Len(q) : r[i] = q[i]
    OBVIOUS
  <2>3. Len(r) = Cardinality(S \cap (1..(k + 1)))
    <3>1. IsFiniteSet(1..k)
      BY FS_Interval
    <3>2. IsFiniteSet(S \cap (1..k))
      BY <3>1, FS_Intersection
    <3>3. S \cap (1..(k + 1)) = (S \cap (1..k)) \cup {k + 1} /\ k + 1 \notin S \cap (1..k)
      BY <1>6
    <3>4. Cardinality((S \cap (1..k)) \cup {k + 1}) = Cardinality(S \cap (1..k)) + 1
      BY <3>2, <3>3, FS_AddElement
    <3>5. Len(q) = Cardinality(S \cap (1..k))
      BY DEF PickedTo
    <3> QED
      BY <2>1, <3>3, <3>4, <3>5
  <2> HIDE DEF r
  <2>4. ASSUME NEW i \in 1..Len(r) PROVE r[i] \in S /\ r[i] \in 1..(k + 1)
    <3>1. i \in 1..Len(q) \/ i = Len(q) + 1
      BY <1>1, <2>1
    <3> QED
      BY <1>2, <1>6, <2>2, <3>1
  <2>5. ASSUME NEW i \in 1..Len(r), NEW j \in 1..Len(r), i < j PROVE r[i] < r[j]
    <3>1. i \in 1..Len(q)
      BY <1>1, <2>1, <2>5
    <3>2. CASE j \in 1..Len(q)
      BY <1>3, <2>2, <2>5, <3>1, <3>2
    <3>3. CASE j = Len(q) + 1
      <4>1. q[i] \in 1..k
        BY <1>2, <3>1
      <4> QED
        BY <2>2, <3>1, <3>3, <4>1
    <3> QED
      BY <1>1, <2>1, <3>2, <3>3
  <2>6. ASSUME NEW s \in S, s \in 1..(k + 1) PROVE \E i \in 1..Len(r) : r[i] = s
    <3>1. CASE s = k + 1
      <4>1. Len(q) + 1 \in 1..Len(r)
        BY <1>1, <2>1
      <4> QED
        BY <2>2, <3>1, <4>1
    <3>2. CASE s # k + 1
      <4>1. s \in 1..k
        BY <2>6, <3>2
      <4>2. PICK i \in 1..Len(q) : q[i] = s
        BY <1>4, <4>1
      <4>3. i \in 1..Len(r) /\ r[i] = q[i]
        BY <1>1, <2>1, <2>2
      <4> QED
        BY <4>2, <4>3
    <3> QED
      BY <3>1, <3>2
  <2>7. PickedTo(r, S, k + 1)
    BY <2>1, <2>3, <2>4, <2>5, <2>6 DEF PickedTo
  <2> QED
    BY <1>6, <2>7 DEF r
<1> QED
  BY <1>5, <1>6

(* InOrder lists the members of a set of naturals, once each and in order.  *)
LEMMA InOrderPicks ==
  ASSUME NEW n \in Nat, NEW S, S \subseteq 1..n
  PROVE  LET q == InOrder(S, n)
         IN  /\ q \in Seq(1..n) /\ Len(q) = Cardinality(S)
             /\ \A i \in 1..Len(q) : q[i] \in S
             /\ \A i, j \in 1..Len(q) : i < j => q[i] < q[j]
             /\ \A s \in S : \E i \in 1..Len(q) : q[i] = s
<1> DEFINE F == CHOOSE f : Upto(f, S, n)
<1>1. Upto(F, S, n)
  BY UptoExists, Zenon
<1>2. InOrder(S, n) = F[n]
  BY DEF InOrder, Upto
<1> HIDE DEF F
<1> DEFINE P == {k \in Nat : k <= n => PickedTo(F[k], S, k)}
<1>3. 0 \in P
  <2>1. F[0] = <<>>
    BY <1>1 DEF Upto
  <2>2. S \cap (1..0) = {} /\ Cardinality({}) = 0
    BY FS_EmptySet
  <2>3. PickedTo(<<>>, S, 0)
    BY <2>2 DEF PickedTo
  <2> QED
    BY <2>1, <2>3
<1>4. ASSUME NEW k \in Nat, k \in P PROVE k + 1 \in P
  <2> SUFFICES ASSUME k + 1 <= n PROVE PickedTo(F[k + 1], S, k + 1)
    OBVIOUS
  <2>1. F[k + 1] = IF k + 1 \in S THEN Append(F[k], k + 1) ELSE F[k]
    <3>1. k + 1 \in 0..n /\ k + 1 # 0 /\ (k + 1) - 1 = k
      OBVIOUS
    <3> QED
      BY <1>1, <3>1 DEF Upto
  <2>2. PickedTo(F[k], S, k) /\ S \in SUBSET Nat
    BY <1>4
  <2>3. F[k] \in Seq(Nat)
    BY <2>2 DEF PickedTo
  <2> QED
    BY <1>4, <2>1, <2>2, <2>3, PickedOnce
<1>5. PickedTo(F[n], S, n)
  <2>1. n \in P
    <3> HIDE DEF P
    <3> QED
      BY <1>3, <1>4, Induction
  <2> QED
    BY <2>1
<1>6. S \cap (1..n) = S
  OBVIOUS
<1>7. InOrder(S, n) \in Seq(1..n)
  BY <1>2, <1>5 DEF PickedTo
<1> QED
  BY <1>2, <1>5, <1>6, <1>7 DEF PickedTo

-----------------------------------------------------------------------------
(* The solver's loops, for every list and every set of cameras.             *)

(* The colour of a pin, 0 if there is none or its camera is not there.      *)
LEMMA PinsFix ==
  ASSUME NEW entries, NEW live, NEW cameras, Len(live) \in Nat, Len(cameras) \in Nat
  PROVE  LET pins == Pins(entries, live, cameras)
         IN  /\ pins \in [1..Len(live) -> 0..Len(cameras)] /\ Len(pins) = Len(live)
             /\ \A i \in 1..Len(live) :
                  \/ /\ pins[i] \in 1..Len(cameras)
                     /\ cameras[pins[i]] = entries[live[i]].pin
                  \/ /\ pins[i] = 0
                     /\ \A k \in 1..Len(cameras) : cameras[k] # entries[live[i]].pin
<1> DEFINE pins == Pins(entries, live, cameras)
           CueAt(i) == {k \in 1..Len(cameras) : cameras[k] = entries[live[i]].pin}
<1>1. pins = [i \in 1..Len(live) |-> IF CueAt(i) = {} THEN 0 ELSE CHOOSE k \in CueAt(i) : TRUE]
  BY DEF Pins
<1>2. ASSUME NEW i \in 1..Len(live)
      PROVE  \/ pins[i] \in 1..Len(cameras) /\ cameras[pins[i]] = entries[live[i]].pin
             \/ pins[i] = 0 /\ \A k \in 1..Len(cameras) : cameras[k] # entries[live[i]].pin
  <2> HIDE DEF pins
  <2>1. CASE CueAt(i) = {}
    BY <1>1, <2>1
  <2>2. CASE CueAt(i) # {}
    <3>1. pins[i] = CHOOSE k \in CueAt(i) : TRUE
      BY <1>1, <2>2
    <3>2. pins[i] \in CueAt(i)
      BY <2>2, <3>1
    <3> QED
      BY <3>2
  <2> QED
    BY <2>1, <2>2
<1>3. pins \in [1..Len(live) -> 0..Len(cameras)]
  <2> HIDE DEF pins
  <2>1. \A i \in 1..Len(live) : pins[i] \in 0..Len(cameras)
    BY <1>2
  <2>2. pins = [i \in 1..Len(live) |-> pins[i]]
    BY <1>1
  <2> QED
    BY <2>1, <2>2
<1>4. Len(pins) = Len(live)
  BY <1>1
<1> QED
  BY <1>2, <1>3, <1>4

(* A gap takes a colour that is there, the least that is free if one is.    *)
LEMMA FillInRange ==
  ASSUME NEW K \in Nat, K >= 2, NEW i, NEW colour, NEW pins, NEW ring,
         pins[i] \in 0..K
  PROVE  /\ Fill(i, colour, pins, K, ring) \in 1..K
         /\ pins[i] # 0 => Fill(i, colour, pins, K, ring) = pins[i]
         /\ (pins[i] = 0 /\ ~((1..K) \subseteq Around(i, colour, pins, ring))) =>
              Fill(i, colour, pins, K, ring) \notin Around(i, colour, pins, ring)
<1> DEFINE free == (1..K) \ Around(i, colour, pins, ring)
           fill == Fill(i, colour, pins, K, ring)
<1>1. fill = IF pins[i] # 0 THEN pins[i]
             ELSE IF free # {} THEN CHOOSE k \in free : \A l \in free : k <= l
             ELSE IF Before(i, colour, pins, ring) = 1 THEN 2 ELSE 1
  BY DEF Fill
<1>2. free \subseteq 1..K
  OBVIOUS
<1>3. free = {} <=> (1..K) \subseteq Around(i, colour, pins, ring)
  OBVIOUS
<1>4. \A k \in free : k \notin Around(i, colour, pins, ring)
  OBVIOUS
<1> HIDE DEF free, fill
<1>5. CASE pins[i] # 0
  BY <1>1, <1>5 DEF fill
<1>6. CASE pins[i] = 0 /\ free # {}
  <2>1. \E k \in free : \A l \in free : k <= l
    <3>1. free \subseteq Nat /\ free # {}
      BY <1>2, <1>6
    <3> QED
      BY <3>1, LeastNat
  <2>2. fill \in free
    BY <1>1, <1>6, <2>1
  <2> QED
    BY <1>2, <1>4, <1>6, <2>2 DEF fill
<1>7. CASE pins[i] = 0 /\ free = {}
  BY <1>1, <1>3, <1>7 DEF fill
<1> QED
  BY <1>5, <1>6, <1>7

(* What cue i reads of the colours given so far.                            *)
LEMMA FillReads ==
  ASSUME NEW K, NEW ring, NEW pins, NEW f, NEW g, Len(pins) \in Nat,
         NEW i \in 1..Len(pins),
         i > 1 => f[i - 1] = g[i - 1],
         (i = Len(pins) /\ ring) => f[1] = g[1]
  PROVE  /\ Around(i, f, pins, ring) = Around(i, g, pins, ring)
         /\ Before(i, f, pins, ring) = Before(i, g, pins, ring)
         /\ Fill(i, f, pins, K, ring) = Fill(i, g, pins, K, ring)
<1>1. Around(i, f, pins, ring) = Around(i, g, pins, ring)
  BY DEF Around
<1>2. Before(i, f, pins, ring) = Before(i, g, pins, ring)
  BY DEF Before
<1> QED
  BY <1>1, <1>2 DEF Fill

FilledBy(f, pins, K, ring) == f = [i \in 1..Len(pins) |-> Fill(i, f, pins, K, ring)]

(* Each gap is filled from what is left of it, the last of a ring also from *)
(* the first: the filling exists, given that a ring of one cue is pinned.   *)
LEMMA FilledExists ==
  ASSUME NEW K \in Nat, K >= 2, NEW ring, NEW pins, Len(pins) \in Nat, Len(pins) >= 1,
         \A i \in 1..Len(pins) : pins[i] \in 0..K,
         Len(pins) = 1 => pins[1] # 0
  PROVE  \E f : FilledBy(f, pins, K, ring)
<1> DEFINE n == Len(pins)
           X == 1..K
           one == Fill(1, pins, pins, K, ring)
           Seen(k, x) == [j \in 0..n |-> IF j = k - 1 THEN x ELSE one]
           step == [k \in 1..n |-> [x \in X |-> Fill(k, Seen(k, x), pins, K, ring)]]
<1>1. \A k \in 1..n : \A x \in X : Fill(k, Seen(k, x), pins, K, ring) \in X
  BY FillInRange
<1>2. step \in [1..n -> [X -> X]]
  BY <1>1
<1>3. \A k \in 1..n : \A x \in X : step[k][x] = Fill(k, Seen(k, x), pins, K, ring)
  OBVIOUS
<1>4. 1 \in X
  OBVIOUS
<1>5. \A k \in 1..n : \A x : Seen(k, x)[k - 1] = x
  OBVIOUS
<1>6. \A k \in 1..n : \A x : k > 2 => Seen(k, x)[1] = one
  OBVIOUS
<1> HIDE DEF step, X, Seen, one
<1>7. PICK f \in [0..n -> X] : Steps(f, n, 1, step)
  BY <1>2, <1>4, Recursion
<1>8. ASSUME NEW k \in 1..n PROVE f[k] = Fill(k, Seen(k, f[k - 1]), pins, K, ring)
  <2>1. f[k - 1] \in X
    BY <1>7
  <2>2. f[k] = step[k][f[k - 1]]
    BY <1>7 DEF Steps
  <2> QED
    BY <1>3, <2>1, <2>2
<1> DEFINE g == [i \in 1..n |-> f[i]]
<1>9. \A i \in 1..n : g[i] = f[i]
  OBVIOUS
<1> HIDE DEF g
<1>10. CASE n = 1
  <2>1. pins[1] # 0
    BY <1>10
  <2>2. Fill(1, g, pins, K, ring) = pins[1]
    BY <2>1 DEF Fill
  <2>3. f[1] = pins[1]
    <3>1. f[1] = Fill(1, Seen(1, f[0]), pins, K, ring)
      BY <1>8, <1>10
    <3> QED
      BY <2>1, <3>1 DEF Fill
  <2>4. g = [i \in 1..n |-> Fill(i, g, pins, K, ring)]
    BY <1>10, <2>2, <2>3 DEF g
  <2> QED
    BY <2>4 DEF FilledBy
<1>11. CASE n > 1
  <2>1. f[1] = one
    <3>1. 1 \in 1..n /\ 1 # n
      BY <1>11
    <3>2. Fill(1, Seen(1, f[0]), pins, K, ring) = Fill(1, pins, pins, K, ring)
      <4> DEFINE s == Seen(1, f[0])
      <4> HIDE DEF s
      <4>1. ASSUME NEW i \in 1..n, i = 1
            PROVE  Fill(i, s, pins, K, ring) = Fill(i, pins, pins, K, ring)
        <5>1. i > 1 => s[i - 1] = pins[i - 1]
          BY <4>1
        <5>2. (i = n /\ ring) => s[1] = pins[1]
          BY <3>1, <4>1
        <5> QED
          BY <5>1, <5>2, FillReads
      <4>3. Fill(1, s, pins, K, ring) = Fill(1, pins, pins, K, ring)
        BY <3>1, <4>1
      <4> QED
        BY <4>3 DEF s
    <3>3. 1 - 1 = 0
      OBVIOUS
    <3> QED
      BY <1>8, <3>1, <3>2, <3>3 DEF one
  <2>2. ASSUME NEW i \in 1..n PROVE f[i] = Fill(i, g, pins, K, ring)
    <3> DEFINE s == Seen(i, f[i - 1])
    <3>1. f[i] = Fill(i, s, pins, K, ring)
      BY <1>8
    <3>2. i > 1 => s[i - 1] = g[i - 1]
      BY <1>5, <1>9
    <3>3. i = n => s[1] = g[1]
      <4> SUFFICES ASSUME i = n PROVE s[1] = g[1]
        OBVIOUS
      <4>1. g[1] = one
        BY <1>9, <1>11, <2>1
      <4>2. CASE n = 2
        <5>1. s[1] = f[1]
          BY <1>5, <4>2
        <5> QED
          BY <2>1, <4>1, <5>1
      <4>3. CASE n > 2
        BY <1>6, <4>1, <4>3
      <4> QED
        BY <1>11, <4>2, <4>3
    <3> HIDE DEF s
    <3>4. Fill(i, s, pins, K, ring) = Fill(i, g, pins, K, ring)
      BY <3>2, <3>3, FillReads
    <3> QED
      BY <3>1, <3>4
  <2>3. g = [i \in 1..n |-> Fill(i, g, pins, K, ring)]
    BY <2>2 DEF g
  <2> QED
    BY <2>3 DEF FilledBy
<1> QED
  BY <1>10, <1>11

(* So each cue has the colour that filling the gaps gives it.               *)
LEMMA FilledIs ==
  ASSUME NEW K \in Nat, K >= 2, NEW ring, NEW pins, Len(pins) \in Nat, Len(pins) >= 1,
         \A i \in 1..Len(pins) : pins[i] \in 0..K,
         Len(pins) = 1 => pins[1] # 0
  PROVE  LET f == Filled(pins, K, ring)
         IN  /\ f \in [1..Len(pins) -> 1..K]
             /\ \A i \in 1..Len(pins) : f[i] = Fill(i, f, pins, K, ring)
<1> DEFINE F == CHOOSE f : FilledBy(f, pins, K, ring)
<1>1. FilledBy(F, pins, K, ring)
  BY FilledExists, Zenon
<1>2. Filled(pins, K, ring) = F
  BY DEF Filled, FilledBy
<1> HIDE DEF F
<1>3. \A i \in 1..Len(pins) : Fill(i, F, pins, K, ring) \in 1..K
  BY FillInRange
<1>4. F = [i \in 1..Len(pins) |-> Fill(i, F, pins, K, ring)]
  BY <1>1 DEF FilledBy
<1>5. \A i \in 1..Len(pins) : F[i] = Fill(i, F, pins, K, ring)
  BY <1>4
<1>6. F \in [1..Len(pins) -> 1..K]
  BY <1>3, <1>4
<1> QED
  BY <1>2, <1>5, <1>6

Cut(n) == (1..n) \X {1, 2}
CutCost(shots, cameras, c) ==
  PanCost(cameras[c[2]], shots[c[1]], shots[next_of(c[1], Len(shots), TRUE)])

(* A ring is cut at an edge, with one of two colours, and no cut is cheaper. *)
LEMMA BestCutIsBest ==
  ASSUME NEW shots, NEW cameras, Len(shots) \in Nat, Len(shots) >= 1,
         \A c \in Cut(Len(shots)) : CutCost(shots, cameras, c) \in Nat
  PROVE  LET c == BestCut(shots, cameras)
         IN  /\ c \in Cut(Len(shots))
             /\ \A d \in Cut(Len(shots)) : CutCost(shots, cameras, c) <= CutCost(shots, cameras, d)
<1> DEFINE n == Len(shots)
           Cost(c) == CutCost(shots, cameras, c)
           First(c, d) == c[1] < d[1] \/ (c[1] = d[1] /\ c[2] <= d[2])
           Best(c) == \A d \in Cut(n) : Cost(c) < Cost(d) \/ (Cost(c) = Cost(d) /\ First(c, d))
           Costs == {Cost(c) : c \in Cut(n)}
<1>1. <<1, 1>> \in Cut(n)
  BY DEF Cut
<1>2. PICK m \in Costs : \A y \in Costs : m <= y
  <2>1. Costs \subseteq Nat /\ Costs # {}
    BY <1>1
  <2> HIDE DEF Costs
  <2> QED
    BY <2>1, LeastNat
<1> DEFINE Least == {c \in Cut(n) : Cost(c) = m}
           Ones == {c[1] : c \in Least}
<1>3. PICK a \in Ones : \A y \in Ones : a <= y
  <2>1. Least # {}
    BY <1>2
  <2>2. Ones \subseteq Nat /\ Ones # {}
    BY <2>1 DEF Cut
  <2> HIDE DEF Ones
  <2> QED
    BY <2>2, LeastNat
<1> DEFINE Twos == {c[2] : c \in {c \in Least : c[1] = a}}
<1>4. PICK b \in Twos : \A y \in Twos : b <= y
  <2>1. \E c \in Least : c[1] = a
    BY <1>3
  <2>2. Twos \subseteq Nat /\ Twos # {}
    BY <2>1 DEF Cut
  <2> HIDE DEF Twos
  <2> QED
    BY <2>2, LeastNat
<1>5. PICK c \in Least : c[1] = a /\ c[2] = b
  BY <1>4
<1>6. Best(c)
  <2> SUFFICES ASSUME NEW d \in Cut(n)
               PROVE  Cost(c) < Cost(d) \/ (Cost(c) = Cost(d) /\ First(c, d))
    OBVIOUS
  <2>1. Cost(c) = m /\ Cost(d) \in Nat /\ m \in Nat /\ m <= Cost(d)
    BY <1>2, <1>5
  <2>2. d[1] \in Nat /\ d[2] \in Nat /\ a \in Nat /\ b \in Nat
    BY <1>5 DEF Cut
  <2>3. CASE Cost(d) = m
    <3>1. d \in Least
      BY <2>3
    <3>2. a <= d[1]
      BY <1>3, <3>1
    <3>3. CASE d[1] = a
      <4>1. b <= d[2]
        BY <1>4, <3>1, <3>3
      <4> QED
        BY <1>5, <2>1, <2>3, <3>3, <4>1
    <3>4. CASE d[1] # a
      BY <1>5, <2>1, <2>2, <2>3, <3>2, <3>4
    <3> QED
      BY <3>3, <3>4
  <2>4. CASE Cost(d) # m
    BY <2>1, <2>4
  <2> QED
    BY <2>3, <2>4
<1> DEFINE B == CHOOSE x \in Cut(n) : Best(x)
<1>7. BestCut(shots, cameras) = B
  BY DEF BestCut, Cut, CutCost
<1>8. B \in Cut(n) /\ Best(B)
  <2>1. \E x \in Cut(n) : Best(x)
    BY <1>5, <1>6
  <2> HIDE DEF Best
  <2> QED
    BY <2>1
<1>9. \A d \in Cut(n) : Cost(B) <= Cost(d)
  <2> SUFFICES ASSUME NEW d \in Cut(n) PROVE Cost(B) <= Cost(d)
    OBVIOUS
  <2>1. Cost(B) < Cost(d) \/ Cost(B) = Cost(d)
    BY <1>8
  <2>2. Cost(B) \in Nat /\ Cost(d) \in Nat
    BY <1>8
  <2> HIDE DEF Cost, B
  <2> QED
    BY <2>1, <2>2
<1> HIDE DEF B
<1> QED
  BY <1>7, <1>8, <1>9

(* Without pins the colours are of cameras that are there.                  *)
LEMMA UnpinnedInRange ==
  ASSUME NEW shots, NEW cameras, NEW ring, Len(shots) \in Nat, Len(shots) >= 1,
         Len(cameras) \in Nat, Len(cameras) >= 2,
         \A c \in Cut(Len(shots)) : CutCost(shots, cameras, c) \in Nat
  PROVE  Unpinned(shots, cameras, ring) \in [1..Len(shots) -> 1..Len(cameras)]
<1> DEFINE n == Len(shots)
           K == Len(cameras)
           odd == ring /\ n > 1 /\ n % 2 = 1
           cut == BestCut(shots, cameras)
           colour(i) == IF odd /\ K = 2 THEN 1 + ((cut[2] - 1 + ((i - cut[1] - 1) % n)) % 2)
                        ELSE IF odd /\ i = n THEN 3
                        ELSE Alternate(i)
<1>1. cut[1] \in 1..n /\ cut[2] \in {1, 2}
  BY BestCutIsBest DEF Cut
<1>2. ASSUME NEW i \in 1..n PROVE colour(i) \in 1..K
  <2> HIDE DEF cut
  <2>1. CASE odd /\ K = 2
    <3>1. (i - cut[1] - 1) % n \in Int
      BY <1>1
    <3> DEFINE x == cut[2] - 1 + ((i - cut[1] - 1) % n)
    <3>2. x \in Int
      BY <1>1, <3>1
    <3> HIDE DEF x
    <3>3. 1 + (x % 2) \in 1..2
      BY <3>2
    <3> QED
      BY <2>1, <3>3 DEF x
  <2>2. CASE ~(odd /\ K = 2) /\ odd /\ i = n
    <3>1. K # 2
      BY <2>2
    <3>2. 3 \in 1..K
      <4>1. \A k \in Nat : k >= 2 /\ k # 2 => 3 \in 1..k
        OBVIOUS
      <4> QED
        BY <3>1, <4>1
    <3>3. colour(i) = 3
      BY <2>2
    <3> HIDE DEF colour
    <3> QED
      BY <3>2, <3>3
  <2>3. CASE ~(odd /\ K = 2) /\ ~(odd /\ i = n)
    <3>1. Alternate(i) \in 1..2
      BY DEF Alternate
    <3>2. colour(i) = Alternate(i)
      BY <2>3
    <3> HIDE DEF colour
    <3> QED
      BY <3>1, <3>2
  <2> QED
    BY <2>1, <2>2, <2>3
<1>3. Unpinned(shots, cameras, ring) = [i \in 1..n |-> colour(i)]
  BY DEF Unpinned
<1> HIDE DEF colour
<1> QED
  BY <1>2, <1>3

(* Every list has a colouring, whatever is pinned.                          *)
LEMMA ColoursInRange ==
  ASSUME NEW entries, NEW live, NEW cameras, NEW ring,
         Len(live) \in Nat, Len(live) >= 1, Len(cameras) \in Nat, Len(cameras) >= 1,
         \A i, j \in 1..Len(live), k \in 1..Len(cameras) :
           PanCost(cameras[k], entries[live[i]].shot, entries[live[j]].shot) \in Nat
  PROVE  Colours(entries, live, cameras, ring) \in [1..Len(live) -> 1..Len(cameras)]
<1> DEFINE n == Len(live)
           K == Len(cameras)
           pins == Pins(entries, live, cameras)
           shots == [i \in 1..n |-> entries[live[i]].shot]
<1>0. K >= 2 \/ K = 1
  <2>1. \A k \in Nat : k >= 1 => k >= 2 \/ k = 1
    OBVIOUS
  <2> QED
    BY <2>1
<1>1. pins \in [1..n -> 0..K]
  BY PinsFix
<1>2. Len(pins) = n /\ \A i \in 1..n : pins[i] \in 0..K
  <2>1. Len(pins) = n
    BY PinsFix
  <2> HIDE DEF pins
  <2> QED
    BY <1>1, <2>1
<1>3. Len(shots) = n /\ \A i \in 1..n : shots[i] = entries[live[i]].shot
  OBVIOUS
<1> HIDE DEF pins, shots
<1>4. ASSUME K >= 2, NEW c \in Cut(n) PROVE CutCost(shots, cameras, c) \in Nat
  <2>1. c[1] \in 1..n /\ c[2] \in 1..K
    BY <1>4 DEF Cut
  <2>2. next_of(c[1], n, TRUE) \in 1..n
    <3>1. \A m \in Nat : \A i \in 1..m : next_of(i, m, TRUE) \in 1..m
      BY DEF next_of
    <3> QED
      BY <2>1, <3>1
  <2> DEFINE j == next_of(c[1], n, TRUE)
  <2>3. CutCost(shots, cameras, c) = PanCost(cameras[c[2]], shots[c[1]], shots[j])
    BY <1>3 DEF CutCost
  <2> HIDE DEF j
  <2> QED
    BY <1>3, <2>1, <2>2, <2>3 DEF j
<1>5. CASE K = 1
  BY <1>5 DEF Colours
<1>6. CASE K # 1 /\ \A i \in 1..n : pins[i] = 0
  <2>1. Colours(entries, live, cameras, ring) = Unpinned(shots, cameras, ring)
    BY <1>6 DEF Colours, pins, shots
  <2>2. K >= 2
    BY <1>0, <1>6
  <2>3. Unpinned(shots, cameras, ring) \in [1..Len(shots) -> 1..K]
    BY <1>3, <1>4, <2>2, UnpinnedInRange
  <2> QED
    BY <1>3, <2>1, <2>3
<1>7. CASE K # 1 /\ ~ \A i \in 1..n : pins[i] = 0
  <2>1. Colours(entries, live, cameras, ring) = Filled(pins, K, ring)
    BY <1>7 DEF Colours, pins
  <2>2. K >= 2 /\ (Len(pins) = 1 => pins[1] # 0)
    <3>1. n = 1 => pins[1] # 0
      BY <1>7
    <3> QED
      BY <1>0, <1>2, <1>7, <3>1
  <2>3. Filled(pins, K, ring) \in [1..Len(pins) -> 1..K]
    BY <1>2, <2>2, FilledIs
  <2> QED
    BY <1>2, <2>1, <2>3
<1> QED
  BY <1>5, <1>6, <1>7

(* The cues that take part, in the order they are authored.                 *)
LEMMA LiveIs ==
  ASSUME NEW entries, Len(entries) \in Nat
  PROVE  LET live == Live(entries)
         IN  /\ live \in Seq(1..Len(entries)) /\ Len(live) \in Nat
             /\ Len(live) = Cardinality({i \in 1..Len(entries) : entries[i].enabled})
             /\ \A i \in 1..Len(live) : live[i] \in 1..Len(entries) /\ entries[live[i]].enabled
             /\ \A i, j \in 1..Len(live) : i < j => live[i] < live[j]
<1> DEFINE S == {i \in 1..Len(entries) : entries[i].enabled}
           q == InOrder(S, Len(entries))
<1>1. S \subseteq 1..Len(entries)
  OBVIOUS
<1>2. \A i \in S : entries[i].enabled
  OBVIOUS
<1>3. Live(entries) = q
  BY DEF Live
<1> HIDE DEF S
<1>4. q \in Seq(1..Len(entries)) /\ Len(q) = Cardinality(S)
  BY <1>1, InOrderPicks
<1>5. \A i \in 1..Len(q) : q[i] \in S
  BY <1>1, InOrderPicks
<1>6. \A i, j \in 1..Len(q) : i < j => q[i] < q[j]
  BY <1>1, InOrderPicks
<1> HIDE DEF q
<1>7. Len(q) \in Nat
  BY <1>4
<1>8. \A i \in 1..Len(q) : q[i] \in 1..Len(entries) /\ entries[q[i]].enabled
  BY <1>1, <1>2, <1>5
<1> QED
  BY <1>3, <1>4, <1>6, <1>7, <1>8 DEF S

(* A plan has no cue, or one for each cue that takes part.                  *)
LEMMA SolveIs ==
  ASSUME NEW entries, NEW cameras, NEW ring, Len(entries) \in Nat, Len(cameras) \in Nat
  PROVE  LET live == Live(entries)
             p    == solve(entries, cameras, ring)
         IN  /\ (Len(live) = 0 \/ Len(cameras) = 0) => p.cues = <<>>
             /\ (Len(live) # 0 /\ Len(cameras) # 0) =>
                  /\ Len(p.cues) = Len(live) /\ DOMAIN p.cues = 1..Len(live)
                  /\ \A i \in 1..Len(live) :
                       /\ p.cues[i].cue_index = live[i]
                       /\ p.cues[i].camera = cameras[Colours(entries, live, cameras, ring)[i]]
                       /\ p.cues[i].shot = entries[live[i]].shot
<1> DEFINE live == Live(entries)
           n == Len(live)
           p == solve(entries, cameras, ring)
           colour == Colours(entries, live, cameras, ring)
<1>1. n \in Nat
  BY LiveIs
<1>2. CASE n = 0 \/ Len(cameras) = 0
  BY <1>2 DEF solve, NoPlan
<1>3. CASE n # 0 /\ Len(cameras) # 0
  <2> DEFINE shots == [i \in 1..n |-> entries[live[i]].shot]
             OnAir(i) == LET q == prev_of(i, n, ring)
                         IN  n > 1 /\ q # 0 /\ colour[q] = colour[i]
             air == [i \in 1..n |-> OnAir(i)]
             mean == [i \in 1..n |-> Meanwhile(i, colour, shots, cameras, ring)]
  <2>1. p.cues = [i \in 1..n |->
                    [cue_index |-> live[i], camera |-> cameras[colour[i]],
                     shot |-> shots[i], on_air_move |-> OnAir(i),
                     meanwhile |-> Meanwhile(i, colour, shots, cameras, ring)]]
    BY <1>3 DEF solve
  <2>2. \A i \in 1..n : shots[i] = entries[live[i]].shot
    OBVIOUS
  <2> HIDE DEF shots, OnAir, colour, live, p
  <2>3. Len(p.cues) = n /\ DOMAIN p.cues = 1..n
    BY <1>1, <2>1
  <2>4. ASSUME NEW i \in 1..n
        PROVE  /\ p.cues[i].cue_index = live[i] /\ p.cues[i].camera = cameras[colour[i]]
               /\ p.cues[i].shot = shots[i]
    BY <2>1
  <2> QED
    BY <1>1, <1>3, <2>2, <2>3, <2>4 DEF p, live, colour
<1> QED
  BY <1>2, <1>3

(* The cue after one of the plan's is one of the plan's, or none at the end *)
(* of a once run.                                                           *)
LEMMA TurnedIs ==
  ASSUME NEW cur \in Int, NEW d \in Int, NEW n \in Nat, n >= 1, NEW m
  PROVE  Turned(cur, d, n, m) \in Int \X Int
<1>1. (cur % n) + 1 \in Int
  OBVIOUS
<1> QED
  BY <1>1 DEF Turned

(* The walk of a run: where it is after each step, from where it was.       *)
Walking(f, i, d, n, m) ==
  f = [k \in 0..(2 * n) |-> IF k = 0 THEN <<i, d>>
                            ELSE IF f[k - 1][1] = 0 THEN <<0, d>>
                            ELSE Turned(f[k - 1][1], f[k - 1][2], n, m)]

(* The walk through the plan exists.                                        *)
LEMMA WalkExists ==
  ASSUME NEW i \in Int, NEW d \in Int, NEW n \in Nat, n >= 1, NEW m
  PROVE  \E f \in [0..(2 * n) -> Int \X Int] : Walking(f, i, d, n, m)
<1> DEFINE X == Int \X Int
           To(q) == IF q[1] = 0 THEN <<0, d>> ELSE Turned(q[1], q[2], n, m)
           step == [k \in 1..(2 * n) |-> [q \in X |-> To(q)]]
<1>1. ASSUME NEW q \in X PROVE To(q) \in X
  <2>1. Turned(q[1], q[2], n, m) \in X
    BY TurnedIs
  <2> QED
    BY <2>1
<1>2. 2 * n \in Nat /\ <<i, d>> \in X
  OBVIOUS
<1> HIDE DEF To
<1>3. step \in [1..(2 * n) -> [X -> X]]
  BY <1>1
<1>4. \A k \in 1..(2 * n) : \A q \in X : step[k][q] = To(q)
  OBVIOUS
<1> HIDE DEF step, X
<1>5. PICK f \in [0..(2 * n) -> X] : Steps(f, 2 * n, <<i, d>>, step)
  BY <1>2, <1>3, Recursion
<1>6. ASSUME NEW k \in 0..(2 * n)
      PROVE  f[k] = IF k = 0 THEN <<i, d>> ELSE To(f[k - 1])
  <2>1. CASE k = 0
    BY <1>5, <2>1 DEF Steps
  <2>2. CASE k # 0
    <3>1. k \in 1..(2 * n) /\ f[k - 1] \in X
      BY <2>2
    <3>2. f[k] = step[k][f[k - 1]]
      BY <1>5, <3>1 DEF Steps
    <3> QED
      BY <1>4, <2>2, <3>1, <3>2
  <2> QED
    BY <2>1, <2>2
<1>7. f = [k \in 0..(2 * n) |-> IF k = 0 THEN <<i, d>> ELSE To(f[k - 1])]
  BY <1>6
<1>8. Walking(f, i, d, n, m)
  BY <1>7 DEF Walking, To
<1> QED
  BY <1>5, <1>8 DEF X

(* So it is what its definition says, round by round.                       *)
LEMMA RunFromIs ==
  ASSUME NEW i \in Int, NEW d \in Int, NEW n \in Nat, n >= 1, NEW m
  PROVE  Walking(RunFrom(i, d, n, m), i, d, n, m)
<1> DEFINE F == CHOOSE f : Walking(f, i, d, n, m)
<1>1. Walking(F, i, d, n, m)
  <2>1. \E f : Walking(f, i, d, n, m)
    BY WalkExists
  <2> QED
    BY <2>1, Zenon
<1>2. RunFrom(i, d, n, m) = F
  BY DEF RunFrom, Walking
<1> QED
  BY <1>1, <1>2

(* It starts at its first cue.                                              *)
LEMMA RunStarts ==
  ASSUME NEW i \in Int, NEW d \in Int, NEW n \in Nat, n >= 1, NEW m
  PROVE  RunFrom(i, d, n, m)[0] = <<i, d>>
<1>1. 0 \in 0..(2 * n)
  OBVIOUS
<1> DEFINE f == RunFrom(i, d, n, m)
<1>2. Walking(f, i, d, n, m)
  BY RunFromIs
<1> HIDE DEF f
<1>3. f[0] = <<i, d>>
  BY <1>1, <1>2 DEF Walking
<1> QED
  BY <1>3 DEF f

(* Each round goes on from the cue before, until there is none.             *)
LEMMA RunSteps ==
  ASSUME NEW i \in Int, NEW d \in Int, NEW n \in Nat, n >= 1, NEW m, NEW k \in 1..(2 * n)
  PROVE  LET f == RunFrom(i, d, n, m)
         IN  f[k] = IF f[k - 1][1] = 0 THEN <<0, d>>
                    ELSE Turned(f[k - 1][1], f[k - 1][2], n, m)
<1>1. k \in 0..(2 * n) /\ k # 0
  OBVIOUS
<1> DEFINE f == RunFrom(i, d, n, m)
<1>2. Walking(f, i, d, n, m)
  BY RunFromIs
<1> HIDE DEF f
<1>3. f[k] = IF f[k - 1][1] = 0 THEN <<0, d>> ELSE Turned(f[k - 1][1], f[k - 1][2], n, m)
  BY <1>1, <1>2 DEF Walking
<1> QED
  BY <1>3 DEF f

(* The shots of a walk through the plan, each of the camera it is next for, *)
(* but that of the cue it starts at.                                        *)
WalkShots(p, i, f, n) ==
  LET Going(k) == \A j \in 1..k : f[j][1] \notin {0, i}
      Cue(k)   == p.cues[f[k][1]]
      Reached  == {k \in 1..(2 * n) : Going(k)}
      First    == {k \in Reached : \A j \in 1..(k - 1) : Cue(j).camera # Cue(k).camera}
  IN  {[camera |-> Cue(k).camera, shot |-> Cue(k).shot] :
         k \in {k \in First : Cue(k).camera # p.cues[i].camera}}

(* A plan of more than one cue sends on those of the walk from the cue.     *)
LEMMA MeanwhileIs ==
  ASSUME NEW p, NEW i, NEW d, NEW m, ~(Len(p.cues) <= 1 \/ i \notin 1..Len(p.cues))
  PROVE  meanwhile_at(p, i, d, m) = WalkShots(p, i, RunFrom(i, d, Len(p.cues), m), Len(p.cues))
BY DEF meanwhile_at, WalkShots

(* The first camera that a run comes to, if it is not the one that is live,  *)
(* is among those sent on meanwhile, to the shot it is live with next and   *)
(* to no other.                                                             *)
LEMMA NextIsWalked ==
  ASSUME NEW p, NEW n \in Nat, n = Len(p.cues), n > 1, NEW i \in 1..n, NEW d \in Int, NEW m,
         Turned(i, d, n, m)[1] \in 1..n,
         p.cues[Turned(i, d, n, m)[1]].camera # p.cues[i].camera
  PROVE  LET next == p.cues[Turned(i, d, n, m)[1]]
             W    == meanwhile_at(p, i, d, m)
         IN  /\ \E w \in W : w.camera = next.camera
             /\ \A w \in W : w.camera = next.camera => w.shot = next.shot
<1> DEFINE f == RunFrom(i, d, n, m)
           Going(k) == \A j \in 1..k : f[j][1] \notin {0, i}
           Cue(k) == p.cues[f[k][1]]
           Reached == {k \in 1..(2 * n) : Going(k)}
           First == {k \in Reached : \A j \in 1..(k - 1) : Cue(j).camera # Cue(k).camera}
           Sent == {k \in First : Cue(k).camera # p.cues[i].camera}
           W == meanwhile_at(p, i, d, m)
           next == p.cues[Turned(i, d, n, m)[1]]
<1>1. W = {[camera |-> Cue(k).camera, shot |-> Cue(k).shot] : k \in Sent}
  <2>1. ~(Len(p.cues) <= 1 \/ i \notin 1..Len(p.cues))
    OBVIOUS
  <2>2. W = WalkShots(p, i, RunFrom(i, d, Len(p.cues), m), Len(p.cues))
    BY <2>1, MeanwhileIs
  <2>3. W = WalkShots(p, i, f, n)
    BY <2>2
  <2> HIDE DEF W, f
  <2> QED
    BY <2>3 DEF WalkShots
<1>0. i \in Int /\ n >= 1 /\ 1 \in 1..(2 * n)
  OBVIOUS
<1>2. f[0] = <<i, d>>
  BY <1>0, RunStarts
<1>3. f[1] = Turned(i, d, n, m)
  <2>1. f[0][1] = i /\ f[0][2] = d /\ i # 0 /\ 1 - 1 = 0
    BY <1>2
  <2>2. f[1] = IF f[1 - 1][1] = 0 THEN <<0, d>> ELSE Turned(f[1 - 1][1], f[1 - 1][2], n, m)
    BY <1>0, RunSteps
  <2> QED
    BY <2>1, <2>2
<1> HIDE DEF f, W
<1>4. Cue(1) = next
  BY <1>3
<1>5. 1 \in Sent
  <2>1. f[1][1] \notin {0, i}
    BY <1>3
  <2>2. Going(1)
    BY <2>1
  <2>3. \A j \in 1..(1 - 1) : Cue(j).camera # Cue(1).camera
    OBVIOUS
  <2> QED
    BY <1>0, <1>4, <2>2, <2>3
<1>6. \A k \in Sent : k # 1 => Cue(k).camera # next.camera
  <2> SUFFICES ASSUME NEW k \in Sent, k # 1 PROVE Cue(k).camera # next.camera
    OBVIOUS
  <2>1. 1 \in 1..(k - 1)
    OBVIOUS
  <2> QED
    BY <1>4, <2>1
<1> HIDE DEF Sent, Cue, next
<1>7. \E w \in W : w.camera = next.camera
  <2> DEFINE w == [camera |-> Cue(1).camera, shot |-> Cue(1).shot]
  <2>1. w \in W
    BY <1>1, <1>5
  <2>2. w.camera = next.camera
    BY <1>4
  <2> QED
    BY <2>1, <2>2
<1>8. ASSUME NEW w \in W, w.camera = next.camera PROVE w.shot = next.shot
  <2>1. PICK k \in Sent : w = [camera |-> Cue(k).camera, shot |-> Cue(k).shot]
    BY <1>1
  <2>2. k = 1
    BY <1>6, <1>8, <2>1
  <2> QED
    BY <1>4, <2>1, <2>2
<1> QED
  BY <1>7, <1>8 DEF W, next

-----------------------------------------------------------------------------
(* What solve promises of a list, for every run of SolverPromise.           *)

(* The cues that take part, the pins and the cameras of the list that is    *)
(* solved.                                                                  *)
Part   == Live(list)
Count  == Len(Part)
There  == Len(cams)
Fixed  == Pins(list, Part, cams)
Shot   == [i \in 1..Count |-> list[Part[i]].shot]
Colour == Colours(list, Part, cams, is_cycle)
Prev(i) == prev_of(i, Count, is_cycle)
OnAir(i) == Count > 1 /\ Prev(i) # 0 /\ Colour[Prev(i)] = Colour[i]

(* A list is to be solved for some of the cameras.                          *)
Given ==
  /\ list \in Lists /\ is_cycle \in BOOLEAN
  /\ \E k \in 0..Len(Cameras) : cams = [l \in 1..k |-> Cameras[l]]

Made == Given /\ solved = solve(list, cams, is_cycle)

(* It has a cue that takes part, and there is a camera.                     *)
Playable == Count # 0 /\ There # 0

(* What is known of the list and of the cameras.                            *)
LEMMA GivenIs ==
  ASSUME Given
  PROVE  /\ Len(list) \in Nat /\ There \in Nat /\ Count \in Nat
         /\ \A k \in 1..There : cams[k] # None
         /\ \A k, l \in 1..There : cams[k] = cams[l] => k = l
         /\ \A i, j \in 1..Len(list), k \in 1..There :
              PanCost(cams[k], list[i].shot, list[j].shot) \in Nat
<1>1. Len(list) \in Nat
  BY SolverAssumption DEF SolverAssumption, Given
<1>2. Count \in Nat
  BY <1>1, LiveIs DEF Count, Part
<1>3. PICK k \in 0..Len(Cameras) : cams = [l \in 1..k |-> Cameras[l]]
  BY DEF Given
<1>4. Len(Cameras) \in Nat
  BY SolverAssumption DEF SolverAssumption
<1>5. k \in Nat /\ Len(cams) = k
  BY <1>3, <1>4
<1>6. There = k /\ \A l \in 1..k : l \in 1..Len(Cameras) /\ cams[l] = Cameras[l]
  BY <1>3, <1>4, <1>5 DEF There
<1>7. \A l \in 1..There : cams[l] # None
  BY <1>6, SolverAssumption DEF SolverAssumption
<1>8. \A l, m \in 1..There : cams[l] = cams[m] => l = m
  <2>1. \A l, m \in 1..Len(Cameras) : Cameras[l] = Cameras[m] => l = m
    BY SolverAssumption DEF SolverAssumption
  <2> QED
    BY <1>6, <2>1
<1>9. \A i, j \in 1..Len(list), l \in 1..There : PanCost(cams[l], list[i].shot, list[j].shot) \in Nat
  <2>1. \A i, j \in 1..Len(list), l \in 1..Len(Cameras) :
          PanCost(Cameras[l], list[i].shot, list[j].shot) \in Nat
    BY SolverAssumption DEF SolverAssumption, Given
  <2> QED
    BY <1>6, <2>1
<1> QED
  BY <1>1, <1>2, <1>5, <1>6, <1>7, <1>8, <1>9

(* Those that take part are enabled cues of the list, in order.             *)
LEMMA PartIs ==
  ASSUME Given
  PROVE  /\ Count = Cardinality({i \in 1..Len(list) : list[i].enabled})
         /\ \A i \in 1..Count : Part[i] \in 1..Len(list) /\ list[Part[i]].enabled
         /\ \A i, j \in 1..Count : i < j => Part[i] < Part[j]
<1>1. Len(list) \in Nat
  BY GivenIs
<1>2. Len(Part) = Cardinality({i \in 1..Len(list) : list[i].enabled})
  BY <1>1, LiveIs DEF Part
<1>3. \A i \in 1..Len(Part) : Part[i] \in 1..Len(list) /\ list[Part[i]].enabled
  BY <1>1, LiveIs DEF Part
<1>4. \A i, j \in 1..Len(Part) : i < j => Part[i] < Part[j]
  BY <1>1, LiveIs DEF Part
<1> QED
  BY <1>2, <1>3, <1>4 DEF Count

(* Different cues of the plan are different cues of the list.               *)
LEMMA PartDiffers ==
  ASSUME Given, NEW i \in 1..Count, NEW j \in 1..Count, Part[i] = Part[j]
  PROVE  i = j
<1>1. Part[i] \in Nat /\ Part[j] \in Nat /\ Count \in Nat
  BY PartIs, GivenIs
<1>2. \A a, b \in 1..Count : a < b => Part[a] < Part[b]
  BY PartIs
<1>3. ~(i < j)
  BY <1>1, <1>2
<1>4. ~(j < i)
  BY <1>1, <1>2
<1> QED
  BY <1>1, <1>3, <1>4

(* The colours are cameras that are there, the pins too.                    *)
LEMMA ColourIs ==
  ASSUME Given, Playable
  PROVE  /\ There \in Nat /\ There >= 1 /\ Count \in Nat /\ Count >= 1
         /\ Colour \in [1..Count -> 1..There]
         /\ Fixed \in [1..Count -> 0..There] /\ Len(Fixed) = Count
<1>1. There \in Nat /\ There >= 1 /\ Count \in Nat /\ Count >= 1
  BY GivenIs DEF Playable
<1>2. \A i, j \in 1..Count, k \in 1..There :
        PanCost(cams[k], list[Part[i]].shot, list[Part[j]].shot) \in Nat
  BY GivenIs, PartIs
<1>3. Colour \in [1..Count -> 1..There]
  BY <1>1, <1>2, ColoursInRange DEF Colour, Count, There
<1>4. Fixed \in [1..Count -> 0..There] /\ Len(Fixed) = Count
  BY <1>1, PinsFix DEF Fixed, Count, There
<1> QED
  BY <1>1, <1>3, <1>4

Moves  == {i \in 1..Count : OnAir(i)}
Forced == IF Moves = {} THEN 0 ELSE CHOOSE i \in Moves : \A j \in Moves : i <= j
Reason ==
  /\ Forced # 0 /\ There = 2 /\ is_cycle /\ Count % 2 = 1
  /\ \A i \in 1..Count : Fixed[i] = 0
InBox == BoxWarnings(Colour, Fixed, There, is_cycle)

(* The plan, the warnings and the empty plan that solve returns, in these   *)
(* terms: first its cues.                                                   *)
LEMMA SolvedCues ==
  ASSUME Made, Playable
  PROVE  solved.cues =
           [i \in 1..Count |->
              [cue_index |-> Part[i], camera |-> cams[Colour[i]], shot |-> Shot[i],
               on_air_move |-> OnAir(i),
               meanwhile |-> Meanwhile(i, Colour, Shot, cams, is_cycle)]]
BY DEF Made, Playable, solve, Count, There, Part, Colour, Shot, OnAir, Prev

(* Its warnings.                                                            *)
LEMMA SolvedWarnings ==
  ASSUME Made, Playable
  PROVE  solved.warnings =
           (IF There = 1 /\ Count > 1 THEN {[about |-> "one camera", cue |-> 0]} ELSE {})
           \cup {[about |-> "boxed", cue |-> Part[i]] : i \in InBox}
           \cup (IF Reason THEN {[about |-> "forced", cue |-> Part[Forced]]} ELSE {})
BY DEF Made, Playable, solve, Count, There, Part, Colour, Shot, OnAir, Prev, Moves, Forced,
       Reason, InBox, Fixed

(* There is nothing to play: the plan has no cues.                          *)
LEMMA SolvedEmpty ==
  ASSUME Made, ~Playable
  PROVE  solved.cues = <<>>
BY DEF Made, Playable, solve, NoPlan, Count, There, Part

(* A cue of the plan.                                                       *)
LEMMA SolvedCue ==
  ASSUME Made, Playable
  PROVE  /\ N = Count
         /\ \A i \in 1..Count :
              /\ solved.cues[i].cue_index = Part[i] /\ solved.cues[i].camera = cams[Colour[i]]
              /\ solved.cues[i].shot = Shot[i]
              /\ solved.cues[i].on_air_move <=> OnAir(i)
              /\ solved.cues[i].meanwhile = Meanwhile(i, Colour, Shot, cams, is_cycle)
              /\ Chosen[i] = cams[Colour[i]] /\ Authored(i) = list[Part[i]]
<1>1. Count \in Nat
  BY GivenIs DEF Made
<1>2. N = Count
  BY <1>1, SolvedCues DEF N
<1> DEFINE air(i) == OnAir(i)
           mean(i) == Meanwhile(i, Colour, Shot, cams, is_cycle)
           cue(i) == [cue_index |-> Part[i], camera |-> cams[Colour[i]], shot |-> Shot[i],
                      on_air_move |-> air(i), meanwhile |-> mean(i)]
<1>3. solved.cues = [i \in 1..Count |-> cue(i)]
  BY SolvedCues
<1> HIDE DEF air, mean
<1>4. ASSUME NEW i \in 1..Count
      PROVE  /\ solved.cues[i].cue_index = Part[i] /\ solved.cues[i].camera = cams[Colour[i]]
             /\ solved.cues[i].shot = Shot[i] /\ solved.cues[i].meanwhile = mean(i)
             /\ solved.cues[i].on_air_move = air(i)
  <2> HIDE DEF cue
  <2>1. solved.cues[i] = cue(i)
    BY <1>3
  <2> QED
    BY <2>1 DEF cue
<1>5. ASSUME NEW i \in 1..Count
      PROVE  Chosen[i] = cams[Colour[i]] /\ Authored(i) = list[Part[i]]
  BY <1>2, <1>4 DEF Chosen, Authored
<1> QED
  BY <1>2, <1>4, <1>5 DEF air, mean

(* Two cues have one camera exactly if they have one colour.                *)
LEMMA CamerasDiffer ==
  ASSUME Made, Playable, NEW i \in 1..Count, NEW j \in 1..Count
  PROVE  /\ Chosen[i] = Chosen[j] <=> Colour[i] = Colour[j]
         /\ Chosen[i] \in Here
<1>1. Colour[i] \in 1..There /\ Colour[j] \in 1..There
  BY ColourIs DEF Made
<1>2. \A k, l \in 1..There : cams[k] = cams[l] => k = l
  BY GivenIs DEF Made
<1>3. Chosen[i] = cams[Colour[i]] /\ Chosen[j] = cams[Colour[j]]
  BY SolvedCue
<1> QED
  BY <1>1, <1>2, <1>3 DEF Here, There

(* A cue is pinned exactly if its pin has a colour.                         *)
LEMMA PinnedIs ==
  ASSUME Made, Playable, NEW i \in 1..Count
  PROVE  /\ Pinned(i) <=> Fixed[i] # 0
         /\ Pinned(i) => cams[Fixed[i]] = Authored(i).pin
<1>1. There \in Nat /\ Count \in Nat
  BY GivenIs DEF Made
<1>2. \/ Fixed[i] \in 1..There /\ cams[Fixed[i]] = list[Part[i]].pin
      \/ Fixed[i] = 0 /\ \A k \in 1..There : cams[k] # list[Part[i]].pin
  BY <1>1, PinsFix DEF Fixed, Count, There
<1>3. Authored(i) = list[Part[i]]
  BY SolvedCue
<1>4. Pinned(i) <=> \E k \in 1..There : cams[k] = list[Part[i]].pin
  BY <1>3 DEF Pinned, Here, There
<1> QED
  BY <1>1, <1>2, <1>3, <1>4

(* The cue before i.                                                        *)
LEMMA PrevIs ==
  ASSUME Count \in Nat, NEW i \in 1..Count
  PROVE  /\ Prev(i) \in 0..Count
         /\ i > 1 => Prev(i) = i - 1
         /\ i = 1 => Prev(i) = IF is_cycle THEN Count ELSE 0
BY DEF Prev, prev_of

(* The transitions, and those on air, by the cue that they lead to.         *)
LEMMA EdgesAre ==
  ASSUME Made, Playable, NEW e
  PROVE  e \in Edges <=> \E i \in 1..Count : Count > 1 /\ Prev(i) # 0 /\ e = <<Prev(i), i>>
<1>1. Count \in Nat /\ N = Count
  BY GivenIs, SolvedCue DEF Made
<1>2. ASSUME e \in Edges
      PROVE  \E i \in 1..Count : Count > 1 /\ Prev(i) # 0 /\ e = <<Prev(i), i>>
  <2>1. e[1] \in 1..Count /\ e[2] \in 1..Count /\ e = <<e[1], e[2]>> /\ Count > 1
        /\ e[1] = Prev(e[2])
    BY <1>1, <1>2 DEF Edges, Prev
  <2> QED
    BY <2>1
<1>3. ASSUME NEW i \in 1..Count, Count > 1, Prev(i) # 0, e = <<Prev(i), i>>
      PROVE  e \in Edges
  <2>1. Prev(i) \in 1..Count
    BY <1>1, <1>3, PrevIs
  <2> QED
    BY <1>1, <1>3, <2>1 DEF Edges, Prev
<1> QED
  BY <1>2, <1>3

(* Those that stay on the camera.                                           *)
LEMMA VisibleAre ==
  ASSUME Made, Playable, NEW e
  PROVE  e \in Visible(Chosen) <=> \E i \in 1..Count : OnAir(i) /\ e = <<Prev(i), i>>
<1>1. Count \in Nat
  BY GivenIs DEF Made
<1>2. \A i \in 1..Count : Prev(i) # 0 => Prev(i) \in 1..Count
  BY <1>1, PrevIs
<1>3. ASSUME NEW i \in 1..Count, Count > 1, Prev(i) # 0
      PROVE  OnAir(i) <=> Chosen[Prev(i)] = Chosen[i]
  <2>1. Prev(i) \in 1..Count
    BY <1>2, <1>3
  <2> QED
    BY <1>3, <2>1, CamerasDiffer DEF OnAir
<1>4. ASSUME e \in Visible(Chosen)
      PROVE  \E i \in 1..Count : OnAir(i) /\ e = <<Prev(i), i>>
  <2>1. e \in Edges /\ Chosen[e[1]] = Chosen[e[2]]
    BY <1>4 DEF Visible
  <2>2. PICK i \in 1..Count : Count > 1 /\ Prev(i) # 0 /\ e = <<Prev(i), i>>
    BY <2>1, EdgesAre
  <2> QED
    BY <1>3, <2>1, <2>2
<1>5. ASSUME NEW i \in 1..Count, OnAir(i), e = <<Prev(i), i>>
      PROVE  e \in Visible(Chosen)
  <2>1. Count > 1 /\ Prev(i) # 0
    BY <1>5 DEF OnAir
  <2>2. e \in Edges
    BY <1>5, <2>1, EdgesAre
  <2>3. Chosen[e[1]] = Chosen[e[2]]
    BY <1>3, <1>5, <2>1
  <2> QED
    BY <2>2, <2>3 DEF Visible
<1> QED
  BY <1>4, <1>5

Free == \A i \in 1..Count : Fixed[i] = 0

(* How the colours come about: one camera, no pins, or pins.                *)
LEMMA ColourOne ==
  ASSUME Given, Playable, There = 1, NEW i \in 1..Count
  PROVE  Colour[i] = 1
BY DEF Colour, Colours, There, Count

(* No pins: the cameras alternate.                                          *)
LEMMA ColourFree ==
  ASSUME Given, Playable, There # 1, Free
  PROVE  Colour = Unpinned(Shot, cams, is_cycle)
BY DEF Colour, Colours, There, Count, Free, Fixed, Shot

(* Pins: the gaps are filled.                                               *)
LEMMA ColourFilled ==
  ASSUME Given, Playable, There # 1, ~Free
  PROVE  /\ There >= 2
         /\ \A i \in 1..Count : Colour[i] = Fill(i, Colour, Fixed, There, is_cycle)
<1>1. There \in Nat /\ There >= 1 /\ Count \in Nat /\ Count >= 1 /\ Len(Fixed) = Count
  BY ColourIs
<1>2. \A i \in 1..Count : Fixed[i] \in 0..There
  BY ColourIs
<1>3. There >= 2
  BY <1>1
<1>4. Colour = Filled(Fixed, There, is_cycle)
  BY DEF Colour, Colours, There, Count, Free, Fixed
<1>5. Count = 1 => Fixed[1] # 0
  BY <1>1 DEF Free
<1>6. \A i \in 1..Len(Fixed) : Filled(Fixed, There, is_cycle)[i] =
                                 Fill(i, Filled(Fixed, There, is_cycle), Fixed, There, is_cycle)
  BY <1>1, <1>2, <1>3, <1>5, FilledIs
<1> QED
  BY <1>1, <1>3, <1>4, <1>6

(* A pinned cue has the colour of its pin.                                  *)
LEMMA ColourKeepsPins ==
  ASSUME Given, Playable, NEW i \in 1..Count, Fixed[i] # 0
  PROVE  Colour[i] = Fixed[i]
<1>1. Fixed[i] \in 0..There /\ There \in Nat
  BY ColourIs
<1>2. CASE There = 1
  BY <1>1, <1>2, ColourOne
<1>3. CASE There # 1
  <2>1. ~Free
    BY DEF Free
  <2>2. Colour[i] = Fill(i, Colour, Fixed, There, is_cycle)
    BY <1>3, <2>1, ColourFilled
  <2> QED
    BY <2>2 DEF Fill
<1> QED
  BY <1>2, <1>3

(* A plan that is made has the enabled cues, on cameras that are there.     *)
LEMMA MadePlanOfCues ==
  ASSUME Made
  PROVE  PlanOfCues
<1>1. There \in Nat /\ Count \in Nat
  BY GivenIs DEF Made
<1>2. Here = {} <=> There = 0
  <2>1. Here = {cams[k] : k \in 1..There}
    BY DEF Here, There
  <2>2. CASE There = 0
    BY <2>1, <2>2
  <2>3. CASE There # 0
    <3>1. 1 \in 1..There
      BY <1>1, <2>3
    <3>2. cams[1] \in Here
      BY <2>1, <3>1
    <3> QED
      BY <2>3, <3>2
  <2> QED
    BY <2>2, <2>3
<1>3. CASE ~Playable
  <2>1. solved.cues = <<>> /\ N = 0
    BY <1>3, SolvedEmpty DEF N
  <2>2. N = IF Here = {} THEN 0 ELSE Cardinality({i \in 1..Len(list) : list[i].enabled})
    BY <1>2, <1>3, <2>1, PartIs DEF Playable, Made
  <2> QED
    BY <2>1, <2>2 DEF PlanOfCues
<1>4. CASE Playable
  <2>1. N = Count
    BY <1>4, SolvedCue
  <2>2. N = IF Here = {} THEN 0 ELSE Cardinality({i \in 1..Len(list) : list[i].enabled})
    BY <1>2, <1>4, <2>1, PartIs DEF Playable, Made
  <2>3. \A i \in 1..N : Chosen[i] \in Here
    BY <1>4, <2>1, CamerasDiffer
  <2>4. \A i \in 1..N : Authored(i).enabled
    BY <1>4, <2>1, SolvedCue, PartIs DEF Made
  <2>5. ASSUME NEW i \in 1..N, NEW j \in 1..N, i < j
        PROVE  solved.cues[i].cue_index < solved.cues[j].cue_index
    <3>1. solved.cues[i].cue_index = Part[i] /\ solved.cues[j].cue_index = Part[j]
      BY <1>4, <2>1, SolvedCue
    <3>2. Part[i] < Part[j]
      BY <2>1, <2>5, PartIs DEF Made
    <3> QED
      BY <3>1, <3>2
  <2> QED
    BY <2>2, <2>3, <2>4, <2>5 DEF PlanOfCues
<1> QED
  BY <1>3, <1>4

(* And it keeps the pins and marks the transitions on air.                  *)
LEMMA MadePinsKept ==
  ASSUME Made
  PROVE  PinsKept
<1>1. CASE ~Playable
  <2>1. N = 0
    BY <1>1, SolvedEmpty DEF N
  <2>2. Edges = {}
    BY <2>1 DEF Edges
  <2> QED
    BY <2>1, <2>2 DEF PinsKept, Visible
<1>2. CASE Playable
  <2>1. N = Count /\ Count \in Nat
    BY <1>2, SolvedCue, GivenIs DEF Made
  <2>2. ASSUME NEW i \in 1..N, Pinned(i) PROVE Chosen[i] = Authored(i).pin
    <3>1. Fixed[i] # 0 /\ cams[Fixed[i]] = Authored(i).pin
      BY <1>2, <2>1, <2>2, PinnedIs
    <3>2. Colour[i] = Fixed[i]
      BY <1>2, <2>1, <3>1, ColourKeepsPins DEF Made
    <3>3. Chosen[i] = cams[Colour[i]]
      BY <1>2, <2>1, SolvedCue
    <3> QED
      BY <3>1, <3>2, <3>3
  <2>3. ASSUME NEW i \in 1..N PROVE solved.cues[i].on_air_move <=> OnAir(i)
    BY <1>2, <2>1, SolvedCue
  <2>4. ASSUME NEW i \in 1..N PROVE OnAir(i) <=> \E e \in Visible(Chosen) : e[2] = i
    <3>1. ASSUME OnAir(i) PROVE \E e \in Visible(Chosen) : e[2] = i
      <4>1. <<Prev(i), i>> \in Visible(Chosen)
        BY <1>2, <2>1, <3>1, VisibleAre
      <4> QED
        BY <4>1
    <3>2. ASSUME NEW e \in Visible(Chosen), e[2] = i PROVE OnAir(i)
      <4>1. PICK j \in 1..Count : OnAir(j) /\ e = <<Prev(j), j>>
        BY <1>2, VisibleAre
      <4> QED
        BY <3>2, <4>1
    <3> QED
      BY <3>1, <3>2
  <2>5. \A e \in Visible(Chosen) : e[2] \in 1..N
    BY DEF Visible, Edges
  <2>6. {i \in 1..N : solved.cues[i].on_air_move} = {e[2] : e \in Visible(Chosen)}
    BY <2>3, <2>4, <2>5
  <2> QED
    BY <2>2, <2>6 DEF PinsKept
<1> QED
  BY <1>1, <1>2

(* Remainders of what is less than one round off.                           *)
LEMMA ModIn == ASSUME NEW n \in Nat, NEW x \in 0..(n - 1) PROVE x % n = x
OBVIOUS

(* Below zero by less than a round.                                         *)
LEMMA ModUnder == ASSUME NEW n \in Nat, NEW x \in (-n)..(-1) PROVE x % n = x + n
OBVIOUS

(* In the second round.                                                     *)
LEMMA ModOver == ASSUME NEW n \in Nat, NEW x \in n..(2 * n - 1) PROVE x % n = x - n
OBVIOUS

OddRing == is_cycle /\ Count > 1 /\ Count % 2 = 1
TheCut  == BestCut(Shot, cams)

(* The cut is one of the ring's edges, and none is cheaper.                 *)
LEMMA CutIs ==
  ASSUME Given, Playable, There >= 2
  PROVE  /\ TheCut[1] \in 1..Count /\ TheCut[2] \in {1, 2}
         /\ \A d \in Cut(Count) : CutCost(Shot, cams, TheCut) <= CutCost(Shot, cams, d)
         /\ \A d \in Cut(Count) : CutCost(Shot, cams, d) \in Nat
<1>1. Count \in Nat /\ Count >= 1 /\ Len(Shot) = Count
  BY ColourIs DEF Shot
<1>2. ASSUME NEW c \in Cut(Count) PROVE CutCost(Shot, cams, c) \in Nat
  <2> DEFINE j == next_of(c[1], Count, TRUE)
  <2>1. c[1] \in 1..Count /\ c[2] \in 1..There
    BY ColourIs DEF Cut
  <2>2. j \in 1..Count
    BY <1>1, <2>1 DEF next_of
  <2> HIDE DEF j
  <2>3. CutCost(Shot, cams, c) = PanCost(cams[c[2]], Shot[c[1]], Shot[j])
    BY <1>1 DEF CutCost, j
  <2>4. Shot[c[1]] = list[Part[c[1]]].shot /\ Shot[j] = list[Part[j]].shot
    BY <2>1, <2>2 DEF Shot
  <2>5. Part[c[1]] \in 1..Len(list) /\ Part[j] \in 1..Len(list)
    BY <2>1, <2>2, PartIs
  <2>6. PanCost(cams[c[2]], list[Part[c[1]]].shot, list[Part[j]].shot) \in Nat
    BY <2>1, <2>5, GivenIs
  <2> QED
    BY <2>3, <2>4, <2>6
<1>3. TheCut \in Cut(Count)
  BY <1>1, <1>2, BestCutIsBest DEF TheCut
<1>4. \A d \in Cut(Count) : CutCost(Shot, cams, TheCut) <= CutCost(Shot, cams, d)
  BY <1>1, <1>2, BestCutIsBest DEF TheCut
<1> QED
  BY <1>2, <1>3, <1>4 DEF Cut

Turn(x, b, n) == 1 + ((b - 1 + (x % n)) % 2)

(* Going round an odd ring from its cut, cue by cue, the colour alternates:  *)
(* only at the cut is it the same twice.                                    *)
LEMMA AlternateRound ==
  ASSUME NEW n \in Nat, n > 1, n % 2 = 1, NEW a \in 1..n, NEW b \in {1, 2}, NEW i \in 1..n
  PROVE  Turn((IF i > 1 THEN i - 1 ELSE n) - a - 1, b, n) = Turn(i - a - 1, b, n)
           <=> i = next_of(a, n, TRUE)
<1> DEFINE r(j) == IF j > a THEN j - a - 1 ELSE j - a - 1 + n
           p == IF i > 1 THEN i - 1 ELSE n
           next == IF a < n THEN a + 1 ELSE 1
<1>1. ASSUME NEW j \in 1..n PROVE (j - a - 1) % n = r(j) /\ r(j) \in Int
  <2>1. CASE j > a
    <3>1. j - a - 1 \in 0..(n - 1)
      BY <2>1
    <3>2. (j - a - 1) % n = j - a - 1
      BY <3>1, ModIn
    <3> QED
      BY <2>1, <3>2
  <2>2. CASE j <= a
    <3>1. j - a - 1 \in (-n)..(-1)
      BY <2>2
    <3>2. (j - a - 1) % n = j - a - 1 + n
      BY <3>1, ModUnder
    <3> QED
      BY <2>2, <3>2
  <2> QED
    BY <2>1, <2>2
<1>2. p \in 1..n
  OBVIOUS
<1>3. next_of(a, n, TRUE) = next
  BY DEF next_of
<1>4. CASE i = next
  <2>1. r(i) = 0 /\ r(p) = n - 1
    BY <1>4
  <2>2. (b - 1 + 0) % 2 = (b - 1 + (n - 1)) % 2
    OBVIOUS
  <2>3. Turn(p - a - 1, b, n) = Turn(i - a - 1, b, n)
    BY <1>1, <1>2, <2>1, <2>2 DEF Turn
  <2> QED
    BY <1>3, <1>4, <2>3
<1>5. CASE i # next
  <2>1. r(i) = r(p) + 1
    BY <1>5
  <2>2. \A x \in Int : (b - 1 + (x + 1)) % 2 # (b - 1 + x) % 2
    OBVIOUS
  <2>3. /\ Turn(p - a - 1, b, n) = 1 + ((b - 1 + r(p)) % 2)
        /\ Turn(i - a - 1, b, n) = 1 + ((b - 1 + r(i)) % 2)
        /\ r(p) \in Int
    BY <1>1, <1>2 DEF Turn
  <2> HIDE DEF r
  <2>4. (b - 1 + r(i)) % 2 # (b - 1 + r(p)) % 2
    BY <2>1, <2>2, <2>3
  <2>5. Turn(p - a - 1, b, n) # Turn(i - a - 1, b, n)
    <3>1. (b - 1 + r(i)) % 2 \in Int /\ (b - 1 + r(p)) % 2 \in Int
      BY <2>1, <2>3
    <3> DEFINE x == (b - 1 + r(i)) % 2
               y == (b - 1 + r(p)) % 2
    <3>2. x # y /\ x \in Int /\ y \in Int
      BY <2>4, <3>1
    <3> HIDE DEF x, y
    <3>3. 1 + x # 1 + y
      BY <3>2
    <3> QED
      BY <2>3, <3>3 DEF x, y
  <2> QED
    BY <1>3, <1>5, <2>5
<1> QED
  BY <1>4, <1>5

(* The colours go round from the cut.                                       *)
LEMMA ColourCut ==
  ASSUME Given, Playable, There = 2, Free, OddRing, NEW j \in 1..Count
  PROVE  Colour[j] = Turn(j - TheCut[1] - 1, TheCut[2], Count)
<1>1. Len(Shot) = Count /\ Len(cams) = 2
  BY ColourIs DEF Shot, There
<1> QED
  BY <1>1, ColourFree DEF Unpinned, OddRing, TheCut, Turn

(* Two cameras on an odd ring: the one transition on air is the cut.        *)
LEMMA CutMoves ==
  ASSUME Given, Playable, There = 2, Free, OddRing, NEW i \in 1..Count
  PROVE  OnAir(i) <=> i = next_of(TheCut[1], Count, TRUE)
<1>1. Count \in Nat /\ Count > 1 /\ Count % 2 = 1
  BY ColourIs DEF OddRing
<1>2. TheCut[1] \in 1..Count /\ TheCut[2] \in {1, 2}
  BY CutIs
<1>4. ASSUME NEW j \in 1..Count PROVE Colour[j] = Turn(j - TheCut[1] - 1, TheCut[2], Count)
  BY ColourCut
<1>5. Prev(i) = IF i > 1 THEN i - 1 ELSE Count
  BY <1>1, PrevIs DEF OddRing
<1>6. Prev(i) \in 1..Count
  BY <1>1, <1>5
<1>7. OnAir(i) <=> Colour[Prev(i)] = Colour[i]
  BY <1>1, <1>6 DEF OnAir
<1> DEFINE a == TheCut[1]
           b == TheCut[2]
           p == IF i > 1 THEN i - 1 ELSE Count
<1>8. Colour[p] = Turn(p - a - 1, b, Count) /\ Colour[i] = Turn(i - a - 1, b, Count)
  <2>1. p \in 1..Count
    BY <1>5, <1>6
  <2> HIDE DEF p
  <2> QED
    BY <1>4, <2>1
<1>9. Turn(p - a - 1, b, Count) = Turn(i - a - 1, b, Count) <=> i = next_of(a, Count, TRUE)
  <2> HIDE DEF a, b
  <2>1. a \in 1..Count /\ b \in {1, 2}
    BY <1>2 DEF a, b
  <2> QED
    BY <1>1, <2>1, AlternateRound
<1>10. Prev(i) = p
  BY <1>5
<1> HIDE DEF p, a, b
<1> QED
  BY <1>7, <1>8, <1>9, <1>10 DEF a

(* In all other cases without pins no cue follows another on its camera.    *)
LEMMA CleanMoves ==
  ASSUME Given, Playable, There # 1, Free, ~(OddRing /\ There = 2), NEW i \in 1..Count
  PROVE  ~OnAir(i)
<1>1. Count \in Nat /\ There \in Nat /\ There >= 2
  BY ColourIs
<1>2. Len(Shot) = Count /\ Len(cams) = There
  BY <1>1 DEF Shot, There
<1>3. ASSUME NEW j \in 1..Count
      PROVE  Colour[j] = IF OddRing /\ j = Count THEN 3 ELSE 1 + ((j - 1) % 2)
  BY <1>2, ColourFree DEF Unpinned, OddRing, Alternate
<1>4. CASE Count <= 1
  BY <1>1, <1>4 DEF OnAir
<1>5. CASE Count > 1 /\ i > 1
  <2>1. Prev(i) = i - 1 /\ i - 1 \in 1..Count /\ i - 1 # Count
    BY <1>1, <1>5, PrevIs
  <2>2. Colour[i - 1] = 1 + ((i - 1 - 1) % 2)
    BY <1>3, <2>1
  <2>3. 1 + ((i - 1 - 1) % 2) # 3 /\ 1 + ((i - 1 - 1) % 2) # 1 + ((i - 1) % 2)
    BY <1>5
  <2>4. Colour[i] \in {3, 1 + ((i - 1) % 2)}
    BY <1>3
  <2> QED
    BY <2>1, <2>2, <2>3, <2>4 DEF OnAir
<1>6. CASE Count > 1 /\ i = 1
  <2>1. CASE ~is_cycle
    BY <1>1, <1>6, <2>1, PrevIs DEF OnAir
  <2>2. CASE is_cycle
    <3>1. Prev(i) = Count /\ 1 \in 1..Count /\ Count \in 1..Count
      BY <1>1, <1>6, <2>2, PrevIs
    <3>2. Colour[1] = 1
      BY <1>3, <1>6, <3>1
    <3>3. Colour[Count] # 1
      <4>1. CASE OddRing
        BY <1>3, <3>1, <4>1
      <4>2. CASE ~OddRing
        <5>1. Count % 2 = 0
          BY <1>1, <1>6, <2>2, <4>2 DEF OddRing
        <5>2. 1 + ((Count - 1) % 2) = 2
          BY <1>1, <5>1
        <5> QED
          BY <1>3, <3>1, <4>2, <5>2
      <4> QED
        BY <4>1, <4>2
    <3> QED
      BY <1>6, <3>1, <3>2, <3>3 DEF OnAir
  <2> QED
    BY <2>1, <2>2
<1> QED
  BY <1>1, <1>4, <1>5, <1>6

(* Boxed in is a gap between pins that leave no camera.                     *)
LEMMA InBoxIs ==
  ASSUME Given, Playable
  PROVE  /\ InBox \subseteq 1..Count
         /\ \A i \in 1..Count :
              i \in InBox <=> /\ There # 1 /\ ~Free /\ Fixed[i] = 0
                              /\ (1..There) \subseteq Around(i, Colour, Fixed, is_cycle)
<1>1. Len(Fixed) = Count
  BY ColourIs
<1> QED
  BY <1>1 DEF InBox, BoxWarnings, Boxed, Free

(* Forced is the first transition on air, if there is one.                  *)
LEMMA ForcedIs ==
  ASSUME Given, Playable
  PROVE  /\ Forced # 0 => Forced \in Moves
         /\ \A i \in Moves : (\A j \in Moves : j = i) => Forced = i
<1>1. ASSUME Moves # {} PROVE Forced \in Moves
  <2>1. Moves \subseteq Nat
    BY ColourIs DEF Moves
  <2>2. \E i \in Moves : \A j \in Moves : i <= j
    BY <1>1, <2>1, LeastNat
  <2> QED
    BY <1>1, <2>2 DEF Forced
<1>2. Moves = {} => Forced = 0
  BY DEF Forced
<1> QED
  BY <1>1, <1>2

(* What is announced of a cue.                                              *)
LEMMA SaysIs ==
  ASSUME Made, Playable, NEW i \in 1..Count
  PROVE  /\ [about |-> "one camera", cue |-> 0] \in solved.warnings <=> There = 1 /\ Count > 1
         /\ [about |-> "boxed", cue |-> Part[i]] \in solved.warnings <=> i \in InBox
         /\ [about |-> "forced", cue |-> Part[i]] \in solved.warnings <=> Reason /\ i = Forced
<1> DEFINE One == IF There = 1 /\ Count > 1 THEN {[about |-> "one camera", cue |-> 0]} ELSE {}
           Box == {[about |-> "boxed", cue |-> Part[j]] : j \in InBox}
           Cuts == IF Reason THEN {[about |-> "forced", cue |-> Part[Forced]]} ELSE {}
<1>1. solved.warnings = One \cup Box \cup Cuts
  BY SolvedWarnings
<1>2. \A w \in One : w.about = "one camera"
  <2>1. \A w \in One : w = [about |-> "one camera", cue |-> 0]
    OBVIOUS
  <2> HIDE DEF One
  <2> SUFFICES ASSUME NEW w \in One PROVE w.about = "one camera"
    OBVIOUS
  <2>2. w = [about |-> "one camera", cue |-> 0]
    BY <2>1
  <2> QED
    BY <2>2
<1>3. \A w \in Box : w.about = "boxed"
  OBVIOUS
<1>4. \A w \in Cuts : w.about = "forced"
  OBVIOUS
<1>5. [about |-> "one camera", cue |-> 0] \in One <=> There = 1 /\ Count > 1
  OBVIOUS
<1>6. [about |-> "boxed", cue |-> Part[i]] \in Box <=> i \in InBox
  <2>1. ASSUME [about |-> "boxed", cue |-> Part[i]] \in Box PROVE i \in InBox
    <3>1. PICK j \in InBox : [about |-> "boxed", cue |-> Part[i]] = [about |-> "boxed", cue |-> Part[j]]
      BY <2>1
    <3>2. j \in 1..Count
      BY InBoxIs DEF Made
    <3>3. Part[i] = Part[j]
      BY <3>1
    <3> QED
      BY <3>2, <3>3, PartDiffers DEF Made
  <2> QED
    BY <2>1
<1>7. [about |-> "forced", cue |-> Part[i]] \in Cuts <=> Reason /\ i = Forced
  <2>1. ASSUME [about |-> "forced", cue |-> Part[i]] \in Cuts PROVE Reason /\ i = Forced
    <3>1. Reason /\ [about |-> "forced", cue |-> Part[i]] = [about |-> "forced", cue |-> Part[Forced]]
      BY <2>1
    <3>2. Part[i] = Part[Forced]
      BY <3>1
    <3>3. Forced \in 1..Count
      BY <3>1, ForcedIs DEF Reason, Moves, Made
    <3> QED
      BY <3>1, <3>2, <3>3, PartDiffers DEF Made
  <2> QED
    BY <2>1
<1> HIDE DEF One, Box, Cuts
<1>8. [about |-> "one camera", cue |-> 0] \notin Box \cup Cuts
  BY <1>3, <1>4
<1>9. [about |-> "boxed", cue |-> Part[i]] \notin One \cup Cuts
  BY <1>2, <1>4
<1>10. [about |-> "forced", cue |-> Part[i]] \notin One \cup Box
  BY <1>2, <1>3
<1>11. [about |-> "one camera", cue |-> 0] \in solved.warnings <=> There = 1 /\ Count > 1
  BY <1>1, <1>5, <1>8
<1>12. [about |-> "boxed", cue |-> Part[i]] \in solved.warnings <=> i \in InBox
  BY <1>1, <1>6, <1>9
<1>13. [about |-> "forced", cue |-> Part[i]] \in solved.warnings <=> Reason /\ i = Forced
  BY <1>1, <1>7, <1>10
<1> QED
  BY <1>11, <1>12, <1>13

(* Pins: a transition on air that was not pinned leaves a cue that is boxed *)
(* in.                                                                      *)
LEMMA FilledMoves ==
  ASSUME Given, Playable, There # 1, ~Free, NEW i \in 1..Count, OnAir(i)
  PROVE  \/ Fixed[Prev(i)] # 0 /\ Fixed[i] # 0
         \/ Prev(i) \in InBox
<1> DEFINE p == Prev(i)
<1>1. Count \in Nat /\ Count > 1 /\ There \in Nat /\ There >= 2 /\ Len(Fixed) = Count
  BY ColourIs, ColourFilled DEF OnAir
<1>2. p \in 1..Count /\ Colour[p] = Colour[i]
  BY <1>1, PrevIs DEF OnAir
<1>3. \A j \in 1..Count : Fixed[j] \in 0..There /\ Colour[j] \in 1..There
  BY ColourIs
<1>4. \A j \in 1..Count : Fixed[j] # 0 => Colour[j] = Fixed[j]
  BY ColourKeepsPins
(* A gap differs from what is left of it, whether there is a free colour or  *)
(* not; and from what is right of it if there is.                           *)
<1>5. ASSUME NEW j \in 1..Count, Fixed[j] = 0
      PROVE  /\ j \notin InBox => Colour[j] \notin Around(j, Colour, Fixed, is_cycle)
             /\ Colour[j] # Before(j, Colour, Fixed, is_cycle)
  <2> DEFINE A == Around(j, Colour, Fixed, is_cycle)
  <2>1. Colour[j] = Fill(j, Colour, Fixed, There, is_cycle)
    BY ColourFilled
  <2>2. ~((1..There) \subseteq A) => Colour[j] \notin A
    BY <1>1, <1>3, <1>5, <2>1, FillInRange
  <2>3. j \in InBox <=> (1..There) \subseteq A
    BY <1>5, InBoxIs
  <2>4. Before(j, Colour, Fixed, is_cycle) \in A
    BY <1>1 DEF Before, Around
  <2>5. CASE j \in InBox
    <3>1. (1..There) \ A = {}
      BY <2>3, <2>5
    <3>2. Colour[j] = IF Before(j, Colour, Fixed, is_cycle) = 1 THEN 2 ELSE 1
      BY <1>5, <2>1, <3>1 DEF Fill
    <3> QED
      BY <2>5, <3>2
  <2>6. CASE j \notin InBox
    BY <2>2, <2>3, <2>4, <2>6
  <2> QED
    BY <2>5, <2>6
<1>6. CASE i > 1
  <2>1. p = i - 1 /\ Before(i, Colour, Fixed, is_cycle) = Colour[p]
    BY <1>1, <1>6, PrevIs DEF Before
  <2>2. Fixed[i] # 0
    BY <1>2, <1>5, <2>1
  <2>3. Fixed[i] \in Around(p, Colour, Fixed, is_cycle)
    <3>1. p < Count /\ p + 1 = i
      BY <1>1, <1>6, <2>1
    <3> QED
      BY <1>1, <3>1 DEF Around
  <2>4. Fixed[p] = 0 => p \in InBox
    <3>1. Colour[p] = Fixed[i]
      BY <1>2, <1>4, <2>2
    <3> QED
      BY <1>2, <1>5, <2>3, <3>1
  <2> QED
    BY <2>2, <2>4
<1>7. CASE i = 1
  <2>1. p = Count /\ is_cycle
    BY <1>1, <1>7, PrevIs DEF OnAir
  <2>2. Fixed[p] = 0 => p \in InBox
    <3>1. Colour[1] \in Around(p, Colour, Fixed, is_cycle)
      BY <1>1, <2>1 DEF Around
    <3> QED
      BY <1>2, <1>5, <1>7, <3>1
  <2>3. Fixed[p] # 0 => Fixed[i] # 0
    <3> SUFFICES ASSUME Fixed[p] # 0, Fixed[i] = 0 PROVE FALSE
      OBVIOUS
    <3>1. Before(i, Colour, Fixed, is_cycle) = Fixed[p]
      BY <1>1, <1>7, <2>1 DEF Before
    <3>2. Colour[i] = Fixed[p]
      BY <1>2, <1>4
    <3> QED
      BY <1>5, <3>1, <3>2
  <2> QED
    BY <2>2, <2>3
<1> QED
  BY <1>6, <1>7

(* What is boxed in is left on air.                                         *)
LEMMA BoxMoves ==
  ASSUME Given, Playable, Count > 1, NEW i \in 1..Count, Prev(i) # 0, Prev(i) \in InBox
  PROVE  OnAir(i)
<1> DEFINE p == Prev(i)
           left == Before(p, Colour, Fixed, is_cycle)
           right == IF p < Count THEN Fixed[p + 1] ELSE IF is_cycle THEN Colour[1] ELSE 0
<1>1. There # 1 /\ ~Free /\ Fixed[p] = 0
      /\ (1..There) \subseteq Around(p, Colour, Fixed, is_cycle)
  BY InBoxIs
<1>2. Count \in Nat /\ There \in Nat /\ There >= 2 /\ Len(Fixed) = Count /\ p \in 1..Count
  BY <1>1, ColourIs, ColourFilled, InBoxIs
<1>3. Around(p, Colour, Fixed, is_cycle) = {left, right}
  BY <1>2 DEF Around, Before
<1>4. Colour[p] = IF left = 1 THEN 2 ELSE 1
  <2>1. Colour[p] = Fill(p, Colour, Fixed, There, is_cycle)
    BY <1>1, <1>2, ColourFilled
  <2>2. (1..There) \ Around(p, Colour, Fixed, is_cycle) = {}
    BY <1>1
  <2> QED
    BY <1>1, <2>1, <2>2 DEF Fill
<1> HIDE DEF left
<1>5. right = IF left = 1 THEN 2 ELSE 1
  <2> HIDE DEF right
  <2>1. 1 \in {left, right} /\ 2 \in {left, right}
    BY <1>1, <1>2, <1>3
  <2> QED
    BY <2>1
<1>6. right = Colour[i]
  <2>1. CASE i > 1
    <3>1. p = i - 1 /\ p < Count /\ right = Fixed[i]
      BY <1>2, <2>1, PrevIs
    <3>2. Fixed[i] # 0
      BY <1>5, <3>1
    <3> QED
      BY <3>1, <3>2, ColourKeepsPins
  <2>2. CASE i = 1
    <3>1. p = Count /\ is_cycle
      BY <1>2, <2>2, PrevIs
    <3>2. ~(p < Count)
      BY <1>2, <3>1
    <3>3. right = Colour[1]
      BY <3>1, <3>2
    <3> QED
      BY <2>2, <3>3
  <2> QED
    BY <2>1, <2>2
<1> QED
  BY <1>4, <1>5, <1>6 DEF OnAir

(* A transition on air is announced, or both of its cues are pinned.        *)
LEMMA OnAirIsSaid ==
  ASSUME Given, Playable, NEW i \in 1..Count, OnAir(i)
  PROVE  \/ There = 1 /\ Count > 1
         \/ Reason /\ i = Forced
         \/ Prev(i) \in InBox
         \/ Fixed[Prev(i)] # 0 /\ Fixed[i] # 0
<1>1. CASE There = 1
  BY <1>1 DEF OnAir
<1>2. CASE There # 1 /\ ~Free
  BY <1>2, FilledMoves
<1>3. CASE There # 1 /\ Free
  <2>1. OddRing /\ There = 2
    BY <1>3, CleanMoves
  <2>2. \A j \in 1..Count : OnAir(j) <=> j = next_of(TheCut[1], Count, TRUE)
    BY <1>3, <2>1, CutMoves
  <2>3. i \in Moves /\ \A j \in Moves : j = i
    BY <2>2 DEF Moves
  <2>4. Forced = i
    BY <2>3, ForcedIs
  <2>5. Forced # 0
    BY <2>4, ColourIs
  <2> QED
    BY <1>3, <2>1, <2>4, <2>5 DEF Reason, Free, OddRing
<1> QED
  BY <1>1, <1>2, <1>3

(* What is made announces its moves on air, and no others.                 *)
LEMMA MadeMovesAnnounced ==
  ASSUME Made
  PROVE  MovesAnnounced
<1> DEFINE Says(about, i) == [about |-> about, cue |-> solved.cues[i].cue_index] \in solved.warnings
           One == [about |-> "one camera", cue |-> 0] \in solved.warnings
<1>1. CASE ~Playable
  <2>1. N = 0
    BY <1>1, SolvedEmpty DEF N
  <2>2. Edges = {} /\ Visible(Chosen) = {}
    BY <2>1 DEF Edges, Visible
  <2> QED
    BY <2>2 DEF MovesAnnounced
<1>2. CASE Playable
  <2>1. Count \in Nat /\ Count >= 1 /\ Given
    BY <1>2, ColourIs DEF Made
  <2>2. ASSUME NEW i \in 1..Count
        PROVE  /\ Says("boxed", i) <=> i \in InBox
               /\ Says("forced", i) <=> Reason /\ i = Forced
    BY <1>2, SaysIs, SolvedCue
  <2>3. One <=> There = 1 /\ Count > 1
    <3>1. 1 \in 1..Count
      BY <2>1
    <3> QED
      BY <1>2, <3>1, SaysIs
  <2>4. \A i \in 1..Count : Pinned(i) <=> Fixed[i] # 0
    BY <1>2, PinnedIs
  <2> HIDE DEF Says, One
  <2>5. ASSUME NEW e \in Visible(Chosen)
        PROVE  One \/ Says("forced", e[2]) \/ Says("boxed", e[1]) \/ (Pinned(e[1]) /\ Pinned(e[2]))
    <3>1. PICK i \in 1..Count : OnAir(i) /\ e = <<Prev(i), i>>
      BY <1>2, VisibleAre
    <3>2. Prev(i) \in 1..Count /\ e[1] = Prev(i) /\ e[2] = i
      BY <2>1, <3>1, PrevIs DEF OnAir
    <3> QED
      BY <1>2, <2>1, <2>2, <2>3, <2>4, <3>1, <3>2, OnAirIsSaid
  <2>6. ASSUME NEW e \in Edges, Says("forced", e[2]) \/ Says("boxed", e[1])
        PROVE  e \in Visible(Chosen)
    <3>1. PICK i \in 1..Count : Count > 1 /\ Prev(i) # 0 /\ e = <<Prev(i), i>>
      BY <1>2, EdgesAre
    <3>2. Prev(i) \in 1..Count /\ e[1] = Prev(i) /\ e[2] = i
      BY <2>1, <3>1, PrevIs
    <3>3. CASE Says("forced", e[2])
      <4>1. i = Forced /\ Forced # 0
        BY <2>2, <3>2, <3>3 DEF Reason
      <4>2. OnAir(i)
        BY <1>2, <2>1, <4>1, ForcedIs DEF Moves
      <4> QED
        BY <1>2, <3>1, <4>2, VisibleAre
    <3>4. CASE Says("boxed", e[1])
      <4>1. Prev(i) \in InBox
        BY <2>2, <3>2, <3>4
      <4>2. OnAir(i)
        BY <1>2, <2>1, <3>1, <4>1, BoxMoves
      <4> QED
        BY <1>2, <3>1, <4>2, VisibleAre
    <3> QED
      BY <2>6, <3>3, <3>4
  <2>7. ASSUME One PROVE Visible(Chosen) = Edges
    <3>1. There = 1 /\ \A i \in 1..Count : Colour[i] = 1
      BY <1>2, <2>1, <2>3, <2>7, ColourOne
    <3>2. ASSUME NEW e \in Edges PROVE e \in Visible(Chosen)
      <4>1. PICK i \in 1..Count : Count > 1 /\ Prev(i) # 0 /\ e = <<Prev(i), i>>
        BY <1>2, EdgesAre
      <4>2. Prev(i) \in 1..Count
        BY <2>1, <4>1, PrevIs
      <4>3. OnAir(i)
        BY <3>1, <4>1, <4>2 DEF OnAir
      <4> QED
        BY <1>2, <4>1, <4>3, VisibleAre
    <3> QED
      BY <3>2 DEF Visible
  <2> QED
    BY <2>5, <2>6, <2>7 DEF MovesAnnounced, Says, One
<1> QED
  BY <1>1, <1>2

-----------------------------------------------------------------------------
(* The meanwhile of a plan and that of a run.                               *)

(* The cue s transitions after cue i, 0 where a path is at its end.         *)
Later(i, s, n, ring) ==
  IF ring THEN ((i + s - 1) % n) + 1 ELSE IF i + s <= n THEN i + s ELSE 0

(* In the third round.                                                      *)
LEMMA ModTwice == ASSUME NEW n \in Nat, NEW x \in (2 * n)..(3 * n - 1) PROVE x % n = x - 2 * n
OBVIOUS

(* The remainder of the next is the next of the remainder.                  *)
LEMMA ModNext ==
  ASSUME NEW n \in Nat, n > 1, NEW x \in 0..(3 * n - 2)
  PROVE  ((x % n) + 1) % n = (x + 1) % n
<1>0. \A y \in 0..(n - 1) : (y + 1) % n = IF y + 1 = n THEN 0 ELSE y + 1
  <2> SUFFICES ASSUME NEW y \in 0..(n - 1) PROVE (y + 1) % n = IF y + 1 = n THEN 0 ELSE y + 1
    OBVIOUS
  <2>1. CASE y + 1 = n
    BY <2>1, ModOver
  <2>2. CASE y + 1 # n
    <3>1. y + 1 \in 0..(n - 1)
      BY <2>2
    <3> QED
      BY <2>2, <3>1, ModIn
  <2> QED
    BY <2>1, <2>2
<1>1. CASE x \in 0..(n - 1)
  BY <1>1, ModIn
<1>2. CASE x \in n..(2 * n - 1)
  <2>1. x % n = x - n /\ x - n \in 0..(n - 1)
    BY <1>2
  <2>2. ((x % n) + 1) % n = IF x + 1 = 2 * n THEN 0 ELSE x + 1 - n
    BY <1>0, <2>1
  <2>3. CASE x + 1 = 2 * n
    BY <2>2, <2>3, ModTwice
  <2>4. CASE x + 1 # 2 * n
    <3>1. x + 1 \in n..(2 * n - 1)
      BY <1>2, <2>4
    <3>2. (x + 1) % n = x + 1 - n
      BY <3>1
    <3> QED
      BY <2>2, <2>4, <3>2
  <2> QED
    BY <2>3, <2>4
<1>3. CASE x \in (2 * n)..(3 * n - 2)
  <2>1. x % n = x - 2 * n /\ x - 2 * n \in 0..(n - 1) /\ x - 2 * n + 1 # n
    BY <1>3
  <2>2. ((x % n) + 1) % n = x - 2 * n + 1
    BY <1>0, <2>1
  <2>3. x + 1 \in (2 * n)..(3 * n - 1)
    BY <1>3
  <2>4. (x + 1) % n = x + 1 - 2 * n
    BY <2>3
  <2> QED
    BY <1>3, <2>2, <2>4
<1> QED
  BY <1>1, <1>2, <1>3

(* A forward or a once run, in closed form.                                 *)
LEMMA RunIs ==
  ASSUME NEW n \in Nat, n > 1, NEW i \in 1..n, NEW ring \in BOOLEAN, NEW k \in 0..(2 * n)
  PROVE  RunFrom(i, 1, n, IF ring THEN "forward" ELSE "once")[k] = <<Later(i, k, n, ring), 1>>
<1> DEFINE m == IF ring THEN "forward" ELSE "once"
           f == RunFrom(i, 1, n, m)
           S == {j \in Nat : j <= 2 * n => f[j] = <<Later(i, j, n, ring), 1>>}
<1>0. i \in Int /\ n >= 1
  OBVIOUS
<1>1. 0 \in S
  <2>1. f[0] = <<i, 1>>
    BY <1>0, RunStarts
  <2>2. (i + 0 - 1) % n = i - 1
    BY ModIn
  <2>3. Later(i, 0, n, ring) = i
    BY <2>2 DEF Later
  <2> QED
    BY <2>1, <2>3
<1>2. ASSUME NEW j \in Nat, j \in S PROVE j + 1 \in S
  <2> SUFFICES ASSUME j + 1 <= 2 * n PROVE f[j + 1] = <<Later(i, j + 1, n, ring), 1>>
    OBVIOUS
  <2>1. f[j] = <<Later(i, j, n, ring), 1>>
    BY <1>2
  <2>2. f[j + 1] = IF f[j][1] = 0 THEN <<0, 1>> ELSE Turned(f[j][1], f[j][2], n, m)
    <3>1. j + 1 \in 1..(2 * n) /\ (j + 1) - 1 = j
      OBVIOUS
    <3> HIDE DEF m
    <3> QED
      BY <1>0, <3>1, RunSteps
  <2> HIDE DEF f
  <2>3. CASE ring
    <3> DEFINE x == i + j - 1
    <3>1. Later(i, j, n, ring) = (x % n) + 1 /\ (x % n) + 1 # 0
      BY <2>3 DEF Later
    <3>2. f[j + 1] = <<(((x % n) + 1) % n) + 1, 1>>
      <4> DEFINE y == x % n
      <4>1. f[j] = <<y + 1, 1>> /\ y + 1 # 0
        BY <2>1, <3>1
      <4> HIDE DEF y
      <4>2. f[j + 1] = Turned(y + 1, 1, n, "forward")
        BY <2>2, <2>3, <4>1
      <4>3. Turned(y + 1, 1, n, "forward") = <<((y + 1) % n) + 1, 1>>
        BY DEF Turned
      <4> QED
        BY <4>2, <4>3 DEF y
    <3>3. Later(i, j + 1, n, ring) = ((x + 1) % n) + 1
      BY <2>3 DEF Later
    <3>4. ((x % n) + 1) % n = (x + 1) % n
      <4>1. x \in 0..(3 * n - 2)
        OBVIOUS
      <4> QED
        BY <4>1, ModNext
    <3> QED
      BY <3>2, <3>3, <3>4
  <2>4. CASE ~ring
    <3>1. CASE i + j <= n
      <4>1. Later(i, j, n, ring) = i + j /\ i + j # 0
        BY <2>4, <3>1 DEF Later
      <4>2. f[j + 1] = <<IF i + j < n THEN i + j + 1 ELSE 0, 1>>
        BY <2>1, <2>2, <2>4, <4>1 DEF Turned
      <4> QED
        BY <2>4, <3>1, <4>2 DEF Later
    <3>2. CASE i + j > n
      <4>1. Later(i, j, n, ring) = 0 /\ Later(i, j + 1, n, ring) = 0
        BY <2>4, <3>2 DEF Later
      <4> QED
        BY <2>1, <2>2, <4>1
    <3> QED
      BY <3>1, <3>2
  <2> QED
    BY <2>3, <2>4
<1>3. k \in S
  <2> HIDE DEF S
  <2> QED
    BY <1>1, <1>2, Induction
<1> QED
  BY <1>3

(* In less than a round no cue comes twice, and a round is over with cue i  *)
(* again, or with the end of the path.                                      *)
LEMMA LaterIs ==
  ASSUME NEW n \in Nat, n > 1, NEW i \in 1..n, NEW ring \in BOOLEAN
  PROVE  /\ Later(i, 0, n, ring) = i
         /\ Later(i, n, n, ring) \in {0, i}
         /\ \A s \in 1..(n - 1) : Later(i, s, n, ring) \in 0..n /\ Later(i, s, n, ring) # i
<1>1. CASE ~ring
  BY <1>1 DEF Later
<1>2. CASE ring
  <2>1. ASSUME NEW s \in 0..n
        PROVE  Later(i, s, n, ring) = IF i + s <= n THEN i + s ELSE i + s - n
    <3>1. CASE i + s <= n
      <4>1. (i + s - 1) % n = i + s - 1
        BY <3>1
      <4> QED
        BY <1>2, <3>1, <4>1 DEF Later
    <3>2. CASE i + s > n
      <4>1. i + s - 1 \in n..(2 * n - 1)
        BY <3>2
      <4>2. (i + s - 1) % n = i + s - 1 - n
        BY <4>1
      <4> QED
        BY <1>2, <3>2, <4>2 DEF Later
    <3> QED
      BY <3>1, <3>2
  <2>2. Later(i, 0, n, ring) = i /\ Later(i, n, n, ring) = i
    BY <2>1
  <2>3. \A s \in 1..(n - 1) : Later(i, s, n, ring) \in 0..n /\ Later(i, s, n, ring) # i
    BY <2>1
  <2> QED
    BY <2>2, <2>3
<1> QED
  BY <1>1, <1>2

(* The transitions that a run makes before cue i is live again.             *)
Round(i, n, ring) == {s \in 1..(n - 1) : Later(i, s, n, ring) # 0}

(* The engine's walk reaches just these transitions.                        *)
LEMMA ReachedIs ==
  ASSUME NEW n \in Nat, n > 1, NEW i \in 1..n, NEW ring \in BOOLEAN
  PROVE  LET f == RunFrom(i, 1, n, IF ring THEN "forward" ELSE "once")
         IN  {k \in 1..(2 * n) : \A j \in 1..k : f[j][1] \notin {0, i}} = Round(i, n, ring)
<1> DEFINE f == RunFrom(i, 1, n, IF ring THEN "forward" ELSE "once")
<1>1. ASSUME NEW j \in 0..(2 * n) PROVE f[j][1] = Later(i, j, n, ring)
  <2>1. f[j] = <<Later(i, j, n, ring), 1>>
    BY RunIs
  <2> HIDE DEF f
  <2> QED
    BY <2>1
<1> HIDE DEF f
<1>2. ASSUME NEW k \in 1..(2 * n), \A j \in 1..k : f[j][1] \notin {0, i}
      PROVE  k \in Round(i, n, ring)
  <2>1. k < n
    <3> SUFFICES ASSUME k >= n PROVE FALSE
      OBVIOUS
    <3>1. n \in 1..k /\ n \in 1..(2 * n)
      OBVIOUS
    <3>2. f[n][1] = Later(i, n, n, ring)
      BY <1>1, <3>1
    <3>3. f[n][1] \notin {0, i}
      BY <1>2, <3>1
    <3> QED
      BY <3>2, <3>3, LaterIs
  <2>2. k \in 1..k
    OBVIOUS
  <2>3. Later(i, k, n, ring) # 0
    BY <1>1, <1>2, <2>2
  <2> QED
    BY <2>1, <2>3 DEF Round
<1>3. ASSUME NEW s \in Round(i, n, ring)
      PROVE  s \in 1..(2 * n) /\ \A j \in 1..s : f[j][1] \notin {0, i}
  <2>1. s \in 1..(n - 1) /\ Later(i, s, n, ring) # 0
    BY DEF Round
  <2>2. ASSUME NEW j \in 1..s PROVE f[j][1] \notin {0, i}
    <3>1. j \in 1..(n - 1) /\ j \in 1..(2 * n) /\ j \in 0..(n - 1)
      BY <2>1
    <3>2. f[j][1] = Later(i, j, n, ring)
      BY <1>1, <3>1
    <3>3. Later(i, j, n, ring) # i
      BY <3>1, LaterIs
    <3>4. Later(i, j, n, ring) # 0
      <4>1. CASE ring
        <5>1. Later(i, j, n, ring) = ((i + j - 1) % n) + 1
          BY <4>1 DEF Later
        <5>2. (i + j - 1) % n \in 0..(n - 1)
          OBVIOUS
        <5> QED
          BY <5>1, <5>2
      <4>2. CASE ~ring
        BY <2>1, <4>2 DEF Later
      <4> QED
        BY <4>1, <4>2
    <3> QED
      BY <3>2, <3>3, <3>4
  <2> QED
    BY <2>1, <2>2
<1>4. {k \in 1..(2 * n) : \A j \in 1..k : f[j][1] \notin {0, i}} = Round(i, n, ring)
  <2> DEFINE G(k) == \A j \in 1..k : f[j][1] \notin {0, i}
  <2>1. \A k \in 1..(2 * n) : G(k) => k \in Round(i, n, ring)
    BY <1>2
  <2>2. \A s \in Round(i, n, ring) : s \in 1..(2 * n) /\ G(s)
    BY <1>3
  <2> HIDE DEF G
  <2>3. {k \in 1..(2 * n) : G(k)} = Round(i, n, ring)
    BY <2>1, <2>2
  <2> QED
    BY <2>3 DEF G
<1> QED
  BY <1>4 DEF f

(* The shots to come in plan p after cue i, each of the camera it is next   *)
(* for, but that of cue i.                                                  *)
ShotsAfter(p, i, n, ring) ==
  LET Cue(s) == p.cues[Later(i, s, n, ring)]
      Sent   == {s \in Round(i, n, ring) : \A r \in 0..(s - 1) : Cue(r).camera # Cue(s).camera}
  IN  {[camera |-> Cue(s).camera, shot |-> Cue(s).shot] : s \in Sent}

(* What the engine computes anew, for a forward or a once run.              *)
LEMMA WalkedAnew ==
  ASSUME NEW p, NEW n \in Nat, Len(p.cues) = n, n > 1, NEW i \in 1..n, NEW ring \in BOOLEAN
  PROVE  meanwhile_at(p, i, 1, IF ring THEN "forward" ELSE "once") = ShotsAfter(p, i, n, ring)
<1> DEFINE m == IF ring THEN "forward" ELSE "once"
           f == RunFrom(i, 1, n, m)
           Cue(s) == p.cues[Later(i, s, n, ring)]
           Sent == {s \in Round(i, n, ring) : \A r \in 0..(s - 1) : Cue(r).camera # Cue(s).camera}
           CueAt(k) == p.cues[f[k][1]]
           Reached == {k \in 1..(2 * n) : \A j \in 1..k : f[j][1] \notin {0, i}}
           First(R) == {k \in R : \A j \in 1..(k - 1) : CueAt(j).camera # CueAt(k).camera}
           On == {k \in First(Round(i, n, ring)) : CueAt(k).camera # p.cues[i].camera}
<1>1. meanwhile_at(p, i, 1, m) = {[camera |-> CueAt(k).camera, shot |-> CueAt(k).shot] : k \in On}
  <2>1. Reached = Round(i, n, ring)
    BY ReachedIs
  <2>2. ~(Len(p.cues) <= 1 \/ i \notin 1..Len(p.cues))
    OBVIOUS
  <2>3. meanwhile_at(p, i, 1, m) = WalkShots(p, i, f, n)
    <3>1. meanwhile_at(p, i, 1, m) = WalkShots(p, i, RunFrom(i, 1, Len(p.cues), m), Len(p.cues))
      BY <2>2, MeanwhileIs
    <3> QED
      BY <3>1
  <2>4. WalkShots(p, i, f, n) =
          {[camera |-> CueAt(k).camera, shot |-> CueAt(k).shot] :
             k \in {k \in First(Reached) : CueAt(k).camera # p.cues[i].camera}}
    <3> HIDE DEF f
    <3> QED
      BY DEF WalkShots
  <2> HIDE DEF Reached, f, m
  <2> QED
    BY <2>1, <2>3, <2>4
<1>2. ASSUME NEW k \in 0..(2 * n) PROVE f[k][1] = Later(i, k, n, ring)
  <2>1. f[k] = <<Later(i, k, n, ring), 1>>
    BY RunIs
  <2> HIDE DEF f
  <2> QED
    BY <2>1
<1> HIDE DEF f, m
<1>3. \A k \in 0..(2 * n) : CueAt(k) = Cue(k)
  BY <1>2
<1>4. Round(i, n, ring) \subseteq 1..(n - 1)
  BY DEF Round
<1>5. Cue(0) = p.cues[i]
  BY LaterIs
<1> HIDE DEF Cue, CueAt
<1>6. ASSUME NEW k \in Round(i, n, ring) PROVE k \in On <=> k \in Sent
  <2>1. k \in 1..(n - 1) /\ k \in 0..(2 * n) /\ \A j \in 0..(k - 1) : j \in 0..(2 * n)
    BY <1>4
  <2>2. k \in Sent <=> \A r \in 0..(k - 1) : Cue(r).camera # Cue(k).camera
    OBVIOUS
  <2>3. k \in On <=> /\ \A j \in 1..(k - 1) : Cue(j).camera # Cue(k).camera
                     /\ Cue(k).camera # Cue(0).camera
    BY <1>3, <1>5, <2>1
  <2>4. \A r \in 0..(k - 1) : r = 0 \/ r \in 1..(k - 1)
    OBVIOUS
  <2>5. 0 \in 0..(k - 1) /\ \A r \in 1..(k - 1) : r \in 0..(k - 1)
    BY <2>1
  <2> QED
    BY <2>2, <2>3, <2>4, <2>5
<1>7. On = Sent
  BY <1>6
<1>8. \A s \in Sent : CueAt(s) = Cue(s)
  BY <1>3, <1>4
<1> HIDE DEF On, Sent
<1>9. {[camera |-> CueAt(k).camera, shot |-> CueAt(k).shot] : k \in On} =
        {[camera |-> Cue(s).camera, shot |-> Cue(s).shot] : s \in Sent}
  BY <1>7, <1>8
<1> QED
  BY <1>1, <1>9 DEF Cue, Sent, m, ShotsAfter

(* What the plan shows, in the same terms.                                  *)
LEMMA ShownIs ==
  ASSUME Made, Playable, Count > 1, NEW i \in 1..Count
  PROVE  Meanwhile(i, Colour, Shot, cams, is_cycle) = ShotsAfter(solved, i, Count, is_cycle)
<1> DEFINE n == Count
           To(s) == Later(i, s, n, is_cycle)
           Cue(s) == solved.cues[To(s)]
           Sent == {s \in Round(i, n, is_cycle) : \A r \in 0..(s - 1) : Cue(r).camera # Cue(s).camera}
           After(s) == IF is_cycle THEN ((i + s - 1) % n) + 1 ELSE i + s
           Within == {s \in 0..(n - 1) : After(s) <= n}
           First == {s \in Within : \A r \in 0..(s - 1) : Colour[After(r)] # Colour[After(s)]}
<1>1. n \in Nat /\ is_cycle \in BOOLEAN /\ Len(Shot) = n
  BY GivenIs DEF Made, Given, Shot
<1>2. Meanwhile(i, Colour, Shot, cams, is_cycle) =
        {[camera |-> cams[Colour[After(s)]], shot |-> Shot[After(s)]] : s \in First \ {0}}
  BY <1>1 DEF Meanwhile
(* Within a round both count alike.                                         *)
<1>3. Within = {0} \cup Round(i, n, is_cycle)
  <2>1. ASSUME NEW s \in 0..(n - 1) PROVE After(s) <= n <=> To(s) # 0
    BY <1>1 DEF Later
  <2>2. To(0) # 0
    BY <1>1, LaterIs
  <2> HIDE DEF After, To
  <2>3. Within = {s \in 0..(n - 1) : To(s) # 0}
    BY <2>1
  <2> HIDE DEF Within
  <2>4. 0 \in 0..(n - 1) /\ \A s \in 0..(n - 1) : s = 0 \/ s \in 1..(n - 1)
    BY <1>1
  <2> QED
    BY <2>2, <2>3, <2>4 DEF Round, To
<1>4. ASSUME NEW s \in Within PROVE After(s) = To(s) /\ To(s) \in 1..n
  BY <1>1 DEF Later
<1>5. ASSUME NEW s \in Within
      PROVE  /\ To(s) \in 1..n
             /\ Cue(s).camera = cams[Colour[After(s)]] /\ Cue(s).shot = Shot[After(s)]
  <2>1. After(s) = To(s) /\ To(s) \in 1..Count
    BY <1>4
  <2> HIDE DEF After, To
  <2> QED
    BY <2>1, SolvedCue
<1>6. ASSUME NEW s \in Within, NEW r \in 0..(s - 1) PROVE r \in Within
  <2>1. CASE is_cycle
    <3>1. r \in 0..(n - 1) /\ ((i + r - 1) % n) + 1 <= n
      BY <1>1
    <3> QED
      BY <2>1, <3>1
  <2>2. CASE ~is_cycle
    BY <1>1, <2>2
  <2> QED
    BY <1>1, <2>1, <2>2
<1>7. ASSUME NEW s \in Within, NEW r \in Within
      PROVE  Colour[After(r)] = Colour[After(s)] <=> Cue(r).camera = Cue(s).camera
  <2>1. After(s) \in 1..Count /\ After(r) \in 1..Count
    BY <1>4
  <2>2. Chosen[After(s)] = cams[Colour[After(s)]] /\ Chosen[After(r)] = cams[Colour[After(r)]]
    <3> HIDE DEF After
    <3> QED
      BY <2>1, SolvedCue
  <2>3. Chosen[After(r)] = Chosen[After(s)] <=> Colour[After(r)] = Colour[After(s)]
    <3> HIDE DEF After
    <3> QED
      BY <2>1, CamerasDiffer
  <2> HIDE DEF After, Cue, Within
  <2> QED
    BY <1>5, <2>2, <2>3
<1>8. 0 \notin Round(i, n, is_cycle)
  BY DEF Round
<1> HIDE DEF Within, After, Cue
<1>9. ASSUME NEW s \in Round(i, n, is_cycle) PROVE s \in First <=> s \in Sent
  <2>1. s \in Within
    BY <1>3
  <2>2. \A r \in 0..(s - 1) : Colour[After(r)] # Colour[After(s)] <=> Cue(r).camera # Cue(s).camera
    BY <1>6, <1>7, <2>1
  <2> QED
    BY <2>1, <2>2
<1>10. First \ {0} = Sent
  <2>1. \A s \in First : s \in Within
    OBVIOUS
  <2>2. \A s \in Sent : s \in Round(i, n, is_cycle)
    OBVIOUS
  <2> HIDE DEF First, Sent
  <2> QED
    BY <1>3, <1>8, <1>9, <2>1, <2>2
<1>11. \A s \in Sent : Cue(s).camera = cams[Colour[After(s)]] /\ Cue(s).shot = Shot[After(s)]
  BY <1>3, <1>5
<1> HIDE DEF First, Sent
<1>12. {[camera |-> cams[Colour[After(s)]], shot |-> Shot[After(s)]] : s \in First \ {0}} =
         {[camera |-> Cue(s).camera, shot |-> Cue(s).shot] : s \in Sent}
  BY <1>10, <1>11
<1> QED
  BY <1>2, <1>12 DEF Cue, Sent, ShotsAfter

(* The meanwhile that the plan shows is the one the engine comes to.        *)
LEMMA MadeShownIsRun ==
  ASSUME Made
  PROVE  ShownIsRun
<1> SUFFICES ASSUME NEW i \in 1..N
             PROVE  solved.cues[i].meanwhile = meanwhile_at(solved, i, 1, IF is_cycle THEN "forward" ELSE "once")
  BY DEF ShownIsRun
<1>1. Playable /\ N = Count /\ Count \in Nat /\ Count >= 1 /\ is_cycle \in BOOLEAN
  <2>1. ~Playable => N = 0
    BY SolvedEmpty DEF N
  <2>2. Playable
    BY <2>1
  <2> QED
    BY <2>2, SolvedCue, ColourIs DEF Made, Given
<1>2. solved.cues[i].meanwhile = Meanwhile(i, Colour, Shot, cams, is_cycle)
  BY <1>1, SolvedCue
<1>3. CASE Count > 1
  <2>1. Len(solved.cues) = Count /\ i \in 1..Count
    BY <1>1 DEF N
  <2>2. meanwhile_at(solved, i, 1, IF is_cycle THEN "forward" ELSE "once") = ShotsAfter(solved, i, Count, is_cycle)
    BY <1>1, <1>3, <2>1, WalkedAnew
  <2>3. Meanwhile(i, Colour, Shot, cams, is_cycle) = ShotsAfter(solved, i, Count, is_cycle)
    BY <1>1, <1>3, <2>1, ShownIs
  <2> QED
    BY <1>2, <2>2, <2>3
<1>4. CASE Count = 1
  <2>1. meanwhile_at(solved, i, 1, IF is_cycle THEN "forward" ELSE "once") = {}
    BY <1>1, <1>4 DEF meanwhile_at, N
  <2>2. Meanwhile(i, Colour, Shot, cams, is_cycle) = {}
    <3>1. Len(Shot) = 1
      BY <1>1, <1>4 DEF Shot
    <3> QED
      BY <3>1 DEF Meanwhile
  <2> QED
    BY <1>2, <2>1, <2>2
<1> QED
  BY <1>1, <1>3, <1>4

PlanMade == Given /\ (solved = NotSolved \/ solved = solve(list, cams, is_cycle))

(* Whatever the list of cues, the pins and the cameras: the plan that solve *)
(* makes is of the enabled cues, keeps pins, announces each move on air     *)
(* that the operator did not pin, and shows the meanwhile that the engine   *)
(* goes through (mix_solver.cpp, solve; device_manager.cpp, meanwhile_at).  *)
THEOREM PlansAreHonest == SolverSpec => []PlanHonest
<1>1. SolverInit => PlanMade
  BY DEF SolverInit, PlanMade, Given
<1>2. PlanMade /\ [SolverNext]_solverVars => PlanMade'
  BY DEF PlanMade, Given, SolverNext, solverVars
<1>3. PlanMade => PlanHonest
  <2> SUFFICES ASSUME PlanMade PROVE PlanHonest
    OBVIOUS
  <2>1. CASE solved = NotSolved
    BY <2>1 DEF PlanHonest, PlanOfCues, MovesAnnounced, PinsKept, ShownIsRun, Solved
  <2>2. CASE solved # NotSolved
    <3>1. Made
      BY <2>2 DEF PlanMade, Made
    <3> QED
      BY <3>1, MadePlanOfCues, MadeMovesAnnounced, MadePinsKept, MadeShownIsRun DEF PlanHonest
  <2> QED
    BY <2>1, <2>2
<1> QED
  BY <1>1, <1>2, <1>3, PTL DEF SolverSpec

-----------------------------------------------------------------------------
(* Sums, and the least of what is seen on air.                              *)

(* The sum that folds a finite set, one member at a time.                   *)
SumsUp(g, S, cost, n) ==
  \A s \in SUBSET S : Cardinality(s) <= n =>
    g[s] = IF s = {} THEN 0 ELSE cost[CHOOSE x \in s : TRUE] + g[s \ {CHOOSE x \in s : TRUE}]

Sums(g, S, cost) ==
  g = [s \in SUBSET S |->
         IF s = {} THEN 0 ELSE cost[CHOOSE x \in s : TRUE] + g[s \ {CHOOSE x \in s : TRUE}]]

(* What a fold takes from a set leaves one less.                            *)
LEMMA Taken ==
  ASSUME NEW S, IsFiniteSet(S), NEW s \in SUBSET S, s # {}
  PROVE  LET x == CHOOSE y \in s : TRUE
         IN  /\ x \in s /\ s \ {x} \in SUBSET S
             /\ IsFiniteSet(s) /\ Cardinality(s) \in Nat /\ Cardinality(s \ {x}) = Cardinality(s) - 1
<1> DEFINE x == CHOOSE y \in s : TRUE
<1>1. x \in s
  OBVIOUS
<1> HIDE DEF x
<1>2. IsFiniteSet(s)
  BY FS_Subset
<1>3. Cardinality(s) \in Nat
  BY <1>2, FS_CardinalityType
<1>4. Cardinality(s \ {x}) = Cardinality(s) - 1
  BY <1>1, <1>2, FS_RemoveElement
<1> QED
  BY <1>1, <1>2, <1>3, <1>4 DEF x

(* The sums of the subsets of a finite set exist.                           *)
LEMMA SumExists ==
  ASSUME NEW S, IsFiniteSet(S), NEW cost \in [S -> Nat]
  PROVE  \E g : Sums(g, S, cost)
<1> DEFINE T == {n \in Nat : \E g \in [SUBSET S -> Nat] : SumsUp(g, S, cost, n)}
           x(s) == CHOOSE y \in s : TRUE
<1>1. 0 \in T
  <2> DEFINE g == [s \in SUBSET S |-> 0]
  <2>1. ASSUME NEW s \in SUBSET S, Cardinality(s) <= 0 PROVE s = {}
    <3>1. IsFiniteSet(s) /\ Cardinality(s) \in Nat
      BY FS_Subset, FS_CardinalityType
    <3>2. Cardinality(s) = 0
      BY <2>1, <3>1
    <3> QED
      BY <3>1, <3>2, FS_EmptySet
  <2>2. SumsUp(g, S, cost, 0)
    BY <2>1 DEF SumsUp
  <2>3. g \in [SUBSET S -> Nat]
    OBVIOUS
  <2> HIDE DEF g
  <2> QED
    BY <2>2, <2>3
<1>2. ASSUME NEW n \in Nat, n \in T PROVE n + 1 \in T
  <2>1. PICK g \in [SUBSET S -> Nat] : SumsUp(g, S, cost, n)
    BY <1>2
  <2> DEFINE h == [s \in SUBSET S |-> IF s = {} THEN 0 ELSE cost[x(s)] + g[s \ {x(s)}]]
  <2>2. h \in [SUBSET S -> Nat]
    <3>1. ASSUME NEW s \in SUBSET S, s # {} PROVE cost[x(s)] \in Nat /\ g[s \ {x(s)}] \in Nat
      <4>1. x(s) \in s /\ s \ {x(s)} \in SUBSET S
        BY <3>1, Taken
      <4> HIDE DEF x
      <4> QED
        BY <4>1
    <3> HIDE DEF x
    <3> QED
      BY <3>1
  <2>3. ASSUME NEW s \in SUBSET S, Cardinality(s) <= n PROVE h[s] = g[s]
    <3>1. g[s] = IF s = {} THEN 0 ELSE cost[x(s)] + g[s \ {x(s)}]
      BY <2>1, <2>3 DEF SumsUp
    <3> HIDE DEF x
    <3> QED
      BY <3>1
  <2>4. ASSUME NEW s \in SUBSET S, Cardinality(s) <= n + 1
        PROVE  h[s] = IF s = {} THEN 0 ELSE cost[x(s)] + h[s \ {x(s)}]
    <3>1. CASE s = {}
      BY <3>1
    <3>2. CASE s # {}
      <4>1. s \ {x(s)} \in SUBSET S /\ Cardinality(s \ {x(s)}) = Cardinality(s) - 1
            /\ Cardinality(s) \in Nat
        BY <3>2, Taken
      <4>2. Cardinality(s \ {x(s)}) <= n
        BY <2>4, <4>1
      <4>3. h[s \ {x(s)}] = g[s \ {x(s)}]
        BY <2>3, <4>1, <4>2
      <4>4. h[s] = cost[x(s)] + g[s \ {x(s)}]
        BY <3>2
      <4> HIDE DEF h, x
      <4> QED
        BY <3>2, <4>3, <4>4
    <3> QED
      BY <3>1, <3>2
  <2>5. SumsUp(h, S, cost, n + 1)
    <3> HIDE DEF h
    <3> QED
      BY <2>4 DEF SumsUp
  <2> HIDE DEF h
  <2> QED
    BY <2>2, <2>5
<1>3. Cardinality(S) \in T
  <2>1. Cardinality(S) \in Nat
    BY FS_CardinalityType
  <2> HIDE DEF T
  <2> QED
    BY <1>1, <1>2, <2>1, Induction
<1>4. PICK g \in [SUBSET S -> Nat] : SumsUp(g, S, cost, Cardinality(S))
  BY <1>3
<1>5. ASSUME NEW s \in SUBSET S
      PROVE  g[s] = IF s = {} THEN 0 ELSE cost[x(s)] + g[s \ {x(s)}]
  <2>1. Cardinality(s) <= Cardinality(S)
    BY FS_Subset
  <2> QED
    BY <1>4, <2>1 DEF SumsUp
<1>6. Sums(g, S, cost)
  BY <1>5 DEF Sums
<1> QED
  BY <1>6

(* A sum is a natural number, nothing sums up to zero and one alone to      *)
(* itself.                                                                  *)
LEMMA SumIs ==
  ASSUME NEW S, IsFiniteSet(S), NEW cost \in [S -> Nat], NEW g, Sums(g, S, cost)
  PROVE  /\ g[S] \in Nat
         /\ S = {} => g[S] = 0
         /\ \A e : S = {e} => g[S] = cost[e]
<1> DEFINE x(s) == CHOOSE y \in s : TRUE
           T == {n \in Nat : \A s \in SUBSET S : Cardinality(s) = n => g[s] \in Nat}
<1>1. ASSUME NEW s \in SUBSET S
      PROVE  g[s] = IF s = {} THEN 0 ELSE cost[x(s)] + g[s \ {x(s)}]
  <2>1. g = [q \in SUBSET S |-> IF q = {} THEN 0 ELSE cost[x(q)] + g[q \ {x(q)}]]
    BY DEF Sums
  <2> HIDE DEF x
  <2> QED
    BY <2>1
<1>2. 0 \in T
  <2> SUFFICES ASSUME NEW s \in SUBSET S, Cardinality(s) = 0 PROVE g[s] \in Nat
    OBVIOUS
  <2>1. s = {}
    BY FS_Subset, FS_EmptySet
  <2> HIDE DEF x
  <2> QED
    BY <1>1, <2>1
<1>3. ASSUME NEW n \in Nat, n \in T PROVE n + 1 \in T
  <2> SUFFICES ASSUME NEW s \in SUBSET S, Cardinality(s) = n + 1 PROVE g[s] \in Nat
    OBVIOUS
  <2>1. s # {}
    BY FS_EmptySet
  <2>2. x(s) \in s /\ s \ {x(s)} \in SUBSET S /\ Cardinality(s \ {x(s)}) = Cardinality(s) - 1
    BY <2>1, Taken
  <2>3. Cardinality(s \ {x(s)}) = n
    BY <2>2
  <2>4. g[s \ {x(s)}] \in Nat
    BY <1>3, <2>2, <2>3
  <2>5. g[s] = cost[x(s)] + g[s \ {x(s)}]
    BY <1>1, <2>1
  <2> HIDE DEF x
  <2>6. cost[x(s)] \in Nat
    BY <2>2
  <2> QED
    BY <2>4, <2>5, <2>6
<1>4. g[S] \in Nat
  <2>1. Cardinality(S) \in Nat
    BY FS_CardinalityType
  <2>2. Cardinality(S) \in T
    <3> HIDE DEF T
    <3> QED
      BY <1>2, <1>3, <2>1, Induction
  <2> QED
    BY <2>2
<1>5. S = {} => g[S] = 0
  <2> HIDE DEF x
  <2> QED
    BY <1>1
<1>6. ASSUME NEW e, S = {e} PROVE g[S] = cost[e]
  <2>1. x(S) = e
    BY <1>6
  <2> HIDE DEF x
  <2>2. g[S] = cost[e] + g[S \ {e}]
    BY <1>1, <1>6, <2>1
  <2>3. S \ {e} = {} /\ {} \in SUBSET S
    BY <1>6
  <2>4. g[S \ {e}] = 0
    BY <1>1, <2>3
  <2>5. cost[e] \in Nat
    BY <1>6
  <2> QED
    BY <2>2, <2>4, <2>5
<1> QED
  BY <1>4, <1>5, <1>6

(* So of the pans that a choice of cameras shows.                           *)
PanOf(f, e) == PanCost(f[e[1]], solved.cues[e[1]].shot, solved.cues[e[2]].shot)

(* The pan of a choice is natural, zero if nothing is shown, and that of    *)
(* the one transition that is.                                              *)
LEMMA PanIs ==
  ASSUME NEW f, IsFiniteSet(Visible(f)), \A e \in Visible(f) : PanOf(f, e) \in Nat
  PROVE  /\ Pan(f) \in Nat
         /\ Visible(f) = {} => Pan(f) = 0
         /\ \A e : Visible(f) = {e} => Pan(f) = PanOf(f, e)
<1> DEFINE V == Visible(f)
           cost == [e \in V |-> PanOf(f, e)]
           Folds(g) == g = [s \in SUBSET V |->
                              IF s = {} THEN 0
                              ELSE PanOf(f, CHOOSE x \in s : TRUE) + g[s \ {CHOOSE x \in s : TRUE}]]
<1>1. Pan(f) = (CHOOSE g : Folds(g))[V]
  BY DEF Pan, PanOf, MapThenSumSet, MapThenFoldSet
<1>2. cost \in [V -> Nat]
  OBVIOUS
<1>3. ASSUME NEW g PROVE Folds(g) <=> Sums(g, V, cost)
  <2>1. ASSUME NEW s \in SUBSET V, s # {}
        PROVE  cost[CHOOSE x \in s : TRUE] = PanOf(f, CHOOSE x \in s : TRUE)
    <3> DEFINE y == CHOOSE x \in s : TRUE
    <3>1. y \in V
      BY <2>1
    <3> HIDE DEF y, V
    <3>2. cost[y] = PanOf(f, y)
      BY <3>1
    <3> QED
      BY <3>2 DEF y
  <2> HIDE DEF cost, V
  <2> QED
    BY <2>1 DEF Sums
<1> DEFINE sum == CHOOSE g : Folds(g)
<1> HIDE DEF cost
<1>4. Sums(sum, V, cost)
  <2>1. \E g : Sums(g, V, cost)
    BY <1>2, SumExists
  <2> HIDE DEF V, Folds
  <2> QED
    BY <1>3, <2>1
<1>5. Pan(f) = sum[V]
  BY <1>1
<1> HIDE DEF sum
<1>6. /\ sum[V] \in Nat
      /\ V = {} => sum[V] = 0
      /\ \A e : V = {e} => sum[V] = cost[e]
  BY <1>2, <1>4, SumIs
<1>7. \A e : V = {e} => cost[e] = PanOf(f, e)
  BY DEF cost
<1> QED
  BY <1>5, <1>6, <1>7

(* An odd ring cannot be coloured with two colours.                         *)
LEMMA OddRingClashes ==
  ASSUME NEW n \in Nat, n % 2 = 1, n > 1, NEW f,
         \A i, j, k \in 1..n : f[i] = f[j] \/ f[j] = f[k] \/ f[i] = f[k],
         \A i \in 2..n : f[i - 1] # f[i]
  PROVE  f[n] = f[1]
<1> DEFINE S == {k \in Nat : k + 1 <= n => (f[k + 1] = f[1] <=> k % 2 = 0)}
<1>1. 0 \in S
  OBVIOUS
<1>2. ASSUME NEW k \in Nat, k \in S PROVE k + 1 \in S
  <2> SUFFICES ASSUME k + 2 <= n PROVE f[k + 2] = f[1] <=> (k + 1) % 2 = 0
    OBVIOUS
  <2>1. f[k + 1] = f[1] <=> k % 2 = 0
    BY <1>2
  <2>2. k + 2 \in 2..n /\ (k + 2) - 1 = k + 1 /\ k + 1 \in 1..n /\ k + 2 \in 1..n /\ 1 \in 1..n
    OBVIOUS
  <2>3. f[k + 1] # f[k + 2]
    BY <2>2
  <2>4. f[1] = f[k + 1] \/ f[k + 1] = f[k + 2] \/ f[1] = f[k + 2]
    BY <2>2
  <2>5. f[k + 2] = f[1] <=> f[k + 1] # f[1]
    BY <2>3, <2>4
  <2>6. (k + 1) % 2 = 0 <=> ~(k % 2 = 0)
    OBVIOUS
  <2> QED
    BY <2>1, <2>5, <2>6
<1>3. n - 1 \in S
  <2>1. n - 1 \in Nat
    OBVIOUS
  <2> HIDE DEF S
  <2> QED
    BY <1>1, <1>2, <2>1, Induction
<1>4. (n - 1) % 2 = 0 /\ (n - 1) + 1 = n
  OBVIOUS
<1> QED
  BY <1>3, <1>4

(* The transitions that a choice of cameras shows: finitely many, each with *)
(* a pan that has a cost.                                                   *)
LEMMA VisibleOf ==
  ASSUME Made, Playable, NEW f \in [1..Count -> Here]
  PROVE  /\ IsFiniteSet(Visible(f)) /\ Cardinality(Visible(f)) \in Nat
         /\ \A e \in Visible(f) : PanOf(f, e) \in Nat
<1>1. Count \in Nat /\ N = Count
  BY GivenIs, SolvedCue DEF Made
<1>2. IsFiniteSet(Visible(f))
  <2>1. IsFiniteSet(1..Count)
    BY <1>1, FS_Interval
  <2>2. IsFiniteSet((1..Count) \X (1..Count))
    BY <2>1, FS_Product
  <2>3. Visible(f) \in SUBSET ((1..Count) \X (1..Count))
    BY <1>1 DEF Visible, Edges
  <2> QED
    BY <2>2, <2>3, FS_Subset
<1>3. ASSUME NEW e \in Visible(f) PROVE PanOf(f, e) \in Nat
  <2>1. e[1] \in 1..Count /\ e[2] \in 1..Count
    BY <1>1 DEF Visible, Edges
  <2>2. PICK k \in 1..There : f[e[1]] = cams[k]
    BY <2>1 DEF Here, There
  <2>3. solved.cues[e[1]].shot = list[Part[e[1]]].shot /\ solved.cues[e[2]].shot = list[Part[e[2]]].shot
    BY <2>1, SolvedCue DEF Shot
  <2>4. Part[e[1]] \in 1..Len(list) /\ Part[e[2]] \in 1..Len(list)
    BY <2>1, PartIs DEF Made
  <2>5. PanCost(cams[k], list[Part[e[1]]].shot, list[Part[e[2]]].shot) \in Nat
    BY <2>2, <2>4, GivenIs DEF Made
  <2> QED
    BY <2>2, <2>3, <2>5 DEF PanOf
<1> QED
  BY <1>2, <1>3, FS_CardinalityType

(* No choice of cameras shows fewer transitions than c, or as few and a     *)
(* shorter pan.                                                             *)
Least(c, f) ==
  \/ Cardinality(Visible(c)) < Cardinality(Visible(f))
  \/ Cardinality(Visible(c)) = Cardinality(Visible(f)) /\ Pan(c) <= Pan(f)

(* What shows no transition is not to be bettered.                          *)
LEMMA CleanIsLeast ==
  ASSUME Made, Playable, NEW f \in [1..Count -> Here], Visible(Chosen) = {}
  PROVE  Least(Chosen, f)
<1>1. IsFiniteSet(Visible(f)) /\ Cardinality(Visible(f)) \in Nat
      /\ \A e \in Visible(f) : PanOf(f, e) \in Nat
  BY VisibleOf
<1>2. Cardinality(Visible(Chosen)) = 0 /\ IsFiniteSet(Visible(Chosen))
  BY FS_EmptySet
<1>3. Pan(Chosen) = 0
  BY <1>2, PanIs
<1>4. CASE Visible(f) = {}
  <2>1. Pan(f) = 0
    BY <1>1, <1>4, PanIs
  <2> QED
    BY <1>2, <1>3, <1>4, <2>1 DEF Least
<1>5. CASE Visible(f) # {}
  <2>1. Cardinality(Visible(f)) # 0
    BY <1>1, <1>5, FS_EmptySet
  <2> QED
    BY <1>1, <1>2, <2>1 DEF Least
<1> QED
  BY <1>4, <1>5

(* The choice that solve makes.                                             *)
LEMMA ChosenIs ==
  ASSUME Made, Playable
  PROVE  /\ Chosen \in [1..Count -> Here] /\ N = Count
         /\ \A i \in 1..Count : Chosen[i] = cams[Colour[i]]
<1>1. N = Count
  BY SolvedCue
<1>2. \A i \in 1..Count : Chosen[i] \in Here /\ Chosen[i] = cams[Colour[i]]
  BY CamerasDiffer, SolvedCue
<1>3. Chosen = [i \in 1..Count |-> Chosen[i]]
  BY <1>1 DEF Chosen
<1> HIDE DEF Chosen
<1> QED
  BY <1>1, <1>2, <1>3

(* With one camera there is one choice.                                     *)
LEMMA OneIsLeast ==
  ASSUME Made, Playable, There = 1, NEW f \in [1..Count -> Here]
  PROVE  Least(Chosen, f)
<1>1. Chosen \in [1..Count -> Here]
  BY ChosenIs
<1>2. \A c \in Here : c = cams[1]
  BY DEF Here, There
<1>3. f = Chosen
  <2>1. ASSUME NEW i \in 1..Count PROVE f[i] = Chosen[i]
    <3>1. f[i] \in Here /\ Chosen[i] \in Here
      BY <1>1
    <3> QED
      BY <1>2, <3>1
  <2>2. f = [i \in 1..Count |-> f[i]]
    OBVIOUS
  <2>3. Chosen = [i \in 1..Count |-> Chosen[i]]
    BY <1>1
  <2>4. [i \in 1..Count |-> f[i]] = [i \in 1..Count |-> Chosen[i]]
    BY <2>1
  <2> QED
    BY <2>2, <2>3, <2>4
<1>4. Cardinality(Visible(f)) \in Nat /\ Pan(f) \in Nat
  BY VisibleOf, PanIs
<1> QED
  BY <1>3, <1>4 DEF Least

(* Two cameras on an odd ring: every choice shows a transition, and the one *)
(* that solve shows is the cheapest.                                        *)
LEMMA CutIsLeast ==
  ASSUME Made, Playable, There = 2, Free, OddRing, NEW f \in [1..Count -> Here]
  PROVE  Least(Chosen, f)
<1> DEFINE n == Count
           a == TheCut[1]
           b == TheCut[2]
           next == next_of(a, n, TRUE)
<1>1. n \in Nat /\ n > 1 /\ n % 2 = 1 /\ is_cycle /\ Len(Shot) = n
  BY ColourIs DEF Made, OddRing, Shot
<1>2. a \in 1..n /\ b \in {1, 2}
  BY CutIs DEF Made
<1>3. next \in 1..n /\ Prev(next) = a
  <2>1. next = IF a < n THEN a + 1 ELSE 1
    BY DEF next_of
  <2>2. Prev(next) = IF next > 1 THEN next - 1 ELSE n
    BY <1>1 DEF Prev, prev_of
  <2> HIDE DEF next, a, b, n
  <2>3. next \in 1..n
    BY <1>1, <1>2, <2>1
  <2> QED
    BY <1>1, <1>2, <2>1, <2>2, <2>3
<1>4. \A i \in 1..n : OnAir(i) <=> i = next
  BY CutMoves DEF Made
<1> HIDE DEF next
<1>5. Visible(Chosen) = {<<a, next>>}
  <2>1. ASSUME NEW e PROVE e \in Visible(Chosen) <=> e = <<a, next>>
    <3>1. e \in Visible(Chosen) <=> \E i \in 1..Count : OnAir(i) /\ e = <<Prev(i), i>>
      BY VisibleAre
    <3> QED
      BY <1>3, <1>4, <3>1
  <2> QED
    BY <2>1
<1>6. Colour[a] = b
  <2>1. Colour[a] = 1 + ((b - 1 + ((a - a - 1) % n)) % 2)
    BY <1>2, ColourCut DEF Turn, Made
  <2>2. (a - a - 1) % n = n - 1
    <3>1. a - a - 1 = -1 /\ -1 \in (-n)..(-1)
      BY <1>1, <1>2
    <3>2. (-1) % n = -1 + n
      BY <1>1, <3>1, ModUnder
    <3> QED
      BY <1>1, <3>1, <3>2
  <2>3. 1 + ((b - 1 + (n - 1)) % 2) = b
    BY <1>1, <1>2
  <2> QED
    BY <2>1, <2>2, <2>3
<1>7. PanOf(Chosen, <<a, next>>) = CutCost(Shot, cams, TheCut)
  <2>1. Chosen[a] = cams[b] /\ solved.cues[a].shot = Shot[a] /\ solved.cues[next].shot = Shot[next]
    BY <1>2, <1>3, <1>6, ChosenIs, SolvedCue
  <2> QED
    BY <1>1, <2>1 DEF PanOf, CutCost, next
<1>8. Cardinality(Visible(Chosen)) = 1 /\ Pan(Chosen) = CutCost(Shot, cams, TheCut)
  <2>1. Cardinality(Visible(Chosen)) = 1 /\ IsFiniteSet(Visible(Chosen))
    BY <1>5, FS_Singleton
  <2>2. CutCost(Shot, cams, TheCut) \in Nat
    <3>1. TheCut \in Cut(n)
      <4>1. \A c \in Cut(n) : CutCost(Shot, cams, c) \in Nat
        BY CutIs DEF Made
      <4> QED
        BY <1>1, <4>1, BestCutIsBest DEF TheCut
    <3> QED
      BY <3>1, CutIs DEF Made
  <2>3. \A e \in Visible(Chosen) : PanOf(Chosen, e) \in Nat
    BY <1>5, <1>7, <2>2
  <2>4. Pan(Chosen) = PanOf(Chosen, <<a, next>>)
    BY <1>5, <2>1, <2>3, PanIs
  <2> QED
    BY <1>7, <2>1, <2>4
<1>9. IsFiniteSet(Visible(f)) /\ Cardinality(Visible(f)) \in Nat
      /\ \A e \in Visible(f) : PanOf(f, e) \in Nat
  BY VisibleOf
<1>10. Visible(f) # {}
  <2> SUFFICES ASSUME Visible(f) = {} PROVE FALSE
    OBVIOUS
  <2>1. ASSUME NEW i \in 1..n PROVE Prev(i) \in 1..n /\ f[Prev(i)] # f[i]
    <3>1. Prev(i) \in 1..n
      BY <1>1, PrevIs
    <3>2. <<Prev(i), i>> \in Edges
      BY <1>1, <3>1, EdgesAre
    <3>3. <<Prev(i), i>> \notin Visible(f)
      OBVIOUS
    <3> QED
      BY <3>1, <3>2, <3>3 DEF Visible
  <2>2. \A i, j, k \in 1..n : f[i] = f[j] \/ f[j] = f[k] \/ f[i] = f[k]
    <3>1. \A c \in Here : c = cams[1] \/ c = cams[2]
      BY DEF Here, There
    <3>2. \A i \in 1..n : f[i] = cams[1] \/ f[i] = cams[2]
      BY <3>1
    <3> QED
      BY <3>2
  <2>3. \A i \in 2..n : f[i - 1] # f[i]
    <3> SUFFICES ASSUME NEW i \in 2..n PROVE f[i - 1] # f[i]
      OBVIOUS
    <3>1. i \in 1..n /\ Prev(i) = i - 1
      BY <1>1, PrevIs
    <3> QED
      BY <2>1, <3>1
  <2>4. f[n] # f[1]
    <3>1. 1 \in 1..n /\ Prev(1) = n
      BY <1>1, PrevIs
    <3> QED
      BY <2>1, <3>1
  <2> HIDE DEF n
  <2> QED
    BY <1>1, <2>2, <2>3, <2>4, OddRingClashes
<1>11. CASE Cardinality(Visible(f)) = 1
  <2>1. PICK e : Visible(f) = {e}
    BY <1>9, <1>11, FS_Singleton
  <2>2. Pan(f) = PanOf(f, e)
    BY <1>9, <2>1, PanIs
  <2>3. PICK i \in 1..n : Prev(i) # 0 /\ e = <<Prev(i), i>>
    <3>1. e \in Edges
      BY <2>1 DEF Visible
    <3> QED
      BY <3>1, EdgesAre
  <2> DEFINE p == Prev(i)
  <2>4. p \in 1..n /\ next_of(p, n, TRUE) = i
    <3>1. p = IF i > 1 THEN i - 1 ELSE n
      BY <1>1, PrevIs
    <3> HIDE DEF p
    <3> QED
      BY <1>1, <3>1 DEF next_of
  <2> HIDE DEF p
  <2>5. PICK k \in {1, 2} : f[p] = cams[k]
    BY <2>4 DEF Here, There
  <2>6. <<p, k>> \in Cut(n)
    BY <2>4 DEF Cut
  <2>7. Pan(f) = CutCost(Shot, cams, <<p, k>>)
    <3>1. solved.cues[p].shot = Shot[p] /\ solved.cues[i].shot = Shot[i]
      BY <2>4, SolvedCue
    <3>2. e[1] = p /\ e[2] = i
      BY <2>3 DEF p
    <3> QED
      BY <1>1, <2>2, <2>4, <2>5, <3>1, <3>2 DEF PanOf, CutCost
  <2>8. CutCost(Shot, cams, TheCut) <= CutCost(Shot, cams, <<p, k>>)
    BY <2>6, CutIs DEF Made
  <2> QED
    BY <1>8, <1>11, <2>7, <2>8 DEF Least
<1>12. CASE Cardinality(Visible(f)) # 1
  <2>1. Cardinality(Visible(f)) # 0
    BY <1>9, <1>10, FS_EmptySet
  <2> QED
    BY <1>8, <1>9, <1>12, <2>1 DEF Least
<1> QED
  BY <1>11, <1>12

(* Without pins no other choice is better than the one that solve makes.    *)
LEMMA MadeLeastVisible ==
  ASSUME Made
  PROVE  LeastVisible
<1> SUFFICES ASSUME \A i \in 1..N : ~Pinned(i), NEW f \in [1..N -> Here]
             PROVE  Least(Chosen, f)
  BY DEF LeastVisible, Least
<1>1. CASE ~Playable
  <2>1. N = 0
    BY <1>1, SolvedEmpty DEF N
  <2>2. Visible(Chosen) = {} /\ Visible(f) = {}
    BY <2>1 DEF Edges, Visible
  <2>3. Pan(Chosen) = 0 /\ Pan(f) = 0 /\ Cardinality(Visible(Chosen)) = 0
    BY <2>2, FS_EmptySet, PanIs
  <2> QED
    BY <2>2, <2>3 DEF Least
<1>2. CASE Playable /\ There = 1
  BY <1>2, ChosenIs, OneIsLeast
<1>3. CASE Playable /\ There # 1
  <2>1. N = Count /\ Count \in Nat /\ Given /\ There \in Nat
    BY <1>3, ChosenIs, ColourIs DEF Made
  <2>2. Free
    BY <1>3, <2>1, PinnedIs DEF Free
  <2>3. CASE OddRing /\ There = 2
    BY <1>3, <2>1, <2>2, <2>3, CutIsLeast
  <2>4. CASE ~(OddRing /\ There = 2)
    <3>1. \A i \in 1..Count : ~OnAir(i)
      BY <1>3, <2>1, <2>2, <2>4, CleanMoves
    <3>2. Visible(Chosen) = {}
      BY <1>3, <3>1, VisibleAre
    <3> QED
      BY <1>3, <2>1, <3>2, CleanIsLeast
  <2> QED
    BY <2>3, <2>4
<1> QED
  BY <1>1, <1>2, <1>3

(* Without pins no choice of cameras shows fewer moves on air than that of  *)
(* solve, and none as few with a shorter pan (mix_solver.cpp, solve).       *)
THEOREM PlansAreLeastVisible == SolverSpec => []LeastVisible
<1>1. SolverInit => PlanMade
  BY DEF SolverInit, PlanMade, Given
<1>2. PlanMade /\ [SolverNext]_solverVars => PlanMade'
  BY DEF PlanMade, Given, SolverNext, solverVars
<1>3. PlanMade => LeastVisible
  <2>1. CASE solved = NotSolved
    BY <2>1 DEF LeastVisible, Solved
  <2>2. CASE solved # NotSolved
    BY <2>2, MadeLeastVisible DEF PlanMade, Made
  <2> QED
    BY <2>1, <2>2
<1> QED
  BY <1>1, <1>2, <1>3, PTL DEF SolverSpec

-----------------------------------------------------------------------------
(* The engine: plans of the roster.                                         *)

(* The roster lists attached cameras.                                       *)
LEMMA RosterIs ==
  ASSUME NEW attached
  PROVE  /\ Len(Roster(attached)) \in Nat
         /\ \A k \in 1..Len(Roster(attached)) : Roster(attached)[k] \in Cams
<1> DEFINE S == {k \in 1..Len(CamOrder) : CamOrder[k] \in attached}
           here == InOrder(S, Len(CamOrder))
<1>1. S \subseteq 1..Len(CamOrder) /\ Len(CamOrder) \in Nat
  BY EngineAssumption DEF EngineAssumption
<1>2. Roster(attached) = [k \in 1..Len(here) |-> CamOrder[here[k]]]
  BY DEF Roster
<1> HIDE DEF S
<1>3. here \in Seq(1..Len(CamOrder))
  BY <1>1, InOrderPicks
<1> HIDE DEF here
<1>4. Len(here) \in Nat /\ \A k \in 1..Len(here) : here[k] \in 1..Len(CamOrder)
  BY <1>3
<1>5. Len(Roster(attached)) = Len(here)
  BY <1>2, <1>4
<1>6. \A k \in 1..Len(here) : CamOrder[here[k]] \in Cams
  BY <1>4 DEF Cams
<1> QED
  BY <1>2, <1>4, <1>5, <1>6

(* A plan is a sequence of cues on known cameras.                           *)
PlanTyped(p) ==
  /\ Len(p.cues) \in Nat /\ DOMAIN p.cues = 1..Len(p.cues)
  /\ \A i \in 1..Len(p.cues) : p.cues[i].camera \in Cams

(* It is of the cues that were authored.                                    *)
PlanOf(p, entries) ==
  \/ Len(p.cues) = 0
  \/ /\ Len(p.cues) = Len(Live(entries))
     /\ \A i \in 1..Len(p.cues) :
          /\ p.cues[i].cue_index = Live(entries)[i]
          /\ p.cues[i].shot = entries[Live(entries)[i]].shot

(* A plan without cues, and what solve makes of no cameras.                 *)
LEMMA NoPlanIs ==
  ASSUME NEW w, NEW entries
  PROVE  PlanTyped(NoPlan(w)) /\ PlanOf(NoPlan(w), entries)
<1>1. NoPlan(w).cues = <<>>
  BY DEF NoPlan
<1> QED
  BY <1>1 DEF PlanTyped, PlanOf

(* What solve makes of the roster and a list of cues fits the engine.       *)
LEMMA SolveFits ==
  ASSUME NEW e \in Edits, NEW attached, NEW ring
  PROVE  LET p == solve(e.cues, Roster(attached), ring)
         IN  PlanTyped(p) /\ PlanOf(p, e.cues)
<1> DEFINE entries == e.cues
           cameras == Roster(attached)
           live == Live(entries)
           n == Len(live)
           colour == Colours(entries, live, cameras, ring)
           p == solve(entries, cameras, ring)
<1>1. Len(entries) \in Nat
  BY EngineAssumption DEF EngineAssumption
<1>2. \A c \in Cams, i, j \in 1..Len(entries) : PanCost(c, entries[i].shot, entries[j].shot) \in Nat
  BY EngineAssumption DEF EngineAssumption
<1>3. Len(cameras) \in Nat /\ \A k \in 1..Len(cameras) : cameras[k] \in Cams
  BY RosterIs
<1> HIDE DEF entries, cameras
<1>4. n \in Nat
  BY <1>1, LiveIs
<1>5. \A i \in 1..n : live[i] \in 1..Len(entries)
  BY <1>1, LiveIs
<1> HIDE DEF live
<1>6. CASE n = 0 \/ Len(cameras) = 0
  <2>1. p.cues = <<>>
    BY <1>1, <1>3, <1>6, SolveIs DEF live
  <2> QED
    BY <2>1 DEF PlanTyped, PlanOf, cameras, entries
<1>7. CASE n # 0 /\ Len(cameras) # 0
  <2>1. n >= 1 /\ Len(cameras) >= 1
    BY <1>3, <1>4, <1>7
  <2>2. \A i, j \in 1..n, k \in 1..Len(cameras) :
          PanCost(cameras[k], entries[live[i]].shot, entries[live[j]].shot) \in Nat
    BY <1>2, <1>3, <1>5
  <2>3. colour \in [1..n -> 1..Len(cameras)]
    BY <1>3, <1>4, <2>1, <2>2, ColoursInRange
  <2> HIDE DEF colour, p
  <2>4. Len(p.cues) = n /\ DOMAIN p.cues = 1..n
    BY <1>1, <1>3, <1>7, SolveIs DEF live, p
  <2>5. ASSUME NEW i \in 1..n
        PROVE  /\ p.cues[i].cue_index = live[i]
               /\ p.cues[i].camera = cameras[colour[i]]
               /\ p.cues[i].shot = entries[live[i]].shot
    BY <1>1, <1>3, <1>7, SolveIs DEF live, p, colour
  <2>6. \A i \in 1..n : cameras[colour[i]] \in Cams
    BY <1>3, <2>3
  <2>7. PlanTyped(p)
    BY <1>4, <2>4, <2>5, <2>6 DEF PlanTyped
  <2>8. PlanOf(p, entries)
    BY <2>4, <2>5 DEF PlanOf, live
  <2> QED
    BY <2>7, <2>8 DEF p, entries, cameras
<1> QED
  BY <1>6, <1>7

-----------------------------------------------------------------------------
(* The engine: threads.                                                     *)

Calling == {"none", "set", "load", "start", "stop", "plug", "down"}
Places  == {"idle", "snapshot", "solve", "clamp", "ctl", "check", "join", "reset", "clear", "down"}

(* The places of each call.                                                 *)
Jobs ==
  {<<"none", "idle">>,
   <<"set", "snapshot">>, <<"set", "solve">>, <<"set", "clamp">>,
   <<"load", "snapshot">>, <<"load", "solve">>, <<"load", "clamp">>,
   <<"start", "ctl">>, <<"start", "snapshot">>, <<"start", "solve">>,
   <<"start", "check">>, <<"start", "join">>,
   <<"stop", "ctl">>, <<"stop", "join">>, <<"stop", "reset">>,
   <<"plug", "snapshot">>, <<"plug", "solve">>,
   <<"down", "ctl">>, <<"down", "join">>, <<"down", "clear">>, <<"down", "down">>}

ThreadsTypeOK ==
  /\ sessions \subseteq Cams /\ started \in BOOLEAN
  /\ running \in BOOLEAN /\ quit \in BOOLEAN /\ cancelled \in BOOLEAN /\ quiet \in BOOLEAN
  /\ ctl \in Threads \cup {Nobody}
  /\ work \in [Threads -> [call : Calling, at : Places, seen : SUBSET Cams]]

InPlace == \A t \in Threads : <<work[t].call, work[t].at>> \in Jobs

(* A thread that is to have mix_ctl_mu_ for what it does next.              *)
Starting(t) == work[t].call = "start" /\ work[t].at \in {"snapshot", "solve", "check", "join"}
Stopping(t) == work[t].call \in {"stop", "down"} /\ work[t].at = "join"

(* It has it, and it alone.                                                 *)
CtlInv == \A t \in Threads : (Starting(t) \/ Stopping(t)) <=> ctl = t

(* A start goes on only while nothing runs; a stop that joins has the flags *)
(* as it has set them.                                                      *)
FlagsInv ==
  \A t \in Threads :
    /\ Starting(t) => ~running
    /\ Stopping(t) => (~running /\ quit)

(* Once the teardown has joined, no start is under way, and none will be.   *)
DownInv ==
  /\ work["main"].call = "down" => ~started
  /\ (work["main"].call = "down" /\ work["main"].at \in {"clear", "down"})
       => (loop = "none" /\ ~running /\ \A t \in Threads : ~Starting(t))

(* The mix thread has read a cue before it airs one.                        *)
LoopInv == loop \in {"air", "wait", "advance"} => now # NoCue

IInv ==
  /\ ThreadsTypeOK /\ InPlace /\ CtlInv /\ FlagsInv /\ DownInv /\ LoopInv
  /\ StartNotLost /\ RunningIsDriven /\ StoppedIsStill

(* No client is one of the other threads.                                   *)
LEMMA ClientNames == Clients \cap {"hotplug", "main", Nobody} = {}
BY EngineAssumption DEF EngineAssumption

USE ClientNames DEF Threads, Nobody

-----------------------------------------------------------------------------
(* The initial states.                                                      *)
LEMMA InitIInv == Init => IInv
<1> SUFFICES ASSUME Init PROVE IInv
  OBVIOUS
<1> USE DEF Init, Idle
<1>1. ThreadsTypeOK
  BY DEF ThreadsTypeOK, Calling, Places
<1>2. InPlace
  BY DEF InPlace, Jobs
<1>3. CtlInv /\ FlagsInv /\ DownInv
  BY DEF CtlInv, FlagsInv, DownInv, Starting, Stopping
<1>4. LoopInv /\ StartNotLost /\ RunningIsDriven /\ StoppedIsStill
  BY DEF LoopInv, StartNotLost, RunningIsDriven, StoppedIsStill
<1> QED
  BY <1>1, <1>2, <1>3, <1>4 DEF IInv

(* What the steps of the mix thread keep of the rest: they may clear the    *)
(* running flag and set no other.                                           *)
LEMMA LoopStep == ASSUME IInv, MixLoop PROVE IInv'
<1> USE DEF IInv, ThreadsTypeOK, InPlace, CtlInv, FlagsInv, DownInv, LoopInv, StartNotLost,
        RunningIsDriven, StoppedIsStill, Starting, Stopping, flags, cursor, thread, hist, authored, NoCue
<1>1. CASE LoopTop
  BY <1>1 DEF LoopTop, GoesOn
<1>2. CASE LoopRead
  <2>1. CASE Length = 0
    BY <1>2, <2>1 DEF LoopRead
  <2>2. CASE Length # 0
    <3>1. now'.at # 0
      BY <1>2, <2>2 DEF LoopRead, Cursor, Junk
    <3>2. now' # NoCue
      BY <3>1
    <3> QED
      BY <1>2, <2>2, <3>2 DEF LoopRead
  <2> QED
    BY <2>1, <2>2
<1>3. CASE LoopAirs
  BY <1>3 DEF LoopAirs
<1>4. CASE LoopWaits
  BY <1>4 DEF LoopWaits
<1>5. CASE LoopAdvances
  BY <1>5 DEF LoopAdvances
<1>6. CASE LoopExits
  BY <1>6 DEF LoopExits
<1> QED
  BY <1>1, <1>2, <1>3, <1>4, <1>5, <1>6 DEF MixLoop

(* The steps of the calls keep it.                                          *)
LEMMA SolveStep ==
  ASSUME IInv, NEW t \in Threads, Snapshot(t) \/ Replan(t)
  PROVE  IInv'
<1> USE DEF IInv, ThreadsTypeOK, InPlace, Jobs, CtlInv, FlagsInv, DownInv, LoopInv, StartNotLost,
        RunningIsDriven, StoppedIsStill, Starting, Stopping, flags, cursor, thread, hist, authored,
        Calling, Places, Idle, Goes, Ends
<1>1. CASE Snapshot(t)
  BY <1>1 DEF Snapshot
<1>2. CASE Replan(t)
  BY <1>2 DEF Replan, AfterSolve
<1> QED
  BY <1>1, <1>2

(* The clamps of the cursor keep the invariant.                             *)
LEMMA ClampStep ==
  ASSUME IInv, NEW t \in Threads, SetClamps(t) \/ LoadClamps(t) \/ StopResets(t)
  PROVE  IInv'
<1> USE DEF IInv, ThreadsTypeOK, InPlace, Jobs, CtlInv, FlagsInv, DownInv, LoopInv, StartNotLost,
        RunningIsDriven, StoppedIsStill, Starting, Stopping, flags, cursor, thread, hist, authored,
        Calling, Places, Idle, At, Ends
<1>1. CASE SetClamps(t)
  BY <1>1 DEF SetClamps
<1>2. CASE LoadClamps(t)
  BY <1>2 DEF LoadClamps
<1>3. CASE StopResets(t)
  BY <1>3 DEF StopResets
<1> QED
  BY <1>1, <1>2, <1>3

(* So do the steps of a start.                                              *)
LEMMA StartStep ==
  ASSUME IInv, NEW t \in Threads, StartDecides(t) \/ StartChecks(t) \/ Launch(t)
  PROVE  IInv'
<1> USE DEF IInv, ThreadsTypeOK, InPlace, Jobs, CtlInv, FlagsInv, DownInv, LoopInv, StartNotLost,
        RunningIsDriven, StoppedIsStill, Starting, Stopping, flags, cursor, thread, hist, authored,
        Calling, Places, Idle, At, Goes, Ends, MayStart, Arms, ArmedAt, Finished
<1>1. CASE StartDecides(t)
  BY <1>1 DEF StartDecides
<1>2. CASE StartChecks(t)
  BY <1>2 DEF StartChecks
<1>3. CASE Launch(t)
  <2>1. running' = TRUE /\ quit' = FALSE /\ loop' = "top" /\ quiet' = FALSE /\ cancelled' = FALSE
        /\ sessions' = sessions /\ started' = started /\ ctl' = Nobody
    BY <1>3 DEF Launch
  <2>2. Starting(t) /\ ctl = t /\ loop = "none"
    BY <1>3 DEF Launch
  <2>3. work'[t] = Idle /\ \A u \in Threads \ {t} : work'[u] = work[u]
    BY <1>3 DEF Launch
  <2>4. ThreadsTypeOK' /\ InPlace'
    BY <1>3, <2>1 DEF Launch
  <2>5. CtlInv' /\ FlagsInv'
    BY <2>1, <2>2, <2>3
  <2>6. DownInv'
    BY <2>1, <2>2, <2>3
  <2> QED
    BY <2>1, <2>4, <2>5, <2>6
<1> QED
  BY <1>1, <1>2, <1>3

(* And those of a stop and of the teardown.                                 *)
LEMMA StopStep ==
  ASSUME IInv, NEW t \in Threads, StopSignals(t) \/ StopJoins(t) \/ SessionsDie
  PROVE  IInv'
<1> USE DEF IInv, ThreadsTypeOK, InPlace, Jobs, CtlInv, FlagsInv, DownInv, LoopInv, StartNotLost,
        RunningIsDriven, StoppedIsStill, Starting, Stopping, flags, cursor, thread, hist, authored,
        Calling, Places, Idle, At, Goes, Finished
<1>1. CASE StopSignals(t)
  <2>1. running' = FALSE /\ quit' = TRUE /\ loop' = loop /\ quiet' = quiet
        /\ cancelled' = (loop # "none") /\ now' = now
        /\ sessions' = sessions /\ started' = started /\ ctl' = t /\ ctl = Nobody
    BY <1>1 DEF StopSignals
  <2>2. work[t].call \in {"stop", "down"} /\ work[t].at = "ctl"
    BY <1>1 DEF StopSignals
  <2>3. /\ work'[t].call = work[t].call /\ work'[t].at = "join"
        /\ \A u \in Threads \ {t} : work'[u] = work[u]
    BY <1>1 DEF StopSignals
  <2>4. ThreadsTypeOK'
    <3>1. /\ work'[t].call \in Calling /\ work'[t].at \in Places /\ work'[t].seen = work[t].seen
          /\ work' \in [Threads -> [call : Calling, at : Places, seen : SUBSET Cams]]
      BY <1>1 DEF StopSignals
    <3> QED
      BY <2>1, <3>1
  <2>5. InPlace'
    BY <2>2, <2>3
  <2>6. CtlInv' /\ FlagsInv'
    BY <2>1, <2>2, <2>3
  <2>7. DownInv'
    BY <2>1, <2>2, <2>3
  <2> QED
    BY <2>1, <2>4, <2>5, <2>6, <2>7
<1>2. CASE StopJoins(t)
  BY <1>2 DEF StopJoins
<1>3. CASE SessionsDie
  BY <1>3 DEF SessionsDie
<1> QED
  BY <1>1, <1>2, <1>3

(* The calls begin.                                                         *)
LEMMA CallStep ==
  ASSUME IInv, NEW t \in Clients, Client(t)
  PROVE  IInv'
<1> USE DEF IInv, ThreadsTypeOK, InPlace, Jobs, CtlInv, FlagsInv, DownInv, LoopInv, StartNotLost,
        RunningIsDriven, StoppedIsStill, Starting, Stopping, flags, cursor, thread, hist, authored,
        Calling, Places, Idle, Calls, Begins
<1>1. ASSUME NEW e \in Edits, NEW call \in {"set", "load"}, Edit(t, call, e)
      PROVE  IInv'
  BY <1>1 DEF Edit, AfterEdit
<1>2. ASSUME NEW e \in Edits, mix_save_as(t, e)
      PROVE  IInv'
  BY <1>2 DEF mix_save_as
<1>3. CASE mix_start(t)
  BY <1>3 DEF mix_start
<1>4. CASE mix_stop(t)
  BY <1>4 DEF mix_stop
<1> QED
  BY <1>1, <1>2, <1>3, <1>4 DEF Client, mix_set, mix_load

(* And what happens outside: cameras come and go, the bridge goes down.     *)
LEMMA OutsideStep ==
  ASSUME IInv, (\E c \in Cams : Plug(c)) \/ stop
  PROVE  IInv'
<1> USE DEF IInv, ThreadsTypeOK, InPlace, Jobs, CtlInv, FlagsInv, DownInv, LoopInv, StartNotLost,
        RunningIsDriven, StoppedIsStill, Starting, Stopping, flags, cursor, thread, hist, authored,
        Calling, Places, Idle, Begins
<1>1. ASSUME NEW c \in Cams, Plug(c)
      PROVE  IInv'
  BY <1>1 DEF Plug
<1>2. CASE stop
  <2>1. UNCHANGED <<sessions, flags, ctl, loop, now, cancelled, quiet>> /\ started' = FALSE
    BY <1>2 DEF stop
  <2>2. /\ work["main"].call = "none" /\ work'["main"].call = "down" /\ work'["main"].at = "ctl"
        /\ \A u \in Threads \ {"main"} : work'[u] = work[u]
    BY <1>2 DEF stop
  <2>3. ThreadsTypeOK'
    BY <1>2, <2>1 DEF stop
  <2>4. InPlace'
    BY <2>2
  <2>5. CtlInv' /\ FlagsInv' /\ DownInv'
    BY <2>1, <2>2
  <2> QED
    BY <2>1, <2>3, <2>4, <2>5
<1> QED
  BY <1>1, <1>2

-----------------------------------------------------------------------------
(* Every step keeps the invariant.                                          *)
LEMMA NextIInv == IInv /\ [Next]_vars => IInv'
<1> SUFFICES ASSUME IInv, [Next]_vars PROVE IInv'
  OBVIOUS
<1>1. ASSUME NEW t \in Threads, Proceeds(t) PROVE IInv'
  BY <1>1, SolveStep, ClampStep, StartStep, StopStep DEF Proceeds
<1>2. CASE MixLoop
  BY <1>2, LoopStep
<1>3. ASSUME NEW t \in Clients, Client(t) PROVE IInv'
  BY <1>3, CallStep
<1>4. CASE (\E c \in Cams : Plug(c)) \/ stop
  BY <1>4, OutsideStep
<1>5. CASE UNCHANGED vars
  BY <1>5 DEF vars, IInv, ThreadsTypeOK, InPlace, CtlInv, FlagsInv, DownInv, LoopInv,
              StartNotLost, RunningIsDriven, StoppedIsStill, Starting, Stopping,
              flags, cursor, thread, hist, authored
<1> QED
  BY <1>1, <1>2, <1>3, <1>4, <1>5 DEF Next

(* The threads keep to their invariant.                                     *)
THEOREM Invariance == Spec => []IInv
BY InitIInv, NextIInv, PTL DEF Spec

(* For any number of clients, cameras and edits, whatever is called when: a *)
(* run that mix_start launched, and that nobody ended, begins.              *)
THEOREM StartsBegin == Spec => []StartNotLost
<1>1. IInv => StartNotLost
  BY DEF IInv
<1> QED
  BY <1>1, Invariance, PTL

(* While mix_running_ is set there is a mix thread.                         *)
THEOREM RunsAreDriven == Spec => []RunningIsDriven
<1>1. IInv => RunningIsDriven
  BY DEF IInv
<1> QED
  BY <1>1, Invariance, PTL

(* An acknowledged mix_start is carried out.                                *)
THEOREM StartsTake == Spec => []StartTakes
<1>1. StartNotLost /\ RunningIsDriven => StartTakes
  BY DEF StartTakes
<1> QED
  BY <1>1, StartsBegin, RunsAreDriven, PTL

(* A mix thread that is being joined has been told to leave, for good.      *)
THEOREM JoinsEnd == Spec => []JoinedIsLeaving
<1>1. IInv => JoinedIsLeaving
  <2> SUFFICES ASSUME IInv, NEW t \in Threads, work[t].at = "join"
               PROVE  ~(running /\ ~quit)
    BY DEF JoinedIsLeaving
  <2>1. Starting(t) \/ Stopping(t)
    BY DEF IInv, InPlace, Jobs, Starting, Stopping
  <2> QED
    BY <2>1 DEF IInv, FlagsInv
<1> QED
  BY <1>1, Invariance, PTL

(* After a stop has joined there is no mix thread until the next launch.    *)
THEOREM StopsHold == Spec => []StoppedIsStill
<1>1. IInv => StoppedIsStill
  BY DEF IInv
<1> QED
  BY <1>1, Invariance, PTL

(* When the sessions die there is no mix thread, and none can come.         *)
THEOREM TeardownIsQuiet == Spec => []DownIsQuiet
<1>1. IInv => DownIsQuiet
  BY DEF IInv, DownInv, DownIsQuiet, At
<1> QED
  BY <1>1, Invariance, PTL

(* A stopped mix stays stopped.                                             *)
THEOREM StopsLast == Spec => []StopHolds
<1>1. StoppedIsStill /\ DownIsQuiet => StopHolds
  BY DEF StopHolds
<1> QED
  BY <1>1, StopsHold, TeardownIsQuiet, PTL

-----------------------------------------------------------------------------
(* The engine: its plan.                                                    *)

(* What a step may do to the cues and to the plan.                          *)
LEMMA CuesChange ==
  ASSUME [Next]_vars
  PROVE  UNCHANGED authored \/ \E e \in Edits : cues' = e.cues /\ mode' = e.mode
<1> USE DEF authored
<1>1. ASSUME NEW t \in Threads, Proceeds(t) PROVE UNCHANGED authored
  BY <1>1 DEF Proceeds, Snapshot, Replan, SetClamps, LoadClamps, StartDecides, StartChecks, Launch,
              StopSignals, StopJoins, StopResets, SessionsDie
<1>2. CASE MixLoop
  BY <1>2 DEF MixLoop, LoopTop, LoopRead, LoopAirs, LoopWaits, LoopAdvances, LoopExits
<1>3. ASSUME NEW t \in Clients, Client(t)
      PROVE  UNCHANGED authored \/ \E e \in Edits : cues' = e.cues /\ mode' = e.mode
  BY <1>3 DEF Client, mix_set, mix_load, Edit, mix_save_as, mix_start, mix_stop
<1>4. CASE (\E c \in Cams : Plug(c)) \/ stop
  BY <1>4 DEF Plug, stop
<1>5. CASE UNCHANGED vars
  BY <1>5 DEF vars
<1> QED
  BY <1>1, <1>2, <1>3, <1>4, <1>5 DEF Next

(* What a step may do to the plan.                                          *)
LEMMA PlanChanges ==
  ASSUME [Next]_vars
  PROVE  UNCHANGED plan \/ \E t \in Threads : Replan(t)
<1>1. ASSUME NEW t \in Threads, Proceeds(t) PROVE UNCHANGED plan \/ Replan(t)
  BY <1>1 DEF Proceeds, Snapshot, SetClamps, LoadClamps, StartDecides, StartChecks, Launch,
              StopSignals, StopJoins, StopResets, SessionsDie
<1>2. CASE MixLoop
  BY <1>2 DEF MixLoop, LoopTop, LoopRead, LoopAirs, LoopWaits, LoopAdvances, LoopExits
<1>3. ASSUME NEW t \in Clients, Client(t) PROVE UNCHANGED plan
  BY <1>3 DEF Client, mix_set, mix_load, Edit, mix_save_as, mix_start, mix_stop
<1>4. CASE (\E c \in Cams : Plug(c)) \/ stop
  BY <1>4 DEF Plug, stop
<1>5. CASE UNCHANGED vars
  BY <1>5 DEF vars
<1> QED
  BY <1>1, <1>2, <1>3, <1>4, <1>5 DEF Next

(* The plan is a plan, whatever is edited and plugged, and the cursor and   *)
(* the direction are what the loop can go on from.                          *)
PlanInv ==
  /\ [cues |-> cues, mode |-> mode] \in Edits
  /\ PlanTyped(plan)
  /\ index \in Nat /\ direction \in {-1, 1}
  /\ now # Junk
  /\ loop \in {"none", "top", "read", "air", "wait", "advance", "exit"}

(* At the start there is no plan, and no cue is read.                       *)
LEMMA InitPlanInv == Init => PlanInv
<1> SUFFICES ASSUME Init PROVE PlanInv
  OBVIOUS
<1>1. PICK e \in Edits : cues = e.cues /\ mode = e.mode
  BY DEF Init
<1>2. [cues |-> cues, mode |-> mode] = e
  BY <1>1, EngineAssumption DEF EngineAssumption
<1>3. PlanTyped(plan)
  <2>1. CASE sessions = {}
    BY <2>1, NoPlanIs DEF Init
  <2>2. CASE sessions # {}
    <3>1. plan = solve(e.cues, Roster(sessions), mode = "forward")
      BY <1>1, <2>2 DEF Init
    <3> QED
      BY <3>1, SolveFits
  <2> QED
    BY <2>1, <2>2
<1>4. now # Junk
  BY DEF Init, NoCue, Junk
<1>5. index \in Nat /\ direction \in {-1, 1} /\ loop = "none"
  BY DEF Init
<1> QED
  BY <1>2, <1>3, <1>4, <1>5 DEF PlanInv

(* After a cue of the plan, in any direction, comes another or the end.     *)
LEMMA TurnedIsACue ==
  ASSUME NEW cur \in Nat, NEW d \in {-1, 1}, NEW n \in Nat, n >= 1, NEW m,
         n = 1 => m \in {"once", "forward"}
  PROVE  /\ Turned(cur, d, n, m)[1] \in Nat
         /\ Turned(cur, d, n, m)[2] \in {-1, 1}
<1>1. (cur % n) + 1 \in Nat
  OBVIOUS
<1>2. CASE m = "forward"
  BY <1>1, <1>2 DEF Turned
<1>3. CASE m = "once"
  BY <1>3 DEF Turned
<1>4. CASE m \notin {"once", "forward"}
  <2>1. n > 1
    BY <1>4
  <2>2. CASE cur + d > n
    BY <1>4, <2>1, <2>2 DEF Turned
  <2>3. CASE cur + d <= n /\ cur + d < 1
    BY <1>4, <2>1, <2>3 DEF Turned
  <2>4. CASE cur + d <= n /\ cur + d >= 1
    BY <1>4, <2>1, <2>4 DEF Turned
  <2> QED
    BY <2>2, <2>3, <2>4
<1> QED
  BY <1>2, <1>3, <1>4

(* What the mix thread does to the cursor and to the cue it read.           *)
LEMMA LoopPlanInv ==
  ASSUME PlanInv, MixLoop
  PROVE  /\ index' \in Nat /\ direction' \in {-1, 1} /\ now' # Junk
         /\ loop' \in {"none", "top", "read", "air", "wait", "advance", "exit"}
<1> USE DEF cursor
<1>0. index \in Nat /\ direction \in {-1, 1} /\ now # Junk
  BY DEF PlanInv
<1>1. CASE LoopTop \/ LoopAirs \/ LoopWaits
  <2>1. UNCHANGED <<index, direction, now>> /\ loop' \in {"read", "exit", "wait", "advance"}
    BY <1>1 DEF LoopTop, LoopAirs, LoopWaits
  <2> QED
    BY <1>0, <2>1
<1>2. CASE LoopRead
  <2>1. direction' = direction
    BY <1>2 DEF LoopRead
  <2>2. CASE Length = 0
    BY <1>0, <1>2, <2>2 DEF LoopRead
  <2>3. CASE Length # 0
    <3>1. Length \in Nat /\ DOMAIN plan.cues = 1..Length
      BY DEF PlanInv, PlanTyped, Length
    <3>2. Cursor \in 1..Length
      BY <2>3, <3>1 DEF Cursor
    <3>3. index' = Cursor /\ loop' = "air"
      BY <1>2, <2>3 DEF LoopRead
    <3>4. now'.at = Cursor
      BY <1>2, <2>3, <3>1, <3>2 DEF LoopRead
    <3>5. now'.at # -1
      BY <3>1, <3>2, <3>4
    <3>6. now' # Junk
      BY <3>5 DEF Junk
    <3> QED
      BY <1>0, <2>1, <3>1, <3>2, <3>3, <3>6
  <2> QED
    BY <2>2, <2>3
<1>3. CASE LoopAdvances
  <2>1. now' = now /\ loop' \in {"exit", "top"}
    BY <1>3 DEF LoopAdvances
  <2>2. CASE Length = 0
    BY <1>0, <1>3, <2>1, <2>2 DEF LoopAdvances
  <2>3. CASE Length # 0 /\ mode = "once"
    BY <1>0, <1>3, <2>1, <2>3 DEF LoopAdvances
  <2>4. CASE Length # 0 /\ mode = "ping_pong" /\ Length = 1
    BY <1>0, <1>3, <2>1, <2>4 DEF LoopAdvances
  <2>5. CASE Length # 0 /\ mode # "once" /\ ~(mode = "ping_pong" /\ Length = 1)
    <3>1. /\ index' = Turned(index, direction, Length, mode)[1]
          /\ direction' = Turned(index, direction, Length, mode)[2]
      BY <1>3, <2>5 DEF LoopAdvances
    <3>2. Length \in Nat
      BY DEF PlanInv, PlanTyped, Length
    <3>3. Length >= 1
      BY <2>5, <3>2
    <3>4. mode \in {"once", "forward", "ping_pong"}
      BY EngineAssumption DEF PlanInv, EngineAssumption
    <3>5. Length = 1 => mode \in {"once", "forward"}
      BY <2>5, <3>4
    <3> QED
      BY <1>0, <2>1, <3>1, <3>2, <3>3, <3>5, TurnedIsACue
  <2> QED
    BY <2>2, <2>3, <2>4, <2>5
<1>4. CASE LoopExits
  BY <1>0, <1>4 DEF LoopExits, NoCue, Junk
<1> QED
  BY <1>1, <1>2, <1>3, <1>4 DEF MixLoop

(* And what the others do to them.                                          *)
LEMMA OthersPlanInv ==
  ASSUME PlanInv, [Next]_vars, ~MixLoop
  PROVE  /\ index' \in Nat /\ direction' \in {-1, 1} /\ now' # Junk
         /\ loop' \in {"none", "top", "read", "air", "wait", "advance", "exit"}
<1> USE DEF cursor, thread
<1>0. index \in Nat /\ direction \in {-1, 1} /\ now # Junk /\ Length \in Nat
      /\ loop \in {"none", "top", "read", "air", "wait", "advance", "exit"}
  BY DEF PlanInv, PlanTyped, Length
<1>1. ASSUME NEW t \in Threads,
             Snapshot(t) \/ Replan(t) \/ StartDecides(t) \/ StopSignals(t) \/ StopJoins(t) \/ SessionsDie
      PROVE  UNCHANGED <<cursor, loop, now>>
  BY <1>1 DEF Snapshot, Replan, StartDecides, StopSignals, StopJoins, SessionsDie
<1>2. ASSUME NEW t \in Threads, SetClamps(t) \/ LoadClamps(t)
      PROVE  index' \in {index, Length} /\ UNCHANGED <<direction, loop, now>>
  BY <1>2 DEF SetClamps, LoadClamps
<1>3. ASSUME NEW t \in Threads, StartChecks(t)
      PROVE  /\ loop' = loop /\ now' = now
             /\ index' \in {index, 1} /\ direction' \in {direction, 1}
  <2>1. loop' = loop /\ now' = now
    BY <1>3 DEF StartChecks
  <2>2. CASE Length = 0
    <3>1. cursor' = cursor
      BY <1>3, <2>2 DEF StartChecks
    <3> QED
      BY <2>1, <3>1
  <2>3. CASE Length # 0
    BY <1>3, <2>1, <2>3 DEF StartChecks
  <2> QED
    BY <2>2, <2>3
<1>4. ASSUME NEW t \in Threads, Launch(t)
      PROVE  UNCHANGED cursor /\ loop' = "top" /\ now' = NoCue
  BY <1>4 DEF Launch
<1>5. ASSUME NEW t \in Threads, StopResets(t)
      PROVE  index' = 0 /\ UNCHANGED <<direction, loop, now>>
  BY <1>5 DEF StopResets
<1>6. ASSUME NEW t \in Clients, Client(t) PROVE UNCHANGED <<cursor, loop, now>>
  BY <1>6 DEF Client, mix_set, mix_load, Edit, mix_save_as, mix_start, mix_stop
<1>7. CASE (\E c \in Cams : Plug(c)) \/ stop \/ UNCHANGED vars
  <2>1. UNCHANGED <<cursor, loop, now>>
    BY <1>7 DEF Plug, stop, vars
  <2> QED
    BY <1>0, <2>1
<1>8. NoCue # Junk
  BY DEF NoCue, Junk
<1>9. ASSUME NEW t \in Threads, Proceeds(t)
      PROVE  /\ index' \in Nat /\ direction' \in {-1, 1} /\ now' # Junk
             /\ loop' \in {"none", "top", "read", "air", "wait", "advance", "exit"}
  BY <1>0, <1>1, <1>2, <1>3, <1>4, <1>5, <1>8, <1>9 DEF Proceeds
<1> QED
  BY <1>0, <1>6, <1>7, <1>9 DEF Next

(* Every step keeps the plan of the type and the cursor in it.              *)
LEMMA NextPlanInv ==
  ASSUME PlanInv, [Next]_vars
  PROVE  PlanInv'
<1>1. [cues |-> cues', mode |-> mode'] \in Edits
  <2>1. CASE UNCHANGED authored
    BY <2>1 DEF authored, PlanInv
  <2>2. ASSUME NEW e \in Edits, cues' = e.cues, mode' = e.mode
        PROVE  [cues |-> cues', mode |-> mode'] \in Edits
    <3>1. [cues |-> cues', mode |-> mode'] = e
      BY <2>2, EngineAssumption DEF EngineAssumption
    <3> QED
      BY <3>1
  <2> QED
    BY <2>1, <2>2, CuesChange
<1>2. PlanTyped(plan')
  <2>1. CASE UNCHANGED plan
    BY <2>1 DEF PlanInv
  <2>2. ASSUME NEW t \in Threads, Replan(t) PROVE PlanTyped(plan')
    <3> DEFINE e == [cues |-> cues, mode |-> mode]
    <3>1. e \in Edits /\ e.cues = cues
      BY DEF PlanInv
    <3>2. plan' = solve(e.cues, Roster(work[t].seen), mode = "forward")
      BY <2>2, <3>1 DEF Replan
    <3> HIDE DEF e
    <3> QED
      BY <3>1, <3>2, SolveFits
  <2> QED
    BY <2>1, <2>2, PlanChanges
<1>3. PlanTyped(plan)'
  BY <1>2 DEF PlanTyped
<1> QED
  BY <1>1, <1>3, LoopPlanInv, OthersPlanInv DEF PlanInv

(* For any number of clients, cameras and edits, whatever is edited, saved, *)
(* plugged and stopped under a run: the cue on air is one of the plan, the  *)
(* plan is on known cameras, the cursor is a cursor.                        *)
THEOREM EngineTyped == Spec => []EngineTypeOK
<1>1. Spec => []PlanInv
  BY InitPlanInv, NextPlanInv, PTL DEF Spec
<1>2. IInv /\ PlanInv => EngineTypeOK
  BY DEF IInv, ThreadsTypeOK, PlanInv, PlanTyped, EngineTypeOK, Length
<1> QED
  BY <1>1, <1>2, Invariance, PTL

-----------------------------------------------------------------------------
(* The engine: the plan is of the authored cues.                            *)

(* A client that is to solve goes on to do so, and only its solve ends that: *)
(* a step that leaves the plan current, other than a solve, found it so and *)
(* left the cues alone.                                                     *)
ToSolve(u) == work[u].at \in {"snapshot", "solve"}

(* A step of a call that is no solve.                                       *)
LEMMA ProceedsToSolve ==
  ASSUME IInv, NEW t \in Threads, Proceeds(t), ~Replan(t)
  PROVE  /\ unsolved' = unsolved /\ UNCHANGED authored
         /\ \A u \in Clients : ToSolve(u) => ToSolve(u)'
<1>0. work \in [Threads -> [call : Calling, at : Places, seen : SUBSET Cams]]
  BY DEF IInv, ThreadsTypeOK
<1> USE DEF ToSolve, hist, At, Goes, Ends
<1>1. CASE Snapshot(t)
  BY <1>0, <1>1 DEF Snapshot
<1>2. CASE SetClamps(t) \/ LoadClamps(t)
  BY <1>0, <1>2 DEF SetClamps, LoadClamps
<1>3. CASE StartDecides(t)
  BY <1>0, <1>3 DEF StartDecides
<1>4. CASE StartChecks(t)
  BY <1>0, <1>4 DEF StartChecks
<1>5. CASE Launch(t)
  BY <1>0, <1>5 DEF Launch
<1>6. CASE StopSignals(t)
  BY <1>0, <1>6 DEF StopSignals
<1>7. CASE StopJoins(t)
  BY <1>0, <1>7 DEF StopJoins
<1>8. CASE StopResets(t)
  BY <1>0, <1>8 DEF StopResets
<1>9. CASE SessionsDie
  BY <1>0, <1>9 DEF SessionsDie
<1> QED
  BY <1>1, <1>2, <1>3, <1>4, <1>5, <1>6, <1>7, <1>8, <1>9 DEF Proceeds

(* A call that begins leaves the cues alone and the plan as current as it   *)
(* was.                                                                     *)
LEMMA ClientToSolve ==
  ASSUME IInv, NEW t \in Clients, Client(t)
  PROVE  \/ \E u \in Clients : ToSolve(u)'
         \/ unsolved'
         \/ /\ unsolved' = unsolved /\ UNCHANGED authored
            /\ \A u \in Clients : ToSolve(u) => ToSolve(u)'
<1>0. work \in [Threads -> [call : Calling, at : Places, seen : SUBSET Cams]]
  BY DEF IInv, ThreadsTypeOK
<1> USE DEF ToSolve, hist, Calls, Begins, Idle
<1>1. ASSUME NEW e \in Edits, NEW call, Edit(t, call, e)
      PROVE  ToSolve(t)'
  BY <1>0, <1>1 DEF Edit, AfterEdit
<1>2. ASSUME NEW e \in Edits, mix_save_as(t, e)
      PROVE  unsolved'
  BY <1>2 DEF mix_save_as
<1>3. CASE mix_start(t) \/ mix_stop(t)
  BY <1>0, <1>3 DEF mix_start, mix_stop
<1> QED
  BY <1>1, <1>2, <1>3 DEF Client, mix_set, mix_load

(* A step that is no solve and leaves the plan current found it so.         *)
LEMMA StaysCurrent ==
  ASSUME IInv, [Next]_vars, Current', \A t \in Threads : ~Replan(t)
  PROVE  Current /\ UNCHANGED <<plan, authored>>
<1>0. ~unsolved' /\ \A u \in Clients : ~ToSolve(u)'
  BY DEF Current, ToSolve
<1>1. UNCHANGED plan
  BY PlanChanges
<1>2. unsolved' = unsolved /\ UNCHANGED authored /\ \A u \in Clients : ToSolve(u) => ToSolve(u)'
  <2>1. ASSUME NEW t \in Threads, Proceeds(t)
        PROVE  unsolved' = unsolved /\ UNCHANGED authored /\ \A u \in Clients : ToSolve(u) => ToSolve(u)'
    BY <2>1, ProceedsToSolve
  <2>2. ASSUME NEW t \in Clients, Client(t)
        PROVE  unsolved' = unsolved /\ UNCHANGED authored /\ \A u \in Clients : ToSolve(u) => ToSolve(u)'
    BY <1>0, <2>2, ClientToSolve
  <2>3. CASE MixLoop
    BY <2>3 DEF MixLoop, LoopTop, LoopRead, LoopAirs, LoopWaits, LoopAdvances, LoopExits, hist, ToSolve
  <2>4. CASE stop \/ UNCHANGED vars
    BY <2>4 DEF stop, vars, hist, ToSolve, Begins, IInv, ThreadsTypeOK
  <2>5. ASSUME NEW c \in Cams, Plug(c)
        PROVE  unsolved' = unsolved /\ UNCHANGED authored /\ \A u \in Clients : ToSolve(u) => ToSolve(u)'
    BY <2>5 DEF Plug, ToSolve, Begins, IInv, ThreadsTypeOK
  <2> QED
    BY <2>1, <2>2, <2>3, <2>4, <2>5 DEF Next
<1> QED
  BY <1>0, <1>1, <1>2 DEF Current, ToSolve

(* PlanOfAuthored, in the terms of what solve returns.                      *)
LEMMA AuthoredIs == PlanOfAuthored <=> (Current => PlanOf(plan, cues))
BY DEF PlanOfAuthored, PlanOf, Length

(* It holds of the empty plan of no cues.                                   *)
LEMMA InitAuthored == Init => PlanOfAuthored
<1> SUFFICES ASSUME Init PROVE PlanOf(plan, cues)
  BY AuthoredIs
<1>1. PICK e \in Edits : cues = e.cues
  BY DEF Init
<1>2. CASE sessions = {}
  BY <1>2, NoPlanIs DEF Init
<1>3. CASE sessions # {}
  <2>1. plan = solve(e.cues, Roster(sessions), mode = "forward")
    BY <1>1, <1>3 DEF Init
  <2> QED
    BY <1>1, <2>1, SolveFits
<1> QED
  BY <1>2, <1>3

(* Every step keeps the current plan one of the authored cues.              *)
LEMMA NextAuthored ==
  ASSUME IInv, PlanInv, PlanOfAuthored, [Next]_vars
  PROVE  PlanOfAuthored'
<1>1. ASSUME NEW t \in Threads, Replan(t) PROVE PlanOf(plan', cues')
  <2> DEFINE e == [cues |-> cues, mode |-> mode]
  <2>1. e \in Edits /\ e.cues = cues
    BY DEF PlanInv
  <2>2. plan' = solve(e.cues, Roster(work[t].seen), mode = "forward") /\ cues' = cues
    BY <1>1, <2>1 DEF Replan, authored
  <2> HIDE DEF e
  <2> QED
    BY <2>1, <2>2, SolveFits
<1>2. ASSUME Current', \A t \in Threads : ~Replan(t) PROVE PlanOf(plan', cues')
  <2>1. Current /\ plan' = plan /\ cues' = cues
    BY <1>2, StaysCurrent DEF authored
  <2> QED
    BY <2>1, AuthoredIs
<1>3. Current' => PlanOf(plan', cues')
  BY <1>1, <1>2
<1> QED
  BY <1>3 DEF PlanOfAuthored, PlanOf, Length

(* Whatever edits, saves and replugs overlap: once they are over, the plan  *)
(* is empty or of the cues that are shown as authored.                      *)
THEOREM PlansAreOfAuthored == Spec => []PlanOfAuthored
<1>1. Spec => []PlanInv
  BY InitPlanInv, NextPlanInv, PTL DEF Spec
<1> QED
  BY <1>1, InitAuthored, NextAuthored, Invariance, PTL DEF Spec

-----------------------------------------------------------------------------
(* The engine: the walk.                                                    *)

(* Where a run goes on from cue i, left in direction d.                     *)
NextOf(i, d) ==
  IF mode = "once" THEN <<i + 1, d>>
  ELSE IF mode = "ping_pong" /\ Length = 1 THEN <<1, d>>
  ELSE Turned(i, d, Length, mode)

(* The cue that was read last is still the plan's, with the meanwhile of    *)
(* direction d.                                                             *)
CueRead(d) ==
  /\ now.at \in 1..Length
  /\ now.camera = plan.cues[now.at].camera /\ now.shot = plan.cues[now.at].shot
  /\ now.walks = meanwhile_at(plan, now.at, d, mode)

(* Its idle cameras that are there have been sent where it sends them.      *)
Walked ==
  \A c \in sessions : \A w \in now.walks :
    (/\ c # now.camera /\ w.camera = c /\ w.shot # Hold
     /\ \A v \in now.walks : v.camera = c => v.shot = w.shot) => pose[c] = w.shot

(* The run itself, from the cue that was read in direction d.               *)
Follows(d) ==
  /\ CueRead(d)
  /\ loop \in {"air", "wait", "advance"} => (index = now.at /\ direction = d)
  /\ loop \in {"top", "read"} => <<index, direction>> = NextOf(now.at, d)
  /\ loop \in {"wait", "advance", "top", "read"} => Walked
  /\ (loop = "read" \/ (loop = "top" /\ running)) => (mode = "once" => index <= Length)

WalkInv == (~dirty /\ now # NoCue) => \E d \in {-1, 1} : Follows(d)

(* Whoever else steps either leaves the run as it is or is seen to have     *)
(* changed it.                                                              *)
LEMMA OthersShow ==
  ASSUME [Next]_vars, ~MixLoop
  PROVE  \/ dirty'
         \/ /\ UNCHANGED <<sessions, plan, mode, index, direction, loop, now, pose, dirty>>
            /\ running' => running
<1> USE DEF authored, flags, cursor, thread, hist
<1>1. ASSUME NEW t \in Threads,
             Replan(t) \/ SetClamps(t) \/ LoadClamps(t) \/ StartChecks(t) \/ Launch(t)
               \/ StopResets(t) \/ SessionsDie
      PROVE  dirty'
  BY <1>1 DEF Replan, SetClamps, LoadClamps, StartChecks, Launch, StopResets, SessionsDie
<1>2. ASSUME NEW t \in Threads, Snapshot(t) \/ StartDecides(t) \/ StopSignals(t) \/ StopJoins(t)
      PROVE  /\ UNCHANGED <<sessions, plan, mode, index, direction, loop, now, pose, dirty>>
             /\ running' => running
  BY <1>2 DEF Snapshot, StartDecides, StopSignals, StopJoins
<1>3. ASSUME NEW t \in Clients, NEW e \in Edits, mix_set(t, e) \/ mix_load(t, e) \/ mix_save_as(t, e)
      PROVE  dirty'
  BY <1>3 DEF mix_set, mix_load, mix_save_as, Edit
<1>4. ASSUME NEW t \in Clients, mix_start(t) \/ mix_stop(t)
      PROVE  /\ UNCHANGED <<sessions, plan, mode, index, direction, loop, now, pose, dirty>>
             /\ running' => running
  BY <1>4 DEF mix_start, mix_stop
<1>5. ASSUME NEW c \in Cams, Plug(c) PROVE dirty'
  BY <1>5 DEF Plug
<1>6. CASE stop \/ UNCHANGED vars
  BY <1>6 DEF stop, vars
<1> QED
  BY <1>1, <1>2, <1>3, <1>4, <1>5, <1>6 DEF Next, Client, Proceeds

(* A step of another thread leaves the walk of the mix thread as it is.     *)
LEMMA OthersWalkInv ==
  ASSUME WalkInv, [Next]_vars, ~MixLoop
  PROVE  WalkInv'
<1>1. CASE dirty'
  BY <1>1 DEF WalkInv
<1>2. CASE /\ UNCHANGED <<sessions, plan, mode, index, direction, loop, now, pose, dirty>>
           /\ running' => running
  <2>1. ASSUME NEW d \in {-1, 1}, Follows(d) PROVE Follows(d)'
    BY <1>2, <2>1 DEF Follows, CueRead, Walked, NextOf, Length
  <2> QED
    BY <1>2, <2>1 DEF WalkInv, NoCue
<1> QED
  BY <1>1, <1>2, OthersShow

(* The mix thread goes on with the walk.                                    *)
LEMMA LoopWalkInv ==
  ASSUME PlanInv, WalkInv, MixLoop, sessions \subseteq Cams
  PROVE  WalkInv'
<1> USE DEF authored, flags, cursor, thread, hist
<1>0. SUFFICES ASSUME ~dirty', now' # NoCue
               PROVE  \E d \in {-1, 1} : Follows(d)'
  BY DEF WalkInv
<1>1. CASE LoopTop \/ LoopWaits
  <2>1. UNCHANGED <<sessions, plan, mode, running, index, direction, now, pose, dirty>>
    BY <1>1 DEF LoopTop, LoopWaits
  <2>2. \/ loop = "top" /\ loop' \in {"read", "exit"} /\ (loop' = "read" => running)
        \/ loop = "wait" /\ loop' \in {"advance", "exit"}
    <3>1. CASE LoopTop
      BY <3>1 DEF LoopTop, GoesOn
    <3>2. CASE LoopWaits
      BY <3>2 DEF LoopWaits
    <3> QED
      BY <1>1, <3>1, <3>2
  <2>3. PICK d \in {-1, 1} : Follows(d)
    BY <1>0, <2>1 DEF WalkInv
  <2>4. Follows(d)'
    BY <2>1, <2>2, <2>3 DEF Follows, CueRead, Walked, NextOf, Length
  <2> QED
    BY <2>4
<1>2. CASE LoopRead /\ Length = 0
  <2>1. UNCHANGED <<sessions, plan, mode, index, direction, now, pose, dirty>> /\ loop' = "exit"
    BY <1>2 DEF LoopRead
  <2>2. PICK d \in {-1, 1} : Follows(d)
    BY <1>0, <2>1 DEF WalkInv
  <2>3. Follows(d)'
    BY <2>1, <2>2 DEF Follows, CueRead, Length
  <2> QED
    BY <2>3
<1>3. CASE LoopRead /\ Length # 0
  <2>1. /\ UNCHANGED <<plan, mode, direction>> /\ loop' = "air" /\ index' = Cursor
    BY <1>3 DEF LoopRead
  <2>2. Length \in Nat /\ DOMAIN plan.cues = 1..Length /\ direction \in {-1, 1}
    BY DEF PlanInv, PlanTyped, Length
  <2>3. Cursor \in 1..Length
    BY <1>3, <2>2 DEF Cursor
  <2>4. now' = [at |-> Cursor, camera |-> plan.cues[Cursor].camera,
                shot |-> plan.cues[Cursor].shot, walks |-> Walks(Cursor)]
    BY <1>3, <2>2, <2>3 DEF LoopRead
  <2>5. CueRead(direction)'
    BY <2>1, <2>3, <2>4 DEF CueRead, Walks, Length
  <2>6. Follows(direction)'
    BY <2>1, <2>4, <2>5 DEF Follows
  <2> QED
    BY <2>1, <2>2, <2>6
<1>4. CASE LoopAirs
  <2>1. /\ UNCHANGED <<sessions, plan, mode, running, index, direction, now, dirty>>
        /\ loop = "air" /\ loop' = "wait"
    BY <1>4 DEF LoopAirs
  <2>2. PICK d \in {-1, 1} : Follows(d)
    BY <1>0, <2>1 DEF WalkInv
  <2>3. Walked'
    <3> SUFFICES ASSUME NEW c \in sessions, NEW w \in now.walks,
                        c # now.camera, w.camera = c, w.shot # Hold,
                        \A v \in now.walks : v.camera = c => v.shot = w.shot
                 PROVE  pose'[c] = w.shot
      BY <2>1 DEF Walked
    <3> DEFINE chosen == CHOOSE v \in now.walks : v.camera = c
    <3>1. chosen \in now.walks /\ chosen.camera = c
      OBVIOUS
    <3>2. chosen.shot = w.shot
      BY <3>1
    <3> HIDE DEF chosen
    <3>3. c \in Cams
      OBVIOUS
    <3>4. pose'[c] = chosen.shot
      BY <1>4, <3>3 DEF LoopAirs, chosen
    <3> QED
      BY <3>2, <3>4
  <2>4. Follows(d)'
    BY <2>1, <2>2, <2>3 DEF Follows, CueRead, Length
  <2> QED
    BY <2>4
<1>5. CASE LoopAdvances
  <2>1. UNCHANGED <<sessions, plan, mode, now, pose, dirty>> /\ loop = "advance"
    BY <1>5 DEF LoopAdvances
  <2>2. PICK d \in {-1, 1} : Follows(d)
    BY <1>0, <2>1 DEF WalkInv
  <2>3. CueRead(d) /\ Walked /\ index = now.at /\ direction = d /\ now.at \in 1..Length
    BY <2>1, <2>2 DEF Follows, CueRead
  <2>4. Length \in Nat
    BY DEF PlanInv, PlanTyped, Length
  <2>5. Length # 0
    BY <2>3, <2>4
  <2>6. loop' = "top"
    BY <1>5, <2>5 DEF LoopAdvances
  <2>7. CueRead(d)' /\ Walked'
    BY <2>1, <2>3 DEF CueRead, Walked, Length
  <2>8. <<index', direction'>> = NextOf(now.at, d)
    <3>1. CASE mode = "once"
      BY <1>5, <2>3, <2>5, <3>1 DEF LoopAdvances, NextOf
    <3>2. CASE mode # "once" /\ mode = "ping_pong" /\ Length = 1
      BY <1>5, <2>3, <2>5, <3>2 DEF LoopAdvances, NextOf
    <3>3. CASE mode # "once" /\ ~(mode = "ping_pong" /\ Length = 1)
      <4> DEFINE next == Turned(index, direction, Length, mode)
      <4>1. index' = next[1] /\ direction' = next[2]
        BY <1>5, <2>5, <3>3 DEF LoopAdvances
      <4>2. next = <<next[1], next[2]>>
        BY <3>3 DEF Turned
      <4> HIDE DEF next
      <4>3. <<index', direction'>> = next
        BY <4>1, <4>2
      <4> QED
        BY <2>3, <3>3, <4>3 DEF NextOf, next
    <3> QED
      BY <3>1, <3>2, <3>3
  <2>9. running' => (mode' = "once" => index' <= Length')
    <3> SUFFICES ASSUME running', mode = "once" PROVE index' <= Length
      BY <2>1 DEF Length
    <3>1. index' = index + 1 /\ index < Length
      BY <1>5, <2>5 DEF LoopAdvances
    <3> QED
      BY <2>3, <2>4, <3>1
  <2>10. NextOf(now.at, d)' = NextOf(now.at, d)
    BY <2>1 DEF NextOf, Length
  <2>11. Follows(d)'
    BY <2>6, <2>7, <2>8, <2>9, <2>10 DEF Follows
  <2> QED
    BY <2>11
<1>6. CASE LoopExits
  BY <1>0, <1>6 DEF LoopExits
<1> QED
  BY <1>1, <1>2, <1>3, <1>4, <1>5, <1>6 DEF MixLoop

(* A cue is followed by one of the plan's, and by itself only if it is the  *)
(* plan's only one or a run is at its end.                                  *)
LEMMA NextIsACue ==
  ASSUME NEW i \in 1..Length, Length \in Nat, NEW d \in {-1, 1},
         mode \in {"once", "forward", "ping_pong"},
         mode = "once" => i + 1 <= Length
  PROVE  /\ NextOf(i, d)[1] \in 1..Length
         /\ Length > 1 => NextOf(i, d)[1] = Turned(i, d, Length, mode)[1]
         /\ Length = 1 => NextOf(i, d)[1] = i
<1> DEFINE n == Length
<1> HIDE DEF n
<1>0. n \in Nat /\ i \in 1..n
  BY DEF n
<1>1. CASE mode = "once"
  <2>1. i < n
    BY <1>0, <1>1 DEF n
  <2>2. NextOf(i, d)[1] = i + 1
    BY <1>1 DEF NextOf
  <2>3. Turned(i, d, n, mode)[1] = i + 1
    BY <1>1, <2>1 DEF Turned
  <2> QED
    BY <1>0, <2>1, <2>2, <2>3 DEF n
<1>2. CASE mode = "forward"
  <2>1. Turned(i, d, n, mode)[1] = (i % n) + 1
    BY <1>2 DEF Turned
  <2>2. NextOf(i, d) = Turned(i, d, n, mode)
    BY <1>2 DEF NextOf, n
  <2>3. (i % n) + 1 \in 1..n /\ (n = 1 => (i % n) + 1 = i)
    BY <1>0
  <2> QED
    BY <2>1, <2>2, <2>3 DEF n
<1>3. CASE mode = "ping_pong" /\ n = 1
  BY <1>0, <1>3 DEF NextOf, n
<1>4. CASE mode = "ping_pong" /\ n # 1
  <2>1. NextOf(i, d) = Turned(i, d, n, mode)
    BY <1>4 DEF NextOf, n
  <2>2. Turned(i, d, n, mode)[1] \in 1..n
    <3>1. n > 1
      BY <1>0, <1>4
    <3>2. CASE i + d > n
      BY <1>0, <1>4, <3>1, <3>2 DEF Turned
    <3>3. CASE i + d <= n /\ i + d < 1
      BY <1>0, <1>4, <3>1, <3>3 DEF Turned
    <3>4. CASE i + d <= n /\ i + d >= 1
      BY <1>0, <1>4, <3>1, <3>4 DEF Turned
    <3> QED
      BY <1>0, <3>2, <3>3, <3>4
  <2> QED
    BY <1>4, <2>1, <2>2 DEF n
<1> QED
  BY <1>1, <1>2, <1>3, <1>4

(* A cue that is read after another was arrived at on the walk.             *)
LEMMA ReadIsWalked ==
  ASSUME PlanInv, WalkInv, MixLoop, ReadsNext,
         now'.camera # now.camera, now'.shot # Hold, now'.camera \in sessions
  PROVE  pose[now'.camera] = now'.shot
<1> DEFINE n == Length
           i == now.at
<1>1. LoopRead /\ n # 0
  BY DEF ReadsNext, MixLoop, LoopTop, LoopRead, LoopAirs, LoopWaits, LoopAdvances, LoopExits
<1>2. n \in Nat /\ DOMAIN plan.cues = 1..n
  BY DEF PlanInv, PlanTyped, Length
<1>3. mode \in {"once", "forward", "ping_pong"}
  BY EngineAssumption DEF PlanInv, EngineAssumption
<1>4. PICK d \in {-1, 1} : Follows(d)
  BY DEF WalkInv, ReadsNext
<1>5. CueRead(d) /\ Walked /\ <<index, direction>> = NextOf(i, d) /\ (mode = "once" => index <= n)
  <2>1. loop = "read"
    BY DEF ReadsNext
  <2>2. CueRead(d) /\ Walked
    BY <1>4, <2>1 DEF Follows
  <2>3. <<index, direction>> = NextOf(i, d)
    BY <1>4, <2>1 DEF Follows
  <2>4. mode = "once" => index <= n
    BY <1>4, <2>1 DEF Follows
  <2> QED
    BY <2>2, <2>3, <2>4
<1>6. i \in 1..n
  BY <1>5 DEF CueRead
<1>7. index = NextOf(i, d)[1]
  BY <1>5
<1>8. mode = "once" => i + 1 <= n
  BY <1>5, <1>7 DEF NextOf
<1>9. /\ index \in 1..n /\ (n > 1 => index = Turned(i, d, n, mode)[1]) /\ (n = 1 => index = i)
  BY <1>2, <1>3, <1>6, <1>7, <1>8, NextIsACue
<1>10. Cursor = index
  BY <1>9 DEF Cursor
<1>11. now'.camera = plan.cues[index].camera /\ now'.shot = plan.cues[index].shot
  BY <1>1, <1>2, <1>9, <1>10 DEF LoopRead
<1>12. now.camera = plan.cues[i].camera /\ now.walks = meanwhile_at(plan, i, d, mode)
  BY <1>5 DEF CueRead
<1> HIDE DEF i
<1>13. n > 1 /\ index = Turned(i, d, n, mode)[1]
  <2>1. n # 1
    BY <1>9, <1>11, <1>12
  <2> QED
    BY <1>2, <1>6, <1>9, <2>1
<1> DEFINE next == plan.cues[index]
<1>14. /\ \E w \in now.walks : w.camera = next.camera
       /\ \A w \in now.walks : w.camera = next.camera => w.shot = next.shot
  <2>1. d \in Int /\ n = Len(plan.cues)
    BY DEF Length
  <2> HIDE DEF n
  <2>2. Turned(i, d, n, mode)[1] \in 1..n
    BY <1>9, <1>13
  <2>3. plan.cues[Turned(i, d, n, mode)[1]].camera # plan.cues[i].camera
    BY <1>11, <1>12, <1>13
  <2>4. LET to == plan.cues[Turned(i, d, n, mode)[1]]
            W  == meanwhile_at(plan, i, d, mode)
        IN  /\ \E w \in W : w.camera = to.camera
            /\ \A w \in W : w.camera = to.camera => w.shot = to.shot
    BY <1>2, <1>6, <1>13, <2>1, <2>2, <2>3, NextIsWalked
  <2> QED
    BY <1>12, <1>13, <2>4
<1>15. PICK w \in now.walks : w.camera = next.camera
  BY <1>14
<1>16. w.shot = next.shot /\ \A v \in now.walks : v.camera = next.camera => v.shot = w.shot
  BY <1>14, <1>15
<1> QED
  BY <1>5, <1>11, <1>15, <1>16 DEF Walked

(* No other thread reads a cue.                                             *)
LEMMA OnlyLoopReads ==
  ASSUME [Next]_vars, ReadsNext
  PROVE  MixLoop
<1> SUFFICES ASSUME ~MixLoop PROVE FALSE
  OBVIOUS
<1> USE DEF thread
<1>0. loop = "read" /\ loop' = "air"
  BY DEF ReadsNext
<1>1. ASSUME NEW t \in Threads, Proceeds(t) PROVE loop' \in {loop, "top"}
  BY <1>1 DEF Proceeds, Snapshot, Replan, SetClamps, LoadClamps, StartDecides, StartChecks, Launch,
              StopSignals, StopJoins, StopResets, SessionsDie
<1>2. ASSUME NEW t \in Clients, Client(t) PROVE loop' = loop
  BY <1>2 DEF Client, mix_set, mix_load, Edit, mix_save_as, mix_start, mix_stop
<1>3. CASE (\E c \in Cams : Plug(c)) \/ stop \/ UNCHANGED vars
  BY <1>0, <1>3 DEF Plug, stop, vars
<1> QED
  BY <1>0, <1>1, <1>2, <1>3 DEF Next

(* In every mode and direction, whatever list is played and whoever edits:  *)
(* while a run is left alone, a camera that goes live has been sent to the  *)
(* shot it goes live with while it was idle.                                *)
THEOREM RunsArriveWalked == Spec => ArrivesWalked
<1>1. Spec => []PlanInv
  BY InitPlanInv, NextPlanInv, PTL DEF Spec
<1>2. Init => WalkInv
  BY DEF Init, WalkInv, NoCue
<1>3. IInv /\ PlanInv /\ WalkInv /\ [Next]_vars => WalkInv'
  <2>1. IInv => sessions \subseteq Cams
    BY DEF IInv, ThreadsTypeOK
  <2> QED
    BY <2>1, LoopWalkInv, OthersWalkInv
<1>4. Spec => []WalkInv
  BY <1>1, <1>2, <1>3, Invariance, PTL DEF Spec
<1>5. PlanInv /\ WalkInv /\ [Next]_vars =>
        [(ReadsNext /\ now'.camera # now.camera /\ now'.shot # Hold /\ now'.camera \in sessions)
           => pose[now'.camera] = now'.shot]_vars
  BY ReadIsWalked, OnlyLoopReads
<1> QED
  BY <1>1, <1>4, <1>5, PTL DEF Spec, ArrivesWalked

=============================================================================
