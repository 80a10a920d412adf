------------------------ MODULE CampaignScheduleProofs ------------------------
(***************************************************************************)
(* Proofs about the campaign schedule, for every set of designs, every     *)
(* duration and cooldown, and every draw of the random source.             *)
(***************************************************************************)
EXTENDS CampaignSchedule, FiniteSetTheorems, WellFoundedInduction, TLAPS

-----------------------------------------------------------------------------
(* The number of replays *)

LEMMA PairsFinite == IsFiniteSet(Pairs)
<1> DEFINE of(d) == {d} \X (0..(Replays[d] - 1))
<1>1. \A d \in Designs : IsFiniteSet(of(d))
  <2> TAKE d \in Designs
  <2>1. IsFiniteSet(0..(Replays[d] - 1))
    BY PlanAssumption, FS_Interval
  <2>2. IsFiniteSet({d})
    BY FS_Singleton
  <2> QED BY <2>1, <2>2, FS_Product
<1>2. IsFiniteSet({of(d) : d \in Designs})
  <2> DEFINE T == {of(d) : d \in Designs}
             f == [d \in Designs |-> of(d)]
  <2>1. f \in Surjection(Designs, T)
    BY DEF Surjection
  <2> HIDE DEF T, f
  <2>2. IsFiniteSet(T)
    BY <2>1, PlanAssumption, FS_Surjection
  <2> QED BY <2>2 DEF T
<1> QED BY <1>1, <1>2, FS_UNION DEF Pairs

LEMMA TotalNat == total \in Nat
BY PairsFinite, FS_CardinalityType DEF total

\* An order of the pairs lists every one of them once.
LEMMA OrderLists ==
    ASSUME NEW s \in Orders
    PROVE  /\ \A k \in 1..total : s[k] \in Pairs
           /\ \A p \in Pairs : \E k \in 1..total : s[k] = p
           /\ \A j, k \in 1..total : s[j] = s[k] => j = k
BY DEF Orders, Bijection, Injection, Surjection, IsInjective

\* A nonempty set of numbers has a least element.
LEMMA Least ==
    ASSUME NEW S \in SUBSET Nat, S # {}
    PROVE  \E m \in S : \A s \in S : m <= s
<1> DEFINE R == OpToRel(<, Nat)
<1>1. PICK m \in S : \A s \in S : ~(<<s, m>> \in R)
  <2>1. IsWellFoundedOn(R, Nat)
    BY NatLessThanWellFounded
  <2> HIDE DEF R
  <2> QED BY <2>1, WFMin
<1>2. \A s \in S : ~(s < m)
  BY <1>1 DEF OpToRel
<1> QED BY <1>2

\* A bounded set of numbers has a largest element.
LEMMA Largest ==
    ASSUME NEW S \in SUBSET Nat, S # {}, NEW B \in Nat, \A s \in S : s <= B
    PROVE  \E m \in S : \A s \in S : s <= m
<1> DEFINE D == {B - s : s \in S}
<1>1. \A s \in S : B - s \in Nat
  OBVIOUS
<1>2. D \in SUBSET Nat /\ D # {}
  BY <1>1
<1>3. PICK n \in D : \A d \in D : n <= d
  <2> HIDE DEF D
  <2> QED BY <1>2, Least
<1>4. PICK m \in S : n = B - m
  OBVIOUS
<1>5. \A s \in S : n <= B - s
  BY <1>3
<1> QED BY <1>4, <1>5

-----------------------------------------------------------------------------
(* The inductive invariant *)

\* How far the cooldown layout has come: no target has more positions taken than
\* pairs are placed, and no placed pair lies beyond them.
Progress ==
    /\ \A t \in Targets : position[t] <= i
    /\ pc = "layout" => \A k \in 1..i : offset[pairs[k]] <= i * Cooldown
    /\ pc \in {"uniform", "sort_uniform", "check_uniform", "count"} => i = 0

LEMMA ReachedIsLargest ==
    ASSUME TypeOK, Progress, NEW p \in Pairs
    PROVE  /\ Reached(p) \in 0..i
           /\ \A t \in Hits(p) : position[t] <= Reached(p)
           /\ Reached(p) = 0 \/ \E t \in Hits(p) : Reached(p) = position[t]
<1> DEFINE S == {0} \cup {position[t] : t \in Hits(p)}
<1>0. i \in Nat
  BY TotalNat DEF TypeOK
<1>1. Hits(p) \subseteq Targets
  BY PlanAssumption DEF Hits, Pairs
<1>2. S \in SUBSET Nat /\ S # {} /\ \A s \in S : s <= i
  BY <1>0, <1>1 DEF TypeOK, Progress
<1>3. \E n \in S : \A m \in S : m <= n
  <2> HIDE DEF S
  <2> QED BY <1>0, <1>2, Largest
<1>4. Reached(p) \in S /\ \A m \in S : m <= Reached(p)
  <2>1. Reached(p) = CHOOSE n \in S : \A m \in S : m <= n
    BY DEF Reached
  <2> HIDE DEF S
  <2> QED BY <1>3, <2>1
<1> QED BY <1>0, <1>2, <1>4

LEMMA LatestIsLargest ==
    ASSUME TypeOK, Progress, pc = "layout", i = total, Pairs # {}
    PROVE  latest \in Nat /\ \A p \in Pairs : offset[p] <= latest
<1> DEFINE S == {offset[p] : p \in Pairs}
           B == total * Cooldown
<1>1. B \in Nat
  BY TotalNat, TimesAssumption
<1>2. \A p \in Pairs : offset[p] \in Nat /\ offset[p] <= B
  <2> TAKE p \in Pairs
  <2>1. PICK k \in 1..total : pairs[k] = p
    BY OrderLists DEF TypeOK
  <2> QED BY <2>1 DEF TypeOK, Progress
<1>3. S \in SUBSET Nat /\ S # {} /\ \A x \in S : x <= B
  BY <1>2
<1>4. \E x \in S : \A y \in S : y <= x
  <2> HIDE DEF S, B
  <2> QED BY <1>1, <1>3, Largest
<1>5. latest \in S /\ \A p \in Pairs : offset[p] <= latest
  <2>1. \E x \in S : \A p \in Pairs : offset[p] <= x
    BY <1>4
  <2> QED BY <2>1 DEF latest
<1> QED BY <1>2, <1>5

LEMMA ProductNat ==
    ASSUME NEW a \in Nat, NEW b \in Nat
    PROVE  a * b \in Nat
OBVIOUS

LEMMA ProductMonotone ==
    ASSUME NEW a \in Nat, NEW b \in Nat, NEW c \in Nat, a <= b
    PROVE  a * c <= b * c
<1>1. PICK d \in Nat : b = a + d
  <2>1. b - a \in Nat /\ b = a + (b - a)
    OBVIOUS
  <2> QED BY <2>1
<1>2. b * c = a * c + d * c
  BY <1>1
<1> QED BY <1>2, ProductNat

LEMMA QuotientNat ==
    ASSUME NEW a \in Nat, NEW b \in Nat, b > 0
    PROVE  a \div b \in Nat
OBVIOUS

\* Every step keeps the types and the layout's progress.
LEMMA TypeStep ==
    ASSUME TypeOK, Progress, [Next]_vars
    PROVE  TypeOK' /\ Progress'
<1> USE TotalNat, TimesAssumption DEF Returned
<1>0. duration \in Nat /\ duration > 0
  BY DEF TypeOK
<1>1. CASE Uniform
  <2>1. PICK jitter \in [1..total -> Jitter] :
          offset' = [p \in Pairs |->
                       LET k == CHOOSE k \in 1..total : pairs[k] = p
                       IN  clamp((k - 1) * slot + jitter[k])]
    BY <1>1 DEF Uniform
  <2>2. \A x \in Int : clamp(x) \in Nat
    BY <1>0 DEF clamp
  <2>3. ASSUME NEW p \in Pairs
        PROVE  LET k == CHOOSE k \in 1..total : pairs[k] = p
               IN  clamp((k - 1) * slot + jitter[k]) \in Nat
    <3> DEFINE k == CHOOSE k \in 1..total : pairs[k] = p
    <3>1. k \in 1..total
      BY OrderLists DEF TypeOK
    <3>2. total > 0
      BY <3>1
    <3>3. slot \in Int
      BY <1>0, <3>2 DEF slot
    <3>4. jitter[k] \in Int
      BY <3>1, <3>3 DEF Jitter
    <3> HIDE DEF k
    <3>5. (k - 1) * slot + jitter[k] \in Int
      BY <3>1, <3>3, <3>4
    <3>6. clamp((k - 1) * slot + jitter[k]) \in Nat
      BY <2>2, <3>5
    <3> QED BY <3>6 DEF k
  <2>4. offset' \in [Pairs -> Nat]
    BY <2>1, <2>3
  <2> QED BY <1>1, <2>4 DEF Uniform, TypeOK, Progress
<1>2. CASE Sort("sort_uniform", "check_uniform")
  BY <1>2 DEF Sort, TypeOK, Progress
<1>3. CASE CheckUniform
  BY <1>3 DEF CheckUniform, TypeOK, Progress
<1>4. CASE Count
  BY <1>4 DEF Count, TypeOK, Progress
<1>5. CASE Place
  <2> DEFINE p == pairs[i + 1]
  <2>1. p \in Pairs /\ i + 1 \in 1..total /\ i \in Nat
    BY <1>5, OrderLists DEF Place, TypeOK
  <2>2. Reached(p) \in 0..i
    BY <2>1, ReachedIsLargest
  <2>3. Reached(p) * Cooldown \in Nat /\ Reached(p) * Cooldown <= (i + 1) * Cooldown
    <3>1. Reached(p) \in Nat /\ i + 1 \in Nat /\ Reached(p) <= i + 1
      BY <2>2, <2>1
    <3> HIDE DEF p
    <3> QED BY <3>1, ProductNat, ProductMonotone
  <2>4. offset' \in [Pairs -> Nat]
    BY <1>5, <2>1, <2>3 DEF Place, TypeOK
  <2>5. position' \in [Targets -> Nat] /\ \A t \in Targets : position'[t] <= i + 1
    BY <1>5, <2>1 DEF Place, TypeOK, Progress
  <2>6. TypeOK'
    BY <1>5, <2>1, <2>4, <2>5 DEF Place, TypeOK
  <2>7. i * Cooldown <= (i + 1) * Cooldown /\ i * Cooldown \in Nat /\ (i + 1) * Cooldown \in Nat
    BY <2>1 DEF TypeOK
  <2>8. ASSUME NEW k \in 1..(i + 1)
        PROVE  offset'[pairs[k]] <= (i + 1) * Cooldown
    <3>1. CASE pairs[k] = p
      BY <1>5, <2>1, <2>3, <3>1 DEF Place, TypeOK
    <3>2. CASE pairs[k] # p
      <4>1. k \in 1..i
        BY <3>2, <2>1
      <4>2. pairs[k] \in Pairs
        BY <4>1, <2>1, OrderLists DEF TypeOK
      <4>3. offset'[pairs[k]] = offset[pairs[k]]
        BY <1>5, <3>2, <4>2 DEF Place, TypeOK
      <4>4. offset[pairs[k]] <= i * Cooldown /\ offset[pairs[k]] \in Nat
        BY <1>5, <4>1, <4>2 DEF Place, Progress, TypeOK
      <4> QED BY <4>3, <4>4, <2>7
    <3> QED BY <3>1, <3>2
  <2>9. Progress'
    BY <1>5, <2>5, <2>8 DEF Place, Progress
  <2> QED BY <2>6, <2>9
<1>6. CASE Stretch
  <2>1. ASSUME NEW p \in Pairs, latest > 0
        PROVE  (offset[p] * (duration - 1)) \div latest \in Nat
    <3>1. latest \in Nat
      BY <1>6, <2>1, LatestIsLargest DEF Stretch
    <3>2. offset[p] * (duration - 1) \in Nat
      BY <1>0, ProductNat DEF TypeOK
    <3> QED BY <2>1, <3>1, <3>2, QuotientNat
  <2>2. offset' \in [Pairs -> Nat]
    BY <1>6, <2>1 DEF Stretch, TypeOK
  <2> QED BY <1>6, <2>2 DEF Stretch, TypeOK, Progress
<1>7. CASE Sort("sort", "check")
  BY <1>7 DEF Sort, TypeOK, Progress
<1>8. CASE Check
  BY <1>8 DEF Check, TypeOK, Progress
<1>9. CASE UNCHANGED vars
  BY <1>9 DEF vars, TypeOK, Progress
<1> QED BY <1>1, <1>2, <1>3, <1>4, <1>5, <1>6, <1>7, <1>8, <1>9 DEF Next, Terminated

LEMMA TypeInit == Init => TypeOK /\ Progress
<1> SUFFICES ASSUME Init PROVE TypeOK /\ Progress
  OBVIOUS
<1>1. total \in Nat
  BY TotalNat
<1>2. TypeOK
  BY <1>1 DEF Init, TypeOK, Returned
<1>3. Progress
  BY <1>1 DEF Init, Progress
<1> QED BY <1>2, <1>3

\* Every variable of generateSchedule keeps its type: no offset is negative and
\* the layout never runs past the pairs.
THEOREM TypeCorrect == Spec => []TypeOK
<1>1. Init => TypeOK /\ Progress
  BY TypeInit
<1>2. TypeOK /\ Progress /\ [Next]_vars => (TypeOK /\ Progress)'
  BY TypeStep
<1> QED BY <1>1, <1>2, PTL DEF Spec

-----------------------------------------------------------------------------
(* Comparing each start with the one before it is enough *)

\* In a sorted schedule, a target's starts that pass the check one after the
\* other are apart pairwise: the start before k on the same target is no earlier
\* than any other before k.
LEMMA CheckImpliesSpaced ==
    ASSUME TypeOK, Sorted(slots), scheduleRespectsTargetCooldown
    PROVE  SpacedBy(offset)
<1> USE TotalNat, TimesAssumption
<1>1. ASSUME NEW j \in 1..total, NEW k \in 1..total, j < k,
             NEW t \in Hits(slots[j]) \cap Hits(slots[k])
      PROVE  offset[slots[k]] - offset[slots[j]] >= Cooldown
  <2> DEFINE S == {m \in 1..total : j <= m /\ m < k /\ t \in Hits(slots[m])}
  <2>1. S \in SUBSET Nat /\ j \in S /\ S # {} /\ k \in Nat /\ \A m \in S : m <= k
    BY <1>1
  <2>2. PICK m \in S : \A n \in S : n <= m
    <3> HIDE DEF S
    <3> QED BY <2>1, Largest
  <2>3. \A n \in (m + 1)..(k - 1) : t \notin Hits(slots[n])
    BY <2>1, <2>2
  <2>4. offset[slots[k]] - offset[slots[m]] >= Cooldown
    BY <2>2, <2>3, <1>1 DEF scheduleRespectsTargetCooldown
  <2>5. offset[slots[j]] <= offset[slots[m]]
    <3>1. CASE j = m
      BY <3>1, <1>1, OrderLists DEF TypeOK
    <3>2. CASE j < m
      BY <3>2, <2>2 DEF Sorted
    <3> QED BY <2>2, <3>1, <3>2
  <2>6. offset[slots[j]] \in Nat /\ offset[slots[m]] \in Nat /\ offset[slots[k]] \in Nat
    BY <1>1, <2>2, OrderLists DEF TypeOK
  <2> QED BY <2>4, <2>5, <2>6
<1>2. SUFFICES ASSUME NEW p \in Pairs, NEW q \in Pairs, p # q, Together(p, q)
               PROVE  offset[p] - offset[q] >= Cooldown \/ offset[q] - offset[p] >= Cooldown
  BY DEF SpacedBy
<1>3. PICK j \in 1..total, k \in 1..total : slots[j] = p /\ slots[k] = q
  BY OrderLists DEF TypeOK
<1>4. j < k \/ k < j
  BY <1>2, <1>3
<1>5. PICK t : t \in Hits(p) \cap Hits(q)
  BY <1>2 DEF Together
<1>6. CASE j < k
  BY <1>1, <1>3, <1>5, <1>6
<1>7. CASE k < j
  BY <1>1, <1>3, <1>5, <1>7
<1> QED BY <1>4, <1>6, <1>7

\* At both checks the slots are sorted, and nothing is handed out but what
\* passed one (or needs none).
HandedOut ==
    /\ pc \in {"check_uniform", "check"} => Sorted(slots)
    /\ Spaced

LEMMA HandedOutStep ==
    ASSUME TypeOK, HandedOut, [Next]_vars
    PROVE  HandedOut'
<1> USE DEF Returned
<1>1. ASSUME Cooldown = 0 PROVE SpacedBy(offset)
  BY <1>1 DEF SpacedBy, TypeOK
<1>2. CASE Uniform
  BY <1>2 DEF Uniform, HandedOut, Spaced
<1>3. ASSUME NEW from, NEW to, Sort(from, to), to \in {"check_uniform", "check"}
      PROVE  HandedOut'
  BY <1>3 DEF Sort, Sorted, HandedOut, Spaced
<1>4. CASE CheckUniform
  <2>1. CASE Cooldown = 0 \/ scheduleRespectsTargetCooldown
    <3>1. SpacedBy(offset)
      BY <1>1, <1>4, <2>1, CheckImpliesSpaced DEF CheckUniform, HandedOut
    <3> QED BY <1>4, <2>1, <3>1 DEF CheckUniform, HandedOut, Spaced, SpacedBy
  <2>2. CASE ~(Cooldown = 0 \/ scheduleRespectsTargetCooldown)
    BY <1>4, <2>2 DEF CheckUniform, HandedOut, Spaced
  <2> QED BY <2>1, <2>2
<1>5. CASE Count
  BY <1>5 DEF Count, HandedOut, Spaced
<1>6. CASE Place
  BY <1>6 DEF Place, HandedOut, Spaced
<1>7. CASE Stretch
  BY <1>7 DEF Stretch, HandedOut, Spaced
<1>8. CASE Check
  <2>1. CASE scheduleRespectsTargetCooldown
    <3>1. SpacedBy(offset)
      BY <1>8, <2>1, CheckImpliesSpaced DEF Check, HandedOut
    <3> QED BY <1>8, <2>1, <3>1 DEF Check, HandedOut, Spaced, SpacedBy
  <2>2. CASE ~scheduleRespectsTargetCooldown
    BY <1>8, <2>2 DEF Check, HandedOut, Spaced
  <2> QED BY <2>1, <2>2
<1>9. CASE UNCHANGED vars
  BY <1>9 DEF vars, HandedOut, Sorted, Spaced, SpacedBy
<1> QED
  BY <1>2, <1>3, <1>4, <1>5, <1>6, <1>7, <1>8, <1>9 DEF Next, Terminated

\* Whichever layout a schedule comes from, and whatever the random source drew,
\* any two starts on a target are at least the cooldown apart.
THEOREM SpacedCorrect == Spec => []Spaced
<1>1. Init => HandedOut
  <2>1. ASSUME Init, total = 0 PROVE Pairs = {}
    BY <2>1, PairsFinite, FS_EmptySet DEF total
  <2> QED BY <2>1 DEF Init, HandedOut, Spaced, SpacedBy
<1>2. TypeOK /\ HandedOut /\ [Next]_vars => HandedOut'
  BY HandedOutStep
<1>3. HandedOut => Spaced
  BY DEF HandedOut
<1> QED BY <1>1, <1>2, <1>3, TypeCorrect, PTL DEF Spec

-----------------------------------------------------------------------------
(* The cooldown layout passes its own check *)

\* A design's failures hit at most one host, which RunCampaign requires.
OneTarget == \A d \in Designs : \A t, u \in DesignTargets[d] : t = u

LEMMA QuotientBound ==
    ASSUME NEW n \in Nat, NEW l \in Nat, l > 0, NEW q \in Nat, l * q <= n
    PROVE  q <= n \div l
<1> DEFINE d == n \div l
<1>1. d \in Nat /\ n < l * d + l
  OBVIOUS
<1> HIDE DEF d
<1>2. SUFFICES ASSUME d + 1 <= q PROVE FALSE
  BY <1>1 DEF d
<1>3. (d + 1) * l <= q * l
  BY <1>1, <1>2, ProductMonotone
<1>4. (d + 1) * l = l * d + l /\ q * l = l * q
  BY <1>1
<1> QED BY <1>1, <1>3, <1>4

\* Stretching never brings two starts closer together.
LEMMA StretchKeepsApart ==
    ASSUME NEW a \in Nat, NEW b \in Nat, NEW c \in Nat, a - b >= c,
           NEW s \in Nat, NEW l \in Nat, l > 0, s > l
    PROVE  (a * s) \div l - (b * s) \div l >= c
<1> DEFINE q == (b * s) \div l
<1>1. a * s \in Nat /\ b * s \in Nat
  BY ProductNat
<1>2. q \in Nat /\ l * q <= b * s
  BY <1>1
<1>3. (a * s) \div l \in Nat
  BY <1>1
<1> HIDE DEF q
<1>4. (b + c) * s <= a * s
  BY ProductMonotone
<1>5. (b + c) * s = b * s + c * s
  OBVIOUS
<1>6. l * c <= s * c /\ l * c \in Nat /\ s * c \in Nat /\ s * c = c * s
  BY ProductMonotone, ProductNat
<1>7. l * (q + c) = l * q + l * c
  BY <1>2
<1>8. l * (q + c) <= a * s
  <2>1. l * q \in Nat /\ c * s \in Nat
    BY <1>2, <1>6, ProductNat
  <2> QED BY <1>1, <1>2, <1>4, <1>5, <1>6, <1>7, <2>1
<1>9. q + c <= (a * s) \div l
  BY <1>1, <1>2, <1>8, QuotientBound
<1> QED BY <1>2, <1>3, <1>9 DEF q

\* What the layout has placed lies before its target's next position, each start
\* at least a cooldown after the ones placed before it; from then on the offsets
\* are spaced.
LaidOut ==
    /\ pc = "layout" =>
         \A k \in 1..i : \A t \in Hits(pairs[k]) :
            /\ offset[pairs[k]] + Cooldown <= position[t] * Cooldown
            /\ \A j \in 1..i : j < k /\ t \in Hits(pairs[j]) =>
                 offset[pairs[k]] - offset[pairs[j]] >= Cooldown
    /\ pc \in {"sort", "check"} => SpacedBy(offset)
    /\ NoInternalError

\* With one host, the pair goes exactly to its host's position.
LEMMA ReachedIsPosition ==
    ASSUME OneTarget, TypeOK, Progress, NEW p \in Pairs, NEW t \in Hits(p)
    PROVE  Reached(p) = position[t] /\ position[t] \in Nat /\ t \in Targets
<1>1. t \in Targets /\ \A u \in Hits(p) : u = t
  BY PlanAssumption DEF Hits, Pairs, OneTarget
<1>2. position[t] \in Nat
  BY <1>1 DEF TypeOK
<1>3. Reached(p) \in Nat
  BY ReachedIsLargest, TotalNat DEF TypeOK
<1> QED BY <1>1, <1>2, <1>3, ReachedIsLargest

LEMMA PlaceKeepsLaidOut ==
    ASSUME OneTarget, TypeOK, Progress, LaidOut, Place
    PROVE  LaidOut'
<1> USE TotalNat, TimesAssumption
<1> DEFINE p == pairs[i + 1]
<1>1. p \in Pairs /\ i + 1 \in 1..total /\ i \in Nat /\ i' = i + 1
  BY OrderLists DEF Place, TypeOK
<1>2. pc = "layout" /\ pc' = "layout" /\ pairs' = pairs
  BY DEF Place
<1>3. offset' = [offset EXCEPT ![p] = Reached(p) * Cooldown]
  BY DEF Place
<1>4. position' = [t \in Targets |-> IF t \in Hits(p) THEN position[t] + 1 ELSE position[t]]
  BY DEF Place
<1>5. ASSUME NEW k \in 1..i
      PROVE  pairs[k] \in Pairs /\ pairs[k] # p /\ offset[pairs[k]] \in Nat
             /\ offset'[pairs[k]] = offset[pairs[k]]
  <2>1. pairs[k] \in Pairs /\ pairs[k] # p
    BY <1>1, OrderLists DEF TypeOK
  <2> QED BY <2>1, <1>3 DEF TypeOK
<1>6. ASSUME NEW t \in Hits(p)
      PROVE  /\ offset'[p] = position[t] * Cooldown
             /\ position'[t] * Cooldown = position[t] * Cooldown + Cooldown
             /\ position[t] * Cooldown \in Nat
  <2>1. Reached(p) = position[t] /\ position[t] \in Nat /\ t \in Targets
    BY <1>1, ReachedIsPosition
  <2>2. offset'[p] = position[t] * Cooldown
    BY <1>1, <1>3, <2>1 DEF TypeOK
  <2>3. position'[t] = position[t] + 1
    BY <1>4, <2>1
  <2>4. position[t] * Cooldown \in Nat
    BY <2>1, ProductNat
  <2>5. (position[t] + 1) * Cooldown = position[t] * Cooldown + Cooldown
    BY <2>1
  <2> QED BY <2>2, <2>3, <2>4, <2>5
<1>7. ASSUME NEW k \in 1..(i + 1), NEW t \in Hits(pairs[k])
      PROVE  /\ offset'[pairs[k]] + Cooldown <= position'[t] * Cooldown
             /\ \A j \in 1..(i + 1) : j < k /\ t \in Hits(pairs[j]) =>
                  offset'[pairs[k]] - offset'[pairs[j]] >= Cooldown
  <2>1. CASE k = i + 1
    <3>1. offset'[pairs[k]] + Cooldown <= position'[t] * Cooldown
      BY <1>6, <2>1
    <3>2. ASSUME NEW j \in 1..i, t \in Hits(pairs[j])
          PROVE  offset'[pairs[k]] - offset'[pairs[j]] >= Cooldown
      <4>1. offset[pairs[j]] + Cooldown <= position[t] * Cooldown
        BY <1>2, <3>2 DEF LaidOut
      <4> QED BY <4>1, <1>5, <1>6, <2>1
    <3> QED BY <1>1, <2>1, <3>1, <3>2
  <2>2. CASE k \in 1..i
    <3>1. offset[pairs[k]] + Cooldown <= position[t] * Cooldown
      BY <1>2, <2>2 DEF LaidOut
    <3>2. position[t] * Cooldown <= position'[t] * Cooldown
          /\ position[t] * Cooldown \in Nat /\ position'[t] * Cooldown \in Nat
      <4>1. CASE t \in Hits(p)
        BY <4>1, <1>6
      <4>2. CASE t \notin Hits(p)
        <5>1. position[t] \in Nat /\ t \in Targets
          BY <1>5, <2>2, ReachedIsPosition
        <5>2. position'[t] = position[t]
          BY <4>2, <5>1, <1>4
        <5> QED BY <5>1, <5>2, ProductNat
      <4> QED BY <4>1, <4>2
    <3>3. ASSUME NEW j \in 1..(i + 1), j < k, t \in Hits(pairs[j])
          PROVE  offset'[pairs[k]] - offset'[pairs[j]] >= Cooldown
      <4>1. j \in 1..i
        BY <1>1, <2>2, <3>3
      <4> QED BY <1>2, <1>5, <2>2, <3>3, <4>1 DEF LaidOut
    <3> QED BY <1>5, <2>2, <3>1, <3>2, <3>3
  <2> QED BY <1>1, <2>1, <2>2
<1> QED BY <1>1, <1>2, <1>7 DEF LaidOut, NoInternalError, Hits

LEMMA StretchSpaces ==
    ASSUME TypeOK, Progress, LaidOut, Stretch
    PROVE  SpacedBy(offset')
<1> USE TotalNat, TimesAssumption
<1>1. pc = "layout" /\ i = total
  BY DEF Stretch
<1>2. ASSUME NEW p \in Pairs, NEW q \in Pairs, p # q, Together(p, q)
      PROVE  offset[p] - offset[q] >= Cooldown \/ offset[q] - offset[p] >= Cooldown
  <2>1. PICK j \in 1..total, k \in 1..total : pairs[j] = p /\ pairs[k] = q
    BY OrderLists DEF TypeOK
  <2>2. PICK t : t \in Hits(p) \cap Hits(q)
    BY <1>2 DEF Together
  <2>3. j < k \/ k < j
    BY <1>2, <2>1
  <2> QED BY <1>1, <2>1, <2>2, <2>3 DEF LaidOut
<1>3. CASE latest > 0 /\ duration - 1 > latest
  <2>1. SUFFICES ASSUME NEW p \in Pairs, NEW q \in Pairs, p # q, Together(p, q)
                 PROVE  offset'[p] - offset'[q] >= Cooldown \/ offset'[q] - offset'[p] >= Cooldown
    BY DEF SpacedBy
  <2>2. latest \in Nat /\ duration - 1 \in Nat /\ offset[p] \in Nat /\ offset[q] \in Nat
    BY <1>1, LatestIsLargest DEF TypeOK
  <2>3. /\ offset'[p] = (offset[p] * (duration - 1)) \div latest
        /\ offset'[q] = (offset[q] * (duration - 1)) \div latest
    BY <1>3 DEF Stretch
  <2>4. CASE offset[p] - offset[q] >= Cooldown
    BY <1>3, <2>2, <2>3, <2>4, StretchKeepsApart
  <2>5. CASE offset[q] - offset[p] >= Cooldown
    BY <1>3, <2>2, <2>3, <2>5, StretchKeepsApart
  <2> QED BY <1>2, <2>1, <2>4, <2>5
<1>4. CASE ~(latest > 0 /\ duration - 1 > latest)
  BY <1>2, <1>4 DEF Stretch, SpacedBy
<1> QED BY <1>3, <1>4

\* Spaced offsets in the order of time pass the check.
LEMMA SpacedPassesCheck ==
    ASSUME TypeOK, Sorted(slots), SpacedBy(offset)
    PROVE  scheduleRespectsTargetCooldown
<1> USE TotalNat, TimesAssumption
<1>1. SUFFICES ASSUME NEW j \in 1..total, NEW k \in 1..total, j < k,
                      NEW t \in Hits(slots[j]) \cap Hits(slots[k])
               PROVE  offset[slots[k]] - offset[slots[j]] >= Cooldown
  BY DEF scheduleRespectsTargetCooldown
<1>2. /\ slots[j] \in Pairs /\ slots[k] \in Pairs /\ slots[j] # slots[k]
      /\ offset[slots[j]] \in Nat /\ offset[slots[k]] \in Nat
  BY <1>1, OrderLists DEF TypeOK
<1>3. offset[slots[j]] <= offset[slots[k]]
  BY <1>1 DEF Sorted
<1>4. Together(slots[j], slots[k])
  BY <1>1 DEF Together
<1> QED BY <1>2, <1>3, <1>4 DEF SpacedBy

\* When no design hits two hosts, the self-check at the end of the cooldown
\* layout cannot fail: generateSchedule returns a schedule or says that the
\* campaign is infeasible, and never its internal error.
THEOREM SelfCheckNeverFails ==
    ASSUME OneTarget
    PROVE  Spec => []NoInternalError
<1> USE DEF Returned
<1> DEFINE Inv == TypeOK /\ Progress /\ HandedOut /\ LaidOut
<1>1. Init => Inv
  <2>1. Init => HandedOut
    <3>1. ASSUME Init, total = 0 PROVE Pairs = {}
      BY <3>1, PairsFinite, FS_EmptySet DEF total
    <3> QED BY <3>1 DEF Init, HandedOut, Spaced, SpacedBy
  <2>2. Init => LaidOut
    BY DEF Init, LaidOut, NoInternalError
  <2> QED BY <2>1, <2>2, TypeInit
<1>2. Inv /\ [Next]_vars => Inv'
  <2> SUFFICES ASSUME Inv, [Next]_vars PROVE LaidOut'
    BY TypeStep, HandedOutStep
  <2>1. CASE Uniform
    BY <2>1 DEF Uniform, LaidOut, NoInternalError
  <2>2. CASE Sort("sort_uniform", "check_uniform")
    BY <2>2 DEF Sort, LaidOut, NoInternalError
  <2>3. CASE CheckUniform
    BY <2>3 DEF CheckUniform, LaidOut, NoInternalError
  <2>4. CASE Count
    BY <2>4 DEF Count, LaidOut, NoInternalError, Progress
  <2>5. CASE Place
    BY <2>5, PlaceKeepsLaidOut
  <2>6. CASE Stretch
    BY <2>6, StretchSpaces DEF Stretch, LaidOut, NoInternalError, SpacedBy
  <2>7. CASE Sort("sort", "check")
    BY <2>7 DEF Sort, LaidOut, NoInternalError, SpacedBy
  <2>8. CASE Check
    BY <2>8, SpacedPassesCheck DEF Check, LaidOut, HandedOut, NoInternalError
  <2>9. CASE UNCHANGED vars
    BY <2>9 DEF vars, LaidOut, NoInternalError, SpacedBy
  <2> QED
    BY <2>1, <2>2, <2>3, <2>4, <2>5, <2>6, <2>7, <2>8, <2>9 DEF Next, Terminated
<1>3. Inv => NoInternalError
  BY DEF LaidOut
<1> QED BY <1>1, <1>2, <1>3, PTL DEF Spec

\* For any replays, each on one target, and any cooldown, duration, shuffle and
\* jitter: a schedule that is handed out keeps the starts on a target apart, and
\* no campaign ends in the internal error.
THEOREM ScheduleCorrect ==
    ASSUME OneTarget
    PROVE  Spec => []ScheduleSound
<1>1. Spec => []Spaced
  BY SpacedCorrect
<1>2. Spec => []NoInternalError
  BY SelfCheckNeverFails
<1>3. Spaced /\ NoInternalError => ScheduleSound
  BY DEF ScheduleSound
<1> QED BY <1>1, <1>2, <1>3, PTL

-----------------------------------------------------------------------------
(* A schedule within the campaign, or none at all *)

\* What is asked of the offsets at the end: every start is an instant of the
\* campaign.
Within == \A p \in Pairs : offset[p] \in 0..(duration - 1)

\* The pairs on a target, and those of them that the layout has placed.
On(t) == {p \in Pairs : t \in Hits(p)}
PlacedOn(t) == {p \in On(t) : \E k \in 1..i : pairs[k] = p}

\* Too many replays for the campaign on one target.
Overfull(t) == targetReplayCounts(t) > 0 /\ (targetReplayCounts(t) - 1) * Cooldown >= duration

\* In the layout no target is overfull and none has more positions taken than
\* pairs of its own are placed, so that the last position still lies within the
\* campaign.  A campaign is only turned down for an overfull target.
Fits ==
    /\ pc = "layout" =>
         /\ \A t \in Targets : ~Overfull(t) /\ position[t] <= Cardinality(PlacedOn(t))
         /\ \A k \in 1..i : offset[pairs[k]] <= duration - 1
    /\ pc \in {"sort_uniform", "check_uniform", "sort", "check", "done"} => Within
    /\ pc = "done" => \A j \in 1..(total - 1) : offset[slots[j]] <= offset[slots[j + 1]]
    /\ pc = "infeasible" => \E t \in Targets : Overfull(t)

LEMMA OnFinite ==
    ASSUME NEW t
    PROVE  IsFiniteSet(On(t)) /\ targetReplayCounts(t) = Cardinality(On(t))
           /\ targetReplayCounts(t) \in Nat
<1>1. IsFiniteSet(On(t))
  BY PairsFinite, FS_Subset DEF On
<1>2. targetReplayCounts(t) = Cardinality(On(t))
  BY DEF targetReplayCounts, On
<1> QED BY <1>1, <1>2, FS_CardinalityType

\* Starts at least a cooldown apart fall into different cooldowns of the
\* campaign.
LEMMA ApartDiffer ==
    ASSUME NEW a \in Nat, NEW b \in Nat, NEW c \in Nat, c > 0, a - b >= c
    PROVE  a \div c # b \div c
<1> DEFINE q == b \div c
<1>1. q \in Nat /\ b < c * q + c /\ c * q <= b
  OBVIOUS
<1> HIDE DEF q
<1>2. c * (q + 1) = c * q + c /\ q + 1 \in Nat /\ c * q \in Nat
  BY <1>1, ProductNat
<1>3. c * (q + 1) <= a
  BY <1>1, <1>2
<1>4. q + 1 <= a \div c
  BY <1>2, <1>3, QuotientBound
<1>5. a \div c \in Nat
  BY QuotientNat
<1> QED BY <1>1, <1>4, <1>5 DEF q

LEMMA QuotientMonotone ==
    ASSUME NEW a \in Nat, NEW b \in Nat, NEW c \in Nat, c > 0, a <= b
    PROVE  a \div c <= b \div c
<1> DEFINE q == a \div c
<1>1. q \in Nat /\ c * q <= a
  OBVIOUS
<1> HIDE DEF q
<1>2. c * q \in Nat
  BY <1>1, ProductNat
<1>3. c * q <= b
  BY <1>1, <1>2
<1> QED BY <1>1, <1>3, QuotientBound DEF q

LEMMA QuotientTimes ==
    ASSUME NEW a \in Nat, NEW c \in Nat, c > 0
    PROVE  (a \div c) * c <= a
OBVIOUS

\* The starts on an overfull target do not fit into the campaign: as many as
\* its replays would have to share the cooldowns of the campaign, and two of
\* them would fall into one.
LEMMA OverfullDoesNotFit ==
    ASSUME NEW t \in Targets, Overfull(t), duration \in Durations,
           NEW f \in [Pairs -> 0..(duration - 1)], SpacedBy(f)
    PROVE  FALSE
<1> USE TimesAssumption
<1> DEFINE n == targetReplayCounts(t)
           T == 0..((duration - 1) \div Cooldown)
           g == [p \in On(t) |-> f[p] \div Cooldown]
<1>0. duration \in Nat /\ duration > 0 /\ duration - 1 \in Nat
  OBVIOUS
<1>1. n \in Nat /\ n > 0 /\ (n - 1) * Cooldown >= duration
      /\ IsFiniteSet(On(t)) /\ n = Cardinality(On(t))
  BY OnFinite DEF Overfull
<1>2. Cooldown \in Nat /\ Cooldown > 0
  BY <1>0, <1>1
<1>3. (duration - 1) \div Cooldown \in Nat
  BY <1>0, <1>2, QuotientNat
<1>4. ASSUME NEW p \in On(t)
      PROVE  /\ p \in Pairs /\ f[p] \in Nat /\ f[p] <= duration - 1
             /\ f[p] \div Cooldown \in T
  <2>1. p \in Pairs /\ f[p] \in Nat /\ f[p] <= duration - 1
    BY <1>0 DEF On
  <2>2. f[p] \div Cooldown \in Nat
    BY <1>2, <2>1, QuotientNat
  <2>3. f[p] \div Cooldown <= (duration - 1) \div Cooldown
    BY <1>0, <1>2, <2>1, QuotientMonotone
  <2> QED BY <1>3, <2>1, <2>2, <2>3
<1>5. g \in [On(t) -> T]
  BY <1>4
<1>6. ASSUME NEW p \in On(t), NEW q \in On(t), p # q
      PROVE  g[p] # g[q]
  <2>1. p \in Pairs /\ q \in Pairs /\ f[p] \in Nat /\ f[q] \in Nat
    BY <1>4
  <2>2. Together(p, q)
    BY DEF Together, On
  <2>3. f[p] - f[q] >= Cooldown \/ f[q] - f[p] >= Cooldown
    BY <1>6, <2>1, <2>2 DEF SpacedBy
  <2> QED BY <1>2, <2>1, <2>3, ApartDiffer
<1>7. IsFiniteSet(T) /\ Cardinality(T) = (duration - 1) \div Cooldown + 1
  <2> DEFINE q == (duration - 1) \div Cooldown
  <2>1. q \in Nat /\ q \in Int /\ 0 \in Int
    BY <1>3
  <2> HIDE DEF q
  <2>2. IsFiniteSet(0..q) /\ Cardinality(0..q) = q + 1
    BY <2>1, FS_Interval
  <2> QED BY <2>2 DEF q
<1>8. n <= Cardinality(T)
  <2> HIDE DEF g, T, n
  <2>1. Cardinality(T) \in Nat
    BY <1>7, FS_CardinalityType
  <2>2. ~(Cardinality(T) < Cardinality(On(t)))
    BY <1>1, <1>5, <1>6, <1>7, FS_PigeonHole
  <2> QED BY <1>1, <2>1, <2>2
<1>9. (n - 1) * Cooldown <= duration - 1
  <2> DEFINE q == (duration - 1) \div Cooldown
  <2>1. n - 1 \in Nat /\ q \in Nat /\ n - 1 <= q
    BY <1>1, <1>3, <1>7, <1>8
  <2>2. q * Cooldown <= duration - 1
    BY <1>0, <1>2, QuotientTimes
  <2>3. (n - 1) * Cooldown \in Nat /\ q * Cooldown \in Nat
    BY <1>2, <2>1, ProductNat
  <2> HIDE DEF q, n
  <2>4. (n - 1) * Cooldown <= q * Cooldown
    BY <1>2, <2>1, ProductMonotone
  <2> QED BY <1>0, <2>2, <2>3, <2>4
<1> HIDE DEF n
<1>10. (n - 1) * Cooldown \in Nat
  BY <1>1, <1>2, ProductNat
<1> QED BY <1>0, <1>1, <1>9, <1>10

\* The next pair of a target that is not overfull still goes within the
\* campaign: the target's other pairs take the positions before it.
LEMMA PlaceFits ==
    ASSUME TypeOK, Progress, Fits, Place
    PROVE  Fits'
<1> USE TotalNat, TimesAssumption
<1> DEFINE p == pairs[i + 1]
<1>1. p \in Pairs /\ i + 1 \in 1..total /\ i \in Nat /\ i' = i + 1
  BY OrderLists DEF Place, TypeOK
<1>2. pc = "layout" /\ pc' = "layout" /\ pairs' = pairs /\ duration' = duration
  BY DEF Place
<1>3. offset' = [offset EXCEPT ![p] = Reached(p) * Cooldown]
  BY DEF Place
<1>4. position' = [t \in Targets |-> IF t \in Hits(p) THEN position[t] + 1 ELSE position[t]]
  BY DEF Place
<1>5. duration \in Nat /\ duration > 0
  BY DEF TypeOK
<1>6. \A t : /\ IsFiniteSet(PlacedOn(t)) /\ Cardinality(PlacedOn(t)) \in Nat
             /\ PlacedOn(t) \subseteq On(t)
  BY OnFinite, FS_Subset, FS_CardinalityType DEF PlacedOn
<1>7. \A t : PlacedOn(t)' = IF t \in Hits(p) THEN PlacedOn(t) \cup {p} ELSE PlacedOn(t)
  <2>1. 1..(i + 1) = (1..i) \cup {i + 1}
    BY <1>1
  <2>2. \A k \in 1..i : k \in 1..total
    BY <1>1
  <2> QED BY <1>1, <1>2, <2>1 DEF PlacedOn, On, Hits
<1>8. \A t : p \notin PlacedOn(t)
  <2>1. \A k \in 1..i : pairs[k] # p
    BY <1>1, OrderLists DEF TypeOK
  <2> QED BY <2>1 DEF PlacedOn
<1>9. ASSUME NEW t \in Targets
      PROVE  ~Overfull(t)' /\ position'[t] <= Cardinality(PlacedOn(t))'
  <2>1. ~Overfull(t) /\ position[t] <= Cardinality(PlacedOn(t)) /\ position[t] \in Nat
    BY <1>2 DEF Fits, TypeOK
  <2>2. ~Overfull(t)'
    BY <1>2, <2>1 DEF Overfull, targetReplayCounts, Hits
  <2>3. CASE t \in Hits(p)
    <3>1. position'[t] = position[t] + 1
      BY <1>4, <2>3
    <3>2. Cardinality(PlacedOn(t))' = Cardinality(PlacedOn(t)) + 1
      BY <1>6, <1>7, <1>8, <2>3, FS_AddElement
    <3> QED BY <1>6, <2>1, <2>2, <3>1, <3>2
  <2>4. CASE t \notin Hits(p)
    BY <1>4, <1>7, <2>1, <2>2, <2>4
  <2> QED BY <2>3, <2>4
<1>10. Reached(p) * Cooldown <= duration - 1
  <2>1. CASE Reached(p) = 0
    BY <1>5, <2>1
  <2>2. CASE Reached(p) # 0
    <3>1. PICK t \in Hits(p) : Reached(p) = position[t]
      BY <1>1, <2>2, ReachedIsLargest
    <3>2. t \in Targets
      BY <1>1, PlanAssumption DEF Hits, Pairs
    <3>3. position[t] \in Nat /\ position[t] <= Cardinality(PlacedOn(t)) /\ ~Overfull(t)
      BY <1>2, <3>2 DEF Fits, TypeOK
    <3>4. Cardinality(PlacedOn(t)) <= targetReplayCounts(t) - 1 /\ targetReplayCounts(t) > 0
      <4>1. p \in On(t)
        BY <1>1 DEF On
      <4>2. PlacedOn(t) \subseteq On(t) \ {p}
        BY <1>6, <1>8
      <4>3. IsFiniteSet(On(t) \ {p}) /\ Cardinality(On(t) \ {p}) = targetReplayCounts(t) - 1
        BY <4>1, OnFinite, FS_RemoveElement
      <4>4. Cardinality(PlacedOn(t)) <= Cardinality(On(t) \ {p})
        BY <4>2, <4>3, FS_Subset
      <4> QED BY <1>6, <4>3, <4>4, OnFinite
    <3> DEFINE n == targetReplayCounts(t)
    <3>5. n - 1 \in Nat /\ position[t] <= n - 1
      BY <1>6, <3>3, <3>4, OnFinite
    <3>6. (n - 1) * Cooldown < duration
      <4>1. (n - 1) * Cooldown \in Nat
        BY <3>5, ProductNat
      <4> QED BY <1>5, <3>3, <3>4, <4>1 DEF Overfull
    <3> HIDE DEF n
    <3>7. position[t] * Cooldown <= (n - 1) * Cooldown
      BY <3>3, <3>5, ProductMonotone
    <3>8. position[t] * Cooldown \in Nat /\ (n - 1) * Cooldown \in Nat
      BY <3>3, <3>5, ProductNat
    <3> QED BY <1>5, <3>1, <3>6, <3>7, <3>8
  <2> QED BY <2>1, <2>2
<1>11. ASSUME NEW k \in 1..(i + 1)
       PROVE  offset'[pairs[k]] <= duration - 1
  <2>1. CASE pairs[k] = p
    BY <1>1, <1>3, <1>10, <2>1 DEF TypeOK
  <2>2. CASE pairs[k] # p
    <3>1. k \in 1..i
      BY <1>1, <2>2
    <3>2. pairs[k] \in Pairs
      BY <1>1, <3>1, OrderLists DEF TypeOK
    <3>3. offset'[pairs[k]] = offset[pairs[k]]
      BY <1>3, <2>2, <3>2 DEF TypeOK
    <3> QED BY <1>2, <3>1, <3>3 DEF Fits
  <2> QED BY <2>1, <2>2
<1> QED BY <1>1, <1>2, <1>9, <1>11 DEF Fits

\* The stretch maps the last start to the last instant and no start beyond it.
LEMMA StretchFits ==
    ASSUME TypeOK, Progress, Fits, Stretch
    PROVE  Within'
<1> USE TotalNat, TimesAssumption
<1>1. pc = "layout" /\ i = total /\ duration' = duration
  BY DEF Stretch
<1>2. duration \in Nat /\ duration > 0 /\ duration - 1 \in Nat
  BY DEF TypeOK
<1>3. SUFFICES ASSUME NEW p \in Pairs PROVE offset'[p] \in 0..(duration - 1)
  BY <1>1 DEF Within
<1>4. offset[p] \in Nat /\ offset[p] <= duration - 1
  <2>1. PICK k \in 1..total : pairs[k] = p
    BY OrderLists DEF TypeOK
  <2> QED BY <1>1, <2>1 DEF Fits, TypeOK
<1>5. CASE latest > 0 /\ duration - 1 > latest
  <2>1. latest \in Nat /\ offset[p] <= latest
    BY <1>1, LatestIsLargest
  <2>2. offset'[p] = (offset[p] * (duration - 1)) \div latest
    BY <1>5 DEF Stretch
  <2> DEFINE s == duration - 1
             q == (offset[p] * s) \div latest
  <2>3. offset[p] * s \in Nat /\ latest * s \in Nat
    BY <1>2, <1>4, <2>1, ProductNat
  <2>4. offset[p] * s <= latest * s
    BY <1>2, <1>4, <2>1, ProductMonotone
  <2>5. q \in Nat /\ q <= (latest * s) \div latest
    BY <1>5, <2>1, <2>3, <2>4, QuotientNat, QuotientMonotone
  <2>6. (latest * s) \div latest = s
    BY <1>2, <1>5, <2>1
  <2> QED BY <1>2, <2>2, <2>5, <2>6
<1>6. CASE ~(latest > 0 /\ duration - 1 > latest)
  BY <1>2, <1>4, <1>6 DEF Stretch
<1> QED BY <1>5, <1>6

\* The jittered grid is clamped to the campaign.
LEMMA UniformFits ==
    ASSUME TypeOK, Uniform
    PROVE  Within'
<1> USE TotalNat, TimesAssumption
<1>0. duration \in Nat /\ duration > 0
  BY DEF TypeOK
<1>1. PICK jitter \in [1..total -> Jitter] :
        offset' = [p \in Pairs |->
                     LET k == CHOOSE k \in 1..total : pairs[k] = p
                     IN  clamp((k - 1) * slot + jitter[k])]
  BY DEF Uniform
<1>2. \A x \in Int : clamp(x) \in 0..(duration - 1)
  BY <1>0 DEF clamp
<1>3. ASSUME NEW p \in Pairs
      PROVE  offset'[p] \in 0..(duration - 1)
  <2> DEFINE k == CHOOSE k \in 1..total : pairs[k] = p
  <2>1. k \in 1..total
    BY OrderLists DEF TypeOK
  <2>2. slot \in Int
    BY <1>0, <2>1 DEF slot
  <2>3. jitter[k] \in Int
    BY <2>1, <2>2 DEF Jitter
  <2>4. offset'[p] = clamp((k - 1) * slot + jitter[k])
    BY <1>1
  <2> HIDE DEF k
  <2>5. (k - 1) * slot + jitter[k] \in Int
    BY <2>1, <2>2, <2>3
  <2> QED BY <1>2, <2>4, <2>5
<1> QED BY <1>3 DEF Within, Uniform

LEMMA FitsStep ==
    ASSUME TypeOK, Progress, HandedOut, Fits, [Next]_vars
    PROVE  Fits'
<1> USE TotalNat, TimesAssumption DEF Returned
<1>0. ASSUME Sorted(slots)
      PROVE  \A j \in 1..(total - 1) : offset[slots[j]] <= offset[slots[j + 1]]
  <2> TAKE j \in 1..(total - 1)
  <2>1. j \in 1..total /\ j + 1 \in 1..total /\ j < j + 1
    OBVIOUS
  <2> QED BY <1>0, <2>1 DEF Sorted
<1>1. CASE Uniform
  BY <1>1, UniformFits DEF Uniform, Fits
<1>2. ASSUME NEW from, NEW to, Sort(from, to), from \in {"sort_uniform", "sort"},
             to \in {"check_uniform", "check"}
      PROVE  Fits'
  BY <1>2 DEF Sort, Fits, Within
<1>3. CASE CheckUniform
  BY <1>0, <1>3 DEF CheckUniform, Fits, Within, HandedOut
<1>4. CASE Count
  <2>1. /\ i = 0 /\ pc = "count" /\ i' = i /\ position' = position /\ duration' = duration
        /\ pairs' = pairs /\ pc' = IF \E t \in Targets : Overfull(t) THEN "infeasible" ELSE "layout"
    BY <1>4 DEF Count, Progress, Overfull
  <2>2. \A t \in Targets : position'[t] <= Cardinality(PlacedOn(t))'
    <3> TAKE t \in Targets
    <3>1. IsFiniteSet(PlacedOn(t)')
      BY <2>1, OnFinite, FS_Subset DEF PlacedOn, On, Hits
    <3>2. Cardinality(PlacedOn(t))' \in Nat
      BY <3>1, FS_CardinalityType
    <3>3. position'[t] \in Nat /\ position'[t] <= 0
      BY <2>1 DEF TypeOK, Progress
    <3> QED BY <3>2, <3>3
  <2>3. \A t \in Targets : Overfull(t)' <=> Overfull(t)
    BY <2>1 DEF Overfull, targetReplayCounts, Hits
  <2>4. \A k \in 1..i' : FALSE
    BY <2>1
  <2> QED BY <2>1, <2>2, <2>3, <2>4 DEF Fits
<1>5. CASE Place
  BY <1>5, PlaceFits
<1>6. CASE Stretch
  BY <1>6, StretchFits DEF Stretch, Fits
<1>7. CASE Check
  BY <1>0, <1>7 DEF Check, Fits, Within, HandedOut
<1>8. CASE UNCHANGED vars
  BY <1>8 DEF vars, Fits, Within, Overfull, targetReplayCounts, PlacedOn, On, Hits
<1> QED
  BY <1>1, <1>2, <1>3, <1>4, <1>5, <1>6, <1>7, <1>8 DEF Next, Terminated

\* For any replays and targets, one host per design or several: a schedule that
\* is handed out lies within the campaign in the order of time, and a campaign
\* is turned down only when no schedule could keep the cooldown within it.
THEOREM FitsOrThereIsNone == Spec => []FitsOrInfeasible
<1> USE DEF Returned
<1> DEFINE Inv == TypeOK /\ Progress /\ HandedOut /\ Fits
<1>1. Init => Inv
  <2>1. ASSUME Init, total = 0 PROVE Pairs = {} /\ \A j \in 1..(total - 1) : FALSE
    BY <2>1, PairsFinite, FS_EmptySet DEF total
  <2>2. Init => HandedOut
    BY <2>1 DEF Init, HandedOut, Spaced, SpacedBy
  <2>3. Init => Fits
    BY <2>1 DEF Init, Fits, Within
  <2> QED BY <2>2, <2>3, TypeInit
<1>2. Inv /\ [Next]_vars => Inv'
  BY TypeStep, HandedOutStep, FitsStep
<1>3. Inv => FitsOrInfeasible
  <2> SUFFICES ASSUME Inv PROVE WithinCampaign /\ RejectedIsInfeasible
    BY DEF FitsOrInfeasible
  <2>1. WithinCampaign
    BY DEF WithinCampaign, Fits, Within
  <2>2. RejectedIsInfeasible
    BY OverfullDoesNotFit DEF RejectedIsInfeasible, Fits, TypeOK
  <2> QED BY <2>1, <2>2
<1> QED BY <1>1, <1>2, <1>3, PTL DEF Spec
=============================================================================
