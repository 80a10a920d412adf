-------------------------- MODULE VeriflierRunProofs --------------------------
(***************************************************************************)
(* Proofs about VeriflierRun.                                              *)
(***************************************************************************)
EXTENDS VeriflierRun, FiniteSetTheorems, SequenceTheorems, NaturalsInduction, TLAPS

-----------------------------------------------------------------------------
(* Sets in order *)

\* A nonempty set of numbers has a least element.
LEMMA LeastNumber ==
  ASSUME NEW S \in SUBSET Nat, S # {}
  PROVE  \E x \in S : \A y \in S : x <= y
<1> DEFINE R == OpToRel(<, Nat)
<1>1. PICK x \in S : \A y \in S : ~(<<y, x>> \in R)
  <2>1. IsWellFoundedOn(R, Nat)
    BY NatLessThanWellFounded
  <2> HIDE DEF R
  <2> QED BY <2>1, WFMin
<1>2. \A y \in S : ~(y < x)
  BY <1>1 DEF OpToRel
<1> QED BY <1>2

\* R orders the finite set S.
Orders(R, S) ==
    /\ IsFiniteSet(S)
    /\ \A x \in S : <<x, x>> \notin R
    /\ \A x, y \in S : x = y \/ <<x, y>> \in R \/ <<y, x>> \in R
    /\ \A x, y, z \in S : <<x, y>> \in R /\ <<y, z>> \in R => <<x, z>> \in R

\* f lists the n elements of S as R orders them.
Lists(f, n, S, R) ==
    /\ n \in Nat /\ f \in [1..n -> S]
    /\ \A x \in S : \E k \in 1..n : f[k] = x
    /\ \A i, k \in 1..n : i < k => <<f[i], f[k]>> \in R

\* A set in order holds every element once: the ranks of the elements are the
\* numbers below its cardinality.
LEMMA InOrderLists ==
  ASSUME NEW S, NEW R, Orders(R, S)
  PROVE  Lists(InOrder(S, R), Cardinality(S), S, R)
<1> DEFINE Below(x) == {y \in S : <<y, x>> \in R}
           Rank(x) == Cardinality(Below(x))
           N == Cardinality(S)
<1>1. IsFiniteSet(S) /\ N \in Nat
  BY FS_CardinalityType DEF Orders
<1>2. \A x \in S : IsFiniteSet(Below(x)) /\ Rank(x) \in Nat
  BY <1>1, FS_Subset, FS_CardinalityType
<1>3. ASSUME NEW x \in S, NEW y \in S, <<x, y>> \in R PROVE Rank(x) < Rank(y)
  <2>1. Below(x) \cup {x} \in SUBSET Below(y)
    BY <1>3 DEF Orders
  <2>2. x \notin Below(x)
    BY DEF Orders
  <2> PICK T, U : T = Below(x) /\ U = Below(y)
    OBVIOUS
  <2>3. IsFiniteSet(T) /\ IsFiniteSet(U) /\ T \cup {x} \in SUBSET U /\ x \notin T
    BY <2>1, <2>2, <1>2
  <2>4. Cardinality(T \cup {x}) = Cardinality(T) + 1
    BY <2>3, FS_AddElement
  <2>5. Cardinality(T \cup {x}) <= Cardinality(U)
    BY <2>3, FS_Subset
  <2>6. Cardinality(T) = Rank(x) /\ Cardinality(U) = Rank(y)
    OBVIOUS
  <2>7. Cardinality(T) \in Nat /\ Cardinality(U) \in Nat
    BY <2>6, <1>2
  <2>8. Cardinality(T) < Cardinality(U)
    BY <2>4, <2>5, <2>7
  <2> QED BY <2>6, <2>8
<1>4. ASSUME NEW x \in S PROVE Rank(x) \in 0..(N - 1)
  <2>1. Below(x) \in SUBSET (S \ {x})
    BY DEF Orders
  <2>2. IsFiniteSet(S \ {x}) /\ Cardinality(S \ {x}) = N - 1
    BY <1>1, FS_RemoveElement
  <2> PICK T, U : T = Below(x) /\ U = S \ {x}
    OBVIOUS
  <2>3. Cardinality(T) <= Cardinality(U)
    BY <2>1, <2>2, FS_Subset
  <2>4. Cardinality(T) = Rank(x) /\ Cardinality(T) \in Nat /\ Cardinality(U) = N - 1
    BY <1>2, <2>2
  <2> QED BY <2>3, <2>4, <1>1
<1> HIDE DEF Below, N
<1> DEFINE g == [x \in S |-> Rank(x)]
<1>5. \A x, y \in S : Rank(x) = Rank(y) => x = y
  <2> SUFFICES ASSUME NEW x \in S, NEW y \in S, Rank(x) = Rank(y), x # y PROVE FALSE
    OBVIOUS
  <2>1. <<x, y>> \in R \/ <<y, x>> \in R
    BY DEF Orders
  <2>2. Rank(x) \in Nat /\ Rank(y) \in Nat
    BY <1>2
  <2>3. Rank(x) < Rank(y) \/ Rank(y) < Rank(x)
    BY <2>1, <1>3
  <2> QED BY <2>2, <2>3
<1>6. g \in Injection(S, 0..(N - 1))
  <2>1. g \in [S -> 0..(N - 1)]
    BY <1>4
  <2>2. \A x, y \in S : g[x] = g[y] => x = y
    BY <1>5
  <2> HIDE DEF g
  <2> QED BY <2>1, <2>2 DEF Injection, IsInjective
<1>7. g \in Surjection(S, 0..(N - 1))
  <2> PICK T : T = 0..(N - 1)
    OBVIOUS
  <2>1. IsFiniteSet(T) /\ Cardinality(T) = N
    BY <1>1, FS_Interval
  <2>2. g \in Injection(S, T) /\ IsFiniteSet(T) /\ Cardinality(S) = Cardinality(T)
    BY <1>6, <2>1 DEF N
  <2> HIDE DEF g
  <2> QED BY <2>2, FS_Injection
<1>8. \A r \in 0..(N - 1) : \E x \in S : Rank(x) = r
  BY <1>7 DEF Surjection
<1> DEFINE f == InOrder(S, R)
<1>9. f = [k \in 1..N |-> CHOOSE x \in S : Rank(x) = k - 1]
  BY DEF InOrder, N, Below
<1> HIDE DEF f, Rank
<1>10. \A k \in 1..N : f[k] \in S /\ Rank(f[k]) = k - 1
  <2> TAKE k \in 1..N
  <2>1. k - 1 \in 0..(N - 1)
    BY <1>1
  <2>2. \E x \in S : Rank(x) = k - 1
    BY <2>1, <1>8
  <2> QED BY <2>2, <1>9
<1>11. \A x \in S : \E k \in 1..N : f[k] = x
  <2> TAKE x \in S
  <2>1. Rank(x) + 1 \in 1..N /\ (Rank(x) + 1) - 1 = Rank(x)
    BY <1>1, <1>4
  <2>2. Rank(f[Rank(x) + 1]) = Rank(x) /\ f[Rank(x) + 1] \in S
    BY <2>1, <1>10
  <2> QED BY <2>1, <2>2, <1>5
<1>12. \A i, k \in 1..N : i < k => <<f[i], f[k]>> \in R
  <2> SUFFICES ASSUME NEW i \in 1..N, NEW k \in 1..N, i < k, <<f[i], f[k]>> \notin R PROVE FALSE
    OBVIOUS
  <2>1. f[i] \in S /\ f[k] \in S /\ Rank(f[i]) = i - 1 /\ Rank(f[k]) = k - 1
    BY <1>10
  <2>2. f[i] = f[k] \/ <<f[k], f[i]>> \in R
    BY <2>1 DEF Orders
  <2>3. f[i] # f[k]
    BY <2>1, <1>1
  <2>4. Rank(f[k]) < Rank(f[i])
    BY <2>1, <2>2, <2>3, <1>3
  <2> QED BY <2>1, <2>4, <1>1
<1>13. f \in [1..N -> S]
  <2>1. DOMAIN f = 1..N /\ f = [k \in 1..N |-> f[k]]
    BY <1>9
  <2> QED BY <2>1, <1>10
<1> QED BY <1>1, <1>11, <1>12, <1>13 DEF Lists, f, N

\* Numbers in ascending order.
LEMMA AscendingLists ==
  ASSUME NEW S \in SUBSET Nat, IsFiniteSet(S)
  PROVE  /\ Ascending(S) \in Seq(S) /\ Len(Ascending(S)) = Cardinality(S) /\ Cardinality(S) \in Nat
         /\ \A x \in S : \E k \in 1..Cardinality(S) : Ascending(S)[k] = x
         /\ \A i, k \in 1..Cardinality(S) : i < k => Ascending(S)[i] < Ascending(S)[k]
<1> DEFINE R == {p \in S \X S : p[1] < p[2]}
<1>1. Orders(R, S)
  BY DEF Orders
<1>2. Ascending(S) = InOrder(S, R)
  BY DEF Ascending
<1>3. \A x, y : <<x, y>> \in R => x < y
  OBVIOUS
<1> HIDE DEF R
<1>4. Lists(Ascending(S), Cardinality(S), S, R)
  BY <1>1, <1>2, InOrderLists
<1>5. \A i, k \in 1..Cardinality(S) : i < k => Ascending(S)[i] < Ascending(S)[k]
  BY <1>4, <1>3 DEF Lists
<1> QED BY <1>4, <1>5 DEF Lists

-----------------------------------------------------------------------------
(* Sites and modes *)

\* Hash, URL and place: the order of the sites is transitive.
KeyBefore(hx, ux, x, hy, uy, y) == hx < hy \/ (hx = hy /\ ux < uy) \/ (hx = hy /\ ux = uy /\ x < y)
LEMMA KeysFollow ==
  ASSUME NEW hx \in Nat, NEW hy \in Nat, NEW hz \in Nat, NEW ux \in Nat, NEW uy \in Nat, NEW uz \in Nat,
         NEW x \in Nat, NEW y \in Nat, NEW z \in Nat,
         KeyBefore(hx, ux, x, hy, uy, y), KeyBefore(hy, uy, y, hz, uz, z)
  PROVE  KeyBefore(hx, ux, x, hz, uz, z)
BY DEF KeyBefore

\* The selected sites are rows of the dump.
LEMMA SitesAreRows ==
  ASSUME NEW rs \in Seq(DumpRow), NEW n \in Nat
  PROVE  /\ loadAndSelectSites(rs, n) \in Seq(DumpRow)
         /\ \A k \in DOMAIN loadAndSelectSites(rs, n) : \E i \in DOMAIN rs : loadAndSelectSites(rs, n)[k] = rs[i]
<1> DEFINE E == Eligible(rs)
           R == {p \in E \X E : Before(rs, p[1], p[2])}
           all == Cardinality(E)
           len == IF n > 0 THEN AtMost(all, n) ELSE all
<1>0. \A i \in DOMAIN rs : i \in Nat /\ rs[i] \in DumpRow
  OBVIOUS
<1>1. \A i \in DOMAIN rs : i \in Nat /\ rs[i].hash \in Nat /\ rs[i].url \in Nat
  BY <1>0 DEF DumpRow
<1>2. E \in SUBSET (DOMAIN rs) /\ E \in SUBSET (1..Len(rs))
  BY DEF Eligible
<1>3. IsFiniteSet(E)
  BY <1>2, FS_Interval, FS_Subset
<1>4. \A x, y : <<x, y>> \in R <=> x \in E /\ y \in E /\ Before(rs, x, y)
  OBVIOUS
<1>5. Orders(R, E)
  <2> HIDE DEF E, R
  <2>1. \A x \in E : x \in Nat /\ rs[x].hash \in Nat /\ rs[x].url \in Nat
    BY <1>1, <1>2
  <2>2. \A x \in E : <<x, x>> \notin R
    BY <2>1, <1>4 DEF Before
  <2>3. \A x, y \in E : x = y \/ <<x, y>> \in R \/ <<y, x>> \in R
    <3> TAKE x, y \in E
    <3> PICK hx, hy, ux, uy : hx = rs[x].hash /\ hy = rs[y].hash /\ ux = rs[x].url /\ uy = rs[y].url
      OBVIOUS
    <3>1. hx \in Nat /\ hy \in Nat /\ ux \in Nat /\ uy \in Nat /\ x \in Nat /\ y \in Nat
      BY <2>1
    <3>2. /\ <<x, y>> \in R <=> hx < hy \/ (hx = hy /\ ux < uy) \/ (hx = hy /\ ux = uy /\ x < y)
          /\ <<y, x>> \in R <=> hy < hx \/ (hy = hx /\ uy < ux) \/ (hy = hx /\ uy = ux /\ y < x)
      BY <1>4 DEF Before
    <3> QED BY <3>1, <3>2
  <2>4. \A x, y \in E : <<x, y>> \in R <=> KeyBefore(rs[x].hash, rs[x].url, x, rs[y].hash, rs[y].url, y)
    BY <1>4 DEF Before, KeyBefore
  <2>5. \A x, y, z \in E : <<x, y>> \in R /\ <<y, z>> \in R => <<x, z>> \in R
    BY <2>1, <2>4, KeysFollow
  <2> QED BY <1>3, <2>2, <2>3, <2>5 DEF Orders
<1>6. Lists(InOrder(E, R), all, E, R)
  BY <1>5, InOrderLists
<1>7. loadAndSelectSites(rs, n) = [k \in 1..len |-> rs[InOrder(E, R)[k]]]
  BY DEF loadAndSelectSites
<1> HIDE DEF E, R, all
<1>8. all \in Nat /\ len \in Nat /\ len <= all
  BY <1>6 DEF Lists, AtMost
<1>9. \A k \in 1..len : InOrder(E, R)[k] \in DOMAIN rs
  BY <1>6, <1>8, <1>2 DEF Lists
<1>10. \A k \in 1..len : rs[InOrder(E, R)[k]] \in DumpRow
  BY <1>9
<1> HIDE DEF len
<1> QED BY <1>7, <1>8, <1>9, <1>10

\* The modes that are selected are known ones, at least one, none of them twice.
LEMMA ModesAreKnown ==
  ASSUME NEW names \in Seq(STRING), KnownModes(AllModes, names)
  PROVE  LET ms == selectModes(AllModes, names)
         IN  /\ ms \in Seq(Range(AllModes)) /\ Len(ms) \in Nat \ {0}
             /\ \A i, k \in DOMAIN ms : ms[i] = ms[k] => i = k
<1> DEFINE P == FirstPlaces(names)
           N == Cardinality(P)
           a == Ascending(P)
           ms == selectModes(AllModes, names)
<1>1. CASE names = <<>>
  <2>1. ms = AllModes
    BY <1>1 DEF selectModes
  <2>2. AllModes \in Seq(Range(AllModes)) /\ Len(AllModes) # 0
    BY ModesAssumption DEF Range
  <2> QED BY <2>1, <2>2, ModesAssumption
<1>2. CASE names # <<>>
  <2>1. P \in SUBSET (1..Len(names)) /\ P \in SUBSET Nat /\ 1 \in P /\ P \in SUBSET (DOMAIN names)
    BY <1>2 DEF FirstPlaces
  <2>2. IsFiniteSet(P)
    BY <2>1, FS_Interval, FS_Subset
  <2>3. /\ N \in Nat /\ a \in Seq(P) /\ Len(a) = N
        /\ \A x \in P : \E k \in 1..N : a[k] = x
        /\ \A i, k \in 1..N : i < k => a[i] < a[k]
    <3> HIDE DEF P
    <3> QED BY <2>1, <2>2, AscendingLists
  <2>4. ms = [k \in 1..N |-> names[a[k]]]
    BY <1>2 DEF selectModes
  <2>5. \A i, k \in P : names[i] = names[k] => i = k
    <3> SUFFICES ASSUME NEW i \in P, NEW k \in P, names[i] = names[k], i < k PROVE FALSE
      BY <2>1
    <3> QED BY <2>1 DEF FirstPlaces
  <2> HIDE DEF P, N, a, ms
  <2>6. \A k \in 1..N : a[k] \in P
    BY <2>3
  <2>7. \A k \in 1..N : names[a[k]] \in Range(AllModes)
    BY <2>6, <2>1 DEF KnownModes, Range
  <2>8. N # 0
    BY <2>1, <2>3
  <2>9. ms \in Seq(Range(AllModes)) /\ Len(ms) = N /\ DOMAIN ms = 1..N
    BY <2>4, <2>7, <2>3
  <2>10. \A i, k \in 1..N : ms[i] = ms[k] => i = k
    <3> SUFFICES ASSUME NEW i \in 1..N, NEW k \in 1..N, ms[i] = ms[k], i < k PROVE FALSE
      BY <2>3
    <3>1. a[i] = a[k]
      BY <2>4, <2>5, <2>6
    <3>2. a[i] < a[k] /\ a[i] \in Nat
      BY <2>3, <2>6, <2>1
    <3> QED BY <3>1, <3>2
  <2> QED BY <2>3, <2>8, <2>9, <2>10 DEF ms
<1> QED BY <1>1, <1>2

-----------------------------------------------------------------------------
(* Batches *)

\* What the loop over the checks knows of the batch it is filling: it begins at
\* the same check for all of its checks, and holds no more than it may.
Fills(first, checks, size, apart, i) ==
    /\ first[i] \in 1..i
    /\ \A j \in first[i]..i : first[j] = first[i]
    /\ i - first[i] < AtLeast(size, 1)
    /\ apart => \A j, k \in first[i]..i : checks[j].host = checks[k].host => j = k

LEMMA BatchesFill ==
  ASSUME NEW checks, Len(checks) \in Nat, DOMAIN checks = 1..Len(checks), NEW size \in Nat, NEW apart \in BOOLEAN
  PROVE  \A i \in 1..Len(checks) : Fills(BatchStart(checks, size, apart), checks, size, apart, i)
<1> DEFINE Next1(f, i) == IF \/ i - f >= AtLeast(size, 1)
                             \/ apart /\ \E k \in f..(i - 1) : checks[k].host = checks[i].host
                          THEN i ELSE f
           IsFirst(g, n) == g = [i \in 1..n |-> IF i = 1 THEN 1 ELSE Next1(g[i - 1], i)]
           N == Len(checks)
<1>1. \A n \in Nat : \E g : IsFirst(g, n)
  <2> SUFFICES ASSUME {n \in Nat : ~ \E g : IsFirst(g, n)} # {} PROVE FALSE
    OBVIOUS
  <2> DEFINE Bad == {n \in Nat : ~ \E g : IsFirst(g, n)}
  <2>0. Bad \in SUBSET Nat /\ Bad # {}
    OBVIOUS
  <2>1. PICK n \in Bad : \A k \in Bad : n <= k
    <3> HIDE DEF Bad
    <3> QED BY <2>0, LeastNumber
  <2>2. CASE n = 0
    <3>1. IsFirst([i \in 1..0 |-> 1], 0)
      <4> HIDE DEF Next1
      <4> QED OBVIOUS
    <3> QED BY <2>1, <2>2, <3>1
  <2>3. CASE n # 0
    <3>1. n - 1 \in Nat /\ n - 1 \notin Bad
      <4> HIDE DEF Bad
      <4> QED BY <2>0, <2>1, <2>3
    <3>2. PICK g : IsFirst(g, n - 1)
      BY <3>1
    <3> DEFINE h == [i \in 1..n |-> IF i = n THEN (IF n = 1 THEN 1 ELSE Next1(g[n - 1], n)) ELSE g[i]]
    <3> HIDE DEF Next1
    <3>3. \A i \in 1..(n - 1) : h[i] = g[i]
      BY <2>1, <3>1
    <3>4. \A i \in 1..n : h[i] = IF i = 1 THEN 1 ELSE Next1(h[i - 1], i)
      <4> TAKE i \in 1..n
      <4>1. CASE i = n
        <5>1. n # 1 => h[n - 1] = g[n - 1]
          BY <3>3, <3>1, <2>1
        <5>2. h[n] = IF n = 1 THEN 1 ELSE Next1(g[n - 1], n)
          BY <2>1, <2>3
        <5> QED BY <4>1, <5>1, <5>2
      <4>2. CASE i # n
        <5>1. i \in 1..(n - 1)
          BY <4>2, <2>1
        <5>2. g[i] = IF i = 1 THEN 1 ELSE Next1(g[i - 1], i)
          BY <5>1, <3>2
        <5>3. i # 1 => h[i - 1] = g[i - 1]
          BY <5>1, <3>3, <3>1
        <5> QED BY <5>1, <5>2, <5>3, <3>3
      <4> QED BY <4>1, <4>2
    <3>5. h = [i \in 1..n |-> h[i]]
      OBVIOUS
    <3> HIDE DEF h
    <3>6. IsFirst(h, n)
      BY <3>4, <3>5
    <3> QED BY <3>6, <2>1
  <2> QED BY <2>2, <2>3
<1> DEFINE first == BatchStart(checks, size, apart)
<1>2. IsFirst(first, N)
  <2>1. first = CHOOSE g : IsFirst(g, N)
    BY DEF BatchStart
  <2> HIDE DEF first
  <2> QED BY <1>1, <2>1
<1> HIDE DEF first
<1>3. \A i \in 1..N : first[i] = IF i = 1 THEN 1 ELSE Next1(first[i - 1], i)
  <2> HIDE DEF Next1
  <2> QED BY <1>2
<1>4. ASSUME NEW i \in 1..N, i = 1 \/ Fills(first, checks, size, apart, i - 1)
      PROVE  Fills(first, checks, size, apart, i)
  <2>1. AtLeast(size, 1) \in Nat /\ AtLeast(size, 1) >= 1
    BY DEF AtLeast
  <2>2. CASE first[i] = i
    BY <2>1, <2>2 DEF Fills
  <2>3. CASE first[i] # i
    <3>1. i # 1
      BY <2>3, <1>3
    <3>2. i - 1 \in 1..N /\ Fills(first, checks, size, apart, i - 1)
      BY <3>1, <1>4
    <3>3. first[i] = Next1(first[i - 1], i)
      <4> HIDE DEF Next1
      <4> QED BY <3>1, <1>3
    <3> PICK f : f = first[i - 1]
      OBVIOUS
    <3>4. /\ first[i] = f
          /\ i - f < AtLeast(size, 1)
          /\ apart => \A k \in f..(i - 1) : checks[k].host # checks[i].host
      <4>1. f \in 1..(i - 1)
        BY <3>2 DEF Fills
      <4> QED BY <3>3, <2>3, <2>1, <4>1
    <3>5. f \in 1..i
      BY <3>2 DEF Fills
    <3>6. \A j \in f..i : first[j] = f
      <4> TAKE j \in f..i
      <4>1. j = i \/ j \in f..(i - 1)
        BY <3>5
      <4> QED BY <4>1, <3>2, <3>4 DEF Fills
    <3>7. apart => \A j, k \in f..i : checks[j].host = checks[k].host => j = k
      <4> SUFFICES ASSUME apart, NEW j \in f..i, NEW k \in f..i, checks[j].host = checks[k].host PROVE j = k
        OBVIOUS
      <4>1. (j = i \/ j \in f..(i - 1)) /\ (k = i \/ k \in f..(i - 1))
        BY <3>5
      <4> QED BY <4>1, <3>2, <3>4 DEF Fills
    <3> QED BY <3>4, <3>5, <3>6, <3>7 DEF Fills
  <2> QED BY <2>2, <2>3
<1>5. SUFFICES ASSUME {i \in 1..N : ~Fills(first, checks, size, apart, i)} # {} PROVE FALSE
  BY DEF first
<1>6. PICK i \in 1..N : ~Fills(first, checks, size, apart, i) /\ \A k \in 1..N : ~Fills(first, checks, size, apart, k) => i <= k
  <2> DEFINE Bad == {k \in 1..N : ~Fills(first, checks, size, apart, k)}
  <2>1. Bad \in SUBSET Nat /\ Bad # {}
    BY <1>5
  <2>2. PICK b \in Bad : \A k \in Bad : b <= k
    <3> HIDE DEF Bad
    <3> QED BY <2>1, LeastNumber
  <2> QED BY <2>2
<1>7. i = 1 \/ Fills(first, checks, size, apart, i - 1)
  BY <1>6
<1> QED BY <1>4, <1>6, <1>7

\* The batches are consecutive stretches of the checks, lo[k] to hi[k], and
\* every check is in one.
Stretches(cut, checks, size, apart, lo, hi) ==
    /\ \A k \in DOMAIN cut :
          /\ lo[k] \in 1..Len(checks) /\ hi[k] \in lo[k]..Len(checks)
          /\ cut[k] = SubSeq(checks, lo[k], hi[k])
          /\ hi[k] - lo[k] < AtLeast(size, 1)
          /\ apart => \A i, j \in lo[k]..hi[k] : checks[i].host = checks[j].host => i = j
    /\ \A i, k \in DOMAIN cut : i < k => hi[i] < lo[k]
    /\ \A i \in 1..Len(checks) : \E k \in DOMAIN cut : i \in lo[k]..hi[k]

LEMMA CutStretches ==
  ASSUME NEW checks, Len(checks) \in Nat, DOMAIN checks = 1..Len(checks), NEW size \in Nat, NEW apart \in BOOLEAN
  PROVE  LET cut == Cut(checks, size, apart)
         IN  /\ Len(cut) \in Nat /\ DOMAIN cut = 1..Len(cut)
             /\ \E lo, hi : Stretches(cut, checks, size, apart, lo, hi)
<1> DEFINE first == BatchStart(checks, size, apart)
           N == Len(checks)
           S == {i \in DOMAIN checks : first[i] = i}
           from == Ascending(S)
           m == Len(from)
           cut == Cut(checks, size, apart)
           lo == [k \in 1..m |-> from[k]]
           hi == [k \in 1..m |-> IF k = m THEN N ELSE from[k + 1] - 1]
<1>1. \A i \in 1..N : Fills(first, checks, size, apart, i)
  BY BatchesFill
<1>2. S \in SUBSET (1..N) /\ S \in SUBSET Nat /\ IsFiniteSet(S)
  <2>1. S \in SUBSET (1..N)
    OBVIOUS
  <2>2. 1..N \in SUBSET Nat /\ N \in Int /\ IsFiniteSet(1..N)
    BY FS_Interval
  <2> HIDE DEF S, N
  <2>3. IsFiniteSet(S)
    BY <2>1, <2>2, FS_Subset
  <2> QED BY <2>1, <2>2, <2>3
<1>3. \A i \in 1..N : i \in S <=> first[i] = i
  OBVIOUS
<1>4. cut = [k \in DOMAIN from |-> SubSeq(checks, from[k], IF k = m THEN N ELSE from[k + 1] - 1)]
  BY DEF Cut
<1> HIDE DEF first, S, cut
<1>5. /\ from \in Seq(S) /\ m \in Nat
      /\ \A x \in S : \E k \in 1..m : from[k] = x
      /\ \A i, k \in 1..m : i < k => from[i] < from[k]
  BY <1>2, AscendingLists
<1> HIDE DEF from, m, N
<1>6. DOMAIN from = 1..m /\ DOMAIN cut = 1..m /\ Len(cut) = m
  BY <1>4, <1>5 DEF m
<1>7. N \in Nat
  BY DEF N
<1>8. \A k \in 1..m : from[k] \in 1..N /\ from[k] \in S /\ first[from[k]] = from[k]
  <2>1. \A k \in 1..m : from[k] \in S
    BY <1>5 DEF m
  <2>2. \A k \in 1..m : from[k] \in 1..N
    BY <2>1, <1>2
  <2> QED BY <2>1, <2>2, <1>3
<1>9. \A i, k \in 1..m : i <= k => from[i] <= from[k]
  BY <1>5, <1>8
<1>10. \A i \in 1..N : \E q \in 1..m : from[q] = first[i] /\ from[q] <= i
  <2> TAKE i \in 1..N
  <2>1. first[i] \in 1..i /\ first[first[i]] = first[i]
    BY <1>1 DEF Fills
  <2>2. first[i] \in S
    <3>1. first[i] \in 1..N
      BY <2>1, <1>7
    <3> QED BY <2>1, <3>1, <1>3
  <2> QED BY <2>1, <2>2, <1>5
<1>11. ASSUME NEW i \in 1..N, NEW s \in S, s <= i PROVE s <= first[i]
  <2> SUFFICES ASSUME first[i] < s PROVE FALSE
    BY <1>1, <1>2 DEF Fills
  <2>1. s \in first[i]..i /\ first[i] \in 1..i
    BY <1>1, <1>2, <1>11 DEF Fills
  <2>2. first[s] = first[i] /\ first[s] = s
    BY <2>1, <1>1, <1>2, <1>3, <1>11 DEF Fills
  <2> QED BY <2>1, <2>2
<1>12. \A k \in 1..m : lo[k] = from[k] /\ hi[k] = (IF k = m THEN N ELSE from[k + 1] - 1)
  OBVIOUS
<1> HIDE DEF lo, hi
<1>13. ASSUME NEW k \in 1..m PROVE lo[k] \in 1..N /\ hi[k] \in lo[k]..N
  <2>1. CASE k = m
    BY <1>7, <1>8, <1>12, <2>1
  <2>2. CASE k # m
    <3>1. k + 1 \in 1..m /\ k < k + 1
      BY <1>5, <2>2
    <3>2. from[k] < from[k + 1] /\ from[k + 1] \in 1..N /\ from[k] \in 1..N
      BY <3>1, <1>5, <1>8
    <3>3. hi[k] = from[k + 1] - 1 /\ lo[k] = from[k]
      BY <2>2, <1>12
    <3> QED BY <3>2, <3>3, <1>7
  <2> QED BY <2>1, <2>2
<1>14. ASSUME NEW k \in 1..m, NEW i \in lo[k]..hi[k] PROVE first[i] = lo[k]
  <2>1. i \in 1..N /\ lo[k] = from[k] /\ from[k] <= i
    BY <1>13, <1>12, <1>7
  <2>2. from[k] <= first[i]
    BY <2>1, <1>8, <1>11
  <2>3. PICK q \in 1..m : from[q] = first[i] /\ from[q] <= i
    BY <2>1, <1>10
  <2>4. q = k
    <3>1. ~(q < k)
      BY <2>2, <2>3, <1>5, <1>8
    <3>2. ~(q > k)
      <4> SUFFICES ASSUME q > k PROVE FALSE
        OBVIOUS
      <4>1. k + 1 \in 1..m /\ k # m /\ k + 1 <= q
        BY <1>5
      <4>2. from[k + 1] <= from[q]
        BY <4>1, <1>9
      <4>3. i <= from[k + 1] - 1
        BY <4>1, <1>12, <1>13, <1>7
      <4> QED BY <4>1, <4>2, <4>3, <2>1, <2>3, <1>8
    <3> QED BY <3>1, <3>2
  <2> QED BY <2>1, <2>3, <2>4
<1>15. ASSUME NEW k \in 1..m
       PROVE  /\ cut[k] = SubSeq(checks, lo[k], hi[k])
              /\ hi[k] - lo[k] < AtLeast(size, 1)
              /\ apart => \A i, j \in lo[k]..hi[k] : checks[i].host = checks[j].host => i = j
  <2>1. cut[k] = SubSeq(checks, lo[k], hi[k])
    BY <1>4, <1>6, <1>12
  <2>2. hi[k] \in 1..N /\ first[hi[k]] = lo[k]
    BY <1>7, <1>13, <1>14
  <2>3. Fills(first, checks, size, apart, hi[k])
    BY <2>2, <1>1
  <2> QED BY <2>1, <2>2, <2>3 DEF Fills
<1>16. ASSUME NEW i \in 1..m, NEW k \in 1..m, i < k PROVE hi[i] < lo[k]
  <2>1. i + 1 \in 1..m /\ i # m /\ i + 1 <= k
    BY <1>5, <1>16
  <2>2. from[i + 1] <= from[k] /\ from[i + 1] \in 1..N /\ from[k] \in 1..N
    BY <2>1, <1>8, <1>9
  <2>3. hi[i] = from[i + 1] - 1 /\ lo[k] = from[k]
    BY <2>1, <1>12
  <2> QED BY <2>2, <2>3
<1>17. ASSUME NEW i \in 1..N PROVE \E k \in 1..m : i \in lo[k]..hi[k]
  <2>1. PICK q \in 1..m : from[q] = first[i] /\ from[q] <= i
    BY <1>10
  <2>2. i <= hi[q]
    <3>1. CASE q = m
      BY <3>1, <1>12, <1>7
    <3>2. CASE q # m
      <4>1. q + 1 \in 1..m /\ q < q + 1
        BY <3>2, <1>5
      <4>2. from[q] < from[q + 1] /\ from[q + 1] \in S /\ from[q + 1] \in 1..N /\ from[q] \in 1..N
        BY <4>1, <1>5, <1>8
      <4>3. ~(from[q + 1] <= i)
        BY <4>2, <1>11, <2>1
      <4>4. hi[q] = from[q + 1] - 1
        BY <3>2, <1>12
      <4> QED BY <4>2, <4>3, <4>4
    <3> QED BY <3>1, <3>2
  <2> QED BY <2>1, <2>2, <1>12, <1>13
<1>18. Stretches(cut, checks, size, apart, lo, hi)
  BY <1>6, <1>13, <1>15, <1>16, <1>17 DEF Stretches, N
<1> QED BY <1>5, <1>6, <1>18 DEF cut

\* A stretch of a sequence.
LEMMA StretchOf ==
  ASSUME NEW C, NEW s \in Seq(C), NEW a \in 1..Len(s), NEW b \in a..Len(s)
  PROVE  /\ SubSeq(s, a, b) \in Seq(C) /\ Len(SubSeq(s, a, b)) = b - a + 1
         /\ \A i \in 1..(b - a + 1) : SubSeq(s, a, b)[i] = s[a + i - 1]
OBVIOUS

Apart(a, b) == Ids(a) \cap Ids(b) = {}

\* Cutting checks with IDs of their own into batches.
CutIs(cut, C, checks, size, apart) ==
    /\ cut \in Seq(Seq(C))
    /\ \A k \in DOMAIN cut :
          /\ cut[k] # <<>> /\ Len(cut[k]) <= AtLeast(size, 1)
          /\ \A i \in DOMAIN cut[k] : \E j \in DOMAIN checks : cut[k][i] = checks[j]
          /\ \A i, j \in DOMAIN cut[k] : cut[k][i].id = cut[k][j].id => i = j
          /\ apart => \A i, j \in DOMAIN cut[k] : cut[k][i].host = cut[k][j].host => i = j
    /\ \A i, k \in DOMAIN cut : i # k => Apart(cut[i], cut[k])
    /\ \A i \in DOMAIN checks : \E k \in DOMAIN cut : \E j \in DOMAIN cut[k] : cut[k][j] = checks[i]

LEMMA CutOK ==
  ASSUME NEW C, NEW checks \in Seq(C), NEW size \in Nat, NEW apart \in BOOLEAN,
         \A i, k \in DOMAIN checks : checks[i].id = checks[k].id => i = k
  PROVE  CutIs(Cut(checks, size, apart), C, checks, size, apart)
<1> DEFINE cut == Cut(checks, size, apart)
           N == Len(checks)
<1>1. N \in Nat /\ DOMAIN checks = 1..N /\ \A i \in 1..N : checks[i] \in C
  OBVIOUS
<1> HIDE DEF cut
<1>2. Len(cut) \in Nat /\ DOMAIN cut = 1..Len(cut) /\ \E lo, hi : Stretches(cut, checks, size, apart, lo, hi)
  BY <1>1, CutStretches DEF cut
<1>3. PICK lo, hi : Stretches(cut, checks, size, apart, lo, hi)
  BY <1>2
<1>4. ASSUME NEW k \in DOMAIN cut
      PROVE  /\ lo[k] \in 1..N /\ hi[k] \in lo[k]..N
             /\ Len(cut[k]) = hi[k] - lo[k] + 1 /\ DOMAIN cut[k] = 1..(hi[k] - lo[k] + 1) /\ cut[k] \in Seq(C)
             /\ \A i \in 1..(hi[k] - lo[k] + 1) : cut[k][i] = checks[lo[k] + i - 1]
  <2>1. lo[k] \in 1..N /\ hi[k] \in lo[k]..N /\ cut[k] = SubSeq(checks, lo[k], hi[k])
    BY <1>3 DEF Stretches
  <2> PICK a, b : a = lo[k] /\ b = hi[k]
    OBVIOUS
  <2>2. a \in 1..N /\ b \in a..N /\ cut[k] = SubSeq(checks, a, b)
    BY <2>1
  <2>3. a \in Int /\ b \in Int /\ a <= b /\ \A i \in a..b : checks[i] \in C
    BY <2>2, <1>1
  <2>4. /\ cut[k] \in Seq(C) /\ Len(cut[k]) = b - a + 1
        /\ \A i \in 1..(b - a + 1) : cut[k][i] = checks[a + i - 1]
    <3> HIDE <2>1
    <3>1. a \in 1..Len(checks) /\ b \in a..Len(checks)
      BY <2>2
    <3> PICK ss : ss = SubSeq(checks, a, b)
      OBVIOUS
    <3>2. ss = cut[k]
      BY <2>2
    <3>3. ss \in Seq(C) /\ Len(ss) = b - a + 1 /\ \A i \in 1..(b - a + 1) : ss[i] = checks[a + i - 1]
      BY <3>1, StretchOf
    <3> QED BY <3>2, <3>3
  <2>5. DOMAIN cut[k] = 1..(b - a + 1)
    BY <2>4
  <2> QED BY <2>2, <2>4, <2>5
<1>5. ASSUME NEW k \in DOMAIN cut, NEW i \in DOMAIN cut[k]
      PROVE  /\ cut[k][i] = checks[lo[k] + i - 1] /\ lo[k] + i - 1 \in lo[k]..hi[k]
             /\ lo[k] + i - 1 \in 1..N /\ i \in Nat /\ lo[k] \in Nat
  <2> PICK a, b : a = lo[k] /\ b = hi[k]
    OBVIOUS
  <2>1. a \in 1..N /\ b \in a..N /\ (\A j \in 1..(b - a + 1) : cut[k][j] = checks[a + j - 1]) /\ i \in 1..(b - a + 1)
    BY <1>4
  <2> QED BY <2>1, <1>1
<1>6. cut \in Seq(Seq(C))
  <2>1. \A k \in DOMAIN cut : cut[k] \in Seq(C)
    BY <1>4
  <2>2. cut = [k \in 1..Len(cut) |-> cut[k]]
    <3>1. cut = [k \in DOMAIN cut |-> cut[k]]
      BY DEF cut, Cut
    <3> QED BY <3>1, <1>2
  <2> QED BY <2>1, <2>2, <1>2
<1>7. ASSUME NEW k \in DOMAIN cut
      PROVE  /\ cut[k] # <<>> /\ Len(cut[k]) <= AtLeast(size, 1)
             /\ \A i \in DOMAIN cut[k] : \E j \in DOMAIN checks : cut[k][i] = checks[j]
             /\ \A i, j \in DOMAIN cut[k] : cut[k][i].id = cut[k][j].id => i = j
             /\ apart => \A i, j \in DOMAIN cut[k] : cut[k][i].host = cut[k][j].host => i = j
  <2>1. AtLeast(size, 1) \in Nat
    BY DEF AtLeast
  <2>2. hi[k] - lo[k] < AtLeast(size, 1)
    BY <1>3 DEF Stretches
  <2>3. cut[k] # <<>> /\ Len(cut[k]) <= AtLeast(size, 1)
    <3> PICK a, b : a = lo[k] /\ b = hi[k]
      OBVIOUS
    <3>1. a \in 1..N /\ b \in a..N /\ Len(cut[k]) = b - a + 1 /\ b - a < AtLeast(size, 1)
      BY <1>4, <2>2
    <3> QED BY <3>1, <2>1, <1>1
  <2>4. \A i \in DOMAIN cut[k] : \E j \in DOMAIN checks : cut[k][i] = checks[j]
    BY <1>5, <1>1
  <2>5. \A i, j \in DOMAIN cut[k] : cut[k][i].id = cut[k][j].id => i = j
    <3> SUFFICES ASSUME NEW i \in DOMAIN cut[k], NEW j \in DOMAIN cut[k], cut[k][i].id = cut[k][j].id PROVE i = j
      OBVIOUS
    <3>1. lo[k] + i - 1 = lo[k] + j - 1
      BY <1>5, <1>1
    <3> QED BY <3>1, <1>5
  <2>6. apart => \A i, j \in DOMAIN cut[k] : cut[k][i].host = cut[k][j].host => i = j
    <3> SUFFICES ASSUME apart, NEW i \in DOMAIN cut[k], NEW j \in DOMAIN cut[k], cut[k][i].host = cut[k][j].host PROVE i = j
      OBVIOUS
    <3>1. \A x, y \in lo[k]..hi[k] : checks[x].host = checks[y].host => x = y
      BY <1>3 DEF Stretches
    <3>2. /\ checks[lo[k] + i - 1].host = checks[lo[k] + j - 1].host
          /\ lo[k] + i - 1 \in lo[k]..hi[k] /\ lo[k] + j - 1 \in lo[k]..hi[k]
      BY <1>5
    <3>3. lo[k] + i - 1 = lo[k] + j - 1
      BY <3>1, <3>2
    <3> QED BY <3>3, <1>5
  <2> QED BY <2>3, <2>4, <2>5, <2>6
<1>8. ASSUME NEW i \in DOMAIN cut, NEW k \in DOMAIN cut, i # k PROVE Apart(cut[i], cut[k])
  <2> SUFFICES ASSUME NEW x \in DOMAIN cut[i], NEW y \in DOMAIN cut[k], cut[i][x].id = cut[k][y].id PROVE FALSE
    BY DEF Apart, Ids
  <2>1. lo[i] + x - 1 = lo[k] + y - 1
    BY <1>5, <1>1
  <2>2. hi[i] < lo[k] \/ hi[k] < lo[i]
    <3>1. i < k \/ k < i
      BY <1>2, <1>8
    <3> QED BY <3>1, <1>3 DEF Stretches
  <2>3. lo[i] + x - 1 \in lo[i]..hi[i] /\ lo[k] + y - 1 \in lo[k]..hi[k]
    BY <1>5
  <2>4. lo[i] \in Nat /\ hi[i] \in Nat /\ lo[k] \in Nat /\ hi[k] \in Nat
    BY <1>4, <1>1
  <2> QED BY <2>1, <2>2, <2>3, <2>4
<1>9. ASSUME NEW i \in DOMAIN checks PROVE \E k \in DOMAIN cut : \E j \in DOMAIN cut[k] : cut[k][j] = checks[i]
  <2>1. PICK k \in DOMAIN cut : i \in lo[k]..hi[k]
    BY <1>1, <1>3 DEF Stretches
  <2> PICK a, b : a = lo[k] /\ b = hi[k]
    OBVIOUS
  <2>2. a \in 1..N /\ b \in a..N /\ i \in a..b /\ DOMAIN cut[k] = 1..(b - a + 1)
        /\ \A j \in 1..(b - a + 1) : cut[k][j] = checks[a + j - 1]
    BY <1>4, <2>1
  <2>3. i - a + 1 \in 1..(b - a + 1) /\ a + (i - a + 1) - 1 = i
    BY <2>2, <1>1
  <2>4. cut[k][i - a + 1] = checks[i] /\ i - a + 1 \in DOMAIN cut[k]
    BY <2>2, <2>3
  <2> QED BY <2>4
<1> QED BY <1>6, <1>7, <1>8, <1>9 DEF CutIs, cut

-----------------------------------------------------------------------------
(* The invariant *)

\* The forms of the state.
CheckSet == [id : Nat, url : Nat, host : Hosts]
RowSet == [id : Nat, url : Nat]
Kinds == {"completed", "missing", "transport"}
ResultSet == [try : Nat, mode : Nat, id : Nat, kind : Kinds, asked : Nat, url : Nat]
JobSet == [try : Nat, mode : Nat, id : Nat, url : Nat, seen : BOOLEAN, noted : BOOLEAN, told : BOOLEAN, nth : Nat]
RecordSet == [mode : Nat, url : Nat]
ReportSet == [mode : Nat, ids : SUBSET Nat, noted : BOOLEAN]
Pcs == {"idle", "hosts", "lock", "tokens", "send", "post", "answer", "wait"}
WorkerSet == [pc : Pcs, batch : Seq(CheckSet), at : Nat, got : Nat, read : SUBSET RowSet]
Places == [try : Nat, mode : DOMAIN Modes, skip : 0..Len(Selected)]

\* The plan is that of the mode, unless its results file could not be opened.
PlanIs == plan = Batches(program, pos) \/ (writer = "unopened" /\ plan = <<>>)

\* The state is of its type.
Shape ==
    /\ program \in Programs
    /\ pos \in Places
    /\ phase \in {"start", "run", "drain", "done"}
    /\ PlanIs
    /\ queue \in Seq(Seq(CheckSet)) /\ outcomes \in Seq(SUBSET ResultSet)
    /\ wk \in [Workers -> WorkerSet]
    /\ limits \in [host : [Hosts -> Nat], tokens : Nat, mu : Nat]
    /\ jobs \subseteq JobSet /\ IsFiniteSet(jobs)
    /\ callbacks \subseteq RowSet /\ rows \subseteq RowSet
    /\ results \subseteq ResultSet
    /\ buffer \subseteq RecordSet /\ file \subseteq RecordSet
    /\ observed \subseteq [mode : Nat, requests : Nat]
    /\ writer \in {"open", "failed", "unopened"} /\ sampler \in {"on", "hung"}
    /\ report \subseteq ReportSet

OnSites == program.name = "real"
Total == IF program.name = "fixture" THEN FixtureURLs ELSE tierTotal(Rate, Minutes)
IDsOf(m) == FirstID[Modes[m]]..(FirstID[Modes[m]] + (Total - 1))

\* A check of the mode with this ID is for this URL.
Asks(m, id, url) ==
    IF OnSites THEN id \in DOMAIN Selected /\ url = Selected[id].url
    ELSE id \in IDsOf(m) /\ url = FirstID[Modes[m]]

\* A batch is of checks of the mode, each once, and on sites of no more than the
\* tokens there are and of hosts of their own.
GoodBatch(b, m) ==
    /\ b \in Seq(CheckSet) /\ b # <<>>
    /\ \A i \in DOMAIN b : Asks(m, b[i].id, b[i].url)
    /\ \A i, k \in DOMAIN b : b[i].id = b[k].id => i = k
    /\ OnSites => Len(b) <= Global /\ \A i, k \in DOMAIN b : b[i].host = b[k].host => i = k
BatchOK(b) == GoodBatch(b, pos.mode) /\ \A i \in DOMAIN b : b[i] \in Checks

Sending == {"send", "post", "answer", "wait"}

\* A worker that is not idle has a batch, and the places and tokens it needs.
WorkerOK(w) ==
    IF wk[w].pc = "idle" THEN wk[w] = Idle
    ELSE /\ phase = "run"
         /\ BatchOK(wk[w].batch)
         /\ wk[w].pc \in {"hosts", "lock", "tokens"} => OnSites
         /\ OnSites =>
               /\ wk[w].pc = "hosts" => wk[w].at < Len(uniqueBatchHosts(wk[w].batch))
               /\ wk[w].pc # "hosts" => wk[w].at = Len(uniqueBatchHosts(wk[w].batch))
               /\ wk[w].pc \in {"hosts", "lock"} => wk[w].got = 0
               /\ wk[w].pc = "tokens" => wk[w].got < Len(wk[w].batch)
               /\ wk[w].pc \in Sending => wk[w].got = Len(wk[w].batch)

\* A check is in one batch only, and that is with one worker or in the queue.
Work ==
    /\ \A k \in DOMAIN queue : BatchOK(queue[k])
    /\ \A i, k \in DOMAIN queue : i # k => Apart(queue[i], queue[k])
    /\ \A w \in Workers : WorkerOK(w)
    /\ \A w \in Workers, k \in DOMAIN queue : Apart(wk[w].batch, queue[k])
    /\ \A v, w \in Workers : v # w => Apart(wk[v].batch, wk[w].batch)

\* What the phases and the programs leave empty.
Phases ==
    /\ phase \in {"start", "drain"} => program.name = "tier"
    /\ phase \in {"drain", "done"} => queue = <<>> /\ outcomes = <<>> /\ \A w \in Workers : wk[w].pc = "idle"
    /\ phase = "done" => pos.mode = Len(Modes)
    /\ ~OnSites => outcomes = <<>>
    /\ OnSites => observed = {}

Outs == results \cup UNION {outcomes[k] : k \in DOMAIN outcomes}
Current(r) == r.try = pos.try /\ r.mode = pos.mode
Settled(id) == \E r \in Outs : Current(r) /\ r.id = id
Waiting(id) == \/ \E k \in DOMAIN queue : id \in Ids(queue[k])
               \/ \E w \in Workers : id \in Ids(wk[w].batch)

\* A tier on v1 counts at its end what the callbacks leave open.
CountsLater == program.name = "tier" /\ Ep = "v1" /\ phase # "done"

\* A check waits or has its result, never both, and one kind of result.
Accounts ==
    /\ CountsLater \/ \A c \in Checks : Waiting(c.id) \/ Settled(c.id)
    /\ \A r \in Outs : Current(r) => ~Waiting(r.id)
    /\ program.name # "tier" => \A r, x \in Outs : r.mode = x.mode /\ r.id = x.id => r.kind = x.kind

\* Results, callbacks and what was read of them are of checks that were made, by
\* this execution or an earlier one.
HasJob(m, id) == \E j \in jobs : j.mode = m /\ j.id = id /\ j.seen /\ j.told
Left(id) == id \in program.stale
Known(c) ==
    /\ c \in RowSet
    /\ Left(c.id) \/ \E m \in DOMAIN Modes : Asks(m, c.id, c.url) /\ (OnSites \/ HasJob(m, c.id))
ResultOK(r) ==
    /\ r.try = pos.try /\ r.mode \in DOMAIN Modes /\ r.mode <= pos.mode
    /\ Asks(r.mode, r.id, r.asked) /\ (r.url = r.asked \/ Left(r.id))
    /\ r.kind = "completed" => OnSites \/ HasJob(r.mode, r.id) \/ Left(r.id)
ResultsOK ==
    /\ \A r \in Outs : ResultOK(r)
    /\ \A c \in callbacks \cup rows : Known(c)
    /\ \A w \in Workers : \A c \in wk[w].read : Known(c)

\* A check is sent once in an attempt and a mode.
Unsent(w) == wk[w].pc \in {"hosts", "lock", "tokens", "send", "post"}
ToSend(id) == \/ \E k \in DOMAIN queue : id \in Ids(queue[k])
              \/ \E w \in Workers : Unsent(w) /\ id \in Ids(wk[w].batch)
JobOK(j) ==
    /\ j.mode \in DOMAIN Modes /\ Asks(j.mode, j.id, j.url)
    /\ j.try < pos.try \/ (j.try = pos.try /\ j.mode <= pos.mode)
    /\ ~OnSites /\ program.buffered /\ j.seen => j.noted
    /\ Current(j) => ~ToSend(j.id)
JobsOK ==
    /\ \A j \in jobs : JobOK(j)
    /\ \A j, k \in jobs : j.try = k.try /\ j.mode = k.mode /\ j.id = k.id => j = k

\* A mode that is over has a result for each of its checks.
Reported == \A e \in report : \A id \in e.ids : \E r \in results : r.mode = e.mode /\ r.id = id

\* What is settled or skipped has its record, and at the end in the file, or the
\* result of its mode tells of an error with the file.
Broken(m) == \E e \in report : e.mode = m /\ e.noted
Rec(m, i) == [mode |-> m, url |-> Selected[i].url]
Past(m, i) == m < pos.mode \/ (m = pos.mode /\ (i <= pos.skip \/ phase = "done"))
Records ==
    /\ buffer # {} => OnSites /\ phase # "done" /\ writer = "open"
    /\ Reported
    /\ OnSites =>
         /\ \A m \in DOMAIN Modes, i \in DOMAIN Selected : Past(m, i) => Rec(m, i) \in file \/ Broken(m)
         /\ \A r \in results : r.mode = pos.mode /\ writer = "open" => [mode |-> r.mode, url |-> r.asked] \in file \cup buffer

\* Who holds tokens, and places of a host.
TokensHeld == {p \in Workers \X (1..Global) : p[2] <= wk[p[1]].got}
Holders(h) == {w \in Workers : \E k \in 1..wk[w].at : uniqueBatchHosts(wk[w].batch)[k] = h}
Limited ==
    OnSites =>
      /\ Cardinality(TokensHeld) = limits.tokens /\ limits.tokens <= Global
      /\ \A h \in Hosts : Cardinality(Holders(h)) = limits.host[h] /\ limits.host[h] <= PerHost

\* Observations are of modes that are over.
Observed ==
    /\ \A o \in observed : o.mode \in DOMAIN Modes /\ (o.mode < pos.mode \/ phase = "done")
    /\ CompletedWasCounted

VeriflierInv ==
    /\ Shape /\ Work /\ Phases /\ Accounts /\ ResultsOK /\ JobsOK /\ Records /\ Limited /\ Observed

-----------------------------------------------------------------------------
(* The plan of a mode *)

\* What is known of a program.
ProgramOK ==
    /\ program.name \in {"real", "fixture", "tier"}
    /\ Selected \in Seq(DumpRow) /\ \A i \in DOMAIN Selected : Selected[i].host \in Hosts /\ Selected[i].url \in Nat
    /\ Modes \in Seq(Range(AllModes)) /\ Len(Modes) \in Nat \ {0}
    /\ \A i, k \in DOMAIN Modes : Modes[i] = Modes[k] => i = k
    /\ \A m \in DOMAIN Modes : FirstID[Modes[m]] \in Nat /\ Modes[m] \in Range(AllModes)
    /\ Total \in Nat \ {0} /\ Total <= AtLeast(FixtureURLs, tierTotal(Rate, Minutes))

LEMMA ProgramFacts ==
  ASSUME program \in Programs
  PROVE  ProgramOK
<1>1. /\ program.name \in {"real", "fixture", "tier"} /\ program.modes \in Seq(STRING)
      /\ program.dump \in Seq(DumpRow) /\ program.maxURLs \in Nat /\ KnownModes(AllModes, program.modes)
  BY ProgramsAssumption
<1>2. /\ Selected \in Seq(DumpRow)
      /\ \A k \in DOMAIN Selected : \E i \in DOMAIN program.dump : Selected[k] = program.dump[i]
  BY <1>1, SitesAreRows DEF Selected
<1>3. \A i \in DOMAIN Selected : Selected[i].host \in Hosts /\ Selected[i].url \in Nat
  <2> TAKE k \in DOMAIN Selected
  <2>1. PICK i \in DOMAIN program.dump : Selected[k] = program.dump[i]
    BY <1>2
  <2>2. program.dump[i].host \in Hosts
    BY <2>1 DEF Hosts
  <2>3. Selected[k] \in DumpRow
    BY <1>2
  <2> QED BY <2>1, <2>2, <2>3 DEF DumpRow
<1>4. /\ Modes \in Seq(Range(AllModes)) /\ Len(Modes) \in Nat \ {0}
      /\ \A i, k \in DOMAIN Modes : Modes[i] = Modes[k] => i = k
  BY <1>1, ModesAreKnown DEF Modes
<1>5. \A m \in DOMAIN Modes : FirstID[Modes[m]] \in Nat /\ Modes[m] \in Range(AllModes)
  <2>1. \A m \in DOMAIN Modes : Modes[m] \in Range(AllModes)
    BY <1>4
  <2> QED BY <2>1, ModesAssumption
<1>6. tierTotal(Rate, Minutes) \in Nat \ {0}
  <2>1. Rate * Minutes \in Nat
    BY LimitsAssumption
  <2> QED BY <2>1 DEF tierTotal, AtLeast
<1>7. Total \in Nat \ {0} /\ Total <= AtLeast(FixtureURLs, tierTotal(Rate, Minutes))
  BY <1>6, LimitsAssumption DEF Total, AtLeast
<1> QED BY <1>1, <1>2, <1>3, <1>4, <1>5, <1>7 DEF ProgramOK

\* An ID is for one URL, and where the target counts also of one mode.
LEMMA AsksOnce ==
  ASSUME program \in Programs, NEW m \in DOMAIN Modes, NEW o \in DOMAIN Modes, NEW id, NEW u, NEW v,
         Asks(m, id, u), Asks(o, id, v)
  PROVE  u = v /\ (OnSites \/ m = o)
<1>1. CASE OnSites
  BY <1>1 DEF Asks
<1>2. CASE ~OnSites
  <2>1. ProgramOK
    BY ProgramFacts
  <2>2. m = o
    <3> SUFFICES ASSUME Modes[m] # Modes[o] PROVE FALSE
      BY <2>1 DEF ProgramOK
    <3> PICK a, b, n, c : a = FirstID[Modes[m]] /\ b = FirstID[Modes[o]] /\ n = Total
                          /\ c = AtLeast(FixtureURLs, tierTotal(Rate, Minutes))
      OBVIOUS
    <3>1. a \in Nat /\ b \in Nat /\ n \in Nat /\ n <= c
      BY <2>1 DEF ProgramOK
    <3>2. c \in Nat
      <4>1. Rate * Minutes \in Nat
        BY LimitsAssumption
      <4> QED BY <4>1, LimitsAssumption DEF tierTotal, AtLeast
    <3>3. a + c <= b \/ b + c <= a
      BY <2>1, ModesAssumption DEF ProgramOK
    <3>4. id \in a..(a + (n - 1)) /\ id \in b..(b + (n - 1))
      BY <1>2 DEF Asks, IDsOf
    <3> QED BY <3>1, <3>2, <3>3, <3>4
  <2> QED BY <1>2, <2>2 DEF Asks
<1> QED BY <1>1, <1>2

\* The batches of a mode are good, apart, and on sites leave out what is skipped.
PlanGood(bs, q) ==
    /\ bs \in Seq(Seq(CheckSet))
    /\ \A k \in DOMAIN bs : GoodBatch(bs[k], q.mode)
    /\ \A i, k \in DOMAIN bs : i # k => Apart(bs[i], bs[k])
    /\ OnSites => \A i \in DOMAIN Selected : i > q.skip => \E k \in DOMAIN bs : \E j \in DOMAIN bs[k] : bs[k][j].id = i

\* The checks of a mode, and that none behind the skipped ones is left out.
ChecksOf(checks, m) ==
    /\ checks \in Seq(CheckSet)
    /\ \A i \in DOMAIN checks : Asks(m, checks[i].id, checks[i].url)
    /\ \A i, k \in DOMAIN checks : checks[i].id = checks[k].id => i = k
Complete(checks, skip) == \A i \in DOMAIN Selected : i > skip => \E k \in DOMAIN checks : checks[k].id = i

\* The checks of a fixture mode and of a tier.
LEMMA FixtureFacts ==
  ASSUME program \in Programs, ~OnSites, NEW m \in DOMAIN Modes
  PROVE  ChecksOf(FixtureChecks(FirstID[Modes[m]], Total, 1), m)
<1> PICK a, n : a = FirstID[Modes[m]] /\ n = Total
  OBVIOUS
<1>1. a \in Nat /\ n \in Nat \ {0}
  BY ProgramFacts DEF ProgramOK
<1>2. 1 \in Hosts
  BY DEF Hosts
<1> PICK checks : checks = FixtureChecks(a, n, 1)
  OBVIOUS
<1>3. checks = [i \in 1..n |-> [id |-> a + (i - 1), url |-> a, host |-> 1]]
  BY DEF FixtureChecks
<1>4. \A i \in 1..n : checks[i].id = a + (i - 1) /\ checks[i].url = a /\ checks[i] \in CheckSet
  BY <1>1, <1>2, <1>3 DEF CheckSet
<1>5. \A i \in 1..n : Asks(m, checks[i].id, checks[i].url)
  <2> TAKE i \in 1..n
  <2>1. a + (i - 1) \in a..(a + (n - 1))
    BY <1>1
  <2> QED BY <1>4, <2>1 DEF Asks, IDsOf
<1>6. \A i, k \in 1..n : checks[i].id = checks[k].id => i = k
  BY <1>1, <1>4
<1>7. checks \in Seq(CheckSet) /\ DOMAIN checks = 1..n
  BY <1>1, <1>3, <1>4
<1> QED BY <1>5, <1>6, <1>7 DEF ChecksOf

\* The checks of a mode of a real run.
LEMMA SiteFacts ==
  ASSUME program \in Programs, OnSites, NEW skip \in Nat, NEW m
  PROVE  ChecksOf(runRealURLComparison(Selected, skip), m) /\ Complete(runRealURLComparison(Selected, skip), skip)
<1>1. ProgramOK
  BY ProgramFacts
<1> PICK n, all, checks : n = Len(Selected) /\ all = Numbered(Selected) /\ checks = runRealURLComparison(Selected, skip)
  OBVIOUS
<1>2. n \in Nat /\ DOMAIN Selected = 1..n
  BY <1>1 DEF ProgramOK
<1>3. all = [i \in 1..n |-> [id |-> i, url |-> Selected[i].url, host |-> Selected[i].host]]
  BY <1>2 DEF Numbered
<1>4. \A i \in 1..n : all[i].id = i /\ all[i].url = Selected[i].url /\ all[i] \in CheckSet
  <2> TAKE i \in 1..n
  <2>1. Selected[i].host \in Hosts /\ Selected[i].url \in Nat /\ i \in Nat
    BY <1>1, <1>2 DEF ProgramOK
  <2> PICK h \in Hosts, u \in Nat : h = Selected[i].host /\ u = Selected[i].url
    BY <2>1
  <2>2. all[i] = [id |-> i, url |-> u, host |-> h]
    BY <1>3
  <2> QED BY <2>1, <2>2 DEF CheckSet
<1>5. all \in Seq(CheckSet) /\ Len(all) = n
  BY <1>2, <1>3, <1>4
<1>6. CASE skip >= n
  <2>1. checks = <<>>
    BY <1>6 DEF runRealURLComparison
  <2> QED BY <2>1, <1>2, <1>6 DEF ChecksOf, Complete
<1>7. CASE ~(skip >= n)
  <2>1. checks = SubSeq(all, skip + 1, n)
    BY <1>7 DEF runRealURLComparison
  <2> PICK a \in 1..Len(all) : a = skip + 1
    BY <1>2, <1>5, <1>7
  <2> PICK b \in a..Len(all) : b = n
    BY <1>2, <1>5, <1>7
  <2>2. checks = SubSeq(all, a, b)
    BY <2>1
  <2>3. checks \in Seq(CheckSet) /\ Len(checks) = b - a + 1 /\ \A i \in 1..(b - a + 1) : checks[i] = all[a + i - 1]
    BY <2>2, <1>5, StretchOf
  <2>4. DOMAIN checks = 1..(n - skip)
    BY <2>3, <1>2
  <2>5. \A i \in 1..(n - skip) : i + skip \in 1..n /\ checks[i] = all[i + skip]
    <3> TAKE i \in 1..(n - skip)
    <3>1. i \in 1..(b - a + 1) /\ a + i - 1 = i + skip
      BY <1>2
    <3> QED BY <3>1, <2>3, <1>2
  <2>6. \A i \in 1..(n - skip) : checks[i].id = i + skip /\ checks[i].url = Selected[i + skip].url /\ i + skip \in 1..n
    BY <2>5, <1>4
  <2>7. \A i \in 1..n : i > skip => i - skip \in 1..(n - skip) /\ checks[i - skip].id = i
    <3> SUFFICES ASSUME NEW i \in 1..n, i > skip PROVE i - skip \in 1..(n - skip) /\ checks[i - skip].id = i
      OBVIOUS
    <3>1. i - skip \in 1..(n - skip) /\ (i - skip) + skip = i
      BY <1>2
    <3> QED BY <3>1, <2>6
  <2>8. \A i, k \in 1..(n - skip) : checks[i].id = checks[k].id => i = k
    BY <2>6
  <2>9. ChecksOf(checks, m)
    <3>1. \A i \in 1..(n - skip) : checks[i].id \in 1..n /\ checks[i].url = Selected[checks[i].id].url
      <4> TAKE i \in 1..(n - skip)
      <4> PICK x : x = i + skip
        OBVIOUS
      <4>1. checks[i].id = x /\ checks[i].url = Selected[x].url /\ x \in 1..n
        BY <2>6
      <4> QED BY <4>1
    <3>2. \A i \in 1..(n - skip) : Asks(m, checks[i].id, checks[i].url)
      BY <3>1, <1>2 DEF Asks
    <3> QED BY <2>3, <2>4, <2>8, <3>2 DEF ChecksOf
  <2>10. Complete(checks, skip)
    BY <2>4, <2>7, <1>2 DEF Complete
  <2> QED BY <2>9, <2>10
<1> QED BY <1>6, <1>7

LEMMA PlanFacts ==
  ASSUME program \in Programs, NEW q \in Places
  PROVE  PlanGood(Batches(program, q), q)
<1>1. ProgramOK
  BY ProgramFacts
<1>2. q.mode \in DOMAIN Modes /\ q.skip \in Nat
  BY <1>1 DEF Places, ProgramOK
<1>3. ASSUME NEW checks \in Seq(CheckSet), NEW size \in Nat, NEW apart \in BOOLEAN, ChecksOf(checks, q.mode),
             OnSites => apart /\ AtLeast(size, 1) <= Global /\ Complete(checks, q.skip)
      PROVE  PlanGood(Cut(checks, size, apart), q)
  <2> PICK bs : bs = Cut(checks, size, apart)
    OBVIOUS
  <2>1. CutIs(bs, CheckSet, checks, size, apart)
    BY <1>3, CutOK DEF ChecksOf
  <2>2. bs \in Seq(Seq(CheckSet)) /\ \A i, k \in DOMAIN bs : i # k => Apart(bs[i], bs[k])
    BY <2>1 DEF CutIs
  <2>3. ASSUME NEW k \in DOMAIN bs PROVE GoodBatch(bs[k], q.mode)
    <3>1. bs[k] \in Seq(CheckSet)
      BY <2>2
    <3>2. /\ bs[k] # <<>> /\ Len(bs[k]) <= AtLeast(size, 1)
          /\ \A i \in DOMAIN bs[k] : \E j \in DOMAIN checks : bs[k][i] = checks[j]
          /\ \A i, j \in DOMAIN bs[k] : bs[k][i].id = bs[k][j].id => i = j
          /\ apart => \A i, j \in DOMAIN bs[k] : bs[k][i].host = bs[k][j].host => i = j
      BY <2>1 DEF CutIs
    <3>3. \A i \in DOMAIN bs[k] : Asks(q.mode, bs[k][i].id, bs[k][i].url)
      BY <3>2, <1>3 DEF ChecksOf
    <3>4. OnSites => Len(bs[k]) <= Global
      <4>1. AtLeast(size, 1) \in Nat /\ Len(bs[k]) \in Nat /\ Global \in Nat
        BY <3>1, LimitsAssumption DEF AtLeast
      <4>2. Len(bs[k]) <= AtLeast(size, 1) /\ (OnSites => AtLeast(size, 1) <= Global)
        BY <3>2, <1>3
      <4> HIDE <1>3, <3>2
      <4> QED BY <4>1, <4>2
    <3> QED BY <3>1, <3>2, <3>3, <3>4, <1>3 DEF GoodBatch
  <2>4. OnSites => \A i \in DOMAIN Selected : i > q.skip => \E k \in DOMAIN bs : \E j \in DOMAIN bs[k] : bs[k][j].id = i
    <3>1. \A i \in DOMAIN checks : \E k \in DOMAIN bs : \E j \in DOMAIN bs[k] : bs[k][j] = checks[i]
      BY <2>1 DEF CutIs
    <3>2. OnSites => Complete(checks, q.skip)
      BY <1>3
    <3> QED BY <3>1, <3>2 DEF Complete
  <2> QED BY <2>2, <2>3, <2>4 DEF PlanGood
<1>4. CASE OnSites
  <2> PICK checks, size : checks = runRealURLComparison(Selected, q.skip) /\ size = AtMost(BatchSize, Global)
    OBVIOUS
  <2>1. size \in Nat /\ AtLeast(size, 1) <= Global
    BY LimitsAssumption DEF AtMost, AtLeast
  <2>2. ChecksOf(checks, q.mode) /\ Complete(checks, q.skip) /\ checks \in Seq(CheckSet)
    BY <1>2, <1>4, SiteFacts DEF ChecksOf
  <2>3. Batches(program, q) = Cut(checks, size, TRUE)
    BY <1>4 DEF Batches, OnSites, makeHostAwareBatches
  <2>4. PlanGood(Cut(checks, size, TRUE), q)
    BY <1>3, <2>1, <2>2
  <2> QED BY <2>3, <2>4
<1>5. CASE ~OnSites
  <2> PICK checks : checks = FixtureChecks(FirstID[Modes[q.mode]], Total, 1)
    OBVIOUS
  <2>1. ChecksOf(checks, q.mode) /\ checks \in Seq(CheckSet)
    BY <1>2, <1>5, FixtureFacts DEF ChecksOf
  <2>2. Batches(program, q) = Cut(checks, BatchSize, FALSE)
    BY <1>1, <1>5 DEF Batches, OnSites, ProgramOK, makeBatches, buildBatches, Total
  <2>3. PlanGood(Cut(checks, BatchSize, FALSE), q)
    BY <1>3, <2>1, <1>5, LimitsAssumption
  <2> QED BY <2>2, <2>3
<1> QED BY <1>4, <1>5

-----------------------------------------------------------------------------
(* A mode starts *)

\* No worker, limit or outcome is left of what was before.
AtStart ==
    /\ program \in Programs /\ pos \in Places
    /\ phase \in {"start", "run"} /\ (phase = "start" => program.name = "tier")
    /\ plan = Batches(program, pos) /\ queue = plan
    /\ wk = [w \in Workers |-> Idle] /\ outcomes = <<>> /\ limits = NoLimits /\ rows = {}

\* The part of the invariant that this gives, and that every check waits.
Started ==
    /\ Work /\ Limited
    /\ queue \in Seq(Seq(CheckSet)) /\ outcomes \in Seq(SUBSET ResultSet)
    /\ wk \in [Workers -> WorkerSet] /\ limits \in [host : [Hosts -> Nat], tokens : Nat, mu : Nat]
    /\ \A c \in Checks : Waiting(c.id)
    /\ \A c \in Checks : c \in CheckSet
    /\ Outs = results
    /\ \A w \in Workers : wk[w] = Idle

LEMMA StartedOK == AtStart => Started
<1> SUFFICES ASSUME AtStart PROVE Started
  OBVIOUS
<1>1. program \in Programs /\ pos \in Places /\ plan = Batches(program, pos) /\ queue = plan
  BY DEF AtStart
<1>2. PlanGood(plan, pos)
  BY <1>1, PlanFacts
<1>3. plan \in Seq(Seq(CheckSet)) /\ \A k \in DOMAIN plan : plan[k] \in Seq(CheckSet)
  BY <1>2 DEF PlanGood
<1>4. \A k \in DOMAIN plan : \A i \in DOMAIN plan[k] : plan[k][i] \in Checks /\ plan[k][i] \in CheckSet
  BY <1>3 DEF Checks, Range
<1>5. \A c \in Checks : \E k \in DOMAIN plan : \E i \in DOMAIN plan[k] : c = plan[k][i]
  BY DEF Checks, Range
<1>6. \A k \in DOMAIN queue : BatchOK(queue[k])
  BY <1>1, <1>2, <1>4 DEF BatchOK, PlanGood
<1>7. \A w \in Workers : wk[w] = Idle /\ Ids(wk[w].batch) = {}
  BY DEF AtStart, Idle, Ids
<1>8. Work
  <2>1. \A w \in Workers : wk[w].pc = "idle"
    BY <1>7 DEF Idle
  <2>2. \A w \in Workers : WorkerOK(w)
    BY <2>1, <1>7 DEF WorkerOK
  <2>3. \A w \in Workers : \A b : Apart(wk[w].batch, b)
    BY <1>7 DEF Apart
  <2>4. \A i, k \in DOMAIN queue : i # k => Apart(queue[i], queue[k])
    BY <1>1, <1>2 DEF PlanGood
  <2> QED BY <1>6, <2>2, <2>3, <2>4 DEF Work
<1>9. Limited
  <2>1. TokensHeld = {}
    BY <1>7, LimitsAssumption DEF TokensHeld, Idle
  <2>2. \A h \in Hosts : Holders(h) = {}
    BY <1>7 DEF Holders, Idle
  <2>3. limits.tokens = 0 /\ \A h \in Hosts : limits.host[h] = 0
    BY DEF AtStart, NoLimits
  <2> QED BY <2>1, <2>2, <2>3, FS_EmptySet, LimitsAssumption DEF Limited
<1>10. outcomes = <<>> /\ Outs = results
  BY DEF AtStart, Outs
<1>11. Idle \in WorkerSet
  BY DEF Idle, WorkerSet, Pcs
<1>12. wk \in [Workers -> WorkerSet] /\ limits \in [host : [Hosts -> Nat], tokens : Nat, mu : Nat]
  BY <1>11 DEF AtStart, NoLimits
<1>13. \A c \in Checks : Waiting(c.id) /\ c \in CheckSet
  BY <1>1, <1>4, <1>5 DEF Waiting, Ids
<1> QED BY <1>1, <1>3, <1>7, <1>8, <1>9, <1>10, <1>12, <1>13 DEF Started

\* The invariant holds when the program starts.
LEMMA VeriflierInit == Init => VeriflierInv
<1> SUFFICES ASSUME Init PROVE VeriflierInv
  OBVIOUS
<1>1. ProgramOK
  BY ProgramFacts DEF Init
<1>2. pos \in Places /\ pos.mode = 1 /\ pos.skip = 0 /\ pos.try = 1
  BY <1>1 DEF Init, Places, ProgramOK
<1>3. AtStart
  BY <1>2 DEF Init, AtStart, FirstPhase
<1>4. Started
  BY <1>3, StartedOK
<1>5. /\ jobs = {} /\ callbacks = {} /\ results = {} /\ buffer = {} /\ file = {} /\ observed = {} /\ rows = {}
      /\ phase # "done" /\ phase # "drain" /\ outcomes = <<>> /\ writer = "open" /\ sampler = "on" /\ report = {}
  BY DEF Init, FirstPhase
<1>6. Shape
  BY <1>3, <1>4, <1>5, FS_EmptySet DEF Shape, PlanIs, Started, AtStart
<1>7. Phases
  BY <1>3, <1>5 DEF Phases, AtStart
<1>8. Accounts
  BY <1>4, <1>5 DEF Accounts, Started
<1>9. ResultsOK /\ JobsOK
  BY <1>4, <1>5 DEF ResultsOK, JobsOK, Started, Idle
<1>10. Records
  BY <1>2, <1>1, <1>5 DEF Records, Reported, Past, ProgramOK
<1>11. Observed
  BY <1>5 DEF Observed, CompletedWasCounted
<1> QED BY <1>4, <1>6, <1>7, <1>8, <1>9, <1>10, <1>11 DEF VeriflierInv, Started

-----------------------------------------------------------------------------
(* What a step leaves as it is *)

\* The step is within a mode.
Within == UNCHANGED <<program, pos, plan>> /\ phase # "done" /\ phase' # "done"

\* Within a mode the checks and what is asked for them stay.
LEMMA SameProgram ==
  ASSUME program' = program
  PROVE  /\ Modes' = Modes /\ Selected' = Selected /\ (OnSites' <=> OnSites) /\ Places' = Places
         /\ \A m, id, u : Asks(m, id, u)' <=> Asks(m, id, u)
         /\ \A b, m : GoodBatch(b, m)' <=> GoodBatch(b, m)
<1>1. Modes' = Modes /\ Selected' = Selected /\ (OnSites' <=> OnSites)
  BY DEF Modes, Selected, OnSites
<1>2. Places' = Places
  BY <1>1 DEF Places
<1>3. \A m : IDsOf(m)' = IDsOf(m)
  BY <1>1 DEF IDsOf, Total
<1>4. \A m, id, u : Asks(m, id, u)' <=> Asks(m, id, u)
  BY <1>1, <1>3 DEF Asks
<1>5. \A b, m : GoodBatch(b, m)' <=> GoodBatch(b, m)
  BY <1>1, <1>4 DEF GoodBatch
<1> QED BY <1>1, <1>2, <1>4, <1>5

LEMMA SameMode ==
  ASSUME Within
  PROVE  /\ Modes' = Modes /\ Selected' = Selected /\ (OnSites' <=> OnSites) /\ Places' = Places
         /\ Checks' = Checks /\ Ep' = Ep /\ (CountsLater' <=> CountsLater)
         /\ \A m, id, u : Asks(m, id, u)' <=> Asks(m, id, u)
         /\ \A b : BatchOK(b)' <=> BatchOK(b)
         /\ \A r : Current(r)' <=> Current(r)
         /\ \A m, i : Past(m, i)' <=> Past(m, i)
         /\ \A m, i : Rec(m, i)' = Rec(m, i)
<1>1. program' = program /\ pos' = pos /\ plan' = plan
  BY DEF Within
<1>2. /\ Modes' = Modes /\ Selected' = Selected /\ (OnSites' <=> OnSites) /\ Places' = Places
      /\ \A m, id, u : Asks(m, id, u)' <=> Asks(m, id, u)
      /\ \A b, m : GoodBatch(b, m)' <=> GoodBatch(b, m)
  BY <1>1, SameProgram
<1>3. Checks' = Checks /\ Ep' = Ep
  BY <1>1, <1>2 DEF Checks, Ep
<1>4. CountsLater' <=> CountsLater
  BY <1>1, <1>3 DEF CountsLater, Within
<1>5. \A b : BatchOK(b)' <=> BatchOK(b)
  BY <1>1, <1>2, <1>3 DEF BatchOK
<1>6. \A r : Current(r)' <=> Current(r)
  BY <1>1 DEF Current
<1>7. \A m, i : Past(m, i)' <=> Past(m, i)
  BY <1>1 DEF Past, Within
<1>8. \A m, i : Rec(m, i)' = Rec(m, i)
  BY <1>2 DEF Rec
<1> QED BY <1>2, <1>3, <1>4, <1>5, <1>6, <1>7, <1>8

\* Nothing is settled, and what waits still does.
LEMMA AccountsKeep ==
  ASSUME Accounts, Within, Outs' = Outs, \A id : Waiting(id)' <=> Waiting(id)
  PROVE  Accounts'
<1>1. \A id : Settled(id)' <=> Settled(id)
  BY SameMode DEF Settled
<1>2. CountsLater' \/ \A c \in Checks' : Waiting(c.id)' \/ Settled(c.id)'
  BY SameMode, <1>1 DEF Accounts
<1>3. \A r \in Outs' : Current(r)' => ~Waiting(r.id)'
  BY SameMode DEF Accounts
<1>4. program'.name # "tier" => \A r, x \in Outs' : r.mode = x.mode /\ r.id = x.id => r.kind = x.kind
  BY DEF Accounts, Within
<1> QED BY <1>2, <1>3, <1>4 DEF Accounts

\* Jobs do not go away.
JobsStay == \A m, id : HasJob(m, id) => HasJob(m, id)'

LEMMA KnownStays ==
  ASSUME program' = program, JobsStay, NEW c, Known(c)
  PROVE  Known(c)'
BY SameProgram DEF Known, Left, JobsStay

LEMMA ResultStays ==
  ASSUME program' = program, pos' = pos, JobsStay, NEW r, ResultOK(r)
  PROVE  ResultOK(r)'
BY SameProgram DEF ResultOK, Left, JobsStay

LEMMA ResultsKeep ==
  ASSUME program' = program, pos' = pos, JobsStay,
         \A r \in Outs' : ResultOK(r) \/ ResultOK(r)',
         \A c \in callbacks' \cup rows' : Known(c) \/ Known(c)',
         \A w \in Workers : \A c \in wk'[w].read : Known(c)
  PROVE  ResultsOK'
<1>1. \A r \in Outs' : ResultOK(r)'
  BY ResultStays
<1>2. \A c \in callbacks' \cup rows' : Known(c)'
  BY KnownStays
<1>3. \A w \in Workers : \A c \in wk'[w].read : Known(c)'
  BY KnownStays
<1> QED BY <1>1, <1>2, <1>3 DEF ResultsOK

\* The jobs are as they were, and no check is to be sent that was not.
LEMMA JobsKeep ==
  ASSUME JobsOK, Within, jobs' = jobs, \A id : ToSend(id)' => ToSend(id)
  PROVE  JobsOK' /\ JobsStay
<1>1. \A j \in jobs' : JobOK(j)'
  BY SameMode DEF JobsOK, JobOK, Within
<1>2. \A j, k \in jobs' : j.try = k.try /\ j.mode = k.mode /\ j.id = k.id => j = k
  BY DEF JobsOK
<1> QED BY <1>1, <1>2 DEF JobsOK, JobsStay, HasJob

\* The file keeps its records, and a writer that is open the ones it has.
LEMMA RecordsKeep ==
  ASSUME Records, Within, report' = report, file \subseteq file', results \subseteq results', OnSites => results' = results,
         writer' = "open" => writer = "open" /\ file \cup buffer \subseteq file' \cup buffer',
         buffer' # {} => buffer # {} /\ writer' = writer
  PROVE  Records'
<1>0. \A m : Broken(m)' <=> Broken(m)
  BY DEF Broken
<1>1. OnSites => \A m \in DOMAIN Modes, i \in DOMAIN Selected : Past(m, i)' => Rec(m, i)' \in file' \/ Broken(m)'
  BY <1>0, SameMode DEF Records
<1>2. OnSites => \A r \in results' : r.mode = pos'.mode /\ writer' = "open" => [mode |-> r.mode, url |-> r.asked] \in file' \cup buffer'
  BY DEF Records, Within
<1>3. buffer' # {} => OnSites' /\ phase' # "done" /\ writer' = "open"
  BY SameMode DEF Records, Within
<1>4. Reported'
  BY DEF Records, Reported
<1> QED BY <1>1, <1>2, <1>3, <1>4, SameMode DEF Records

\* The limits depend on the batches, places and tokens of the workers.
LEMMA LimitedKeep ==
  ASSUME Limited, Within, limits'.tokens = limits.tokens, limits'.host = limits.host,
         \A w \in Workers : wk'[w].batch = wk[w].batch /\ wk'[w].at = wk[w].at /\ wk'[w].got = wk[w].got
  PROVE  Limited'
<1>1. TokensHeld' = TokensHeld
  BY DEF TokensHeld
<1>2. \A h \in Hosts : Holders(h)' = Holders(h)
  BY DEF Holders
<1> QED BY <1>1, <1>2, SameMode DEF Limited

\* Results of the mode that is under way are not yet compared with anything.
LEMMA ObservedKeep ==
  ASSUME Observed, Within, observed' = observed,
         \A r : r.mode < pos.mode => (r \in results <=> r \in results')
  PROVE  Observed'
<1>1. \A o \in observed : o.mode \in DOMAIN Modes /\ o.mode < pos.mode
  BY DEF Observed, Within
<1>2. \A o \in observed : Of(o.mode, "completed")' = Of(o.mode, "completed")
  <2> TAKE o \in observed
  <2>1. \A r : r.mode = o.mode => (r \in results <=> r \in results')
    BY <1>1
  <2>2. pos' = pos
    BY DEF Within
  <2> QED BY <2>1, <2>2 DEF Of
<1>3. CompletedWasCounted'
  BY <1>2 DEF Observed, CompletedWasCounted, Within
<1> QED BY <1>1, <1>3, SameMode DEF Observed, Within

-----------------------------------------------------------------------------
(* A worker goes on with its batch *)

\* A worker steps, and the others do not.
Alone(w) == wk' \in [Workers -> WorkerSet] /\ \A v \in Workers : v # w => wk'[v] = wk[v]

\* What is with the workers stays in order when one keeps its batch or drops it.
LEMMA WorkKeeps ==
  ASSUME Work, Within, NEW w \in Workers, Alone(w), queue' = queue, phase' = phase,
         wk'[w].batch = wk[w].batch \/ wk'[w].batch = <<>>, WorkerOK(w)'
  PROVE  Work'
<1>1. \A v \in Workers : WorkerOK(v)'
  <2> TAKE v \in Workers
  <2>1. CASE v = w
    BY <2>1
  <2>2. CASE v # w
    <3>1. wk'[v] = wk[v] /\ WorkerOK(v)
      BY <2>2 DEF Alone, Work
    <3>3. BatchOK(wk[v].batch)' <=> BatchOK(wk[v].batch)
      BY <3>1, SameMode
    <3> QED BY <3>1, <3>3, SameMode DEF WorkerOK
  <2> QED BY <2>1, <2>2
<1>2. \A v \in Workers : wk'[v].batch = wk[v].batch \/ Ids(wk'[v].batch) = {}
  <2>1. Ids(<<>>) = {}
    BY DEF Ids
  <2> QED BY <2>1 DEF Alone
<1>3. \A k \in DOMAIN queue' : BatchOK(queue[k])'
  BY SameMode DEF Work
<1>4. \A i, k \in DOMAIN queue' : i # k => Apart(queue'[i], queue'[k])
  BY DEF Work
<1>5. \A v \in Workers, k \in DOMAIN queue' : Apart(wk'[v].batch, queue'[k])
  BY <1>2 DEF Work, Apart
<1>6. \A u, v \in Workers : u # v => Apart(wk'[u].batch, wk'[v].batch)
  BY <1>2 DEF Work, Apart
<1> QED BY <1>1, <1>3, <1>4, <1>5, <1>6 DEF Work

\* While it runs a mode is in no other phase.
LEMMA PhasesKeep ==
  ASSUME Phases, Within, phase' = "run", OnSites \/ outcomes' = outcomes, observed' = observed
  PROVE  Phases'
<1>1. OnSites' <=> OnSites
  BY SameMode
<1> QED BY <1>1 DEF Phases, Within

\* A worker that is not idle is in the phase that runs.
LEMMA AtWork ==
  ASSUME VeriflierInv, NEW w \in Workers, wk[w].pc # "idle"
  PROVE  /\ phase = "run" /\ WorkerOK(w) /\ BatchOK(wk[w].batch) /\ wk[w] \in WorkerSet
         /\ wk \in [Workers -> WorkerSet] /\ limits \in [host : [Hosts -> Nat], tokens : Nat, mu : Nat]
         /\ program \in Programs
<1>1. WorkerOK(w)
  BY DEF VeriflierInv, Work
<1>2. wk \in [Workers -> WorkerSet] /\ limits \in [host : [Hosts -> Nat], tokens : Nat, mu : Nat] /\ program \in Programs
  BY DEF VeriflierInv, Shape
<1> QED BY <1>1, <1>2 DEF WorkerOK

\* A worker keeps its batch and takes what it needs, sends or reads.
MovesOn(w) ==
    /\ UNCHANGED <<program, pos, phase, plan, queue, outcomes, rows, results, buffer, file, observed, writer, sampler, report>>
    /\ callbacks' \subseteq callbacks
    /\ Alone(w) /\ limits' \in [host : [Hosts -> Nat], tokens : Nat, mu : Nat]
    /\ wk[w].pc # "idle" /\ wk'[w].batch = wk[w].batch
    /\ WorkerOK(w)'
    /\ \A c \in wk'[w].read : Known(c)
    /\ Limited'

LEMMA MovesOnOK ==
  ASSUME VeriflierInv, NEW w \in Workers, MovesOn(w),
         JobsOK', JobsStay, jobs' \subseteq JobSet, IsFiniteSet(jobs')
  PROVE  VeriflierInv'
<1>1. phase = "run" /\ program \in Programs
  BY AtWork DEF MovesOn
<1>2. Within
  BY <1>1 DEF MovesOn, Within
<1>3. /\ Shape /\ Work /\ Phases /\ Accounts /\ ResultsOK /\ JobsOK /\ Records /\ Observed
  BY DEF VeriflierInv
<1>4. \A v \in Workers : wk'[v].batch = wk[v].batch
  BY DEF MovesOn, Alone
<1>5. Shape'
  <2>1. Batches(program, pos)' = Batches(program, pos)
    BY <1>2 DEF Batches, Within, Selected, Modes
  <2> QED BY <1>2, <1>3, <2>1, SameMode DEF Shape, PlanIs, MovesOn, Alone, Within
<1>6. Work'
  BY <1>2, <1>3, WorkKeeps DEF MovesOn
<1>7. Phases'
  BY <1>1, <1>2, <1>3, PhasesKeep DEF MovesOn
<1>8. Outs' = Outs
  BY DEF Outs, MovesOn
<1>9. Accounts'
  <2>1. \A id : Waiting(id)' <=> Waiting(id)
    BY <1>4 DEF Waiting, MovesOn
  <2> QED BY <1>2, <1>3, <1>8, <2>1, AccountsKeep
<1>10. ResultsOK'
  <2>1. \A v \in Workers : \A c \in wk'[v].read : Known(c)
    BY <1>3 DEF MovesOn, Alone, ResultsOK
  <2>2. \A c \in callbacks' \cup rows' : Known(c)
    BY <1>3 DEF MovesOn, ResultsOK
  <2>3. \A r \in Outs' : ResultOK(r)
    BY <1>3, <1>8 DEF ResultsOK
  <2> QED BY <1>2, <2>1, <2>2, <2>3, ResultsKeep DEF Within
<1>11. Records'
  BY <1>2, <1>3, RecordsKeep DEF MovesOn
<1>12. Observed'
  BY <1>2, <1>3, ObservedKeep DEF MovesOn
<1> QED BY <1>5, <1>6, <1>7, <1>9, <1>10, <1>11, <1>12 DEF VeriflierInv, MovesOn

\* Nothing is sent.
GoesOn(w) == MovesOn(w) /\ jobs' = jobs /\ (Unsent(w)' => Unsent(w))

LEMMA GoesOnOK ==
  ASSUME VeriflierInv, NEW w \in Workers, GoesOn(w)
  PROVE  VeriflierInv'
<1>1. Within
  BY AtWork DEF GoesOn, MovesOn, Within
<1>2. \A v \in Workers : (Unsent(v)' => Unsent(v)) /\ wk'[v].batch = wk[v].batch
  BY DEF GoesOn, MovesOn, Alone, Unsent
<1>3. \A id : ToSend(id)' => ToSend(id)
  BY <1>2 DEF ToSend, GoesOn, MovesOn
<1>4. JobsOK' /\ JobsStay
  BY <1>1, <1>3, JobsKeep DEF GoesOn, VeriflierInv
<1>5. jobs' \subseteq JobSet /\ IsFiniteSet(jobs')
  BY DEF GoesOn, VeriflierInv, Shape
<1> QED BY <1>4, <1>5, MovesOnOK DEF GoesOn

\* Hosts and workers are numbers.
LEMMA HostsAreNumbers == Hosts \subseteq Nat
<1> SUFFICES ASSUME NEW h \in Hosts PROVE h \in Nat
  OBVIOUS
<1>1. CASE h = 1
  BY <1>1
<1>2. CASE h # 1
  <2>1. PICK p \in Programs : h \in {p.dump[i].host : i \in DOMAIN p.dump}
    BY <1>2 DEF Hosts
  <2>2. PICK i \in DOMAIN p.dump : h = p.dump[i].host
    BY <2>1
  <2>3. p.dump \in Seq(DumpRow)
    BY ProgramsAssumption
  <2>4. p.dump[i] \in DumpRow
    BY <2>2, <2>3
  <2> QED BY <2>2, <2>4 DEF DumpRow
<1> QED BY <1>1, <1>2

LEMMA WorkersFinite ==
  /\ Workers \subseteq Nat \ {0} /\ IsFiniteSet(Workers) /\ IsFiniteSet(Workers \X (1..Global))
<1>1. Concurrency \div AtLeast(BatchSize, 1) \in Nat
  <2> PICK a, b : a = Concurrency /\ b = AtLeast(BatchSize, 1)
    OBVIOUS
  <2>1. a \in Nat /\ b \in Nat /\ b >= 1
    BY LimitsAssumption DEF AtLeast
  <2>2. a \div b \in Nat
    BY <2>1
  <2> QED BY <2>2
<1>2. AtLeast(Global, inFlightBatches(Concurrency, BatchSize)) \in Nat
  BY <1>1, LimitsAssumption DEF inFlightBatches, AtLeast
<1>3. IsFiniteSet(Workers) /\ IsFiniteSet(1..Global)
  BY <1>2, FS_Interval, LimitsAssumption DEF Workers
<1>4. IsFiniteSet(Workers \X (1..Global))
  BY <1>3, FS_Product
<1> QED BY <1>2, <1>3, <1>4 DEF Workers

\* The hosts of a batch, each once.
HostList(hs, b) ==
    /\ hs \in Seq(Hosts) /\ Len(hs) \in Nat
    /\ \A i, k \in 1..Len(hs) : hs[i] = hs[k] => i = k
    /\ \A k \in 1..Len(hs) : hs[k] \in HostsOf(b)
    /\ \A x \in HostsOf(b) : x \in Hosts /\ \E k \in 1..Len(hs) : hs[k] = x
    /\ b # <<>> => Len(hs) > 0

LEMMA HostLists ==
  ASSUME NEW b \in Seq(CheckSet)
  PROVE  HostList(uniqueBatchHosts(b), b)
<1> PICK S, n, hs : S = HostsOf(b) /\ n = Cardinality(HostsOf(b)) /\ hs = uniqueBatchHosts(b)
  OBVIOUS
<1>1. \A i \in DOMAIN b : b[i].host \in Hosts /\ b[i].host \in Nat
  <2> TAKE i \in DOMAIN b
  <2>1. b[i] \in CheckSet
    OBVIOUS
  <2> QED BY <2>1, HostsAreNumbers DEF CheckSet
<1>2. S \subseteq Nat /\ S \subseteq Hosts
  BY <1>1 DEF HostsOf
<1>3. IsFiniteSet(S)
  <2> DEFINE f == [i \in DOMAIN b |-> b[i].host]
  <2>1. f \in Surjection(DOMAIN b, S)
    BY DEF Surjection, HostsOf
  <2>2. IsFiniteSet(DOMAIN b)
    <3>1. DOMAIN b = 1..Len(b) /\ Len(b) \in Nat
      OBVIOUS
    <3> QED BY <3>1, FS_Interval
  <2> QED BY <2>1, <2>2, FS_Surjection
<1>4. /\ hs \in Seq(S) /\ Len(hs) = n /\ n \in Nat
      /\ \A x \in S : \E k \in 1..n : hs[k] = x
      /\ \A i, k \in 1..n : i < k => hs[i] < hs[k]
  BY <1>2, <1>3, AscendingLists DEF uniqueBatchHosts
<1>5. \A k \in 1..n : hs[k] \in S /\ hs[k] \in Nat
  BY <1>2, <1>4
<1>6. \A i, k \in 1..n : hs[i] = hs[k] => i = k
  <2> SUFFICES ASSUME NEW i \in 1..n, NEW k \in 1..n, hs[i] = hs[k], i # k PROVE FALSE
    OBVIOUS
  <2>1. hs[i] < hs[k] \/ hs[k] < hs[i]
    BY <1>4
  <2> QED BY <2>1, <1>5
<1>7. hs \in Seq(Hosts)
  BY <1>2, <1>4
<1>8. b # <<>> => n > 0
  <2> SUFFICES ASSUME b # <<>> PROVE n > 0
    OBVIOUS
  <2>1. b[1].host \in S
    BY DEF HostsOf
  <2> QED BY <2>1, <1>4
<1> QED BY <1>2, <1>4, <1>5, <1>6, <1>7, <1>8 DEF HostList

LEMMA HeldFinite ==
  IsFiniteSet(TokensHeld) /\ \A h : IsFiniteSet(Holders(h))
<1>1. TokensHeld \in SUBSET (Workers \X (1..Global))
  BY DEF TokensHeld
<1>2. \A h : Holders(h) \in SUBSET Workers
  BY DEF Holders
<1> QED BY <1>1, <1>2, WorkersFinite, FS_Subset

\* What a worker that is not idle can rely on.
LEMMA Batch ==
  ASSUME NEW w \in Workers, BatchOK(wk[w].batch), wk[w] \in WorkerSet
  PROVE  /\ wk[w].batch \in Seq(CheckSet) /\ wk[w].batch # <<>> /\ Len(wk[w].batch) \in Nat \ {0}
         /\ HostList(uniqueBatchHosts(wk[w].batch), wk[w].batch)
         /\ OnSites => Len(wk[w].batch) <= Global
         /\ wk[w].at \in Nat /\ wk[w].got \in Nat
<1>1. wk[w].batch \in Seq(CheckSet) /\ wk[w].batch # <<>>
  BY DEF BatchOK, GoodBatch
<1> QED BY <1>1, HostLists DEF WorkerSet, BatchOK, GoodBatch

\* A worker moves on to its next place.
Advances(x, y, q) == y = [x EXCEPT !.at = @ + 1, !.pc = q]

LEMMA Advanced ==
  ASSUME NEW x \in WorkerSet, NEW q \in Pcs, NEW y, Advances(x, y, q)
  PROVE  y.pc = q /\ y.at = x.at + 1 /\ y.got = x.got /\ y.batch = x.batch /\ y.read = x.read /\ y \in WorkerSet
<1> PICK z, n : z = [x EXCEPT !.at = n] /\ n = x.at + 1
  OBVIOUS
<1>1. n \in Nat
  BY DEF WorkerSet
<1>2. z \in WorkerSet /\ z.at = n /\ z.got = x.got /\ z.batch = x.batch /\ z.read = x.read
  BY <1>1 DEF WorkerSet
<1>3. y = [z EXCEPT !.pc = q]
  BY DEF Advances
<1>4. y \in WorkerSet /\ y.pc = q /\ y.at = z.at /\ y.got = z.got /\ y.batch = z.batch /\ y.read = z.read
  BY <1>2, <1>3 DEF WorkerSet
<1> QED BY <1>2, <1>4

\* A place more of a host.
TakesPlace(l, m, h) == m = [l EXCEPT !.host[h] = @ + 1]

LEMMA PlaceTaken ==
  ASSUME NEW H, NEW l \in [host : [H -> Nat], tokens : Nat, mu : Nat], NEW h \in H,
         NEW m, TakesPlace(l, m, h)
  PROVE  /\ m \in [host : [H -> Nat], tokens : Nat, mu : Nat] /\ m.tokens = l.tokens
         /\ m.host[h] = l.host[h] + 1 /\ l.host[h] \in Nat
         /\ \A x \in H : x # h => m.host[x] = l.host[x]
<1> PICK f : f = [l.host EXCEPT ![h] = @ + 1]
  OBVIOUS
<1>1. l.host \in [H -> Nat] /\ l.host[h] \in Nat
  OBVIOUS
<1>2. f \in [H -> Nat] /\ f[h] = l.host[h] + 1 /\ \A x \in H : x # h => f[x] = l.host[x]
  BY <1>1
<1>3. m = [l EXCEPT !.host = f]
  BY DEF TakesPlace
<1> QED BY <1>1, <1>2, <1>3

\* A place of a host is taken by the next worker.
LEMMA AcquireHostOK ==
  ASSUME VeriflierInv, NEW w \in Workers, AcquireHost(w)
  PROVE  GoesOn(w)
<1> PICK b, hs : b = wk[w].batch /\ hs = uniqueBatchHosts(wk[w].batch)
  OBVIOUS
<1>1. /\ phase = "run" /\ WorkerOK(w) /\ BatchOK(b) /\ wk[w] \in WorkerSet /\ wk \in [Workers -> WorkerSet]
      /\ limits \in [host : [Hosts -> Nat], tokens : Nat, mu : Nat] /\ wk[w].pc = "hosts"
  BY AtWork DEF AcquireHost
<1>2. OnSites /\ wk[w].at \in Nat /\ wk[w].at < Len(hs) /\ wk[w].got = 0
  BY <1>1, Batch DEF WorkerOK
<1>3. HostList(hs, b)
  BY <1>1, Batch
<1> PICK n \in 1..Len(hs) : n = wk[w].at + 1
  BY <1>2, <1>3 DEF HostList
<1> PICK h \in Hosts : h = hs[n]
  BY <1>3 DEF HostList
<1>5. /\ limits.host[h] < PerHost /\ limits' = [limits EXCEPT !.host[h] = @ + 1]
      /\ wk' = [wk EXCEPT ![w] = [wk[w] EXCEPT !.at = @ + 1, !.pc = IF n = Len(hs) THEN "lock" ELSE "hosts"]]
  BY DEF AcquireHost
<1>6. /\ wk'[w].pc = (IF n = Len(hs) THEN "lock" ELSE "hosts") /\ wk'[w].at = n /\ wk'[w].got = 0
      /\ wk'[w].batch = wk[w].batch /\ wk'[w].read = wk[w].read /\ wk'[w] \in WorkerSet
  <2> PICK x, y, q : x = wk[w] /\ y = wk'[w] /\ q = (IF n = Len(hs) THEN "lock" ELSE "hosts")
    OBVIOUS
  <2>1. x \in WorkerSet /\ q \in Pcs /\ n \in Nat
    BY <1>1, <1>3 DEF Pcs, HostList
  <2>2. Advances(x, y, q)
    BY <1>1, <1>5 DEF Advances
  <2>3. x.at + 1 = n /\ x.got = 0
    BY <1>2
  <2>4. y.pc = q /\ y.at = n /\ y.got = 0 /\ y.batch = x.batch /\ y.read = x.read /\ y \in WorkerSet
    BY <2>1, <2>2, <2>3, Advanced
  <2> QED BY <2>4
<1>7. Alone(w)
  BY <1>1, <1>5, <1>6 DEF Alone
<1>8. limits' \in [host : [Hosts -> Nat], tokens : Nat, mu : Nat] /\ limits'.tokens = limits.tokens
      /\ limits'.host[h] = limits.host[h] + 1 /\ limits.host[h] \in Nat
      /\ \A x \in Hosts : x # h => limits'.host[x] = limits.host[x]
  <2> PICK l, m : l = limits /\ m = limits'
    OBVIOUS
  <2>1. l \in [host : [Hosts -> Nat], tokens : Nat, mu : Nat] /\ TakesPlace(l, m, h)
    BY <1>1, <1>5 DEF TakesPlace
  <2>2. /\ m \in [host : [Hosts -> Nat], tokens : Nat, mu : Nat] /\ m.tokens = l.tokens
        /\ m.host[h] = l.host[h] + 1 /\ l.host[h] \in Nat
        /\ \A x \in Hosts : x # h => m.host[x] = l.host[x]
    BY <2>1, PlaceTaken
  <2> QED BY <2>2
<1>9. Within
  BY <1>1 DEF AcquireHost, Within
<1>10. WorkerOK(w)'
  <2>1. BatchOK(wk[w].batch)'
    BY <1>1, <1>6, <1>9, SameMode
  <2>2. uniqueBatchHosts(wk[w].batch)' = hs
    BY <1>6
  <2>3. phase' = "run"
    BY <1>1 DEF AcquireHost
  <2>4. n = Len(hs) \/ n < Len(hs)
    BY <1>3 DEF HostList
  <2> QED BY <2>1, <2>2, <2>3, <2>4, <1>2, <1>6, <1>9, SameMode DEF WorkerOK, Sending
<1>11. Limited'
  <2>1. TokensHeld' = TokensHeld
    <3>1. \A v \in Workers : wk'[v].got = wk[v].got
      BY <1>2, <1>6, <1>7 DEF Alone
    <3> QED BY <3>1 DEF TokensHeld
  <2>2. \A v \in Workers : v # w => wk'[v] = wk[v]
    BY <1>7 DEF Alone
  <2>3. Holders(h)' = Holders(h) \cup {w}
    <3>1. \E k \in 1..wk'[w].at : uniqueBatchHosts(wk'[w].batch)[k] = h
      <4>1. n \in 1..wk'[w].at /\ uniqueBatchHosts(wk'[w].batch)[n] = h
        BY <1>2, <1>6
      <4> QED BY <4>1
    <3> QED BY <2>2, <3>1 DEF Holders
  <2>4. w \notin Holders(h)
    <3> SUFFICES ASSUME NEW k \in 1..wk[w].at, hs[k] = h PROVE FALSE
      BY DEF Holders
    <3>1. k \in 1..Len(hs) /\ k # n
      BY <1>2
    <3>2. hs[k] # hs[n]
      <4>1. \A i, j \in 1..Len(hs) : hs[i] = hs[j] => i = j
        BY <1>3 DEF HostList
      <4> QED BY <3>1, <4>1
    <3> QED BY <3>2
  <2>5. \A x \in Hosts : x # h => Holders(x)' = Holders(x)
    <3> TAKE x \in Hosts
    <3> SUFFICES ASSUME x # h PROVE Holders(x)' = Holders(x)
      OBVIOUS
    <3>1. \A k \in 1..wk'[w].at : hs[k] = x => k \in 1..wk[w].at
      <4> SUFFICES ASSUME NEW k \in 1..wk'[w].at, hs[k] = x PROVE k \in 1..wk[w].at
        OBVIOUS
      <4>1. k # n
        OBVIOUS
      <4> QED BY <4>1, <1>2, <1>6
    <3>2. \A k \in 1..wk[w].at : k \in 1..wk'[w].at
      BY <1>2, <1>6
    <3>3. uniqueBatchHosts(wk'[w].batch) = hs /\ uniqueBatchHosts(wk[w].batch) = hs
      BY <1>6
    <3> QED BY <2>2, <3>1, <3>2, <3>3 DEF Holders
  <2>6. Limited
    BY DEF VeriflierInv
  <2>7. Cardinality(Holders(h) \cup {w}) = Cardinality(Holders(h)) + 1
    BY <2>4, HeldFinite, FS_AddElement
  <2>8. Cardinality(Holders(h)') = limits'.host[h] /\ limits'.host[h] <= PerHost
    <3>1. Cardinality(Holders(h)) = limits.host[h]
      BY <1>2, <2>6 DEF Limited
    <3>2. limits.host[h] + 1 <= PerHost
      <4> PICK p : p = limits.host[h]
        OBVIOUS
      <4>1. p \in Nat /\ p < PerHost
        BY <1>5, <1>8
      <4>2. p + 1 <= PerHost
        BY <4>1, LimitsAssumption
      <4> QED BY <4>2
    <3> QED BY <1>8, <2>3, <2>7, <3>1, <3>2
  <2>9. \A x \in Hosts : Cardinality(Holders(x)') = limits'.host[x] /\ limits'.host[x] <= PerHost
    <3> TAKE x \in Hosts
    <3>1. CASE x = h
      BY <2>8, <3>1
    <3>2. CASE x # h
      <4>1. limits'.host[x] = limits.host[x]
        BY <1>1, <1>8, <3>2
      <4> QED BY <1>2, <2>5, <2>6, <3>2, <4>1 DEF Limited
    <3> QED BY <3>1, <3>2
  <2> QED BY <1>2, <1>8, <2>1, <2>6, <2>9 DEF Limited
<1>12. \A c \in wk'[w].read : Known(c)
  BY <1>6 DEF VeriflierInv, ResultsOK
<1>13. Unsent(w)
  BY <1>1 DEF Unsent
<1> QED BY <1>1, <1>6, <1>7, <1>8, <1>10, <1>11, <1>12, <1>13 DEF GoesOn, MovesOn, AcquireHost

LEMMA LockOK ==
  ASSUME VeriflierInv, NEW w \in Workers, Lock(w)
  PROVE  GoesOn(w)
<1>1. /\ phase = "run" /\ WorkerOK(w) /\ BatchOK(wk[w].batch) /\ wk[w] \in WorkerSet /\ wk \in [Workers -> WorkerSet]
      /\ limits \in [host : [Hosts -> Nat], tokens : Nat, mu : Nat] /\ wk[w].pc = "lock"
  BY AtWork DEF Lock
<1>2. /\ wk'[w].pc = "tokens" /\ wk'[w].at = wk[w].at /\ wk'[w].got = wk[w].got
      /\ wk'[w].batch = wk[w].batch /\ wk'[w].read = wk[w].read /\ wk'[w] \in WorkerSet
  BY <1>1 DEF WorkerSet, Pcs, Lock
<1>3. Alone(w)
  BY <1>1, <1>2 DEF Alone, Lock
<1>4. w \in Nat
  BY WorkersFinite
<1>5. limits' \in [host : [Hosts -> Nat], tokens : Nat, mu : Nat] /\ limits'.tokens = limits.tokens /\ limits'.host = limits.host
  BY <1>1, <1>4 DEF Lock
<1>6. Within /\ phase' = "run"
  BY <1>1 DEF Lock, Within
<1>7. WorkerOK(w)'
  <2>1. BatchOK(wk[w].batch)'
    BY <1>1, <1>2, <1>6, SameMode
  <2>2. Len(wk[w].batch) \in Nat \ {0}
    BY <1>1, Batch
  <2> QED BY <2>1, <2>2, <1>1, <1>2, <1>6, SameMode DEF WorkerOK, Sending
<1>8. Limited'
  BY <1>2, <1>3, <1>5, <1>6, LimitedKeep DEF VeriflierInv, Alone
<1>9. \A c \in wk'[w].read : Known(c)
  BY <1>2 DEF VeriflierInv, ResultsOK
<1>10. Unsent(w)
  BY <1>1 DEF Unsent
<1> QED BY <1>1, <1>2, <1>3, <1>5, <1>7, <1>8, <1>9, <1>10 DEF GoesOn, MovesOn, Lock

\* A worker has one token more.
Gets(x, y, q) == y = [x EXCEPT !.got = @ + 1, !.pc = q]

LEMMA Got ==
  ASSUME NEW x \in WorkerSet, NEW q \in Pcs, NEW y, Gets(x, y, q)
  PROVE  y.pc = q /\ y.got = x.got + 1 /\ y.at = x.at /\ y.batch = x.batch /\ y.read = x.read /\ y \in WorkerSet
<1> PICK z, n : z = [x EXCEPT !.got = n] /\ n = x.got + 1
  OBVIOUS
<1>1. n \in Nat
  BY DEF WorkerSet
<1>2. z \in WorkerSet /\ z.got = n /\ z.at = x.at /\ z.batch = x.batch /\ z.read = x.read
  BY <1>1 DEF WorkerSet
<1>3. y = [z EXCEPT !.pc = q]
  BY DEF Gets
<1>4. y \in WorkerSet /\ y.pc = q /\ y.at = z.at /\ y.got = z.got /\ y.batch = z.batch /\ y.read = z.read
  BY <1>2, <1>3 DEF WorkerSet
<1> QED BY <1>2, <1>4

LEMMA TakeTokenOK ==
  ASSUME VeriflierInv, NEW w \in Workers, TakeToken(w)
  PROVE  GoesOn(w)
<1>1. /\ phase = "run" /\ WorkerOK(w) /\ BatchOK(wk[w].batch) /\ wk[w] \in WorkerSet /\ wk \in [Workers -> WorkerSet]
      /\ limits \in [host : [Hosts -> Nat], tokens : Nat, mu : Nat] /\ wk[w].pc = "tokens"
  BY AtWork DEF TakeToken
<1>2. OnSites
  BY <1>1 DEF WorkerOK
<1> PICK got, len : got = wk[w].got /\ len = Len(wk[w].batch)
  OBVIOUS
<1>3. got \in Nat /\ len \in Nat /\ len <= Global /\ got < len
  BY <1>1, <1>2, Batch DEF WorkerOK
<1>4. AtMost(len, Global) = len
  BY <1>3, LimitsAssumption DEF AtMost
<1> PICK q, u : q = (IF got + 1 = len THEN "send" ELSE "tokens") /\ u = (IF got + 1 = len THEN 0 ELSE limits.mu)
  OBVIOUS
<1>5. /\ limits.tokens < Global /\ limits' = [limits EXCEPT !.tokens = @ + 1, !.mu = u]
      /\ wk' = [wk EXCEPT ![w] = [wk[w] EXCEPT !.got = @ + 1, !.pc = q]]
  BY <1>4 DEF TakeToken
<1>6. /\ wk'[w].pc = q /\ wk'[w].got = got + 1 /\ wk'[w].at = wk[w].at
      /\ wk'[w].batch = wk[w].batch /\ wk'[w].read = wk[w].read /\ wk'[w] \in WorkerSet
  <2> PICK x, y : x = wk[w] /\ y = wk'[w]
    OBVIOUS
  <2>1. x \in WorkerSet /\ q \in Pcs
    BY <1>1 DEF Pcs
  <2>2. Gets(x, y, q)
    BY <1>1, <1>5 DEF Gets
  <2>3. y.pc = q /\ y.got = x.got + 1 /\ y.at = x.at /\ y.batch = x.batch /\ y.read = x.read /\ y \in WorkerSet
    BY <2>1, <2>2, Got
  <2> QED BY <2>3
<1>7. Alone(w)
  BY <1>1, <1>5, <1>6 DEF Alone
<1>8. /\ limits' \in [host : [Hosts -> Nat], tokens : Nat, mu : Nat] /\ limits'.host = limits.host
      /\ limits'.tokens = limits.tokens + 1 /\ limits.tokens \in Nat
  <2> PICK l, m, t : l = limits /\ m = limits' /\ t = limits.tokens + 1
    OBVIOUS
  <2>1. l \in [host : [Hosts -> Nat], tokens : Nat, mu : Nat] /\ u \in Nat /\ t \in Nat /\ l.tokens \in Nat
    BY <1>1
  <2>2. m = [l EXCEPT !.tokens = t, !.mu = u]
    BY <1>5
  <2>3. m \in [host : [Hosts -> Nat], tokens : Nat, mu : Nat] /\ m.host = l.host /\ m.tokens = t
    BY <2>1, <2>2
  <2> QED BY <2>1, <2>3
<1>9. Within /\ phase' = "run"
  BY <1>1 DEF TakeToken, Within
<1>10. WorkerOK(w)'
  <2>1. BatchOK(wk[w].batch)'
    BY <1>1, <1>6, <1>9, SameMode
  <2>2. q \in {"send", "tokens"} /\ (q = "send" => got + 1 = len) /\ (q = "tokens" => got + 1 < len)
    BY <1>3
  <2>3. wk'[w].at = Len(uniqueBatchHosts(wk'[w].batch)) /\ Len(wk'[w].batch) = len
    BY <1>1, <1>2, <1>6 DEF WorkerOK
  <2> QED BY <2>1, <2>2, <2>3, <1>2, <1>6, <1>9, SameMode DEF WorkerOK, Sending
<1>11. Limited'
  <2>1. \A v \in Workers : v # w => wk'[v] = wk[v]
    BY <1>7 DEF Alone
  <2>2. \A h \in Hosts : Holders(h)' = Holders(h)
    <3>1. \A v \in Workers : wk'[v].at = wk[v].at /\ wk'[v].batch = wk[v].batch
      BY <1>6, <2>1
    <3> QED BY <3>1 DEF Holders
  <2> PICK n \in 1..Global : n = got + 1
    BY <1>3, LimitsAssumption
  <2>3. TokensHeld' = TokensHeld \cup {<<w, n>>}
    <3>1. ASSUME NEW v \in Workers, NEW k \in 1..Global
          PROVE  k <= wk'[v].got <=> k <= wk[v].got \/ (v = w /\ k = n)
      <4>1. CASE v = w
        <5>1. k <= got + 1 <=> k <= got \/ k = n
          BY <1>3
        <5> QED BY <4>1, <5>1, <1>6
      <4>2. CASE v # w
        BY <4>2, <2>1
      <4> QED BY <4>1, <4>2
    <3> QED BY <3>1 DEF TokensHeld
  <2>4. <<w, n>> \notin TokensHeld
    <3> SUFFICES ASSUME <<w, n>> \in TokensHeld PROVE FALSE
      OBVIOUS
    <3>1. n <= got
      BY DEF TokensHeld
    <3> QED BY <3>1, <1>3
  <2>5. Cardinality(TokensHeld \cup {<<w, n>>}) = Cardinality(TokensHeld) + 1
    BY <2>4, HeldFinite, FS_AddElement
  <2>6. /\ Cardinality(TokensHeld) = limits.tokens
        /\ \A h \in Hosts : Cardinality(Holders(h)) = limits.host[h] /\ limits.host[h] <= PerHost
    BY <1>2 DEF VeriflierInv, Limited
  <2>7. limits'.tokens <= Global
    <3> PICK t : t = limits.tokens
      OBVIOUS
    <3>1. t \in Nat /\ t < Global
      BY <1>5, <1>8
    <3>2. t + 1 <= Global
      BY <3>1, LimitsAssumption
    <3> QED BY <3>2, <1>8
  <2>8. Cardinality(TokensHeld') = limits'.tokens
    BY <2>3, <2>5, <2>6, <1>8
  <2>9. \A h \in Hosts : Cardinality(Holders(h)') = limits'.host[h] /\ limits'.host[h] <= PerHost
    BY <2>2, <2>6, <1>8
  <2> QED BY <2>7, <2>8, <2>9 DEF Limited
<1>12. \A c \in wk'[w].read : Known(c)
  BY <1>6 DEF VeriflierInv, ResultsOK
<1>13. Unsent(w)
  BY <1>1 DEF Unsent
<1> QED BY <1>1, <1>6, <1>7, <1>8, <1>10, <1>11, <1>12, <1>13 DEF GoesOn, MovesOn, TakeToken

\* A worker that has what it needs goes from one state of the call to the next.
Proceeds(w, q, read) ==
    /\ wk[w].pc \in Sending /\ q \in Sending /\ (q \in {"send", "post"} => wk[w].pc \in {"send", "post"})
    /\ wk' = [wk EXCEPT ![w] = [wk[w] EXCEPT !.pc = q, !.read = read]]

LEMMA ProceedsOK ==
  ASSUME VeriflierInv, NEW w \in Workers, NEW q, NEW read \in SUBSET RowSet, Proceeds(w, q, read),
         \A c \in read : Known(c),
         callbacks' \subseteq callbacks,
         UNCHANGED <<program, pos, phase, plan, queue, outcomes, limits, rows, results, buffer, file, observed, writer, sampler, report>>
  PROVE  MovesOn(w) /\ (Unsent(w)' => Unsent(w))
<1>1. /\ phase = "run" /\ WorkerOK(w) /\ BatchOK(wk[w].batch) /\ wk[w] \in WorkerSet /\ wk \in [Workers -> WorkerSet]
      /\ limits \in [host : [Hosts -> Nat], tokens : Nat, mu : Nat] /\ wk[w].pc \in Sending
  BY AtWork DEF Proceeds, Sending
<1>2. /\ wk'[w].pc = q /\ wk'[w].read = read /\ wk'[w].at = wk[w].at /\ wk'[w].got = wk[w].got
      /\ wk'[w].batch = wk[w].batch /\ wk'[w] \in WorkerSet
  <2> PICK x, y, z : x = wk[w] /\ y = wk'[w] /\ z = [x EXCEPT !.pc = q]
    OBVIOUS
  <2>1. x \in WorkerSet /\ q \in Pcs /\ y = [z EXCEPT !.read = read]
    BY <1>1 DEF Pcs, Proceeds, Sending
  <2>2. z \in WorkerSet /\ z.pc = q /\ z.at = x.at /\ z.got = x.got /\ z.batch = x.batch
    BY <2>1 DEF WorkerSet
  <2>3. y \in WorkerSet /\ y.pc = q /\ y.read = read /\ y.at = x.at /\ y.got = x.got /\ y.batch = x.batch
    BY <2>1, <2>2 DEF WorkerSet
  <2> QED BY <2>3
<1>3. Alone(w)
  BY <1>1, <1>2 DEF Alone, Proceeds
<1>4. Within /\ phase' = "run"
  BY <1>1 DEF Within
<1>5. WorkerOK(w)'
  <2>1. BatchOK(wk[w].batch)'
    BY <1>1, <1>2, <1>4, SameMode
  <2>2. OnSites => wk[w].at = Len(uniqueBatchHosts(wk[w].batch)) /\ wk[w].got = Len(wk[w].batch)
    BY <1>1 DEF WorkerOK, Sending
  <2> QED BY <2>1, <2>2, <1>2, <1>4, SameMode DEF WorkerOK, Sending, Proceeds
<1>6. Limited'
  BY <1>2, <1>3, <1>4, LimitedKeep DEF VeriflierInv, Alone
<1>7. Unsent(w)' => Unsent(w)
  BY <1>2 DEF Unsent, Proceeds, Sending
<1> QED BY <1>1, <1>2, <1>3, <1>5, <1>6, <1>7 DEF MovesOn, Sending

LEMMA ForgetIDsOK ==
  ASSUME VeriflierInv, NEW w \in Workers, ForgetIDs(w)
  PROVE  GoesOn(w)
<1>1. wk[w] \in WorkerSet /\ wk[w].pc = "send"
  BY AtWork DEF ForgetIDs
<1> PICK read : read = wk[w].read
  OBVIOUS
<1>2. read \in SUBSET RowSet /\ [wk[w] EXCEPT !.pc = "post", !.read = read] = [wk[w] EXCEPT !.pc = "post"]
  BY <1>1 DEF WorkerSet
<1>3. Proceeds(w, "post", read)
  BY <1>1, <1>2 DEF ForgetIDs, Proceeds, Sending
<1>4. \A c \in read : Known(c)
  BY DEF VeriflierInv, ResultsOK
<1>5. callbacks' \subseteq callbacks
  BY DEF ForgetIDs, Forget
<1> QED BY <1>2, <1>3, <1>4, <1>5, ProceedsOK DEF GoesOn, ForgetIDs

LEMMA AckV1Waits ==
  ASSUME VeriflierInv, NEW w \in Workers, AckV1(w), program.name # "tier"
  PROVE  GoesOn(w)
<1>1. wk[w] \in WorkerSet /\ wk[w].pc = "answer"
  BY AtWork DEF AckV1
<1> PICK read : read = wk[w].read
  OBVIOUS
<1>2. read \in SUBSET RowSet /\ [wk[w] EXCEPT !.pc = "wait", !.read = read] = [wk[w] EXCEPT !.pc = "wait"]
  BY <1>1 DEF WorkerSet
<1>3. Proceeds(w, "wait", read)
  BY <1>1, <1>2 DEF AckV1, Proceeds, Sending
<1>4. \A c \in read : Known(c)
  BY DEF VeriflierInv, ResultsOK
<1> QED BY <1>2, <1>3, <1>4, ProceedsOK DEF GoesOn, AckV1

LEMMA ResultsForIDsReads ==
  ASSUME VeriflierInv, NEW w \in Workers, ResultsForIDs(w),
         ~(Cardinality(ReadIDs(Ids(wk[w].batch))) >= Len(wk[w].batch))
  PROVE  GoesOn(w)
<1> PICK now : now = ReadIDs(Ids(wk[w].batch))
  OBVIOUS
<1>1. wk[w] \in WorkerSet /\ wk[w].pc = "wait" /\ wk' = [wk EXCEPT ![w].read = now]
  BY AtWork DEF ResultsForIDs
<1>2. now \in SUBSET callbacks /\ callbacks \subseteq RowSet
  BY DEF ReadIDs, VeriflierInv, Shape
<1>3. [wk[w] EXCEPT !.pc = "wait", !.read = now] = [wk[w] EXCEPT !.read = now]
  BY <1>1 DEF WorkerSet
<1>4. Proceeds(w, "wait", now)
  BY <1>1, <1>3 DEF Proceeds, Sending
<1>5. \A c \in now : Known(c)
  BY <1>2 DEF VeriflierInv, ResultsOK
<1>6. now \in SUBSET RowSet
  BY <1>2
<1> QED BY <1>4, <1>5, <1>6, ProceedsOK DEF GoesOn, ResultsForIDs

-----------------------------------------------------------------------------
(* A worker takes a batch *)

LEMMA TakeOK ==
  ASSUME VeriflierInv, NEW w \in Workers, Take(w)
  PROVE  VeriflierInv'
<1>1. /\ Shape /\ Work /\ Phases /\ Accounts /\ ResultsOK /\ JobsOK /\ Records /\ Limited /\ Observed
  BY DEF VeriflierInv
<1> PICK b, q, y : b = Head(queue) /\ q = (IF OnSites THEN "hosts" ELSE IF program.name = "fixture" THEN "send" ELSE "post")
                   /\ y = [Idle EXCEPT !.batch = Head(queue), !.pc = q]
  OBVIOUS
<1>2. /\ program \in Programs /\ queue \in Seq(Seq(CheckSet)) /\ wk \in [Workers -> WorkerSet] /\ phase = "run"
      /\ queue # <<>> /\ wk[w].pc = "idle" /\ program.name \in {"real", "fixture", "tier"}
  BY <1>1, ProgramFacts DEF Take, Shape, ProgramOK
<1>3. wk' = [wk EXCEPT ![w] = y]
  BY <1>2 DEF Take, OnSites
<1>4. /\ Len(queue) \in Nat \ {0} /\ 1 \in DOMAIN queue /\ b = queue[1] /\ b \in Seq(CheckSet) /\ queue' \in Seq(Seq(CheckSet))
      /\ \A k \in DOMAIN queue' : k + 1 \in DOMAIN queue /\ k + 1 # 1 /\ queue'[k] = queue[k + 1]
      /\ \A k \in DOMAIN queue : k # 1 => k - 1 \in DOMAIN queue' /\ queue'[k - 1] = queue[k]
      /\ \A i, k \in DOMAIN queue' : i # k => i + 1 # k + 1
  BY <1>2 DEF Take
<1>5. y \in WorkerSet /\ y.batch = b /\ y.pc = q /\ y.at = 0 /\ y.got = 0 /\ y.read = {}
  BY <1>4 DEF Idle, WorkerSet, Pcs
<1>6. wk[w].batch = <<>> /\ wk[w].at = 0 /\ wk[w].got = 0 /\ Ids(wk[w].batch) = {}
  BY <1>1, <1>2 DEF Work, WorkerOK, Idle, Ids
<1>7. wk'[w] = y /\ Alone(w)
  BY <1>2, <1>3, <1>5 DEF Alone
<1>8. Within
  BY <1>2 DEF Take, Within
<1>9. Shape'
  <2>1. Batches(program, pos)' = Batches(program, pos)
    BY <1>8 DEF Batches, Within, Selected, Modes
  <2> QED BY <1>1, <1>4, <1>7, <1>8, <2>1, SameMode DEF Shape, PlanIs, Take, Alone, Within
<1>10. BatchOK(b)
  BY <1>1, <1>4 DEF Work
<1>11. Work'
  <2>1. \A k \in DOMAIN queue' : BatchOK(queue[k])'
    <3> TAKE k \in DOMAIN queue'
    <3>1. BatchOK(queue[k + 1]) /\ queue'[k] = queue[k + 1]
      BY <1>1, <1>4 DEF Work
    <3> PICK c : c = queue[k + 1]
      OBVIOUS
    <3>2. BatchOK(c)' /\ queue'[k] = c
      BY <3>1, <1>8, SameMode
    <3> QED BY <3>2
  <2>2. \A i, k \in DOMAIN queue' : i # k => Apart(queue'[i], queue'[k])
    BY <1>1, <1>4 DEF Work
  <2>3. \A v \in Workers : WorkerOK(v)'
    <3> TAKE v \in Workers
    <3>1. CASE v = w
      <4>1. BatchOK(b)' /\ wk'[w].batch = b
        BY <1>5, <1>7, <1>8, <1>10, SameMode
      <4>2. BatchOK(wk[w].batch)'
        BY <4>1
      <4>3. Len(uniqueBatchHosts(b)) > 0
        BY <1>4, <1>10, HostLists DEF HostList, BatchOK, GoodBatch
      <4>4. phase' = "run" /\ wk'[w].pc = q /\ wk'[w].at = 0 /\ wk'[w].got = 0
        BY <1>2, <1>5, <1>7 DEF Take
      <4>5. (OnSites => q = "hosts") /\ (~OnSites => q \in {"send", "post"}) /\ (OnSites' <=> OnSites)
        BY <1>8, SameMode
      <4> QED BY <3>1, <4>1, <4>2, <4>3, <4>4, <4>5 DEF WorkerOK, Sending
    <3>2. CASE v # w
      <4>1. wk'[v] = wk[v] /\ WorkerOK(v) /\ phase' = phase
        BY <1>1, <1>7, <3>2 DEF Alone, Work, Take
      <4>2. BatchOK(wk[v].batch)' <=> BatchOK(wk[v].batch)
        BY <4>1, <1>8, SameMode
      <4> QED BY <4>1, <4>2, <1>8, SameMode DEF WorkerOK
    <3> QED BY <3>1, <3>2
  <2>4. \A v \in Workers : v # w => wk'[v].batch = wk[v].batch
    BY <1>7 DEF Alone
  <2>5. wk'[w].batch = queue[1]
    BY <1>4, <1>5, <1>7
  <2>6. \A v \in Workers, k \in DOMAIN queue' : Apart(wk'[v].batch, queue'[k])
    <3> TAKE v \in Workers, k \in DOMAIN queue'
    <3>1. queue'[k] = queue[k + 1] /\ k + 1 \in DOMAIN queue /\ k + 1 # 1
      BY <1>4
    <3>2. CASE v = w
      BY <3>1, <3>2, <2>5, <1>1, <1>4 DEF Work
    <3>3. CASE v # w
      BY <3>1, <3>3, <2>4, <1>1 DEF Work
    <3> QED BY <3>2, <3>3
  <2>7. \A u, v \in Workers : u # v => Apart(wk'[u].batch, wk'[v].batch)
    <3> TAKE u, v \in Workers
    <3>1. CASE u = w /\ v # w
      BY <3>1, <2>4, <2>5, <1>1, <1>4 DEF Work, Apart
    <3>2. CASE v = w /\ u # w
      BY <3>2, <2>4, <2>5, <1>1, <1>4 DEF Work, Apart
    <3>3. CASE u # w /\ v # w
      BY <3>3, <2>4, <1>1 DEF Work
    <3> QED BY <3>1, <3>2, <3>3
  <2> QED BY <2>1, <2>2, <2>3, <2>6, <2>7 DEF Work
<1>12. Phases'
  BY <1>1, <1>2, <1>8, PhasesKeep DEF Take
<1>13. Outs' = Outs
  BY DEF Outs, Take
<1>14. \A id : Waiting(id)' <=> Waiting(id)
  <2> TAKE id
  <2>1. ASSUME Waiting(id) PROVE Waiting(id)'
    <3>1. CASE \E k \in DOMAIN queue : id \in Ids(queue[k])
      <4> PICK k \in DOMAIN queue : id \in Ids(queue[k])
        BY <3>1
      <4>1. CASE k = 1
        <5>1. id \in Ids(wk'[w].batch)
          BY <4>1, <1>4, <1>5, <1>7
        <5> QED BY <5>1 DEF Waiting
      <4>2. CASE k # 1
        BY <4>2, <1>4 DEF Waiting
      <4> QED BY <4>1, <4>2
    <3>2. CASE \E v \in Workers : id \in Ids(wk[v].batch)
      <4> PICK v \in Workers : id \in Ids(wk[v].batch)
        BY <3>2
      <4>1. wk'[v] = wk[v]
        BY <1>6, <1>7 DEF Alone
      <4> QED BY <4>1 DEF Waiting
    <3> QED BY <2>1, <3>1, <3>2 DEF Waiting
  <2>2. ASSUME Waiting(id)' PROVE Waiting(id)
    <3>1. CASE \E k \in DOMAIN queue' : id \in Ids(queue'[k])
      BY <3>1, <1>4 DEF Waiting
    <3>2. CASE \E v \in Workers : id \in Ids(wk'[v].batch)
      <4> PICK v \in Workers : id \in Ids(wk'[v].batch)
        BY <3>2
      <4>1. CASE v = w
        BY <4>1, <1>4, <1>5, <1>7 DEF Waiting
      <4>2. CASE v # w
        BY <4>2, <1>7 DEF Waiting, Alone
      <4> QED BY <4>1, <4>2
    <3> QED BY <2>2, <3>1, <3>2 DEF Waiting
  <2> QED BY <2>1, <2>2
<1>15. Accounts'
  BY <1>1, <1>8, <1>13, <1>14, AccountsKeep
<1>16. JobsOK' /\ JobsStay
  <2>1. \A id : ToSend(id)' => ToSend(id)
    <3> SUFFICES ASSUME NEW id, ToSend(id)' PROVE ToSend(id)
      OBVIOUS
    <3>1. CASE \E k \in DOMAIN queue' : id \in Ids(queue'[k])
      BY <3>1, <1>4 DEF ToSend
    <3>2. CASE \E v \in Workers : Unsent(v)' /\ id \in Ids(wk'[v].batch)
      <4> PICK v \in Workers : Unsent(v)' /\ id \in Ids(wk'[v].batch)
        BY <3>2
      <4>1. CASE v = w
        BY <4>1, <1>4, <1>5, <1>7 DEF ToSend
      <4>2. CASE v # w
        BY <4>2, <1>7 DEF ToSend, Alone, Unsent
      <4> QED BY <4>1, <4>2
    <3> QED BY <3>1, <3>2 DEF ToSend
  <2> QED BY <2>1, <1>1, <1>8, JobsKeep DEF Take
<1>17. ResultsOK'
  <2>1. \A v \in Workers : \A c \in wk'[v].read : Known(c)
    BY <1>1, <1>5, <1>7 DEF Alone, ResultsOK
  <2>2. \A c \in callbacks' \cup rows' : Known(c)
    BY <1>1 DEF Take, ResultsOK
  <2>3. \A r \in Outs' : ResultOK(r)
    BY <1>1, <1>13 DEF ResultsOK
  <2> QED BY <1>8, <1>16, <2>1, <2>2, <2>3, ResultsKeep DEF Within
<1>18. Records'
  BY <1>1, <1>8, RecordsKeep DEF Take
<1>19. Limited'
  <2>1. \A v \in Workers : wk'[v].at = wk[v].at /\ wk'[v].got = wk[v].got
    BY <1>5, <1>6, <1>7 DEF Alone
  <2>2. TokensHeld' = TokensHeld
    BY <2>1 DEF TokensHeld
  <2>3. \A h \in Hosts : Holders(h)' = Holders(h)
    <3>1. \A v \in Workers : wk'[v] = wk[v] \/ (wk'[v].at = 0 /\ wk[v].at = 0)
      BY <1>5, <1>6, <1>7 DEF Alone
    <3> QED BY <3>1 DEF Holders
  <2> QED BY <1>1, <1>8, <2>2, <2>3, SameMode DEF Limited, Take
<1>20. Observed'
  BY <1>1, <1>8, ObservedKeep DEF Take
<1> QED BY <1>9, <1>11, <1>12, <1>15, <1>16, <1>17, <1>18, <1>19, <1>20 DEF VeriflierInv

-----------------------------------------------------------------------------
(* The Verifliers and the counted target *)

\* A job k is what became of job j.
Later(j, k) ==
    /\ k \in JobSet /\ k.try = j.try /\ k.mode = j.mode /\ k.id = j.id /\ k.url = j.url
    /\ (j.seen => k.seen) /\ (j.told => k.told)
    /\ ~OnSites /\ program.buffered /\ k.seen => k.noted

\* Every job became what f says.
JobsGoOn(f) == DOMAIN f = jobs /\ jobs' = {f[j] : j \in jobs} /\ \A j \in jobs : Later(j, f[j])

LEMMA JobsAdvance ==
  ASSUME VeriflierInv, Within, NEW f, JobsGoOn(f), \A id : ToSend(id)' => ToSend(id)
  PROVE  JobsOK' /\ JobsStay /\ jobs' \subseteq JobSet /\ IsFiniteSet(jobs')
<1>1. /\ jobs \subseteq JobSet /\ IsFiniteSet(jobs) /\ \A j \in jobs : JobOK(j)
      /\ \A j, k \in jobs : j.try = k.try /\ j.mode = k.mode /\ j.id = k.id => j = k
  BY DEF VeriflierInv, Shape, JobsOK
<1>2. \A k \in jobs' : \E j \in jobs : k = f[j] /\ Later(j, k)
  BY DEF JobsGoOn
<1>3. jobs' \subseteq JobSet
  BY <1>2 DEF Later
<1>4. IsFiniteSet(jobs')
  <2> DEFINE g == [j \in jobs |-> f[j]]
  <2> PICK S, T, h : S = jobs /\ T = jobs' /\ h = g
    OBVIOUS
  <2>1. h \in Surjection(S, T)
    BY DEF JobsGoOn, Surjection
  <2>2. IsFiniteSet(S)
    BY <1>1
  <2>3. IsFiniteSet(T)
    BY <2>1, <2>2, FS_Surjection
  <2> QED BY <2>3
<1>5. \A k \in jobs' : JobOK(k)'
  <2> TAKE k \in jobs'
  <2> PICK j \in jobs : k = f[j] /\ Later(j, k)
    BY <1>2
  <2>1. JobOK(j)
    BY <1>1
  <2>2. Current(k)' => ~ToSend(k.id)'
    <3>1. Current(k)' => Current(j)
      BY DEF Current, Later, Within
    <3>2. Current(j) => ~ToSend(j.id)
      BY <2>1 DEF JobOK
    <3> QED BY <3>1, <3>2 DEF Later
  <2>3. Asks(k.mode, k.id, k.url)'
    BY <2>1, SameMode DEF JobOK, Later
  <2> QED BY <2>1, <2>2, <2>3, SameMode DEF JobOK, Later, Within
<1>6. \A k, l \in jobs' : k.try = l.try /\ k.mode = l.mode /\ k.id = l.id => k = l
  <2> SUFFICES ASSUME NEW k \in jobs', NEW l \in jobs', k.try = l.try /\ k.mode = l.mode /\ k.id = l.id PROVE k = l
    OBVIOUS
  <2> PICK i \in jobs : k = f[i] /\ Later(i, k)
    BY <1>2
  <2> PICK j \in jobs : l = f[j] /\ Later(j, l)
    BY <1>2
  <2>1. i.try = j.try /\ i.mode = j.mode /\ i.id = j.id
    BY DEF Later
  <2>2. i = j
    BY <1>1, <2>1
  <2> QED BY <2>2
<1>7. JobsStay
  <2> SUFFICES ASSUME NEW m, NEW id, HasJob(m, id) PROVE HasJob(m, id)'
    BY DEF JobsStay
  <2> PICK j \in jobs : j.mode = m /\ j.id = id /\ j.seen /\ j.told
    BY DEF HasJob
  <2> PICK k \in jobs' : Later(j, k)
    BY DEF JobsGoOn
  <2>1. k.mode = m /\ k.id = id /\ k.seen /\ k.told
    BY DEF Later
  <2> QED BY <2>1 DEF HasJob
<1> QED BY <1>3, <1>4, <1>5, <1>6, <1>7 DEF JobsOK

\* A job goes on, and only callbacks may come of it.
LEMMA JobStepOK ==
  ASSUME VeriflierInv, NEW j \in jobs, NEW k, Later(j, k), phase # "done", jobs' = (jobs \ {j}) \cup {k},
         callbacks' \subseteq RowSet, \A c \in callbacks' : Known(c) \/ Known(c)',
         UNCHANGED <<program, pos, phase, plan, queue, wk, outcomes, limits, rows, results, buffer, file, observed, writer, sampler, report>>
  PROVE  VeriflierInv'
<1>1. /\ Shape /\ Work /\ Phases /\ Accounts /\ ResultsOK /\ JobsOK /\ Records /\ Limited /\ Observed
  BY DEF VeriflierInv
<1>2. Within
  BY DEF Within
<1> PICK f : f = [i \in jobs |-> IF i = j THEN k ELSE i]
  OBVIOUS
<1>3. JobsGoOn(f)
  <2>1. \A i \in jobs : Later(i, f[i])
    <3> TAKE i \in jobs
    <3>1. i \in JobSet /\ JobOK(i)
      BY <1>1 DEF Shape, JobsOK
    <3>2. Later(i, i)
      BY <3>1 DEF Later, JobOK
    <3> QED BY <3>2
  <2>2. jobs' = {f[i] : i \in jobs}
    OBVIOUS
  <2> QED BY <2>1, <2>2 DEF JobsGoOn
<1>4. JobsOK' /\ JobsStay /\ jobs' \subseteq JobSet /\ IsFiniteSet(jobs')
  <2>1. \A id : ToSend(id)' => ToSend(id)
    BY DEF ToSend, Unsent
  <2> QED BY <1>2, <1>3, <2>1, JobsAdvance
<1>5. Shape'
  <2>1. Batches(program, pos)' = Batches(program, pos)
    BY <1>2 DEF Batches, Within, Selected, Modes
  <2> QED BY <1>1, <1>2, <1>4, <2>1, SameMode DEF Shape, PlanIs, Within
<1>6. Work'
  <2>1. \A i \in DOMAIN queue' : BatchOK(queue[i])'
    BY <1>1, <1>2, SameMode DEF Work
  <2>2. \A w \in Workers : WorkerOK(w)'
    <3> TAKE w \in Workers
    <3>1. BatchOK(wk[w].batch)' <=> BatchOK(wk[w].batch)
      BY <1>2, SameMode
    <3> QED BY <3>1, <1>1, <1>2, SameMode DEF WorkerOK, Work
  <2> QED BY <2>1, <2>2, <1>1 DEF Work
<1>7. Phases'
  BY <1>1, <1>2, SameMode DEF Phases
<1>8. Outs' = Outs /\ \A id : Waiting(id)' <=> Waiting(id)
  BY DEF Outs, Waiting
<1>9. Accounts'
  BY <1>1, <1>2, <1>8, AccountsKeep
<1>10. ResultsOK'
  <2>1. \A r \in Outs' : ResultOK(r)
    BY <1>1, <1>8 DEF ResultsOK
  <2>2. \A c \in callbacks' \cup rows' : Known(c) \/ Known(c)'
    BY <1>1 DEF ResultsOK
  <2>3. \A w \in Workers : \A c \in wk'[w].read : Known(c)
    BY <1>1 DEF ResultsOK
  <2> QED BY <1>2, <1>4, <2>1, <2>2, <2>3, ResultsKeep DEF Within
<1>11. Records'
  BY <1>1, <1>2, RecordsKeep
<1>12. Limited'
  BY <1>1, <1>2, LimitedKeep
<1>13. Observed'
  BY <1>1, <1>2, ObservedKeep
<1> QED BY <1>4, <1>5, <1>6, <1>7, <1>9, <1>10, <1>11, <1>12, <1>13 DEF VeriflierInv

LEMMA ContactOK ==
  ASSUME VeriflierInv, NEW j \in jobs, Contact(j)
  PROVE  VeriflierInv'
<1> PICK k : k = [j EXCEPT !.seen = TRUE, !.noted = program.buffered]
  OBVIOUS
<1>1. program.buffered \in BOOLEAN /\ j \in JobSet
  BY ProgramsAssumption DEF VeriflierInv, Shape
<1>2. Later(j, k)
  BY <1>1 DEF Later, JobSet
<1>3. callbacks' \subseteq RowSet /\ \A c \in callbacks' : Known(c)
  BY DEF Contact, VeriflierInv, Shape, ResultsOK
<1> QED BY <1>2, <1>3, JobStepOK DEF Contact

LEMMA CountLateOK ==
  ASSUME VeriflierInv, NEW j \in jobs, CountLate(j)
  PROVE  VeriflierInv'
<1> PICK k : k = [j EXCEPT !.noted = TRUE]
  OBVIOUS
<1>1. j \in JobSet
  BY DEF VeriflierInv, Shape
<1>2. Later(j, k)
  BY <1>1 DEF Later, JobSet
<1>3. callbacks' \subseteq RowSet /\ \A c \in callbacks' : Known(c)
  BY DEF CountLate, VeriflierInv, Shape, ResultsOK
<1> QED BY <1>2, <1>3, JobStepOK DEF CountLate

LEMMA handleStatusOK ==
  ASSUME VeriflierInv, NEW j \in jobs, handleStatus(j)
  PROVE  VeriflierInv'
<1> PICK k : k = [j EXCEPT !.seen = TRUE, !.told = TRUE]
  OBVIOUS
<1>1. j \in JobSet /\ JobOK(j) /\ program.name \in {"real", "fixture", "tier"}
  BY ProgramFacts DEF VeriflierInv, Shape, JobsOK, ProgramOK
<1>2. k \in JobSet /\ k.try = j.try /\ k.mode = j.mode /\ k.id = j.id /\ k.url = j.url /\ k.seen /\ k.told /\ k.noted = j.noted
  BY <1>1 DEF JobSet
<1>3. ~OnSites => j.seen
  BY DEF OnSites, handleStatus
<1>4. Later(j, k)
  BY <1>1, <1>2, <1>3 DEF Later, JobOK
<1> PICK c : c = [id |-> j.id, url |-> j.url]
  OBVIOUS
<1>5. c \in RowSet /\ callbacks' \subseteq callbacks \cup {c}
  BY <1>1 DEF RowSet, JobSet, handleStatus
<1>6. callbacks' \subseteq RowSet
  BY <1>5 DEF VeriflierInv, Shape
<1>7. Known(c)'
  <2>1. j.mode \in DOMAIN Modes /\ Asks(j.mode, j.id, j.url)
    BY <1>1 DEF JobOK
  <2>2. HasJob(j.mode, j.id)'
    <3>1. k \in jobs'
      BY DEF handleStatus
    <3> QED BY <3>1, <1>2 DEF HasJob
  <2>3. j.mode \in DOMAIN Modes' /\ Asks(j.mode, j.id, j.url)'
    BY <2>1, SameProgram DEF handleStatus
  <2>4. c.id = j.id /\ c.url = j.url
    OBVIOUS
  <2> QED BY <1>5, <2>2, <2>3, <2>4 DEF Known
<1>8. \A x \in callbacks' : Known(x) \/ Known(x)'
  BY <1>5, <1>7 DEF VeriflierInv, ResultsOK
<1> QED BY <1>4, <1>6, <1>8, JobStepOK DEF handleStatus

-----------------------------------------------------------------------------
(* A worker sends its batch *)

\* The jobs that a batch becomes when it is accepted.
NewJob(c, p, n) ==
    [try |-> p.try, mode |-> p.mode, id |-> c.id, url |-> c.url, seen |-> FALSE, noted |-> FALSE, told |-> FALSE, nth |-> n]
NewJobs(b, p) == [i \in 1..Len(b) |-> NewJob(b[i], p, 0)]
Sent(w) == {NewJob(c, pos, Cardinality({j \in Mine(w) : j.id = c.id})) : c \in Range(wk[w].batch)}

LEMMA PostOK ==
  ASSUME VeriflierInv, NEW w \in Workers, Post(w)
  PROVE  VeriflierInv'
<1> PICK b, read : b = wk[w].batch /\ read = wk[w].read
  OBVIOUS
<1>1. /\ phase = "run" /\ BatchOK(b) /\ wk[w] \in WorkerSet /\ wk \in [Workers -> WorkerSet] /\ wk[w].pc = "post"
      /\ program \in Programs
  BY AtWork DEF Post
<1>2. b \in Seq(CheckSet) /\ Len(b) \in Nat
  BY <1>1 DEF BatchOK, GoodBatch
<1>3. MovesOn(w) /\ (Unsent(w)' => Unsent(w))
  <2>1. read \in SUBSET RowSet /\ [wk[w] EXCEPT !.pc = "answer", !.read = read] = [wk[w] EXCEPT !.pc = "answer"]
    BY <1>1 DEF WorkerSet
  <2>2. Proceeds(w, "answer", read)
    BY <1>1, <2>1 DEF Post, Proceeds, Sending
  <2>3. \A c \in read : Known(c)
    BY DEF VeriflierInv, ResultsOK
  <2> QED BY <2>1, <2>2, <2>3, ProceedsOK DEF Post
<1>4. CASE UNCHANGED jobs
  BY <1>3, <1>4, GoesOnOK DEF GoesOn
<1>5. CASE jobs' = jobs \cup Sent(w)
  <2>1. Within
    BY <1>1 DEF Within, Post
  <2>2. wk'[w].pc = "answer"
    BY <1>1 DEF Post, WorkerSet
  <2>3. \A v \in Workers : (v # w => wk'[v] = wk[v]) /\ wk'[v].batch = wk[v].batch
    BY <1>3 DEF MovesOn, Alone
  <2>4. /\ \A j \in jobs : JobOK(j) /\ j \in JobSet
        /\ \A j, k \in jobs : j.try = k.try /\ j.mode = k.mode /\ j.id = k.id => j = k
        /\ IsFiniteSet(jobs)
    BY DEF VeriflierInv, JobsOK, Shape
  <2>5. \A id : ToSend(id)' => ToSend(id)
    <3>1. \A v \in Workers : Unsent(v)' => Unsent(v)
      BY <1>3, <2>3 DEF Unsent
    <3> QED BY <2>3, <3>1 DEF ToSend, Post
  <2>6. \A id \in Ids(b) : ToSend(id) /\ ~ToSend(id)'
    <3> TAKE id \in Ids(b)
    <3>1. ToSend(id)
      BY <1>1 DEF ToSend, Unsent
    <3>2. /\ \A k \in DOMAIN queue : id \notin Ids(queue[k])
          /\ \A v \in Workers : v # w => id \notin Ids(wk[v].batch)
      BY DEF VeriflierInv, Work, Apart
    <3>3. ~Unsent(w)'
      BY <2>2 DEF Unsent
    <3> QED BY <3>1, <3>2, <3>3, <2>3 DEF ToSend, Post
  <2>7. Mine(w) = {}
    BY <2>4, <2>6 DEF Mine, JobOK, Current
  <2> PICK p : p = pos
    OBVIOUS
  <2> PICK f, n : f = NewJobs(b, p) /\ n = Len(b)
    OBVIOUS
  <2>8. Sent(w) = {f[i] : i \in 1..n}
    <3>1. \A c : Cardinality({j \in Mine(w) : j.id = c.id}) = 0
      <4>1. \A c : {j \in Mine(w) : j.id = c.id} = {}
        BY <2>7
      <4> QED BY <4>1, FS_EmptySet
    <3>2. Sent(w) = {NewJob(c, p, 0) : c \in Range(b)}
      <4>1. \A c : NewJob(c, pos, Cardinality({j \in Mine(w) : j.id = c.id})) = NewJob(c, p, 0)
        BY <3>1
      <4>2. \A x : x \in Sent(w) <=> \E c \in Range(b) : x = NewJob(c, p, 0)
        BY <4>1 DEF Sent
      <4>3. \A x : x \in {NewJob(c, p, 0) : c \in Range(b)} <=> \E c \in Range(b) : x = NewJob(c, p, 0)
        OBVIOUS
      <4> QED BY <4>2, <4>3
    <3>3. Range(b) = {b[i] : i \in 1..n}
      BY <1>2 DEF Range
    <3>4. \A i \in 1..n : f[i] = NewJob(b[i], p, 0)
      BY DEF NewJobs
    <3>5. {NewJob(c, p, 0) : c \in {b[i] : i \in 1..n}} = {NewJob(b[i], p, 0) : i \in 1..n}
      OBVIOUS
    <3>6. {NewJob(b[i], p, 0) : i \in 1..n} = {f[i] : i \in 1..n}
      BY <3>4
    <3> QED BY <3>2, <3>3, <3>5, <3>6
  <2>9. p.try \in Nat /\ p.mode \in DOMAIN Modes /\ p.mode \in Nat
    <3>1. p \in Places /\ Modes \in Seq(Range(AllModes))
      BY <1>1, ProgramFacts DEF VeriflierInv, Shape, ProgramOK
    <3> QED BY <3>1 DEF Places
  <2>10. \A i \in 1..n : /\ f[i].try = p.try /\ f[i].mode = p.mode /\ f[i].id = b[i].id /\ f[i].url = b[i].url
                              /\ ~f[i].seen /\ ~f[i].told
    BY DEF NewJobs, NewJob
  <2>11. \A i \in 1..n : f[i] \in JobSet
    <3> TAKE i \in 1..n
    <3>1. b[i] \in CheckSet
      BY <1>2
    <3>2. b[i].id \in Nat /\ b[i].url \in Nat
      BY <3>1 DEF CheckSet
    <3> QED BY <2>9, <3>2 DEF JobSet, NewJobs, NewJob
  <2>12. IsFiniteSet(jobs')
    <3> PICK S, T : S = 1..n /\ T = Sent(w)
      OBVIOUS
    <3>1. f \in Surjection(S, T)
      BY <2>8 DEF Surjection, NewJobs
    <3>2. IsFiniteSet(S)
      <4>1. 1 \in Int /\ n \in Int
        BY <1>2
      <4> QED BY <4>1, FS_Interval
    <3>3. IsFiniteSet(T)
      BY <3>1, <3>2, FS_Surjection
    <3> QED BY <1>5, <2>4, <3>3, FS_Union
  <2>13. jobs' \subseteq JobSet
    BY <1>5, <2>4, <2>8, <2>11
  <2>14. JobsStay
    BY <1>5 DEF JobsStay, HasJob
  <2>15. \A i \in 1..n : JobOK(f[i])'
    <3> TAKE i \in 1..n
    <3> PICK j : j = f[i]
      OBVIOUS
    <3>1. j.try = p.try /\ j.mode = p.mode /\ j.id = b[i].id /\ j.url = b[i].url /\ ~j.seen
      BY <2>10
    <3>2. Asks(j.mode, j.id, j.url)
      BY <1>1, <1>2, <3>1 DEF BatchOK, GoodBatch
    <3>3. ~ToSend(j.id)'
      BY <1>2, <2>6, <3>1 DEF Ids
    <3>4. JobOK(j)'
      BY <2>1, <2>9, <3>1, <3>2, <3>3, SameMode DEF JobOK, Within
    <3> QED BY <3>4
  <2>16. \A j \in jobs : JobOK(j)'
    BY <2>1, <2>4, <2>5, SameMode DEF JobOK, Within
  <2>17. \A j, k \in jobs' : j.try = k.try /\ j.mode = k.mode /\ j.id = k.id => j = k
    <3>1. \A i, k \in 1..n : f[i].id = f[k].id => i = k
      BY <1>1, <1>2, <2>10 DEF BatchOK, GoodBatch
    <3>2. \A j \in jobs, i \in 1..n : ~(j.try = f[i].try /\ j.mode = f[i].mode /\ j.id = f[i].id)
      <4> SUFFICES ASSUME NEW j \in jobs, NEW i \in 1..n, j.try = f[i].try, j.mode = f[i].mode, j.id = f[i].id
                   PROVE  FALSE
        OBVIOUS
      <4>1. Current(j)
        BY <2>10 DEF Current
      <4>2. j.id \in Ids(b)
        BY <1>2, <2>10 DEF Ids
      <4> QED BY <4>1, <4>2, <2>4, <2>6 DEF JobOK
    <3> QED BY <1>5, <2>4, <2>8, <3>1, <3>2
  <2>18. JobsOK'
    BY <1>5, <2>8, <2>15, <2>16, <2>17 DEF JobsOK
  <2> QED BY <1>3, <2>12, <2>13, <2>14, <2>18, MovesOnOK
<1> QED BY <1>4, <1>5 DEF Post, Sent, NewJob

-----------------------------------------------------------------------------
(* A worker delivers what became of its batch *)

\* The places and tokens of a batch are given back.
LEMMA ReleasedOK ==
  ASSUME VeriflierInv, NEW w \in Workers, wk[w].pc \in {"answer", "wait"}, OnSites,
         Within, Alone(w), wk'[w] = Idle, limits' = Released(w)
  PROVE  Limited' /\ limits' \in [host : [Hosts -> Nat], tokens : Nat, mu : Nat]
<1> PICK b, hs, got, l, m : b = wk[w].batch /\ hs = uniqueBatchHosts(wk[w].batch) /\ got = wk[w].got /\ l = limits /\ m = limits'
  OBVIOUS
<1>1. /\ WorkerOK(w) /\ BatchOK(b) /\ wk[w] \in WorkerSet /\ l \in [host : [Hosts -> Nat], tokens : Nat, mu : Nat]
  BY AtWork
<1>2. /\ b \in Seq(CheckSet) /\ HostList(hs, b) /\ Len(b) <= Global /\ Len(b) \in Nat \ {0} /\ got \in Nat
      /\ wk[w].at = Len(hs) /\ got = Len(b)
  BY <1>1, Batch DEF WorkerOK, Sending
<1>3. AtMost(Len(b), Global) = got
  BY <1>2, LimitsAssumption DEF AtMost
<1> PICK g : g = [h \in Hosts |-> IF h \in HostsOf(b) THEN l.host[h] - 1 ELSE l.host[h]]
  OBVIOUS
<1>4. m = [l EXCEPT !.tokens = l.tokens - got, !.host = g]
  BY <1>3 DEF Released, OnSites
<1>5. /\ Cardinality(TokensHeld) = l.tokens /\ l.tokens <= Global
      /\ \A h \in Hosts : Cardinality(Holders(h)) = l.host[h] /\ l.host[h] <= PerHost
  BY DEF VeriflierInv, Limited
<1>6. \A v \in Workers : v # w => wk'[v] = wk[v]
  BY DEF Alone
<1>7. wk'[w].got = 0 /\ wk'[w].at = 0
  BY DEF Idle
<1>8. Cardinality(TokensHeld') = l.tokens - got /\ l.tokens - got \in Nat
  <2> PICK S, T, U : S = TokensHeld /\ T = {w} \X (1..got) /\ U = TokensHeld'
    OBVIOUS
  <2>1. U = S \ T
    <3>1. ASSUME NEW v \in Workers, NEW k \in 1..Global
          PROVE  k <= wk'[v].got <=> k <= wk[v].got /\ ~(v = w /\ k \in 1..got)
      <4>1. CASE v = w
        <5>1. ~(k <= 0) /\ (k <= got => k \in 1..got)
          BY <1>2
        <5> QED BY <4>1, <5>1, <1>7
      <4>2. CASE v # w
        BY <4>2, <1>6
      <4> QED BY <4>1, <4>2
    <3>2. U = {p \in Workers \X (1..Global) : p[2] <= wk'[p[1]].got}
      BY DEF TokensHeld
    <3>3. S = {p \in Workers \X (1..Global) : p[2] <= wk[p[1]].got}
      BY DEF TokensHeld
    <3> QED BY <3>1, <3>2, <3>3
  <2>2. S \cap T = T
    <3>1. \A k \in 1..got : <<w, k>> \in S
      <4> TAKE k \in 1..got
      <4>1. k \in 1..Global /\ k <= wk[w].got
        BY <1>2, LimitsAssumption
      <4> QED BY <4>1 DEF TokensHeld
    <3> QED BY <3>1
  <2>3. IsFiniteSet(S)
    BY HeldFinite
  <2>4. IsFiniteSet(T) /\ Cardinality(T) = got
    <3>1. IsFiniteSet({w}) /\ Cardinality({w}) = 1
      BY FS_Singleton
    <3>2. IsFiniteSet(1..got) /\ Cardinality(1..got) = got
      <4>1. 1 \in Int /\ got \in Int /\ (IF 1 > got THEN 0 ELSE got - 1 + 1) = got
        BY <1>2
      <4> QED BY <4>1, FS_Interval
    <3> PICK A, B : A = {w} /\ B = 1..got
      OBVIOUS
    <3>3. IsFiniteSet(A \X B) /\ Cardinality(A \X B) = Cardinality(A) * Cardinality(B)
      BY <3>1, <3>2, FS_Product
    <3> QED BY <3>1, <3>2, <3>3, <1>2
  <2>5. Cardinality(S \ T) = Cardinality(S) - Cardinality(S \cap T) /\ IsFiniteSet(S \ T)
    BY <2>3, FS_Difference
  <2>6. Cardinality(S \ T) \in Nat
    BY <2>5, FS_CardinalityType
  <2> QED BY <2>1, <2>2, <2>4, <2>5, <2>6, <1>5
<1>9. ASSUME NEW h \in Hosts PROVE Cardinality(Holders(h)') = g[h] /\ g[h] \in Nat /\ g[h] <= PerHost
  <2> PICK S, U : S = Holders(h) /\ U = Holders(h)'
    OBVIOUS
  <2>1. U = S \ {w}
    <3>1. ~(\E k \in 1..wk'[w].at : uniqueBatchHosts(wk'[w].batch)[k] = h)
      BY <1>7
    <3>2. U = {v \in Workers : \E k \in 1..wk'[v].at : uniqueBatchHosts(wk'[v].batch)[k] = h}
      BY DEF Holders
    <3>3. S = {v \in Workers : \E k \in 1..wk[v].at : uniqueBatchHosts(wk[v].batch)[k] = h}
      BY DEF Holders
    <3> QED BY <3>1, <3>2, <3>3, <1>6
  <2>2. w \in S <=> h \in HostsOf(b)
    <3>1. w \in S <=> \E k \in 1..Len(hs) : hs[k] = h
      BY <1>2 DEF Holders
    <3> QED BY <3>1, <1>2 DEF HostList
  <2>3. IsFiniteSet(S) /\ Cardinality(S) = l.host[h] /\ l.host[h] <= PerHost
    BY HeldFinite, <1>5
  <2>4. /\ IsFiniteSet(S \ {w})
        /\ Cardinality(S \ {w}) = IF w \in S THEN Cardinality(S) - 1 ELSE Cardinality(S)
    BY <2>3, FS_RemoveElement
  <2>5. Cardinality(S \ {w}) \in Nat
    BY <2>4, FS_CardinalityType
  <2>6. Cardinality(U) = g[h]
    BY <2>1, <2>2, <2>3, <2>4
  <2>7. l.host[h] \in Nat
    BY <1>1
  <2>8. g[h] <= PerHost
    BY <2>3, <2>7, LimitsAssumption
  <2> QED BY <2>1, <2>5, <2>6, <2>8
<1>10. g \in [Hosts -> Nat]
  <2>1. \A h \in Hosts : g[h] \in Nat
    BY <1>9
  <2>2. g = [h \in Hosts |-> g[h]]
    OBVIOUS
  <2> HIDE <1>9
  <2> QED BY <2>1, <2>2
<1> PICK t : t = l.tokens - got
  OBVIOUS
<1>11. m \in [host : [Hosts -> Nat], tokens : Nat, mu : Nat] /\ m.tokens = t /\ m.host = g
  <2>1. t \in Nat /\ m = [l EXCEPT !.tokens = t, !.host = g]
    BY <1>4, <1>8
  <2> QED BY <2>1, <1>1, <1>10
<1>12. t <= Global
  BY <1>1, <1>2, <1>5, LimitsAssumption
<1>13. Cardinality(TokensHeld') = m.tokens /\ m.tokens <= Global
  BY <1>8, <1>11, <1>12
<1>14. \A h \in Hosts : Cardinality(Holders(h)') = m.host[h] /\ m.host[h] <= PerHost
  BY <1>9, <1>11
<1> QED BY <1>11, <1>13, <1>14 DEF Limited

\* What a worker delivers: results of its batch, one kind for a check, and of
\* every check unless the drain counts what is open.
GoodOutcome(w, out) ==
    /\ out \subseteq ResultSet
    /\ \A r \in out : Current(r) /\ r.id \in Ids(wk[w].batch) /\ ResultOK(r)'
    /\ \A r, x \in out : r.id = x.id => r.kind = x.kind
    /\ CountsLater \/ \A id \in Ids(wk[w].batch) : \E r \in out : r.id = id

\* The step of a worker that delivers.
Delivers(w, out) ==
    /\ wk[w].pc \in {"answer", "wait"} /\ Deliver(w, out)
    /\ UNCHANGED <<program, pos, phase, plan, queue, callbacks, rows, buffer, file, observed, writer, sampler, report>>

LEMMA DeliversSends ==
  ASSUME VeriflierInv, NEW w \in Workers, NEW out, Delivers(w, out)
  PROVE  Within /\ Alone(w) /\ wk'[w] = Idle /\ phase' = "run" /\ \A id : ToSend(id)' => ToSend(id)
<1>1. phase = "run" /\ wk \in [Workers -> WorkerSet]
  BY AtWork DEF Delivers
<1>2. Within /\ phase' = "run"
  BY <1>1 DEF Delivers, Within
<1>3. Idle \in WorkerSet
  BY DEF Idle, WorkerSet, Pcs
<1>4. wk' = [wk EXCEPT ![w] = Idle]
  BY DEF Delivers, Deliver
<1>5. wk'[w] = Idle /\ Alone(w)
  BY <1>1, <1>3, <1>4 DEF Alone
<1>6. \A v \in Workers : Unsent(v)' => v # w /\ Unsent(v) /\ wk'[v] = wk[v]
  BY <1>5 DEF Unsent, Alone, Idle
<1>7. \A id : ToSend(id)' => ToSend(id)
  BY <1>6 DEF ToSend, Delivers
<1> QED BY <1>2, <1>5, <1>7

LEMMA DeliversOK ==
  ASSUME VeriflierInv, NEW w \in Workers, NEW out, Delivers(w, out), GoodOutcome(w, out),
         JobsOK', JobsStay, jobs' \subseteq JobSet, IsFiniteSet(jobs')
  PROVE  VeriflierInv'
<1>1. /\ Shape /\ Work /\ Phases /\ Accounts /\ ResultsOK /\ JobsOK /\ Records /\ Limited /\ Observed
  BY DEF VeriflierInv
<1>2. Within /\ Alone(w) /\ wk'[w] = Idle /\ phase' = "run"
  BY DeliversSends
<1>3. /\ phase = "run" /\ program \in Programs /\ limits \in [host : [Hosts -> Nat], tokens : Nat, mu : Nat]
      /\ outcomes \in Seq(SUBSET ResultSet) /\ results \subseteq ResultSet /\ pos \in Places
  BY <1>1, AtWork DEF Delivers, Shape
<1>4. Limited' /\ limits' \in [host : [Hosts -> Nat], tokens : Nat, mu : Nat]
  <2>1. limits' = Released(w)
    BY DEF Delivers, Deliver
  <2>2. CASE OnSites
    BY <1>2, <2>1, <2>2, ReleasedOK DEF Delivers
  <2>3. CASE ~OnSites
    <3>1. limits' = limits
      BY <2>1, <2>3 DEF Released, OnSites
    <3> QED BY <1>2, <1>3, <2>3, <3>1, SameMode DEF Limited
  <2> QED BY <2>2, <2>3
<1>5. /\ OnSites => results' = results /\ outcomes' = Append(outcomes, out)
      /\ ~OnSites => results' = results \cup out /\ outcomes' = outcomes
  BY DEF Delivers, Deliver, OnSites
<1>6. Outs' = Outs \cup out
  <2>1. CASE OnSites
    <3>1. /\ Len(outcomes) \in Nat /\ DOMAIN outcomes' = 1..(Len(outcomes) + 1) /\ DOMAIN outcomes = 1..Len(outcomes)
          /\ outcomes'[Len(outcomes) + 1] = out
          /\ \A k \in DOMAIN outcomes : outcomes'[k] = outcomes[k] /\ k \in DOMAIN outcomes'
          /\ \A k \in DOMAIN outcomes' : k \in DOMAIN outcomes \/ k = Len(outcomes) + 1
      BY <1>3, <1>5, <2>1
    <3>2. UNION {outcomes'[k] : k \in DOMAIN outcomes'} = (UNION {outcomes[k] : k \in DOMAIN outcomes}) \cup out
      <4>1. Len(outcomes) + 1 \in DOMAIN outcomes'
        BY <3>1
      <4> QED BY <3>1, <4>1
    <3> QED BY <1>5, <2>1, <3>2 DEF Outs
  <2>2. CASE ~OnSites
    BY <1>5, <2>2 DEF Outs
  <2> QED BY <2>1, <2>2
<1>7. Shape'
  <2>1. Batches(program, pos)' = Batches(program, pos)
    BY <1>2 DEF Batches, Within, Selected, Modes
  <2>2. results' \subseteq ResultSet /\ outcomes' \in Seq(SUBSET ResultSet)
    <3>1. out \in SUBSET ResultSet
      BY DEF GoodOutcome
    <3>2. Append(outcomes, out) \in Seq(SUBSET ResultSet)
      BY <1>3, <3>1
    <3> QED BY <1>3, <1>5, <3>1, <3>2
  <2> QED BY <1>1, <1>2, <1>4, <2>1, <2>2, SameMode DEF Shape, PlanIs, Delivers, Alone, Within
<1>8. Work'
  <2>1. WorkerOK(w)' /\ wk'[w].batch = <<>>
    BY <1>2 DEF WorkerOK, Idle
  <2> QED BY <1>1, <1>2, <2>1, WorkKeeps DEF Delivers
<1>9. Phases'
  BY <1>1, <1>2, <1>5, PhasesKeep DEF Delivers
<1>10. \A id : Waiting(id)' <=> Waiting(id) /\ id \notin Ids(wk[w].batch)
  <2>1. \A id \in Ids(wk[w].batch) : /\ \A k \in DOMAIN queue : id \notin Ids(queue[k])
                                     /\ \A v \in Workers : v # w => id \notin Ids(wk[v].batch)
    BY <1>1 DEF Work, Apart
  <2>2. Ids(wk'[w].batch) = {}
    BY <1>2 DEF Idle, Ids
  <2>3. \A v \in Workers : v # w => wk'[v].batch = wk[v].batch
    BY <1>2 DEF Alone
  <2> QED BY <2>1, <2>2, <2>3 DEF Waiting, Delivers
<1>11. \A id \in Ids(wk[w].batch) : Waiting(id)
  BY DEF Waiting
<1>12. \A r \in out : Current(r) /\ r.id \in Ids(wk[w].batch)
  BY DEF GoodOutcome
<1>13. Accounts'
  <2>1. CountsLater' \/ \A c \in Checks' : Waiting(c.id)' \/ Settled(c.id)'
    <3> SUFFICES ASSUME ~CountsLater, NEW c \in Checks PROVE Waiting(c.id)' \/ Settled(c.id)'
      BY <1>2, SameMode
    <3>1. CASE c.id \in Ids(wk[w].batch)
      <4> PICK r \in out : r.id = c.id
        BY <3>1 DEF GoodOutcome
      <4>1. r \in Outs' /\ Current(r)'
        BY <1>2, <1>6, <1>12, SameMode
      <4> QED BY <4>1 DEF Settled
    <3>2. CASE c.id \notin Ids(wk[w].batch)
      <4>1. Waiting(c.id) \/ Settled(c.id)
        BY <1>1 DEF Accounts
      <4>2. Settled(c.id) => Settled(c.id)'
        BY <1>2, <1>6, SameMode DEF Settled
      <4> QED BY <3>2, <4>1, <4>2, <1>10
    <3> QED BY <3>1, <3>2
  <2>2. \A r \in Outs' : Current(r)' => ~Waiting(r.id)'
    BY <1>1, <1>2, <1>6, <1>10, <1>12, SameMode DEF Accounts
  <2>3. program'.name # "tier" => \A r, x \in Outs' : r.mode = x.mode /\ r.id = x.id => r.kind = x.kind
    <3>1. \A r \in Outs, x \in out : ~(r.mode = x.mode /\ r.id = x.id)
      <4> SUFFICES ASSUME NEW r \in Outs, NEW x \in out, r.mode = x.mode, r.id = x.id PROVE FALSE
        OBVIOUS
      <4>1. r.try = pos.try
        BY <1>1 DEF ResultsOK, ResultOK
      <4>2. Current(r)
        BY <4>1, <1>12 DEF Current
      <4> QED BY <4>2, <1>1, <1>11, <1>12 DEF Accounts
    <3>2. \A r, x \in out : r.id = x.id => r.kind = x.kind
      BY DEF GoodOutcome
    <3>3. program.name # "tier" => \A r, x \in Outs : r.mode = x.mode /\ r.id = x.id => r.kind = x.kind
      BY <1>1 DEF Accounts
    <3> QED BY <3>1, <3>2, <3>3, <1>2, <1>6 DEF Within
  <2> QED BY <2>1, <2>2, <2>3 DEF Accounts
<1>14. ResultsOK'
  <2>1. \A v \in Workers : \A c \in wk'[v].read : Known(c)
    BY <1>1, <1>2 DEF Alone, ResultsOK, Idle
  <2>2. \A c \in callbacks' \cup rows' : Known(c)
    BY <1>1 DEF Delivers, ResultsOK
  <2>3. \A r \in Outs' : ResultOK(r) \/ ResultOK(r)'
    BY <1>1, <1>6 DEF ResultsOK, GoodOutcome
  <2> QED BY <1>2, <2>1, <2>2, <2>3, ResultsKeep DEF Within
<1>15. Records'
  <2>1. results \subseteq results' /\ (OnSites => results' = results)
    BY <1>5
  <2> QED BY <1>1, <1>2, <2>1, RecordsKeep DEF Delivers
<1>16. Observed'
  <2>1. \A r \in out : ~(r.mode < pos.mode)
    <3>1. pos.mode \in Nat
      BY <1>3, ProgramFacts DEF Places, ProgramOK
    <3> QED BY <1>12, <3>1 DEF Current
  <2>2. \A r : r.mode < pos.mode => (r \in results <=> r \in results')
    BY <1>5, <2>1
  <2> QED BY <1>1, <1>2, <2>2, ObservedKeep DEF Delivers
<1> QED BY <1>4, <1>7, <1>8, <1>9, <1>13, <1>14, <1>15, <1>16 DEF VeriflierInv

\* A result of a check of the mode, with the URL it asked for.
IsResult(r, c) ==
    /\ r \in ResultSet /\ r.try = pos.try /\ r.mode = pos.mode /\ r.id = c.id /\ r.asked = c.url
    /\ r.url = c.url \/ Left(c.id)

LEMMA ResultIs ==
  ASSUME program \in Programs, pos \in Places, NEW c \in CheckSet, NEW kind \in Kinds,
         NEW u \in Nat, u = c.url \/ Left(c.id)
  PROVE  IsResult(Result(c, kind, u), c) /\ Result(c, kind, u).kind = kind
<1>1. pos.mode \in Nat /\ pos.try \in Nat
  BY ProgramFacts DEF Places, ProgramOK
<1> PICK t, m : t = pos.try /\ m = pos.mode
  OBVIOUS
<1> PICK r : r = [try |-> t, mode |-> m, id |-> c.id, kind |-> kind, asked |-> c.url, url |-> u]
  OBVIOUS
<1>2. Result(c, kind, u) = r
  BY DEF Result
<1>3. c.id \in Nat /\ c.url \in Nat /\ t \in Nat /\ m \in Nat
  BY <1>1 DEF CheckSet
<1>4. r \in ResultSet /\ r.try = t /\ r.mode = m /\ r.id = c.id /\ r.asked = c.url /\ r.url = u /\ r.kind = kind
  BY <1>3 DEF ResultSet
<1> QED BY <1>2, <1>4 DEF IsResult

\* The result that convertV1Rows gives a check.
Converted(c, read) ==
    LET mine == {r \in read : r.id = c.id}
    IN  IF mine = {} THEN Result(c, "missing", c.url) ELSE Result(c, "completed", (CHOOSE r \in mine : TRUE).url)

\* A row that a check of this execution or of an earlier one brought.
Rowed(x) == x.url \in Nat /\ (Left(x.id) \/ \E m \in DOMAIN Modes : Asks(m, x.id, x.url))

\* A row that was read is of the URL its check asked for.
LEMMA ConvertedIs ==
  ASSUME program \in Programs, pos \in Places, NEW c \in CheckSet, Asks(pos.mode, c.id, c.url),
         NEW read, \A x \in read : Rowed(x)
  PROVE  LET r == Converted(c, read)
         IN  IsResult(r, c) /\ r.kind \in {"completed", "missing"} /\ (r.kind = "completed" => \E x \in read : x.id = c.id)
<1> PICK mine : mine = {r \in read : r.id = c.id}
  OBVIOUS
<1>1. CASE mine = {}
  <2>1. Converted(c, read) = Result(c, "missing", c.url)
    BY <1>1 DEF Converted
  <2>2. IsResult(Result(c, "missing", c.url), c) /\ Result(c, "missing", c.url).kind = "missing"
    BY ResultIs DEF Kinds, CheckSet
  <2> QED BY <2>1, <2>2
<1>2. CASE mine # {}
  <2> PICK x : x = CHOOSE r \in mine : TRUE
    OBVIOUS
  <2>1. x \in read /\ x.id = c.id
    BY <1>2
  <2>2. x.url = c.url \/ Left(c.id)
    <3> SUFFICES ASSUME ~Left(x.id) PROVE x.url = c.url
      BY <2>1
    <3>1. PICK m \in DOMAIN Modes : Asks(m, x.id, x.url)
      BY <2>1 DEF Rowed
    <3>2. pos.mode \in DOMAIN Modes /\ Asks(m, c.id, x.url)
      BY <2>1, <3>1 DEF Places
    <3> QED BY <3>2, AsksOnce
  <2> PICK u \in Nat : u = x.url
    BY <2>1 DEF Rowed
  <2>3. Converted(c, read) = Result(c, "completed", u)
    BY <1>2 DEF Converted
  <2>4. IsResult(Result(c, "completed", u), c) /\ Result(c, "completed", u).kind = "completed"
    BY <2>2, ResultIs DEF Kinds
  <2> QED BY <2>1, <2>3, <2>4
<1> QED BY <1>1, <1>2

\* Results of a batch that were converted are a good outcome.
LEMMA ConvertedBatch ==
  ASSUME VeriflierInv, NEW w \in Workers, BatchOK(wk[w].batch), Within, JobsStay,
         NEW read, \A x \in read : Rowed(x), NEW mode, mode = pos.mode,
         \A x \in read : x.id \in Ids(wk[w].batch) => OnSites \/ HasJob(mode, x.id) \/ HasJob(mode, x.id)' \/ Left(x.id)
  PROVE  GoodOutcome(w, convertV1Rows(Range(wk[w].batch), read))
<1> PICK b, out : b = wk[w].batch /\ out = convertV1Rows(Range(wk[w].batch), read)
  OBVIOUS
<1>1. program \in Programs /\ pos \in Places /\ pos.mode \in DOMAIN Modes /\ pos.mode \in Nat
  BY ProgramFacts DEF VeriflierInv, Shape, Places, ProgramOK
<1>2. /\ b \in Seq(CheckSet) /\ \A i \in DOMAIN b : b[i] \in CheckSet /\ Asks(pos.mode, b[i].id, b[i].url) /\ b[i].id \in Ids(b)
      /\ \A i, k \in DOMAIN b : b[i].id = b[k].id => i = k
  BY DEF BatchOK, GoodBatch, Ids
<1>3. /\ \A r \in out : \E i \in DOMAIN b : r = Converted(b[i], read)
      /\ \A i \in DOMAIN b : Converted(b[i], read) \in out
  <2>1. out = {Converted(c, read) : c \in Range(b)}
    BY DEF convertV1Rows, Converted
  <2> QED BY <2>1 DEF Range
<1>4. \A i \in DOMAIN b : LET r == Converted(b[i], read)
                         IN  /\ IsResult(r, b[i]) /\ r.kind \in {"completed", "missing"}
                             /\ r.kind = "completed" => \E x \in read : x.id = b[i].id
  BY <1>1, <1>2, ConvertedIs
<1>5. ASSUME NEW r \in out
      PROVE  r \in ResultSet /\ Current(r) /\ r.id \in Ids(b) /\ ResultOK(r)'
  <2>1. PICK i \in DOMAIN b : r = Converted(b[i], read)
    BY <1>3
  <2>2. IsResult(r, b[i]) /\ (r.kind = "completed" => \E x \in read : x.id = b[i].id)
    BY <1>4, <2>1
  <2>3. r.kind = "completed" => OnSites \/ HasJob(mode, r.id)' \/ Left(r.id)
    <3>1. r.id = b[i].id /\ r.id \in Ids(b)
      BY <1>2, <2>2 DEF IsResult
    <3> QED BY <2>2, <3>1 DEF JobsStay
  <2>4. Asks(mode, r.id, r.asked) /\ (r.url = r.asked \/ Left(r.id)) /\ r.try = pos.try /\ r.mode = mode
    BY <1>2, <2>2 DEF IsResult
  <2>5. ResultOK(r)'
    <3>1. Asks(r.mode, r.id, r.asked)' /\ r.mode \in DOMAIN Modes'
      BY <1>1, <2>4, SameMode
    <3>2. r.kind = "completed" => OnSites' \/ HasJob(r.mode, r.id)' \/ Left(r.id)'
      BY <2>3, <2>4, SameMode DEF Left, Within
    <3> QED BY <3>1, <3>2, <2>4, <1>1 DEF ResultOK, Left, Within
  <2> QED BY <2>2, <2>4, <2>5, <1>2 DEF IsResult, Current
<1>6. \A r, x \in out : r.id = x.id => r = x
  <2> SUFFICES ASSUME NEW r \in out, NEW x \in out, r.id = x.id PROVE r = x
    OBVIOUS
  <2> PICK i \in DOMAIN b : r = Converted(b[i], read)
    BY <1>3
  <2> PICK k \in DOMAIN b : x = Converted(b[k], read)
    BY <1>3
  <2>1. b[i].id = b[k].id
    BY <1>4 DEF IsResult
  <2>2. i = k
    BY <1>2, <2>1
  <2> QED BY <2>2
<1>7. \A id \in Ids(b) : \E r \in out : r.id = id
  <2> SUFFICES ASSUME NEW i \in DOMAIN b PROVE \E r \in out : r.id = b[i].id
    BY DEF Ids
  <2> PICK r : r = Converted(b[i], read)
    OBVIOUS
  <2>1. r \in out /\ r.id = b[i].id
    BY <1>3, <1>4 DEF IsResult
  <2> QED BY <2>1
<1> QED BY <1>5, <1>6, <1>7 DEF GoodOutcome

\* The rows a worker reads are of checks that were made.
LEMMA ReadBatch ==
  ASSUME VeriflierInv, NEW w \in Workers, BatchOK(wk[w].batch), Within, JobsStay,
         NEW read, \A x \in read : Known(x)
  PROVE  GoodOutcome(w, convertV1Rows(Range(wk[w].batch), read))
<1> PICK b, mode : b = wk[w].batch /\ mode = pos.mode
  OBVIOUS
<1>1. program \in Programs /\ mode \in DOMAIN Modes
  BY DEF VeriflierInv, Shape, Places
<1>2. \A x \in read : Rowed(x)
  BY DEF Known, Rowed, RowSet
<1>3. \A x \in read : x.id \in Ids(b) => OnSites \/ HasJob(mode, x.id) \/ Left(x.id)
  <2> SUFFICES ASSUME NEW x \in read, x.id \in Ids(b), ~OnSites, ~Left(x.id) PROVE HasJob(mode, x.id)
    OBVIOUS
  <2>1. PICK m \in DOMAIN Modes : Asks(m, x.id, x.url) /\ HasJob(m, x.id)
    BY DEF Known
  <2>2. PICK i \in DOMAIN b : b[i].id = x.id
    BY DEF Ids
  <2>3. Asks(mode, b[i].id, b[i].url)
    BY DEF BatchOK, GoodBatch
  <2> PICK id, u, v : id = x.id /\ u = x.url /\ v = b[i].url
    OBVIOUS
  <2>4. Asks(m, id, u) /\ Asks(mode, id, v)
    BY <2>1, <2>2, <2>3
  <2>5. m = mode
    BY <1>1, <2>4, AsksOnce
  <2> QED BY <2>1, <2>5
<1> QED BY <1>2, <1>3, ConvertedBatch

\* A delivery that no job is touched by.
LEMMA JobsUntouched ==
  ASSUME VeriflierInv, NEW w \in Workers, NEW out, Delivers(w, out), jobs' = jobs
  PROVE  Within /\ JobsOK' /\ JobsStay /\ jobs' \subseteq JobSet /\ IsFiniteSet(jobs') /\ BatchOK(wk[w].batch)
<1>1. Within /\ \A id : ToSend(id)' => ToSend(id)
  BY DeliversSends
<1>2. JobsOK' /\ JobsStay
  BY <1>1, JobsKeep DEF VeriflierInv
<1>3. jobs \subseteq JobSet /\ IsFiniteSet(jobs)
  BY DEF VeriflierInv, Shape
<1>4. BatchOK(wk[w].batch)
  BY AtWork DEF Delivers
<1> QED BY <1>1, <1>2, <1>3, <1>4

LEMMA AckV1OK ==
  ASSUME VeriflierInv, NEW w \in Workers, AckV1(w)
  PROVE  VeriflierInv'
<1>1. CASE program.name # "tier"
  BY <1>1, AckV1Waits, GoesOnOK
<1>2. CASE program.name = "tier"
  <2>1. Delivers(w, {})
    BY <1>2 DEF AckV1, Delivers
  <2>2. phase = "run" /\ Ep = "v1"
    BY AtWork DEF AckV1
  <2>3. GoodOutcome(w, {})
    BY <1>2, <2>2 DEF GoodOutcome, CountsLater
  <2>4. JobsOK' /\ JobsStay /\ jobs' \subseteq JobSet /\ IsFiniteSet(jobs')
    BY <2>1, JobsUntouched DEF AckV1
  <2> QED BY <2>1, <2>3, <2>4, DeliversOK
<1> QED BY <1>1, <1>2

LEMMA CallFailsOK ==
  ASSUME VeriflierInv, NEW w \in Workers, CallFails(w)
  PROVE  VeriflierInv'
<1> PICK b, out : b = wk[w].batch /\ out = transportFailures(wk[w].batch)
  OBVIOUS
<1>1. Delivers(w, out)
  BY DEF CallFails, Delivers
<1>2. Within /\ JobsOK' /\ JobsStay /\ jobs' \subseteq JobSet /\ IsFiniteSet(jobs') /\ BatchOK(b)
  BY <1>1, JobsUntouched DEF CallFails
<1>3. program \in Programs /\ pos \in Places /\ pos.mode \in DOMAIN Modes /\ pos.mode \in Nat
  BY ProgramFacts DEF VeriflierInv, Shape, Places, ProgramOK
<1>4. \A i \in DOMAIN b : b[i] \in CheckSet /\ Asks(pos.mode, b[i].id, b[i].url) /\ b[i].id \in Ids(b)
  BY <1>2 DEF BatchOK, GoodBatch, Ids
<1>5. /\ \A r \in out : \E i \in DOMAIN b : r = Result(b[i], "transport", b[i].url)
      /\ \A i \in DOMAIN b : Result(b[i], "transport", b[i].url) \in out
  BY DEF transportFailures, Range
<1>6. \A i \in DOMAIN b : LET r == Result(b[i], "transport", b[i].url) IN IsResult(r, b[i]) /\ r.kind = "transport"
  BY <1>3, <1>4, ResultIs DEF Kinds, CheckSet
<1>7. ASSUME NEW r \in out
      PROVE  r \in ResultSet /\ Current(r) /\ r.id \in Ids(b) /\ ResultOK(r)' /\ r.kind = "transport"
  <2>1. PICK i \in DOMAIN b : IsResult(r, b[i]) /\ r.kind = "transport"
    BY <1>5, <1>6
  <2>2. Asks(r.mode, r.id, r.asked) /\ (r.url = r.asked \/ Left(r.id)) /\ r.try = pos.try /\ r.mode = pos.mode
    BY <1>4, <2>1 DEF IsResult
  <2>3. ResultOK(r)'
    <3>1. Asks(r.mode, r.id, r.asked)' /\ r.mode \in DOMAIN Modes'
      BY <1>2, <1>3, <2>2, SameMode
    <3> QED BY <3>1, <2>1, <2>2, <1>2, <1>3 DEF ResultOK, Left, Within
  <2> QED BY <2>1, <2>2, <2>3, <1>4 DEF IsResult, Current
<1>8. \A id \in Ids(b) : \E r \in out : r.id = id
  <2> SUFFICES ASSUME NEW i \in DOMAIN b PROVE \E r \in out : r.id = b[i].id
    BY DEF Ids
  <2> PICK r : r = Result(b[i], "transport", b[i].url)
    OBVIOUS
  <2>1. r \in out /\ r.id = b[i].id
    BY <1>5, <1>6 DEF IsResult
  <2> QED BY <2>1
<1>9. GoodOutcome(w, out)
  BY <1>7, <1>8 DEF GoodOutcome
<1> QED BY <1>1, <1>2, <1>9, DeliversOK

LEMMA ResultsForIDsOK ==
  ASSUME VeriflierInv, NEW w \in Workers, ResultsForIDs(w)
  PROVE  VeriflierInv'
<1> PICK now : now = ReadIDs(Ids(wk[w].batch))
  OBVIOUS
<1>1. CASE ~(Cardinality(now) >= Len(wk[w].batch))
  BY <1>1, ResultsForIDsReads, GoesOnOK
<1>2. CASE Cardinality(now) >= Len(wk[w].batch)
  <2> PICK out : out = convertV1Rows(Range(wk[w].batch), now)
    OBVIOUS
  <2>1. Delivers(w, out)
    BY <1>2 DEF ResultsForIDs, Delivers
  <2>2. Within /\ JobsOK' /\ JobsStay /\ jobs' \subseteq JobSet /\ IsFiniteSet(jobs') /\ BatchOK(wk[w].batch)
    BY <2>1, JobsUntouched DEF ResultsForIDs
  <2>3. \A x \in now : Known(x)
    BY DEF ReadIDs, VeriflierInv, ResultsOK
  <2>4. GoodOutcome(w, out)
    BY <2>2, <2>3, ReadBatch
  <2> QED BY <2>1, <2>2, <2>4, DeliversOK
<1> QED BY <1>1, <1>2

LEMMA DrainDeadlineOK ==
  ASSUME VeriflierInv, NEW w \in Workers, DrainDeadline(w)
  PROVE  VeriflierInv'
<1> PICK read, out : read = wk[w].read /\ out = convertV1Rows(Range(wk[w].batch), wk[w].read)
  OBVIOUS
<1>1. Delivers(w, out)
  BY DEF DrainDeadline, Delivers
<1>2. Within /\ JobsOK' /\ JobsStay /\ jobs' \subseteq JobSet /\ IsFiniteSet(jobs') /\ BatchOK(wk[w].batch)
  BY <1>1, JobsUntouched DEF DrainDeadline
<1>3. \A x \in read : Known(x)
  BY DEF VeriflierInv, ResultsOK
<1>4. GoodOutcome(w, out)
  BY <1>2, <1>3, ReadBatch
<1> QED BY <1>1, <1>2, <1>4, DeliversOK

LEMMA AnswerV2OK ==
  ASSUME VeriflierInv, NEW w \in Workers, AnswerV2(w)
  PROVE  VeriflierInv'
<1> PICK made, mode : made = {j \in Mine(w) : j.seen} /\ mode = pos.mode
  OBVIOUS
<1> PICK read : read = {[id |-> j.id, url |-> j.url] : j \in made}
  OBVIOUS
<1> PICK out : out = convertV1Rows(Range(wk[w].batch), read)
  OBVIOUS
<1>1. Delivers(w, out)
  BY DEF AnswerV2, Delivers
<1>2. jobs' = (jobs \ made) \cup {[j EXCEPT !.told = TRUE] : j \in made}
  BY DEF AnswerV2
<1>3. Within /\ \A id : ToSend(id)' => ToSend(id)
  BY <1>1, DeliversSends
<1>4. made \subseteq jobs /\ \A j \in made : j.seen /\ j.mode = mode
  BY DEF Mine
<1>5. \A j \in jobs : j \in JobSet /\ JobOK(j)
  BY DEF VeriflierInv, Shape, JobsOK
<1> PICK f : f = [j \in jobs |-> IF j \in made THEN [j EXCEPT !.told = TRUE] ELSE j]
  OBVIOUS
<1>6. \A j \in made : LET k == [j EXCEPT !.told = TRUE]
                      IN  k \in jobs' /\ k.mode = mode /\ k.id = j.id /\ k.seen /\ k.told /\ Later(j, k)
  <2> TAKE j \in made
  <2> PICK k : k = [j EXCEPT !.told = TRUE]
    OBVIOUS
  <2>1. j \in JobSet /\ JobOK(j) /\ j.seen /\ j.mode = mode
    BY <1>4, <1>5
  <2>2. /\ k \in JobSet /\ k.try = j.try /\ k.mode = j.mode /\ k.id = j.id /\ k.url = j.url /\ k.seen = j.seen
        /\ k.noted = j.noted /\ k.told
    BY <2>1 DEF JobSet
  <2>3. Later(j, k)
    BY <2>1, <2>2 DEF Later, JobOK
  <2>4. k \in jobs'
    BY <1>2
  <2> QED BY <2>1, <2>2, <2>3, <2>4
<1>7. JobsGoOn(f)
  <2>1. \A j \in jobs : Later(j, f[j])
    <3> TAKE j \in jobs
    <3>1. CASE j \in made
      BY <3>1, <1>6
    <3>2. CASE j \notin made
      BY <3>2, <1>5 DEF Later, JobOK
    <3> QED BY <3>1, <3>2
  <2>2. jobs' = {f[j] : j \in jobs}
    BY <1>2, <1>4
  <2> QED BY <2>1, <2>2 DEF JobsGoOn
<1>8. JobsOK' /\ JobsStay /\ jobs' \subseteq JobSet /\ IsFiniteSet(jobs')
  BY <1>3, <1>7, JobsAdvance
<1>9. \A x \in read : Rowed(x) /\ HasJob(mode, x.id)'
  <2> TAKE x \in read
  <2> PICK j \in made : x = [id |-> j.id, url |-> j.url]
    OBVIOUS
  <2>1. x.id = j.id /\ x.url = j.url /\ JobOK(j) /\ j \in JobSet
    BY <1>4, <1>5
  <2>2. HasJob(mode, x.id)'
    BY <2>1, <1>6 DEF HasJob
  <2> QED BY <2>1, <2>2 DEF JobOK, Rowed, JobSet
<1>10. BatchOK(wk[w].batch)
  BY AtWork DEF AnswerV2
<1>11. GoodOutcome(w, out)
  BY <1>3, <1>8, <1>9, <1>10, ConvertedBatch
<1> QED BY <1>1, <1>8, <1>11, DeliversOK

-----------------------------------------------------------------------------
(* The main goroutine, within a mode *)

\* No batch moves, and no check is settled.
MainMoves ==
    /\ UNCHANGED <<program, pos, plan, queue, wk, limits, jobs, observed, report>>
    /\ writer' = writer \/ (writer = "open" /\ writer' = "failed")
    /\ sampler' \in {"on", "hung"}
    /\ phase # "done" /\ phase' \in {"start", "run", "drain"}
    /\ phase' = phase \/ \A w \in Workers : wk[w].pc = "idle"
    /\ Phases' /\ Records' /\ Observed' /\ Outs' = Outs
    /\ outcomes' \in Seq(SUBSET ResultSet) /\ results' \subseteq ResultSet
    /\ callbacks' \subseteq callbacks \/ \A c \in callbacks' : Known(c)
    /\ rows' \subseteq rows \cup callbacks
    /\ buffer' \subseteq RecordSet /\ file' \subseteq RecordSet

LEMMA MainMovesOK ==
  ASSUME VeriflierInv, MainMoves
  PROVE  VeriflierInv'
<1>1. /\ Shape /\ Work /\ Phases /\ Accounts /\ ResultsOK /\ JobsOK /\ Records /\ Limited /\ Observed
  BY DEF VeriflierInv
<1>2. Within
  BY DEF MainMoves, Within
<1>3. Shape'
  <2>1. Batches(program, pos)' = Batches(program, pos)
    BY <1>2 DEF Batches, Within, Selected, Modes
  <2>2. PlanIs'
    BY <1>1, <1>2, <2>1 DEF Shape, PlanIs, MainMoves, Within
  <2>3. callbacks' \subseteq RowSet
    BY <1>1 DEF Shape, MainMoves, Known
  <2> QED BY <1>1, <1>2, <2>2, <2>3, SameMode DEF Shape, MainMoves, Within
<1>4. Work'
  <2>1. \A i \in DOMAIN queue' : BatchOK(queue[i])'
    BY <1>1, <1>2, SameMode DEF Work, MainMoves
  <2>2. \A w \in Workers : WorkerOK(w)'
    <3> TAKE w \in Workers
    <3>1. WorkerOK(w) /\ wk' = wk
      BY <1>1 DEF Work, MainMoves
    <3>2. CASE wk[w].pc = "idle"
      BY <3>1, <3>2 DEF WorkerOK, Idle
    <3>3. CASE wk[w].pc # "idle"
      <4>1. phase' = phase
        BY <3>3 DEF MainMoves
      <4>2. BatchOK(wk[w].batch)' <=> BatchOK(wk[w].batch)
        BY <1>2, <3>1, SameMode
      <4> QED BY <3>1, <4>1, <4>2, <1>2, SameMode DEF WorkerOK
    <3> QED BY <3>2, <3>3
  <2> QED BY <2>1, <2>2, <1>1 DEF Work, MainMoves
<1>5. Accounts'
  <2>1. \A id : Waiting(id)' <=> Waiting(id)
    BY DEF Waiting, MainMoves
  <2> QED BY <1>1, <1>2, <2>1, AccountsKeep DEF MainMoves
<1>6. JobsOK' /\ JobsStay
  <2>1. \A id : ToSend(id)' => ToSend(id)
    BY DEF ToSend, Unsent, MainMoves
  <2> QED BY <1>1, <1>2, <2>1, JobsKeep DEF MainMoves
<1>7. ResultsOK'
  <2>1. \A r \in Outs' : ResultOK(r)
    BY <1>1 DEF ResultsOK, MainMoves
  <2>2. \A c \in callbacks' \cup rows' : Known(c)
    BY <1>1 DEF ResultsOK, MainMoves
  <2>3. \A w \in Workers : \A c \in wk'[w].read : Known(c)
    BY <1>1 DEF ResultsOK, MainMoves
  <2> QED BY <1>2, <1>6, <2>1, <2>2, <2>3, ResultsKeep DEF Within
<1>8. Limited'
  BY <1>1, <1>2, LimitedKeep DEF MainMoves
<1> QED BY <1>3, <1>4, <1>5, <1>6, <1>7, <1>8 DEF VeriflierInv, MainMoves

LEMMA CollectOK ==
  ASSUME VeriflierInv, Collect
  PROVE  VeriflierInv'
<1>1. /\ Shape /\ Phases /\ Records /\ Observed
  BY DEF VeriflierInv
<1>2. phase # "done" /\ OnSites /\ phase \in {"start", "run"} /\ outcomes \in Seq(SUBSET ResultSet) /\ outcomes # <<>>
  BY <1>1 DEF Phases, Shape, Collect
<1>3. Within
  BY <1>2 DEF Within, Collect
<1> PICK out : out = Head(outcomes)
  OBVIOUS
<1>4. /\ outcomes' \in Seq(SUBSET ResultSet) /\ out \subseteq ResultSet /\ 1 \in DOMAIN outcomes /\ out = outcomes[1]
      /\ \A k \in DOMAIN outcomes' : k + 1 \in DOMAIN outcomes /\ outcomes'[k] = outcomes[k + 1]
      /\ \A k \in DOMAIN outcomes : k # 1 => k - 1 \in DOMAIN outcomes' /\ outcomes'[k - 1] = outcomes[k]
  BY <1>2 DEF Collect
<1>5. /\ results' = results \cup out
      /\ writer = "open" => buffer' = buffer \cup {[mode |-> r.mode, url |-> r.asked] : r \in out}
      /\ writer # "open" => buffer' = buffer
  BY DEF Collect
<1>6. Outs' = Outs
  <2>1. \A x : (\E k \in DOMAIN outcomes : x \in outcomes[k]) <=> x \in out \/ \E k \in DOMAIN outcomes' : x \in outcomes'[k]
    <3> TAKE x
    <3>1. ASSUME \E k \in DOMAIN outcomes : x \in outcomes[k]
          PROVE  x \in out \/ \E k \in DOMAIN outcomes' : x \in outcomes'[k]
      <4> PICK k \in DOMAIN outcomes : x \in outcomes[k]
        BY <3>1
      <4>1. CASE k = 1
        BY <4>1, <1>4
      <4>2. CASE k # 1
        BY <4>2, <1>4
      <4> QED BY <4>1, <4>2
    <3>2. ASSUME x \in out \/ \E k \in DOMAIN outcomes' : x \in outcomes'[k]
          PROVE  \E k \in DOMAIN outcomes : x \in outcomes[k]
      BY <3>2, <1>4
    <3> QED BY <3>1, <3>2
  <2>2. \A x : x \in Outs <=> x \in results \/ \E k \in DOMAIN outcomes : x \in outcomes[k]
    BY DEF Outs
  <2>3. \A x : x \in Outs' <=> x \in results' \/ \E k \in DOMAIN outcomes' : x \in outcomes'[k]
    BY DEF Outs
  <2>4. \A x : x \in Outs <=> x \in Outs'
    BY <2>1, <2>2, <2>3, <1>5
  <2> QED BY <2>4
<1>7. Phases'
  <2>1. OnSites' /\ observed' = {} /\ phase' = phase
    BY <1>1, <1>2, <1>3, SameMode DEF Phases, Collect
  <2> QED BY <1>1, <1>2, <2>1 DEF Phases, Collect
<1>8. Records'
  <2>0. writer' = writer /\ pos' = pos /\ report' = report
    BY DEF Collect
  <2>1. \A r \in results' : r.mode = pos'.mode /\ writer' = "open" => [mode |-> r.mode, url |-> r.asked] \in file' \cup buffer'
    BY <1>1, <1>2, <1>5, <2>0 DEF Records, Collect
  <2>2. \A m \in DOMAIN Modes, i \in DOMAIN Selected : Past(m, i)' => Rec(m, i)' \in file' \/ Broken(m)'
    <3>1. \A m : Broken(m)' <=> Broken(m)
      BY <2>0 DEF Broken
    <3> QED BY <1>1, <1>2, <1>3, <3>1, SameMode DEF Records, Collect
  <2>3. Reported'
    BY <1>1, <1>5, <2>0 DEF Records, Reported
  <2>4. buffer' # {} => writer' = "open"
    BY <1>1, <1>5, <2>0 DEF Records
  <2> QED BY <2>1, <2>2, <2>3, <2>4, <1>2, <1>3, SameMode DEF Records, Within
<1>9. Observed'
  <2>1. observed = {} /\ observed' = {}
    BY <1>1, <1>2 DEF Phases, Collect
  <2> QED BY <2>1 DEF Observed, CompletedWasCounted
<1>10. results' \subseteq ResultSet /\ buffer' \subseteq RecordSet
  <2>1. \A r \in out : [mode |-> r.mode, url |-> r.asked] \in RecordSet
    BY <1>4 DEF ResultSet, RecordSet
  <2> QED BY <2>1, <1>1, <1>4, <1>5 DEF Shape
<1>11. MainMoves
  <2>1. file' \subseteq RecordSet /\ sampler' \in {"on", "hung"}
    BY <1>1 DEF Shape, Collect
  <2> QED BY <2>1, <1>2, <1>4, <1>6, <1>7, <1>8, <1>9, <1>10 DEF MainMoves, Collect
<1> QED BY <1>11, MainMovesOK

LEMMA FlushOK ==
  ASSUME VeriflierInv, Flush
  PROVE  VeriflierInv'
<1>1. /\ Shape /\ Phases /\ Records /\ Observed
  BY DEF VeriflierInv
<1>2. phase # "done" /\ OnSites
  BY <1>1 DEF Records, Flush
<1>3. Within
  BY <1>2 DEF Within, Flush
<1>4. Records'
  BY <1>1, <1>3, RecordsKeep DEF Flush
<1>5. Observed'
  BY <1>1, <1>3, ObservedKeep DEF Flush
<1>6. Phases'
  BY <1>1, <1>3, SameMode DEF Phases, Flush
<1>7. Outs' = Outs
  BY DEF Outs, Flush
<1>8. buffer' \subseteq RecordSet /\ file' \subseteq RecordSet /\ phase' \in {"start", "run", "drain"}
  BY <1>1, <1>2 DEF Shape, Flush
<1>9. MainMoves
  BY <1>1, <1>2, <1>4, <1>5, <1>6, <1>7, <1>8 DEF MainMoves, Flush, Shape
<1> QED BY <1>9, MainMovesOK

\* A write fails: what it leaves out of the file is no longer waited for.
LEMMA WriteFailsOK ==
  ASSUME VeriflierInv, WriteFails
  PROVE  VeriflierInv'
<1>1. /\ Shape /\ Phases /\ Records /\ Observed
  BY DEF VeriflierInv
<1>2. phase # "done" /\ OnSites /\ writer = "open" /\ writer' = "failed" /\ buffer' = {}
  BY <1>1 DEF Records, WriteFails
<1>3. Within
  BY <1>2 DEF Within, WriteFails
<1>4. file \subseteq file' /\ file' \subseteq file \cup buffer
  BY DEF WriteFails
<1>5. Records'
  BY <1>1, <1>2, <1>3, <1>4, RecordsKeep DEF WriteFails
<1>6. Observed'
  BY <1>1, <1>3, ObservedKeep DEF WriteFails
<1>7. Phases'
  BY <1>1, <1>3, SameMode DEF Phases, WriteFails
<1>8. Outs' = Outs
  BY DEF Outs, WriteFails
<1>9. buffer' \subseteq RecordSet /\ file' \subseteq RecordSet /\ phase' \in {"start", "run", "drain"}
  BY <1>1, <1>2, <1>4 DEF Shape, WriteFails
<1>10. MainMoves
  BY <1>1, <1>2, <1>5, <1>6, <1>7, <1>8, <1>9 DEF MainMoves, WriteFails, Shape
<1> QED BY <1>10, MainMovesOK

LEMMA HangOK ==
  ASSUME VeriflierInv, Hang
  PROVE  VeriflierInv'
<1>1. /\ Shape /\ Phases /\ Records /\ Observed
  BY DEF VeriflierInv
<1>2. phase # "done" /\ phase' = phase
  BY DEF Hang, Quiet
<1>3. Within
  BY <1>2 DEF Within, Hang
<1>4. Records'
  BY <1>1, <1>3, RecordsKeep DEF Hang
<1>5. Observed'
  BY <1>1, <1>3, ObservedKeep DEF Hang
<1>6. Phases'
  BY <1>1, <1>3, SameMode DEF Phases, Hang
<1>7. Outs' = Outs
  BY DEF Outs, Hang
<1>8. MainMoves
  BY <1>1, <1>2, <1>4, <1>5, <1>6, <1>7 DEF MainMoves, Hang, Shape
<1> QED BY <1>8, MainMovesOK

\* A callback for a check of an earlier execution.
LEMMA StaleCallbackOK ==
  ASSUME VeriflierInv, NEW id \in program.stale, StaleCallback(id)
  PROVE  VeriflierInv'
<1>1. /\ Shape /\ Phases /\ Records /\ Observed /\ ResultsOK
  BY DEF VeriflierInv
<1>2. phase # "done" /\ phase' = phase
  BY DEF StaleCallback
<1>3. Within
  BY <1>2 DEF Within, StaleCallback
<1>4. Records'
  BY <1>1, <1>3, RecordsKeep DEF StaleCallback
<1>5. Observed'
  BY <1>1, <1>3, ObservedKeep DEF StaleCallback
<1>6. Phases'
  BY <1>1, <1>3, SameMode DEF Phases, StaleCallback
<1>7. Outs' = Outs
  BY DEF Outs, StaleCallback
<1> PICK x : x = [id |-> id, url |-> 0]
  OBVIOUS
<1>8. Known(x)
  <2>1. id \in Nat
    BY <1>1, ProgramsAssumption DEF Shape
  <2>2. x \in RowSet /\ x.id = id
    BY <2>1 DEF RowSet
  <2> QED BY <2>2 DEF Known, Left
<1>9. callbacks' \subseteq callbacks \cup {x}
  BY DEF StaleCallback
<1>10. \A c \in callbacks' : Known(c)
  BY <1>1, <1>8, <1>9 DEF ResultsOK
<1>11. MainMoves
  BY <1>1, <1>2, <1>4, <1>5, <1>6, <1>7, <1>10 DEF MainMoves, StaleCallback, Shape
<1> QED BY <1>11, MainMovesOK

\* The results file cannot be opened: no check is made.
LEMMA OpenFailsOK ==
  ASSUME VeriflierInv, OpenFails
  PROVE  VeriflierInv'
<1>1. /\ Shape /\ Work /\ Phases /\ Accounts /\ ResultsOK /\ JobsOK /\ Records /\ Limited /\ Observed
  BY DEF VeriflierInv
<1>2. /\ OnSites /\ phase = "run" /\ phase' = "run" /\ plan' = <<>> /\ queue' = <<>> /\ writer' = "unopened"
      /\ \A w \in Workers : wk[w].pc = "idle"
  BY DEF OpenFails, OnSites
<1>3. /\ program' = program /\ pos' = pos /\ wk' = wk /\ outcomes' = outcomes /\ limits' = limits /\ jobs' = jobs
      /\ callbacks' = callbacks /\ rows' = rows /\ results' = results /\ buffer' = buffer /\ file' = file
      /\ observed' = observed /\ sampler' = sampler /\ report' = report
  BY DEF OpenFails
<1>4. /\ Modes' = Modes /\ Selected' = Selected /\ (OnSites' <=> OnSites) /\ Places' = Places
      /\ \A m, id, u : Asks(m, id, u)' <=> Asks(m, id, u)
  BY <1>3, SameProgram
<1>5. \A w \in Workers : wk'[w] = Idle /\ wk'[w].pc = "idle" /\ Ids(wk'[w].batch) = {}
  BY <1>1, <1>2, <1>3 DEF Work, WorkerOK, Idle, Ids
<1>6. Shape'
  <2>1. PlanIs'
    BY <1>2 DEF PlanIs
  <2>2. queue' \in Seq(Seq(CheckSet))
    BY <1>2
  <2> QED BY <1>1, <1>2, <1>3, <1>4, <2>1, <2>2 DEF Shape
<1>7. DOMAIN queue' = {}
  BY <1>2
<1>8. Work'
  <2>1. \A w \in Workers : WorkerOK(w)'
    BY <1>5 DEF WorkerOK, Idle
  <2>2. \A v, w \in Workers : Apart(wk'[v].batch, wk'[w].batch)
    BY <1>5 DEF Apart
  <2> QED BY <1>7, <2>1, <2>2 DEF Work
<1>9. Phases'
  BY <1>1, <1>2, <1>3, <1>4 DEF Phases
<1>10. Outs' = Outs /\ (\A id : ~Waiting(id)' /\ ~ToSend(id)') /\ Checks' = {}
  <2>1. Outs' = Outs
    BY <1>3 DEF Outs
  <2>2. \A id : ~Waiting(id)' /\ ~ToSend(id)'
    BY <1>5, <1>7 DEF Waiting, ToSend
  <2>3. Range(plan') = {}
    BY <1>2 DEF Range
  <2>4. Checks' = {}
    BY <2>3 DEF Checks
  <2> QED BY <2>1, <2>2, <2>4
<1>11. Accounts'
  BY <1>1, <1>3, <1>10 DEF Accounts
<1>12. JobsStay
  BY <1>3 DEF JobsStay, HasJob
<1>13. JobsOK'
  <2>1. \A j \in jobs' : JobOK(j)'
    BY <1>1, <1>3, <1>4, <1>10 DEF JobsOK, JobOK
  <2> QED BY <1>1, <1>3, <2>1 DEF JobsOK
<1>14. ResultsOK'
  BY <1>1, <1>3, <1>10, <1>12, ResultsKeep DEF ResultsOK
<1>15. Records'
  <2>2. \A m, i : (Past(m, i)' <=> Past(m, i)) /\ Rec(m, i)' = Rec(m, i) /\ (Broken(m)' <=> Broken(m))
    BY <1>2, <1>3, <1>4 DEF Past, Rec, Broken
  <2>3. Reported'
    BY <1>1, <1>3 DEF Records, Reported
  <2>4. buffer' = {}
    BY DEF OpenFails
  <2> QED BY <1>1, <1>2, <1>3, <1>4, <2>2, <2>3, <2>4 DEF Records
<1>16. Limited'
  <2>1. TokensHeld' = TokensHeld /\ \A h : Holders(h)' = Holders(h)
    BY <1>3 DEF TokensHeld, Holders
  <2> QED BY <1>1, <1>3, <1>4, <2>1 DEF Limited
<1>17. Observed'
  <2>1. observed' = {}
    BY <1>1, <1>2, <1>3 DEF Phases
  <2> QED BY <2>1 DEF Observed, CompletedWasCounted
<1> QED BY <1>6, <1>8, <1>9, <1>11, <1>13, <1>14, <1>15, <1>16, <1>17 DEF VeriflierInv

LEMMA ForgetRangeOK ==
  ASSUME VeriflierInv, ForgetRange
  PROVE  VeriflierInv'
<1>1. /\ Shape /\ Phases /\ Records /\ Observed /\ Work
  BY DEF VeriflierInv
<1>2. phase = "start" /\ phase' = "run" /\ \A w \in Workers : wk[w].pc = "idle"
  BY <1>1 DEF ForgetRange, Work, WorkerOK
<1>3. Within
  BY <1>2 DEF Within, ForgetRange
<1>4. Records'
  BY <1>1, <1>3, RecordsKeep DEF ForgetRange
<1>5. Observed'
  BY <1>1, <1>3, ObservedKeep DEF ForgetRange
<1>6. Phases'
  BY <1>1, <1>2, <1>3, PhasesKeep DEF ForgetRange
<1>7. Outs' = Outs
  BY DEF Outs, ForgetRange
<1>8. callbacks' \subseteq callbacks
  BY DEF ForgetRange, Forget
<1>9. MainMoves
  BY <1>1, <1>2, <1>4, <1>5, <1>6, <1>7, <1>8 DEF MainMoves, ForgetRange, Shape
<1> QED BY <1>9, MainMovesOK

LEMMA StartDrainOK ==
  ASSUME VeriflierInv, StartDrain
  PROVE  VeriflierInv'
<1>1. /\ Shape /\ Phases /\ Records /\ Observed
  BY DEF VeriflierInv
<1>2. /\ phase = "run" /\ phase' = "drain" /\ queue = <<>> /\ outcomes = <<>> /\ program.name = "tier"
      /\ \A w \in Workers : wk[w].pc = "idle"
  BY DEF StartDrain, Quiet
<1>3. Within
  BY <1>2 DEF Within, StartDrain
<1>4. Records'
  BY <1>1, <1>3, RecordsKeep DEF StartDrain
<1>5. Observed'
  BY <1>1, <1>3, ObservedKeep DEF StartDrain
<1>6. Phases'
  BY <1>1, <1>2, <1>3, SameMode DEF Phases, StartDrain
<1>7. Outs' = Outs
  BY DEF Outs, StartDrain
<1>8. MainMoves
  BY <1>1, <1>2, <1>4, <1>5, <1>6, <1>7 DEF MainMoves, StartDrain, Shape
<1> QED BY <1>8, MainMovesOK

LEMMA ResultsForRangeOK ==
  ASSUME VeriflierInv, ResultsForRange
  PROVE  VeriflierInv'
<1>1. /\ Shape /\ Phases /\ Records /\ Observed
  BY DEF VeriflierInv
<1>2. phase = "drain" /\ phase' = "drain" /\ rows' \subseteq callbacks
  BY DEF ResultsForRange, ReadIDs
<1>3. Within
  BY <1>2 DEF Within, ResultsForRange
<1>4. Records'
  BY <1>1, <1>3, RecordsKeep DEF ResultsForRange
<1>5. Observed'
  BY <1>1, <1>3, ObservedKeep DEF ResultsForRange
<1>6. Phases'
  BY <1>1, <1>2, <1>3, SameMode DEF Phases, ResultsForRange
<1>7. Outs' = Outs
  BY DEF Outs, ResultsForRange
<1>8. MainMoves
  BY <1>1, <1>2, <1>4, <1>5, <1>6, <1>7 DEF MainMoves, ResultsForRange, Shape
<1> QED BY <1>8, MainMovesOK

-----------------------------------------------------------------------------
(* A mode ends *)

\* The next mode starts with what Begin leaves.
LEMMA BeginOK ==
  ASSUME program \in Programs, program' = program, NEW q \in Places, Begin(q)
  PROVE  AtStart' /\ Started' /\ pos' = q
<1>1. pos' = q /\ Selected' = Selected /\ Modes' = Modes /\ Places' = Places
  BY SameProgram DEF Begin
<1>2. Batches(program, pos)' = Batches(program, q)
  BY <1>1 DEF Batches
<1>3. plan' = Batches(program, pos)' /\ queue' = plan' /\ wk' = [w \in Workers |-> Idle] /\ outcomes' = <<>>
      /\ limits' = NoLimits /\ rows' = {}
  BY <1>1, <1>2 DEF Begin
<1>4. phase' \in {"start", "run"} /\ (phase' = "start" => program'.name = "tier")
  BY DEF Begin, FirstPhase
<1>5. AtStart'
  BY <1>1, <1>3, <1>4 DEF AtStart
<1>6. Started'
  BY <1>5, StartedOK, PTL
<1> QED BY <1>1, <1>5, <1>6

\* What the new mode takes from the old one, when no job or result is of it.
Carried ==
    /\ jobs' = jobs /\ callbacks' \subseteq callbacks
    /\ \A j \in jobs : JobOK(j)' /\ ~Current(j)'
    /\ results' \subseteq ResultSet /\ \A r \in results' : ResultOK(r)' /\ ~Current(r)'
    /\ program.name # "tier" => \A r, x \in results' : r.mode = x.mode /\ r.id = x.id => r.kind = x.kind
    /\ buffer' = {} /\ file' \subseteq RecordSet /\ report' \subseteq ReportSet /\ Reported'
    /\ OnSites => \A m \in DOMAIN Modes, i \in DOMAIN Selected : Past(m, i)' => Rec(m, i) \in file' \/ Broken(m)'
    /\ observed' \subseteq [mode : Nat, requests : Nat] /\ (OnSites => observed' = {}) /\ Observed'

LEMMA CarriedOK ==
  ASSUME VeriflierInv, program' = program, NEW q \in Places, Begin(q), Carried
  PROVE  VeriflierInv'
<1>1. /\ Shape /\ ResultsOK /\ JobsOK /\ program \in Programs
  BY DEF VeriflierInv, Shape
<1>2. AtStart' /\ Started' /\ pos' = q
  BY <1>1, BeginOK
<1>3. /\ Work' /\ Limited' /\ queue' \in Seq(Seq(CheckSet)) /\ outcomes' \in Seq(SUBSET ResultSet)
      /\ wk' \in [Workers -> WorkerSet] /\ limits' \in [host : [Hosts -> Nat], tokens : Nat, mu : Nat]
      /\ \A c \in Checks' : Waiting(c.id)'
      /\ Outs' = results'
      /\ \A w \in Workers : wk'[w] = Idle
  BY <1>2 DEF Started
<1>4. phase' \in {"start", "run"} /\ (phase' = "start" => program'.name = "tier") /\ outcomes' = <<>> /\ rows' = {}
      /\ plan' = Batches(program, pos)' /\ pos' \in Places'
  BY <1>2 DEF AtStart
<1>5. Modes' = Modes /\ Selected' = Selected /\ (OnSites' <=> OnSites) /\ \A m, i : Rec(m, i)' = Rec(m, i)
  BY SameProgram DEF Rec
<1>6. Shape'
  <2>1. PlanIs' /\ writer' = "open" /\ sampler' = "on"
    BY <1>4 DEF PlanIs, Begin
  <2> QED BY <1>1, <1>3, <1>4, <2>1 DEF Shape, Carried
<1>7. Phases'
  BY <1>4, <1>5 DEF Phases, Carried
<1>8. Accounts'
  <2>1. \A r \in Outs' : Current(r)' => ~Waiting(r.id)'
    BY <1>3 DEF Carried
  <2>2. program'.name # "tier" => \A r, x \in Outs' : r.mode = x.mode /\ r.id = x.id => r.kind = x.kind
    BY <1>3 DEF Carried
  <2> QED BY <1>3, <2>1, <2>2 DEF Accounts
<1>9. JobsOK' /\ JobsStay
  BY <1>1 DEF JobsOK, Carried, JobsStay, HasJob
<1>10. ResultsOK'
  <2>1. \A c \in callbacks' \cup rows' : Known(c)'
    BY <1>1, <1>4, <1>9, KnownStays DEF ResultsOK, Carried
  <2>2. \A w \in Workers : \A c \in wk'[w].read : Known(c)'
    BY <1>3 DEF Idle
  <2>3. \A r \in Outs' : ResultOK(r)'
    BY <1>3 DEF Carried
  <2> QED BY <2>1, <2>2, <2>3 DEF ResultsOK
<1>11. Records'
  <2>1. \A r \in results' : r.mode # pos'.mode
    BY DEF Carried, ResultOK, Current
  <2> QED BY <1>5, <2>1 DEF Records, Carried
<1> QED BY <1>3, <1>6, <1>7, <1>8, <1>9, <1>10, <1>11 DEF VeriflierInv, Carried

\* The checks of a mode ask what the mode asks, and on sites are those that are
\* not skipped, unless the results file could not be opened.
LEMMA ChecksAre ==
  ASSUME VeriflierInv
  PROVE  /\ \A c \in Checks : c \in CheckSet /\ Asks(pos.mode, c.id, c.url)
         /\ OnSites /\ writer # "unopened" => \A i \in DOMAIN Selected : i > pos.skip => \E c \in Checks : c.id = i
<1>1. CASE plan = <<>> /\ writer = "unopened"
  <2>1. Range(plan) = {}
    BY <1>1 DEF Range
  <2>2. Checks = {}
    BY <2>1 DEF Checks
  <2> QED BY <1>1, <2>2
<1>2. CASE plan = Batches(program, pos)
  <2>1. PlanGood(plan, pos)
    BY <1>2, PlanFacts DEF VeriflierInv, Shape
  <2>2. \A k \in DOMAIN plan : \A i \in DOMAIN plan[k] : plan[k][i] \in Checks
    BY DEF Checks, Range
  <2>3. \A c \in Checks : \E k \in DOMAIN plan : \E i \in DOMAIN plan[k] : c = plan[k][i]
    BY DEF Checks, Range
  <2>4. \A k \in DOMAIN plan : /\ plan[k] \in Seq(CheckSet)
                               /\ \A i \in DOMAIN plan[k] : plan[k][i] \in CheckSet /\ Asks(pos.mode, plan[k][i].id, plan[k][i].url)
    <3> TAKE k \in DOMAIN plan
    <3>1. GoodBatch(plan[k], pos.mode)
      BY <2>1 DEF PlanGood
    <3> QED BY <3>1 DEF GoodBatch
  <2>5. OnSites => \A i \in DOMAIN Selected : i > pos.skip => \E c \in Checks : c.id = i
    <3> SUFFICES ASSUME OnSites, NEW i \in DOMAIN Selected, i > pos.skip PROVE \E c \in Checks : c.id = i
      OBVIOUS
    <3>1. PICK k \in DOMAIN plan : \E j \in DOMAIN plan[k] : plan[k][j].id = i
      BY <2>1 DEF PlanGood
    <3> QED BY <3>1, <2>2
  <2> QED BY <2>3, <2>4, <2>5
<1> QED BY <1>1, <1>2 DEF VeriflierInv, Shape, PlanIs

\* The checks of mode m in attempt t that completed by the results R.
CompletedIDs(R, t, m) == {r.id : r \in {x \in R : x.try = t /\ x.mode = m /\ x.kind = "completed"}}

\* The result of a mode tells what there is a result of.
LEMMA ReportedOK ==
  ASSUME VeriflierInv, modeResult, results \subseteq results', \A c \in Checks : \E r \in results' : Current(r) /\ r.id = c.id
  PROVE  /\ report' \subseteq ReportSet /\ Reported' /\ \A m : Broken(m) => Broken(m)'
         /\ writer # "open" => \A m : m = pos.mode => Broken(m)'
<1> PICK ids, b, mode : ids = {c.id : c \in Checks} /\ b = (writer # "open") /\ mode = pos.mode
  OBVIOUS
<1> PICK e : e = [mode |-> mode, ids |-> ids, noted |-> b]
  OBVIOUS
<1>1. report' = report \cup {e}
  BY DEF modeResult
<1>2. e.mode = mode /\ e.ids = ids /\ e.noted = b /\ b \in BOOLEAN
  OBVIOUS
<1>3. ids \in SUBSET Nat /\ mode \in Nat
  <2>1. \A c \in Checks : c.id \in Nat
    BY ChecksAre DEF CheckSet
  <2>2. mode \in Nat
    BY ProgramFacts DEF VeriflierInv, Shape, Places, ProgramOK
  <2> QED BY <2>1, <2>2
<1>4. e \in ReportSet
  BY <1>2, <1>3 DEF ReportSet
<1>5. report \subseteq ReportSet /\ Reported
  BY DEF VeriflierInv, Shape, Records
<1>6. \A id \in ids : \E r \in results' : r.mode = mode /\ r.id = id
  BY DEF Current
<1>7. Reported'
  <2> SUFFICES ASSUME NEW x \in report', NEW id \in x.ids PROVE \E r \in results' : r.mode = x.mode /\ r.id = id
    BY DEF Reported
  <2>1. CASE x \in report
    BY <2>1, <1>5 DEF Reported
  <2>2. CASE x = e
    BY <2>2, <1>2, <1>6
  <2> QED BY <2>1, <2>2, <1>1
<1>8. \A m : Broken(m) => Broken(m)'
  BY <1>1 DEF Broken
<1>9. ASSUME writer # "open" PROVE \E x \in report' : x.mode = mode /\ x.noted
  <2>1. e \in report' /\ e.mode = mode /\ e.noted
    BY <1>1, <1>2, <1>9
  <2> QED BY <2>1
<1>10. writer # "open" => Broken(mode)'
  BY <1>9 DEF Broken
<1> QED BY <1>1, <1>4, <1>5, <1>7, <1>8, <1>10

\* The end of a mode: every check has its result, every result its record, and
\* what the target counted is no less than what completed.
Ends ==
    /\ UNCHANGED <<program, jobs, callbacks>> /\ NextMode /\ modeResult /\ results \subseteq results'
    /\ queue = <<>> /\ outcomes = <<>> /\ \A w \in Workers : wk[w].pc = "idle"
    /\ results' \subseteq ResultSet /\ \A r \in results' : ResultOK(r)
    /\ program.name # "tier" => \A r, x \in results' : r.mode = x.mode /\ r.id = x.id => r.kind = x.kind
    /\ \A c \in Checks : \E r \in results' : Current(r) /\ r.id = c.id
    /\ buffer' = {} /\ file' \subseteq RecordSet
    /\ OnSites => \A m \in DOMAIN Modes, i \in DOMAIN Selected : m <= pos.mode => Rec(m, i) \in file' \/ Broken(m)'
    /\ OnSites => \A r \in results' : r.mode = pos.mode /\ writer = "open" => [mode |-> r.mode, url |-> r.asked] \in file'
    /\ observed' \subseteq [mode : Nat, requests : Nat] /\ (OnSites => observed' = {})
    /\ \A o \in observed' : o.mode \in DOMAIN Modes /\ o.mode <= pos.mode
    /\ program.name = "fixture" /\ program.buffered =>
         \A o \in observed' : Cardinality(CompletedIDs(results', pos.try, o.mode) \ program.stale) <= o.requests

LEMMA EndsOK ==
  ASSUME VeriflierInv, Ends
  PROVE  VeriflierInv'
<1>1. /\ Shape /\ Work /\ Phases /\ Accounts /\ ResultsOK /\ JobsOK /\ Records /\ Limited /\ Observed
  BY DEF VeriflierInv
<1>2. program \in Programs /\ program' = program /\ pos \in Places /\ ProgramOK
  BY <1>1, ProgramFacts DEF Shape, Ends
<1>3. /\ Modes' = Modes /\ Selected' = Selected /\ (OnSites' <=> OnSites) /\ Places' = Places
      /\ \A m, i : Rec(m, i)' = Rec(m, i)
      /\ \A m, id, u : Asks(m, id, u)' <=> Asks(m, id, u)
  BY <1>2, SameProgram DEF Rec
<1>4. Modes \in Seq(Range(AllModes)) /\ Len(Modes) \in Nat /\ DOMAIN Modes = 1..Len(Modes)
  BY <1>2 DEF ProgramOK
<1>5. pos.mode \in 1..Len(Modes) /\ pos.try \in Nat
  BY <1>2, <1>4 DEF Places
<1>6. \A w \in Workers : wk[w] = Idle
  BY <1>1 DEF Work, WorkerOK, Ends
<1>7. \A r \in results' : r.try = pos.try /\ r.mode \in DOMAIN Modes /\ r.mode <= pos.mode
  BY DEF Ends, ResultOK
<1>8. \A j \in jobs : j.mode \in DOMAIN Modes /\ (j.try < pos.try \/ (j.try = pos.try /\ j.mode <= pos.mode))
  BY <1>1 DEF JobsOK, JobOK
<1>9. JobsStay
  BY DEF Ends, JobsStay, HasJob
<1>12. report' \subseteq ReportSet /\ Reported'
  BY ReportedOK DEF Ends
<1>13. ASSUME pos'.try = pos.try PROVE CompletedWasCounted'
  <2>1. \A m : Of(m, "completed")' = CompletedIDs(results', pos.try, m)
    BY <1>13 DEF Of, CompletedIDs
  <2> QED BY <1>2, <2>1 DEF CompletedWasCounted, Ends
<1>10. CASE pos.mode < Len(Modes)
  <2> PICK q : q = [pos EXCEPT !.mode = @ + 1, !.skip = 0]
    OBVIOUS
  <2>1. Begin(q)
    BY <1>10 DEF Ends, NextMode
  <2>2. q \in Places /\ q.try = pos.try /\ q.mode = pos.mode + 1 /\ q.skip = 0
    <3> PICK x, z, n : x = pos /\ n = pos.mode + 1 /\ z = [x EXCEPT !.mode = n]
      OBVIOUS
    <3>1. x \in Places /\ n \in DOMAIN Modes /\ q = [z EXCEPT !.skip = 0] /\ 0 \in 0..Len(Selected)
      <4>1. Selected \in Seq(DumpRow)
        BY <1>2 DEF ProgramOK
      <4>2. 0 \in 0..Len(Selected)
        BY <4>1
      <4>3. n \in DOMAIN Modes
        BY <1>4, <1>5, <1>10
      <4>4. q = [z EXCEPT !.skip = 0]
        OBVIOUS
      <4> QED BY <1>2, <4>2, <4>3, <4>4
    <3>2. z \in Places /\ z.try = x.try /\ z.mode = n
      BY <3>1 DEF Places
    <3>3. q \in Places /\ q.try = z.try /\ q.mode = z.mode /\ q.skip = 0
      BY <3>1, <3>2 DEF Places
    <3> QED BY <3>2, <3>3
  <2>3. pos' = q
    BY <2>1 DEF Begin
  <2>4. \A x : x.mode \in DOMAIN Modes /\ x.mode <= pos.mode => x.mode <= q.mode /\ x.mode < q.mode /\ x.mode # q.mode
    BY <1>4, <1>5, <2>2
  <2>5. \A j \in jobs : JobOK(j)' /\ ~Current(j)'
    <3> TAKE j \in jobs
    <3>1. JobOK(j)
      BY <1>1 DEF JobsOK
    <3>2. ~Current(j)'
      BY <1>5, <1>8, <2>2, <2>3, <2>4 DEF Current
    <3>3. j.try < pos'.try \/ (j.try = pos'.try /\ j.mode <= pos'.mode)
      BY <1>8, <2>2, <2>3, <2>4
    <3>4. ~OnSites' /\ program'.buffered /\ j.seen => j.noted
      BY <1>2, <1>3, <3>1 DEF JobOK
    <3>5. j.mode \in DOMAIN Modes' /\ Asks(j.mode, j.id, j.url)'
      BY <1>3, <3>1 DEF JobOK
    <3> QED BY <3>2, <3>3, <3>4, <3>5 DEF JobOK
  <2>6. \A r \in results' : ResultOK(r)' /\ ~Current(r)'
    <3> TAKE r \in results'
    <3>1. ResultOK(r) /\ r.mode <= q.mode /\ r.mode # q.mode
      BY <1>7, <2>4 DEF Ends
    <3>2. ResultOK(r)'
      BY <1>2, <1>3, <1>9, <2>2, <2>3, <3>1 DEF ResultOK, JobsStay, Left
    <3> QED BY <2>3, <3>1, <3>2 DEF Current
  <2>7. OnSites => \A m \in DOMAIN Modes, i \in DOMAIN Selected : Past(m, i)' => Rec(m, i) \in file' \/ Broken(m)'
    <3> SUFFICES ASSUME OnSites, NEW m \in DOMAIN Modes, NEW i \in DOMAIN Selected, Past(m, i)'
                 PROVE  Rec(m, i) \in file' \/ Broken(m)'
      OBVIOUS
    <3>1. phase' # "done"
      BY <2>1 DEF Begin, FirstPhase
    <3>2. i \in Nat /\ i > 0
      BY <1>2 DEF ProgramOK
    <3>3. m < q.mode
      BY <2>2, <2>3, <3>1, <3>2 DEF Past
    <3>4. m <= pos.mode
      BY <1>4, <1>5, <2>2, <3>3
    <3> QED BY <3>4 DEF Ends
  <2>8. Observed'
    <3>1. \A o \in observed' : o.mode \in DOMAIN Modes' /\ o.mode < pos'.mode
      BY <1>3, <2>3, <2>4 DEF Ends
    <3>2. CompletedWasCounted'
      BY <1>13, <2>2, <2>3
    <3> QED BY <3>1, <3>2 DEF Observed
  <2>9. Carried
    BY <1>12, <2>5, <2>6, <2>7, <2>8 DEF Carried, Ends
  <2> QED BY <1>2, <2>1, <2>2, <2>9, CarriedOK
<1>11. CASE ~(pos.mode < Len(Modes))
  <2>1. phase' = "done" /\ UNCHANGED <<pos, plan, queue, wk, outcomes, limits, rows, writer, sampler>>
    BY <1>11 DEF Ends, NextMode
  <2>2. pos.mode = Len(Modes)
    BY <1>4, <1>5, <1>11
  <2>3. Shape'
    <3>1. Batches(program, pos)' = Batches(program, pos)
      BY <1>2, <1>3, <2>1 DEF Batches
    <3>2. PlanIs'
      BY <1>1, <2>1, <3>1 DEF Shape, PlanIs
    <3> QED BY <1>1, <1>2, <1>3, <1>12, <2>1, <3>2 DEF Shape, Ends
  <2>4. Work'
    <3>1. \A w \in Workers : wk'[w] = Idle /\ wk'[w].pc = "idle"
      BY <1>6, <2>1 DEF Idle
    <3>2. \A w \in Workers : WorkerOK(w)'
      BY <3>1 DEF WorkerOK, Idle
    <3> QED BY <1>1, <2>1, <3>2 DEF Work, Ends
  <2>5. Phases'
    BY <1>2, <1>3, <2>1, <2>2 DEF Phases, Ends
  <2>6. \A r : Current(r)' <=> Current(r)
    BY <2>1 DEF Current
  <2>7. Outs' = results' /\ \A id : ~Waiting(id)' /\ ~ToSend(id)'
    <3>1. Outs' = results'
      BY <2>1 DEF Outs, Ends
    <3>2. \A w \in Workers : Ids(wk'[w].batch) = {}
      BY <1>6, <2>1 DEF Idle, Ids
    <3>3. queue' = <<>> /\ DOMAIN queue' = {}
      BY <2>1 DEF Ends
    <3> HIDE DEF Ends
    <3>4. \A id : ~Waiting(id)'
      BY <3>2, <3>3 DEF Waiting
    <3>5. \A id : ~ToSend(id)'
      BY <3>2, <3>3 DEF ToSend
    <3> QED BY <3>1, <3>4, <3>5
  <2>8. Accounts'
    <3>1. Checks' = Checks
      BY <2>1 DEF Checks
    <3>2. \A c \in Checks' : Settled(c.id)'
      BY <3>1, <2>6, <2>7 DEF Settled, Ends
    <3> QED BY <1>2, <2>7, <3>2 DEF Accounts, Ends
  <2>9. JobsOK'
    <3>1. \A j \in jobs : JobOK(j)'
      BY <1>1, <1>2, <1>3, <2>1, <2>7 DEF JobsOK, JobOK
    <3> QED BY <1>1, <3>1 DEF JobsOK, Ends
  <2>10. ResultsOK'
    <3>1. \A r \in Outs' : ResultOK(r)
      BY <2>7 DEF Ends
    <3>2. \A c \in callbacks' \cup rows' : Known(c)
      BY <1>1, <2>1 DEF ResultsOK, Ends
    <3>3. \A w \in Workers : \A c \in wk'[w].read : Known(c)
      BY <1>1, <2>1 DEF ResultsOK
    <3> QED BY <1>2, <1>9, <2>1, <3>1, <3>2, <3>3, ResultsKeep
  <2>11. Records'
    <3>1. OnSites => \A m \in DOMAIN Modes, i \in DOMAIN Selected : Rec(m, i) \in file' \/ Broken(m)'
      BY <1>4, <2>2 DEF Ends
    <3>2. OnSites => \A r \in results' : r.mode = pos'.mode /\ writer' = "open" => [mode |-> r.mode, url |-> r.asked] \in file'
      BY <2>1 DEF Ends
    <3> QED BY <1>3, <1>12, <3>1, <3>2 DEF Records, Ends
  <2>12. Limited'
    <3>1. TokensHeld' = TokensHeld /\ \A h \in Hosts : Holders(h)' = Holders(h)
      BY <2>1 DEF TokensHeld, Holders
    <3> QED BY <1>1, <1>3, <2>1, <3>1 DEF Limited
  <2>13. Observed'
    <3>1. CompletedWasCounted'
      BY <1>13, <2>1
    <3> QED BY <1>3, <2>1, <3>1 DEF Observed, Ends
  <2> QED BY <2>3, <2>4, <2>5, <2>8, <2>9, <2>10, <2>11, <2>12, <2>13 DEF VeriflierInv
<1> QED BY <1>10, <1>11

\* A mode that is quiet waits for nothing.
LEMMA QuietFacts ==
  ASSUME VeriflierInv, queue = <<>>, outcomes = <<>>, \A w \in Workers : wk[w].pc = "idle"
  PROVE  Outs = results /\ \A id : ~Waiting(id)
<1>1. Outs = results
  BY DEF Outs
<1>2. \A w \in Workers : Ids(wk[w].batch) = {}
  BY DEF VeriflierInv, Work, WorkerOK, Idle, Ids
<1>3. DOMAIN queue = {}
  OBVIOUS
<1> QED BY <1>1, <1>2, <1>3 DEF Waiting

\* No more checks of a mode complete than the target has counted, but for those
\* that a check of an earlier execution may have answered.
LEMMA CountedAll ==
  ASSUME VeriflierInv, ~OnSites, program.buffered, NEW m \in DOMAIN Modes,
         NEW R, \A r \in R : ResultOK(r)
  PROVE  Cardinality(CompletedIDs(R, pos.try, m) \ program.stale) <= Cardinality({j \in jobs : j.noted /\ j.mode = m})
<1> PICK S, T : S = CompletedIDs(R, pos.try, m) \ program.stale /\ T = {j \in jobs : j.noted /\ j.mode = m}
  OBVIOUS
<1>1. IsFiniteSet(jobs) /\ \A j \in jobs : JobOK(j)
  BY DEF VeriflierInv, Shape, JobsOK
<1>2. IsFiniteSet(T)
  <2>1. T \in SUBSET jobs
    OBVIOUS
  <2> QED BY <1>1, <2>1, FS_Subset
<1>3. \A id \in S : \E j \in T : j.id = id
  <2> TAKE id \in S
  <2>0. PICK r \in R : r.mode = m /\ r.kind = "completed" /\ r.id = id
    BY DEF CompletedIDs
  <2>1. HasJob(m, id)
    BY <2>0 DEF ResultOK, Left
  <2>2. PICK j \in jobs : j.mode = m /\ j.id = id /\ j.seen
    BY <2>1 DEF HasJob
  <2>3. j.noted
    BY <1>1, <2>2 DEF JobOK
  <2> QED BY <2>2, <2>3
<1> DEFINE job(id) == CHOOSE j \in T : j.id = id
<1>a. \E g : g = [id \in S |-> job(id)]
  OBVIOUS
<1> HIDE DEF job
<1> PICK f : f \in [S -> T] /\ \A id \in S : f[id].id = id
  <2> PICK g : g = [id \in S |-> job(id)]
    BY <1>a
  <2>1. \A id \in S : job(id) \in T /\ job(id).id = id
    BY <1>3 DEF job
  <2>2. \A id \in S : g[id] = job(id)
    OBVIOUS
  <2>3. \A id \in S : g[id] \in T /\ g[id].id = id
    BY <2>1, <2>2
  <2>4. g \in [S -> T]
    BY <2>3
  <2> QED BY <2>3, <2>4
<1>4. f \in Injection(S, T)
  <2>1. \A x, y \in S : f[x] = f[y] => x = y
    <3> TAKE x, y \in S
    <3>1. f[x].id = x /\ f[y].id = y
      OBVIOUS
    <3> QED BY <3>1
  <2> QED BY <2>1 DEF Injection, IsInjective
<1> QED BY <1>2, <1>4, FS_Injection

LEMMA ObservationOK ==
  ASSUME VeriflierInv, phase # "done", Observation
  PROVE  /\ observed' \subseteq [mode : Nat, requests : Nat]
         /\ \A o \in observed' : o.mode \in DOMAIN Modes /\ o.mode <= pos.mode
         /\ \A o \in observed' : o \in observed \/ (o.mode = pos.mode /\ o.requests = Cardinality({j \in jobs : j.noted /\ j.mode = pos.mode}))
<1> PICK p, n, o : p = pos.mode /\ n = Cardinality({j \in jobs : j.noted /\ j.mode = pos.mode}) /\ o = [mode |-> p, requests |-> n]
  OBVIOUS
<1>1. /\ program \in Programs /\ p \in DOMAIN Modes /\ IsFiniteSet(jobs) /\ observed \subseteq [mode : Nat, requests : Nat]
  BY DEF VeriflierInv, Shape, Places
<1>2. p \in Nat
  BY <1>1, ProgramFacts DEF ProgramOK
<1>3. n \in Nat
  <2> PICK T : T = {j \in jobs : j.noted /\ j.mode = pos.mode}
    OBVIOUS
  <2>1. T \in SUBSET jobs
    OBVIOUS
  <2>2. IsFiniteSet(T)
    BY <1>1, <2>1, FS_Subset
  <2> QED BY <2>2, FS_CardinalityType
<1>4. o.mode = p /\ o.requests = n /\ o \in [mode : Nat, requests : Nat]
  BY <1>2, <1>3
<1>5. observed' = observed \cup {o}
  BY DEF Observation
<1>6. \A x \in observed : x.mode \in DOMAIN Modes /\ x.mode < p
  BY DEF VeriflierInv, Observed
<1>7. \A x \in observed : x.mode <= p
  <2> TAKE x \in observed
  <2>1. x.mode \in Nat /\ x.mode < p
    BY <1>1, <1>6
  <2> QED BY <2>1, <1>2
<1> QED BY <1>1, <1>2, <1>4, <1>5, <1>6, <1>7

LEMMA EndModeOK ==
  ASSUME VeriflierInv, EndMode
  PROVE  VeriflierInv'
<1>1. /\ Shape /\ Accounts /\ ResultsOK /\ Records /\ Phases /\ Observed /\ program \in Programs /\ pos \in Places
  BY DEF VeriflierInv, Shape
<1>2. phase = "run" /\ queue = <<>> /\ outcomes = <<>> /\ \A w \in Workers : wk[w].pc = "idle"
  BY DEF EndMode, Quiet
<1>3. Outs = results /\ \A id : ~Waiting(id)
  BY <1>2, QuietFacts
<1>4. NextMode /\ modeResult /\ UNCHANGED <<program, jobs, callbacks, results>>
  BY DEF EndMode
<1>5. ~CountsLater
  BY DEF EndMode, CountsLater
<1>6. \A c \in Checks : \E r \in results : Current(r) /\ r.id = c.id
  BY <1>1, <1>3, <1>5 DEF Accounts, Settled
<1>7. /\ results \subseteq ResultSet /\ \A r \in results : ResultOK(r)
      /\ program.name # "tier" => \A r, x \in results : r.mode = x.mode /\ r.id = x.id => r.kind = x.kind
      /\ buffer \subseteq RecordSet /\ file \subseteq RecordSet
  BY <1>1, <1>3 DEF Shape, ResultsOK, Accounts
<1>10. (\A m : Broken(m) => Broken(m)') /\ (writer # "open" => \A m : m = pos.mode => Broken(m)')
  BY <1>4, <1>6, ReportedOK
<1>8. CASE OnSites
  <2>1. file' = file \cup buffer /\ buffer' = {} /\ observed' = {}
    BY <1>1, <1>8 DEF EndMode, FlushAtEnd, OnSites, Phases
  <2>2. \A m \in DOMAIN Modes, i \in DOMAIN Selected : m <= pos.mode => Rec(m, i) \in file' \/ Broken(m)'
    <3> SUFFICES ASSUME NEW m \in DOMAIN Modes, NEW i \in DOMAIN Selected, m <= pos.mode, ~Broken(m)'
                 PROVE  Rec(m, i) \in file'
      OBVIOUS
    <3>1. m \in Nat /\ pos.mode \in Nat /\ i \in Nat /\ pos.skip \in Nat
      <4>1. Selected \in Seq(DumpRow) /\ Modes \in Seq(Range(AllModes)) /\ pos.mode \in DOMAIN Modes /\ pos.skip \in 0..Len(Selected)
        BY <1>1, ProgramFacts DEF ProgramOK, Places
      <4> QED BY <4>1
    <3>2. CASE Past(m, i)
      BY <3>2, <1>1, <1>8, <1>10, <2>1 DEF Records
    <3>3. CASE ~Past(m, i)
      <4>1. m = pos.mode /\ i > pos.skip
        BY <3>1, <3>3 DEF Past
      <4>0. writer = "open"
        BY <1>10, <4>1
      <4>2. PICK c \in Checks : c.id = i
        BY <1>8, <4>0, <4>1, ChecksAre
      <4>3. PICK r \in results : Current(r) /\ r.id = i
        BY <1>6, <4>2
      <4>4. r.mode = m /\ r.asked = Selected[i].url
        BY <1>7, <1>8, <4>1, <4>3 DEF Current, ResultOK, Asks
      <4>5. [mode |-> r.mode, url |-> r.asked] \in file \cup buffer
        BY <1>1, <1>8, <4>0, <4>1, <4>4 DEF Records
      <4> QED BY <2>1, <4>4, <4>5 DEF Rec
    <3> QED BY <3>2, <3>3
  <2>3. \A r \in results : r.mode = pos.mode /\ writer = "open" => [mode |-> r.mode, url |-> r.asked] \in file'
    BY <1>1, <1>8, <2>1 DEF Records
  <2>4. Ends
    BY <1>2, <1>4, <1>6, <1>7, <1>8, <2>1, <2>2, <2>3 DEF Ends, OnSites
  <2> QED BY <2>4, EndsOK
<1>9. CASE ~OnSites
  <2>1. Observation /\ file' = file /\ buffer' = buffer
    BY <1>9 DEF EndMode, OnSites
  <2>2. buffer = {}
    BY <1>1, <1>9 DEF Records
  <2>3. /\ observed' \subseteq [mode : Nat, requests : Nat]
        /\ \A o \in observed' : o.mode \in DOMAIN Modes /\ o.mode <= pos.mode
        /\ \A o \in observed' : o \in observed \/ (o.mode = pos.mode /\ o.requests = Cardinality({j \in jobs : j.noted /\ j.mode = pos.mode}))
    BY <1>2, <2>1, ObservationOK
  <2>4. program.name = "fixture" /\ program.buffered =>
         \A o \in observed' : Cardinality(CompletedIDs(results, pos.try, o.mode) \ program.stale) <= o.requests
    <3> SUFFICES ASSUME program.name = "fixture", program.buffered, NEW o \in observed'
                 PROVE  Cardinality(CompletedIDs(results, pos.try, o.mode) \ program.stale) <= o.requests
      OBVIOUS
    <3>0. Of(o.mode, "completed") = CompletedIDs(results, pos.try, o.mode)
      BY DEF Of, CompletedIDs
    <3>1. CASE o \in observed
      BY <3>0, <3>1, <1>1 DEF Observed, CompletedWasCounted
    <3>2. CASE o.mode = pos.mode /\ o.requests = Cardinality({j \in jobs : j.noted /\ j.mode = pos.mode})
      <4> PICK m \in DOMAIN Modes : m = pos.mode
        BY <1>1 DEF Places
      <4>1. \A r \in results : ResultOK(r)
        BY <1>7
      <4>2. Cardinality(CompletedIDs(results, pos.try, m) \ program.stale) <= Cardinality({j \in jobs : j.noted /\ j.mode = m})
        BY <1>9, <4>1, CountedAll
      <4> QED BY <3>2, <4>2
    <3> QED BY <3>1, <3>2, <2>3
  <2>5. Ends
    BY <1>2, <1>4, <1>6, <1>7, <1>9, <2>1, <2>2, <2>3, <2>4 DEF Ends
  <2> QED BY <2>5, EndsOK
<1> QED BY <1>8, <1>9

LEMMA EndDrainOK ==
  ASSUME VeriflierInv, EndDrain
  PROVE  VeriflierInv'
<1>1. /\ Shape /\ Accounts /\ ResultsOK /\ Records /\ Phases /\ Observed /\ program \in Programs /\ pos \in Places
  BY DEF VeriflierInv, Shape
<1>2. phase = "drain" /\ program.name = "tier" /\ queue = <<>> /\ outcomes = <<>> /\ \A w \in Workers : wk[w].pc = "idle"
  BY <1>1 DEF EndDrain, Phases
<1>3. ~OnSites /\ buffer = {} /\ Outs = results
  BY <1>1, <1>2, QuietFacts DEF OnSites, Records
<1>4. NextMode /\ modeResult /\ UNCHANGED <<program, jobs, callbacks, buffer, file>> /\ Observation
  BY DEF EndDrain
<1> PICK mode, out : mode = pos.mode /\ out = convertV1Rows(Checks, rows)
  OBVIOUS
<1>5. /\ \A r \in out : \E c \in Checks : r = Converted(c, rows)
      /\ \A c \in Checks : Converted(c, rows) \in out
  <2>1. out = {Converted(c, rows) : c \in Checks}
    BY DEF convertV1Rows, Converted
  <2> QED BY <2>1
<1>6. \A c \in Checks : c \in CheckSet /\ Asks(mode, c.id, c.url)
  BY ChecksAre
<1>7. \A x \in rows : Known(x)
  BY <1>1 DEF ResultsOK
<1>8. \A x \in rows : Rowed(x)
  BY <1>7 DEF Known, Rowed, RowSet
<1>9. mode \in DOMAIN Modes /\ mode \in Nat
  BY <1>1, ProgramFacts DEF Places, ProgramOK
<1>10. ASSUME NEW c \in Checks
       PROVE  LET r == Converted(c, rows) IN r \in ResultSet /\ ResultOK(r) /\ Current(r) /\ r.id = c.id
  <2> PICK r : r = Converted(c, rows)
    OBVIOUS
  <2>1. IsResult(r, c) /\ (r.kind = "completed" => \E x \in rows : x.id = c.id)
    BY <1>1, <1>6, <1>8, ConvertedIs
  <2>2. r.kind = "completed" => HasJob(mode, c.id) \/ Left(c.id)
    <3> SUFFICES ASSUME NEW x \in rows, x.id = c.id, ~Left(x.id) PROVE HasJob(mode, c.id)
      BY <2>1
    <3>1. PICK m \in DOMAIN Modes : Asks(m, x.id, x.url) /\ HasJob(m, x.id)
      BY <1>3, <1>7 DEF Known
    <3> PICK id, u, v : id = c.id /\ u = x.url /\ v = c.url
      OBVIOUS
    <3>2. Asks(m, id, u) /\ Asks(mode, id, v)
      BY <3>1, <1>6
    <3>3. m = mode
      BY <1>1, <1>3, <1>9, <3>2, AsksOnce
    <3> QED BY <3>1, <3>3
  <2>3. ResultOK(r)
    BY <1>6, <1>9, <2>1, <2>2 DEF IsResult, ResultOK
  <2> QED BY <2>1, <2>3 DEF IsResult, Current
<1>11. results' = results \cup out
  BY DEF EndDrain
<1>12. /\ results' \subseteq ResultSet /\ \A r \in results' : ResultOK(r)
       /\ \A c \in Checks : \E r \in results' : Current(r) /\ r.id = c.id
  <2>1. \A r \in results : r \in ResultSet /\ ResultOK(r)
    BY <1>1, <1>3 DEF Shape, ResultsOK
  <2>2. \A r \in out : r \in ResultSet /\ ResultOK(r)
    BY <1>5, <1>10
  <2>3. \A c \in Checks : \E r \in out : Current(r) /\ r.id = c.id
    BY <1>5, <1>10
  <2> QED BY <1>11, <2>1, <2>2, <2>3
<1>13. /\ observed' \subseteq [mode : Nat, requests : Nat]
       /\ \A o \in observed' : o.mode \in DOMAIN Modes /\ o.mode <= pos.mode
  BY <1>2, <1>4, ObservationOK
<1>14. file \subseteq RecordSet
  BY <1>1 DEF Shape
<1>15. Ends
  <2>1. results \subseteq results' /\ program.name # "fixture"
    BY <1>2, <1>11
  <2> QED BY <1>2, <1>3, <1>4, <1>12, <1>13, <1>14, <2>1 DEF Ends
<1> QED BY <1>15, EndsOK

LEMMA CrashOK ==
  ASSUME VeriflierInv, Crash
  PROVE  VeriflierInv'
<1>1. /\ Shape /\ JobsOK /\ Records /\ Phases /\ program \in Programs /\ pos \in Places /\ ProgramOK
  BY ProgramFacts DEF VeriflierInv, Shape
<1>2. program' = program /\ OnSites
  BY DEF Crash, OnSites
<1> PICK n \in 1..pos.mode : \E s \in 0..Len(Selected) :
           /\ \A o \in 1..n, i \in DOMAIN Selected : o < n \/ i <= s => [mode |-> o, url |-> Selected[i].url] \in file
           /\ Begin([pos EXCEPT !.try = @ + 1, !.mode = n, !.skip = s])
  BY DEF Crash
<1> PICK s \in 0..Len(Selected) :
           /\ \A o \in 1..n, i \in DOMAIN Selected : o < n \/ i <= s => [mode |-> o, url |-> Selected[i].url] \in file
           /\ Begin([pos EXCEPT !.try = @ + 1, !.mode = n, !.skip = s])
  OBVIOUS
<1> PICK q : q = [pos EXCEPT !.try = @ + 1, !.mode = n, !.skip = s]
  OBVIOUS
<1>3. Begin(q)
  OBVIOUS
<1>4. pos.try \in Nat /\ pos.mode \in Nat /\ n \in Nat /\ n \in DOMAIN Modes
  <2>1. pos.try \in Nat /\ pos.mode \in DOMAIN Modes /\ Modes \in Seq(Range(AllModes))
    BY <1>1 DEF Places, ProgramOK
  <2>2. DOMAIN Modes = 1..Len(Modes) /\ Len(Modes) \in Nat
    BY <2>1
  <2> QED BY <2>1, <2>2
<1>5. q \in Places /\ q.try = pos.try + 1 /\ q.mode = n /\ q.skip = s
  <2> PICK x, t, y, z : x = pos /\ t = pos.try + 1 /\ y = [x EXCEPT !.try = t] /\ z = [y EXCEPT !.mode = n]
    OBVIOUS
  <2>1. x \in Places /\ t \in Nat /\ q = [z EXCEPT !.skip = s]
    BY <1>1, <1>4
  <2>2. y \in Places /\ y.try = t
    BY <2>1 DEF Places
  <2>3. z \in Places /\ z.try = t /\ z.mode = n
    BY <1>4, <2>2 DEF Places
  <2>4. q \in Places /\ q.try = z.try /\ q.mode = z.mode /\ q.skip = s
    BY <2>1, <2>3 DEF Places
  <2> QED BY <2>3, <2>4
<1>6. pos' = q /\ phase' # "done"
  BY <1>3 DEF Begin, FirstPhase
<1>7. /\ Modes' = Modes /\ Selected' = Selected /\ (OnSites' <=> OnSites)
      /\ \A m, id, u : Asks(m, id, u)' <=> Asks(m, id, u)
  BY <1>2, SameProgram
<1>8. \A j \in jobs : JobOK(j)' /\ ~Current(j)'
  <2> TAKE j \in jobs
  <2>1. JobOK(j) /\ j \in JobSet
    BY <1>1 DEF JobsOK, Shape
  <2>2. j.try < q.try
    <3>1. j.try \in Nat /\ (j.try < pos.try \/ j.try = pos.try)
      BY <2>1 DEF JobOK, JobSet
    <3> QED BY <3>1, <1>4, <1>5
  <2>3. j.try # q.try
    <3>1. j.try \in Nat
      BY <2>1 DEF JobSet
    <3> QED BY <3>1, <2>2
  <2>4. ~Current(j)'
    BY <1>6, <2>3 DEF Current
  <2> QED BY <1>2, <1>6, <1>7, <2>1, <2>2, <2>4 DEF JobOK
<1>9. \A m \in DOMAIN Modes, i \in DOMAIN Selected : Past(m, i)' => Rec(m, i) \in file
  <2> SUFFICES ASSUME NEW m \in DOMAIN Modes, NEW i \in DOMAIN Selected, Past(m, i)' PROVE Rec(m, i) \in file
    OBVIOUS
  <2>1. m < n \/ (m = n /\ i <= s)
    BY <1>5, <1>6 DEF Past
  <2>2. m \in 1..n
    <3>1. m \in Nat /\ m > 0
      BY <1>1 DEF ProgramOK
    <3> QED BY <1>4, <2>1, <3>1
  <2> QED BY <2>1, <2>2 DEF Rec
<1>10. observed' = {} /\ jobs' = jobs /\ callbacks' = {} /\ buffer' = {} /\ results' = {} /\ file' = file /\ report' = {}
  BY <1>1, <1>2 DEF Crash, Phases
<1>11. Observed'
  BY <1>10 DEF Observed, CompletedWasCounted
<1>12. Carried
  BY <1>1, <1>8, <1>9, <1>10, <1>11 DEF Carried, Shape, Reported
<1> QED BY <1>1, <1>2, <1>3, <1>5, <1>12, CarriedOK

-----------------------------------------------------------------------------
(* Every step *)

\* A step that changes nothing keeps the invariant.
LEMMA StutterOK ==
  ASSUME VeriflierInv, UNCHANGED vars
  PROVE  VeriflierInv'
<1>1. /\ program' = program /\ pos' = pos /\ phase' = phase /\ plan' = plan /\ queue' = queue /\ wk' = wk
      /\ outcomes' = outcomes /\ limits' = limits /\ jobs' = jobs /\ callbacks' = callbacks /\ rows' = rows
      /\ results' = results /\ buffer' = buffer /\ file' = file /\ observed' = observed /\ writer' = writer
      /\ sampler' = sampler /\ report' = report
  BY DEF vars
<1>2. /\ Modes' = Modes /\ Selected' = Selected /\ (OnSites' <=> OnSites) /\ Places' = Places
      /\ \A m, id, u : Asks(m, id, u)' <=> Asks(m, id, u)
      /\ \A b, m : GoodBatch(b, m)' <=> GoodBatch(b, m)
  BY <1>1, SameProgram
<1>3. Checks' = Checks /\ Ep' = Ep
  BY <1>1, <1>2 DEF Checks, Ep
<1>4. \A b : BatchOK(b)' <=> BatchOK(b)
  BY <1>1, <1>2, <1>3 DEF BatchOK
<1>5. Batches(program, pos)' = Batches(program, pos)
  BY <1>1, <1>2 DEF Batches
<1>6. Shape'
  BY <1>1, <1>2, <1>5 DEF VeriflierInv, Shape, PlanIs
<1>7. \A w \in Workers : WorkerOK(w)' <=> WorkerOK(w)
  BY <1>1, <1>2, <1>4 DEF WorkerOK
<1>8. Work'
  <2>1. Work
    BY DEF VeriflierInv
  <2> QED BY <1>1, <1>4, <1>7, <2>1 DEF Work
<1>9. Phases'
  BY <1>1, <1>2 DEF VeriflierInv, Phases
<1>10. /\ Outs' = Outs /\ \A r : Current(r)' <=> Current(r)
       /\ \A id : Waiting(id)' <=> Waiting(id)
       /\ (CountsLater' <=> CountsLater)
       /\ \A id : ToSend(id)' <=> ToSend(id)
  <2>1. \A w \in Workers : Unsent(w)' <=> Unsent(w)
    BY <1>1 DEF Unsent
  <2> QED BY <1>1, <1>3, <2>1 DEF Outs, Current, Waiting, CountsLater, ToSend
<1>11. Accounts'
  <2>1. \A id : Settled(id)' <=> Settled(id)
    BY <1>10 DEF Settled
  <2>2. Accounts
    BY DEF VeriflierInv
  <2> QED BY <1>1, <1>3, <1>10, <2>1, <2>2 DEF Accounts
<1>12. JobsStay
  BY <1>1 DEF JobsStay, HasJob
<1>13. ResultsOK'
  <2>1. ResultsOK
    BY DEF VeriflierInv
  <2> QED BY <1>1, <1>10, <1>12, <2>1, ResultsKeep DEF ResultsOK
<1>14. JobsOK'
  <2>1. \A j : JobOK(j)' <=> JobOK(j)
    BY <1>1, <1>2, <1>10 DEF JobOK
  <2>2. JobsOK
    BY DEF VeriflierInv
  <2> QED BY <1>1, <2>1, <2>2 DEF JobsOK
<1>15. Records'
  <2>1. \A m, i : (Past(m, i)' <=> Past(m, i)) /\ Rec(m, i)' = Rec(m, i) /\ (Broken(m)' <=> Broken(m))
    BY <1>1, <1>2 DEF Past, Rec, Broken
  <2>2. Records
    BY DEF VeriflierInv
  <2>3. Reported'
    BY <1>1, <2>2 DEF Records, Reported
  <2> QED BY <1>1, <1>2, <2>1, <2>2, <2>3 DEF Records
<1>16. Limited'
  <2>1. TokensHeld' = TokensHeld /\ \A h : Holders(h)' = Holders(h)
    BY <1>1 DEF TokensHeld, Holders
  <2>2. Limited
    BY DEF VeriflierInv
  <2> QED BY <1>1, <1>2, <2>1, <2>2 DEF Limited
<1>17. Observed'
  <2>1. \A m : Of(m, "completed")' = Of(m, "completed")
    BY <1>1 DEF Of
  <2>2. CompletedWasCounted' <=> CompletedWasCounted
    BY <1>1, <2>1 DEF CompletedWasCounted
  <2>3. Observed
    BY DEF VeriflierInv
  <2> QED BY <1>1, <1>2, <2>2, <2>3 DEF Observed
<1> QED BY <1>6, <1>8, <1>9, <1>11, <1>13, <1>14, <1>15, <1>16, <1>17 DEF VeriflierInv

\* A worker's steps keep the invariant.
LEMMA WorkerStepOK ==
  ASSUME VeriflierInv, NEW w \in Workers, Worker(w)
  PROVE  VeriflierInv'
<1>1. CASE Take(w)
  BY <1>1, TakeOK
<1>2. CASE AcquireHost(w)
  BY <1>2, AcquireHostOK, GoesOnOK
<1>3. CASE Lock(w)
  BY <1>3, LockOK, GoesOnOK
<1>4. CASE TakeToken(w)
  BY <1>4, TakeTokenOK, GoesOnOK
<1>5. CASE ForgetIDs(w)
  BY <1>5, ForgetIDsOK, GoesOnOK
<1>6. CASE Post(w)
  BY <1>6, PostOK
<1>7. CASE AckV1(w)
  BY <1>7, AckV1OK
<1>8. CASE AnswerV2(w)
  BY <1>8, AnswerV2OK
<1>9. CASE CallFails(w)
  BY <1>9, CallFailsOK
<1>10. CASE ResultsForIDs(w)
  BY <1>10, ResultsForIDsOK
<1>11. CASE DrainDeadline(w)
  BY <1>11, DrainDeadlineOK
<1> QED BY <1>1, <1>2, <1>3, <1>4, <1>5, <1>6, <1>7, <1>8, <1>9, <1>10, <1>11 DEF Worker

\* The invariant is inductive.
LEMMA VeriflierNext == VeriflierInv /\ [Next]_vars => VeriflierInv'
<1> SUFFICES ASSUME VeriflierInv, [Next]_vars PROVE VeriflierInv'
  OBVIOUS
<1>1. CASE \E w \in Workers : Worker(w)
  BY <1>1, WorkerStepOK
<1>2. CASE Collect
  BY <1>2, CollectOK
<1>3. CASE ForgetRange
  BY <1>3, ForgetRangeOK
<1>4. CASE EndMode
  BY <1>4, EndModeOK
<1>5. CASE StartDrain
  BY <1>5, StartDrainOK
<1>6. CASE EndDrain
  BY <1>6, EndDrainOK
<1>7. CASE Flush
  BY <1>7, FlushOK
<1>8. CASE ResultsForRange
  BY <1>8, ResultsForRangeOK
<1>9. CASE Crash
  BY <1>9, CrashOK
<1>10. CASE \E j \in jobs : Contact(j) \/ CountLate(j) \/ handleStatus(j)
  <2> PICK j \in jobs : Contact(j) \/ CountLate(j) \/ handleStatus(j)
    BY <1>10
  <2>1. CASE Contact(j)
    BY <2>1, ContactOK
  <2>2. CASE CountLate(j)
    BY <2>2, CountLateOK
  <2>3. CASE handleStatus(j)
    BY <2>3, handleStatusOK
  <2> QED BY <2>1, <2>2, <2>3
<1>11. CASE UNCHANGED vars
  BY <1>11, StutterOK
<1>12. CASE OpenFails
  BY <1>12, OpenFailsOK
<1>13. CASE WriteFails
  BY <1>13, WriteFailsOK
<1>14. CASE Hang
  BY <1>14, HangOK
<1>15. CASE \E id \in program.stale : StaleCallback(id)
  BY <1>15, StaleCallbackOK
<1> QED BY <1>1, <1>2, <1>3, <1>4, <1>5, <1>6, <1>7, <1>8, <1>9, <1>10, <1>11, <1>12, <1>13, <1>14, <1>15 DEF Next, Main

\* The state of the benchmarks is of its type, every check is with one worker,
\* in the queue or has its result, results and callbacks are of the checks they
\* are for, records are in buffer or file as long as the file takes them, and
\* limits count who holds them: the pool, the writer and the two drains keep this
\* in every order of their steps, across calls and writes that fail, callbacks
\* that come late, also from earlier executions, and processes that die.
THEOREM VeriflierInvariant == Spec => []VeriflierInv
<1> QED BY VeriflierInit, VeriflierNext, PTL DEF Spec

-----------------------------------------------------------------------------
(* What follows *)

\* f maps S into the finite T, no two elements to one.
OneByOne(f, S, T) == IsFiniteSet(T) /\ f \in [S -> T] /\ \A x, y \in S : f[x] = f[y] => x = y
Measured(S, T) == Cardinality(S) <= Cardinality(T) /\ IsFiniteSet(S) /\ Cardinality(S) \in Nat /\ Cardinality(T) \in Nat

\* A set has no more elements than one it maps into one by one.
LEMMA NoMoreThan ==
  ASSUME NEW S, NEW T, NEW f, OneByOne(f, S, T)
  PROVE  Measured(S, T)
<1>0. IsFiniteSet(T)
  BY DEF OneByOne
<1>1. f \in Injection(S, T)
  BY DEF OneByOne, Injection, IsInjective
<1>2. Cardinality(S) <= Cardinality(T) /\ IsFiniteSet(S)
  BY <1>0, <1>1, FS_Injection
<1> QED BY <1>0, <1>2, FS_CardinalityType DEF Measured

\* Checks of one host in the batches under way are with as many workers, and each
\* of these holds a place of the host; each such check has its token.
LEMMA LimitsFollow == VeriflierInv => LimitsHeld
<1> SUFFICES ASSUME VeriflierInv, OnSites
             PROVE  LET busy == {p \in Workers \X (1..Global) :
                                   wk[p[1]].pc \in Sending /\ p[2] \in DOMAIN wk[p[1]].batch}
                    IN  /\ Cardinality(busy) <= Global
                        /\ \A h \in Hosts : Cardinality({p \in busy : wk[p[1]].batch[p[2]].host = h}) <= PerHost
  BY DEF LimitsHeld, OnSites, Sending
<1> DEFINE busy == {p \in Workers \X (1..Global) : wk[p[1]].pc \in Sending /\ p[2] \in DOMAIN wk[p[1]].batch}
<1>1. ASSUME NEW w \in Workers, wk[w].pc \in Sending
      PROVE  /\ wk[w].got = Len(wk[w].batch) /\ wk[w].at = Len(uniqueBatchHosts(wk[w].batch))
             /\ wk[w].batch \in Seq(CheckSet) /\ HostList(uniqueBatchHosts(wk[w].batch), wk[w].batch)
             /\ \A i, k \in DOMAIN wk[w].batch : wk[w].batch[i].host = wk[w].batch[k].host => i = k
  <2>1. wk[w].pc # "idle" /\ wk[w].pc # "hosts"
    BY <1>1 DEF Sending
  <2>2. WorkerOK(w) /\ BatchOK(wk[w].batch) /\ wk[w] \in WorkerSet
    BY <2>1, AtWork
  <2>3. wk[w].batch \in Seq(CheckSet) /\ HostList(uniqueBatchHosts(wk[w].batch), wk[w].batch)
    BY <2>2, Batch
  <2> QED BY <1>1, <2>1, <2>2, <2>3 DEF WorkerOK, BatchOK, GoodBatch
<1>2. Limited /\ limits.tokens \in Nat /\ limits.host \in [Hosts -> Nat] /\ Global \in Nat /\ PerHost \in Nat
  BY LimitsAssumption DEF VeriflierInv, Shape
<1>3. Cardinality(busy) <= Global
  <2>1. busy \in SUBSET TokensHeld
    <3> SUFFICES ASSUME NEW p \in busy PROVE p \in TokensHeld
      OBVIOUS
    <3>1. p[1] \in Workers /\ wk[p[1]].pc \in Sending /\ p[2] \in DOMAIN wk[p[1]].batch
      OBVIOUS
    <3>2. wk[p[1]].got = Len(wk[p[1]].batch) /\ wk[p[1]].batch \in Seq(CheckSet)
      BY <3>1, <1>1
    <3>3. p[2] <= wk[p[1]].got
      BY <3>1, <3>2
    <3> QED BY <3>3 DEF TokensHeld
  <2> HIDE DEF busy
  <2>2. Cardinality(busy) <= Cardinality(TokensHeld) /\ IsFiniteSet(busy)
    BY <2>1, HeldFinite, FS_Subset
  <2>3. Cardinality(busy) \in Nat
    BY <2>2, FS_CardinalityType
  <2> QED BY <1>2, <2>2, <2>3 DEF Limited
<1>4. ASSUME NEW h \in Hosts PROVE Cardinality({p \in busy : wk[p[1]].batch[p[2]].host = h}) <= PerHost
  <2> PICK S : S = {p \in busy : wk[p[1]].batch[p[2]].host = h}
    OBVIOUS
  <2>1. \A p \in S : /\ p[1] \in Workers /\ p = <<p[1], p[2]>> /\ wk[p[1]].pc \in Sending
                     /\ p[2] \in DOMAIN wk[p[1]].batch /\ wk[p[1]].batch[p[2]].host = h
    OBVIOUS
  <2>2. \A p \in S : p[1] \in Holders(h)
    <3> TAKE p \in S
    <3> PICK w \in Workers : w = p[1]
      BY <2>1
    <3>1. h \in HostsOf(wk[w].batch)
      BY <2>1 DEF HostsOf
    <3>2. wk[w].at = Len(uniqueBatchHosts(wk[w].batch)) /\ HostList(uniqueBatchHosts(wk[w].batch), wk[w].batch)
      BY <2>1, <1>1
    <3>3. \E k \in 1..wk[w].at : uniqueBatchHosts(wk[w].batch)[k] = h
      BY <3>1, <3>2 DEF HostList
    <3> QED BY <3>3 DEF Holders
  <2>3. \A p, q \in S : p[1] = q[1] => p = q
    <3> TAKE p, q \in S
    <3> HAVE p[1] = q[1]
    <3> PICK w \in Workers : w = p[1] /\ w = q[1]
      BY <2>1
    <3>1. \A i, k \in DOMAIN wk[w].batch : wk[w].batch[i].host = wk[w].batch[k].host => i = k
      BY <2>1, <1>1
    <3>2. p[2] = q[2]
      BY <2>1, <3>1
    <3> QED BY <2>1, <3>2
  <2>4. \E f \in [S -> Holders(h)] : \A p, q \in S : f[p] = f[q] => p = q
    <3> PICK f : f = [p \in S |-> p[1]]
      OBVIOUS
    <3>1. f \in [S -> Holders(h)] /\ \A p, q \in S : f[p] = f[q] => p = q
      BY <2>2, <2>3
    <3> QED BY <3>1
  <2>5. Cardinality(S) <= Cardinality(Holders(h)) /\ Cardinality(S) \in Nat /\ Cardinality(Holders(h)) \in Nat
    <3> PICK U : U = Holders(h)
      OBVIOUS
    <3>1. IsFiniteSet(U)
      BY HeldFinite
    <3> PICK f \in [S -> U] : \A p, q \in S : f[p] = f[q] => p = q
      BY <2>4
    <3>2. OneByOne(f, S, U)
      BY <3>1, Zenon DEF OneByOne
    <3>3. Measured(S, U)
      BY <3>2, NoMoreThan, Zenon
    <3> QED BY <3>3, Zenon DEF Measured
  <2>6. Cardinality(Holders(h)) = limits.host[h] /\ limits.host[h] <= PerHost
    BY <1>2 DEF Limited
  <2>7. Cardinality(S) <= PerHost
    BY <1>2, <2>5, <2>6
  <2> QED BY <2>7
<1> QED BY <1>3, <1>4

\* The batches that workers execute have no more checks than there are tokens,
\* and no more of a host than it has places, whatever the workers do: the pool of
\* runRealMode takes hosts and tokens in pieces and gives them back with every
\* outcome.  (The checks a Veriflier is still making for a call that failed or a
\* drain that ended are no longer held by a worker and not counted.)
THEOREM LimitsAreHeld == Spec => []LimitsHeld
<1> QED BY VeriflierInvariant, LimitsFollow, PTL

\* Modes that are over have their results, and on sites their records.
LEMMA NothingLostFollows == VeriflierInv => NothingIsLost
<1> SUFFICES ASSUME VeriflierInv PROVE EveryCheckAccounted /\ EveryURLRecorded
  BY DEF NothingIsLost
<1>1. Accounts /\ Records /\ Phases /\ ProgramOK /\ pos.mode \in DOMAIN Modes
  BY ProgramFacts DEF VeriflierInv, Shape, Places
<1>2. \A r \in results : r \in Outs /\ r.try = pos.try
  BY DEF VeriflierInv, ResultsOK, ResultOK, Outs
<1>3. EveryCheckAccounted
  <2> SUFFICES ASSUME NEW e \in report, NEW id \in e.ids
               PROVE  LET kinds == {r.kind : r \in {x \in results : x.try = pos.try /\ x.mode = e.mode /\ x.id = id}}
                      IN  kinds # {} /\ (program.name # "tier" => Cardinality(kinds) = 1)
    BY DEF EveryCheckAccounted
  <2> PICK S, kinds : /\ S = {x \in results : x.try = pos.try /\ x.mode = e.mode /\ x.id = id}
                      /\ kinds = {r.kind : r \in S}
    OBVIOUS
  <2>1. PICK r \in results : r.mode = e.mode /\ r.id = id
    BY <1>1 DEF Records, Reported
  <2>2. r \in S
    BY <1>2, <2>1
  <2>3. program.name # "tier" => \A x \in S : x.kind = r.kind
    BY <1>1, <1>2, <2>1 DEF Accounts
  <2>4. program.name # "tier" => kinds = {r.kind}
    BY <2>2, <2>3
  <2>5. kinds # {} /\ (program.name # "tier" => Cardinality(kinds) = 1)
    BY <2>2, <2>4, FS_Singleton
  <2> QED BY <2>5
<1>4. EveryURLRecorded
  <2> SUFFICES ASSUME OnSites, NEW m \in DOMAIN Modes, m < pos.mode \/ phase = "done", ~Broken(m), NEW i \in DOMAIN Selected
               PROVE  Rec(m, i) \in file
    BY DEF EveryURLRecorded, OnSites, Rec, Broken
  <2>1. Past(m, i)
    <3>1. m \in Nat /\ m <= Len(Modes) /\ Len(Modes) \in Nat /\ (phase = "done" => pos.mode = Len(Modes))
      BY <1>1 DEF ProgramOK, Phases
    <3> QED BY <3>1 DEF Past
  <2> QED BY <1>1, <2>1 DEF Records
<1> QED BY <1>3, <1>4

\* When a mode is over every check it made has been counted, by the programs
\* without a drain once, and every selected URL of a real run has its record in
\* the file, or the mode's result tells of an error with the file: across calls
\* that fail, callbacks that never come, opens, writes and flushes that fail, and
\* attempts that die and are resumed behind the URLs the file already has.
THEOREM NothingGetsLost == Spec => []NothingIsLost
<1> QED BY VeriflierInvariant, NothingLostFollows, PTL

\* Results say the URL of their check, and jobs are one per check of an attempt:
\* those for one URL have the numbers of rows with that URL.
LEMMA OwnResultsFollow == VeriflierInv => ResultsAreTheirOwn
<1> SUFFICES ASSUME VeriflierInv PROVE ResultIsOfItsURL /\ ContactedOncePerRow
  BY DEF ResultsAreTheirOwn
<1>1. ResultIsOfItsURL
  BY DEF VeriflierInv, ResultsOK, ResultOK, Outs, ResultIsOfItsURL, Left
<1>2. \A j, k \in jobs : j.try = k.try /\ j.mode = k.mode /\ j.id = k.id => j = k
  BY DEF VeriflierInv, JobsOK
<1>3. ASSUME OnSites, NEW j \in jobs
      PROVE  Cardinality({k \in jobs : k.seen /\ k.try = j.try /\ k.mode = j.mode /\ k.url = j.url})
               <= Cardinality({i \in DOMAIN Selected : Selected[i].url = j.url})
  <2> PICK S, T : /\ S = {k \in jobs : k.seen /\ k.try = j.try /\ k.mode = j.mode /\ k.url = j.url}
                  /\ T = {i \in DOMAIN Selected : Selected[i].url = j.url}
    OBVIOUS
  <2>1. IsFiniteSet(T)
    <3>1. Selected \in Seq(DumpRow)
      BY ProgramFacts DEF VeriflierInv, Shape, ProgramOK
    <3> PICK n \in Nat : DOMAIN Selected = 1..n
      BY <3>1
    <3>2. n \in Int /\ 1 \in Int
      OBVIOUS
    <3>3. IsFiniteSet(1..n)
      BY <3>2, FS_Interval, Zenon
    <3>4. T \in SUBSET (1..n)
      OBVIOUS
    <3> QED BY <3>3, <3>4, FS_Subset, Zenon
  <2>2. \A x \in S : x.id \in T
    <3> TAKE x \in S
    <3>1. JobOK(x) /\ x.url = j.url
      BY DEF VeriflierInv, JobsOK
    <3> QED BY <1>3, <3>1 DEF JobOK, Asks
  <2>3. \A x, y \in S : x.id = y.id => x = y
    BY <1>2
  <2> PICK f : f = [x \in S |-> x.id]
    OBVIOUS
  <2>4. f \in [S -> T] /\ \A x \in S : f[x] = x.id
    BY <2>2
  <2>5. \A x, y \in S : f[x] = f[y] => x = y
    BY <2>3, <2>4
  <2>6. OneByOne(f, S, T)
    BY <2>1, <2>4, <2>5, Zenon DEF OneByOne
  <2>7. Measured(S, T)
    BY <2>6, NoMoreThan, Zenon
  <2> QED BY <2>7, Zenon DEF Measured
<1>4. ContactedOncePerRow
  BY <1>2, <1>3, Zenon DEF ContactedOncePerRow, OnSites
<1> QED BY <1>1, <1>4

\* No result of a run is taken from the callback of another URL, though IDs come
\* again in the next mode and attempt, save one that a check of an earlier
\* execution of a fixture or a tier with the same ID brings; and an attempt
\* contacts a URL in a mode no more often than the selection has rows with it.
THEOREM ResultsBelong == Spec => []ResultsAreTheirOwn
<1> QED BY VeriflierInvariant, OwnResultsFollow, PTL

\* The checks of a tier that completed were made, and answered.
LEMMA RatesFollow == VeriflierInv => RatesAreEarned
<1> SUFFICES ASSUME VeriflierInv PROVE CompletedWasCounted /\ SustainableMeansServed
  BY DEF RatesAreEarned
<1>1. CompletedWasCounted
  BY DEF VeriflierInv, Observed
<1>2. SustainableMeansServed
  <2> SUFFICES ASSUME program.name = "tier", NEW o \in observed,
                      classifySustainability(o.mode, tierTotal(Rate, Minutes), o.requests)
               PROVE  100 * Cardinality({i \in 1..tierTotal(Rate, Minutes) : Served(o.mode, i)}) >= 99 * tierTotal(Rate, Minutes)
    BY DEF SustainableMeansServed
  <2> PICK n, m, F : n = tierTotal(Rate, Minutes) /\ m = o.mode /\ F = FirstID[Modes[m]]
    OBVIOUS
  <2>1. m \in DOMAIN Modes /\ ProgramOK /\ ~OnSites /\ n = Total /\ program \in Programs
    BY ProgramFacts DEF VeriflierInv, Observed, Shape, OnSites, Total
  <2>2. n \in Nat \ {0} /\ F \in Nat
    BY <2>1 DEF ProgramOK
  <2> PICK S, T : S = Of(m, "completed") /\ T = {i \in 1..n : Served(m, i)}
    OBVIOUS
  <2>3. 100 * Cardinality(S) >= 99 * n
    BY DEF classifySustainability
  <2>4. IsFiniteSet(T)
    <3>1. T \in SUBSET (1..n)
      OBVIOUS
    <3>2. n \in Int /\ 1 \in Int
      BY <2>2
    <3>3. IsFiniteSet(1..n)
      BY <3>2, FS_Interval, Zenon
    <3> QED BY <3>1, <3>3, FS_Subset, Zenon
  <2>5. ASSUME NEW id \in S PROVE id \in Nat /\ id - F + 1 \in T
    <3>1. PICK r \in results : r.id = id /\ r.mode = m /\ r.kind = "completed"
      BY DEF Of
    <3>2. ResultOK(r)
      BY <3>1 DEF VeriflierInv, ResultsOK, Outs
    <3>3. Asks(m, id, r.asked) /\ (HasJob(m, id) \/ id \in program.stale)
      BY <2>1, <3>1, <3>2 DEF ResultOK, Left
    <3> PICK i : i = id - F + 1
      OBVIOUS
    <3>4. id \in F..(F + (n - 1))
      BY <2>1, <3>3 DEF Asks, IDsOf
    <3>5. i \in 1..n /\ F + (i - 1) = id /\ id \in Nat
      BY <2>2, <3>4
    <3>6. Served(m, i)
      BY <3>3, <3>5 DEF Served, HasJob
    <3>7. i \in T
      BY <3>5, <3>6
    <3> QED BY <3>5, <3>7
  <2> PICK f : f = [id \in S |-> id - F + 1]
    OBVIOUS
  <2>8. f \in [S -> T] /\ \A id \in S : f[id] = id - F + 1
    BY <2>5
  <2>10. \A x, y \in S : f[x] = f[y] => x = y
    <3> SUFFICES ASSUME NEW x \in S, NEW y \in S, f[x] = f[y] PROVE x = y
      OBVIOUS
    <3>1. x \in Nat /\ y \in Nat /\ x - F + 1 = y - F + 1
      BY <2>5, <2>8
    <3> QED BY <2>2, <3>1
  <2>11. OneByOne(f, S, T)
    BY <2>4, <2>8, <2>10, Zenon DEF OneByOne
  <2>12. Measured(S, T)
    BY <2>11, NoMoreThan, Zenon
  <2>13. Cardinality(S) <= Cardinality(T) /\ Cardinality(S) \in Nat /\ Cardinality(T) \in Nat
    BY <2>12, Zenon DEF Measured
  <2>14. 100 * Cardinality(T) >= 99 * n
    <3> PICK x \in Nat, y \in Nat : x = Cardinality(S) /\ y = Cardinality(T)
      BY <2>13
    <3>1. x <= y /\ 100 * x >= 99 * n
      BY <2>3, <2>13
    <3>2. 100 * y >= 99 * n
      BY <2>2, <3>1
    <3> QED BY <3>2
  <2> QED BY <2>14, Zenon
<1> QED BY <1>1, <1>2

\* A rate that is reported was reached: the counted target has counted every
\* check of a fixture mode that completed, and a tier that is called sustainable
\* has 99 of 100 checks made and answered by the Veriflier, also when callbacks
\* of checks whose call failed come in during the drain.  (Checks that an earlier
\* execution left under the same IDs may have answered instead.)
THEOREM RatesAreReached == Spec => []RatesAreEarned
<1> QED BY VeriflierInvariant, RatesFollow, PTL
=============================================================================
