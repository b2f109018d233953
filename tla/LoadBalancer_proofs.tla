------------------------ MODULE LoadBalancer_proofs ------------------------
(***************************************************************************)
(* For any number of accounts and requests, any priorities and any times:  *)
(* the types of LoadBalancer, and that what is counted of an account is    *)
(* its window, that requests spread evenly, and how far an account that    *)
(* has refused is avoided.                                                 *)
(***************************************************************************)
EXTENDS LoadBalancer, TLAPS, FiniteSetTheorems

(* Finite sets, sums and sequences *)

\* A set of natural numbers that is not empty has a least element.
LEMMA LeastNatural ==
    ASSUME NEW S \in SUBSET Nat, S # {}
    PROVE  \E m \in S : \A k \in S : m <= k
  <1>1. PICK m \in S : \A k \in S : ~ (<<k, m>> \in OpToRel(<, Nat))
    BY NatLessThanWellFounded, WFMin
  <1>2. \A k \in S : ~ (k < m)
    BY <1>1 DEF OpToRel
  <1> QED BY <1>2

\* Trimming drops the first records up to one that is in the window.
Drops(u, trimmed, time) ==
    /\ trimmed.last429 = u.last429
    /\ \E k \in 0 .. Len(u.records) :
         /\ Len(trimmed.records) = Len(u.records) - k
         /\ \A i \in 1 .. Len(u.records) - k : trimmed.records[i] = u.records[i + k]
         /\ \A i \in 1 .. k : u.records[i] < time - Window
         /\ k < Len(u.records) => u.records[k + 1] >= time - Window

LEMMA TrimDrops ==
    ASSUME NEW T \in SUBSET Int, NEW L, NEW u \in [records : Seq(T), last429 : L],
           NEW time \in Int
    PROVE  /\ Trimmed(u, time) \in [records : Seq(T), last429 : L]
           /\ Drops(u, Trimmed(u, time), time)
  <1> DEFINE records == u.records
             In == {i \in 1 .. Len(records) : records[i] >= time - Window}
             first == IF In # {} THEN Min(In) ELSE 0
             rest == IF first = 0 THEN <<>> ELSE SubSeq(records, first, Len(records))
  <1>1. Trimmed(u, time) = [u EXCEPT !.records = rest]
    BY DEF Trimmed, SelectInSeq
  <1>2. rest \in Seq(T) => /\ Trimmed(u, time) \in [records : Seq(T), last429 : L]
                           /\ Trimmed(u, time).records = rest
                           /\ Trimmed(u, time).last429 = u.last429
    <2> HIDE DEF rest
    <2> QED BY <1>1
  <1>3. /\ records \in Seq(T) /\ Len(records) \in Nat
        /\ \A i \in 1 .. Len(records) : records[i] \in Int /\ records[i] \in T
    <2>1. records \in Seq(T)
      OBVIOUS
    <2> HIDE DEF records
    <2>2. Len(records) \in Nat /\ \A i \in 1 .. Len(records) : records[i] \in T
      BY <2>1
    <2>3. \A x \in T : x \in Int
      OBVIOUS
    <2> QED BY <2>1, <2>2, <2>3
  <1> HIDE DEF records
  <1>4. Window \in Nat
    BY ConstantsAssumption
  <1>5. CASE In = {}
    <2>1. rest = <<>>
      <3> HIDE DEF In
      <3> QED BY <1>5
    <2> HIDE DEF first, rest
    <2>2. rest \in Seq(T) /\ Len(rest) = Len(records) - Len(records)
      BY <1>3, <2>1
    <2>3. \A i \in 1 .. Len(records) : records[i] < time - Window
      BY <1>3, <1>4, <1>5
    <2> QED BY <1>2, <1>3, <2>2, <2>3 DEF Drops, records
  <1>6. CASE In # {}
    <2>1. first \in In /\ \A i \in In : first <= i
      <3>1. \E m \in In : \A k \in In : m <= k
        <4>1. In \in SUBSET Nat
          BY <1>3
        <4> HIDE DEF In
        <4> QED BY <1>6, <4>1, LeastNatural
      <3> HIDE DEF In
      <3> QED BY <1>6, <3>1 DEF Min
    <2>2. first \in 1 .. Len(records) /\ rest = SubSeq(records, first, Len(records))
      <3>1. first \in 1 .. Len(records)
        BY <2>1
      <3> HIDE DEF first
      <3> QED BY <1>3, <3>1
    <2> HIDE DEF first, rest
    <2>3. /\ rest \in Seq(T) /\ Len(rest) = Len(records) - (first - 1)
          /\ \A i \in 1 .. Len(records) - (first - 1) : rest[i] = records[i + (first - 1)]
      BY <1>3, <2>2
    <2>4. \A i \in 1 .. first - 1 : records[i] < time - Window
      <3> SUFFICES ASSUME NEW i \in 1 .. first - 1 PROVE records[i] < time - Window
        OBVIOUS
      <3>1. i \in 1 .. Len(records) /\ i \notin In
        BY <1>3, <2>1, <2>2
      <3> QED BY <1>3, <1>4, <3>1
    <2>5. records[first] >= time - Window
      BY <2>1
    <2>6. first - 1 \in 0 .. Len(records) /\ (first - 1) + 1 = first
      BY <1>3, <2>2
    <2> HIDE DEF In
    <2> QED BY <1>2, <2>3, <2>4, <2>5, <2>6 DEF Drops, records
  <1> QED BY <1>5, <1>6

\* How often a value occurs in a sequence.
Count(s, t) == Cardinality({i \in DOMAIN s : s[i] = t})

LEMMA CountIsNat ==
    ASSUME NEW T, NEW s \in Seq(T), NEW t
    PROVE  IsFiniteSet({i \in DOMAIN s : s[i] = t}) /\ Count(s, t) \in Nat
  <1>1. IsFiniteSet(1 .. Len(s)) /\ DOMAIN s = 1 .. Len(s)
    BY FS_Interval
  <1> QED BY <1>1, FS_Subset, FS_CardinalityType DEF Count

LEMMA CountAppended ==
    ASSUME NEW T, NEW s \in Seq(T), NEW x \in T, NEW t
    PROVE  Count(Append(s, x), t) = Count(s, t) + IF x = t THEN 1 ELSE 0
  <1> DEFINE Before == {i \in DOMAIN s : s[i] = t}
             After == {i \in DOMAIN Append(s, x) : Append(s, x)[i] = t}
             n == Len(s) + 1
  <1>1. IsFiniteSet(Before) /\ Count(s, t) \in Nat
    BY CountIsNat
  <1>2. /\ After = IF x = t THEN Before \cup {n} ELSE Before
        /\ n \notin Before
    OBVIOUS
  <1> HIDE DEF Before, After, n
  <1>3. Cardinality(After) = Cardinality(Before) + IF x = t THEN 1 ELSE 0
    <2>1. Cardinality(Before \cup {n}) = Cardinality(Before) + 1
      BY <1>1, <1>2, FS_AddElement
    <2>2. Cardinality(Before) + 0 = Cardinality(Before)
      BY <1>1 DEF Count, Before
    <2> QED BY <1>2, <2>1, <2>2
  <1> QED BY <1>3 DEF Count, Before, After

LEMMA FiniteDomain == ASSUME NEW T, NEW s \in Seq(T) PROVE IsFiniteSet(DOMAIN s)
  <1> PICK m \in Nat : m = Len(s)
    OBVIOUS
  <1>1. IsFiniteSet(1 .. m)
    BY FS_Interval
  <1> QED BY <1>1

\* Dropping values other than t leaves the occurrences of t.
LEMMA CountDropped ==
    ASSUME NEW T, NEW s \in Seq(T), NEW z \in Seq(T), NEW k \in 0 .. Len(s), NEW t,
           Len(z) = Len(s) - k, \A i \in 1 .. Len(s) - k : z[i] = s[i + k],
           \A i \in 1 .. k : s[i] # t
    PROVE  Count(z, t) = Count(s, t)
  <1> DEFINE Before == {i \in DOMAIN s : s[i] = t}
             After == {i \in DOMAIN z : z[i] = t}
             shift == [i \in After |-> i + k]
  <1>1. IsFiniteSet(After)
    BY FiniteDomain, FS_Subset
  <1>2. Len(s) \in Nat /\ DOMAIN s = 1 .. Len(s) /\ DOMAIN z = 1 .. Len(s) - k
    OBVIOUS
  <1>3. ASSUME NEW i \in After PROVE i \in Nat /\ i + k \in Before
    BY <1>2
  <1>4. ASSUME NEW j \in Before PROVE j - k \in After /\ (j - k) + k = j
    <2>1. j \in 1 .. Len(s) /\ j \notin 1 .. k
      BY <1>2
    <2>2. j - k \in 1 .. Len(s) - k /\ (j - k) + k = j
      BY <1>2, <2>1
    <2>3. z[j - k] = s[j]
      BY <2>2
    <2> QED BY <1>2, <2>2, <2>3
  <1> HIDE DEF Before, After
  <1>5. shift \in Bijection(After, Before)
    <2>1. shift \in [After -> Before]
      BY <1>3
    <2>2. \A i, j \in After : shift[i] = shift[j] => i = j
      BY <1>3
    <2>3. \A j \in Before : \E i \in After : shift[i] = j
      BY <1>4
    <2> HIDE DEF shift
    <2> QED BY <2>1, <2>2, <2>3 DEF Bijection, Injection, Surjection, IsInjective
  <1>6. Cardinality(Before) = Cardinality(After)
    BY <1>1, <1>5, FS_Bijection DEF ExistsBijection
  <1> QED BY <1>6 DEF Count, Before, After

\* What holds of the empty set, and of a set as soon as it holds of the set
\* without one of its elements, holds of every finite set.
LEMMA FiniteInduction ==
    ASSUME NEW S, IsFiniteSet(S), NEW Good \in SUBSET SUBSET S,
           {} \in Good,
           \A s \in SUBSET S : s # {} => \E x \in s : s \ {x} \in Good => s \in Good
    PROVE  Good = SUBSET S
  <1> DEFINE Bad == (SUBSET S) \ Good
             Order == StrictSubsetOrdering(S)
  <1>1. SUFFICES ASSUME Bad # {} PROVE FALSE
    OBVIOUS
  <1>2. PICK s \in Bad : \A t \in Bad : ~ (<<t, s>> \in Order)
    <2>1. IsWellFoundedOn(Order, SUBSET S)
      BY FS_StrictSubsetOrderingWellFounded, FS_FiniteSubsetsOfFinite
    <2>2. Bad \subseteq SUBSET S
      OBVIOUS
    <2> HIDE DEF Order, Bad
    <2> QED BY <1>1, <2>1, <2>2, WFMin
  <1>3. PICK x \in s : s \ {x} \in Good => s \in Good
    <2>1. s \in SUBSET S /\ s \notin Good
      OBVIOUS
    <2>2. s # {}
      BY <2>1
    <2> QED BY <2>1, <2>2
  <1>4. <<s \ {x}, s>> \in Order
    BY <1>3 DEF StrictSubsetOrdering
  <1>5. s \ {x} \notin Bad
    BY <1>2, <1>4
  <1> QED BY <1>3, <1>5

\* One element entering or leaving a finite set changes its cardinality by one.
LEMMA OneMoves ==
    ASSUME NEW S, IsFiniteSet(S), NEW A \in SUBSET S, NEW B \in SUBSET S, NEW r \in S,
           \A x \in S \ {r} : x \in A <=> x \in B
    PROVE  /\ Cardinality(A) \in Nat /\ Cardinality(B) \in Nat
           /\ Cardinality(B) = Cardinality(A) + (IF r \in B THEN 1 ELSE 0)
                                              - (IF r \in A THEN 1 ELSE 0)
  <1>1. /\ IsFiniteSet(A) /\ Cardinality(A) \in Nat
        /\ IsFiniteSet(B) /\ Cardinality(B) \in Nat
    BY FS_Subset, FS_CardinalityType
  <1>2. CASE r \in A /\ r \notin B
    <2>1. B = A \ {r}
      BY <1>2
    <2>2. Cardinality(B) = Cardinality(A) - 1
      BY <1>1, <1>2, <2>1, FS_RemoveElement
    <2> QED BY <1>1, <1>2, <2>2
  <1>3. CASE r \notin A /\ r \in B
    <2>1. B = A \cup {r}
      BY <1>3
    <2>2. Cardinality(B) = Cardinality(A) + 1
      BY <1>1, <1>3, <2>1, FS_AddElement
    <2> QED BY <1>1, <1>3, <2>2
  <1>4. CASE r \in A <=> r \in B
    <2>1. A = B
      BY <1>4
    <2> QED BY <1>1, <2>1
  <1> QED BY <1>2, <1>3, <1>4

\* The sum of f over a finite set (the fold of MapThenSumSet).
Sum(f, S) == MapThenSumSet(LAMBDA a : f[a], S)

Some(s) == CHOOSE x \in s : TRUE
Iter(f, s, g) == IF s = {} THEN 0 ELSE f[Some(s)] + g[s \ {Some(s)}]
Partial(f, S) == CHOOSE g : g = [s \in SUBSET S |-> Iter(f, s, g)]

LEMMA SomeIsElement == \A s : s # {} => Some(s) \in s
  BY DEF Some

\* The sums over the subsets exist: a sum counts the pairs of an element and a
\* number below its value.
LEMMA PartialSums ==
    ASSUME NEW S, IsFiniteSet(S), NEW f \in [S -> Nat]
    PROVE  /\ Sum(f, S) = Partial(f, S)[S]
           /\ Partial(f, S) = [s \in SUBSET S |-> Iter(f, s, Partial(f, S))]
  <1> DEFINE Below(s) == {p \in s \X Nat : p[2] < f[p[1]]}
             Column(x) == {x} \X (0 .. f[x] - 1)
             G == [s \in SUBSET S |-> Cardinality(Below(s))]
             Good == {s \in SUBSET S : IsFiniteSet(Below(s))}
  <1>1. Sum(f, S) = Partial(f, S)[S]
    BY DEF Sum, MapThenSumSet, MapThenFoldSet, Partial, Iter, Some
  <1>2. ASSUME NEW x \in S
        PROVE  IsFiniteSet(Column(x)) /\ Cardinality(Column(x)) = f[x] /\ f[x] \in Nat
    <2> DEFINE I == 0 .. f[x] - 1
               pair == [i \in I |-> <<x, i>>]
    <2>1. IsFiniteSet(I) /\ Cardinality(I) = f[x] /\ f[x] \in Nat
      <3>1. f[x] \in Nat
        OBVIOUS
      <3> QED BY <3>1, FS_Interval
    <2> HIDE DEF I
    <2>2. pair \in Bijection(I, {x} \X I)
      <3>1. pair \in [I -> {x} \X I]
        OBVIOUS
      <3>2. \A i, j \in I : pair[i] = pair[j] => i = j
        OBVIOUS
      <3>3. \A p \in {x} \X I : \E i \in I : pair[i] = p
        OBVIOUS
      <3> HIDE DEF pair
      <3> QED BY <3>1, <3>2, <3>3 DEF Bijection, Injection, Surjection, IsInjective
    <2>3. IsFiniteSet({x} \X I) /\ Cardinality({x} \X I) = Cardinality(I)
      BY <2>1, <2>2, FS_Bijection DEF ExistsBijection
    <2> QED BY <2>1, <2>3 DEF I
  <1>3. ASSUME NEW s \in SUBSET S, NEW x \in s
        PROVE  /\ Below(s) = Below(s \ {x}) \cup Column(x)
               /\ Below(s \ {x}) \cap Column(x) = {}
    <2>1. f[x] \in Nat
      OBVIOUS
    <2>2. ASSUME NEW p PROVE p \in Below(s) <=> p \in Below(s \ {x}) \/ p \in Column(x)
      BY <2>1
    <2> QED BY <2>2
  <1>4. Below({}) = {}
    OBVIOUS
  <1> HIDE DEF Below, Column
  <1>5. Good = SUBSET S
    <2>1. {} \in Good
      BY <1>4, FS_EmptySet
    <2>2. ASSUME NEW s \in SUBSET S, s # {}
          PROVE  \E x \in s : s \ {x} \in Good => s \in Good
      <3> PICK x \in s : TRUE
        BY <2>2
      <3>1. ASSUME s \ {x} \in Good PROVE s \in Good
        <4>1. IsFiniteSet(Below(s \ {x})) /\ IsFiniteSet(Column(x))
          BY <1>2, <3>1
        <4>2. IsFiniteSet(Below(s \ {x}) \cup Column(x))
          BY <4>1, FS_Union
        <4> QED BY <1>3, <4>2
      <3> QED BY <3>1
    <2>3. Good \in SUBSET SUBSET S
      OBVIOUS
    <2> HIDE DEF Good
    <2> QED BY <2>1, <2>2, <2>3, FiniteInduction
  <1>6. ASSUME NEW s \in SUBSET S, NEW x \in s
        PROVE  Cardinality(Below(s)) = f[x] + Cardinality(Below(s \ {x}))
    <2>1. IsFiniteSet(Below(s \ {x})) /\ Cardinality(Below(s \ {x})) \in Nat
      <3>1. s \ {x} \in Good
        BY <1>5
      <3> QED BY <3>1, FS_CardinalityType
    <2>2. IsFiniteSet(Column(x)) /\ Cardinality(Column(x)) = f[x] /\ f[x] \in Nat
      BY <1>2
    <2>3. Cardinality(Below(s \ {x}) \cup Column(x)) =
            Cardinality(Below(s \ {x})) + Cardinality(Column(x))
              - Cardinality(Below(s \ {x}) \cap Column(x))
      BY <2>1, <2>2, FS_Union
    <2>4. Cardinality(Below(s \ {x}) \cap Column(x)) = 0
      BY <1>3, FS_EmptySet
    <2> DEFINE n == Cardinality(Below(s))
               m == Cardinality(Below(s \ {x}))
    <2>5. n = m + f[x] - 0 /\ m \in Nat
      BY <1>3, <2>1, <2>2, <2>3, <2>4
    <2> HIDE DEF n, m
    <2>6. n = f[x] + m
      BY <2>2, <2>5
    <2> QED BY <2>6 DEF n, m
  <1>7. G = [s \in SUBSET S |-> Iter(f, s, G)]
    <2> SUFFICES ASSUME NEW s \in SUBSET S PROVE G[s] = Iter(f, s, G)
      OBVIOUS
    <2>1. CASE s = {}
      BY <2>1, <1>4, FS_EmptySet DEF Iter
    <2>2. CASE s # {}
      <3>1. Some(s) \in s /\ s \ {Some(s)} \in SUBSET S
        BY <2>2, SomeIsElement
      <3> QED BY <2>2, <3>1, <1>6 DEF Iter
    <2> QED BY <2>1, <2>2
  <1>8. Partial(f, S) = [s \in SUBSET S |-> Iter(f, s, Partial(f, S))]
    <2> HIDE DEF G
    <2> QED BY <1>7 DEF Partial
  <1> QED BY <1>1, <1>8

\* A sum of naturals is at least each of them; one more in one of them is one more
\* in the sum.
LEMMA SumProperties ==
    ASSUME NEW S, IsFiniteSet(S), NEW f \in [S -> Nat]
    PROVE  /\ Sum(f, S) \in Nat
           /\ \A b \in S : f[b] <= Sum(f, S)
           /\ \A b \in S : Sum([f EXCEPT ![b] = @ + 1], S) = Sum(f, S) + 1
           /\ (\A b \in S : f[b] = 0) => Sum(f, S) = 0
  <1> DEFINE p == Partial(f, S)
             Bounds(s) == p[s] \in Nat /\ \A b \in s : f[b] <= p[s]
             Zero(s) == (\A b \in S : f[b] = 0) => p[s] = 0
             Good == {s \in SUBSET S : Bounds(s) /\ Zero(s)}
  <1>1. ASSUME NEW s \in SUBSET S
        PROVE  /\ s = {} => p[s] = 0
               /\ s # {} => p[s] = f[Some(s)] + p[s \ {Some(s)}]
    <2>1. p = [t \in SUBSET S |-> Iter(f, t, p)]
      BY PartialSums
    <2> HIDE DEF p
    <2>2. p[s] = Iter(f, s, p)
      BY <2>1
    <2> QED BY <2>2 DEF Iter
  <1> HIDE DEF p
  <1>2. Good = SUBSET S
    <2>1. {} \in Good
      <3>1. {} \in SUBSET S
        OBVIOUS
      <3>2. p[{}] = 0
        BY <1>1, <3>1
      <3> QED BY <3>1, <3>2
    <2>2. ASSUME NEW s \in SUBSET S, s # {}
          PROVE  \E x \in s : s \ {x} \in Good => s \in Good
      <3>1. Some(s) \in s /\ Some(s) \in S /\ s \ {Some(s)} \in SUBSET S /\ f[Some(s)] \in Nat
        BY <2>2, SomeIsElement
      <3>2. p[s] = f[Some(s)] + p[s \ {Some(s)}]
        BY <1>1, <2>2
      <3>3. ASSUME s \ {Some(s)} \in Good PROVE s \in Good
        <4>1. p[s \ {Some(s)}] \in Nat /\ \A b \in s \ {Some(s)} : f[b] <= p[s \ {Some(s)}]
          BY <3>3
        <4>2. p[s] \in Nat
          BY <3>1, <3>2, <4>1
        <4>3. ASSUME NEW b \in s PROVE f[b] <= p[s]
          <5>1. f[b] \in Nat
            OBVIOUS
          <5>2. CASE b = Some(s)
            BY <3>1, <3>2, <4>1, <5>2
          <5>3. CASE b # Some(s)
            BY <3>1, <3>2, <4>1, <4>2, <5>1, <5>3
          <5> QED BY <5>2, <5>3
        <4>4. Zero(s)
          BY <3>1, <3>2, <3>3
        <4> QED BY <4>2, <4>3, <4>4
      <3> QED BY <3>1, <3>3
    <2>3. Good \in SUBSET SUBSET S
      OBVIOUS
    <2> HIDE DEF Good
    <2> QED BY <2>1, <2>2, <2>3, FiniteInduction
  <1>3. Sum(f, S) = p[S] /\ S \in Good
    BY <1>2, PartialSums DEF p
  <1>4. ASSUME NEW b \in S PROVE Sum([f EXCEPT ![b] = @ + 1], S) = Sum(f, S) + 1
    <2> DEFINE h == [f EXCEPT ![b] = @ + 1]
               q == Partial(h, S)
               More == {s \in SUBSET S : q[s] = p[s] + IF b \in s THEN 1 ELSE 0}
    <2>1. h \in [S -> Nat] /\ h[b] = f[b] + 1 /\ \A x \in S \ {b} : h[x] = f[x]
      OBVIOUS
    <2> HIDE DEF h
    <2>2. ASSUME NEW s \in SUBSET S
          PROVE  /\ s = {} => q[s] = 0
                 /\ s # {} => q[s] = h[Some(s)] + q[s \ {Some(s)}]
      <3>1. q = [t \in SUBSET S |-> Iter(h, t, q)]
        BY <2>1, PartialSums
      <3> HIDE DEF q
      <3>2. q[s] = Iter(h, s, q)
        BY <3>1
      <3> QED BY <3>2 DEF Iter
    <2>3. Sum(h, S) = q[S]
      BY <2>1, PartialSums
    <2> HIDE DEF q
    <2>4. More = SUBSET S
      <3>1. {} \in More
        <4>1. {} \in SUBSET S
          OBVIOUS
        <4>2. p[{}] = 0 /\ q[{}] = 0
          BY <1>1, <2>2, <4>1
        <4> QED BY <4>1, <4>2
      <3>2. ASSUME NEW s \in SUBSET S, s # {}
            PROVE  \E x \in s : s \ {x} \in More => s \in More
        <4> DEFINE x == Some(s)
        <4>1. x \in s /\ x \in S /\ s \ {x} \in SUBSET S /\ f[x] \in Nat
          BY <3>2, SomeIsElement
        <4>2. p[s] = f[x] + p[s \ {x}] /\ q[s] = h[x] + q[s \ {x}]
          BY <1>1, <2>2, <3>2
        <4>3. p[s \ {x}] \in Nat
          <5>1. s \ {x} \in Good
            BY <1>2, <4>1
          <5> QED BY <5>1
        <4> HIDE DEF x
        <4>4. ASSUME s \ {x} \in More PROVE q[s] = p[s] + IF b \in s THEN 1 ELSE 0
          <5>1. q[s \ {x}] = p[s \ {x}] + IF b \in s \ {x} THEN 1 ELSE 0
            BY <4>4
          <5>2. CASE b = x
            BY <2>1, <4>1, <4>2, <4>3, <5>1, <5>2
          <5>3. CASE b # x
            <6>1. h[x] = f[x] /\ (b \in s \ {x} <=> b \in s)
              BY <2>1, <4>1, <5>3
            <6> QED BY <4>1, <4>2, <4>3, <5>1, <6>1
          <5> QED BY <5>2, <5>3
        <4> QED BY <4>1, <4>4
      <3>3. More \in SUBSET SUBSET S
        OBVIOUS
      <3> HIDE DEF More
      <3> QED BY <3>1, <3>2, <3>3, FiniteInduction
    <2>5. S \in More
      BY <2>4
    <2> QED BY <1>3, <2>3, <2>5 DEF h
  <1> QED BY <1>3, <1>4
-----------------------------------------------------------------------------
(* Types *)

Usage == [records : Seq(Times), last429 : Times \cup {Never}]

Owed == UNION {[S -> Nat] : S \in SUBSET Accounts}
ChoosingState == [at : {"counting", "weighing"}, from : Lists, next : Nat, best : Accounts,
                  score : Int, since : Times, count : Nat, owed : Owed]
PlainState == [at : {"selected"}, account : Accounts]
WeighedState == [at : {"selected"}, account : Accounts, from : Lists,
                 owed : Owed, since : Times]
RecordingState == [at : {"recording"}, account : Accounts, stamp : Times,
                   first : BOOLEAN, is429 : BOOLEAN]
SentState == [at : {"sent"}, account : Accounts]

RequestState == {Idle} \cup ChoosingState \cup PlainState \cup WeighedState
                       \cup RecordingState \cup SentState

\* What is true of a request's record while the strategy is s and the time is t.
StateOK(q, s, t) ==
    /\ q \in RequestState
    /\ q.at \in {"counting", "weighing"} =>
         q.next \in DOMAIN q.from /\ q.since <= t /\ s \in {"least-used", "smart"}
    /\ q.at = "weighing" => s # "least-used"
    /\ (q.at = "selected" /\ s = "smart") => q \in WeighedState /\ q.since <= t
    /\ q.at = "recording" => q.stamp \in t - MaxDelay .. t

RequestsOK ==
    /\ DOMAIN request = Requests
    /\ \A r \in Requests : StateOK(request[r], strategy, now)

Typed ==
    /\ now \in Times
    /\ usage \in [Accounts -> Usage]
    /\ rrIndex \in Nat
    /\ strategy \in Strategies
    /\ made \in [Accounts -> [Times -> Nat]]
    /\ chosen \in [Accounts -> Nat]
    /\ even \in BOOLEAN

LEMMA TimesAreIntegers == Times \in SUBSET Int
  BY ConstantsAssumption DEF Times

LEMMA AccountsFinite ==
    /\ IsFiniteSet(Accounts)
    /\ Len(AccountList) \in Nat /\ DOMAIN AccountList = 1 .. Len(AccountList)
    /\ AccountList \in [1 .. Len(AccountList) -> Accounts]
    /\ \A a \in Accounts : \E i \in 1 .. Len(AccountList) : AccountList[i] = a
    /\ \A i, j \in 1 .. Len(AccountList) : AccountList[i] = AccountList[j] => i = j
  <1>1. /\ Len(AccountList) \in Nat /\ DOMAIN AccountList = 1 .. Len(AccountList)
        /\ AccountList \in [1 .. Len(AccountList) -> Accounts]
    BY AccountsAssumption
  <1>2. \A a \in Accounts : \E i \in 1 .. Len(AccountList) : AccountList[i] = a
    BY <1>1 DEF Accounts, ToSet
  <1>3. AccountList \in Surjection(1 .. Len(AccountList), Accounts)
    BY <1>1, <1>2 DEF Surjection
  <1>4. IsFiniteSet(Accounts)
    BY <1>1, <1>3, FS_Interval, FS_Surjection
  <1> QED BY <1>1, <1>2, <1>4, AccountsAssumption DEF IsInjective

LEMMA ListType ==
    ASSUME NEW from \in Lists
    PROVE  /\ Len(from) \in Nat \ {0} /\ DOMAIN from = 1 .. Len(from)
           /\ from \in [1 .. Len(from) -> Accounts]
           /\ ToSet(from) \subseteq Accounts
           /\ \A a \in ToSet(from) : \E i \in 1 .. Len(from) : from[i] = a
  <1>1. PICK n \in 1 .. Len(AccountList) : from \in [1 .. n -> Accounts]
    BY AccountsFinite DEF Lists
  <1>2. Len(from) = n /\ n \in Nat \ {0} /\ DOMAIN from = 1 .. n
    BY <1>1, AccountsFinite
  <1>3. from \in [1 .. Len(from) -> Accounts]
    BY <1>1, <1>2
  <1>4. \A a \in ToSet(from) : a \in Accounts /\ \E i \in 1 .. Len(from) : from[i] = a
    BY <1>2, <1>3 DEF ToSet
  <1> QED BY <1>2, <1>3, <1>4

\* The stage of a request tells which of the records it is.
LEMMA StateAt ==
    ASSUME NEW q \in RequestState
    PROVE  /\ q.at \in {"idle", "counting", "weighing", "selected", "recording", "sent"}
           /\ q.at = "idle" => q = Idle
           /\ q.at \in {"counting", "weighing"} => q \in ChoosingState
           /\ q.at = "selected" => q \in PlainState \/ q \in WeighedState
           /\ q.at \in {"selected", "recording", "sent"} => q.account \in Accounts
           /\ q.at = "recording" => q \in RecordingState
           /\ q.at = "sent" => q \in SentState
  <1>1. CASE q = Idle
    BY <1>1 DEF Idle
  <1>2. CASE q \in ChoosingState
    BY <1>2 DEF ChoosingState
  <1>3. CASE q \in PlainState
    BY <1>3 DEF PlainState
  <1>4. CASE q \in WeighedState
    BY <1>4 DEF WeighedState
  <1>5. CASE q \in RecordingState
    BY <1>5 DEF RecordingState
  <1>6. CASE q \in SentState
    BY <1>6 DEF SentState
  <1> QED BY <1>1, <1>2, <1>3, <1>4, <1>5, <1>6 DEF RequestState

\* Trimmed and Recorded keep the type of a usage.
LEMMA TrimmedType ==
    ASSUME NEW u \in Usage, NEW time \in Times
    PROVE  /\ Trimmed(u, time) \in Usage /\ Drops(u, Trimmed(u, time), time)
           /\ WindowRequestCount(u, time) \in Nat
           /\ Len(u.records) \in Nat
           /\ WindowRequestCount(u, time) <= Len(u.records)
  <1>1. /\ Trimmed(u, time) \in Usage
        /\ Drops(u, Trimmed(u, time), time)
    <2>1. time \in Int
      BY TimesAreIntegers
    <2> QED BY <2>1, TimesAreIntegers, TrimDrops DEF Usage
  <1>2. Len(u.records) \in Nat
    BY DEF Usage
  <1>3. WindowRequestCount(u, time) = Len(Trimmed(u, time).records)
    BY DEF WindowRequestCount
  <1>4. PICK k \in 0 .. Len(u.records) : Len(Trimmed(u, time).records) = Len(u.records) - k
    BY <1>1 DEF Drops
  <1> QED BY <1>1, <1>2, <1>3, <1>4

\* The usage with the record appended, before it is trimmed.
WithRecord(u, at, is429) ==
    [records |-> Append(u.records, at), last429 |-> IF is429 THEN at ELSE u.last429]

LEMMA RecordedType ==
    ASSUME NEW u \in Usage, NEW at \in Times, NEW is429 \in BOOLEAN
    PROVE  /\ WithRecord(u, at, is429) \in Usage
           /\ Recorded(u, at, is429) \in Usage
           /\ Drops(WithRecord(u, at, is429), Recorded(u, at, is429), at)
  <1>1. WithRecord(u, at, is429) \in Usage
    <2>1. u.records \in Seq(Times) /\ u.last429 \in Times \cup {Never}
      BY DEF Usage
    <2>2. Append(u.records, at) \in Seq(Times)
      BY <2>1
    <2> QED BY <2>1, <2>2 DEF WithRecord, Usage
  <1>2. Recorded(u, at, is429) = Trimmed(WithRecord(u, at, is429), at)
    BY DEF Recorded, WithRecord
  <1> QED BY <1>1, <1>2, TrimmedType

\* Some account of a list has the highest priority.
LEMMA HighestIsAccount ==
    ASSUME NEW from \in Lists
    PROVE  HighestPriority(from) \in Accounts
  <1> DEFINE bound == Sum(Priority, Accounts)
             Above == {k \in Nat : \A a \in ToSet(from) : Priority[a] <= k}
             Test(a) == \A b \in ToSet(from) : Priority[b] <= Priority[a]
             I == {i \in 1 .. Len(from) : Test(from[i])}
  <1>1. /\ Len(from) \in Nat \ {0} /\ from \in [1 .. Len(from) -> Accounts]
        /\ ToSet(from) = {from[i] : i \in 1 .. Len(from)}
        /\ ToSet(from) \subseteq Accounts
    BY ListType DEF ToSet
  <1>2. Priority \in [Accounts -> Nat]
    BY ConstantsAssumption
  <1>3. bound \in Above
    BY <1>1, <1>2, AccountsFinite, SumProperties
  <1>4. PICK m \in Above : \A k \in Above : m <= k
    <2>1. Above \in SUBSET Nat /\ Above # {}
      BY <1>3
    <2> HIDE DEF Above
    <2> QED BY <2>1, LeastNatural
  <1>5. \E a \in ToSet(from) : Priority[a] = m
    <2> SUFFICES ASSUME \A a \in ToSet(from) : Priority[a] # m PROVE FALSE
      OBVIOUS
    <2>1. \A a \in ToSet(from) : Priority[a] \in Nat /\ Priority[a] <= m - 1
      BY <1>1, <1>2, <1>4
    <2>2. from[1] \in ToSet(from)
      BY <1>1
    <2>3. m - 1 \in Nat
      BY <1>4, <2>1, <2>2
    <2>4. m - 1 \in Above
      BY <2>1, <2>3
    <2> QED BY <1>4, <2>3, <2>4
  <1>6. I # {} /\ I \in SUBSET Nat
    <2> PICK a \in ToSet(from) : Priority[a] = m
      BY <1>5
    <2>1. Test(a)
      BY <1>4
    <2> QED BY <1>1, <2>1
  <1>7. Min(I) \in I
    <2> HIDE DEF I
    <2>1. \E i \in I : \A j \in I : i <= j
      BY <1>6, LeastNatural
    <2> QED BY <2>1 DEF Min
  <1>8. HighestPriority(from) = from[IF I # {} THEN Min(I) ELSE 0]
    BY DEF HighestPriority, SelectInSeq
  <1>9. HighestPriority(from) = from[Min(I)]
    <2> HIDE DEF I
    <2> QED BY <1>6, <1>8
  <1>10. Min(I) \in 1 .. Len(from)
    BY <1>7
  <1> QED BY <1>1, <1>9, <1>10
-----------------------------------------------------------------------------
(* What a step does to the request that takes it. *)

Better(q, score) == q.next = 1 \/ score < q.score
BestOf(q, score) == IF Better(q, score) THEN q.from[q.next] ELSE q.best
ScoreOf(q, score) == IF Better(q, score) THEN score ELSE q.score
GoesOn(q, score) ==
    [q EXCEPT !.at = "counting", !.next = q.next + 1, !.best = BestOf(q, score), !.count = 0,
              !.score = ScoreOf(q, score)]
Choice(q, score) ==
    [at |-> "selected", account |-> BestOf(q, score), from |-> q.from, owed |-> q.owed,
     since |-> q.since]

LEMMA ConsiderIs ==
    ASSUME NEW r \in Requests, DOMAIN request = Requests, NEW score, Consider(r, score)
    PROVE  LET q == request[r]
           IN \/ /\ q.next < Len(q.from)
                 /\ request' = [request EXCEPT ![r] = GoesOn(q, score)]
                 /\ chosen' = chosen
              \/ /\ ~(q.next < Len(q.from))
                 /\ request' = [request EXCEPT ![r] = Choice(q, score)]
                 /\ chosen' = [chosen EXCEPT ![BestOf(q, score)] = @ + 1]
  <1> DEFINE q == request[r]
             better == q.next = 1 \/ score < q.score
             best == IF better THEN q.from[q.next] ELSE q.best
  <1>1. BestOf(q, score) = best
    BY DEF BestOf, Better
  <1>2. ScoreOf(q, score) = IF better THEN score ELSE q.score
    BY DEF ScoreOf, Better
  <1> HIDE DEF best, better
  <1>3. GoesOn(q, score) =
          [q EXCEPT !.at = "counting", !.next = @ + 1, !.best = best, !.count = 0,
                    !.score = IF better THEN score ELSE @]
    BY <1>1, <1>2 DEF GoesOn
  <1>4. Choice(q, score) =
          [at |-> "selected", account |-> best, from |-> q.from, owed |-> q.owed,
           since |-> q.since]
    BY <1>1 DEF Choice
  <1> QED BY <1>1, <1>3, <1>4 DEF Consider, better, best

LEMMA ConsiderTypes ==
    ASSUME NEW q \in ChoosingState, q.next \in DOMAIN q.from, NEW score \in Int
    PROVE  LET g == GoesOn(q, score)
               c == Choice(q, score)
           IN /\ BestOf(q, score) \in Accounts /\ ScoreOf(q, score) \in Int
              /\ q.from[q.next] \in Accounts /\ q.from[q.next] \in ToSet(q.from)
              /\ g \in ChoosingState
              /\ g.at = "counting" /\ g.next = q.next + 1 /\ g.best = BestOf(q, score)
              /\ g.score = ScoreOf(q, score) /\ g.from = q.from /\ g.owed = q.owed
              /\ g.since = q.since
              /\ q.next < Len(q.from) => g.next \in DOMAIN g.from
              /\ c \in WeighedState
              /\ c.at = "selected" /\ c.account = BestOf(q, score) /\ c.from = q.from
              /\ c.owed = q.owed /\ c.since = q.since
  <1>1. /\ q.from \in Lists /\ q.next \in Nat /\ q.best \in Accounts /\ q.score \in Int
        /\ q.owed \in Owed /\ q.since \in Times
    BY DEF ChoosingState
  <1>2. q.next \in 1 .. Len(q.from) /\ Len(q.from) \in Nat /\ DOMAIN q.from = 1 .. Len(q.from)
    BY <1>1, ListType
  <1>3. q.from[q.next] \in Accounts /\ q.from[q.next] \in ToSet(q.from)
    BY <1>1, <1>2, ListType DEF ToSet
  <1>4. BestOf(q, score) \in Accounts /\ ScoreOf(q, score) \in Int
    BY <1>1, <1>3 DEF BestOf, ScoreOf
  <1>5. GoesOn(q, score) \in ChoosingState
    <2>1. ASSUME NEW b \in Accounts, NEW s \in Int, NEW n \in Nat
          PROVE  [q EXCEPT !.at = "counting", !.next = n, !.best = b, !.count = 0, !.score = s]
                   \in ChoosingState
      BY DEF ChoosingState
    <2>2. q.next + 1 \in Nat
      BY <1>1
    <2> QED BY <1>4, <2>1, <2>2 DEF GoesOn
  <1>6. LET g == GoesOn(q, score)
        IN /\ g.at = "counting" /\ g.next = q.next + 1 /\ g.best = BestOf(q, score)
           /\ g.score = ScoreOf(q, score) /\ g.from = q.from /\ g.owed = q.owed
           /\ g.since = q.since
    BY DEF GoesOn, ChoosingState
  <1>7. q.next < Len(q.from) => q.next + 1 \in DOMAIN q.from
    BY <1>2
  <1>8. Choice(q, score) \in WeighedState
    BY <1>1, <1>4 DEF Choice, WeighedState
  <1> QED BY <1>3, <1>4, <1>5, <1>6, <1>7, <1>8 DEF Choice
-----------------------------------------------------------------------------
(* Each step keeps the types. *)

Moves(r, x) ==
    /\ request' = [request EXCEPT ![r] = x]
    /\ UNCHANGED <<now, strategy>>

LEMMA OneRequest ==
    ASSUME RequestsOK, NEW r \in Requests, NEW x, StateOK(x, strategy, now), Moves(r, x)
    PROVE  /\ RequestsOK'
           /\ request'[r] = x
           /\ \A p \in Requests \ {r} : request'[p] = request[p]
  <1>1. /\ request' = [request EXCEPT ![r] = x] /\ DOMAIN request = Requests
        /\ now' = now /\ strategy' = strategy
    BY DEF RequestsOK, Moves
  <1>2. /\ DOMAIN request' = Requests /\ request'[r] = x
        /\ \A p \in Requests \ {r} : request'[p] = request[p]
    BY <1>1
  <1>3. ASSUME NEW p \in Requests PROVE StateOK(request'[p], strategy, now)
    BY <1>2 DEF RequestsOK
  <1>4. RequestsOK'
    BY <1>1, <1>2, <1>3 DEF RequestsOK, StateOK
  <1> QED BY <1>2, <1>4

\* selectRoundRobin and selectByPriority choose at once.
LEMMA SelectsAtOnce ==
    ASSUME Typed, RequestsOK, NEW r \in Requests, SelectRoundRobin(r) \/ SelectByPriority(r)
    PROVE  \E from \in Lists, a \in Accounts :
             /\ request[r].at = "idle"
             /\ even' = (even /\ from = AccountList)
             /\ Moves(r, [at |-> "selected", account |-> a])
             /\ StateOK([at |-> "selected", account |-> a], strategy, now)
             /\ chosen' = [chosen EXCEPT ![a] = @ + 1]
             /\ strategy = "round-robin" =>
                  a = from[(rrIndex % Len(from)) + 1] /\ rrIndex' = rrIndex + 1
             /\ strategy # "round-robin" => rrIndex' = rrIndex
             /\ strategy \in {"round-robin", "priority"}
             /\ UNCHANGED <<usage, made>>
  <1>1. ASSUME NEW a \in Accounts, strategy \in {"round-robin", "priority"}
        PROVE  StateOK([at |-> "selected", account |-> a], strategy, now)
    BY <1>1 DEF StateOK, RequestState, PlainState
  <1>2. CASE SelectRoundRobin(r)
    <2>1. PICK from \in Lists : /\ MayChooseFrom(r, from)
                                /\ Selected(r, from[(rrIndex % Len(from)) + 1])
      BY <1>2 DEF SelectRoundRobin
    <2>2. from[(rrIndex % Len(from)) + 1] \in Accounts
      <3>1. Len(from) \in Nat \ {0} /\ rrIndex \in Nat
        BY ListType DEF Typed
      <3>2. (rrIndex % Len(from)) + 1 \in 1 .. Len(from)
        BY <3>1
      <3> QED BY <3>2, ListType
    <2>3. /\ strategy = "round-robin" /\ rrIndex' = rrIndex + 1
          /\ UNCHANGED <<now, usage, strategy, made>>
      BY <1>2 DEF SelectRoundRobin
    <2> QED BY <1>1, <2>1, <2>2, <2>3 DEF MayChooseFrom, Selected, Moves, At
  <1>3. CASE SelectByPriority(r)
    <2>1. PICK from \in Lists : MayChooseFrom(r, from) /\ Selected(r, HighestPriority(from))
      BY <1>3 DEF SelectByPriority
    <2>2. HighestPriority(from) \in Accounts
      BY HighestIsAccount
    <2>3. /\ strategy = "priority" /\ UNCHANGED <<now, usage, rrIndex, strategy, made>>
      BY <1>3 DEF SelectByPriority
    <2> QED BY <1>1, <2>1, <2>2, <2>3 DEF MayChooseFrom, Selected, Moves, At
  <1> QED BY <1>2, <1>3

\* What the priority of an account takes off its score.
Weight(a) == PriorityWeight * Priority[a]

LEMMA Weights ==
    /\ \A a \in Accounts : Weight(a) \in Nat
    /\ \A a, b \in Accounts : Priority[a] >= Priority[b] => Weight(a) >= Weight(b)
  <1>1. PriorityWeight \in Nat /\ Priority \in [Accounts -> Nat]
    BY ConstantsAssumption
  <1>2. \A m, n \in Nat : PriorityWeight * m \in Nat /\ (m >= n => PriorityWeight * m >= PriorityWeight * n)
    BY <1>1
  <1>3. \A a \in Accounts : Priority[a] \in Nat
    BY <1>1
  <1> QED BY <1>2, <1>3 DEF Weight

LEMMA PenaltyType ==
    ASSUME NEW last429 \in Times \cup {Never}, NEW since \in Times
    PROVE  /\ Penalty(last429, since) \in Nat
           /\ Penalized(last429, since) => Penalty(last429, since) >= PenaltyRate
           /\ ~Penalized(last429, since) => Penalty(last429, since) = 0
  <1>1. PenaltyRate \in Nat /\ PenaltyTime \in Nat
    BY ConstantsAssumption
  <1>2. last429 \in Int /\ since \in Int
    BY TimesAreIntegers DEF Never
  <1>3. \A k \in Nat \ {0} : PenaltyRate * k \in Nat /\ PenaltyRate * k >= PenaltyRate
    BY <1>1
  <1>4. CASE Penalized(last429, since)
    <2>1. PenaltyTime - (since - last429) \in Nat \ {0}
      BY <1>1, <1>2, <1>4 DEF Penalized
    <2> QED BY <1>3, <1>4, <2>1 DEF Penalty, Penalized
  <1>5. CASE ~Penalized(last429, since)
    BY <1>5 DEF Penalty, Penalized
  <1> QED BY <1>4, <1>5

LEMMA ChoiceBegins ==
    ASSUME Typed, RequestsOK, NEW r \in Requests, BeginChoice(r)
    PROVE  \E from \in Lists :
             LET x == Choosing(from, "counting")
             IN /\ request[r].at = "idle"
                /\ even' = (even /\ from = AccountList)
                /\ Moves(r, x) /\ StateOK(x, strategy, now) /\ x \in ChoosingState
                /\ x.from = from /\ x.next = 1 /\ x.at = "counting" /\ x.since = now
                /\ x.best = from[1] /\ from[1] \in ToSet(from)
                /\ x.owed = [a \in ToSet(from) |-> Penalty(usage[a].last429, now)]
                /\ x.owed \in [ToSet(from) -> Nat]
                /\ UNCHANGED <<usage, rrIndex, made, chosen>>
  <1> PICK from \in Lists :
        /\ MayChooseFrom(r, from)
        /\ request' = [request EXCEPT ![r] = Choosing(from, "counting")]
    BY DEF BeginChoice
  <1> DEFINE owed == [a \in ToSet(from) |-> Penalty(usage[a].last429, now)]
             x == Choosing(from, "counting")
  <1>1. /\ from[1] \in Accounts /\ from[1] \in ToSet(from) /\ now \in Times
        /\ 1 \in DOMAIN from
    BY ListType DEF Typed, ToSet
  <1>2. /\ x.at = "counting" /\ x.from = from /\ x.next = 1 /\ x.best = from[1] /\ x.score = 0
        /\ x.since = now /\ x.count = 0 /\ x.owed = owed
    BY DEF Choosing
  <1>3. owed \in [ToSet(from) -> Nat] /\ owed \in Owed
    <2>1. ASSUME NEW a \in ToSet(from) PROVE Penalty(usage[a].last429, now) \in Nat
      <3>1. usage[a].last429 \in Times \cup {Never}
        BY ListType DEF Typed, Usage
      <3> QED BY <1>1, <3>1, PenaltyType
    <2>2. owed \in [ToSet(from) -> Nat]
      BY <2>1
    <2>3. ToSet(from) \in SUBSET Accounts
      BY ListType
    <2> HIDE DEF owed
    <2> QED BY <2>2, <2>3 DEF Owed
  <1>4. x \in ChoosingState
    <2> HIDE DEF owed
    <2> QED BY <1>1, <1>3 DEF Choosing, ChoosingState, owed
  <1>5. now <= now /\ strategy \in {"least-used", "smart"}
    BY <1>1, TimesAreIntegers DEF BeginChoice
  <1> HIDE DEF x
  <1>6. StateOK(x, strategy, now)
    BY <1>1, <1>2, <1>4, <1>5 DEF StateOK, RequestState
  <1> QED BY <1>1, <1>2, <1>3, <1>4, <1>6 DEF BeginChoice, MayChooseFrom, Moves, At, x

LEMMA ConsiderStep ==
    ASSUME RequestsOK, NEW r \in Requests, NEW score \in Int, Consider(r, score),
           request[r].at \in {"counting", "weighing"},
           UNCHANGED <<now, strategy>>
    PROVE  LET q == request[r]
           IN /\ q \in ChoosingState /\ q.next \in DOMAIN q.from
              /\ \/ /\ q.next < Len(q.from)
                    /\ Moves(r, GoesOn(q, score))
                    /\ StateOK(GoesOn(q, score), strategy, now)
                    /\ chosen' = chosen
                 \/ /\ ~(q.next < Len(q.from))
                    /\ Moves(r, Choice(q, score))
                    /\ StateOK(Choice(q, score), strategy, now)
                    /\ chosen' = [chosen EXCEPT ![BestOf(q, score)] = @ + 1]
  <1> DEFINE q == request[r]
             g == GoesOn(q, score)
             c == Choice(q, score)
  <1>1. /\ q \in RequestState /\ q.next \in DOMAIN q.from /\ q.since <= now
        /\ strategy \in {"least-used", "smart"}
    BY DEF RequestsOK, StateOK
  <1>2. q \in ChoosingState
    BY <1>1, StateAt
  <1>3. /\ g \in ChoosingState /\ g.at = "counting" /\ g.since = q.since
        /\ q.next < Len(q.from) => g.next \in DOMAIN g.from
        /\ c \in WeighedState /\ c.at = "selected" /\ c.since = q.since
    BY <1>1, <1>2, ConsiderTypes
  <1>4. DOMAIN request = Requests
    BY DEF RequestsOK
  <1>5. \/ /\ q.next < Len(q.from)
           /\ request' = [request EXCEPT ![r] = g]
           /\ chosen' = chosen
        \/ /\ ~(q.next < Len(q.from))
           /\ request' = [request EXCEPT ![r] = c]
           /\ chosen' = [chosen EXCEPT ![BestOf(q, score)] = @ + 1]
    BY <1>4, ConsiderIs
  <1> HIDE DEF q, g, c
  <1>6. q.next < Len(q.from) => StateOK(g, strategy, now)
    BY <1>1, <1>3 DEF StateOK, RequestState
  <1>7. StateOK(c, strategy, now)
    BY <1>1, <1>3 DEF StateOK, RequestState
  <1>8. \/ /\ q.next < Len(q.from)
           /\ Moves(r, g) /\ StateOK(g, strategy, now)
           /\ chosen' = chosen
        \/ /\ ~(q.next < Len(q.from))
           /\ Moves(r, c) /\ StateOK(c, strategy, now)
           /\ chosen' = [chosen EXCEPT ![BestOf(q, score)] = @ + 1]
    BY <1>5, <1>6, <1>7 DEF Moves
  <1> QED BY <1>1, <1>2, <1>8 DEF q, g, c

LEMMA CountIsRead ==
    ASSUME Typed, RequestsOK, NEW r \in Requests, ReadCount(r)
    PROVE  LET q == request[r]
               a == q.from[q.next]
               count == WindowRequestCount(usage[a], now)
               weighing == [q EXCEPT !.at = "weighing", !.count = count]
           IN /\ q \in ChoosingState /\ q.next \in DOMAIN q.from /\ q.at = "counting"
              /\ a \in Accounts /\ count \in Nat /\ count <= Len(usage[a].records)
              /\ usage[a] \in Usage /\ Trimmed(usage[a], now) \in Usage
              /\ Drops(usage[a], Trimmed(usage[a], now), now)
              /\ usage' = [usage EXCEPT ![a] = Trimmed(@, now)]
              /\ UNCHANGED <<now, rrIndex, strategy, made, even>>
              /\ strategy = "least-used" => Consider(r, count)
              /\ strategy # "least-used" => /\ Moves(r, weighing)
                                            /\ StateOK(weighing, strategy, now)
                                            /\ chosen' = chosen
  <1> DEFINE q == request[r]
             a == q.from[q.next]
             count == WindowRequestCount(usage[a], now)
             weighing == [q EXCEPT !.at = "weighing", !.count = count]
  <1>1. /\ q \in RequestState /\ q.at = "counting" /\ q.next \in DOMAIN q.from /\ q.since <= now
        /\ strategy \in {"least-used", "smart"}
        /\ UNCHANGED <<now, rrIndex, strategy, made, even>>
        /\ usage' = [usage EXCEPT ![a] = Trimmed(@, now)]
        /\ strategy = "least-used" => Consider(r, count)
        /\ strategy # "least-used" =>
             /\ request' = [request EXCEPT ![r].at = "weighing", ![r].count = count]
             /\ chosen' = chosen
    BY DEF RequestsOK, StateOK, ReadCount, At
  <1>2. q \in ChoosingState
    BY <1>1, StateAt
  <1>3. a \in Accounts
    <2>1. q.from \in Lists
      BY <1>2 DEF ChoosingState
    <2>2. q.next \in 1 .. Len(q.from)
      BY <1>1, <2>1, ListType
    <2> QED BY <2>1, <2>2, ListType
  <1> HIDE DEF a
  <1>4. usage[a] \in Usage /\ now \in Times
    BY <1>3 DEF Typed
  <1>5. /\ Trimmed(usage[a], now) \in Usage /\ Drops(usage[a], Trimmed(usage[a], now), now)
        /\ count \in Nat /\ count <= Len(usage[a].records)
    BY <1>4, TrimmedType
  <1> HIDE DEF count
  <1>6. /\ weighing \in ChoosingState /\ weighing.at = "weighing"
        /\ weighing.next = q.next /\ weighing.from = q.from /\ weighing.since = q.since
    BY <1>2, <1>5 DEF ChoosingState
  <1>7. strategy # "least-used" => StateOK(weighing, strategy, now)
    <2> HIDE DEF weighing, q
    <2> QED BY <1>1, <1>6 DEF StateOK, RequestState
  <1>8. [request EXCEPT ![r].at = "weighing", ![r].count = count] = [request EXCEPT ![r] = weighing]
    BY DEF RequestsOK
  <1>9. strategy # "least-used" => Moves(r, weighing) /\ StateOK(weighing, strategy, now)
                                   /\ chosen' = chosen
    BY <1>1, <1>7, <1>8 DEF Moves
  <1>10. /\ q \in ChoosingState /\ q.next \in DOMAIN q.from /\ q.at = "counting"
         /\ a \in Accounts /\ count \in Nat /\ count <= Len(usage[a].records)
         /\ usage[a] \in Usage /\ Trimmed(usage[a], now) \in Usage
         /\ Drops(usage[a], Trimmed(usage[a], now), now)
         /\ usage' = [usage EXCEPT ![a] = Trimmed(@, now)]
         /\ UNCHANGED <<now, rrIndex, strategy, made, even>>
         /\ strategy = "least-used" => Consider(r, count)
    BY <1>1, <1>2, <1>3, <1>4, <1>5
  <1> QED BY <1>9, <1>10 DEF q, a, count, weighing

LEMMA PenaltyIsRead ==
    ASSUME Typed, RequestsOK, NEW r \in Requests, ReadPenalty(r)
    PROVE  LET q == request[r]
               a == q.from[q.next]
               score == q.count + Penalty(usage[a].last429, q.since) - Weight(a)
           IN /\ q \in ChoosingState /\ q.next \in DOMAIN q.from /\ q.at = "weighing"
              /\ a \in Accounts /\ score \in Int /\ usage[a].last429 \in Times \cup {Never}
              /\ Consider(r, score)
              /\ UNCHANGED <<now, usage, rrIndex, strategy, made, even>>
  <1> DEFINE q == request[r]
             a == q.from[q.next]
             score == q.count + Penalty(usage[a].last429, q.since) - Weight(a)
  <1>1. /\ q \in RequestState /\ q.at = "weighing" /\ q.next \in DOMAIN q.from
        /\ UNCHANGED <<now, usage, rrIndex, strategy, made, even>>
        /\ Consider(r, score)
    BY DEF RequestsOK, StateOK, ReadPenalty, At, Weight
  <1>2. q \in ChoosingState
    BY <1>1, StateAt
  <1>3. a \in Accounts /\ q.count \in Nat /\ q.since \in Times
    BY <1>1, <1>2, ListType DEF ChoosingState
  <1> HIDE DEF a
  <1>4. usage[a].last429 \in Times \cup {Never}
    BY <1>3 DEF Typed, Usage
  <1>5. score \in Int
    <2>1. Penalty(usage[a].last429, q.since) \in Nat /\ Weight(a) \in Nat
      BY <1>3, <1>4, PenaltyType, Weights
    <2> QED BY <1>3, <2>1
  <1>6. /\ q \in ChoosingState /\ q.next \in DOMAIN q.from /\ q.at = "weighing"
        /\ a \in Accounts /\ score \in Int /\ usage[a].last429 \in Times \cup {Never}
        /\ UNCHANGED <<now, usage, rrIndex, strategy, made, even>>
    BY <1>1, <1>2, <1>3, <1>4, <1>5
  <1> QED BY <1>1, <1>6 DEF a

LEMMA RecordIsAppended ==
    ASSUME Typed, RequestsOK, NEW r \in Requests, AppendRecord(r)
    PROVE  LET q == request[r]
               u == usage[q.account]
               x == IF q.first THEN [at |-> "sent", account |-> q.account] ELSE Idle
           IN /\ q \in RecordingState
              /\ q.stamp \in now - MaxDelay .. now
              /\ u \in Usage /\ WithRecord(u, q.stamp, q.is429) \in Usage
              /\ Recorded(u, q.stamp, q.is429) \in Usage
              /\ Drops(WithRecord(u, q.stamp, q.is429), Recorded(u, q.stamp, q.is429), q.stamp)
              /\ usage' = [usage EXCEPT ![q.account] = Recorded(@, q.stamp, q.is429)]
              /\ made' = [made EXCEPT ![q.account][q.stamp] = @ + 1]
              /\ Moves(r, x) /\ StateOK(x, strategy, now)
              /\ UNCHANGED <<now, rrIndex, strategy, chosen, even>>
  <1> DEFINE q == request[r]
             u == usage[q.account]
             x == IF q.first THEN [at |-> "sent", account |-> q.account] ELSE Idle
  <1>1. /\ q \in RequestState /\ q.at = "recording" /\ q.stamp \in now - MaxDelay .. now
        /\ usage' = [usage EXCEPT ![q.account] = Recorded(@, q.stamp, q.is429)]
        /\ made' = [made EXCEPT ![q.account][q.stamp] = @ + 1]
        /\ request' = [request EXCEPT ![r] = x]
        /\ UNCHANGED <<now, rrIndex, strategy, chosen, even>>
    BY DEF RequestsOK, StateOK, AppendRecord, At
  <1>2. q \in RecordingState
    BY <1>1, StateAt
  <1>3. q.account \in Accounts /\ q.stamp \in Times /\ q.is429 \in BOOLEAN
    BY <1>2 DEF RecordingState
  <1>4. u \in Usage
    BY <1>3 DEF Typed
  <1>5. StateOK(x, strategy, now)
    <2>1. CASE q.first
      BY <1>3, <2>1 DEF StateOK, RequestState, SentState
    <2>2. CASE ~q.first
      BY <2>2 DEF StateOK, RequestState, Idle
    <2> QED BY <2>1, <2>2
  <1>6. /\ WithRecord(u, q.stamp, q.is429) \in Usage
        /\ Recorded(u, q.stamp, q.is429) \in Usage
        /\ Drops(WithRecord(u, q.stamp, q.is429), Recorded(u, q.stamp, q.is429), q.stamp)
    BY <1>3, <1>4, RecordedType
  <1>7. Moves(r, x)
    BY <1>1 DEF Moves
  <1> QED BY <1>1, <1>2, <1>4, <1>5, <1>6, <1>7

\* The other steps after the choice change nothing but the request, and even.
LEMMA RecordBegins ==
    ASSUME Typed, RequestsOK, NEW r \in Requests, NEW stage \in {"selected", "sent"}, At(r, stage),
           NEW first \in BOOLEAN, NEW is429 \in BOOLEAN
    PROVE  LET x == Recording(request[r].account, first, is429)
           IN /\ request[r].account \in Accounts
              /\ StateOK(x, strategy, now)
              /\ x.at = "recording" /\ x.account = request[r].account /\ x.first = first
              /\ x \in RecordingState
  <1> DEFINE a == request[r].account
             x == Recording(a, first, is429)
  <1>1. a \in Accounts
    BY StateAt DEF RequestsOK, StateOK, At
  <1>2. now \in Times /\ now \in Int /\ MaxDelay \in Nat
    BY TimesAreIntegers, ConstantsAssumption DEF Typed
  <1> HIDE DEF a
  <1>3. /\ x.at = "recording" /\ x.account = a /\ x.first = first /\ x.stamp = now
        /\ x \in RecordingState
    BY <1>1, <1>2 DEF Recording, RecordingState
  <1> HIDE DEF x
  <1>4. StateOK(x, strategy, now)
    BY <1>2, <1>3 DEF StateOK, RequestState
  <1> QED BY <1>1, <1>3, <1>4 DEF a, x

LEMMA AfterChoice ==
    ASSUME Typed, RequestsOK, NEW r \in Requests,
           OverLimit(r) \/ BeginRecord(r) \/ Answered(r) \/ Failed(r)
    PROVE  \E x : /\ Moves(r, x) /\ StateOK(x, strategy, now)
                  /\ UNCHANGED <<usage, rrIndex, made, chosen>>
                  /\ even' \in BOOLEAN /\ (even' => even)
                  /\ \/ OverLimit(r) /\ At(r, "selected") /\ x = Idle /\ ~even'
                     \/ BeginRecord(r) /\ At(r, "selected") /\ even' = even
                                       /\ x = Recording(request[r].account, TRUE, FALSE)
                     \/ Answered(r) /\ At(r, "sent") /\ x = Idle /\ even' = even
                     \/ /\ Failed(r) /\ At(r, "sent") /\ ~even'
                        /\ \E is429 \in BOOLEAN : x = Recording(request[r].account, FALSE, is429)
  <1>1. StateOK(Idle, strategy, now) /\ even \in BOOLEAN
    BY DEF StateOK, RequestState, Idle, Typed
  <1>2. CASE OverLimit(r)
    BY <1>1, <1>2 DEF OverLimit, Ends, Moves
  <1>3. CASE BeginRecord(r)
    <2>1. StateOK(Recording(request[r].account, TRUE, FALSE), strategy, now)
      BY <1>3, RecordBegins DEF BeginRecord
    <2> QED BY <1>1, <1>3, <2>1 DEF BeginRecord, Moves
  <1>4. CASE Answered(r)
    BY <1>1, <1>4 DEF Answered, Ends, Moves
  <1>5. CASE Failed(r)
    <2> PICK is429 \in BOOLEAN :
          request' = [request EXCEPT ![r] = Recording(request[r].account, FALSE, is429)]
      BY <1>5 DEF Failed
    <2>1. StateOK(Recording(request[r].account, FALSE, is429), strategy, now)
      BY <1>5, RecordBegins DEF Failed
    <2> QED BY <1>1, <1>5, <2>1 DEF Failed, Moves
  <1> QED BY <1>2, <1>3, <1>4, <1>5

\* The clock advances: the stamps stay recent enough.
LEMMA TickKeeps ==
    ASSUME Typed, RequestsOK, Tick
    PROVE  Typed' /\ RequestsOK'
  <1>1. /\ now \in Int /\ MaxTime \in Nat /\ MaxDelay \in Nat
        /\ \A t \in Times : t \in Int
        /\ now' = now + 1 /\ now < MaxTime
        /\ UNCHANGED <<usage, rrIndex, strategy, request, made, chosen, even>>
    BY TimesAreIntegers, ConstantsAssumption DEF Tick, Typed
  <1>2. now' \in Times
    BY <1>1 DEF Times, Typed
  <1>3. ASSUME NEW r \in Requests PROVE StateOK(request[r], strategy, now')
    <2> DEFINE q == request[r]
    <2>1. StateOK(q, strategy, now) /\ (q.at = "recording" => now - q.stamp < MaxDelay)
      BY DEF RequestsOK, Tick, At
    <2>2. /\ q.at \in {"counting", "weighing"} => q.since \in Int
          /\ (q.at = "selected" /\ strategy = "smart") => q.since \in Int
          /\ q.at = "recording" => q.stamp \in Int
      BY <1>1, <2>1, StateAt DEF StateOK, ChoosingState, WeighedState, RecordingState
    <2> HIDE DEF q
    <2>3. q.at = "recording" => q.stamp \in now' - MaxDelay .. now'
      BY <1>1, <2>1, <2>2 DEF StateOK
    <2>4. \A t \in Int : t <= now => t <= now'
      BY <1>1
    <2>5. /\ q \in RequestState /\ (q.at = "weighing" => strategy # "least-used")
          /\ q.at \in {"counting", "weighing"} =>
               q.next \in DOMAIN q.from /\ q.since <= now /\ strategy \in {"least-used", "smart"}
          /\ (q.at = "selected" /\ strategy = "smart") => q \in WeighedState /\ q.since <= now
      BY <2>1 DEF StateOK
    <2>6. q.at \in {"counting", "weighing"} => q.since <= now'
      BY <2>2, <2>4, <2>5
    <2>7. (q.at = "selected" /\ strategy = "smart") => q.since <= now'
      BY <2>2, <2>4, <2>5
    <2> QED BY <2>3, <2>5, <2>6, <2>7 DEF StateOK, q
  <1> QED BY <1>1, <1>2, <1>3 DEF Typed, RequestsOK

LEMMA TypedStep ==
    ASSUME Typed, RequestsOK, [Next]_vars
    PROVE  Typed' /\ RequestsOK'
  <1>1. CASE UNCHANGED vars
    BY <1>1 DEF vars, Typed, RequestsOK, StateOK
  <1>2. CASE Tick
    BY <1>2, TickKeeps
  <1>3. ASSUME NEW a \in Accounts, chosen' = [chosen EXCEPT ![a] = @ + 1]
        PROVE  chosen' \in [Accounts -> Nat]
    BY <1>3 DEF Typed
  <1>4. ASSUME NEW r \in Requests, SelectRoundRobin(r) \/ SelectByPriority(r)
        PROVE  Typed' /\ RequestsOK'
    <2> PICK from \in Lists, a \in Accounts :
          /\ even' = (even /\ from = AccountList)
          /\ Moves(r, [at |-> "selected", account |-> a])
          /\ StateOK([at |-> "selected", account |-> a], strategy, now)
          /\ chosen' = [chosen EXCEPT ![a] = @ + 1]
          /\ strategy = "round-robin" => rrIndex' = rrIndex + 1
          /\ strategy # "round-robin" => rrIndex' = rrIndex
          /\ UNCHANGED <<usage, made>>
      BY <1>4, SelectsAtOnce
    <2>1. RequestsOK'
      BY OneRequest
    <2>2. chosen' \in [Accounts -> Nat] /\ rrIndex' \in Nat /\ even' \in BOOLEAN
      BY <1>3 DEF Typed
    <2> QED BY <2>1, <2>2 DEF Typed, Moves
  <1>5. ASSUME NEW r \in Requests, BeginChoice(r) PROVE Typed' /\ RequestsOK'
    <2>1. PICK x : /\ Moves(r, x) /\ StateOK(x, strategy, now)
                   /\ even' \in BOOLEAN
                   /\ UNCHANGED <<usage, rrIndex, made, chosen>>
      BY <1>5, ChoiceBegins DEF Typed
    <2>2. RequestsOK'
      BY <2>1, OneRequest
    <2> QED BY <2>1, <2>2 DEF Typed, Moves
  <1>6. ASSUME NEW r \in Requests, NEW score \in Int, Consider(r, score),
               request[r].at \in {"counting", "weighing"}, UNCHANGED <<now, strategy>>
        PROVE  RequestsOK' /\ chosen' \in [Accounts -> Nat]
    <2>1. PICK x : Moves(r, x) /\ StateOK(x, strategy, now)
      BY <1>6, ConsiderStep
    <2>2. RequestsOK'
      BY <2>1, OneRequest
    <2>3. BestOf(request[r], score) \in Accounts
      BY <1>6, ConsiderStep, ConsiderTypes
    <2>4. chosen' = chosen \/ chosen' = [chosen EXCEPT ![BestOf(request[r], score)] = @ + 1]
      BY <1>6, ConsiderStep
    <2> QED BY <1>3, <2>2, <2>3, <2>4 DEF Typed
  <1>7. ASSUME NEW r \in Requests, ReadCount(r) PROVE Typed' /\ RequestsOK'
    <2> DEFINE q == request[r]
               a == q.from[q.next]
               count == WindowRequestCount(usage[a], now)
    <2>1. /\ a \in Accounts /\ count \in Nat /\ q.at = "counting"
          /\ Trimmed(usage[a], now) \in Usage
          /\ usage' = [usage EXCEPT ![a] = Trimmed(@, now)]
          /\ UNCHANGED <<now, rrIndex, strategy, made, even>>
          /\ strategy = "least-used" => Consider(r, count)
          /\ strategy # "least-used" =>
               /\ \E x : Moves(r, x) /\ StateOK(x, strategy, now)
               /\ chosen' = chosen
      BY <1>7, CountIsRead
    <2>2. usage' \in [Accounts -> Usage]
      BY <2>1 DEF Typed
    <2>3. RequestsOK' /\ chosen' \in [Accounts -> Nat]
      <3>1. CASE strategy = "least-used"
        BY <1>6, <2>1, <3>1
      <3>2. CASE strategy # "least-used"
        <4>1. PICK x : Moves(r, x) /\ StateOK(x, strategy, now)
          BY <2>1, <3>2
        <4> QED BY <2>1, <3>2, <4>1, OneRequest DEF Typed
      <3> QED BY <3>1, <3>2
    <2> QED BY <2>1, <2>2, <2>3 DEF Typed
  <1>8. ASSUME NEW r \in Requests, ReadPenalty(r) PROVE Typed' /\ RequestsOK'
    <2>1. PICK score \in Int : /\ Consider(r, score) /\ request[r].at = "weighing"
                               /\ UNCHANGED <<now, usage, rrIndex, strategy, made, even>>
      BY <1>8, PenaltyIsRead
    <2>2. RequestsOK' /\ chosen' \in [Accounts -> Nat]
      BY <1>6, <2>1
    <2> QED BY <2>1, <2>2 DEF Typed
  <1>9. ASSUME NEW r \in Requests, AppendRecord(r) PROVE Typed' /\ RequestsOK'
    <2> DEFINE q == request[r]
    <2>1. /\ q \in RecordingState
          /\ Recorded(usage[q.account], q.stamp, q.is429) \in Usage
          /\ usage' = [usage EXCEPT ![q.account] = Recorded(@, q.stamp, q.is429)]
          /\ made' = [made EXCEPT ![q.account][q.stamp] = @ + 1]
          /\ \E x : Moves(r, x) /\ StateOK(x, strategy, now)
          /\ UNCHANGED <<now, rrIndex, strategy, chosen, even>>
      BY <1>9, RecordIsAppended
    <2>2. RequestsOK'
      BY <2>1, OneRequest
    <2>3. q.account \in Accounts /\ q.stamp \in Times
      BY <2>1 DEF RecordingState
    <2>4. usage' \in [Accounts -> Usage]
      BY <2>1, <2>3 DEF Typed
    <2>5. made' \in [Accounts -> [Times -> Nat]]
      BY <2>1, <2>3 DEF Typed
    <2> QED BY <2>1, <2>2, <2>4, <2>5 DEF Typed
  <1>10. ASSUME NEW r \in Requests, OverLimit(r) \/ BeginRecord(r) \/ Answered(r) \/ Failed(r)
         PROVE  Typed' /\ RequestsOK'
    <2>1. PICK x : /\ Moves(r, x) /\ StateOK(x, strategy, now)
                   /\ UNCHANGED <<usage, rrIndex, made, chosen>> /\ even' \in BOOLEAN
      BY <1>10, AfterChoice
    <2>2. RequestsOK'
      BY <2>1, OneRequest
    <2> QED BY <2>1, <2>2 DEF Typed, Moves
  <1> QED BY <1>1, <1>2, <1>4, <1>5, <1>7, <1>8, <1>9, <1>10 DEF Next

LEMMA TypesImply == Typed /\ RequestsOK => TypeOK
  <1> SUFFICES ASSUME Typed, RequestsOK PROVE TypeOK
    OBVIOUS
  <1>1. \A a \in Accounts : /\ usage[a].records \in Seq(Times)
                            /\ usage[a].last429 \in Times \cup {Never}
    BY DEF Typed, Usage
  <1>2. ASSUME NEW r \in Requests
        PROVE  LET q == request[r] IN
                 /\ q.at \in {"idle", "counting", "weighing", "selected", "recording", "sent"}
                 /\ q.at \in {"counting", "weighing"} => q.next \in DOMAIN q.from
                 /\ q.at = "recording" => q.stamp \in now - MaxDelay .. now
    BY StateAt DEF RequestsOK, StateOK
  <1> QED BY <1>1, <1>2 DEF TypeOK, Typed

LEMMA TypedInit == Init => Typed /\ RequestsOK
  <1> SUFFICES ASSUME Init PROVE Typed /\ RequestsOK
    OBVIOUS
  <1>1. now \in Times
    BY ConstantsAssumption DEF Init, Times
  <1>2. NoUsage \in Usage
    BY DEF NoUsage, Usage
  <1>3. Typed
    BY <1>1, <1>2 DEF Init, Typed
  <1>4. RequestsOK
    BY DEF Init, RequestsOK, StateOK, RequestState, Idle
  <1> QED BY <1>3, <1>4
-----------------------------------------------------------------------------
(* What is counted is the window. *)

\* The records are in order but for what they wait for the lock.
NearlyOrdered(s) == \A i, j \in DOMAIN s : i < j => s[j] >= s[i] - MaxDelay
NoneAfter(s, t) == \A i \in DOMAIN s : s[i] <= t

WindowKept ==
    \A a \in Accounts :
        LET s == usage[a].records
        IN /\ NearlyOrdered(s) /\ NoneAfter(s, now)
           /\ \A t \in Times : t >= now - Window => Count(s, t) = made[a][t]

LEMMA DropsKeep ==
    ASSUME NEW u \in Usage, NEW z \in Usage, NEW time \in Times, Drops(u, z, time)
    PROVE  /\ NearlyOrdered(u.records) => NearlyOrdered(z.records)
           /\ \A t \in Times : NoneAfter(u.records, t) => NoneAfter(z.records, t)
           /\ \A t \in Times : t >= time - Window => Count(z.records, t) = Count(u.records, t)
  <1> DEFINE s == u.records
             d == z.records
  <1>1. s \in Seq(Times) /\ d \in Seq(Times)
    BY DEF Usage
  <1>2. PICK k \in 0 .. Len(s) :
          /\ Len(d) = Len(s) - k
          /\ \A i \in 1 .. Len(s) - k : d[i] = s[i + k]
          /\ \A i \in 1 .. k : s[i] < time - Window
    BY DEF Drops
  <1> HIDE DEF s, d
  <1>3. /\ Len(s) \in Nat /\ DOMAIN s = 1 .. Len(s) /\ DOMAIN d = 1 .. Len(s) - k
        /\ \A i \in DOMAIN d : i + k \in DOMAIN s /\ d[i] = s[i + k]
        /\ k \in Nat
    <2>1. /\ Len(s) \in Nat /\ DOMAIN s = 1 .. Len(s) /\ DOMAIN d = 1 .. Len(d) /\ k \in Nat
      BY <1>1
    <2>2. DOMAIN d = 1 .. Len(s) - k
      BY <1>2, <2>1
    <2>3. ASSUME NEW i \in 1 .. Len(s) - k PROVE i + k \in DOMAIN s /\ d[i] = s[i + k]
      BY <1>2, <2>1
    <2> QED BY <2>1, <2>2, <2>3
  <1>4. NearlyOrdered(s) => NearlyOrdered(d)
    <2> SUFFICES ASSUME NearlyOrdered(s), NEW i \in DOMAIN d, NEW j \in DOMAIN d, i < j
                 PROVE  d[j] >= d[i] - MaxDelay
      BY DEF NearlyOrdered
    <2>1. i + k \in DOMAIN s /\ j + k \in DOMAIN s /\ i + k < j + k
      BY <1>3
    <2> QED BY <1>3, <2>1 DEF NearlyOrdered
  <1>5. ASSUME NEW t \in Times, NoneAfter(s, t) PROVE NoneAfter(d, t)
    BY <1>3, <1>5 DEF NoneAfter
  <1>6. ASSUME NEW t \in Times, t >= time - Window PROVE Count(d, t) = Count(s, t)
    <2>1. time \in Int /\ t \in Int /\ Window \in Nat /\ \A x \in Times : x \in Int
      BY TimesAreIntegers, ConstantsAssumption
    <2>2. \A i \in 1 .. k : s[i] # t
      <3> SUFFICES ASSUME NEW i \in 1 .. k PROVE s[i] # t
        OBVIOUS
      <3>1. s[i] < time - Window
        BY <1>2
      <3> QED BY <1>6, <2>1, <3>1
    <2> QED BY <1>1, <1>2, <2>2, CountDropped
  <1> QED BY <1>4, <1>5, <1>6 DEF s, d

LEMMA WindowInit == Init => WindowKept
  <1> SUFFICES ASSUME Init, NEW a \in Accounts
               PROVE  LET s == usage[a].records
                      IN /\ NearlyOrdered(s) /\ NoneAfter(s, now)
                         /\ \A t \in Times : t >= now - Window => Count(s, t) = made[a][t]
    BY DEF WindowKept
  <1>1. usage[a].records = <<>> /\ \A t \in Times : made[a][t] = 0
    BY DEF Init, NoUsage
  <1>2. DOMAIN <<>> = {}
    OBVIOUS
  <1>3. \A t : Count(<<>>, t) = 0
    BY <1>2, FS_EmptySet DEF Count
  <1> QED BY <1>1, <1>2, <1>3 DEF NearlyOrdered, NoneAfter

LEMMA WindowStep ==
    ASSUME Typed, RequestsOK, WindowKept, [Next]_vars
    PROVE  WindowKept'
  <1>1. CASE UNCHANGED <<usage, made, now>>
    BY <1>1 DEF WindowKept
  <1>2. now \in Times /\ now \in Int /\ Window \in Nat /\ MaxDelay \in Nat
        /\ \A x \in Times : x \in Int
    BY TimesAreIntegers, ConstantsAssumption DEF Typed
  <1>3. CASE Tick
    <2>1. now' = now + 1 /\ usage' = usage /\ made' = made
      BY <1>3 DEF Tick
    <2> SUFFICES ASSUME NEW a \in Accounts
                 PROVE  LET s == usage[a].records
                        IN /\ NearlyOrdered(s) /\ NoneAfter(s, now')
                           /\ \A t \in Times : t >= now' - Window => Count(s, t) = made[a][t]
      BY <2>1 DEF WindowKept
    <2> DEFINE s == usage[a].records
    <2>2. /\ NearlyOrdered(s) /\ NoneAfter(s, now)
          /\ \A t \in Times : t >= now - Window => Count(s, t) = made[a][t]
      BY DEF WindowKept
    <2>3. \A i \in DOMAIN s : s[i] \in Times
      <3>1. s \in Seq(Times)
        BY DEF Typed, Usage
      <3> HIDE DEF s
      <3> QED BY <3>1
    <2> HIDE DEF s
    <2>4. NoneAfter(s, now')
      <3> SUFFICES ASSUME NEW i \in DOMAIN s PROVE s[i] <= now'
        BY DEF NoneAfter
      <3>1. s[i] \in Int /\ s[i] <= now
        BY <1>2, <2>2, <2>3 DEF NoneAfter
      <3> QED BY <1>2, <2>1, <3>1
    <2>5. \A t \in Times : t >= now' - Window => t >= now - Window
      BY <1>2, <2>1
    <2> QED BY <2>2, <2>4, <2>5 DEF s
  <1>4. ASSUME NEW r \in Requests, ReadCount(r) PROVE WindowKept'
    <2> DEFINE b == request[r].from[request[r].next]
    <2>1. /\ b \in Accounts /\ usage[b] \in Usage /\ Trimmed(usage[b], now) \in Usage
          /\ Drops(usage[b], Trimmed(usage[b], now), now)
          /\ usage' = [usage EXCEPT ![b] = Trimmed(@, now)]
          /\ UNCHANGED <<now, made>>
      BY <1>4, CountIsRead
    <2> HIDE DEF b
    <2> DEFINE z == Trimmed(usage[b], now)
    <2>2. /\ usage'[b] = z /\ \A a \in Accounts \ {b} : usage'[a] = usage[a]
      BY <2>1 DEF Typed
    <2> HIDE DEF z
    <2>3. /\ NearlyOrdered(z.records) /\ NoneAfter(z.records, now)
          /\ \A t \in Times : t >= now - Window => Count(z.records, t) = made[b][t]
      BY <1>2, <2>1, DropsKeep DEF WindowKept, z
    <2> QED BY <2>1, <2>2, <2>3 DEF WindowKept
  <1>5. ASSUME NEW r \in Requests, AppendRecord(r) PROVE WindowKept'
    <2> DEFINE q == request[r]
               b == q.account
               u == WithRecord(usage[b], q.stamp, q.is429)
               z == Recorded(usage[b], q.stamp, q.is429)
    <2>1. /\ q \in RecordingState /\ q.stamp \in now - MaxDelay .. now
          /\ u \in Usage /\ z \in Usage /\ Drops(u, z, q.stamp)
          /\ usage' = [usage EXCEPT ![b] = Recorded(@, q.stamp, q.is429)]
          /\ made' = [made EXCEPT ![b][q.stamp] = @ + 1]
          /\ now' = now
      BY <1>5, RecordIsAppended
    <2>2. b \in Accounts /\ q.stamp \in Times
      BY <2>1 DEF RecordingState
    <2> DEFINE s == usage[b].records
               x == q.stamp
    <2>3. /\ s \in Seq(Times) /\ u.records = Append(s, x)
          /\ NearlyOrdered(s) /\ NoneAfter(s, now)
          /\ \A t \in Times : t >= now - Window => Count(s, t) = made[b][t]
      BY <2>2 DEF Typed, Usage, WithRecord, WindowKept
    <2>4. /\ usage'[b] = z /\ \A a \in Accounts \ {b} : usage'[a] = usage[a]
          /\ made'[b] = [made[b] EXCEPT ![x] = @ + 1]
          /\ \A a \in Accounts \ {b} : made'[a] = made[a]
      BY <2>1, <2>2 DEF Typed
    <2>5. made[b] \in [Times -> Nat]
      BY <2>2 DEF Typed
    <2> HIDE DEF q, b, u, z, s, x
    <2>6. x \in Times /\ x \in now - MaxDelay .. now
      BY <2>1, <2>2 DEF x
    <2>7. /\ Len(s) \in Nat /\ DOMAIN Append(s, x) = 1 .. Len(s) + 1 /\ DOMAIN s = 1 .. Len(s)
          /\ \A i \in DOMAIN s : Append(s, x)[i] = s[i] /\ s[i] \in Times
          /\ Append(s, x)[Len(s) + 1] = x
      BY <2>3, <2>6
    <2>8. NearlyOrdered(Append(s, x))
      <3> SUFFICES ASSUME NEW i \in 1 .. Len(s) + 1, NEW j \in 1 .. Len(s) + 1, i < j
                   PROVE  Append(s, x)[j] >= Append(s, x)[i] - MaxDelay
        BY <2>7 DEF NearlyOrdered
      <3>1. i \in DOMAIN s /\ s[i] \in Int /\ s[i] <= now /\ Append(s, x)[i] = s[i]
        <4>1. i \in DOMAIN s
          BY <2>7
        <4> QED BY <1>2, <2>3, <2>7, <4>1 DEF NoneAfter
      <3>2. CASE j \in DOMAIN s
        BY <2>3, <2>7, <3>1, <3>2 DEF NearlyOrdered
      <3>3. CASE j = Len(s) + 1
        BY <1>2, <2>6, <2>7, <3>1, <3>3
      <3> QED BY <2>7, <3>2, <3>3
    <2>9. NoneAfter(Append(s, x), now)
      <3> SUFFICES ASSUME NEW i \in 1 .. Len(s) + 1 PROVE Append(s, x)[i] <= now
        BY <2>7 DEF NoneAfter
      <3>1. CASE i \in DOMAIN s
        BY <2>3, <2>7, <3>1 DEF NoneAfter
      <3>2. CASE i = Len(s) + 1
        BY <1>2, <2>6, <2>7, <3>2
      <3> QED BY <2>7, <3>1, <3>2
    <2>10. ASSUME NEW t \in Times, t >= now - Window
           PROVE  Count(Append(s, x), t) = made'[b][t]
      <3>1. Count(s, t) = made[b][t]
        BY <2>3, <2>10
      <3>2. Count(Append(s, x), t) = Count(s, t) + IF x = t THEN 1 ELSE 0
        BY <2>3, <2>6, CountAppended
      <3>3. made[b][t] \in Nat /\ made'[b][t] = IF x = t THEN made[b][t] + 1 ELSE made[b][t]
        BY <2>4, <2>5, <2>6
      <3> QED BY <3>1, <3>2, <3>3
    <2>11. \A t \in Times : t >= now - Window => t >= x - Window
      BY <1>2, <2>6
    <2>12. x = q.stamp /\ Drops(u, z, x)
      BY <2>1 DEF x
    <2>13. /\ NearlyOrdered(z.records) /\ NoneAfter(z.records, now)
           /\ \A t \in Times : t >= now - Window => Count(z.records, t) = made'[b][t]
      <3>1. u \in Usage /\ z \in Usage
        BY <2>1
      <3>2. /\ NearlyOrdered(u.records) => NearlyOrdered(z.records)
            /\ \A t \in Times : NoneAfter(u.records, t) => NoneAfter(z.records, t)
            /\ \A t \in Times : t >= x - Window => Count(z.records, t) = Count(u.records, t)
        BY <2>6, <2>12, <3>1, DropsKeep
      <3> QED BY <1>2, <2>3, <2>8, <2>9, <2>10, <2>11, <3>2
    <2> QED BY <2>1, <2>4, <2>13 DEF WindowKept
  <1>6. ASSUME NEW r \in Requests,
               \/ SelectRoundRobin(r) \/ SelectByPriority(r) \/ BeginChoice(r) \/ ReadPenalty(r)
               \/ OverLimit(r) \/ BeginRecord(r) \/ Answered(r) \/ Failed(r)
        PROVE  UNCHANGED <<usage, made, now>>
    BY <1>6 DEF SelectRoundRobin, SelectByPriority, BeginChoice, ReadPenalty, OverLimit,
            BeginRecord, Answered, Failed
  <1>7. CASE UNCHANGED vars
    BY <1>1, <1>7 DEF vars
  <1> QED BY <1>1, <1>3, <1>4, <1>5, <1>6, <1>7 DEF Next

LEMMA WindowImplies == Typed /\ WindowKept => CountIsWindow
  <1> SUFFICES ASSUME Typed, WindowKept, NEW a \in Accounts,
                      NEW t \in Times
               PROVE  LET counted == Trimmed(usage[a], now).records
                      IN /\ t >= now - Window => Count(counted, t) = made[a][t]
                         /\ t < now - Window - MaxDelay => Count(counted, t) = 0
    BY DEF CountIsWindow, Count
  <1> DEFINE z == Trimmed(usage[a], now)
             s == z.records
  <1>1. now \in Times /\ now \in Int /\ Window \in Nat /\ MaxDelay \in Nat
        /\ \A x \in Times : x \in Int
    BY TimesAreIntegers, ConstantsAssumption DEF Typed
  <1>2. usage[a] \in Usage /\ z \in Usage /\ Drops(usage[a], z, now)
    BY <1>1, TrimmedType DEF Typed
  <1>3. /\ NearlyOrdered(s)
        /\ t >= now - Window => Count(s, t) = made[a][t]
    BY <1>1, <1>2, DropsKeep DEF WindowKept
  <1>4. /\ s \in Seq(Times)
        /\ DOMAIN s # {} => s[1] >= now - Window
    <2> DEFINE old == usage[a].records
    <2>1. old \in Seq(Times) /\ s \in Seq(Times)
      BY <1>2 DEF Usage
    <2>2. PICK k \in 0 .. Len(old) :
            /\ Len(s) = Len(old) - k
            /\ \A i \in 1 .. Len(old) - k : s[i] = old[i + k]
            /\ k < Len(old) => old[k + 1] >= now - Window
      BY <1>2 DEF Drops
    <2> HIDE DEF s, old
    <2>3. ASSUME DOMAIN s # {} PROVE s[1] >= now - Window
      <3>1. Len(old) \in Nat /\ k \in Nat /\ 1 \in 1 .. Len(old) - k /\ 1 + k = k + 1
        BY <2>1, <2>2, <2>3
      <3> QED BY <2>2, <3>1
    <2> QED BY <2>1, <2>3
  <1> HIDE DEF s
  <1>5. ASSUME t < now - Window - MaxDelay PROVE Count(s, t) = 0
    <2>1. ASSUME NEW i \in DOMAIN s PROVE s[i] # t
      <3>1. /\ Len(s) \in Nat /\ i \in 1 .. Len(s) /\ DOMAIN s = 1 .. Len(s)
            /\ s[i] \in Times /\ s[1] \in Times
        BY <1>4
      <3>2. s[1] >= now - Window
        BY <1>4
      <3>3. i = 1 \/ s[i] >= s[1] - MaxDelay
        BY <1>3, <3>1 DEF NearlyOrdered
      <3>4. s[i] \in Int /\ s[1] \in Int /\ t \in Int
        BY <1>1, <3>1
      <3> QED BY <1>1, <1>5, <3>2, <3>3, <3>4
    <2>2. {i \in DOMAIN s : s[i] = t} = {}
      BY <2>1
    <2> QED BY <2>2, FS_EmptySet DEF Count
  <1> QED BY <1>3, <1>5 DEF s
-----------------------------------------------------------------------------
(* How many requests there are at a stage *)

\* The attempts with a that are yet to be recorded, and those that are recorded and
\* whose failure may be recorded too.
IsAttempt(q, a) ==
    /\ q.at = "selected" \/ (q.at = "recording" /\ q.first)
    /\ q.account = a
IsExchange(q, a) ==
    /\ q.at = "sent" \/ (q.at = "recording" /\ ~q.first)
    /\ q.account = a

AttemptsOf(a) == {r \in Requests : IsAttempt(request[r], a)}
ExchangesOf(a) == {r \in Requests : IsExchange(request[r], a)}

LEMMA CountsAreNat ==
    ASSUME NEW a \in Accounts
    PROVE  Cardinality(AttemptsOf(a)) \in Nat /\ Cardinality(ExchangesOf(a)) \in Nat
  BY RequestsAssumption, FS_Subset, FS_CardinalityType DEF AttemptsOf, ExchangesOf

LEMMA CountsChange ==
    ASSUME RequestsOK, NEW r \in Requests, NEW x, StateOK(x, strategy, now), Moves(r, x)
    PROVE  \A a \in Accounts :
                /\ Cardinality(AttemptsOf(a)) \in Nat /\ Cardinality(AttemptsOf(a)') \in Nat
                /\ Cardinality(AttemptsOf(a)') = Cardinality(AttemptsOf(a))
                     + (IF IsAttempt(x, a) THEN 1 ELSE 0)
                     - (IF IsAttempt(request[r], a) THEN 1 ELSE 0)
                /\ Cardinality(ExchangesOf(a)) \in Nat /\ Cardinality(ExchangesOf(a)') \in Nat
                /\ Cardinality(ExchangesOf(a)') = Cardinality(ExchangesOf(a))
                     + (IF IsExchange(x, a) THEN 1 ELSE 0)
                     - (IF IsExchange(request[r], a) THEN 1 ELSE 0)
  <1>1. request'[r] = x /\ \A p \in Requests \ {r} : request'[p] = request[p]
    BY OneRequest
  <1>2. ASSUME NEW a \in Accounts
        PROVE  /\ AttemptsOf(a) \in SUBSET Requests /\ AttemptsOf(a)' \in SUBSET Requests
               /\ \A p \in Requests \ {r} : p \in AttemptsOf(a) <=> p \in AttemptsOf(a)'
               /\ r \in AttemptsOf(a) <=> IsAttempt(request[r], a)
               /\ r \in AttemptsOf(a)' <=> IsAttempt(x, a)
    BY <1>1 DEF AttemptsOf, IsAttempt
  <1>3. ASSUME NEW a \in Accounts
        PROVE  /\ ExchangesOf(a) \in SUBSET Requests /\ ExchangesOf(a)' \in SUBSET Requests
               /\ \A p \in Requests \ {r} : p \in ExchangesOf(a) <=> p \in ExchangesOf(a)'
               /\ r \in ExchangesOf(a) <=> IsExchange(request[r], a)
               /\ r \in ExchangesOf(a)' <=> IsExchange(x, a)
    BY <1>1 DEF ExchangesOf, IsExchange
  <1>4. ASSUME NEW a \in Accounts
        PROVE  /\ Cardinality(AttemptsOf(a)) \in Nat /\ Cardinality(AttemptsOf(a)') \in Nat
               /\ Cardinality(AttemptsOf(a)') = Cardinality(AttemptsOf(a))
                    + (IF IsAttempt(x, a) THEN 1 ELSE 0)
                    - (IF IsAttempt(request[r], a) THEN 1 ELSE 0)
    BY <1>2, RequestsAssumption, OneMoves
  <1>5. ASSUME NEW a \in Accounts
        PROVE  /\ Cardinality(ExchangesOf(a)) \in Nat /\ Cardinality(ExchangesOf(a)') \in Nat
               /\ Cardinality(ExchangesOf(a)') = Cardinality(ExchangesOf(a))
                    + (IF IsExchange(x, a) THEN 1 ELSE 0)
                    - (IF IsExchange(request[r], a) THEN 1 ELSE 0)
    BY <1>3, RequestsAssumption, OneMoves
  <1> QED BY <1>4, <1>5
-----------------------------------------------------------------------------
(* An attempt makes at most two records. *)

Load(q, a) == (IF IsAttempt(q, a) THEN 2 ELSE 0) + (IF IsExchange(q, a) THEN 1 ELSE 0)

RecordsBounded ==
    \A a \in Accounts :
        Len(usage[a].records) + 2 * Cardinality(AttemptsOf(a)) + Cardinality(ExchangesOf(a))
            <= 2 * chosen[a]

LEMMA RecordsLength ==
    ASSUME Typed, NEW a \in Accounts
    PROVE  Len(usage[a].records) \in Nat /\ chosen[a] \in Nat
  <1>1. usage[a].records \in Seq(Times)
    BY DEF Typed, Usage
  <1> QED BY <1>1 DEF Typed

\* A step that gives an account no more than the choices made of it allow.
LEMMA LoadKept ==
    ASSUME Typed, Typed', RequestsOK, RecordsBounded,
           NEW r \in Requests, NEW x, StateOK(x, strategy, now), Moves(r, x),
           \A a \in Accounts : Len(usage'[a].records) + Load(x, a) - 2 * chosen'[a]
                                 <= Len(usage[a].records) + Load(request[r], a) - 2 * chosen[a]
    PROVE  RecordsBounded'
  <1> SUFFICES ASSUME NEW a \in Accounts
               PROVE  Len(usage'[a].records) + 2 * Cardinality(AttemptsOf(a)')
                        + Cardinality(ExchangesOf(a)') <= 2 * chosen'[a]
    BY DEF RecordsBounded
  <1> DEFINE l == Len(usage[a].records)
             k == Len(usage'[a].records)
             n == Cardinality(AttemptsOf(a))
             m == Cardinality(AttemptsOf(a)')
             e == Cardinality(ExchangesOf(a))
             d == Cardinality(ExchangesOf(a)')
             c == chosen[a]
             b == chosen'[a]
             q == request[r]
  <1>1. /\ n \in Nat /\ m \in Nat /\ e \in Nat /\ d \in Nat
        /\ m = n + (IF IsAttempt(x, a) THEN 1 ELSE 0) - (IF IsAttempt(q, a) THEN 1 ELSE 0)
        /\ d = e + (IF IsExchange(x, a) THEN 1 ELSE 0) - (IF IsExchange(q, a) THEN 1 ELSE 0)
    BY CountsChange
  <1>2. l \in Nat /\ c \in Nat
    BY RecordsLength
  <1>3. k \in Nat /\ b \in Nat
    <2>1. usage'[a].records \in Seq(Times)
      BY DEF Typed, Usage
    <2> QED BY <2>1 DEF Typed
  <1>4. l + 2 * n + e <= 2 * c
    BY DEF RecordsBounded
  <1>5. k + Load(x, a) - 2 * b <= l + Load(q, a) - 2 * c
    OBVIOUS
  <1> HIDE DEF l, k, n, m, e, d, c, b, q
  <1>6. k + 2 * m + d <= 2 * b
    BY <1>1, <1>2, <1>3, <1>4, <1>5 DEF Load
  <1> QED BY <1>6 DEF k, m, d, b

LEMMA Loads ==
    ASSUME NEW q, NEW a
    PROVE  /\ q.at \in {"idle", "counting", "weighing"} => Load(q, a) = 0
           /\ q.at = "selected" => Load(q, a) = IF q.account = a THEN 2 ELSE 0
           /\ q.at = "sent" => Load(q, a) = IF q.account = a THEN 1 ELSE 0
           /\ (q.at = "recording" /\ q.first) => Load(q, a) = IF q.account = a THEN 2 ELSE 0
           /\ (q.at = "recording" /\ ~q.first) => Load(q, a) = IF q.account = a THEN 1 ELSE 0
  BY DEF Load, IsAttempt, IsExchange

LEMMA BoundedInit == Init => RecordsBounded
  <1> SUFFICES ASSUME Init, NEW a \in Accounts
               PROVE  Len(usage[a].records) + 2 * Cardinality(AttemptsOf(a))
                        + Cardinality(ExchangesOf(a)) <= 2 * chosen[a]
    BY DEF RecordsBounded
  <1>1. AttemptsOf(a) = {} /\ ExchangesOf(a) = {}
    BY DEF Init, AttemptsOf, IsAttempt, ExchangesOf, IsExchange, Idle
  <1>2. Cardinality(AttemptsOf(a)) = 0 /\ Cardinality(ExchangesOf(a)) = 0
    BY <1>1, FS_EmptySet
  <1>3. Len(usage[a].records) = 0 /\ chosen[a] = 0
    BY DEF Init, NoUsage
  <1> QED BY <1>2, <1>3

\* How much trimming and recording add to the records.
LEMMA Lengths ==
    ASSUME Typed, NEW a \in Accounts
    PROVE  /\ \A time \in Times :
                /\ Len(Trimmed(usage[a], time).records) \in Nat
                /\ Len(Trimmed(usage[a], time).records) <= Len(usage[a].records)
           /\ \A at \in Times, is429 \in BOOLEAN :
                /\ Len(Recorded(usage[a], at, is429).records) \in Nat
                /\ Len(Recorded(usage[a], at, is429).records) <= Len(usage[a].records) + 1
  <1>1. usage[a] \in Usage
    BY DEF Typed
  <1>2. ASSUME NEW time \in Times
        PROVE  /\ Len(Trimmed(usage[a], time).records) \in Nat
               /\ Len(Trimmed(usage[a], time).records) <= Len(usage[a].records)
    BY <1>1, TrimmedType DEF WindowRequestCount
  <1>3. ASSUME NEW at \in Times, NEW is429 \in BOOLEAN
        PROVE  /\ Len(Recorded(usage[a], at, is429).records) \in Nat
               /\ Len(Recorded(usage[a], at, is429).records) <= Len(usage[a].records) + 1
    <2> DEFINE w == WithRecord(usage[a], at, is429)
    <2>1. w \in Usage /\ Recorded(usage[a], at, is429) = Trimmed(w, at)
      BY <1>1, RecordedType DEF Recorded, WithRecord
    <2>2. Len(w.records) = Len(usage[a].records) + 1
      BY <1>1 DEF WithRecord, Usage
    <2> HIDE DEF w
    <2> QED BY <2>1, <2>2, TrimmedType DEF WindowRequestCount
  <1> QED BY <1>2, <1>3

LEMMA AddedToBoth ==
    ASSUME NEW l \in Nat, NEW k \in Nat, NEW c \in Nat, k <= l
    PROVE  k + 0 - 2 * c <= l + 0 - 2 * c
  OBVIOUS

LEMMA BoundedStep ==
    ASSUME Typed, Typed', RequestsOK, RecordsBounded, [Next]_vars
    PROVE  RecordsBounded'
  <1>1. CASE UNCHANGED <<usage, chosen, request>>
    BY <1>1 DEF RecordsBounded, AttemptsOf, ExchangesOf
  <1> DEFINE Same(a) == Len(usage'[a].records) <= Len(usage[a].records)
             More(a, b) == chosen'[a] = IF a = b THEN chosen[a] + 1 ELSE chosen[a]
  <1>2. \A a \in Accounts : /\ Len(usage[a].records) \in Nat /\ chosen[a] \in Nat
                            /\ Len(usage'[a].records) \in Nat
    <2>1. \A a \in Accounts : usage'[a].records \in Seq(Times)
      BY DEF Typed, Usage
    <2> QED BY <2>1, RecordsLength
  <1>3. ASSUME NEW r \in Requests, NEW x, StateOK(x, strategy, now), Moves(r, x),
               request[r].at \in {"idle", "counting", "weighing"},
               x.at \in {"counting", "weighing"},
               chosen' = chosen, \A a \in Accounts : Same(a)
        PROVE  RecordsBounded'
    <2>1. \A a \in Accounts : Load(x, a) = 0 /\ Load(request[r], a) = 0
      BY <1>3, Loads
    <2>2. ASSUME NEW a \in Accounts
          PROVE  Len(usage'[a].records) + Load(x, a) - 2 * chosen'[a]
                   <= Len(usage[a].records) + Load(request[r], a) - 2 * chosen[a]
      <3>1. /\ Len(usage[a].records) \in Nat /\ Len(usage'[a].records) \in Nat /\ chosen[a] \in Nat
            /\ Len(usage'[a].records) <= Len(usage[a].records) /\ chosen'[a] = chosen[a]
        BY <1>2, <1>3
      <3> DEFINE l == Len(usage[a].records)
                 k == Len(usage'[a].records)
                 c == chosen[a]
      <3>2. chosen'[a] = c /\ Load(x, a) = 0 /\ Load(request[r], a) = 0
        BY <2>1, <3>1
      <3> HIDE DEF l, k, c
      <3>3. k + 0 - 2 * c <= l + 0 - 2 * c
        BY <3>1, AddedToBoth DEF l, k, c
      <3> QED BY <3>2, <3>3 DEF l, k, c
    <2> QED BY <1>3, <2>2, LoadKept
  <1>4. ASSUME NEW r \in Requests, NEW x, StateOK(x, strategy, now), Moves(r, x),
               request[r].at \in {"idle", "counting", "weighing"},
               x.at = "selected", NEW b \in Accounts, x.account = b,
               chosen' = [chosen EXCEPT ![b] = @ + 1], \A a \in Accounts : Same(a)
        PROVE  RecordsBounded'
    <2>1. \A a \in Accounts : Load(x, a) = (IF b = a THEN 2 ELSE 0) /\ Load(request[r], a) = 0
      BY <1>4, Loads
    <2>2. \A a \in Accounts : More(a, b)
      BY <1>4 DEF Typed
    <2>3. ASSUME NEW a \in Accounts
          PROVE  Len(usage'[a].records) + Load(x, a) - 2 * chosen'[a]
                   <= Len(usage[a].records) + Load(request[r], a) - 2 * chosen[a]
      <3> DEFINE l == Len(usage[a].records)
                 k == Len(usage'[a].records)
                 c == chosen[a]
                 d == chosen'[a]
                 u == Load(x, a)
                 v == Load(request[r], a)
      <3>1. l \in Nat /\ k \in Nat /\ c \in Nat /\ k <= l
        BY <1>2, <1>4
      <3>2. u = (IF b = a THEN 2 ELSE 0) /\ v = 0 /\ d = IF a = b THEN c + 1 ELSE c
        BY <2>1, <2>2
      <3> HIDE DEF l, k, c, d, u, v
      <3>3. k + u - 2 * d <= l + v - 2 * c
        BY <3>1, <3>2
      <3> QED BY <3>3 DEF l, k, c, d, u, v
    <2> QED BY <1>4, <2>3, LoadKept
  <1>5. ASSUME NEW r \in Requests, SelectRoundRobin(r) \/ SelectByPriority(r)
        PROVE  RecordsBounded'
    <2> PICK b, x :
          /\ b \in Accounts /\ request[r].at = "idle" /\ x.at = "selected" /\ x.account = b
          /\ Moves(r, x) /\ StateOK(x, strategy, now)
          /\ chosen' = [chosen EXCEPT ![b] = @ + 1]
          /\ usage' = usage
      <3> PICK b \in Accounts :
            LET x == [at |-> "selected", account |-> b]
            IN /\ request[r].at = "idle" /\ Moves(r, x) /\ StateOK(x, strategy, now)
               /\ chosen' = [chosen EXCEPT ![b] = @ + 1]
               /\ usage' = usage
        BY <1>5, SelectsAtOnce
      <3> DEFINE x == [at |-> "selected", account |-> b]
      <3>1. x.at = "selected" /\ x.account = b
        OBVIOUS
      <3> QED BY <3>1
    <2>1. \A a \in Accounts : Same(a)
      BY <1>2
    <2> HIDE DEF Same, More
    <2> QED BY <1>4, <2>1
  <1>6. ASSUME NEW r \in Requests, BeginChoice(r) PROVE RecordsBounded'
    <2> PICK x : /\ request[r].at = "idle" /\ x.at = "counting"
                 /\ Moves(r, x) /\ StateOK(x, strategy, now)
                 /\ chosen' = chosen /\ usage' = usage
      BY <1>6, ChoiceBegins
    <2>1. \A a \in Accounts : Same(a)
      BY <1>2
    <2> HIDE DEF Same, More
    <2> QED BY <1>3, <2>1
  <1>7. ASSUME NEW r \in Requests, NEW score \in Int, Consider(r, score),
               request[r].at \in {"counting", "weighing"}, UNCHANGED <<now, strategy>>,
               \A a \in Accounts : Same(a)
        PROVE  RecordsBounded'
    <2> HIDE DEF Same, More
    <2> DEFINE q == request[r]
               g == GoesOn(q, score)
               c == Choice(q, score)
    <2>1. /\ q \in ChoosingState /\ q.next \in DOMAIN q.from
          /\ \/ /\ Moves(r, g) /\ StateOK(g, strategy, now)
                /\ chosen' = chosen
             \/ /\ Moves(r, c) /\ StateOK(c, strategy, now)
                /\ chosen' = [chosen EXCEPT ![BestOf(q, score)] = @ + 1]
      BY <1>7, ConsiderStep
    <2>2. /\ g.at = "counting" /\ c.at = "selected"
          /\ c.account = BestOf(q, score) /\ BestOf(q, score) \in Accounts
      BY <2>1, ConsiderTypes
    <2> HIDE DEF g, c
    <2> QED BY <1>3, <1>4, <1>7, <2>1, <2>2
  <1>8. ASSUME NEW r \in Requests, ReadCount(r) PROVE RecordsBounded'
    <2> PICK count, b, x :
          /\ count \in Nat /\ b \in Accounts
          /\ request[r].at = "counting" /\ x.at = "weighing"
          /\ UNCHANGED <<now, strategy>>
          /\ usage' = [usage EXCEPT ![b] = Trimmed(@, now)]
          /\ strategy = "least-used" => Consider(r, count)
          /\ strategy # "least-used" => /\ Moves(r, x) /\ StateOK(x, strategy, now)
                                        /\ chosen' = chosen
      <3> DEFINE q == request[r]
                 count == WindowRequestCount(usage[q.from[q.next]], now)
                 x == [q EXCEPT !.at = "weighing", !.count = count]
      <3>1. q \in ChoosingState
        BY <1>8, CountIsRead
      <3>2. x.at = "weighing"
        <4> HIDE DEF count
        <4>1. PICK z \in ChoosingState : z = q
          BY <3>1
        <4>2. [z EXCEPT !.at = "weighing", !.count = count].at = "weighing"
          BY DEF ChoosingState
        <4> QED BY <4>1, <4>2
      <3> QED BY <1>8, <3>2, CountIsRead
    <2>1. ASSUME NEW a \in Accounts PROVE Same(a)
      <3>1. usage'[a] = IF a = b THEN Trimmed(usage[b], now) ELSE usage[a]
        BY DEF Typed
      <3>2. now \in Times
        BY DEF Typed
      <3> QED BY <1>2, <3>1, <3>2, Lengths
    <2> HIDE DEF Same, More
    <2>2. CASE strategy = "least-used"
      BY <1>7, <2>1, <2>2
    <2>3. CASE strategy # "least-used"
      BY <1>3, <2>1, <2>3
    <2> QED BY <2>2, <2>3
  <1>9. ASSUME NEW r \in Requests, ReadPenalty(r) PROVE RecordsBounded'
    <2> PICK score \in Int : /\ Consider(r, score) /\ request[r].at = "weighing"
                             /\ UNCHANGED <<now, usage, strategy>>
      BY <1>9, PenaltyIsRead
    <2>1. \A a \in Accounts : Same(a)
      BY <1>2
    <2> HIDE DEF Same, More
    <2> QED BY <1>7, <2>1
  <1>10. ASSUME NEW r \in Requests, AppendRecord(r) PROVE RecordsBounded'
    <2> DEFINE q == request[r]
               b == q.account
               x == IF q.first THEN [at |-> "sent", account |-> q.account] ELSE Idle
    <2>1. /\ q \in RecordingState /\ Moves(r, x) /\ StateOK(x, strategy, now)
          /\ usage' = [usage EXCEPT ![b] = Recorded(@, q.stamp, q.is429)]
          /\ chosen' = chosen
      BY <1>10, RecordIsAppended
    <2>2. /\ b \in Accounts /\ q.stamp \in Times /\ q.is429 \in BOOLEAN /\ q.first \in BOOLEAN
          /\ q.at = "recording"
      BY <2>1 DEF RecordingState
    <2>3. ASSUME NEW a \in Accounts
          PROVE  Len(usage'[a].records) <= Len(usage[a].records) + IF a = b THEN 1 ELSE 0
      <3>1. usage'[a] = IF a = b THEN Recorded(usage[b], q.stamp, q.is429) ELSE usage[a]
        BY <2>1, <2>2 DEF Typed
      <3>2. CASE a = b
        <4>1. usage'[a] = Recorded(usage[b], q.stamp, q.is429)
          BY <3>1, <3>2
        <4> HIDE DEF q, b
        <4> QED BY <2>2, <3>2, <4>1, Lengths
      <3>3. CASE a # b
        <4>1. usage'[a] = usage[a]
          BY <3>1, <3>3
        <4> QED BY <1>2, <3>3, <4>1
      <3> QED BY <3>2, <3>3
    <2>4. ASSUME NEW a \in Accounts
          PROVE  Load(q, a) = Load(x, a) + (IF a = b THEN 1 ELSE 0) /\ Load(x, a) \in Nat
      <3>1. CASE q.first
        <4>1. x.at = "sent" /\ x.account = b
          BY <3>1
        <4> HIDE DEF x, q
        <4>2. Load(x, a) = IF b = a THEN 1 ELSE 0
          BY <4>1, Loads
        <4>3. Load(q, a) = IF b = a THEN 2 ELSE 0
          BY <2>2, <3>1, Loads
        <4> QED BY <4>2, <4>3
      <3>2. CASE ~q.first
        <4>1. x.at = "idle"
          BY <3>2 DEF Idle
        <4> HIDE DEF x, q
        <4>2. Load(x, a) = 0
          BY <4>1, Loads
        <4>3. Load(q, a) = IF b = a THEN 1 ELSE 0
          BY <2>2, <3>2, Loads
        <4> QED BY <4>2, <4>3
      <3> QED BY <3>1, <3>2
    <2>5. ASSUME NEW a \in Accounts
          PROVE  Len(usage'[a].records) + Load(x, a) - 2 * chosen'[a]
                   <= Len(usage[a].records) + Load(q, a) - 2 * chosen[a]
      <3> DEFINE l == Len(usage[a].records)
                 k == Len(usage'[a].records)
                 c == chosen[a]
                 u == Load(x, a)
                 v == Load(q, a)
      <3>1. l \in Nat /\ k \in Nat /\ c \in Nat /\ chosen'[a] = c
        BY <1>2, <2>1
      <3>2. k <= l + IF a = b THEN 1 ELSE 0
        BY <2>3
      <3>3. v = u + (IF a = b THEN 1 ELSE 0) /\ u \in Nat
        BY <2>4
      <3> HIDE DEF l, k, c, u, v
      <3>4. k + u - 2 * c <= l + v - 2 * c
        BY <3>1, <3>2, <3>3
      <3> QED BY <3>1, <3>4 DEF l, k, c, u, v
    <2> HIDE DEF x
    <2> QED BY <2>1, <2>5, LoadKept
  <1>11. ASSUME NEW r \in Requests, OverLimit(r) \/ BeginRecord(r) \/ Answered(r) \/ Failed(r)
         PROVE  RecordsBounded'
    <2> DEFINE q == request[r]
    <2>1. PICK x : /\ Moves(r, x) /\ StateOK(x, strategy, now)
                   /\ UNCHANGED <<usage, chosen>>
                   /\ \/ q.at \in {"selected", "sent"} /\ x = Idle
                      \/ q.at = "selected" /\ x = Recording(q.account, TRUE, FALSE)
                      \/ q.at = "sent" /\ \E is429 \in BOOLEAN : x = Recording(q.account, FALSE, is429)
      BY <1>11, AfterChoice DEF At
    <2>2. \/ q.at \in {"selected", "sent"} /\ x.at = "idle"
          \/ q.at = "selected" /\ x.at = "recording" /\ x.first /\ x.account = q.account
          \/ q.at = "sent" /\ x.at = "recording" /\ ~x.first /\ x.account = q.account
      BY <2>1 DEF Recording, Idle
    <2> HIDE DEF q
    <2>3. ASSUME NEW a \in Accounts
          PROVE  /\ Load(x, a) <= Load(q, a) /\ Load(x, a) \in Nat /\ Load(q, a) \in Nat
      <3>1. CASE q.at \in {"selected", "sent"} /\ x.at = "idle"
        <4>1. Load(x, a) = 0
          BY <3>1, Loads
        <4>2. Load(q, a) = (IF q.account = a THEN 2 ELSE 0) \/ Load(q, a) = (IF q.account = a THEN 1 ELSE 0)
          BY <3>1, Loads
        <4> QED BY <4>1, <4>2
      <3>2. CASE q.at = "selected" /\ x.at = "recording" /\ x.first /\ x.account = q.account
        BY <3>2, Loads
      <3>3. CASE q.at = "sent" /\ x.at = "recording" /\ ~x.first /\ x.account = q.account
        BY <3>3, Loads
      <3> QED BY <2>2, <3>1, <3>2, <3>3
    <2>4. ASSUME NEW a \in Accounts
          PROVE  Len(usage'[a].records) + Load(x, a) - 2 * chosen'[a]
                   <= Len(usage[a].records) + Load(q, a) - 2 * chosen[a]
      <3>1. /\ Len(usage[a].records) \in Nat /\ Len(usage'[a].records) = Len(usage[a].records)
            /\ chosen[a] \in Nat /\ chosen'[a] = chosen[a]
        BY <1>2, <2>1
      <3> QED BY <2>3, <3>1
    <2> QED BY <2>1, <2>4, LoadKept DEF q
  <1>12. CASE UNCHANGED vars
    BY <1>1, <1>12 DEF vars
  <1>13. CASE Tick
    BY <1>1, <1>13 DEF Tick
  <1> QED BY <1>5, <1>6, <1>8, <1>9, <1>10, <1>11, <1>12, <1>13 DEF Next
-----------------------------------------------------------------------------
(* smart: how far an account that has refused is avoided. *)

Pen(u, a, since) == Penalized(u[a].last429, since)

\* What is left of the penalty that a choice began with.
Full == PenaltyRate * (PenaltyTime - MaxDelay)
Left(q, a) == IF q.owed[a] < Full THEN q.owed[a] ELSE Full

\* What the penalties u and the choices ch made so far say of the accounts
\* considered: the score of the best is that of its penalty at least, and no more
\* than what one without a penalty has been used.
Compared(q, u, ch, next, best, score) ==
    /\ next > 1 => score >= Left(q, best) - Weight(best)
    /\ \A i \in 1 .. next - 1 :
         Pen(u, q.from[i], q.since) \/ score <= 2 * ch[q.from[i]] - Weight(q.from[i])

SmartState(q, u, ch) ==
    /\ q.at \in {"counting", "weighing"} =>
         /\ q.owed \in [ToSet(q.from) -> Nat] /\ q.best \in ToSet(q.from)
         /\ \A a \in ToSet(q.from) : Penalty(u[a].last429, q.since) >= Left(q, a)
         /\ Compared(q, u, ch, q.next, q.best, q.score)
    /\ q.at = "weighing" => q.count <= 2 * ch[q.from[q.next]]
    /\ q.at = "selected" =>
         /\ q.owed \in [ToSet(q.from) -> Nat] /\ q.account \in ToSet(q.from)
         /\ \A a \in ToSet(q.from) :
              Pen(u, a, q.since)
                \/ 2 * ch[a] - Weight(a) >= Left(q, q.account) - Weight(q.account)

SmartKept == strategy = "smart" => \A r \in Requests : SmartState(request[r], usage, chosen)

LEMMA FullIsNat == Full \in Nat
  <1>1. PenaltyTime - MaxDelay \in Nat /\ PenaltyRate \in Nat
    BY ConstantsAssumption
  <1> QED BY <1>1 DEF Full

LEMMA LeftIsNat ==
    ASSUME NEW q, NEW S, q.owed \in [S -> Nat], NEW a \in S
    PROVE  Left(q, a) \in Nat /\ Left(q, a) <= Full /\ Left(q, a) <= q.owed[a]
  BY FullIsNat DEF Left

\* A penalty from less than MaxDelay before the choice began.
LEMMA RecentPenalty ==
    ASSUME NEW last429 \in Times, NEW since \in Times, since - last429 <= MaxDelay
    PROVE  Penalized(last429, since) /\ Penalty(last429, since) >= Full
  <1>1. /\ PenaltyRate \in Nat /\ PenaltyTime \in Nat /\ MaxDelay \in Nat
        /\ MaxDelay < PenaltyTime
    BY ConstantsAssumption
  <1>2. last429 \in Int /\ since \in Int
    BY TimesAreIntegers
  <1>3. Penalized(last429, since)
    <2>1. last429 # Never
      BY ConstantsAssumption DEF Never, Times
    <2>2. since - last429 < PenaltyTime
      BY <1>1, <1>2
    <2> QED BY <2>1, <2>2 DEF Penalized
  <1>4. \A m, n \in Int : m >= n => PenaltyRate * m >= PenaltyRate * n
    BY <1>1
  <1>5. PenaltyTime - (since - last429) >= PenaltyTime - MaxDelay
    BY <1>1, <1>2
  <1>6. PenaltyRate * (PenaltyTime - (since - last429)) >= PenaltyRate * (PenaltyTime - MaxDelay)
    BY <1>1, <1>2, <1>4, <1>5
  <1> QED BY <1>3, <1>6 DEF Penalty, Full

\* What a step may do to the time of an account's last 429, for a choice that began
\* at since, and to how often it has been chosen.
Near(u, v, a, since) ==
    \/ v[a].last429 = u[a].last429
    \/ v[a].last429 \in Times /\ since - v[a].last429 <= MaxDelay

LEMMA LastRefusal ==
    ASSUME Typed, RequestsOK, [Next]_vars, NEW a \in Accounts, NEW since \in Times, since <= now
    PROVE  Near(usage, usage', a, since)
  <1>1. usage[a] \in Usage /\ now \in Int /\ \A x \in Times : x \in Int
    BY TimesAreIntegers DEF Typed
  <1>2. CASE usage' = usage
    BY <1>2 DEF Near
  <1>3. ASSUME NEW r \in Requests, ReadCount(r) PROVE Near(usage, usage', a, since)
    <2> PICK b \in Accounts :
          /\ Drops(usage[b], Trimmed(usage[b], now), now)
          /\ usage' = [usage EXCEPT ![b] = Trimmed(@, now)]
      BY <1>3, CountIsRead
    <2>1. usage'[a].last429 = usage[a].last429
      BY DEF Drops, Typed
    <2> QED BY <2>1 DEF Near
  <1>4. ASSUME NEW r \in Requests, AppendRecord(r) PROVE Near(usage, usage', a, since)
    <2> DEFINE q == request[r]
               b == q.account
    <2>1. /\ q \in RecordingState /\ q.stamp \in now - MaxDelay .. now
          /\ Drops(WithRecord(usage[b], q.stamp, q.is429), Recorded(usage[b], q.stamp, q.is429), q.stamp)
          /\ usage' = [usage EXCEPT ![b] = Recorded(@, q.stamp, q.is429)]
      BY <1>4, RecordIsAppended
    <2>2. b \in Accounts /\ q.stamp \in Times
      BY <2>1 DEF RecordingState
    <2>3. \/ usage'[a].last429 = usage[a].last429
          \/ usage'[a].last429 = q.stamp
      <3>1. CASE a = b
        <4>1. usage'[a] = Recorded(usage[b], q.stamp, q.is429)
          BY <2>1, <2>2, <3>1 DEF Typed
        <4>2. usage'[a].last429 = WithRecord(usage[b], q.stamp, q.is429).last429
          BY <2>1, <4>1 DEF Drops
        <4> QED BY <3>1, <4>2 DEF WithRecord
      <3>2. CASE a # b
        BY <2>1, <2>2, <3>2 DEF Typed
      <3> QED BY <3>1, <3>2
    <2>4. since - q.stamp <= MaxDelay
      <3> DEFINE stamp == q.stamp
      <3>1. /\ stamp \in Int /\ stamp >= now - MaxDelay /\ since \in Int /\ MaxDelay \in Nat
        BY <1>1, <2>1, <2>2, ConstantsAssumption
      <3> HIDE DEF stamp
      <3>2. since - stamp <= MaxDelay
        BY <1>1, <3>1
      <3> QED BY <3>2 DEF stamp
    <2> QED BY <2>2, <2>3, <2>4 DEF Near
  <1>5. ASSUME NEW r \in Requests,
               \/ SelectRoundRobin(r) \/ SelectByPriority(r) \/ BeginChoice(r) \/ ReadPenalty(r)
               \/ OverLimit(r) \/ BeginRecord(r) \/ Answered(r) \/ Failed(r)
        PROVE  usage' = usage
    BY <1>5 DEF SelectRoundRobin, SelectByPriority, BeginChoice, ReadPenalty, OverLimit,
            BeginRecord, Answered, Failed
  <1> QED BY <1>2, <1>3, <1>4, <1>5 DEF Next, Tick, vars

\* The last 429 of an account may go back in time, but not so far that a penalty
\* is over for a choice that has begun, or is less than what is left of it.
LEMMA PenaltyStays ==
    ASSUME Typed, RequestsOK, [Next]_vars, NEW a \in Accounts, NEW since \in Times, since <= now
    PROVE  /\ Pen(usage, a, since) => Pen(usage', a, since)
           /\ \A left \in Nat : (left <= Full /\ Penalty(usage[a].last429, since) >= left)
                                  => Penalty(usage'[a].last429, since) >= left
  <1>1. CASE usage'[a].last429 = usage[a].last429
    BY <1>1 DEF Pen
  <1>2. CASE usage'[a].last429 \in Times /\ since - usage'[a].last429 <= MaxDelay
    <2>1. Pen(usage', a, since) /\ Penalty(usage'[a].last429, since) >= Full
      BY <1>2, RecentPenalty DEF Pen
    <2>2. Penalty(usage'[a].last429, since) \in Nat
      BY <1>2, PenaltyType
    <2> QED BY <2>1, <2>2, FullIsNat
  <1> QED BY <1>1, <1>2, LastRefusal DEF Near

LEMMA ChosenGrows ==
    ASSUME Typed, RequestsOK, [Next]_vars
    PROVE  \A a \in Accounts : /\ chosen[a] \in Nat /\ chosen'[a] \in Nat
                               /\ chosen'[a] >= chosen[a]
  <1>1. ASSUME \/ chosen' = chosen
               \/ \E b \in Accounts : chosen' = [chosen EXCEPT ![b] = @ + 1],
               NEW a \in Accounts
        PROVE  chosen[a] \in Nat /\ chosen'[a] \in Nat /\ chosen'[a] >= chosen[a]
    BY <1>1 DEF Typed
  <1>2. ASSUME NEW r \in Requests, SelectRoundRobin(r) \/ SelectByPriority(r)
        PROVE  \E b \in Accounts : chosen' = [chosen EXCEPT ![b] = @ + 1]
    BY <1>2, SelectsAtOnce
  <1>3. ASSUME NEW r \in Requests, NEW score \in Int, Consider(r, score),
               request[r].at \in {"counting", "weighing"}, UNCHANGED <<now, strategy>>
        PROVE  \/ chosen' = chosen
               \/ \E b \in Accounts : chosen' = [chosen EXCEPT ![b] = @ + 1]
    BY <1>3, ConsiderStep, ConsiderTypes
  <1>4. ASSUME NEW r \in Requests, ReadCount(r)
        PROVE  \/ chosen' = chosen
               \/ \E b \in Accounts : chosen' = [chosen EXCEPT ![b] = @ + 1]
    <2> PICK count \in Nat : /\ request[r].at = "counting" /\ UNCHANGED <<now, strategy>>
                             /\ strategy = "least-used" => Consider(r, count)
                             /\ strategy # "least-used" => chosen' = chosen
      BY <1>4, CountIsRead
    <2> QED BY <1>3
  <1>5. ASSUME NEW r \in Requests, ReadPenalty(r)
        PROVE  \/ chosen' = chosen
               \/ \E b \in Accounts : chosen' = [chosen EXCEPT ![b] = @ + 1]
    BY <1>3, <1>5, PenaltyIsRead
  <1>6. ASSUME NEW r \in Requests,
               \/ BeginChoice(r) \/ OverLimit(r) \/ BeginRecord(r) \/ AppendRecord(r)
               \/ Answered(r) \/ Failed(r)
        PROVE  chosen' = chosen
    BY <1>6 DEF BeginChoice, OverLimit, BeginRecord, AppendRecord, Answered, Failed
  <1>7. \/ chosen' = chosen
        \/ \E b \in Accounts : chosen' = [chosen EXCEPT ![b] = @ + 1]
    BY <1>2, <1>4, <1>5, <1>6 DEF Next, Tick, vars
  <1> QED BY <1>1, <1>7

\* A bound by what an account was chosen still holds when it has been chosen more.
LEMMA BoundGrows ==
    ASSUME NEW s \in Int, NEW c \in Nat, NEW d \in Nat, NEW w \in Nat, c <= d
    PROVE  /\ s <= 2 * c - w => s <= 2 * d - w
           /\ s <= 2 * c => s <= 2 * d
           /\ 2 * c - w >= s => 2 * d - w >= s
  OBVIOUS

\* What a request knows stays true, whatever it or another does.
LEMMA SmartStays ==
    ASSUME Typed, RequestsOK, [Next]_vars, strategy = "smart",
           NEW q, StateOK(q, strategy, now), SmartState(q, usage, chosen)
    PROVE  SmartState(q, usage', chosen')
  <1>1. CASE q.at \in {"counting", "weighing"}
    <2>1. q \in ChoosingState /\ q.since <= now /\ q.next \in DOMAIN q.from
      BY <1>1, StateAt DEF StateOK
    <2>2. /\ q.since \in Times /\ q.score \in Int /\ q.count \in Nat /\ q.next \in Nat
          /\ ToSet(q.from) \subseteq Accounts /\ q.from[q.next] \in Accounts
          /\ \A i \in 1 .. q.next - 1 : q.from[i] \in Accounts
      <3>1. /\ q.from \in Lists /\ q.next \in Nat /\ q.since \in Times /\ q.score \in Int
            /\ q.count \in Nat
        BY <2>1 DEF ChoosingState
      <3>2. q.next \in 1 .. Len(q.from) /\ Len(q.from) \in Nat
        BY <2>1, <3>1, ListType
      <3>3. \A i \in 1 .. q.next - 1 : i \in 1 .. Len(q.from)
        BY <3>2
      <3> QED BY <3>1, <3>2, <3>3, ListType
    <2>3. /\ q.owed \in [ToSet(q.from) -> Nat] /\ q.best \in ToSet(q.from)
          /\ \A a \in ToSet(q.from) : Penalty(usage[a].last429, q.since) >= Left(q, a)
          /\ Compared(q, usage, chosen, q.next, q.best, q.score)
          /\ q.at = "weighing" => q.count <= 2 * chosen[q.from[q.next]]
      BY <1>1 DEF SmartState
    <2>4. \A a \in Accounts : Pen(usage, a, q.since) => Pen(usage', a, q.since)
      BY <2>1, <2>2, PenaltyStays
    <2>5. ASSUME NEW a \in ToSet(q.from)
          PROVE  Penalty(usage'[a].last429, q.since) >= Left(q, a)
      <3>1. Left(q, a) \in Nat /\ Left(q, a) <= Full
        BY <2>3, LeftIsNat
      <3> QED BY <2>1, <2>2, <2>3, <3>1, PenaltyStays
    <2>6. ASSUME NEW i \in 1 .. q.next - 1
          PROVE  Pen(usage', q.from[i], q.since)
                   \/ q.score <= 2 * chosen'[q.from[i]] - Weight(q.from[i])
      <3> PICK a \in Accounts : a = q.from[i]
        BY <2>2
      <3>1. Pen(usage, a, q.since) \/ q.score <= 2 * chosen[a] - Weight(a)
        BY <2>3 DEF Compared
      <3>2. chosen[a] \in Nat /\ chosen'[a] \in Nat /\ chosen[a] <= chosen'[a] /\ Weight(a) \in Nat
        BY ChosenGrows, Weights
      <3>3. q.score <= 2 * chosen[a] - Weight(a) => q.score <= 2 * chosen'[a] - Weight(a)
        BY <2>2, <3>2, BoundGrows
      <3> QED BY <2>4, <3>1, <3>3
    <2>7. Compared(q, usage', chosen', q.next, q.best, q.score)
      BY <2>3, <2>6 DEF Compared
    <2>8. q.at = "weighing" => q.count <= 2 * chosen'[q.from[q.next]]
      <3> PICK a \in Accounts : a = q.from[q.next]
        BY <2>2
      <3>1. chosen[a] \in Nat /\ chosen'[a] \in Nat /\ chosen[a] <= chosen'[a]
        BY ChosenGrows
      <3>2. q.count <= 2 * chosen[a] => q.count <= 2 * chosen'[a]
        BY <2>2, <3>1, BoundGrows
      <3> QED BY <2>3, <3>2
    <2>9. q.at # "selected"
      BY <1>1
    <2> QED BY <2>3, <2>5, <2>7, <2>8, <2>9 DEF SmartState
  <1>2. CASE q.at = "selected"
    <2>1. q \in WeighedState /\ q.since <= now
      BY <1>2 DEF StateOK
    <2>2. q.since \in Times /\ ToSet(q.from) \subseteq Accounts
      BY <2>1, ListType DEF WeighedState
    <2>3. /\ q.owed \in [ToSet(q.from) -> Nat] /\ q.account \in ToSet(q.from)
          /\ \A a \in ToSet(q.from) :
               Pen(usage, a, q.since)
                 \/ 2 * chosen[a] - Weight(a) >= Left(q, q.account) - Weight(q.account)
      BY <1>2 DEF SmartState
    <2>4. ASSUME NEW a \in ToSet(q.from)
          PROVE  Pen(usage', a, q.since)
                   \/ 2 * chosen'[a] - Weight(a) >= Left(q, q.account) - Weight(q.account)
      <3>1. Pen(usage, a, q.since) => Pen(usage', a, q.since)
        BY <2>1, <2>2, PenaltyStays
      <3>2. chosen[a] \in Nat /\ chosen'[a] \in Nat /\ chosen[a] <= chosen'[a] /\ Weight(a) \in Nat
        BY <2>2, ChosenGrows, Weights
      <3> PICK s : s = Left(q, q.account) - Weight(q.account)
        OBVIOUS
      <3>3. s \in Int
        BY <2>2, <2>3, LeftIsNat, Weights
      <3>4. 2 * chosen[a] - Weight(a) >= s => 2 * chosen'[a] - Weight(a) >= s
        BY <3>2, <3>3, BoundGrows
      <3> QED BY <2>3, <3>1, <3>4
    <2>5. q.at # "counting" /\ q.at # "weighing"
      BY <1>2
    <2> QED BY <2>3, <2>4, <2>5 DEF SmartState
  <1>3. CASE q.at \notin {"counting", "weighing", "selected"}
    BY <1>3 DEF SmartState
  <1> QED BY <1>1, <1>2, <1>3

\* What the request that moves knows then.
LEMMA SmartMoves ==
    ASSUME Typed, RequestsOK, SmartKept, [Next]_vars, NEW r \in Requests, NEW x,
           StateOK(x, strategy, now), Moves(r, x),
           strategy = "smart" => SmartState(x, usage, chosen)
    PROVE  SmartKept'
  <1> SUFFICES ASSUME strategy = "smart", NEW p \in Requests
               PROVE  SmartState(request'[p], usage', chosen')
    BY DEF SmartKept, Moves
  <1>1. CASE p = r
    <2>1. SmartState(x, usage', chosen')
      BY SmartStays
    <2> QED BY <1>1, <2>1, OneRequest
  <1>2. CASE p # r
    <2> PICK q : q = request[p]
      OBVIOUS
    <2>1. StateOK(q, strategy, now) /\ SmartState(q, usage, chosen)
      BY DEF RequestsOK, SmartKept
    <2>2. SmartState(q, usage', chosen')
      BY <2>1, SmartStays
    <2> QED BY <1>2, <2>2, OneRequest
  <1> QED BY <1>1, <1>2

\* The bounds of one score, and the lesser of two.
LEMMA ScoreBounds ==
    ASSUME NEW n \in Nat, NEW m \in Nat, NEW p \in Nat, NEW w \in Nat, NEW l \in Nat,
           n <= m
    PROVE  /\ p >= l => n + p - w >= l - w
           /\ p = 0 => n + p - w <= m - w
  OBVIOUS

LEMMA LesserScore ==
    ASSUME NEW s \in Int, NEW e \in Int, NEW k \in Nat
    PROVE  /\ (k = 1 \/ s < e) => (k > 1 => s <= e)
           /\ ~(s < e) => e <= s
           /\ s <= s
  OBVIOUS

LEMMA BoundsCompose ==
    ASSUME NEW s \in Int, NEW e \in Int, NEW m \in Nat, NEW w \in Nat, s <= e
    PROVE  e <= 2 * m - w => s <= 2 * m - w
  OBVIOUS

\* The account considered last is compared with the best before it.
LEMMA Compares ==
    ASSUME Typed, RequestsOK, NEW r \in Requests, NEW q, q = request[r], q.at = "weighing",
           q \in ChoosingState, q.next \in DOMAIN q.from, SmartState(q, usage, chosen),
           NEW score \in Int,
           score = q.count + Penalty(usage[q.from[q.next]].last429, q.since)
                     - Weight(q.from[q.next])
    PROVE  /\ Compared(q, usage, chosen, q.next + 1, BestOf(q, score), ScoreOf(q, score))
           /\ BestOf(q, score) \in ToSet(q.from)
  <1> DEFINE a == q.from[q.next]
             p == Penalty(usage[a].last429, q.since)
             w == Weight(a)
             b == BestOf(q, score)
             t == ScoreOf(q, score)
  <1>1. /\ q.from \in Lists /\ q.next \in Nat /\ q.count \in Nat /\ q.since \in Times
        /\ q.score \in Int /\ q.best \in Accounts
        /\ q.next \in 1 .. Len(q.from) /\ Len(q.from) \in Nat
        /\ DOMAIN q.from = 1 .. Len(q.from)
    BY ListType DEF ChoosingState
  <1>2. a \in Accounts /\ w \in Nat /\ a \in ToSet(q.from) /\ chosen[a] \in Nat
    <2>1. a \in Accounts /\ a \in ToSet(q.from)
      BY <1>1, ListType DEF ToSet
    <2>2. chosen[a] \in Nat
      BY <2>1 DEF Typed
    <2> QED BY <2>1, <2>2, Weights
  <1>3. usage[a].last429 \in Times \cup {Never}
    BY <1>2 DEF Typed, Usage
  <1>4. /\ p \in Nat
        /\ ~Pen(usage, a, q.since) => p = 0
    BY <1>1, <1>3, PenaltyType DEF Pen
  <1>5. /\ q.owed \in [ToSet(q.from) -> Nat] /\ q.best \in ToSet(q.from)
        /\ p >= Left(q, a)
        /\ Compared(q, usage, chosen, q.next, q.best, q.score)
        /\ q.count <= 2 * chosen[a]
    BY <1>2 DEF SmartState
  <1>6. Left(q, a) \in Nat
    BY <1>2, <1>5, LeftIsNat
  <1>7. /\ score = q.count + p - w /\ a = q.from[q.next] /\ w = Weight(a)
        /\ \/ b = a /\ t = score /\ (q.next = 1 \/ score < q.score)
           \/ b = q.best /\ t = q.score /\ q.next # 1 /\ ~(score < q.score)
    BY DEF BestOf, ScoreOf, Better
  <1> HIDE DEF a, p, w, b, t
  <1>8. /\ score >= Left(q, a) - w
        /\ Pen(usage, a, q.since) \/ score <= 2 * chosen[a] - w
    <2> PICK n \in Nat : n = q.count
      BY <1>1
    <2> PICK m \in Nat : m = 2 * chosen[a]
      BY <1>2
    <2> PICK l \in Nat : l = Left(q, a)
      BY <1>6
    <2>1. n <= m /\ score = n + p - w /\ p >= l
      BY <1>5, <1>7
    <2>2. /\ p >= l => n + p - w >= l - w
          /\ p = 0 => n + p - w <= m - w
      BY <1>2, <1>4, <2>1, ScoreBounds
    <2> QED BY <1>4, <2>1, <2>2
  <1>9. t >= Left(q, b) - Weight(b) /\ b \in ToSet(q.from)
    <2>1. CASE b = a /\ t = score
      BY <1>2, <1>7, <1>8, <2>1
    <2>2. CASE b = q.best /\ t = q.score /\ q.next # 1
      <3>1. q.next > 1
        BY <1>1, <2>2
      <3> QED BY <1>5, <2>2, <3>1 DEF Compared
    <2> QED BY <1>7, <2>1, <2>2
  <1>10. t <= score /\ (q.next > 1 => t <= q.score) /\ t \in Int
    BY <1>1, <1>7, LesserScore
  <1>11. ASSUME NEW i \in 1 .. (q.next + 1) - 1
         PROVE  Pen(usage, q.from[i], q.since) \/ t <= 2 * chosen[q.from[i]] - Weight(q.from[i])
    <2>1. CASE i = q.next
      <3>1. Pen(usage, a, q.since) \/ t <= 2 * chosen[a] - w
        BY <1>2, <1>8, <1>10, BoundsCompose
      <3> QED BY <1>7, <2>1, <3>1
    <2>2. CASE i # q.next
      <3> PICK n \in Nat : n = q.next
        BY <1>1
      <3>1. i \in 1 .. n - 1 /\ n > 1
        BY <2>2
      <3>2. i \in 1 .. Len(q.from)
        BY <1>1, <3>1
      <3>3. Weight(q.from[i]) \in Nat /\ chosen[q.from[i]] \in Nat
        <4>1. q.from[i] \in Accounts
          BY <1>1, <3>2, ListType
        <4>2. chosen[q.from[i]] \in Nat
          BY <4>1 DEF Typed
        <4> QED BY <4>1, <4>2, Weights
      <3>4. Pen(usage, q.from[i], q.since) \/ q.score <= 2 * chosen[q.from[i]] - Weight(q.from[i])
        BY <1>5, <3>1 DEF Compared
      <3>5. t <= q.score
        BY <1>10, <3>1
      <3>6. q.score <= 2 * chosen[q.from[i]] - Weight(q.from[i])
              => t <= 2 * chosen[q.from[i]] - Weight(q.from[i])
        BY <1>1, <1>10, <3>3, <3>5, BoundsCompose
      <3> QED BY <3>4, <3>6
    <2> QED BY <2>1, <2>2
  <1>12. Compared(q, usage, chosen, q.next + 1, b, t)
    BY <1>9, <1>11 DEF Compared
  <1> QED BY <1>9, <1>12 DEF b, t

\* After the last account, the choice is compared with all.
LEMMA ChoosesWell ==
    ASSUME NEW q \in ChoosingState, q.next \in DOMAIN q.from, ~(q.next < Len(q.from)),
           q.owed \in [ToSet(q.from) -> Nat],
           NEW best \in ToSet(q.from), NEW score \in Int, NEW u, NEW ch \in [Accounts -> Nat],
           Compared(q, u, ch, q.next + 1, best, score), NEW a \in ToSet(q.from)
    PROVE  Pen(u, a, q.since) \/ 2 * ch[a] - Weight(a) >= Left(q, best) - Weight(best)
  <1>1. /\ q.from \in Lists /\ q.next \in 1 .. Len(q.from) /\ Len(q.from) \in Nat
        /\ ToSet(q.from) \subseteq Accounts
    BY ListType DEF ChoosingState
  <1>2. PICK i \in 1 .. Len(q.from) : q.from[i] = a
    BY <1>1, ListType
  <1>3. i \in 1 .. (q.next + 1) - 1 /\ q.next + 1 > 1
    BY <1>1
  <1>4. /\ Pen(u, a, q.since) \/ score <= 2 * ch[a] - Weight(a)
        /\ score >= Left(q, best) - Weight(best)
    BY <1>2, <1>3 DEF Compared
  <1>5. /\ Weight(a) \in Nat /\ Weight(best) \in Nat /\ ch[a] \in Nat
        /\ Left(q, best) \in Nat
    BY <1>1, LeftIsNat, Weights
  <1> QED BY <1>4, <1>5

LEMMA SmartInit == Init => SmartKept
  BY DEF Init, SmartKept, SmartState, Idle

LEMMA SmartStep ==
    ASSUME Typed, RequestsOK, RecordsBounded, SmartKept, [Next]_vars
    PROVE  SmartKept'
  <1>1. CASE UNCHANGED <<strategy, request, usage, chosen>>
    BY <1>1 DEF SmartKept
  <1>2. CASE Tick
    BY <1>1, <1>2 DEF Tick
  <1>3. ASSUME NEW r \in Requests, SelectRoundRobin(r) \/ SelectByPriority(r) PROVE SmartKept'
    BY <1>3 DEF SelectRoundRobin, SelectByPriority, SmartKept
  <1>4. ASSUME NEW r \in Requests, BeginChoice(r) PROVE SmartKept'
    <2> PICK from \in Lists :
          LET y == Choosing(from, "counting")
          IN /\ Moves(r, y) /\ StateOK(y, strategy, now) /\ y.at = "counting"
             /\ y.from = from /\ y.next = 1 /\ y.since = now
             /\ y.best \in ToSet(from)
             /\ y.owed = [a \in ToSet(from) |-> Penalty(usage[a].last429, now)]
             /\ y.owed \in [ToSet(from) -> Nat]
      BY <1>4, ChoiceBegins
    <2> PICK x : x = Choosing(from, "counting")
      OBVIOUS
    <2>1. ASSUME NEW a \in ToSet(from) PROVE Penalty(usage[a].last429, now) >= Left(x, a)
      <3>1. x.owed[a] = Penalty(usage[a].last429, now) /\ x.owed[a] \in Nat
        OBVIOUS
      <3>2. Left(x, a) \in Nat /\ Left(x, a) <= x.owed[a]
        BY LeftIsNat
      <3> QED BY <3>1, <3>2
    <2>2. Compared(x, usage, chosen, x.next, x.best, x.score)
      BY DEF Compared
    <2>3. SmartState(x, usage, chosen)
      BY <2>1, <2>2 DEF SmartState
    <2> QED BY <2>3, SmartMoves
  <1>5. ASSUME NEW r \in Requests, ReadCount(r) PROVE SmartKept'
    <2> SUFFICES ASSUME strategy = "smart" PROVE SmartKept'
      BY <1>5 DEF ReadCount, SmartKept
    <2> DEFINE q == request[r]
               a == q.from[q.next]
               count == WindowRequestCount(usage[a], now)
               x == [q EXCEPT !.at = "weighing", !.count = count]
    <2>1. /\ q \in ChoosingState /\ q.at = "counting" /\ a \in Accounts
          /\ count \in Nat /\ count <= Len(usage[a].records)
          /\ Moves(r, x) /\ StateOK(x, strategy, now)
      BY <1>5, CountIsRead
    <2>2. count <= 2 * chosen[a]
      <3> DEFINE l == Len(usage[a].records)
                 n == Cardinality(AttemptsOf(a))
                 e == Cardinality(ExchangesOf(a))
                 c == chosen[a]
      <3>1. l + 2 * n + e <= 2 * c /\ l \in Nat /\ c \in Nat
        BY <2>1, RecordsLength DEF RecordsBounded
      <3>2. n \in Nat /\ e \in Nat
        BY <2>1, CountsAreNat
      <3>3. count <= l
        BY <2>1 DEF l
      <3> HIDE DEF l, n, e, count
      <3>4. l <= 2 * c
        BY <3>1, <3>2
      <3> HIDE DEF c
      <3>5. count <= 2 * c
        BY <2>1, <3>1, <3>3, <3>4
      <3> QED BY <3>5 DEF c
    <2> HIDE DEF count
    <2>3. /\ x.at = "weighing" /\ x.count = count /\ x.owed = q.owed /\ x.since = q.since
          /\ x.from = q.from /\ x.next = q.next /\ x.best = q.best /\ x.score = q.score
      BY <2>1 DEF ChoosingState
    <2>4. SmartState(q, usage, chosen)
      BY DEF SmartKept
    <2>5. count <= 2 * chosen[x.from[x.next]]
      BY <2>2, <2>3
    <2> HIDE DEF x, q, a
    <2>6. SmartState(x, usage, chosen)
      BY <2>1, <2>3, <2>4, <2>5 DEF SmartState, Compared, Left
    <2> QED BY <2>1, <2>6, SmartMoves
  <1>6. ASSUME NEW r \in Requests, ReadPenalty(r) PROVE SmartKept'
    <2> SUFFICES ASSUME strategy = "smart" PROVE SmartKept'
      BY <1>6 DEF ReadPenalty, SmartKept
    <2> DEFINE q == request[r]
               a == q.from[q.next]
               score == q.count + Penalty(usage[a].last429, q.since) - Weight(a)
               g == GoesOn(q, score)
               c == Choice(q, score)
    <2>1. /\ q \in ChoosingState /\ q.next \in DOMAIN q.from /\ q.at = "weighing"
          /\ a \in Accounts /\ score \in Int /\ Consider(r, score)
          /\ UNCHANGED <<now, usage, strategy>>
      BY <1>6, PenaltyIsRead
    <2>2. SmartState(q, usage, chosen)
      BY DEF SmartKept
    <2>3. /\ Compared(q, usage, chosen, q.next + 1, BestOf(q, score), ScoreOf(q, score))
          /\ BestOf(q, score) \in ToSet(q.from)
      BY <2>1, <2>2, Compares
    <2> HIDE DEF score, a
    <2>4. \/ /\ q.next < Len(q.from)
             /\ Moves(r, g) /\ StateOK(g, strategy, now)
          \/ /\ ~(q.next < Len(q.from))
             /\ Moves(r, c) /\ StateOK(c, strategy, now)
      BY <2>1, ConsiderStep
    <2>5. /\ BestOf(q, score) \in Accounts /\ ScoreOf(q, score) \in Int
          /\ g.at = "counting" /\ g.next = q.next + 1 /\ g.best = BestOf(q, score)
          /\ g.score = ScoreOf(q, score) /\ g.from = q.from /\ g.owed = q.owed
          /\ g.since = q.since
          /\ c.at = "selected" /\ c.account = BestOf(q, score) /\ c.from = q.from
          /\ c.owed = q.owed /\ c.since = q.since
      BY <2>1, ConsiderTypes
    <2>6. chosen \in [Accounts -> Nat]
      BY DEF Typed
    <2> HIDE DEF q, g, c
    <2>7. q.owed \in [ToSet(q.from) -> Nat]
      BY <2>1, <2>2 DEF SmartState
    <2>8. SmartState(g, usage, chosen)
      BY <2>1, <2>2, <2>3, <2>5 DEF SmartState, Compared, Left
    <2>9. ASSUME ~(q.next < Len(q.from)) PROVE SmartState(c, usage, chosen)
      <3>1. ASSUME NEW b \in ToSet(q.from)
            PROVE  Pen(usage, b, q.since)
                     \/ 2 * chosen[b] - Weight(b)
                          >= Left(q, BestOf(q, score)) - Weight(BestOf(q, score))
        BY <2>1, <2>3, <2>5, <2>6, <2>7, <2>9, ChoosesWell
      <3> QED BY <2>3, <2>5, <2>7, <3>1 DEF SmartState, Left
    <2> QED BY <2>4, <2>8, <2>9, SmartMoves
  <1>7. ASSUME NEW r \in Requests, AppendRecord(r) PROVE SmartKept'
    <2> DEFINE x == IF request[r].first THEN [at |-> "sent", account |-> request[r].account]
                    ELSE Idle
    <2>1. Moves(r, x) /\ StateOK(x, strategy, now)
      BY <1>7, RecordIsAppended
    <2>2. x.at \in {"sent", "idle"}
      BY DEF Idle
    <2> HIDE DEF x
    <2>3. SmartState(x, usage, chosen)
      BY <2>2 DEF SmartState
    <2> QED BY <2>1, <2>3, SmartMoves
  <1>8. ASSUME NEW r \in Requests, OverLimit(r) \/ BeginRecord(r) \/ Answered(r) \/ Failed(r)
        PROVE  SmartKept'
    <2>1. PICK x : /\ Moves(r, x) /\ StateOK(x, strategy, now)
                   /\ x.at \in {"idle", "recording"}
      BY <1>8, AfterChoice DEF Idle, Recording
    <2>2. SmartState(x, usage, chosen)
      BY <2>1 DEF SmartState
    <2> QED BY <2>1, <2>2, SmartMoves
  <1>9. CASE UNCHANGED vars
    BY <1>1, <1>9 DEF vars
  <1> QED BY <1>2, <1>3, <1>4, <1>5, <1>6, <1>7, <1>8, <1>9 DEF Next

LEMMA WeightsDiffer ==
    ASSUME NEW a \in Accounts, NEW b \in Accounts
    PROVE  PriorityWeight * (Priority[a] - Priority[b]) = Weight(a) - Weight(b)
  <1>1. PriorityWeight \in Nat /\ Priority[a] \in Nat /\ Priority[b] \in Nat
    BY ConstantsAssumption
  <1>2. \A w, m, n \in Nat : w * (m - n) = w * m - w * n
    OBVIOUS
  <1> QED BY <1>1, <1>2 DEF Weight

LEMMA SmartImplies == Typed /\ RequestsOK /\ SmartKept => AvoidsRefused
  <1> SUFFICES ASSUME Typed, RequestsOK, SmartKept, NEW r \in Requests,
                      strategy = "smart", request[r].at = "selected",
                      NEW a \in ToSet(request[r].from),
                      ~ Penalized(usage[a].last429, request[r].since)
               PROVE  2 * chosen[a] >= Left(request[r], request[r].account)
                        + PriorityWeight * (Priority[a] - Priority[request[r].account])
    BY DEF AvoidsRefused, At, Left, Full
  <1> PICK q : q = request[r]
    OBVIOUS
  <1>1. StateOK(q, strategy, now) /\ SmartState(q, usage, chosen)
    BY DEF RequestsOK, SmartKept
  <1>2. q \in WeighedState
    BY <1>1 DEF StateOK
  <1>3. ToSet(q.from) \subseteq Accounts
    BY <1>2, ListType DEF WeighedState
  <1>4. /\ q.owed \in [ToSet(q.from) -> Nat] /\ q.account \in ToSet(q.from)
        /\ 2 * chosen[a] - Weight(a) >= Left(q, q.account) - Weight(q.account)
    BY <1>1 DEF SmartState, Pen
  <1> PICK b \in Accounts : b = q.account
    BY <1>3, <1>4
  <1>5. /\ chosen[a] \in Nat /\ Weight(a) \in Nat /\ Weight(b) \in Nat /\ Left(q, b) \in Nat
        /\ a \in Accounts
    BY <1>3, <1>4, LeftIsNat, Weights DEF Typed
  <1>6. PriorityWeight * (Priority[a] - Priority[b]) = Weight(a) - Weight(b)
    BY <1>5, WeightsDiffer
  <1>7. 2 * chosen[a] >= Left(q, b) + (Weight(a) - Weight(b))
    BY <1>4, <1>5
  <1> QED BY <1>6, <1>7
-----------------------------------------------------------------------------
(* round-robin: the accounts take turns. *)

\* The quotient is how often each account has had its turn, and the remainder how
\* many of them have had one more.
TakeTurns ==
    (even /\ strategy = "round-robin") =>
        LET n == Len(AccountList)
        IN \A i \in 1 .. n :
             chosen[AccountList[i]] = (rrIndex \div n) + IF i <= rrIndex % n THEN 1 ELSE 0

LEMMA QuotientIsUnique ==
    ASSUME NEW k \in Nat, NEW n \in Nat, n > 0, NEW q \in Nat, NEW r \in 0 .. n - 1, k = q * n + r
    PROVE  k % n = r /\ k \div n = q
  OBVIOUS

LEMMA QuotientIs ==
    ASSUME NEW k \in Int, NEW n \in Int, n > 0
    PROVE  k = n * (k \div n) + (k % n)
  BY Z3

LEMMA NextTurn ==
    ASSUME NEW k \in Nat, NEW n \in Nat \ {0}
    PROVE  /\ k % n \in 0 .. n - 1 /\ k \div n \in Nat
           /\ \/ (k % n) + 1 < n /\ (k + 1) % n = (k % n) + 1 /\ (k + 1) \div n = k \div n
              \/ (k % n) + 1 = n /\ (k + 1) % n = 0 /\ (k + 1) \div n = (k \div n) + 1
  <1> DEFINE q == k \div n
             r == k % n
  <1>1. r \in 0 .. n - 1 /\ q \in Nat
    OBVIOUS
  <1>2. k = n * q + r
    BY QuotientIs
  <1> HIDE DEF q, r
  <1>3. CASE r + 1 < n
    <2>1. k + 1 = q * n + (r + 1) /\ r + 1 \in 0 .. n - 1 /\ k + 1 \in Nat
      BY <1>1, <1>2, <1>3
    <2>2. (k + 1) % n = r + 1 /\ (k + 1) \div n = q
      BY <1>1, <2>1, QuotientIsUnique
    <2> QED BY <1>1, <1>3, <2>2 DEF q, r
  <1>4. CASE r + 1 = n
    <2> DEFINE p == q + 1
               j == k + 1
    <2>1. p \in Nat /\ j \in Nat /\ 0 \in 0 .. n - 1 /\ n > 0 /\ n \in Nat
      BY <1>1
    <2>2. j = n * q + n /\ n * q \in Nat
      BY <1>1, <1>2, <1>4
    <2>3. p * n = n * q + n
      BY <1>1
    <2> HIDE DEF p, j
    <2>4. j = p * n + 0
      BY <2>2, <2>3
    <2>5. j % n = 0 /\ j \div n = p
      BY <2>1, <2>4, QuotientIsUnique
    <2>6. (k + 1) % n = 0 /\ (k + 1) \div n = q + 1
      BY <2>5 DEF j, p
    <2> QED BY <1>1, <1>4, <2>6 DEF q, r
  <1> QED BY <1>1, <1>3, <1>4

LEMMA TurnsStep ==
    ASSUME Typed, RequestsOK, TakeTurns, [Next]_vars
    PROVE  TakeTurns'
  <1>1. CASE strategy # "round-robin"
    BY <1>1 DEF Next, vars, TakeTurns, Tick, SelectRoundRobin, SelectByPriority, BeginChoice,
            ReadCount, ReadPenalty, OverLimit, BeginRecord, AppendRecord, Answered, Failed
  <1>2. ASSUME strategy = "round-robin", UNCHANGED <<chosen, rrIndex, strategy>>, even' => even
        PROVE  TakeTurns'
    BY <1>2 DEF TakeTurns
  <1>3. ASSUME NEW r \in Requests, strategy = "round-robin",
               SelectRoundRobin(r) \/ SelectByPriority(r)
        PROVE  TakeTurns'
    <2> PICK from \in Lists, a \in Accounts :
          /\ even' = (even /\ from = AccountList)
          /\ chosen' = [chosen EXCEPT ![a] = @ + 1]
          /\ a = from[(rrIndex % Len(from)) + 1] /\ rrIndex' = rrIndex + 1
      BY <1>3, SelectsAtOnce
    <2> DEFINE n == Len(AccountList)
               k == rrIndex
    <2> SUFFICES ASSUME even', NEW i \in 1 .. n
                 PROVE  chosen'[AccountList[i]]
                          = ((k + 1) \div n) + IF i <= (k + 1) % n THEN 1 ELSE 0
      BY DEF TakeTurns
    <2>1. from = AccountList /\ even
      OBVIOUS
    <2>2. n \in Nat \ {0} /\ k \in Nat
      BY <2>1, ListType DEF Typed
    <2>3. a = AccountList[(k % n) + 1]
      BY <2>1
    <2>4. /\ AccountList[i] \in Accounts
          /\ \A j \in 1 .. n : AccountList[i] = AccountList[j] => i = j
      BY AccountsFinite
    <2>5. chosen[AccountList[i]] = (k \div n) + IF i <= k % n THEN 1 ELSE 0
      BY <1>3, <2>1 DEF TakeTurns
    <2>6. chosen'[AccountList[i]] = IF AccountList[i] = a THEN chosen[AccountList[i]] + 1
                                    ELSE chosen[AccountList[i]]
      BY <2>4 DEF Typed
    <2> DEFINE m == k % n
               q == k \div n
               m1 == (k + 1) % n
               q1 == (k + 1) \div n
               c == chosen[AccountList[i]]
               d == chosen'[AccountList[i]]
    <2>7. /\ m \in 0 .. n - 1 /\ q \in Nat
          /\ \/ m + 1 < n /\ m1 = m + 1 /\ q1 = q
             \/ m + 1 = n /\ m1 = 0 /\ q1 = q + 1
      BY <2>2, NextTurn
    <2>8. AccountList[i] = a <=> i = m + 1
      <3>1. m + 1 \in 1 .. n
        BY <2>2, <2>7
      <3> HIDE DEF m, n
      <3> QED BY <2>3, <2>4, <3>1 DEF m
    <2>9. c = (q + IF i <= m THEN 1 ELSE 0) /\ d = IF i = m + 1 THEN c + 1 ELSE c
      BY <2>5, <2>6, <2>8
    <2> HIDE DEF n, k, m, q, m1, q1, c, d
    <2>10. d = q1 + IF i <= m1 THEN 1 ELSE 0
      BY <2>2, <2>7, <2>9
    <2> QED BY <2>10 DEF d, q1, m1
  <1>4. ASSUME NEW r \in Requests, BeginChoice(r) \/ ReadCount(r) \/ ReadPenalty(r)
        PROVE  strategy # "round-robin"
    BY <1>4 DEF BeginChoice, ReadCount, ReadPenalty, At, RequestsOK, StateOK
  <1>5. ASSUME NEW r \in Requests, strategy = "round-robin",
               \/ OverLimit(r) \/ BeginRecord(r) \/ AppendRecord(r) \/ Answered(r) \/ Failed(r)
        PROVE  TakeTurns'
    BY <1>2, <1>5 DEF OverLimit, BeginRecord, AppendRecord, Answered, Failed
  <1>6. CASE strategy = "round-robin" /\ (Tick \/ UNCHANGED vars)
    BY <1>2, <1>6 DEF Tick, vars
  <1> QED BY <1>1, <1>3, <1>4, <1>5, <1>6 DEF Next

LEMMA TurnsInit == Init => TakeTurns
  <1> SUFFICES ASSUME Init, NEW i \in 1 .. Len(AccountList)
               PROVE  chosen[AccountList[i]] = (rrIndex \div Len(AccountList))
                        + IF i <= rrIndex % Len(AccountList) THEN 1 ELSE 0
    BY DEF TakeTurns
  <1>1. chosen[AccountList[i]] = 0 /\ rrIndex = 0
    BY AccountsFinite DEF Init
  <1>2. Len(AccountList) \in Nat /\ Len(AccountList) > 0
    BY AccountsFinite
  <1>3. 0 % Len(AccountList) = 0 /\ 0 \div Len(AccountList) = 0
    <2>1. 0 \in 0 .. Len(AccountList) - 1 /\ 0 = 0 * Len(AccountList) + 0
      BY <1>2
    <2> QED BY <1>2, <2>1, QuotientIsUnique
  <1> QED BY <1>1, <1>3
-----------------------------------------------------------------------------
(* least-used: no account gets further ahead than there are requests. *)

Evenly == even /\ now <= Window /\ strategy = "least-used"

\* A choice is among all accounts, and no account that it has considered has fewer
\* records than the least it has read.
LeastState(q, u) ==
    /\ q.at = "recording" => q.first
    /\ q.at = "counting" =>
         /\ q.from = AccountList
         /\ \A i \in 1 .. q.next - 1 : q.score <= Len(u[q.from[i]].records)

\* A choice that will be a, having read no more than w records of it, if no other
\* account has fewer.
IsChasing(q, a, w) == q.at = "counting" /\ q.next > 1 /\ q.best = a /\ q.score <= w
Chasing(a, w) == {r \in Requests : IsChasing(request[r], a, w)}

\* Once a has more records than b has been chosen, only choices that have read a
\* before then can still choose it.
NotAhead(a, b) ==
    \A w \in Nat :
        (w >= chosen[b] /\ Len(usage[a].records) > w) =>
            chosen[a] + Cardinality(Chasing(a, w)) <= w + Cardinality(Requests)

LeastUsed ==
    Evenly =>
        /\ \A r \in Requests : LeastState(request[r], usage)
        /\ \A a \in Accounts :
             chosen[a] = Len(usage[a].records) + Cardinality(AttemptsOf(a))
        /\ \A a, b \in Accounts : a # b => NotAhead(a, b)

LEMMA ChasingChange ==
    ASSUME RequestsOK, NEW r \in Requests, NEW x, StateOK(x, strategy, now), Moves(r, x),
           NEW a, NEW w
    PROVE  /\ Cardinality(Chasing(a, w)) \in Nat /\ Cardinality(Chasing(a, w)') \in Nat
           /\ Cardinality(Chasing(a, w)') = Cardinality(Chasing(a, w))
                + (IF IsChasing(x, a, w) THEN 1 ELSE 0)
                - (IF IsChasing(request[r], a, w) THEN 1 ELSE 0)
  <1>1. request'[r] = x /\ \A p \in Requests \ {r} : request'[p] = request[p]
    BY OneRequest
  <1>2. /\ Chasing(a, w) \in SUBSET Requests /\ Chasing(a, w)' \in SUBSET Requests
        /\ \A p \in Requests \ {r} : p \in Chasing(a, w) <=> p \in Chasing(a, w)'
        /\ r \in Chasing(a, w) <=> IsChasing(request[r], a, w)
        /\ r \in Chasing(a, w)' <=> IsChasing(x, a, w)
    BY <1>1 DEF Chasing, IsChasing
  <1> QED BY <1>2, RequestsAssumption, OneMoves

\* While nothing has left the window, trimming removes nothing.
LEMMA NothingLeaves ==
    ASSUME NEW u \in Usage, NEW z \in Usage, NEW time \in Times, time <= Window, Drops(u, z, time)
    PROVE  Len(z.records) = Len(u.records)
  <1> DEFINE s == u.records
  <1>1. s \in Seq(Times)
    BY DEF Usage
  <1>2. PICK k \in 0 .. Len(s) : /\ Len(z.records) = Len(s) - k
                                 /\ \A i \in 1 .. k : s[i] < time - Window
    BY DEF Drops
  <1> HIDE DEF s
  <1>3. k = 0
    <2> SUFFICES ASSUME k # 0 PROVE FALSE
      OBVIOUS
    <2>1. 1 \in 1 .. k /\ 1 \in 1 .. Len(s)
      BY <1>1, <1>2
    <2>2. s[1] \in Times /\ s[1] < time - Window
      BY <1>1, <1>2, <2>1
    <2>3. s[1] \in Nat /\ time \in Nat /\ Window \in Nat
      BY <2>2, ConstantsAssumption DEF Times
    <2> QED BY <2>2, <2>3
  <1>4. Len(s) \in Nat
    BY <1>1
  <1> QED BY <1>2, <1>3, <1>4 DEF s

\* A request that does not move keeps what it knows, since records become more.
LEMMA LeastStays ==
    ASSUME Typed, Typed', RequestsOK, NEW r \in Requests, NEW q, q = request[r],
           LeastState(q, usage),
           \A a \in Accounts : Len(usage[a].records) <= Len(usage'[a].records)
    PROVE  LeastState(q, usage')
  <1>1. CASE q.at = "counting"
    <2>1. q \in ChoosingState /\ q.next \in DOMAIN q.from
      BY <1>1, StateAt DEF RequestsOK, StateOK
    <2>2. /\ q.from \in Lists /\ q.next \in Nat /\ q.score \in Int
          /\ q.next \in 1 .. Len(q.from) /\ Len(q.from) \in Nat
      BY <2>1, ListType DEF ChoosingState
    <2>3. ASSUME NEW i \in 1 .. q.next - 1 PROVE q.score <= Len(usage'[q.from[i]].records)
      <3>1. i \in 1 .. Len(q.from)
        BY <2>2
      <3>2. q.from[i] \in Accounts
        BY <2>2, <3>1, ListType
      <3> DEFINE a == q.from[i]
      <3>3. q.score <= Len(usage[a].records) /\ Len(usage[a].records) <= Len(usage'[a].records)
        BY <1>1, <3>2 DEF LeastState
      <3>4. Len(usage[a].records) \in Nat
        BY <3>2, RecordsLength
      <3>5. Len(usage'[a].records) \in Nat
        <4>1. usage'[a].records \in Seq(Times)
          BY <3>2 DEF Typed, Usage
        <4> QED BY <4>1
      <3> DEFINE k == Len(usage[a].records)
                 l == Len(usage'[a].records)
                 s == q.score
      <3>6. k \in Nat /\ l \in Nat /\ s \in Int /\ s <= k /\ k <= l
        BY <2>2, <3>3, <3>4, <3>5
      <3> HIDE DEF k, l, s
      <3>7. s <= l
        BY <3>6
      <3> QED BY <3>7 DEF l, s, a
    <2> QED BY <1>1, <2>3 DEF LeastState
  <1> QED BY <1>1 DEF LeastState

\* A step after which as many records and choices are as before, and no choice of an
\* account is under way that was not.
LEMMA LeastKept ==
    ASSUME Typed, Typed', RequestsOK, LeastUsed, Evenly,
           NEW r \in Requests, NEW x, StateOK(x, strategy, now), Moves(r, x),
           \A a \in Accounts : Len(usage'[a].records) = Len(usage[a].records),
           chosen' = chosen, LeastState(x, usage'),
           \A a \in Accounts : IsAttempt(x, a) <=> IsAttempt(request[r], a),
           \A a \in Accounts, w \in Nat :
               (Len(usage[a].records) > w /\ IsChasing(x, a, w)) => IsChasing(request[r], a, w)
    PROVE  LeastUsed'
  <1>1. request'[r] = x /\ \A p \in Requests \ {r} : request'[p] = request[p]
    BY OneRequest
  <1>2. ASSUME NEW p \in Requests PROVE LeastState(request'[p], usage')
    <2>1. \A a \in Accounts : Len(usage[a].records) <= Len(usage'[a].records)
      BY RecordsLength
    <2>2. CASE p = r
      BY <1>1, <2>2
    <2>3. CASE p # r
      <3>1. LeastState(request[p], usage)
        BY DEF LeastUsed
      <3> QED BY <1>1, <2>1, <2>3, <3>1, LeastStays
    <2> QED BY <2>2, <2>3
  <1>3. ASSUME NEW a \in Accounts
        PROVE  chosen'[a] = Len(usage'[a].records) + Cardinality(AttemptsOf(a)')
    <2>1. Cardinality(AttemptsOf(a)') = Cardinality(AttemptsOf(a))
      BY CountsChange
    <2> QED BY <2>1 DEF LeastUsed
  <1>4. ASSUME NEW a \in Accounts, NEW b \in Accounts, a # b PROVE NotAhead(a, b)'
    <2> SUFFICES ASSUME NEW w \in Nat, w >= chosen'[b], Len(usage'[a].records) > w
                 PROVE  chosen'[a] + Cardinality(Chasing(a, w)') <= w + Cardinality(Requests)
      BY DEF NotAhead
    <2>1. w >= chosen[b] /\ Len(usage[a].records) > w
      OBVIOUS
    <2>2. chosen[a] + Cardinality(Chasing(a, w)) <= w + Cardinality(Requests)
      BY <1>4, <2>1 DEF LeastUsed, NotAhead
    <2>3. /\ Cardinality(Chasing(a, w)) \in Nat /\ Cardinality(Chasing(a, w)') \in Nat
          /\ Cardinality(Chasing(a, w)') <= Cardinality(Chasing(a, w))
      <3>1. IsChasing(x, a, w) => IsChasing(request[r], a, w)
        BY <2>1
      <3> QED BY <3>1, ChasingChange
    <2>4. chosen[a] \in Nat /\ Cardinality(Requests) \in Nat /\ chosen'[a] = chosen[a]
      BY RequestsAssumption, FS_CardinalityType DEF Typed
    <2> DEFINE m == Cardinality(Chasing(a, w)')
               n == Cardinality(Chasing(a, w))
               c == Cardinality(Requests)
    <2> HIDE DEF m, n, c
    <2>5. chosen[a] + m <= w + c
      BY <2>2, <2>3, <2>4 DEF m, n, c
    <2> QED BY <2>4, <2>5 DEF m, c
  <1> QED BY <1>2, <1>3, <1>4 DEF LeastUsed

\* What a choice has read after one more account, and what it may then choose.
LEMMA LeastScore ==
    ASSUME Typed, NEW q \in ChoosingState, q.at = "counting", q.next \in DOMAIN q.from,
           LeastState(q, usage), NEW count \in Nat,
           count = Len(usage[q.from[q.next]].records)
    PROVE  /\ \A i \in 1 .. q.next : ScoreOf(q, count) <= Len(usage[q.from[i]].records)
           /\ \A w \in Nat :
                (Len(usage[BestOf(q, count)].records) > w /\ ScoreOf(q, count) <= w) =>
                    ~Better(q, count) /\ IsChasing(q, BestOf(q, count), w)
  <1>1. /\ q.from \in Lists /\ q.next \in Nat /\ q.score \in Int /\ q.best \in Accounts
        /\ q.next \in 1 .. Len(q.from) /\ Len(q.from) \in Nat
    BY ListType DEF ChoosingState
  <1>2. ScoreOf(q, count) \in Int /\ ScoreOf(q, count) <= count
        /\ (q.next > 1 => ScoreOf(q, count) <= q.score)
    BY <1>1 DEF ScoreOf, Better
  <1>3. ASSUME NEW i \in 1 .. q.next
        PROVE  ScoreOf(q, count) <= Len(usage[q.from[i]].records)
    <2>1. CASE i = q.next
      BY <1>2, <2>1
    <2>2. CASE i # q.next
      <3>1. i \in 1 .. q.next - 1 /\ q.next > 1 /\ i \in 1 .. Len(q.from)
        BY <1>1, <2>2
      <3>2. q.from[i] \in Accounts
        BY <1>1, <3>1, ListType
      <3> DEFINE k == Len(usage[q.from[i]].records)
                 s == ScoreOf(q, count)
      <3>3. k \in Nat /\ q.score <= k
        BY <3>1, <3>2, RecordsLength DEF LeastState
      <3>4. s \in Int /\ s <= q.score
        BY <1>2, <3>1
      <3> HIDE DEF k, s
      <3>5. s <= k
        BY <1>1, <3>3, <3>4
      <3> QED BY <3>5 DEF s, k
    <2> QED BY <2>1, <2>2
  <1>4. ASSUME NEW w \in Nat, Len(usage[BestOf(q, count)].records) > w, ScoreOf(q, count) <= w
        PROVE  ~Better(q, count) /\ IsChasing(q, BestOf(q, count), w)
    <2>1. ~Better(q, count)
      <3> SUFFICES ASSUME Better(q, count) PROVE FALSE
        OBVIOUS
      <3>1. BestOf(q, count) = q.from[q.next] /\ ScoreOf(q, count) = count
        BY DEF BestOf, ScoreOf
      <3>2. count > w /\ count <= w
        BY <1>4, <3>1
      <3> QED BY <3>2
    <2>2. BestOf(q, count) = q.best /\ ScoreOf(q, count) = q.score /\ q.next > 1
      BY <1>1, <2>1 DEF BestOf, ScoreOf, Better
    <2> QED BY <1>4, <2>1, <2>2 DEF IsChasing
  <1> QED BY <1>3, <1>4

\* A request chooses an account, having read no more records of it than any has.
LEMMA LeastChosen ==
    ASSUME Typed, Typed', RequestsOK, LeastUsed, Evenly,
           NEW r \in Requests, request[r].at = "counting",
           NEW d \in Accounts, NEW s \in Int,
           \A b \in Accounts : s <= Len(usage[b].records),
           \A w \in Nat : (Len(usage[d].records) > w /\ s <= w) => IsChasing(request[r], d, w),
           NEW x, x.at = "selected", x.account = d, StateOK(x, strategy, now), Moves(r, x),
           \A a \in Accounts : Len(usage'[a].records) = Len(usage[a].records),
           \A a \in Accounts : a # d => chosen'[a] = chosen[a],
           chosen'[d] = chosen[d] + 1
    PROVE  LeastUsed'
  <1> DEFINE c == Cardinality(Requests)
  <1>1. request'[r] = x /\ \A p \in Requests \ {r} : request'[p] = request[p]
    BY OneRequest
  <1>2. c \in Nat
    BY RequestsAssumption, FS_CardinalityType
  <1>3. ASSUME NEW a \in Accounts
        PROVE  /\ chosen[a] \in Nat /\ chosen'[a] \in Nat /\ chosen[a] <= chosen'[a]
               /\ a = d => chosen'[a] = chosen[a] + 1
    BY DEF Typed
  <1> HIDE DEF c
  <1>4. ASSUME NEW p \in Requests PROVE LeastState(request'[p], usage')
    <2>1. \A a \in Accounts : Len(usage[a].records) <= Len(usage'[a].records)
      BY RecordsLength
    <2>2. CASE p = r
      BY <1>1, <2>2 DEF LeastState
    <2>3. CASE p # r
      <3>1. LeastState(request[p], usage)
        BY DEF LeastUsed
      <3> QED BY <1>1, <2>1, <2>3, <3>1, LeastStays
    <2> QED BY <2>2, <2>3
  <1>5. ASSUME NEW a \in Accounts
        PROVE  chosen'[a] = Len(usage'[a].records) + Cardinality(AttemptsOf(a)')
    <2>1. IsAttempt(x, a) <=> a = d
      BY DEF IsAttempt
    <2>2. ~IsAttempt(request[r], a)
      BY DEF IsAttempt
    <2> DEFINE m == Cardinality(AttemptsOf(a)')
               n == Cardinality(AttemptsOf(a))
               l == Len(usage[a].records)
               k == chosen[a]
               kk == chosen'[a]
    <2>3. m \in Nat /\ n \in Nat /\ m = n + IF a = d THEN 1 ELSE 0
      <3>1. m = n + (IF IsAttempt(x, a) THEN 1 ELSE 0) - (IF IsAttempt(request[r], a) THEN 1 ELSE 0)
            /\ m \in Nat /\ n \in Nat
        BY CountsChange
      <3> HIDE DEF m, n
      <3> QED BY <2>1, <2>2, <3>1
    <2>4. l \in Nat /\ k = l + n /\ kk = k + IF a = d THEN 1 ELSE 0
      BY <1>3, RecordsLength DEF LeastUsed
    <2> HIDE DEF m, n, l, k, kk
    <2>5. kk = l + m
      BY <2>3, <2>4
    <2> QED BY <2>5 DEF kk, l, m
  <1>6. ASSUME NEW a \in Accounts, NEW b \in Accounts, a # b PROVE NotAhead(a, b)'
    <2> SUFFICES ASSUME NEW w \in Nat, w >= chosen'[b], Len(usage'[a].records) > w
                 PROVE  chosen'[a] + Cardinality(Chasing(a, w)') <= w + Cardinality(Requests)
      BY DEF NotAhead
    <2>1. w >= chosen[b] /\ Len(usage[a].records) > w
      BY <1>3
    <2> DEFINE m == Cardinality(Chasing(a, w)')
               n == Cardinality(Chasing(a, w))
               k == chosen[a]
               kk == chosen'[a]
    <2>2. k + n <= w + c
      BY <1>6, <2>1 DEF LeastUsed, NotAhead, c
    <2>3. m \in Nat /\ n \in Nat /\ m = n - IF IsChasing(request[r], a, w) THEN 1 ELSE 0
      <3>1. ~IsChasing(x, a, w)
        BY DEF IsChasing
      <3> QED BY <3>1, ChasingChange
    <2>4. a = d => IsChasing(request[r], a, w)
      <3> SUFFICES ASSUME a = d PROVE IsChasing(request[r], a, w)
        OBVIOUS
      <3> DEFINE l == Len(usage[b].records)
                 o == Cardinality(AttemptsOf(b))
      <3>1. s <= l /\ l \in Nat /\ chosen[b] = l + o
        BY RecordsLength DEF LeastUsed
      <3>2. o \in Nat
        <4>1. \A e \in Accounts : ~IsAttempt(request[r], e)
          BY DEF IsAttempt
        <4> QED BY CountsChange
      <3> HIDE DEF l, o
      <3>3. s <= w
        BY <2>1, <3>1, <3>2
      <3> QED BY <2>1, <3>3
    <2>5. k \in Nat /\ kk = k + IF a = d THEN 1 ELSE 0
      BY <1>3
    <2> HIDE DEF m, n, k, kk
    <2>6. kk + m <= w + c
      <3>1. CASE a = d
        BY <1>2, <2>2, <2>3, <2>4, <2>5, <3>1
      <3>2. CASE a # d
        BY <1>2, <2>2, <2>3, <2>5, <3>2
      <3> QED BY <3>1, <3>2
    <2> QED BY <2>6 DEF m, kk, c
  <1> QED BY <1>4, <1>5, <1>6 DEF LeastUsed

\* The record of a request that was forwarded is appended.
LEMMA LeastRecorded ==
    ASSUME Typed, Typed', RequestsOK, LeastUsed, Evenly, NEW r \in Requests,
           NEW q, q = request[r], q.at = "recording", q.first, q.account \in Accounts,
           NEW x, x.at = "sent", StateOK(x, strategy, now), Moves(r, x),
           \A a \in Accounts : a # q.account => Len(usage'[a].records) = Len(usage[a].records),
           Len(usage'[q.account].records) = Len(usage[q.account].records) + 1,
           chosen' = chosen
    PROVE  LeastUsed'
  <1> DEFINE d == q.account
             c == Cardinality(Requests)
  <1>1. request'[r] = x /\ \A p \in Requests \ {r} : request'[p] = request[p]
    BY OneRequest
  <1>2. c \in Nat
    BY RequestsAssumption, FS_CardinalityType
  <1>3. \A a \in Accounts : chosen[a] \in Nat /\ Len(usage[a].records) \in Nat
    BY RecordsLength
  <1>7. ASSUME NEW a \in Accounts
        PROVE  Len(usage'[a].records) = Len(usage[a].records) + IF a = d THEN 1 ELSE 0
    <2>1. CASE a = d
      BY <2>1
    <2>2. CASE a # d
      <3> DEFINE l == Len(usage[a].records)
      <3>1. l \in Nat /\ Len(usage'[a].records) = l
        BY <1>3, <2>2
      <3> HIDE DEF l
      <3>2. Len(usage'[a].records) = l + 0
        BY <3>1
      <3> QED BY <2>2, <3>2 DEF l
    <2> QED BY <2>1, <2>2
  <1>4. ASSUME NEW p \in Requests PROVE LeastState(request'[p], usage')
    <2>1. ASSUME NEW a \in Accounts
          PROVE  Len(usage[a].records) <= Len(usage'[a].records)
      <3>1. /\ Len(usage[a].records) \in Nat
            /\ \/ Len(usage'[a].records) = Len(usage[a].records)
               \/ Len(usage'[a].records) = Len(usage[a].records) + 1
        BY <1>3
      <3> QED BY <3>1
    <2>2. CASE p = r
      BY <1>1, <2>2 DEF LeastState
    <2>3. CASE p # r
      <3>1. LeastState(request[p], usage)
        BY DEF LeastUsed
      <3> QED BY <1>1, <2>1, <2>3, <3>1, LeastStays
    <2> QED BY <2>2, <2>3
  <1>5. ASSUME NEW a \in Accounts
        PROVE  chosen'[a] = Len(usage'[a].records) + Cardinality(AttemptsOf(a)')
    <2>1. ~IsAttempt(x, a)
      BY DEF IsAttempt
    <2>2. IsAttempt(q, a) <=> a = d
      BY DEF IsAttempt
    <2> DEFINE m == Cardinality(AttemptsOf(a)')
               n == Cardinality(AttemptsOf(a))
               l == Len(usage[a].records)
               k == Len(usage'[a].records)
    <2>3. m \in Nat /\ n \in Nat /\ m = n - IF a = d THEN 1 ELSE 0
      BY <2>1, <2>2, CountsChange
    <2>4. l \in Nat /\ chosen[a] = l + n
      BY <1>3 DEF LeastUsed
    <2>5. k = l + IF a = d THEN 1 ELSE 0
      BY <1>7
    <2> HIDE DEF m, n, l, k, d
    <2>6. chosen[a] = k + m
      BY <2>3, <2>4, <2>5
    <2> QED BY <2>6 DEF k, m
  <1>6. ASSUME NEW a \in Accounts, NEW b \in Accounts, a # b PROVE NotAhead(a, b)'
    <2> SUFFICES ASSUME NEW w \in Nat, w >= chosen'[b], Len(usage'[a].records) > w
                 PROVE  chosen'[a] + Cardinality(Chasing(a, w)') <= w + Cardinality(Requests)
      BY DEF NotAhead
    <2> DEFINE m == Cardinality(Chasing(a, w)')
               n == Cardinality(Chasing(a, w))
               o == Cardinality(AttemptsOf(a))
               l == Len(usage[a].records)
               k == Len(usage'[a].records)
    <2>1. m \in Nat /\ n \in Nat /\ m = n
      BY ChasingChange DEF IsChasing
    <2>2. l \in Nat /\ chosen[a] = l + o /\ k = l + IF a = d THEN 1 ELSE 0
      <3>1. l \in Nat /\ chosen[a] = l + o
        BY <1>3 DEF LeastUsed
      <3>2. k = l + IF a = d THEN 1 ELSE 0
        BY <1>7
      <3> HIDE DEF l, k, o, d
      <3> QED BY <3>1, <3>2
    <2>3. CASE l > w
      <3>1. chosen[a] + n <= w + c
        BY <1>6, <2>3 DEF LeastUsed, NotAhead
      <3> QED BY <2>1, <3>1
    <2>4. CASE ~(l > w)
      <3>1. l = w
        <4>1. k > w
          OBVIOUS
        <4> HIDE DEF l, k, d
        <4> QED BY <2>2, <2>4, <4>1
      <3>2. o + n <= c
        <4>1. /\ AttemptsOf(a) \in SUBSET Requests /\ Chasing(a, w) \in SUBSET Requests
              /\ AttemptsOf(a) \cap Chasing(a, w) = {}
          BY DEF AttemptsOf, Chasing, IsAttempt, IsChasing
        <4> DEFINE A == AttemptsOf(a)
                   B == Chasing(a, w)
        <4> HIDE DEF A, B
        <4>2. A \in SUBSET Requests /\ B \in SUBSET Requests /\ A \cap B = {}
          BY <4>1 DEF A, B
        <4>3. IsFiniteSet(A) /\ IsFiniteSet(B)
          BY <4>2, RequestsAssumption, FS_Subset
        <4>4. /\ IsFiniteSet(A \cup B)
              /\ Cardinality(A \cup B)
                   = Cardinality(A) + Cardinality(B) - Cardinality(A \cap B)
          BY <4>3, FS_Union
        <4>5. Cardinality(A \cap B) = 0
          BY <4>2, FS_EmptySet
        <4>6. A \cup B \subseteq Requests
          BY <4>2
        <4>7. Cardinality(A \cup B) <= Cardinality(Requests)
          BY <4>6, RequestsAssumption, FS_Subset
        <4>8. Cardinality(A) \in Nat /\ Cardinality(B) \in Nat
          BY <4>3, FS_CardinalityType
        <4>9. Cardinality(A) + Cardinality(B) <= Cardinality(Requests)
          BY <4>4, <4>5, <4>7, <4>8
        <4> QED BY <4>9 DEF A, B
      <3>3. o \in Nat
        BY CountsChange
      <3> HIDE DEF l, o, n, c, m
      <3>4. chosen[a] + m <= w + c
        BY <1>2, <2>1, <2>2, <3>1, <3>2, <3>3
      <3> QED BY <3>4 DEF m, c
    <2> QED BY <2>3, <2>4
  <1> QED BY <1>4, <1>5, <1>6 DEF LeastUsed

\* A step that moves no request.
LEMMA LeastSame ==
    ASSUME LeastUsed, UNCHANGED <<usage, request, chosen>>, Evenly' => Evenly
    PROVE  LeastUsed'
  BY DEF LeastUsed, NotAhead, Chasing, AttemptsOf

\* A choice begins, or its first exchange is about to be recorded, or has ended well.
LEMMA LeastBegins ==
    ASSUME Typed, Typed', RequestsOK, LeastUsed, Evenly, Evenly', NEW r \in Requests,
           BeginChoice(r) \/ BeginRecord(r) \/ Answered(r)
    PROVE  LeastUsed'
  <1>1. CASE BeginChoice(r)
    <2> PICK from \in Lists :
          LET y == Choosing(from, "counting")
          IN /\ request[r].at = "idle" /\ even' = (even /\ from = AccountList)
             /\ Moves(r, y) /\ StateOK(y, strategy, now) /\ y \in ChoosingState
             /\ y.from = from /\ y.next = 1 /\ y.at = "counting"
             /\ UNCHANGED <<usage, chosen>>
      BY <1>1, ChoiceBegins
    <2> PICK x : x = Choosing(from, "counting")
      OBVIOUS
    <2>1. from = AccountList
      BY DEF Evenly
    <2>2. LeastState(x, usage')
      BY <2>1 DEF LeastState
    <2>3. /\ \A a \in Accounts : IsAttempt(x, a) <=> IsAttempt(request[r], a)
          /\ \A a \in Accounts, w \in Nat : ~IsChasing(x, a, w)
      BY DEF IsAttempt, IsChasing
    <2> QED BY <2>2, <2>3, LeastKept
  <1>2. CASE BeginRecord(r)
    <2> DEFINE x == Recording(request[r].account, TRUE, FALSE)
    <2>1. /\ At(r, "selected") /\ Moves(r, x) /\ StateOK(x, strategy, now)
          /\ UNCHANGED <<usage, chosen>>
      <3>1. BeginRecord(r) => /\ At(r, "selected") /\ Moves(r, x)
                              /\ UNCHANGED <<usage, chosen>>
        BY DEF BeginRecord, Moves
      <3> QED BY <1>2, <3>1, RecordBegins
    <2>2. /\ x.at = "recording" /\ x.account = request[r].account /\ x.first
      BY DEF Recording
    <2> HIDE DEF x
    <2>3. LeastState(x, usage')
      BY <2>2 DEF LeastState
    <2>4. /\ \A a \in Accounts : IsAttempt(x, a) <=> IsAttempt(request[r], a)
          /\ \A a \in Accounts, w \in Nat : ~IsChasing(x, a, w)
      BY <2>1, <2>2 DEF IsAttempt, IsChasing, At
    <2> QED BY <2>1, <2>3, <2>4, LeastKept
  <1>3. CASE Answered(r)
    <2>1. /\ At(r, "sent") /\ Moves(r, Idle) /\ StateOK(Idle, strategy, now)
          /\ UNCHANGED <<usage, chosen>>
      BY <1>3 DEF Answered, Moves, Ends, StateOK, RequestState, Idle
    <2>2. LeastState(Idle, usage')
      BY DEF LeastState, Idle
    <2>3. /\ \A a \in Accounts : IsAttempt(Idle, a) <=> IsAttempt(request[r], a)
          /\ \A a \in Accounts, w \in Nat : ~IsChasing(Idle, a, w)
      BY <2>1 DEF IsAttempt, IsChasing, At, Idle
    <2> QED BY <2>1, <2>2, <2>3, LeastKept
  <1> QED BY <1>1, <1>2, <1>3

\* One more account has been counted.
LEMMA LeastCounts ==
    ASSUME Typed, Typed', RequestsOK, LeastUsed, Evenly, NEW r \in Requests, ReadCount(r)
    PROVE  LeastUsed'
  <1> DEFINE q == request[r]
             e == q.from[q.next]
             count == WindowRequestCount(usage[e], now)
  <1>1. /\ q \in ChoosingState /\ q.next \in DOMAIN q.from /\ q.at = "counting"
        /\ e \in Accounts /\ count \in Nat
        /\ usage[e] \in Usage /\ Trimmed(usage[e], now) \in Usage
        /\ Drops(usage[e], Trimmed(usage[e], now), now)
        /\ usage' = [usage EXCEPT ![e] = Trimmed(usage[e], now)]
        /\ UNCHANGED <<now, strategy>>
        /\ Consider(r, count)
    BY CountIsRead DEF Evenly
  <1>2. now \in Times /\ now <= Window
    BY DEF Typed, Evenly
  <1>3. Len(Trimmed(usage[e], now).records) = Len(usage[e].records)
    BY <1>1, <1>2, NothingLeaves
  <1>4. count = Len(usage[e].records)
    BY <1>3 DEF WindowRequestCount
  <1>5. ASSUME NEW a \in Accounts PROVE Len(usage'[a].records) = Len(usage[a].records)
    <2>1. usage'[a] = IF a = e THEN Trimmed(usage[e], now) ELSE usage[a]
      BY <1>1 DEF Typed
    <2> HIDE DEF e
    <2> QED BY <1>3, <2>1
  <1>6. LeastState(q, usage)
    BY DEF LeastUsed
  <1> HIDE DEF e, count
  <1> DEFINE g == GoesOn(q, count)
             c == Choice(q, count)
             s == ScoreOf(q, count)
             d == BestOf(q, count)
  <1>13. count \in Int
    BY <1>1
  <1>7. \/ /\ q.next < Len(q.from)
           /\ Moves(r, g) /\ StateOK(g, strategy, now) /\ chosen' = chosen
        \/ /\ ~(q.next < Len(q.from))
           /\ Moves(r, c) /\ StateOK(c, strategy, now)
           /\ chosen' = [chosen EXCEPT ![d] = @ + 1]
    BY <1>1, <1>13, ConsiderStep
  <1>8. /\ d \in Accounts /\ s \in Int
        /\ g.at = "counting" /\ g.next = q.next + 1 /\ g.best = d /\ g.score = s
        /\ g.from = q.from /\ c.at = "selected" /\ c.account = d
    BY <1>1, <1>13, ConsiderTypes
  <1>9. /\ \A i \in 1 .. q.next : s <= Len(usage[q.from[i]].records)
        /\ \A w \in Nat : (Len(usage[d].records) > w /\ s <= w) => IsChasing(q, d, w)
    BY <1>1, <1>4, <1>6, LeastScore DEF e
  <1>10. q.from = AccountList /\ q.from \in Lists /\ q.next \in 1 .. Len(q.from)
         /\ Len(q.from) \in Nat
    BY <1>1, <1>6, ListType DEF LeastState, ChoosingState
  <1> HIDE DEF g, c, s, d
  <1>11. CASE q.next < Len(q.from) /\ Moves(r, g) /\ StateOK(g, strategy, now) /\ chosen' = chosen
    <2>1. LeastState(g, usage')
      <3> SUFFICES ASSUME NEW i \in 1 .. q.next PROVE s <= Len(usage'[q.from[i]].records)
        BY <1>8, <1>10 DEF LeastState
      <3>1. q.from[i] \in Accounts
        BY <1>10, ListType
      <3> QED BY <1>5, <1>9, <3>1
    <2>2. \A a \in Accounts : IsAttempt(g, a) <=> IsAttempt(q, a)
      BY <1>1, <1>8 DEF IsAttempt
    <2>3. ASSUME NEW a \in Accounts, NEW w \in Nat, Len(usage[a].records) > w,
                 IsChasing(g, a, w)
          PROVE  IsChasing(q, a, w)
      <3>1. a = d /\ s <= w
        BY <1>8, <2>3 DEF IsChasing
      <3> QED BY <1>9, <2>3, <3>1
    <2> QED BY <1>5, <1>11, <2>1, <2>2, <2>3, LeastKept
  <1>12. CASE /\ ~(q.next < Len(q.from))
              /\ Moves(r, c) /\ StateOK(c, strategy, now)
              /\ chosen' = [chosen EXCEPT ![d] = @ + 1]
    <2>1. ASSUME NEW b \in Accounts PROVE s <= Len(usage[b].records)
      <3> PICK i \in 1 .. Len(AccountList) : AccountList[i] = b
        BY AccountsFinite
      <3>1. i \in 1 .. q.next /\ q.from[i] = b
        BY <1>10, <1>12
      <3> QED BY <1>9, <3>1
    <2>2. /\ \A a \in Accounts : a # d => chosen'[a] = chosen[a]
          /\ chosen'[d] = chosen[d] + 1
      BY <1>8, <1>12 DEF Typed
    <2> QED BY <1>1, <1>5, <1>8, <1>9, <1>12, <2>1, <2>2, LeastChosen
  <1> QED BY <1>7, <1>11, <1>12

LEMMA LeastAppends ==
    ASSUME Typed, Typed', RequestsOK, LeastUsed, Evenly, NEW r \in Requests, AppendRecord(r)
    PROVE  LeastUsed'
  <1> DEFINE q == request[r]
             d == q.account
             u == usage[d]
             v == WithRecord(u, q.stamp, q.is429)
             z == Recorded(u, q.stamp, q.is429)
  <1>1. q.at = "recording" /\ q.first
    BY DEF AppendRecord, At, LeastUsed, LeastState
  <1>2. /\ q \in RecordingState /\ q.stamp \in now - MaxDelay .. now
        /\ u \in Usage /\ v \in Usage /\ z \in Usage /\ Drops(v, z, q.stamp)
        /\ usage' = [usage EXCEPT ![d] = z]
        /\ Moves(r, [at |-> "sent", account |-> d])
        /\ StateOK([at |-> "sent", account |-> d], strategy, now)
        /\ chosen' = chosen
    BY <1>1, RecordIsAppended
  <1>3. d \in Accounts /\ q.stamp \in Times
    BY <1>2 DEF RecordingState
  <1>4. q.stamp <= Window
    <2>1. now \in Int /\ now <= Window /\ Window \in Nat /\ q.stamp \in Int /\ q.stamp <= now
      BY <1>2, <1>3, ConstantsAssumption, TimesAreIntegers DEF Typed, Evenly
    <2> QED BY <2>1
  <1>5. Len(z.records) = Len(v.records)
    BY <1>2, <1>3, <1>4, NothingLeaves
  <1>6. Len(v.records) = Len(u.records) + 1
    <2>1. v.records = Append(u.records, q.stamp) /\ u.records \in Seq(Times)
      BY <1>2 DEF WithRecord, Usage
    <2> PICK s \in Seq(Times), y \in Times : s = u.records /\ y = q.stamp
      BY <1>3, <2>1
    <2>2. Len(Append(s, y)) = Len(s) + 1
      OBVIOUS
    <2> QED BY <2>1, <2>2
  <1>7. \A a \in Accounts : usage'[a] = IF a = d THEN z ELSE usage[a]
    BY <1>2 DEF Typed
  <1> DEFINE x == [at |-> "sent", account |-> d]
  <1>8. x.at = "sent" /\ Moves(r, x) /\ StateOK(x, strategy, now)
    BY <1>2
  <1> HIDE DEF x, v, z
  <1>9. /\ \A a \in Accounts : a # d => Len(usage'[a].records) = Len(usage[a].records)
        /\ Len(usage'[d].records) = Len(usage[d].records) + 1
    BY <1>3, <1>5, <1>6, <1>7
  <1> QED BY <1>1, <1>2, <1>3, <1>8, <1>9, LeastRecorded

LEMMA LeastStep ==
    ASSUME Typed, Typed', RequestsOK, LeastUsed, [Next]_vars
    PROVE  LeastUsed'
  <1> SUFFICES ASSUME Evenly' PROVE LeastUsed'
    BY DEF LeastUsed
  <1>1. CASE Tick \/ UNCHANGED vars
    <2>1. now \in Int /\ (Tick => now' = now + 1) /\ Window \in Nat
      BY ConstantsAssumption, TimesAreIntegers DEF Typed, Tick
    <2>2. Evenly
      <3>1. even' = even /\ strategy' = strategy /\ now' <= Window
        BY <1>1 DEF Tick, vars, Evenly
      <3>2. now' = now + 1 \/ now' = now
        BY <1>1, <2>1 DEF vars
      <3>3. now <= Window
        BY <2>1, <3>1, <3>2
      <3> QED BY <3>1, <3>3 DEF Evenly
    <2> QED BY <1>1, <2>2, LeastSame DEF Tick, vars
  <1>2. ASSUME NEW r \in Requests,
               BeginChoice(r) \/ BeginRecord(r) \/ Answered(r) \/ ReadCount(r) \/ AppendRecord(r)
        PROVE  LeastUsed'
    <2>1. Evenly
      BY <1>2 DEF Evenly, BeginChoice, MayChooseFrom, BeginRecord, Answered, ReadCount,
                  AppendRecord
    <2> QED BY <1>2, <2>1, LeastBegins, LeastCounts, LeastAppends
  <1>3. ASSUME NEW r \in Requests, SelectRoundRobin(r) \/ SelectByPriority(r) PROVE FALSE
    BY <1>3 DEF SelectRoundRobin, SelectByPriority, Evenly
  <1>4. ASSUME NEW r \in Requests, OverLimit(r) \/ Failed(r) PROVE FALSE
    BY <1>4 DEF OverLimit, Failed, Evenly
  <1>5. ASSUME NEW r \in Requests, ReadPenalty(r) PROVE FALSE
    BY <1>5 DEF ReadPenalty, At, RequestsOK, StateOK, Evenly
  <1> QED BY <1>1, <1>2, <1>3, <1>4, <1>5 DEF Next

LEMMA LeastInit == Init => LeastUsed
  <1> SUFFICES ASSUME Init PROVE LeastUsed
    OBVIOUS
  <1>1. \A r \in Requests : LeastState(request[r], usage)
    BY DEF Init, Idle, LeastState
  <1>2. ASSUME NEW a \in Accounts
        PROVE  chosen[a] = Len(usage[a].records) + Cardinality(AttemptsOf(a))
    <2>1. AttemptsOf(a) = {}
      BY DEF Init, AttemptsOf, IsAttempt, Idle
    <2>2. usage[a].records = << >> /\ chosen[a] = 0
      BY DEF Init, NoUsage
    <2> QED BY <2>1, <2>2, FS_EmptySet
  <1>3. ASSUME NEW a \in Accounts, NEW b \in Accounts PROVE NotAhead(a, b)
    <2>1. Len(usage[a].records) = 0
      BY DEF Init, NoUsage
    <2> QED BY <2>1 DEF NotAhead
  <1> QED BY <1>1, <1>2, <1>3 DEF LeastUsed
-----------------------------------------------------------------------------
\* In turn the chosen differ by one at most; of the least used an account is ahead by
\* the requests that wait to be recorded or chose on what they had read.
LEMMA EvenImplies == Typed /\ TakeTurns /\ LeastUsed => EvenlySpread
  <1> SUFFICES ASSUME Typed, TakeTurns, LeastUsed, even, now <= Window,
                      NEW a \in Accounts, NEW b \in Accounts
               PROVE  /\ strategy = "round-robin" => chosen[a] - chosen[b] <= 1
                      /\ strategy = "least-used" => chosen[a] - chosen[b] <= Cardinality(Requests)
    BY DEF EvenlySpread
  <1>1. chosen[a] \in Nat /\ chosen[b] \in Nat
    BY DEF Typed
  <1>2. ASSUME strategy = "round-robin" PROVE chosen[a] - chosen[b] <= 1
    <2> PICK i \in 1 .. Len(AccountList) : AccountList[i] = a
      BY AccountsFinite
    <2> PICK j \in 1 .. Len(AccountList) : AccountList[j] = b
      BY AccountsFinite
    <2> DEFINE k == (rrIndex \div Len(AccountList))
               m == rrIndex % Len(AccountList)
    <2>1. k \in Int
      <3>1. Len(AccountList) \in Nat /\ Len(AccountList) > 0 /\ rrIndex \in Nat
        BY AccountsFinite DEF Typed
      <3> QED BY <3>1, NextTurn
    <2>2. /\ chosen[a] = k + IF i <= m THEN 1 ELSE 0
          /\ chosen[b] = k + IF j <= m THEN 1 ELSE 0
      BY <1>2 DEF TakeTurns
    <2> HIDE DEF k, m
    <2> QED BY <2>1, <2>2
  <1>3. ASSUME strategy = "least-used" PROVE chosen[a] - chosen[b] <= Cardinality(Requests)
    <2> DEFINE c == Cardinality(Requests)
               w == chosen[b]
               k == chosen[a]
               l == Len(usage[a].records)
               n == Cardinality(Chasing(a, w))
               o == Cardinality(AttemptsOf(a))
    <2>1. c \in Nat /\ n \in Nat /\ o \in Nat /\ o <= c
      <3>1. Chasing(a, w) \in SUBSET Requests /\ AttemptsOf(a) \in SUBSET Requests
        BY DEF Chasing, AttemptsOf
      <3> QED BY <3>1, RequestsAssumption, FS_Subset, FS_CardinalityType
    <2>2. l \in Nat /\ k = l + o
      BY <1>3, RecordsLength DEF LeastUsed, Evenly
    <2>3. (l > w /\ a # b) => k + n <= w + c
      BY <1>1, <1>3 DEF LeastUsed, Evenly, NotAhead
    <2>4. w \in Nat /\ k \in Nat /\ (a = b => k = w)
      BY <1>1
    <2> HIDE DEF c, w, k, l, n, o
    <2>5. k - w <= c
      BY <2>1, <2>2, <2>3, <2>4
    <2> QED BY <2>5 DEF k, w, c
  <1> QED BY <1>2, <1>3
-----------------------------------------------------------------------------
(* The theorems, from the invariants together. *)

IInv == /\ Typed /\ RequestsOK
        /\ WindowKept /\ RecordsBounded
        /\ SmartKept /\ TakeTurns /\ LeastUsed

LEMMA Invariants == Spec => []IInv
  <1>1. Init => IInv
    BY TypedInit, WindowInit, BoundedInit, SmartInit, TurnsInit, LeastInit DEF IInv
  <1>2. IInv /\ [Next]_vars => IInv'
    <2> SUFFICES ASSUME IInv, [Next]_vars PROVE IInv'
      OBVIOUS
    <2>1. Typed' /\ RequestsOK'
      BY TypedStep DEF IInv
    <2>2. WindowKept' /\ TakeTurns'
      BY WindowStep, TurnsStep DEF IInv
    <2>3. RecordsBounded' /\ LeastUsed'
      BY <2>1, BoundedStep, LeastStep DEF IInv
    <2>4. SmartKept'
      BY SmartStep DEF IInv
    <2> QED BY <2>1, <2>2, <2>3, <2>4 DEF IInv
  <1> QED BY <1>1, <1>2, PTL DEF Spec

\* The variables have their types; in particular a request considers an account of
\* those it chooses from, and no record waits longer than MaxDelay for the lock.
THEOREM TypeCorrect == Spec => []TypeOK
  <1>1. IInv => TypeOK
    BY TypesImply DEF IInv
  <1> QED BY <1>1, Invariants, PTL

\* The count that the strategies go by is of the records in the window, whatever the
\* order in which requests get the lock to append them.
THEOREM WindowIsCounted == Spec => []CountIsWindow
  <1>1. IInv => CountIsWindow
    BY WindowImplies DEF IInv
  <1> QED BY <1>1, Invariants, PTL

\* The requests that choose at once are spread over the accounts, under "round-robin"
\* evenly and under "least-used" up to as many as are in flight.
THEOREM RequestsSpreadEvenly == Spec => []EvenlySpread
  <1>1. IInv => EvenlySpread
    BY EvenImplies DEF IInv
  <1> QED BY <1>1, Invariants, PTL

\* Under "smart" an account with a penalty is preferred to one without only if the
\* records of the other outweigh what is left of the penalty and the difference of
\* the priorities, whatever others record and choose while the choice is made.
THEOREM RefusedIsAvoided == Spec => []AvoidsRefused
  <1>1. IInv => AvoidsRefused
    BY SmartImplies DEF IInv
  <1> QED BY <1>1, Invariants, PTL
=============================================================================
