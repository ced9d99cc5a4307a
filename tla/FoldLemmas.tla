----------------------------- MODULE FoldLemmas -----------------------------
(***************************************************************************)
(* Facts about SumFunctionOnSet, the fold of Functions with which          *)
(* MintWindow subtracts the slots that advance clears and with which its   *)
(* properties add up the ring.  The fold removes one chosen element at a   *)
(* time; the lemmas show that it does not matter which one, and from there *)
(* that a sum splits, ignores zeros and follows an update of one element.  *)
(* Further lemmas are about counting the goroutines at given steps, and    *)
(* about the elements that Select keeps of a sequence, and about           *)
(* sequences without repetition.                                           *)
(***************************************************************************)
EXTENDS Integers, Sequences, FiniteSets, Functions, Selection,
        FiniteSetTheorems, WellFoundedInduction, TLAPS

Pick(s) == CHOOSE x \in s : TRUE

\* g is the table the fold builds for the subsets of S.
Table(f, S, g) ==
  g = [s \in SUBSET S |-> IF s = {} THEN 0 ELSE f[Pick(s)] + g[s \ {Pick(s)}]]

\* The same, subset by subset.
Follows(f, S, g) ==
  \A s \in SUBSET S :
    g[s] = IF s = {} THEN 0 ELSE f[Pick(s)] + g[s \ {Pick(s)}]

TableOf(f, S) == CHOOSE g : Table(f, S, g)

-----------------------------------------------------------------------------
\* A set of subsets of a finite set has a member that is minimal by inclusion.
LEMMA MinimalSubset ==
  ASSUME NEW S, IsFiniteSet(S), NEW B, B \subseteq SUBSET S, B # {}
  PROVE  \E T \in B : \A U \in B : U \subseteq T => U = T
<1> DEFINE F == FiniteSubsetsOf(S)
           R == StrictSubsetOrdering(S)
<1>1. IsWellFoundedOn(R, F)
  BY FS_StrictSubsetOrderingWellFounded, Zenon
<1>2. B \subseteq F
  BY FS_Subset DEF FiniteSubsetsOf
<1>3. \A T \in B : \A U \in B : U \subseteq T /\ U # T => <<U, T>> \in R
  BY DEF StrictSubsetOrdering
<1> HIDE DEF F, R
<1>4. \E T \in B : \A U \in B : ~(<<U, T>> \in R)
  BY <1>1, <1>2, WFMin, Zenon
<1> QED BY <1>3, <1>4

\* Induction over the subsets of a finite set, with the property as a set: if
\* a subset is in G as soon as its strict subsets are, every subset is.
LEMMA SubsetInduction ==
  ASSUME NEW S, IsFiniteSet(S), NEW G,
         \A T \in SUBSET S : (\A U \in SUBSET T : U # T => U \in G) => T \in G
  PROVE  \A T \in SUBSET S : T \in G
<1> DEFINE Bad == (SUBSET S) \ G
<1>1. SUFFICES ASSUME Bad # {} PROVE FALSE
  OBVIOUS
<1>2. Bad \subseteq SUBSET S
  OBVIOUS
<1>3. PICK T \in Bad : \A U \in Bad : U \subseteq T => U = T
  <2> HIDE DEF Bad
  <2> QED BY <1>1, <1>2, MinimalSubset
<1>4. \A U \in SUBSET T : U # T => U \in G
  BY <1>3
<1> QED BY <1>3, <1>4

\* Picking from a set that is not empty gives a member of it.
LEMMA PickIn == ASSUME NEW s, s # {} PROVE Pick(s) \in s
BY DEF Pick

\* What a table says of each subset.
LEMMA TableAt ==
  ASSUME NEW f, NEW S, NEW g, Table(f, S, g) PROVE Follows(f, S, g)
<1> DEFINE E(t) == IF t = {} THEN 0 ELSE f[Pick(t)] + g[t \ {Pick(t)}]
<1>1. g = [t \in SUBSET S |-> E(t)]
  BY Zenon DEF Table
<1> HIDE DEF E
<1>2. \A s \in SUBSET S : g[s] = E(s)
  BY <1>1
<1> QED BY <1>2, Zenon DEF E, Follows

\* Two tables agree on the subsets they share.
LEMMA TablesAgree ==
  ASSUME NEW f, NEW S, IsFiniteSet(S), NEW g, NEW T, NEW h, T \subseteq S,
         Table(f, S, g), Table(f, T, h)
  PROVE  \A s \in SUBSET T : g[s] = h[s]
<1> DEFINE G == {s \in SUBSET T : g[s] = h[s]}
<1>1. IsFiniteSet(T)
  BY FS_Subset
<1>2. Follows(f, S, g) /\ Follows(f, T, h)
  BY TableAt
<1>3. ASSUME NEW s \in SUBSET T, \A U \in SUBSET s : U # s => U \in G
      PROVE  s \in G
  <2>1. CASE s = {}
    BY <1>2, <2>1 DEF Follows
  <2>2. CASE s # {}
    <3>1. Pick(s) \in s
      BY <2>2, PickIn
    <3>2. s \ {Pick(s)} \in G
      BY <1>3, <3>1
    <3>3. g[s] = f[Pick(s)] + g[s \ {Pick(s)}]
      BY <1>2, <2>2 DEF Follows
    <3>4. h[s] = f[Pick(s)] + h[s \ {Pick(s)}]
      BY <1>2, <2>2 DEF Follows
    <3> QED BY <3>2, <3>3, <3>4
  <2> QED BY <2>1, <2>2
<1> HIDE DEF G
<1>4. \A s \in SUBSET T : s \in G
  BY <1>1, <1>3, SubsetInduction
<1> QED BY <1>4 DEF G

\* The table exists for every finite set: it can be put together from the
\* tables of its strict subsets.
LEMMA TableExists ==
  ASSUME NEW f, NEW S, IsFiniteSet(S)
  PROVE  \A T \in SUBSET S : Table(f, T, TableOf(f, T))
<1> DEFINE G == {T \in SUBSET S : Table(f, T, TableOf(f, T))}
           val(s) == TableOf(f, s)[s]
<1>1. ASSUME NEW T \in SUBSET S, \A U \in SUBSET T : U # T => U \in G
      PROVE  T \in G
  <2> DEFINE g == [s \in SUBSET T |->
                     IF s = {} THEN 0 ELSE f[Pick(s)] + val(s \ {Pick(s)})]
  <2>1. ASSUME NEW s \in SUBSET T, s # {}
        PROVE  g[s \ {Pick(s)}] = val(s \ {Pick(s)})
    <3> DEFINE r == s \ {Pick(s)}
    <3>1. r \in SUBSET T /\ r # T
      BY <2>1, PickIn
    <3>2. Table(f, r, TableOf(f, r)) /\ IsFiniteSet(r)
      BY <1>1, <3>1, FS_Subset
    <3> HIDE DEF r, g, val
    <3>3. TableOf(f, r)[r] = IF r = {} THEN 0
                             ELSE f[Pick(r)] + TableOf(f, r)[r \ {Pick(r)}]
      <4>1. Follows(f, r, TableOf(f, r))
        BY <3>2, TableAt
      <4> QED BY <4>1 DEF Follows
    <3>4. \A t \in SUBSET T :
            g[t] = IF t = {} THEN 0 ELSE f[Pick(t)] + val(t \ {Pick(t)})
      BY DEF g
    <3>5. CASE r = {}
      <4>1. g[r] = 0
        BY <3>1, <3>5, <3>4
      <4>2. val(r) = 0
        BY <3>3, <3>5 DEF val
      <4> QED BY <4>1, <4>2 DEF r
    <3>6. CASE r # {}
      <4> DEFINE q == r \ {Pick(r)}
      <4>1. q \in SUBSET T /\ q # T /\ q \subseteq r
        BY <3>1, <3>6, PickIn
      <4>2. Table(f, q, TableOf(f, q))
        BY <1>1, <4>1
      <4> HIDE DEF q
      <4>3. TableOf(f, r)[q] = val(q)
        BY <3>2, <4>1, <4>2, TablesAgree DEF val
      <4>4. g[r] = f[Pick(r)] + val(q)
        BY <3>1, <3>6, <3>4 DEF q
      <4>5. TableOf(f, r)[r] = f[Pick(r)] + TableOf(f, r)[q]
        BY <3>3, <3>6 DEF q
      <4> QED BY <4>3, <4>4, <4>5 DEF val, r
    <3> QED BY <3>5, <3>6 DEF r
  <2>2. \A s \in SUBSET T :
          (IF s = {} THEN 0 ELSE f[Pick(s)] + val(s \ {Pick(s)}))
            = (IF s = {} THEN 0 ELSE f[Pick(s)] + g[s \ {Pick(s)}])
    <3> HIDE DEF g, val
    <3> QED BY <2>1
  <2>3. Table(f, T, g)
    BY <2>2, Zenon DEF Table
  <2> HIDE DEF g
  <2>4. Table(f, T, TableOf(f, T))
    BY <2>3, Zenon DEF TableOf
  <2> QED BY <2>4
<1> HIDE DEF G
<1>2. \A T \in SUBSET S : T \in G
  BY <1>1, SubsetInduction
<1> QED BY <1>2 DEF G

-----------------------------------------------------------------------------
\* SumFunctionOnSet reads the sum off the table.
LEMMA SumIsTable ==
  ASSUME NEW f, NEW S PROVE SumFunctionOnSet(f, S) = TableOf(f, S)[S]
BY Zenon DEF SumFunctionOnSet, FoldFunctionOnSet, MapThenFoldSet,
             TableOf, Table, Pick

\* Nothing adds up to 0.
LEMMA SumEmpty == ASSUME NEW f PROVE SumFunctionOnSet(f, {}) = 0
<1>1. Table(f, {}, TableOf(f, {}))
  BY FS_EmptySet, TableExists
<1>2. Follows(f, {}, TableOf(f, {}))
  BY <1>1, TableAt
<1> QED BY <1>2, SumIsTable DEF Follows

\* The recursion of the fold.
LEMMA SumPick ==
  ASSUME NEW f, NEW S, IsFiniteSet(S), S # {}
  PROVE  SumFunctionOnSet(f, S) = f[Pick(S)] + SumFunctionOnSet(f, S \ {Pick(S)})
<1> DEFINE r == S \ {Pick(S)}
<1>1. Table(f, S, TableOf(f, S)) /\ Table(f, r, TableOf(f, r))
  BY TableExists
<1>2. TableOf(f, S)[r] = TableOf(f, r)[r]
  <2>1. r \subseteq S /\ r \in SUBSET r
    OBVIOUS
  <2> HIDE DEF r
  <2> QED BY <1>1, <2>1, TablesAgree
<1>3. TableOf(f, S)[S] = f[Pick(S)] + TableOf(f, S)[r]
  <2>1. Follows(f, S, TableOf(f, S))
    BY <1>1, TableAt
  <2> QED BY <2>1 DEF Follows
<1> QED BY <1>2, <1>3, SumIsTable

\* A sum of integers is an integer.
LEMMA SumInt ==
  ASSUME NEW f, NEW S, IsFiniteSet(S), \A x \in S : f[x] \in Int
  PROVE  \A s \in SUBSET S : SumFunctionOnSet(f, s) \in Int
<1> DEFINE G == {s \in SUBSET S : SumFunctionOnSet(f, s) \in Int}
<1>1. ASSUME NEW s \in SUBSET S, \A U \in SUBSET s : U # s => U \in G
      PROVE  s \in G
  <2>1. CASE s = {}
    BY <2>1, SumEmpty
  <2>2. CASE s # {}
    <3>1. Pick(s) \in s /\ IsFiniteSet(s)
      BY <2>2, PickIn, FS_Subset
    <3>2. SumFunctionOnSet(f, s \ {Pick(s)}) \in Int
      BY <1>1, <3>1
    <3> QED BY <2>2, <3>1, <3>2, SumPick
  <2> QED BY <2>1, <2>2
<1> HIDE DEF G
<1>2. \A s \in SUBSET S : s \in G
  BY <1>1, SubsetInduction
<1> QED BY <1>2 DEF G

\* Any element may be taken off a sum first, not only the one the fold picks.
LEMMA SumPeel ==
  ASSUME NEW f, NEW S, IsFiniteSet(S), \A x \in S : f[x] \in Int
  PROVE  \A s \in SUBSET S : \A y \in s :
           SumFunctionOnSet(f, s) = f[y] + SumFunctionOnSet(f, s \ {y})
<1> DEFINE Sum(s) == SumFunctionOnSet(f, s)
           G == {s \in SUBSET S : \A y \in s : Sum(s) = f[y] + Sum(s \ {y})}
<1>0. \A s \in SUBSET S : Sum(s) \in Int
  BY SumInt
<1>1. \A s \in SUBSET S : s # {} => Sum(s) = f[Pick(s)] + Sum(s \ {Pick(s)})
  BY SumPick, FS_Subset
<1> HIDE DEF Sum
<1>2. ASSUME NEW s \in SUBSET S, \A U \in SUBSET s : U # s => U \in G
      PROVE  s \in G
  <2>1. SUFFICES ASSUME NEW y \in s PROVE Sum(s) = f[y] + Sum(s \ {y})
    OBVIOUS
  <2> DEFINE p == Pick(s)
  <2>2. p \in s /\ Sum(s) = f[p] + Sum(s \ {p})
    BY <1>1, <2>1, PickIn
  <2> HIDE DEF p
  <2>3. CASE y = p
    BY <2>2, <2>3
  <2>4. CASE y # p
    <3>1. s \ {p} \in G /\ y \in s \ {p} /\ s \ {y} \in G /\ p \in s \ {y}
      BY <1>2, <2>1, <2>2, <2>4
    <3>2. Sum(s \ {p}) = f[y] + Sum((s \ {p}) \ {y})
      BY <3>1
    <3>3. Sum(s \ {y}) = f[p] + Sum((s \ {y}) \ {p})
      BY <3>1
    <3>4. (s \ {p}) \ {y} = (s \ {y}) \ {p}
      OBVIOUS
    <3>5. Sum((s \ {p}) \ {y}) \in Int /\ f[y] \in Int /\ f[p] \in Int
      BY <1>0, <2>1, <2>2
    <3>6. Sum(s) = f[p] + (f[y] + Sum((s \ {p}) \ {y}))
      BY <2>2, <3>2
    <3>7. Sum(s \ {y}) = f[p] + Sum((s \ {p}) \ {y})
      BY <3>3, <3>4
    <3> HIDE DEF G
    <3> QED BY <3>5, <3>6, <3>7
  <2> QED BY <2>3, <2>4
<1> HIDE DEF G
<1>3. \A s \in SUBSET S : s \in G
  BY <1>2, SubsetInduction
<1> QED BY <1>3 DEF G, Sum

-----------------------------------------------------------------------------
\* Functions that agree on a set have the same sum over it.
LEMMA SumSame ==
  ASSUME NEW f, NEW g, NEW S, IsFiniteSet(S),
         \A x \in S : f[x] \in Int, \A x \in S : f[x] = g[x]
  PROVE  SumFunctionOnSet(f, S) = SumFunctionOnSet(g, S)
<1> DEFINE G == {s \in SUBSET S : SumFunctionOnSet(f, s) = SumFunctionOnSet(g, s)}
<1>1. ASSUME NEW s \in SUBSET S, \A U \in SUBSET s : U # s => U \in G
      PROVE  s \in G
  <2>1. CASE s = {}
    BY <2>1, SumEmpty
  <2>2. CASE s # {}
    <3>1. Pick(s) \in s /\ IsFiniteSet(s)
      BY <2>2, PickIn, FS_Subset
    <3>2. s \ {Pick(s)} \in G
      BY <1>1, <3>1
    <3>3. SumFunctionOnSet(f, s) = f[Pick(s)] + SumFunctionOnSet(f, s \ {Pick(s)})
      BY <2>2, <3>1, SumPick
    <3>4. SumFunctionOnSet(g, s) = g[Pick(s)] + SumFunctionOnSet(g, s \ {Pick(s)})
      BY <2>2, <3>1, SumPick
    <3> QED BY <3>1, <3>2, <3>3, <3>4
  <2> QED BY <2>1, <2>2
<1> HIDE DEF G
<1>2. \A s \in SUBSET S : s \in G
  BY <1>1, SubsetInduction
<1> QED BY <1>2 DEF G

\* A sum of natural numbers is a natural number.
LEMMA SumNat ==
  ASSUME NEW f, NEW S, IsFiniteSet(S), \A x \in S : f[x] \in Nat
  PROVE  \A s \in SUBSET S : SumFunctionOnSet(f, s) \in Nat
<1> DEFINE G == {s \in SUBSET S : SumFunctionOnSet(f, s) \in Nat}
<1>1. ASSUME NEW s \in SUBSET S, \A U \in SUBSET s : U # s => U \in G
      PROVE  s \in G
  <2>1. CASE s = {}
    BY <2>1, SumEmpty
  <2>2. CASE s # {}
    <3>1. Pick(s) \in s /\ IsFiniteSet(s)
      BY <2>2, PickIn, FS_Subset
    <3>2. SumFunctionOnSet(f, s \ {Pick(s)}) \in Nat
      BY <1>1, <3>1
    <3>3. SumFunctionOnSet(f, s) = f[Pick(s)] + SumFunctionOnSet(f, s \ {Pick(s)})
      BY <2>2, <3>1, SumPick
    <3> QED BY <3>1, <3>2, <3>3
  <2> QED BY <2>1, <2>2
<1> HIDE DEF G
<1>2. \A s \in SUBSET S : s \in G
  BY <1>1, SubsetInduction
<1> QED BY <1>2 DEF G

\* A value of f on S that none exceeds.
HasGreatest(f, S) == \E x \in S : \A y \in S : f[y] <= f[x]

\* Integers on a finite set that is not empty have a greatest one.
LEMMA GreatestExists ==
  ASSUME NEW f, NEW S, IsFiniteSet(S), \A x \in S : f[x] \in Int
  PROVE  \A s \in SUBSET S : s # {} => HasGreatest(f, s)
<1> DEFINE G == {s \in SUBSET S : s # {} => HasGreatest(f, s)}
<1>1. ASSUME NEW s \in SUBSET S, \A U \in SUBSET s : U # s => U \in G, s # {}
      PROVE  HasGreatest(f, s)
  <2> DEFINE p == Pick(s)
             r == s \ {p}
  <2>1. p \in s
    BY <1>1, PickIn
  <2>2. r \in G
    BY <1>1, <2>1
  <2> HIDE DEF p
  <2>3. f[p] \in Int /\ p \in s /\ \A y \in s : y = p \/ y \in r
    BY <2>1
  <2>4. CASE r = {}
    <3>1. \A y \in s : f[y] <= f[p]
      BY <2>3, <2>4
    <3> QED BY <2>3, <3>1 DEF HasGreatest
  <2>5. CASE r # {}
    <3>1. PICK x \in r : \A y \in r : f[y] <= f[x]
      BY <2>2, <2>5 DEF HasGreatest
    <3>2. x \in s /\ f[x] \in Int /\ \A y \in s : f[y] \in Int
      BY <3>1
    <3>3. CASE f[p] <= f[x]
      <4>1. \A y \in s : f[y] <= f[x]
        BY <2>3, <3>1, <3>3
      <4> QED BY <3>2, <4>1 DEF HasGreatest
    <3>4. CASE f[x] <= f[p]
      <4>1. ASSUME NEW y \in r PROVE f[y] <= f[p]
        BY <2>3, <3>1, <3>2, <3>4
      <4>2. \A y \in s : f[y] <= f[p]
        BY <2>3, <4>1
      <4> QED BY <2>3, <4>2 DEF HasGreatest
    <3> QED BY <2>3, <3>2, <3>3, <3>4
  <2> QED BY <2>4, <2>5
<1>2. ASSUME NEW s \in SUBSET S, \A U \in SUBSET s : U # s => U \in G
      PROVE  s \in G
  BY <1>1, <1>2
<1> HIDE DEF G
<1>3. \A s \in SUBSET S : s \in G
  BY <1>2, SubsetInduction
<1> QED BY <1>3 DEF G

\* Zeros add up to 0.
LEMMA SumZero ==
  ASSUME NEW f, NEW S, IsFiniteSet(S), \A x \in S : f[x] = 0
  PROVE  \A s \in SUBSET S : SumFunctionOnSet(f, s) = 0
<1> DEFINE G == {s \in SUBSET S : SumFunctionOnSet(f, s) = 0}
<1>1. ASSUME NEW s \in SUBSET S, \A U \in SUBSET s : U # s => U \in G
      PROVE  s \in G
  <2>1. CASE s = {}
    BY <2>1, SumEmpty
  <2>2. CASE s # {}
    <3>1. Pick(s) \in s /\ IsFiniteSet(s)
      BY <2>2, PickIn, FS_Subset
    <3>2. s \ {Pick(s)} \in G
      BY <1>1, <3>1
    <3>3. SumFunctionOnSet(f, s) = f[Pick(s)] + SumFunctionOnSet(f, s \ {Pick(s)})
      BY <2>2, <3>1, SumPick
    <3> QED BY <3>1, <3>2, <3>3
  <2> QED BY <2>1, <2>2
<1> HIDE DEF G
<1>2. \A s \in SUBSET S : s \in G
  BY <1>1, SubsetInduction
<1> QED BY <1>2 DEF G

\* The sums of two functions that differ at one element differ by as much.
LEMMA SumUpdate ==
  ASSUME NEW S, IsFiniteSet(S)
  PROVE  \A f, g \in [S -> Int], y \in S :
           (\A x \in S \ {y} : g[x] = f[x])
             => SumFunctionOnSet(g, S) = SumFunctionOnSet(f, S) - f[y] + g[y]
<1> TAKE f, g \in [S -> Int], y \in S
<1> HAVE \A x \in S \ {y} : g[x] = f[x]
<1> DEFINE r == S \ {y}
<1>1. f[y] \in Int /\ g[y] \in Int /\ \A x \in r : f[x] = g[x]
  OBVIOUS
<1>2. IsFiniteSet(r) /\ \A x \in r : f[x] \in Int
  BY FS_Subset
<1>3. SumFunctionOnSet(f, S) = f[y] + SumFunctionOnSet(f, r)
  BY SumPeel
<1>4. SumFunctionOnSet(g, S) = g[y] + SumFunctionOnSet(g, r)
  BY SumPeel
<1>5. SumFunctionOnSet(f, r) \in Int
  BY SumInt
<1> HIDE DEF r
<1>6. SumFunctionOnSet(f, r) = SumFunctionOnSet(g, r)
  BY <1>1, <1>2, SumSame
<1> QED BY <1>1, <1>3, <1>4, <1>5, <1>6

\* Clearing the slots of E takes their sum, and nothing else, off the total.
LEMMA SumCleared ==
  ASSUME NEW S, IsFiniteSet(S), NEW f \in [S -> Int], NEW E \in SUBSET S
  PROVE  SumFunctionOnSet([i \in S |-> IF i \in E THEN 0 ELSE f[i]], S)
           = SumFunctionOnSet(f, S) - SumFunctionOnSet(f, E)
<1> DEFINE c(e) == [i \in S |-> IF i \in e THEN 0 ELSE f[i]]
           Sum(g, s) == SumFunctionOnSet(g, s)
           G == {e \in SUBSET S : Sum(c(e), S) = Sum(f, S) - Sum(f, e)}
<1>1. \A e \in SUBSET S : Sum(f, e) \in Int
  BY SumInt
<1>2. ASSUME NEW e \in SUBSET S, \A U \in SUBSET e : U # e => U \in G
      PROVE  e \in G
  <2>1. CASE e = {}
    <3>1. c(e) = f
      BY <2>1
    <3>2. Sum(f, e) = 0 /\ Sum(f, S) \in Int
      BY <1>1, <2>1, SumEmpty
    <3> HIDE DEF c, Sum
    <3> QED BY <3>1, <3>2
  <2>2. CASE e # {}
    <3> DEFINE p == Pick(e)
               r == e \ {p}
    <3>1. p \in e
      BY <2>2, PickIn
    <3> HIDE DEF p
    <3>2. r \in G
      BY <1>2, <3>1
    <3>3. /\ c(e) \in [S -> Int] /\ c(e)[p] = 0
          /\ c(r) \in [S -> Int] /\ c(r)[p] = f[p]
          /\ \A x \in S \ {p} : c(e)[x] = c(r)[x]
      BY <3>1
    <3>4. Sum(f, e) = f[p] + Sum(f, r)
      BY <3>1, SumPeel
    <3>5. f[p] \in Int /\ Sum(f, r) \in Int /\ Sum(f, S) \in Int
      BY <1>1, <3>1
    <3>6. Sum(c(r), S) = Sum(f, S) - Sum(f, r)
      BY <3>2
    <3> HIDE DEF c, r
    <3>7. Sum(c(e), S) = Sum(c(r), S) - f[p] + 0
      BY <3>1, <3>3, SumUpdate
    <3> HIDE DEF Sum
    <3>8. Sum(c(e), S) = Sum(f, S) - Sum(f, e)
      BY <3>4, <3>5, <3>6, <3>7
    <3> QED BY <3>8
  <2> QED BY <2>1, <2>2
<1> HIDE DEF G
<1>3. E \in G
  BY <1>2, SubsetInduction
<1> QED BY <1>3 DEF G

\* Renaming the elements one to one does not change a sum.
LEMMA SumReindex ==
  ASSUME NEW S, IsFiniteSet(S), NEW T, IsFiniteSet(T),
         NEW f \in [T -> Int], NEW h \in [S -> T],
         \A x, y \in S : h[x] = h[y] => x = y,
         \A t \in T : \E x \in S : h[x] = t
  PROVE  SumFunctionOnSet([x \in S |-> f[h[x]]], S) = SumFunctionOnSet(f, T)
<1> DEFINE g == [x \in S |-> f[h[x]]]
           img(e) == {h[x] : x \in e}
           Sum(k, s) == SumFunctionOnSet(k, s)
           G == {e \in SUBSET S : Sum(g, e) = Sum(f, img(e))}
<1>1. (\A x \in S : g[x] = f[h[x]] /\ g[x] \in Int) /\ \A t \in T : f[t] \in Int
  OBVIOUS
<1> HIDE DEF g
<1>2. ASSUME NEW e \in SUBSET S, \A U \in SUBSET e : U # e => U \in G
      PROVE  e \in G
  <2>1. CASE e = {}
    <3>1. img(e) = {}
      BY <2>1
    <3> HIDE DEF img
    <3> QED BY <2>1, <3>1, SumEmpty
  <2>2. CASE e # {}
    <3> DEFINE p == Pick(e)
               r == e \ {p}
    <3>1. p \in e
      BY <2>2, PickIn
    <3> HIDE DEF p
    <3>2. r \in G
      BY <1>2, <3>1
    <3>3. img(r) = img(e) \ {h[p]} /\ h[p] \in img(e) /\ img(e) \in SUBSET T
      BY <3>1
    <3> HIDE DEF img
    <3>4. Sum(g, e) = g[p] + Sum(g, r)
      BY <1>1, <3>1, SumPeel
    <3>5. Sum(f, img(e)) = f[h[p]] + Sum(f, img(e) \ {h[p]})
      BY <1>1, <3>3, SumPeel
    <3>6. g[p] = f[h[p]]
      BY <1>1, <3>1
    <3>7. Sum(g, r) = Sum(f, img(r))
      BY <3>2
    <3> HIDE DEF Sum, r
    <3> QED BY <3>3, <3>4, <3>5, <3>6, <3>7
  <2> QED BY <2>1, <2>2
<1> HIDE DEF G
<1>3. S \in G
  BY <1>2, SubsetInduction
<1>4. img(S) = T
  OBVIOUS
<1> QED BY <1>3, <1>4 DEF G, g

-----------------------------------------------------------------------------
(* Counting the members of a set by what a function has at them *)

\* The members of S that f has at one of P.
NumAt(f, S, P) == Cardinality({x \in S : f[x] \in P})

\* One when v is a member of P.
Bit(v, P) == IF v \in P THEN 1 ELSE 0

\* One member moves: the number of those at P changes by its own two states.
LEMMA CountUpdate ==
  ASSUME NEW S, IsFiniteSet(S), NEW f, NEW g, NEW y \in S, NEW P,
         \A x \in S \ {y} : g[x] = f[x]
  PROVE  /\ NumAt(f, S, P) \in Nat
         /\ NumAt(g, S, P) = NumAt(f, S, P) - Bit(f[y], P) + Bit(g[y], P)
<1> DEFINE R == {x \in S \ {y} : f[x] \in P}
           A == {x \in S : f[x] \in P}
           B == {x \in S : g[x] \in P}
<1>1. IsFiniteSet(R) /\ y \notin R
  BY FS_Subset
<1>2. A = IF f[y] \in P THEN R \cup {y} ELSE R
  OBVIOUS
<1>3. B = IF g[y] \in P THEN R \cup {y} ELSE R
  OBVIOUS
<1> HIDE DEF R, A, B
<1>4. Cardinality(R) \in Nat /\ Cardinality(R \cup {y}) = Cardinality(R) + 1
  BY <1>1, FS_CardinalityType, FS_AddElement
<1>5. Cardinality(A) = Cardinality(R) + Bit(f[y], P)
  BY <1>2, <1>4 DEF Bit
<1>6. Cardinality(B) = Cardinality(R) + Bit(g[y], P)
  BY <1>3, <1>4 DEF Bit
<1>7. Bit(f[y], P) \in Nat /\ Bit(g[y], P) \in Nat
  BY DEF Bit
<1>8. /\ Cardinality(A) \in Nat
      /\ Cardinality(B) = Cardinality(A) - Bit(f[y], P) + Bit(g[y], P)
  BY <1>4, <1>5, <1>6, <1>7
<1> QED BY <1>8 DEF A, B, NumAt

\* One member of S goes from a to b: what that does to each count.
Moves(f, g, S, a, b) ==
  \A P : /\ NumAt(f, S, P) \in Nat
         /\ NumAt(g, S, P) = NumAt(f, S, P) - Bit(a, P) + Bit(b, P)

\* The function changes at one member.
LEMMA MovesOne ==
  ASSUME NEW S, IsFiniteSet(S), NEW V, NEW f \in [S -> V], NEW y \in S, NEW v \in V
  PROVE  Moves(f, [f EXCEPT ![y] = v], S, f[y], v)
<1> DEFINE g == [f EXCEPT ![y] = v]
<1>1. g \in [S -> V] /\ g[y] = v /\ \A x \in S \ {y} : g[x] = f[x]
  OBVIOUS
<1> HIDE DEF g
<1> SUFFICES ASSUME NEW P
             PROVE  /\ NumAt(f, S, P) \in Nat
                    /\ NumAt(g, S, P) = NumAt(f, S, P) - Bit(f[y], P) + Bit(v, P)
  BY DEF Moves, g
<1>2. /\ NumAt(f, S, P) \in Nat
      /\ NumAt(g, S, P) = NumAt(f, S, P) - Bit(f[y], P) + Bit(g[y], P)
  BY <1>1, IsFiniteSet(S), CountUpdate
<1> QED BY <1>1, <1>2

-----------------------------------------------------------------------------
(* Selecting from a sequence *)

\* G is the table of Select for the prefixes of q up to N.
Prefixes(q, P, N, G) ==
  G = [n \in 0 .. N |->
         IF n = 0 THEN <<>>
         ELSE IF q[n] \in P THEN Append(G[n - 1], q[n]) ELSE G[n - 1]]

PrefixesOf(q, P, N) == CHOOSE G : Prefixes(q, P, N, G)

LEMMA SelectDef == ASSUME NEW q, NEW P PROVE Select(q, P) = PrefixesOf(q, P, Len(q))[Len(q)]
BY Zenon DEF Select, Prefixes, PrefixesOf

\* Induction over the numbers, with the property as a set.
LEMMA NumberInduction ==
  ASSUME NEW G, 0 \in G, \A n \in Nat : n \in G => n + 1 \in G
  PROVE  \A n \in Nat : n \in G
<1> DEFINE Bad == Nat \ G
           R == OpToRel(<, Nat)
<1>1. SUFFICES ASSUME Bad # {} PROVE FALSE
  OBVIOUS
<1>2. IsWellFoundedOn(R, Nat) /\ Bad \subseteq Nat
  BY NatLessThanWellFounded
<1>3. \A m, n \in Nat : n < m => <<n, m>> \in R
  BY DEF OpToRel
<1>4. PICK m \in Bad : \A n \in Bad : ~(<<n, m>> \in R)
  <2> HIDE DEF Bad, R
  <2> QED BY <1>1, <1>2, WFMin, Zenon
<1> HIDE DEF R
<1>5. m \in Nat /\ m # 0 /\ m \notin G
  OBVIOUS
<1>6. m - 1 \in Nat /\ m - 1 < m /\ (m - 1) + 1 = m
  BY <1>5
<1>7. m - 1 \in G
  BY <1>3, <1>4, <1>5, <1>6
<1> QED BY <1>5, <1>6, <1>7

\* The same, prefix by prefix.
Grows(q, P, N, G) ==
  /\ G[0] = <<>>
  /\ \A n \in Nat : n + 1 <= N =>
       G[n + 1] = IF q[n + 1] \in P THEN Append(G[n], q[n + 1]) ELSE G[n]

\* What a table says of each prefix.
LEMMA PrefixAt ==
  ASSUME NEW q, NEW P, NEW N \in Nat, NEW G, Prefixes(q, P, N, G)
  PROVE  Grows(q, P, N, G)
<1> DEFINE E(n) == IF n = 0 THEN <<>>
                   ELSE IF q[n] \in P THEN Append(G[n - 1], q[n]) ELSE G[n - 1]
<1>1. G = [n \in 0 .. N |-> E(n)]
  BY Zenon DEF Prefixes
<1> HIDE DEF E
<1>2. \A n \in 0 .. N : G[n] = E(n)
  BY <1>1
<1>3. G[0] = <<>>
  BY <1>2 DEF E
<1>4. ASSUME NEW n \in Nat, n + 1 <= N
      PROVE  G[n + 1] = IF q[n + 1] \in P THEN Append(G[n], q[n + 1]) ELSE G[n]
  <2>1. n + 1 \in 0 .. N /\ n + 1 # 0 /\ (n + 1) - 1 = n
    BY <1>4
  <2>2. G[n + 1] = E(n + 1)
    BY <1>2, <2>1
  <2>3. E(n + 1) = IF q[n + 1] \in P THEN Append(G[(n + 1) - 1], q[n + 1]) ELSE G[(n + 1) - 1]
    BY <2>1, Zenon DEF E
  <2> QED BY <2>1, <2>2, <2>3
<1> QED BY <1>3, <1>4 DEF Grows

\* The table exists for every length.
LEMMA PrefixesExist ==
  ASSUME NEW q, NEW P
  PROVE  \A N \in Nat : Prefixes(q, P, N, PrefixesOf(q, P, N))
<1> DEFINE Good == {N \in Nat : Prefixes(q, P, N, PrefixesOf(q, P, N))}
<1>1. ASSUME NEW N \in Nat, NEW G, Prefixes(q, P, N, G)
      PROVE  Prefixes(q, P, N, PrefixesOf(q, P, N))
  BY <1>1, Zenon DEF PrefixesOf
<1>2. 0 \in Good
  <2> DEFINE G == [n \in 0 .. 0 |-> <<>>]
  <2>1. G = [n \in 0 .. 0 |->
               IF n = 0 THEN <<>>
               ELSE IF q[n] \in P THEN Append(G[n - 1], q[n]) ELSE G[n - 1]]
    OBVIOUS
  <2>2. Prefixes(q, P, 0, G)
    BY <2>1, Zenon DEF Prefixes
  <2> QED BY <1>1, <2>2
<1>3. ASSUME NEW N \in Nat, N \in Good PROVE N + 1 \in Good
  <2> DEFINE H == PrefixesOf(q, P, N)
             last == IF q[N + 1] \in P THEN Append(H[N], q[N + 1]) ELSE H[N]
             G == [n \in 0 .. N + 1 |-> IF n = N + 1 THEN last ELSE H[n]]
             E(n) == IF n = 0 THEN <<>>
                     ELSE IF q[n] \in P THEN Append(G[n - 1], q[n]) ELSE G[n - 1]
  <2>1. Prefixes(q, P, N, H)
    BY <1>3
  <2>2. /\ H[0] = <<>>
        /\ \A n \in Nat : n + 1 <= N =>
             H[n + 1] = IF q[n + 1] \in P THEN Append(H[n], q[n + 1]) ELSE H[n]
    <3> HIDE DEF H
    <3> QED BY <2>1, PrefixAt DEF Grows
  <2>3. /\ \A n \in 0 .. N : G[n] = H[n]
        /\ G[N + 1] = last
    <3> HIDE DEF H, last
    <3> QED OBVIOUS
  <2> HIDE DEF H
  <2>4. ASSUME NEW n \in 0 .. N + 1 PROVE G[n] = E(n)
    <3>1. CASE n = 0
      <4>1. G[n] = H[0]
        BY <2>3, <3>1
      <4> HIDE DEF G
      <4> QED BY <2>2, <3>1, <4>1
    <3>2. CASE n = N + 1
      <4>1. n - 1 \in 0 .. N /\ n # 0 /\ n - 1 = N
        BY <3>2
      <4>2. G[n - 1] = H[N]
        BY <2>3, <4>1
      <4>3. G[n] = last
        BY <2>3, <3>2
      <4> HIDE DEF G
      <4> QED BY <3>2, <4>1, <4>2, <4>3
    <3>3. CASE n # 0 /\ n # N + 1
      <4>1. n - 1 \in Nat /\ (n - 1) + 1 = n /\ n <= N /\ n \in 0 .. N /\ n - 1 \in 0 .. N
        BY <3>3
      <4>2. H[n] = IF q[n] \in P THEN Append(H[n - 1], q[n]) ELSE H[n - 1]
        BY <2>2, <4>1
      <4>3. G[n] = H[n] /\ G[n - 1] = H[n - 1]
        BY <2>3, <4>1
      <4> HIDE DEF G
      <4> QED BY <3>3, <4>2, <4>3
    <3> QED BY <3>1, <3>2, <3>3
  <2>5. G = [n \in 0 .. N + 1 |-> G[n]]
    <3> HIDE DEF last
    <3> QED OBVIOUS
  <2>6. G = [n \in 0 .. N + 1 |-> E(n)]
    <3> HIDE DEF G, E
    <3> QED BY <2>4, <2>5
  <2>7. Prefixes(q, P, N + 1, G)
    <3> HIDE DEF G
    <3> QED BY <2>6, Zenon DEF Prefixes
  <2> HIDE DEF G
  <2> QED BY <1>1, <2>7
<1> HIDE DEF Good
<1>4. \A N \in Nat : N \in Good
  BY <1>2, <1>3, NumberInduction
<1> QED BY <1>4 DEF Good

\* Tables of two sequences agree as far as the sequences do.
LEMMA PrefixesAgree ==
  ASSUME NEW P, NEW q, NEW r, NEW N \in Nat, NEW M \in Nat, NEW K \in Nat, K <= N, K <= M,
         \A i \in 1 .. K : q[i] = r[i],
         NEW G, NEW H, Grows(q, P, N, G), Grows(r, P, M, H)
  PROVE  G[K] = H[K]
<1>1. G[0] = H[0]
  BY DEF Grows
<1>2. ASSUME NEW n \in Nat, n + 1 <= K, G[n] = H[n] PROVE G[n + 1] = H[n + 1]
  <2>1. n + 1 <= N /\ n + 1 <= M /\ n + 1 \in 1 .. K
    BY <1>2
  <2>2. q[n + 1] = r[n + 1]
    BY <2>1
  <2>3. G[n + 1] = IF q[n + 1] \in P THEN Append(G[n], q[n + 1]) ELSE G[n]
    BY <2>1 DEF Grows
  <2>4. H[n + 1] = IF r[n + 1] \in P THEN Append(H[n], r[n + 1]) ELSE H[n]
    BY <2>1 DEF Grows
  <2> QED BY <1>2, <2>2, <2>3, <2>4
<1> DEFINE Good == {n \in Nat : n <= K => G[n] = H[n]}
<1>3. 0 \in Good
  BY <1>1
<1>4. ASSUME NEW n \in Nat, n \in Good PROVE n + 1 \in Good
  <2>1. n + 1 <= K => n <= K
    OBVIOUS
  <2> QED BY <1>2, <1>4, <2>1
<1> HIDE DEF Good
<1>5. \A n \in Nat : n \in Good
  BY <1>3, <1>4, NumberInduction
<1> QED BY <1>5 DEF Good

\* The tables hold sequences of what q holds.
LEMMA PrefixIn ==
  ASSUME NEW S, NEW q \in Seq(S), NEW P, NEW N \in Nat, NEW G, N <= Len(q), Grows(q, P, N, G)
  PROVE  \A n \in Nat : n <= N => G[n] \in Seq(S)
<1>1. G[0] \in Seq(S)
  BY DEF Grows
<1>2. ASSUME NEW n \in Nat, n + 1 <= N, G[n] \in Seq(S) PROVE G[n + 1] \in Seq(S)
  <2>1. q[n + 1] \in S
    <3>1. Len(q) \in Nat /\ n + 1 \in 1 .. Len(q)
      BY <1>2
    <3> QED BY <3>1
  <2>2. Append(G[n], q[n + 1]) \in Seq(S)
    BY <1>2, <2>1
  <2>3. G[n + 1] = IF q[n + 1] \in P THEN Append(G[n], q[n + 1]) ELSE G[n]
    BY <1>2 DEF Grows
  <2> QED BY <1>2, <2>2, <2>3
<1> DEFINE Good == {n \in Nat : n <= N => G[n] \in Seq(S)}
<1>3. 0 \in Good
  BY <1>1
<1>4. ASSUME NEW n \in Nat, n \in Good PROVE n + 1 \in Good
  <2>1. n + 1 <= N => n <= N
    OBVIOUS
  <2> QED BY <1>2, <1>4, <2>1
<1> HIDE DEF Good
<1>5. \A n \in Nat : n \in Good
  BY <1>3, <1>4, NumberInduction
<1> QED BY <1>5 DEF Good

\* Select reads the last row of a table.
LEMMA SelectGrows ==
  ASSUME NEW S, NEW q \in Seq(S), NEW P
  PROVE  \E G : Grows(q, P, Len(q), G) /\ Select(q, P) = G[Len(q)]
<1> DEFINE k == Len(q)
           G == PrefixesOf(q, P, k)
<1>1. k \in Nat
  OBVIOUS
<1>2. Select(q, P) = G[k]
  BY SelectDef
<1> HIDE DEF k
<1>3. Prefixes(q, P, k, G)
  BY <1>1, PrefixesExist
<1> HIDE DEF G
<1>4. Grows(q, P, k, G)
  BY <1>1, <1>3, PrefixAt
<1> QED BY <1>2, <1>4 DEF k

\* Select keeps the types of the elements.
LEMMA SelectIn ==
  ASSUME NEW S, NEW q \in Seq(S), NEW P
  PROVE  Select(q, P) \in Seq(S)
<1>1. PICK G : Grows(q, P, Len(q), G) /\ Select(q, P) = G[Len(q)]
  BY SelectGrows
<1>2. Len(q) \in Nat /\ Len(q) <= Len(q)
  OBVIOUS
<1>3. \A n \in Nat : n <= Len(q) => G[n] \in Seq(S)
  BY <1>1, <1>2, PrefixIn
<1> QED BY <1>1, <1>2, <1>3

LEMMA SelectEmpty == ASSUME NEW P PROVE Select(<<>>, P) = <<>>
<1>1. <<>> \in Seq({}) /\ Len(<<>>) = 0
  OBVIOUS
<1>2. PICK G : Grows(<<>>, P, Len(<<>>), G) /\ Select(<<>>, P) = G[Len(<<>>)]
  BY <1>1, SelectGrows
<1>3. G[0] = <<>>
  BY <1>2 DEF Grows
<1> QED BY <1>1, <1>2, <1>3

\* An element that is appended is selected last.
LEMMA SelectAppend ==
  ASSUME NEW S, NEW q \in Seq(S), NEW x \in S, NEW P
  PROVE  Select(Append(q, x), P) = IF x \in P THEN Append(Select(q, P), x) ELSE Select(q, P)
<1> DEFINE r == Append(q, x)
           k == Len(q)
<1>1. /\ r \in Seq(S) /\ k \in Nat /\ Len(r) = k + 1 /\ r[k + 1] = x
      /\ \A i \in 1 .. k : q[i] = r[i]
  OBVIOUS
<1>2. PICK G : Grows(q, P, k, G) /\ Select(q, P) = G[k]
  BY SelectGrows
<1> HIDE DEF k, r
<1>3. PICK H : Grows(r, P, k + 1, H) /\ Select(r, P) = H[k + 1]
  BY <1>1, SelectGrows
<1>4. G[k] = H[k]
  <2>1. k + 1 \in Nat /\ k <= k /\ k <= k + 1
    BY <1>1
  <2> QED BY <1>1, <1>2, <1>3, <2>1, PrefixesAgree
<1>5. H[k + 1] = IF r[k + 1] \in P THEN Append(H[k], r[k + 1]) ELSE H[k]
  BY <1>1, <1>3 DEF Grows
<1>6. Select(r, P) = IF x \in P THEN Append(Select(q, P), x) ELSE Select(q, P)
  BY <1>1, <1>2, <1>3, <1>4, <1>5
<1> QED BY <1>6 DEF r

LEMMA ConcatAppend ==
  ASSUME NEW S, NEW p \in Seq(S), NEW q \in Seq(S), NEW x \in S
  PROVE  p \o Append(q, x) = Append(p \o q, x)
OBVIOUS

\* A first element is selected first.
LEMMA SelectTail ==
  ASSUME NEW S, NEW q \in Seq(S), q # <<>>, NEW P
  PROVE  Select(q, P) = IF Head(q) \in P THEN <<Head(q)>> \o Select(Tail(q), P)
                                         ELSE Select(Tail(q), P)
<1> DEFINE r == Tail(q)
           k == Len(r)
           first == IF Head(q) \in P THEN <<Head(q)>> ELSE <<>>
<1>1. /\ r \in Seq(S) /\ k \in Nat /\ Len(q) = k + 1 /\ q[1] = Head(q) /\ Head(q) \in S
      /\ \A i \in 1 .. k : r[i] = q[i + 1]
      /\ k = Len(r)
  OBVIOUS
<1>2. first \in Seq(S) /\ first \o <<>> = first
  BY <1>1
<1> HIDE DEF k, r
<1>3. PICK G : Grows(q, P, k + 1, G) /\ Select(q, P) = G[k + 1]
  BY <1>1, SelectGrows
<1>4. PICK H : Grows(r, P, k, H) /\ Select(r, P) = H[k]
  BY <1>1, SelectGrows
<1>5. \A n \in Nat : n <= k => H[n] \in Seq(S)
  <2>1. k <= Len(r)
    BY <1>1
  <2> QED BY <1>1, <1>4, <2>1, PrefixIn
<1>6. G[1] = first \o H[0]
  <2>1. 0 \in Nat /\ 0 + 1 = 1 /\ 1 <= k + 1
    BY <1>1
  <2>2. G[0] = <<>> /\ H[0] = <<>>
    BY <1>3, <1>4 DEF Grows
  <2>3. G[0 + 1] = IF q[0 + 1] \in P THEN Append(G[0], q[0 + 1]) ELSE G[0]
    BY <1>3, <2>1, Zenon DEF Grows
  <2>4. G[1] = IF Head(q) \in P THEN Append(<<>>, Head(q)) ELSE <<>>
    BY <1>1, <2>1, <2>2, <2>3
  <2>5. Append(<<>>, Head(q)) = <<Head(q)>>
    OBVIOUS
  <2> QED BY <1>2, <2>2, <2>4, <2>5
<1>7. ASSUME NEW n \in Nat, n + 1 <= k, G[n + 1] = first \o H[n]
      PROVE  G[(n + 1) + 1] = first \o H[n + 1]
  <2>1. /\ n <= k /\ n + 1 \in Nat /\ (n + 1) + 1 <= k + 1 /\ n + 1 \in 1 .. k
    BY <1>1, <1>7
  <2>2. H[n] \in Seq(S)
    BY <1>5, <2>1
  <2>3. r[n + 1] = q[(n + 1) + 1] /\ r[n + 1] \in S
    BY <1>1, <2>1
  <2>4. G[(n + 1) + 1] = IF q[(n + 1) + 1] \in P THEN Append(G[n + 1], q[(n + 1) + 1]) ELSE G[n + 1]
    BY <1>3, <2>1, Zenon DEF Grows
  <2>5. H[n + 1] = IF r[n + 1] \in P THEN Append(H[n], r[n + 1]) ELSE H[n]
    BY <1>4, <1>7, Zenon DEF Grows
  <2> HIDE DEF first
  <2>6. first \o Append(H[n], r[n + 1]) = Append(first \o H[n], r[n + 1])
    BY <1>2, <2>2, <2>3, ConcatAppend
  <2> QED BY <1>7, <2>3, <2>4, <2>5, <2>6, Zenon
<1> HIDE DEF first
<1> DEFINE Good == {n \in Nat : n <= k => G[n + 1] = first \o H[n]}
<1>8. 0 \in Good
  BY <1>6
<1>9. ASSUME NEW n \in Nat, n \in Good PROVE n + 1 \in Good
  <2>1. n + 1 <= k => n <= k
    BY <1>1
  <2>2. n <= k => G[n + 1] = first \o H[n]
    BY <1>9
  <2>3. n + 1 <= k => G[(n + 1) + 1] = first \o H[n + 1]
    BY <1>7, <2>1, <2>2
  <2> QED BY <2>3
<1> HIDE DEF Good
<1>10. \A n \in Nat : n \in Good
  BY <1>8, <1>9, NumberInduction
<1>11. G[k + 1] = first \o H[k]
  <2>1. k \in Good /\ k <= k
    BY <1>1, <1>10
  <2> QED BY <2>1 DEF Good
<1>12. Select(r, P) \in Seq(S)
  BY <1>1, SelectIn
<1>13. <<>> \o Select(r, P) = Select(r, P)
  BY <1>12
<1>14. Select(q, P) = IF Head(q) \in P THEN <<Head(q)>> \o Select(r, P) ELSE Select(r, P)
  BY <1>3, <1>4, <1>11, <1>13, Zenon DEF first
<1> QED BY <1>14 DEF r

-----------------------------------------------------------------------------
\* No element twice.
NoRepeat(q) == \A i, j \in 1 .. Len(q) : q[i] = q[j] => i = j

\* An element is added at the end of a sequence, or taken from its beginning.
LEMMA AppendFacts ==
  ASSUME NEW S, NEW q \in Seq(S), NEW g \in S
  PROVE  /\ Append(q, g) \in Seq(S) /\ Len(Append(q, g)) = Len(q) + 1
         /\ Range(Append(q, g)) = Range(q) \cup {g}
         /\ NoRepeat(q) /\ g \notin Range(q) => NoRepeat(Append(q, g))
<1>1. /\ Append(q, g) \in Seq(S) /\ Len(Append(q, g)) = Len(q) + 1 /\ Len(q) \in Nat
      /\ Append(q, g)[Len(q) + 1] = g
      /\ \A i \in 1 .. Len(q) : Append(q, g)[i] = q[i]
      /\ DOMAIN Append(q, g) = 1 .. Len(q) + 1 /\ DOMAIN q = 1 .. Len(q)
  OBVIOUS
<1>2. \A i \in 1 .. Len(q) + 1 : i \in 1 .. Len(q) \/ i = Len(q) + 1
  BY <1>1
<1>3. Len(q) + 1 \in 1 .. Len(q) + 1 /\ 1 .. Len(q) \subseteq 1 .. Len(q) + 1
  BY <1>1
<1>4. Range(Append(q, g)) = Range(q) \cup {g}
  BY <1>1, <1>2, <1>3 DEF Range
<1>5. \A i \in 1 .. Len(q) : q[i] \in Range(q)
  BY <1>1 DEF Range
<1>6. ASSUME NoRepeat(q), g \notin Range(q),
             NEW i \in 1 .. Len(q) + 1, NEW j \in 1 .. Len(q) + 1,
             Append(q, g)[i] = Append(q, g)[j]
      PROVE  i = j
  BY <1>1, <1>2, <1>5, <1>6 DEF NoRepeat
<1>7. NoRepeat(q) /\ g \notin Range(q) => NoRepeat(Append(q, g))
  BY <1>1, <1>6 DEF NoRepeat
<1>. QED BY <1>1, <1>4, <1>7

LEMMA TailFacts ==
  ASSUME NEW S, NEW q \in Seq(S), q # <<>>
  PROVE  /\ Head(q) \in S /\ Head(q) \in Range(q)
         /\ Tail(q) \in Seq(S) /\ Len(Tail(q)) = Len(q) - 1
         /\ Range(Tail(q)) \subseteq Range(q)
         /\ NoRepeat(q) => NoRepeat(Tail(q)) /\ Head(q) \notin Range(Tail(q))
<1>1. /\ Tail(q) \in Seq(S) /\ Len(Tail(q)) = Len(q) - 1 /\ Len(q) \in Nat \ {0}
      /\ Head(q) = q[1] /\ Head(q) \in S
      /\ \A i \in 1 .. Len(Tail(q)) : Tail(q)[i] = q[i + 1]
      /\ DOMAIN Tail(q) = 1 .. Len(Tail(q)) /\ DOMAIN q = 1 .. Len(q)
  OBVIOUS
<1>2. 1 \in 1 .. Len(q) /\ \A i \in 1 .. Len(Tail(q)) : i + 1 \in 1 .. Len(q) /\ i + 1 # 1
  BY <1>1
<1>3. Head(q) \in Range(q) /\ Range(Tail(q)) \subseteq Range(q)
  BY <1>1, <1>2 DEF Range
<1>4. ASSUME NoRepeat(q), NEW i \in 1 .. Len(Tail(q)), NEW j \in 1 .. Len(Tail(q)),
             Tail(q)[i] = Tail(q)[j]
      PROVE  i = j
  <2>1. q[i + 1] = q[j + 1] /\ i + 1 \in 1 .. Len(q) /\ j + 1 \in 1 .. Len(q)
    BY <1>1, <1>2, <1>4
  <2>2. i + 1 = j + 1
    BY <1>4, <2>1 DEF NoRepeat
  <2>. QED BY <2>2
<1>5. ASSUME NoRepeat(q), NEW i \in 1 .. Len(Tail(q)) PROVE Tail(q)[i] # Head(q)
  BY <1>1, <1>2, <1>5 DEF NoRepeat
<1>6. NoRepeat(q) => Head(q) \notin Range(Tail(q))
  BY <1>1, <1>5 DEF Range
<1>7. NoRepeat(q) => NoRepeat(Tail(q))
  BY <1>4 DEF NoRepeat
<1>. QED BY <1>1, <1>3, <1>6, <1>7
=============================================================================
