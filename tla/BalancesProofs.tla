---------------------------- MODULE BalancesProofs ----------------------------
(***************************************************************************)
(* What the swap that is guessed from the balances says, for any accounts, *)
(* owners, mints and amounts.  Where no account is closed and an owner's   *)
(* last account of a mint is the only one that changes, the difference of  *)
(* the two entries the code looks at is the difference of what the owner   *)
(* holds in all its accounts; the rest follows from the two picks.         *)
(***************************************************************************)
EXTENDS Balances, FoldLemmas

\* The lists as the transaction has them: they are never changed.
Listed ==
  /\ pre \in [Accounts -> Amounts \cup {Absent}]
  /\ post \in [Accounts -> Amounts \cup {Absent}]

-----------------------------------------------------------------------------
(* Facts about the operators *)

\* The greatest of a set of places that is not empty is one of them.
LEMMA MaxIn ==
  ASSUME NEW n \in Nat, NEW I, I \subseteq 1 .. n, I # {}
  PROVE  Max(I) \in I /\ \A i \in I : i <= Max(I)
<1> DEFINE Top(J) == \E m \in J : \A j \in J : m >= j
           G == {k \in Nat : \A J \in SUBSET (1 .. k) : J # {} => Top(J)}
<1>1. 0 \in G
  <2>1. \A J \in SUBSET (1 .. 0) : J = {}
    OBVIOUS
  <2> HIDE DEF Top
  <2> QED BY <2>1
<1>2. ASSUME NEW k \in Nat, k \in G PROVE k + 1 \in G
  <2>1. ASSUME NEW J \in SUBSET (1 .. k + 1), J # {} PROVE Top(J)
    <3>1. CASE k + 1 \in J
      BY <2>1, <3>1
    <3>2. CASE k + 1 \notin J
      <4>1. J \in SUBSET (1 .. k)
        BY <2>1, <3>2
      <4> HIDE DEF Top
      <4> QED BY <1>2, <2>1, <4>1
    <3> QED BY <3>1, <3>2
  <2> HIDE DEF Top
  <2> QED BY <2>1
<1> HIDE DEF G
<1>3. n \in G
  BY <1>1, <1>2, NumberInduction
<1>4. PICK m \in I : \A j \in I : m >= j
  BY <1>3 DEF G
<1>5. Max(I) \in I /\ \A j \in I : Max(I) >= j
  BY <1>4 DEF Max
<1>6. I \subseteq Int
  OBVIOUS
<1> QED BY <1>5, <1>6

\* One element taken off a sum.
LEMMA PeelOff ==
  ASSUME NEW f, NEW S, IsFiniteSet(S), \A x \in S : f[x] \in Int, NEW y \in S
  PROVE  SumFunctionOnSet(f, S) = f[y] + SumFunctionOnSet(f, S \ {y})
<1>1. \A s \in SUBSET S : \A x \in s :
        SumFunctionOnSet(f, s) = f[x] + SumFunctionOnSet(f, s \ {x})
  BY SumPeel
<1>2. S \in SUBSET S
  OBVIOUS
<1> QED BY <1>1, <1>2, Zenon

LEMMA EntriesFinite ==
  ASSUME NEW list, NEW o, NEW m
  PROVE  Entries(list, o, m) \subseteq 1 .. Size /\ IsFiniteSet(Entries(list, o, m)) /\ Size \in Nat
<1>1. Size \in Nat
  BY BalancesAssumption
<1>2. Entries(list, o, m) \subseteq 1 .. Size
  BY DEF Entries, Accounts
<1>3. IsFiniteSet(1 .. Size)
  BY <1>1, FS_Interval
<1> QED BY <1>1, <1>2, <1>3, FS_Subset

LEMMA MintsFinite == IsFiniteSet(Mints)
<1>1. IsFiniteSet(1 .. Size) /\ DOMAIN MintOf = 1 .. Size
  BY BalancesAssumption, FS_Interval DEF Accounts
<1> DEFINE f == [a \in 1 .. Size |-> MintOf[a]]
<1>2. /\ f \in [1 .. Size -> Mints]
      /\ \A m \in Mints : \E a \in 1 .. Size : f[a] = m
  BY <1>1 DEF Mints, Range
<1> HIDE DEF f
<1>3. f \in Surjection(1 .. Size, Mints)
  BY <1>2 DEF Surjection
<1> QED BY <1>1, <1>3, FS_Surjection

\* An entry of a list has an amount.
LEMMA EntryAmount ==
  ASSUME NEW list \in [Accounts -> Amounts \cup {Absent}], NEW o, NEW m
  PROVE  \A a \in Entries(list, o, m) : list[a] \in Nat
BY BalancesAssumption DEF Entries

LEMMA HoldingInt ==
  ASSUME NEW list \in [Accounts -> Amounts \cup {Absent}], NEW o, NEW m
  PROVE  Holding(list, o, m) \in Int
<1> DEFINE E == Entries(list, o, m)
<1>1. IsFiniteSet(E) /\ \A a \in E : list[a] \in Int
  BY EntriesFinite, EntryAmount
<1> HIDE DEF E
<1>2. SumFunctionOnSet(list, E) \in Int
  BY <1>1, SumInt
<1> QED BY <1>2 DEF Holding, E

\* What is not listed afterwards was not listed before, and if there is a
\* second account it is the last one that may change.
LEMMA VisibleEntries ==
  ASSUME Visible, NEW o \in Owners, NEW m \in Mints
  PROVE  /\ Entries(pre, o, m) \subseteq Entries(post, o, m)
         /\ \A a, b \in Entries(post, o, m) :
              a < b => pre[a] = post[a] /\ b \in Entries(pre, o, m) /\ a \in Entries(pre, o, m)
BY DEF Visible, Entries

\* The difference of the last entries is the difference of the holdings.
LEMMA DeltaIsChange ==
  ASSUME Listed, Visible, NEW o \in Owners, NEW m \in Mints
  PROVE  Delta(o, m) = Change(o, m) /\ Change(o, m) \in Int
<1> DEFINE P == Entries(post, o, m)
           Q == Entries(pre, o, m)
           k == Max(P)
<1>1. /\ Q \subseteq P /\ P \subseteq 1 .. Size /\ Size \in Nat
      /\ IsFiniteSet(P) /\ IsFiniteSet(Q)
      /\ \A a, b \in P : a < b => pre[a] = post[a] /\ b \in Q /\ a \in Q
  BY VisibleEntries, EntriesFinite
<1>2. (\A a \in P : post[a] \in Int) /\ (\A a \in Q : pre[a] \in Int)
  BY EntryAmount DEF Listed
<1>3. Change(o, m) \in Int
  BY HoldingInt DEF Listed, Change
<1>4. Change(o, m) = SumFunctionOnSet(post, P) - SumFunctionOnSet(pre, Q)
  BY DEF Change, Holding
<1>5. Delta(o, m) = IF P = {} THEN 0 ELSE post[k] - (IF Q = {} THEN 0 ELSE pre[Max(Q)])
  BY DEF Delta, Amount
<1>6. CASE P = {}
  <2>1. Q = {}
    BY <1>1, <1>6
  <2> HIDE DEF P, Q, k
  <2> QED BY <1>3, <1>4, <1>5, <1>6, <2>1, SumEmpty
<1>7. CASE P # {}
  <2>1. k \in P /\ \A a \in P : a <= k
    <3> HIDE DEF P
    <3> QED BY <1>1, <1>7, MaxIn DEF k
  <2> HIDE DEF P, Q, k
  <2>2. \A a \in P : a # k => a < k
    BY <1>1, <2>1
  <2>3. SumFunctionOnSet(post, P) = post[k] + SumFunctionOnSet(post, P \ {k})
    <3>1. IsFiniteSet(P) /\ (\A a \in P : post[a] \in Int) /\ k \in P
      BY <1>1, <1>2, <2>1, Zenon
    <3> QED BY <3>1, PeelOff
  <2>4. CASE k \in Q
    <3>1. Q = P
      BY <1>1, <2>1, <2>2, <2>4
    <3>2. SumFunctionOnSet(pre, P) = pre[k] + SumFunctionOnSet(pre, P \ {k})
      <4>1. IsFiniteSet(P) /\ (\A a \in P : pre[a] \in Int) /\ k \in P
        BY <1>1, <1>2, <2>1, <3>1, Zenon
      <4> QED BY <4>1, PeelOff
    <3>3. SumFunctionOnSet(post, P \ {k}) = SumFunctionOnSet(pre, P \ {k})
      <4>1. IsFiniteSet(P \ {k})
        BY <1>1, FS_Subset
      <4>2. \A a \in P \ {k} : post[a] \in Int /\ post[a] = pre[a]
        BY <1>1, <1>2, <2>1, <2>2
      <4> QED BY <4>1, <4>2, SumSame
    <3>4. SumFunctionOnSet(pre, P \ {k}) \in Int
      BY <1>1, <1>2, <3>1, SumInt
    <3>5. Delta(o, m) = post[k] - pre[k]
      BY <1>5, <1>7, <3>1 DEF k
    <3>6. post[k] \in Int /\ pre[k] \in Int
      BY <1>2, <2>1, <2>4
    <3> QED BY <1>3, <1>4, <2>3, <3>1, <3>2, <3>3, <3>4, <3>5, <3>6
  <2>5. CASE k \notin Q
    <3>1. P = {k} /\ Q = {}
      BY <1>1, <2>1, <2>2, <2>5
    <3>2. SumFunctionOnSet(post, P) = post[k] + 0 /\ SumFunctionOnSet(pre, Q) = 0
      BY <2>3, <3>1, SumEmpty
    <3>3. post[k] \in Int
      BY <1>2, <2>1
    <3> QED BY <1>3, <1>4, <1>5, <1>7, <3>1, <3>2, <3>3
  <2> QED BY <2>4, <2>5
<1> QED BY <1>6, <1>7

LEMMA TotalIsMoved ==
  ASSUME Listed, Visible, NEW o \in Owners
  PROVE  TotalDelta(o) = Moved(o) /\ Moved(o) \in Int
<1> DEFINE d == [m \in Mints |-> Abs(Delta(o, m))]
           c == [m \in Mints |-> Abs(Change(o, m))]
<1>1. \A m \in Mints : Delta(o, m) = Change(o, m) /\ Change(o, m) \in Int
  BY DeltaIsChange
<1>2. \A m \in Mints : d[m] = c[m] /\ c[m] \in Int
  BY <1>1 DEF Abs
<1>3. IsFiniteSet(Mints)
  BY MintsFinite
<1>4. TotalDelta(o) = SumFunctionOnSet(d, Mints) /\ Moved(o) = SumFunctionOnSet(c, Mints)
  BY DEF TotalDelta, Moved
<1> HIDE DEF d, c
<1>5. SumFunctionOnSet(d, Mints) = SumFunctionOnSet(c, Mints)
  BY <1>2, <1>3, SumSame
<1>6. SumFunctionOnSet(c, Mints) \in Int
  BY <1>2, <1>3, SumInt
<1> QED BY <1>4, <1>5, <1>6

\* What the loops over the maps may leave as the swapper and as the output.
LEMMA SwapperGreatest ==
  ASSUME NEW o \in Swappers
  PROVE  /\ o \in Owners /\ TotalDelta(o) > 0
         /\ \A p \in Owners : TotalDelta(p) > 0 => TotalDelta(p) <= TotalDelta(o)
BY DEF Swappers, Greatest

LEMMA OutputGreatest ==
  ASSUME NEW o, NEW m \in OutputMints(o)
  PROVE  /\ m \in Mints /\ Delta(o, m) > 0
         /\ \A n \in Mints : Delta(o, n) > 0 /\ (m \in StableMints \/ n \notin StableMints)
              => Delta(o, n) <= Delta(o, m)
         /\ m \in StableMints => \A n \in Mints \ StableMints : ~(Delta(o, n) > 0)
<1>1. CASE Outputs(o) \ StableMints # {}
  <2>1. m \in Outputs(o) \ StableMints
    BY <1>1 DEF OutputMints, Greatest
  <2>2. \A n \in Outputs(o) \ StableMints : Delta(o, n) <= Delta(o, m)
    BY <1>1 DEF OutputMints, Greatest
  <2> QED BY <2>1, <2>2 DEF Outputs
<1>2. CASE Outputs(o) \ StableMints = {}
  <2>1. m \in Outputs(o)
    BY <1>2 DEF OutputMints, Greatest
  <2>2. \A n \in Outputs(o) : Delta(o, n) <= Delta(o, m)
    BY <1>2 DEF OutputMints, Greatest
  <2> QED BY <1>2, <2>1, <2>2 DEF Outputs
<1> QED BY <1>1, <1>2

\* Whatever is returned comes from one swapper and one of its outputs.
LEMMA ExtractedFrom ==
  ASSUME NEW s \in Extracted, s # NoSwap
  PROVE  \E o \in Swappers : \E m \in OutputMints(o) : s = <<o, m, Delta(o, m)>>
BY DEF Extracted

-----------------------------------------------------------------------------
(* Theorems *)

\* The result was one of those the lists allow, and the lists are still the same.
Returned ==
  /\ Listed
  /\ swap # <<>> => swap \in Extracted

LEMMA SameLists ==
  ASSUME pre' = pre, post' = post PROVE Extracted' = Extracted
<1>1. \A o, m : Delta(o, m)' = Delta(o, m)
  BY DEF Delta, Amount, Entries
<1>2. \A o : TotalDelta(o)' = TotalDelta(o)
  BY <1>1 DEF TotalDelta
<1>3. \A o : Outputs(o)' = Outputs(o)
  BY <1>1 DEF Outputs
<1>4. Swappers' = Swappers
  BY <1>2 DEF Swappers, Greatest
<1>5. \A o : OutputMints(o)' = OutputMints(o)
  BY <1>1, <1>3 DEF OutputMints, Greatest
<1> QED BY <1>1, <1>3, <1>4, <1>5 DEF Extracted

LEMMA AlwaysReturned == Spec => []Returned
<1>1. Init => Returned
  BY DEF Init, Returned, Listed
<1>2. Returned /\ [Next]_<<pre, post, swap>> => Returned'
  <2> SUFFICES ASSUME Returned, [Next]_<<pre, post, swap>> PROVE Returned'
    OBVIOUS
  <2>1. pre' = pre /\ post' = post
    BY DEF Next, ExtractSwapInfo
  <2>2. Extracted' = Extracted /\ Listed'
    BY <2>1, SameLists DEF Returned, Listed
  <2>3. swap' \in Extracted \/ swap' = swap
    BY DEF Next, ExtractSwapInfo
  <2> QED BY <2>2, <2>3 DEF Returned
<1> QED BY <1>1, <1>2, PTL DEF Spec

LEMMA ReturnedMost == Returned => SwapperMovedMost
<1> SUFFICES ASSUME Returned, Visible, swap \notin {<<>>, NoSwap}
             PROVE  /\ \A p \in Owners : Moved(p) <= Moved(swap[1])
                    /\ swap[3] = Change(swap[1], swap[2]) /\ Change(swap[1], swap[2]) > 0
                    /\ \A n \in Mints :
                         Change(swap[1], n) > 0 /\ (swap[2] \in StableMints \/ n \notin StableMints)
                           => Change(swap[1], n) <= Change(swap[1], swap[2])
                    /\ swap[2] \in StableMints =>
                         \A n \in Mints \ StableMints : Change(swap[1], n) <= 0
  BY DEF SwapperMovedMost
<1>1. PICK o \in Swappers : \E m \in OutputMints(o) : swap = <<o, m, Delta(o, m)>>
  BY ExtractedFrom DEF Returned
<1>2. PICK m \in OutputMints(o) : swap = <<o, m, Delta(o, m)>>
  BY <1>1
<1>3. swap[1] = o /\ swap[2] = m /\ swap[3] = Delta(o, m)
  BY <1>2
<1>4. /\ o \in Owners /\ TotalDelta(o) > 0
      /\ \A p \in Owners : TotalDelta(p) > 0 => TotalDelta(p) <= TotalDelta(o)
  BY SwapperGreatest
<1>5. \A p \in Owners : TotalDelta(p) = Moved(p) /\ Moved(p) \in Int
  BY TotalIsMoved DEF Returned
<1>6. \A n \in Mints : Delta(o, n) = Change(o, n) /\ Change(o, n) \in Int
  BY <1>4, DeltaIsChange DEF Returned
<1>7. \A p \in Owners : Moved(p) <= Moved(o)
  BY <1>4, <1>5
<1>8. /\ m \in Mints /\ Delta(o, m) > 0
      /\ \A n \in Mints : Delta(o, n) > 0 /\ (m \in StableMints \/ n \notin StableMints)
           => Delta(o, n) <= Delta(o, m)
      /\ m \in StableMints => \A n \in Mints \ StableMints : ~(Delta(o, n) > 0)
  BY OutputGreatest
<1>9. /\ Change(o, m) > 0
      /\ \A n \in Mints : Change(o, n) > 0 /\ (m \in StableMints \/ n \notin StableMints)
           => Change(o, n) <= Change(o, m)
      /\ m \in StableMints => \A n \in Mints \ StableMints : Change(o, n) <= 0
  BY <1>6, <1>8
<1> QED BY <1>3, <1>6, <1>7, <1>8, <1>9

\* Where balances can be compared, the swapper that extractSwapInfo reports
\* moved the most of all owners and the output is its largest gain, whatever
\* the number of owners, mints and accounts.
THEOREM SwapperIsGreatest == Spec => []SwapperMovedMost
BY AlwaysReturned, ReturnedMost, PTL

\* A set with more than one element has two that differ.
LEMMA TwoElements ==
  ASSUME NEW S, Cardinality(S) > 1 PROVE \E x, y \in S : x # y
<1>1. CASE S = {}
  BY <1>1, FS_EmptySet
<1>2. ASSUME NEW x \in S, S = {x} PROVE FALSE
  BY <1>2, FS_Singleton
<1> QED BY <1>1, <1>2

LEMMA ReturnedDetermined == Returned => UntiedIsDetermined
<1> DEFINE OwnersTie == \E o, p \in Owners : o # p /\ Moved(o) = Moved(p) /\ Moved(o) > 0
           OutputsTie == \E o \in Owners, m, n \in Mints :
                           m # n /\ Change(o, m) = Change(o, n) /\ Change(o, m) > 0
<1> SUFFICES ASSUME Returned, Visible, Cardinality(Extracted) > 1
             PROVE  OwnersTie \/ OutputsTie
  BY DEF UntiedIsDetermined
<1>1. PICK s, t \in Extracted : s # t
  BY TwoElements
<1>2. ASSUME NEW o \in Swappers, NEW p \in Swappers, o # p PROVE OwnersTie
  <2>1. /\ o \in Owners /\ p \in Owners /\ TotalDelta(o) > 0
        /\ TotalDelta(o) <= TotalDelta(p) /\ TotalDelta(p) <= TotalDelta(o)
    BY SwapperGreatest
  <2>2. /\ TotalDelta(o) = Moved(o) /\ Moved(o) \in Int
        /\ TotalDelta(p) = Moved(p) /\ Moved(p) \in Int
    BY <2>1, TotalIsMoved DEF Returned
  <2> QED BY <1>2, <2>1, <2>2
<1>3. ASSUME NEW o \in Swappers, NEW m \in OutputMints(o), NEW n \in OutputMints(o), m # n
      PROVE  OutputsTie
  <2>1. o \in Owners /\ m \in Mints /\ n \in Mints /\ Delta(o, m) > 0
    BY SwapperGreatest, OutputGreatest
  <2>2. Delta(o, m) <= Delta(o, n) /\ Delta(o, n) <= Delta(o, m)
    BY <2>1, OutputGreatest DEF OutputMints, Greatest
  <2>3. /\ Delta(o, m) = Change(o, m) /\ Change(o, m) \in Int
        /\ Delta(o, n) = Change(o, n) /\ Change(o, n) \in Int
    BY <2>1, DeltaIsChange DEF Returned
  <2> QED BY <1>3, <2>1, <2>2, <2>3
<1>4. ASSUME NEW u \in Extracted, NEW v \in Extracted, u = NoSwap, v # NoSwap
      PROVE  OwnersTie
  <2>1. PICK p \in Swappers : \E m \in OutputMints(p) : v = <<p, m, Delta(p, m)>>
    BY <1>4, ExtractedFrom
  <2>2. Outputs(p) # {}
    BY <2>1, OutputGreatest DEF Outputs
  <2>3. Swappers = {} \/ \E o \in Swappers : Outputs(o) = {}
    <3>1. \A o, m : <<o, m, Delta(o, m)>> # NoSwap
      BY DEF NoSwap
    <3> QED BY <1>4, <3>1 DEF Extracted
  <2>4. PICK o \in Swappers : Outputs(o) = {}
    BY <2>1, <2>3
  <2> QED BY <1>2, <2>1, <2>2, <2>4
<1> HIDE DEF OwnersTie, OutputsTie
<1>5. CASE s # NoSwap /\ t # NoSwap
  <2>1. PICK o \in Swappers : \E m \in OutputMints(o) : s = <<o, m, Delta(o, m)>>
    BY <1>5, ExtractedFrom
  <2>2. PICK m \in OutputMints(o) : s = <<o, m, Delta(o, m)>>
    BY <2>1
  <2>3. PICK p \in Swappers : \E n \in OutputMints(p) : t = <<p, n, Delta(p, n)>>
    BY <1>5, ExtractedFrom
  <2>4. PICK n \in OutputMints(p) : t = <<p, n, Delta(p, n)>>
    BY <2>3
  <2>5. CASE o # p
    BY <1>2, <2>5
  <2>6. CASE o = p
    BY <1>1, <1>3, <2>2, <2>4, <2>6
  <2> QED BY <2>5, <2>6
<1> QED BY <1>1, <1>4, <1>5

\* The order in which Go walks the maps decides only between owners that moved
\* the same or outputs that are the same.
THEOREM OrderDecidesTies == Spec => []UntiedIsDetermined
BY AlwaysReturned, ReturnedDetermined, PTL
-----------------------------------------------------------------------------
(* When no swap is found *)

LEMMA OwnersFinite == IsFiniteSet(Owners)
<1>1. IsFiniteSet(1 .. Size) /\ DOMAIN OwnerOf = 1 .. Size
  BY BalancesAssumption, FS_Interval DEF Accounts
<1> DEFINE f == [a \in 1 .. Size |-> OwnerOf[a]]
<1>2. /\ f \in [1 .. Size -> Owners]
      /\ \A o \in Owners : \E a \in 1 .. Size : f[a] = o
  BY <1>1 DEF Owners, Range
<1> HIDE DEF f
<1>3. f \in Surjection(1 .. Size, Owners)
  BY <1>2 DEF Surjection
<1> QED BY <1>1, <1>3, FS_Surjection

\* The differences are numbers, with duplicate and closed accounts too.
LEMMA AmountNat ==
  ASSUME NEW list \in [Accounts -> Amounts \cup {Absent}], NEW o, NEW m
  PROVE  Amount(list, o, m) \in Nat
<1> DEFINE E == Entries(list, o, m)
<1>1. E \subseteq 1 .. Size /\ Size \in Nat
  BY EntriesFinite
<1>2. \A a \in E : list[a] \in Nat
  BY EntryAmount
<1>3. Amount(list, o, m) = IF E = {} THEN 0 ELSE list[Max(E)]
  BY DEF Amount
<1> HIDE DEF E
<1>4. E # {} => Max(E) \in E
  BY <1>1, MaxIn
<1> QED BY <1>2, <1>3, <1>4

LEMMA DeltaInt ==
  ASSUME Listed PROVE \A o, m : Delta(o, m) \in Int /\ Abs(Delta(o, m)) \in Nat
<1>1. \A o, m : Amount(pre, o, m) \in Nat /\ Amount(post, o, m) \in Nat
  BY AmountNat DEF Listed
<1>2. \A o, m : Delta(o, m) \in Int
  BY <1>1 DEF Delta
<1> QED BY <1>2 DEF Abs

LEMMA TotalNat == ASSUME Listed, NEW o PROVE TotalDelta(o) \in Nat
<1> DEFINE d == [m \in Mints |-> Abs(Delta(o, m))]
<1>1. \A m \in Mints : d[m] \in Nat
  BY DeltaInt
<1>2. TotalDelta(o) = SumFunctionOnSet(d, Mints)
  BY DEF TotalDelta
<1> HIDE DEF d
<1> QED BY <1>1, <1>2, MintsFinite, SumNat

\* Each loop over a map that has something to choose from chooses.
LEMMA SomeSwapper ==
  ASSUME Listed, NEW o \in Owners, TotalDelta(o) > 0 PROVE Swappers # {}
<1> DEFINE S == {p \in Owners : TotalDelta(p) > 0}
           f == [p \in Owners |-> TotalDelta(p)]
<1>1. S \subseteq Owners /\ S # {} /\ \A p \in Owners : f[p] \in Int
  BY TotalNat
<1>2. IsFiniteSet(Owners)
  BY OwnersFinite
<1>3. HasGreatest(f, S)
  <2> HIDE DEF S, f
  <2> QED BY <1>1, <1>2, GreatestExists
<1>4. PICK p \in S : \A q \in S : f[q] <= f[p]
  BY <1>3 DEF HasGreatest
<1>5. \A q \in S : TotalDelta(q) <= TotalDelta(p)
  BY <1>4
<1> QED BY <1>5 DEF Swappers, Greatest

LEMMA SomeOutput ==
  ASSUME Listed, NEW o, Outputs(o) # {} PROVE OutputMints(o) # {}
<1> DEFINE others == Outputs(o) \ StableMints
           S == IF others # {} THEN others ELSE Outputs(o)
           f == [m \in Mints |-> Delta(o, m)]
<1>1. S \subseteq Mints /\ S # {} /\ \A m \in Mints : f[m] \in Int
  BY DeltaInt DEF Outputs
<1>2. HasGreatest(f, S)
  <2> HIDE DEF S, f
  <2> QED BY <1>1, MintsFinite, GreatestExists
<1>3. PICK m \in S : \A n \in S : f[n] <= f[m]
  BY <1>2 DEF HasGreatest
<1>4. \A n \in S : Delta(o, n) <= Delta(o, m)
  BY <1>1, <1>3
<1>5. m \in OutputMints(o)
  <2>1. OutputMints(o) = Greatest(S, LAMBDA n : Delta(o, n))
    BY DEF OutputMints
  <2> HIDE DEF S
  <2> QED BY <1>4, <2>1 DEF Greatest
<1> QED BY <1>5

\* The loops over the maps leave a swapper and an output when there is one: there
\* is always something extractSwapInfo may return.
Answers == Extracted # {}

\* extractSwapInfo has an answer for every transaction, one with several accounts
\* of an owner for a mint, with accounts that are opened or closed and with no
\* change at all included: once an owner has changes and gains, both loops choose,
\* so that the checks after them (alchemy_tx_enricher.go:323, 351) find a choice.
THEOREM AlwaysAnswers == Spec => []Answers
<1>1. Returned => Answers
  <2> SUFFICES ASSUME Returned, Extracted = {} PROVE FALSE
    BY DEF Answers
  <2>1. /\ ~(\A a \in Accounts : pre[a] = Absent)
        /\ Swappers # {} /\ \A o \in Swappers : Outputs(o) # {}
    BY DEF Extracted
  <2>2. PICK o \in Swappers : TRUE
    BY <2>1
  <2>3. PICK m \in OutputMints(o) : TRUE
    BY <2>1, SomeOutput DEF Returned
  <2>4. <<o, m, Delta(o, m)>> \in Extracted
    BY <2>1 DEF Extracted
  <2> QED BY <2>4
<1> QED BY <1>1, AlwaysReturned, PTL

\* A swap is missed for a reason: the transaction lists nothing beforehand, no
\* balance changed, or an owner that moved most of all gained nothing.
MissedForAReason ==
  Visible /\ swap = NoSwap =>
    \/ \A a \in Accounts : pre[a] = Absent
    \/ \A o \in Owners : Moved(o) = 0
    \/ \E o \in Owners : /\ \A p \in Owners : Moved(p) <= Moved(o)
                         /\ \A m \in Mints : Change(o, m) <= 0

\* No swap is missed otherwise: nil is never returned when balances existed before,
\* some changed, and each owner that moved most of all gained a token, however many
\* owners, mints and accounts the transaction names.
THEOREM NoSwapHasAReason == Spec => []MissedForAReason
<1>1. Returned => MissedForAReason
  <2> SUFFICES ASSUME Returned, Visible, swap = NoSwap,
                      ~(\A a \in Accounts : pre[a] = Absent)
               PROVE  \/ \A o \in Owners : Moved(o) = 0
                      \/ \E o \in Owners : /\ \A p \in Owners : Moved(p) <= Moved(o)
                                           /\ \A m \in Mints : Change(o, m) <= 0
    BY DEF MissedForAReason
  <2>1. Swappers = {} \/ \E o \in Swappers : Outputs(o) = {}
    <3>1. NoSwap \in Extracted /\ \A o, m : <<o, m, Delta(o, m)>> # NoSwap
      BY DEF Returned, NoSwap
    <3> QED BY <3>1 DEF Extracted
  <2>2. \A o \in Owners : TotalDelta(o) = Moved(o) /\ Moved(o) \in Nat
    BY TotalIsMoved, TotalNat DEF Returned
  <2>3. CASE Swappers = {}
    BY <2>2, <2>3, SomeSwapper DEF Returned
  <2>4. ASSUME NEW o \in Swappers, Outputs(o) = {}
        PROVE  \E q \in Owners : /\ \A p \in Owners : Moved(p) <= Moved(q)
                                /\ \A m \in Mints : Change(q, m) <= 0
    <3>1. /\ o \in Owners /\ TotalDelta(o) > 0
          /\ \A p \in Owners : TotalDelta(p) > 0 => TotalDelta(p) <= TotalDelta(o)
      BY SwapperGreatest
    <3>2. \A p \in Owners : Moved(p) <= Moved(o)
      BY <2>2, <3>1
    <3>3. \A m \in Mints : Delta(o, m) = Change(o, m) /\ Change(o, m) \in Int
      BY <3>1, DeltaIsChange DEF Returned
    <3>4. \A m \in Mints : Change(o, m) <= 0
      BY <2>4, <3>3 DEF Outputs
    <3> QED BY <3>1, <3>2, <3>4
  <2> QED BY <2>1, <2>3, <2>4
<1> QED BY <1>1, AlwaysReturned, PTL

=============================================================================
