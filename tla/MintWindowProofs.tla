------------------------- MODULE MintWindowProofs -------------------------
(***************************************************************************)
(* Theorems about the window of one mint, for every configuration that New *)
(* leaves, every width of the counters and every set of trades.            *)
(***************************************************************************)
EXTENDS MintWindow, FoldLemmas

-----------------------------------------------------------------------------
(* Arithmetic modulo the width of a counter or the length of the ring *)

\* The remainder lies below the modulus, and is the number itself there.
LEMMA ModRange ==
  ASSUME NEW M \in Nat \ {0}
  PROVE  /\ \A x \in Int : x % M \in 0 .. M - 1
         /\ \A x \in 0 .. M - 1 : x % M = x
OBVIOUS

\* A quotient to write a number with.
LEMMA ModDivides ==
  ASSUME NEW M \in Nat \ {0}
  PROVE  \A x \in Int : x \div M \in Int /\ x = (x \div M) * M + (x % M)
OBVIOUS

\* Numbers that differ by a multiple of the modulus have the same remainder.
LEMMA ModEqual ==
  ASSUME NEW M \in Nat \ {0}, NEW x \in Int, NEW y \in Int, NEW k \in Int,
         y = x + k * M
  PROVE  y % M = x % M
<1> DEFINE a == x \div M
           b == y \div M
           p == x % M
           q == y % M
<1>1. /\ p \in 0 .. M - 1 /\ q \in 0 .. M - 1
      /\ a \in Int /\ x = a * M + p
      /\ b \in Int /\ y = b * M + q
  BY ModRange, ModDivides
<1> HIDE DEF a, b, p, q
<1>2. b * M + q = (a + k) * M + p
  BY <1>1
<1>3. p = q
  <2> DEFINE c == a + k
  <2>1. c \in Int /\ b * M + q = c * M + p
    BY <1>1, <1>2
  <2> HIDE DEF c
  <2> QED BY <1>1, <2>1
<1> QED BY <1>3 DEF p, q

\* Products of what is not negative, and how they compare.
LEMMA ProductNat == \A a, b \in Nat : a * b \in Nat
OBVIOUS

LEMMA ProductPositive == \A a, b \in Nat \ {0} : a * b \in Nat \ {0}
OBVIOUS

LEMMA ProductMonotone == \A a, b, c \in Nat : a <= b => c * a <= c * b
OBVIOUS

-----------------------------------------------------------------------------
(* The pieces of advance and process *)

\* The slots advance clears are slots of the ring, and there are finitely many.
LEMMA ExpiredSlots ==
  ASSUME TypeOK, NEW ts \in Seconds
  PROVE  IsFiniteSet(Slot) /\ Expired(ts) \in SUBSET Slot
<1>1. IsFiniteSet(Slot)
  BY FS_Interval, ConfigAssumption DEF Slot
<1>2. ts \in Nat /\ StandsAt(ts) \in Nat
  BY InputAssumption DEF TypeOK, StandsAt
<1>3. Steps(ts) \in Int
  BY <1>2, ConfigAssumption DEF Steps
<1>4. \A i \in 1 .. Steps(ts) : (StandsAt(ts) + i) % WindowSec \in Slot
  <2>1. WindowSec \in Nat \ {0}
    BY ConfigAssumption
  <2>2. \A x \in Int : x % WindowSec \in Slot
    BY <2>1, ModRange DEF Slot
  <2>3. \A i \in 1 .. Steps(ts) : StandsAt(ts) + i \in Int
    BY <1>2, <1>3
  <2> QED BY <2>2, <2>3
<1> QED BY <1>1, <1>4 DEF Expired

\* A total after advance is an integer, negative perhaps, that % brings back.
LEMMA RemainingInt ==
  ASSUME TypeOK, NEW ts \in Seconds
  PROVE  /\ Remaining(totalVol, volSlots, ts) \in Int
         /\ Remaining(totalCnt, cntSlots, ts) \in Int
<1>1. IsFiniteSet(Slot) /\ Expired(ts) \in SUBSET Slot
  BY ExpiredSlots
<1>2. /\ \A i \in Slot : volSlots[i] \in Int
      /\ \A i \in Slot : cntSlots[i] \in Int
      /\ totalVol \in Int /\ totalCnt \in Int
  BY DEF TypeOK
<1>3. SumFunctionOnSet(volSlots, Expired(ts)) \in Int
  BY <1>1, <1>2, SumInt
<1>4. SumFunctionOnSet(cntSlots, Expired(ts)) \in Int
  BY <1>1, <1>2, SumInt
<1> QED BY <1>2, <1>3, <1>4 DEF Remaining

\* What a trade leaves, with the volume it reads back named by totalVol'.
LEMMA TradeStep ==
  ASSUME TypeOK, NEW ts \in Seconds, NEW amt \in Amounts, Trade(ts, amt)
  PROVE  /\ known' = TRUE
         /\ trades' = trades + 1 /\ trades < MaxTrades
         /\ ts + MaxLag >= StandsAt(ts)
         /\ totalVol' = (Remaining(totalVol, volSlots, ts) + amt) % VolMod
         /\ totalCnt' = (Remaining(totalCnt, cntSlots, ts) + 1) % CntMod
         /\ totalVol' \in 0 .. VolMod - 1
         /\ totalCnt' \in 0 .. CntMod - 1
         /\ volSlots' = [Cleared(volSlots, ts) EXCEPT
                            ![ts % WindowSec] = (@ + amt) % VolMod]
         /\ cntSlots' = [Cleared(cntSlots, ts) EXCEPT
                            ![ts % WindowSec] = (@ + 1) % CntMod]
         /\ lastSec' = NewLastSec(ts)
         /\ ewmaNum' = BlendedNum(totalVol')
         /\ ewmaDen' = BlendedDen
         /\ counted' = [i \in Slot |->
                          (IF i \in Expired(ts) THEN {} ELSE counted[i])
                            \cup (IF i = ts % WindowSec THEN {ts} ELSE {})]
         /\ \/ /\ Fires(ts, totalVol', totalCnt', ewmaNum', ewmaDen')
               /\ lastAlertSec' = ts
               /\ alerts' = Append(alerts,
                              [at |-> ts, vol |-> totalVol', cnt |-> totalCnt'])
            \/ UNCHANGED <<lastAlertSec, alerts>>
<1>1. Process(ts, amt) /\ trades' = trades + 1 /\ trades < MaxTrades
        /\ ts + MaxLag >= StandsAt(ts)
  BY DEF Trade
<1>2. /\ known' = TRUE
      /\ totalVol' = (Remaining(totalVol, volSlots, ts) + amt) % VolMod
      /\ totalCnt' = (Remaining(totalCnt, cntSlots, ts) + 1) % CntMod
      /\ lastSec' = NewLastSec(ts)
      /\ ewmaDen' = BlendedDen
  BY <1>1 DEF Process, Apply
<1>3. ewmaNum' = BlendedNum(totalVol')
  BY <1>1 DEF Process, Apply
<1>4. /\ volSlots' = [Cleared(volSlots, ts) EXCEPT
                         ![ts % WindowSec] = (@ + amt) % VolMod]
      /\ cntSlots' = [Cleared(cntSlots, ts) EXCEPT
                         ![ts % WindowSec] = (@ + 1) % CntMod]
  BY <1>1 DEF Process, Apply
<1>5. counted' = [i \in Slot |->
                   (IF i \in Expired(ts) THEN {} ELSE counted[i])
                     \cup (IF i = ts % WindowSec THEN {ts} ELSE {})]
  BY <1>1, Zenon DEF Process, Apply
<1>6. \/ /\ Fires(ts, totalVol', totalCnt', ewmaNum', ewmaDen')
         /\ lastAlertSec' = ts
         /\ alerts' = Append(alerts,
                        [at |-> ts, vol |-> totalVol', cnt |-> totalCnt'])
      \/ UNCHANGED <<lastAlertSec, alerts>>
  BY <1>1, <1>2, <1>3 DEF Process, Apply
<1>7. totalVol' \in 0 .. VolMod - 1 /\ totalCnt' \in 0 .. CntMod - 1
  <2>1. amt \in Int /\ VolMod \in Nat \ {0} /\ CntMod \in Nat \ {0}
    BY ConfigAssumption, InputAssumption
  <2>2. /\ Remaining(totalVol, volSlots, ts) + amt \in Int
        /\ Remaining(totalCnt, cntSlots, ts) + 1 \in Int
    BY <2>1, RemainingInt
  <2> QED BY <1>2, <2>1, <2>2, ModRange
<1> QED BY <1>1, <1>2, <1>3, <1>4, <1>5, <1>6, <1>7

\* The new baseline is a fraction of naturals.
LEMMA BlendTyped ==
  ASSUME TypeOK, NEW cur \in Nat
  PROVE  BlendedNum(cur) \in Nat /\ BlendedDen \in Nat \ {0}
<1>1. /\ AlphaNum \in Nat \ {0} /\ AlphaDen \in Nat \ {0}
      /\ AlphaDen - AlphaNum \in Nat \ {0}
      /\ ewmaNum \in Nat /\ ewmaDen \in Nat \ {0}
  BY ConfigAssumption DEF TypeOK
<1>2. /\ AlphaNum * cur * ewmaDen \in Nat
      /\ (AlphaDen - AlphaNum) * ewmaNum \in Nat
      /\ AlphaDen * ewmaDen \in Nat \ {0}
  BY <1>1, ProductNat, ProductPositive
<1> QED BY <1>1, <1>2 DEF BlendedNum, BlendedDen

\* Adding to one slot keeps every slot below the width of its counter.
LEMMA SlotsTyped ==
  ASSUME TypeOK, NEW ts \in Seconds, NEW M \in Nat \ {0},
         NEW slots \in [Slot -> 0 .. M - 1], NEW n \in Nat
  PROVE  [Cleared(slots, ts) EXCEPT ![ts % WindowSec] = (@ + n) % M]
           \in [Slot -> 0 .. M - 1]
<1>1. Cleared(slots, ts) \in [Slot -> 0 .. M - 1]
  BY DEF Cleared
<1> DEFINE c == Cleared(slots, ts)
<1> HIDE DEF c
<1>2. \A i \in Slot : (c[i] + n) % M \in 0 .. M - 1
  BY <1>1, ModRange DEF c
<1> QED BY <1>1, <1>2 DEF c

-----------------------------------------------------------------------------
(* Type correctness *)

\* The slot a trade goes to is a slot of the ring.
LEMMA SlotOfTrade == \A ts \in Seconds : ts % WindowSec \in Slot
<1>1. WindowSec \in Nat \ {0} /\ \A ts \in Seconds : ts \in Int
  BY ConfigAssumption, InputAssumption
<1> QED BY <1>1, ModRange DEF Slot

LEMMA TypeInit == Init => TypeOK
<1> HAVE Init
<1>1. /\ VolMod \in Nat \ {0} /\ CntMod \in Nat \ {0} /\ MaxTrades \in Nat
  BY ConfigAssumption, InputAssumption
<1>2. /\ lastSec \in Nat /\ lastAlertSec \in Nat
      /\ ewmaNum \in Nat /\ ewmaDen \in Nat \ {0} /\ trades \in 0 .. MaxTrades
      /\ totalVol \in 0 .. VolMod - 1 /\ totalCnt \in 0 .. CntMod - 1
  <2>1. /\ lastSec = 0 /\ lastAlertSec = 0 /\ trades = 0
        /\ ewmaNum = 0 /\ ewmaDen = 1 /\ totalVol = 0 /\ totalCnt = 0
    BY DEF Init
  <2>2. 0 \in 0 .. MaxTrades /\ 0 \in 0 .. VolMod - 1 /\ 0 \in 0 .. CntMod - 1
    BY <1>1
  <2> QED BY <2>1, <2>2
<1>3. /\ volSlots \in [Slot -> 0 .. VolMod - 1]
      /\ cntSlots \in [Slot -> 0 .. CntMod - 1]
      /\ counted \in [Slot -> SUBSET Seconds]
  BY <1>1 DEF Init
<1>4. alerts \in Seq([at : Seconds, vol : 0 .. VolMod - 1, cnt : 0 .. CntMod - 1])
  BY DEF Init
<1>5. known \in BOOLEAN
  BY DEF Init
<1> QED BY <1>2, <1>3, <1>4, <1>5 DEF TypeOK

LEMMA TypeStep ==
  ASSUME TypeOK, NEW ts \in Seconds, NEW amt \in Amounts, Trade(ts, amt)
  PROVE  TypeOK'
<1>1. /\ VolMod \in Nat \ {0} /\ CntMod \in Nat \ {0} /\ MaxTrades \in Nat
      /\ ts \in Nat /\ amt \in Nat
  BY ConfigAssumption, InputAssumption
<1>2. known' \in BOOLEAN /\ trades' \in 0 .. MaxTrades
  <2>1. known' = TRUE /\ trades' = trades + 1 /\ trades < MaxTrades
    BY TradeStep, Zenon
  <2>2. trades \in 0 .. MaxTrades
    BY DEF TypeOK
  <2> QED BY <1>1, <2>1, <2>2
<1>3. totalVol' \in 0 .. VolMod - 1 /\ totalCnt' \in 0 .. CntMod - 1
  BY TradeStep
<1>4. volSlots' \in [Slot -> 0 .. VolMod - 1]
  <2>1. volSlots \in [Slot -> 0 .. VolMod - 1]
    BY DEF TypeOK
  <2>2. volSlots' = [Cleared(volSlots, ts) EXCEPT
                       ![ts % WindowSec] = (@ + amt) % VolMod]
    BY TradeStep, Zenon
  <2>3. [Cleared(volSlots, ts) EXCEPT ![ts % WindowSec] = (@ + amt) % VolMod]
          \in [Slot -> 0 .. VolMod - 1]
    BY <1>1, <2>1, SlotsTyped
  <2> QED BY <2>2, <2>3
<1>5. cntSlots' \in [Slot -> 0 .. CntMod - 1]
  <2>1. cntSlots \in [Slot -> 0 .. CntMod - 1]
    BY DEF TypeOK
  <2>2. cntSlots' = [Cleared(cntSlots, ts) EXCEPT
                       ![ts % WindowSec] = (@ + 1) % CntMod]
    BY TradeStep, Zenon
  <2>3. [Cleared(cntSlots, ts) EXCEPT ![ts % WindowSec] = (@ + 1) % CntMod]
          \in [Slot -> 0 .. CntMod - 1]
    BY <1>1, <2>1, SlotsTyped
  <2> QED BY <2>2, <2>3
<1>6. lastSec' \in Nat
  BY <1>1, TradeStep DEF TypeOK, NewLastSec, StandsAt
<1>7. ewmaNum' \in Nat /\ ewmaDen' \in Nat \ {0}
  <2>1. totalVol' \in Nat
    BY <1>1, <1>3
  <2> QED BY <2>1, TradeStep, BlendTyped
<1>8. lastAlertSec' \in Nat
  BY <1>1, TradeStep DEF TypeOK
<1>9. alerts' \in Seq([at : Seconds, vol : 0 .. VolMod - 1, cnt : 0 .. CntMod - 1])
  <2> DEFINE A == [at : Seconds, vol : 0 .. VolMod - 1, cnt : 0 .. CntMod - 1]
             a == [at |-> ts, vol |-> totalVol', cnt |-> totalCnt']
  <2>1. a \in A /\ alerts \in Seq(A)
    BY <1>3 DEF TypeOK
  <2>2. alerts' = Append(alerts, a) \/ alerts' = alerts
    BY TradeStep, Zenon
  <2> HIDE DEF A, a
  <2>3. alerts' \in Seq(A)
    BY <2>1, <2>2
  <2> QED BY <2>3 DEF A
<1>10. counted' \in [Slot -> SUBSET Seconds]
  <2>1. counted' = [i \in Slot |->
                     (IF i \in Expired(ts) THEN {} ELSE counted[i])
                       \cup (IF i = ts % WindowSec THEN {ts} ELSE {})]
    BY TradeStep, Zenon
  <2>2. counted \in [Slot -> SUBSET Seconds]
    BY DEF TypeOK
  <2> QED BY <2>1, <2>2
<1> QED BY <1>2, <1>3, <1>4, <1>5, <1>6, <1>7, <1>8, <1>9, <1>10 DEF TypeOK

\* The window's variables keep their types and widths: no total, no slot and
\* no alert ever holds more than its counter can (mintWindow, process).
THEOREM TypeCorrect == Spec => []TypeOK
<1>1. TypeOK /\ [Next]_vars => TypeOK'
  <2> SUFFICES ASSUME TypeOK, [Next]_vars PROVE TypeOK'
    OBVIOUS
  <2>1. CASE Next
    BY <2>1, TypeStep DEF Next
  <2>2. CASE UNCHANGED vars
    BY <2>2 DEF vars, TypeOK
  <2> QED BY <2>1, <2>2
<1> QED BY <1>1, TypeInit, PTL DEF Spec

-----------------------------------------------------------------------------
(* The totals *)

\* One array of slots and its total, through advance and the addition of n:
\* modulo the width of the counter the total is still the sum of the slots.
LEMMA TotalStep ==
  ASSUME TypeOK, NEW ts \in Seconds, NEW M \in Nat \ {0}, NEW n \in Nat,
         NEW slots \in [Slot -> 0 .. M - 1], NEW total \in Nat,
         total = SumFunctionOnSet(slots, Slot) % M
  PROVE  (Remaining(total, slots, ts) + n) % M
           = SumFunctionOnSet([Cleared(slots, ts) EXCEPT
                                 ![ts % WindowSec] = (@ + n) % M], Slot) % M
<1> DEFINE c == Cleared(slots, ts)
           k == ts % WindowSec
           added == [c EXCEPT ![k] = (@ + n) % M]
           sum == SumFunctionOnSet(slots, Slot)
           gone == SumFunctionOnSet(slots, Expired(ts))
           next == SumFunctionOnSet(added, Slot)
<1>1. IsFiniteSet(Slot) /\ Expired(ts) \in SUBSET Slot /\ k \in Slot
  BY ExpiredSlots, SlotOfTrade
<1>2. slots \in [Slot -> Int] /\ c \in [Slot -> Int]
  BY DEF Cleared
<1>3. sum \in Int /\ gone \in Int
  BY <1>1, <1>2, SumInt
<1>4. SumFunctionOnSet(c, Slot) = sum - gone
  BY <1>1, <1>2, SumCleared DEF Cleared
<1> HIDE DEF c, k
<1>5. c[k] \in Int /\ c[k] + n \in Int
  BY <1>1, <1>2
<1>6. (c[k] + n) % M \in Int
  BY <1>5, ModRange
<1>7. added \in [Slot -> Int] /\ added[k] = (c[k] + n) % M
        /\ \A x \in Slot \ {k} : added[x] = c[x]
  BY <1>1, <1>2, <1>6
<1> HIDE DEF added
<1>8. next = (sum - gone) - c[k] + ((c[k] + n) % M)
  BY <1>1, <1>2, <1>4, <1>7, SumUpdate
<1> HIDE DEF sum, gone, next
<1> DEFINE q == sum \div M
           r == (c[k] + n) \div M
           left == total - gone + n
<1>9. q \in Int /\ sum = q * M + total
  BY <1>3, ModDivides DEF sum
<1>10. r \in Int /\ c[k] + n = (r * M) + ((c[k] + n) % M)
  BY <1>5, ModDivides
<1> HIDE DEF q, r
<1>11. next = left + ((q - r) * M)
  BY <1>3, <1>5, <1>6, <1>8, <1>9, <1>10
<1>12. left \in Int /\ q - r \in Int /\ next \in Int
  BY <1>3, <1>5, <1>6, <1>8, <1>9, <1>10
<1> DEFINE d == q - r
<1> HIDE DEF left, d
<1>13. next % M = left % M
  BY <1>11, <1>12, ModEqual DEF d
<1> QED BY <1>13 DEF left, next, added, c, k, gone, Remaining

\* The total of a ring is the sum over its slots.
LEMMA SumOfSlots ==
  ASSUME TypeOK
  PROVE  /\ SumFunction(volSlots) = SumFunctionOnSet(volSlots, Slot)
         /\ SumFunction(cntSlots) = SumFunctionOnSet(cntSlots, Slot)
<1>1. DOMAIN volSlots = Slot /\ DOMAIN cntSlots = Slot
  BY DEF TypeOK
<1> QED BY <1>1, Zenon DEF SumFunction

LEMMA TotalsStep ==
  ASSUME TypeOK, TotalsMatchSlots,
         NEW ts \in Seconds, NEW amt \in Amounts, Trade(ts, amt)
  PROVE  TotalsMatchSlots'
<1>1. /\ VolMod \in Nat \ {0} /\ CntMod \in Nat \ {0} /\ amt \in Nat /\ 1 \in Nat
  BY ConfigAssumption, InputAssumption
<1>2. totalVol \in Nat /\ totalCnt \in Nat
  BY <1>1 DEF TypeOK
<1>3. volSlots \in [Slot -> 0 .. VolMod - 1] /\ cntSlots \in [Slot -> 0 .. CntMod - 1]
  BY DEF TypeOK
<1>4. /\ totalVol = SumFunctionOnSet(volSlots, Slot) % VolMod
      /\ totalCnt = SumFunctionOnSet(cntSlots, Slot) % CntMod
  BY SumOfSlots DEF TotalsMatchSlots
<1>5. /\ totalVol' = (Remaining(totalVol, volSlots, ts) + amt) % VolMod
      /\ totalCnt' = (Remaining(totalCnt, cntSlots, ts) + 1) % CntMod
      /\ volSlots' = [Cleared(volSlots, ts) EXCEPT
                         ![ts % WindowSec] = (@ + amt) % VolMod]
      /\ cntSlots' = [Cleared(cntSlots, ts) EXCEPT
                         ![ts % WindowSec] = (@ + 1) % CntMod]
  BY TradeStep, Zenon
<1>6. totalVol' = SumFunctionOnSet(volSlots', Slot) % VolMod
  <2>1. (Remaining(totalVol, volSlots, ts) + amt) % VolMod
          = SumFunctionOnSet([Cleared(volSlots, ts) EXCEPT
                                ![ts % WindowSec] = (@ + amt) % VolMod], Slot) % VolMod
    BY <1>1, <1>2, <1>3, <1>4, TotalStep
  <2> QED BY <1>5, <2>1
<1>7. totalCnt' = SumFunctionOnSet(cntSlots', Slot) % CntMod
  <2>1. (Remaining(totalCnt, cntSlots, ts) + 1) % CntMod
          = SumFunctionOnSet([Cleared(cntSlots, ts) EXCEPT
                                ![ts % WindowSec] = (@ + 1) % CntMod], Slot) % CntMod
    BY <1>1, <1>2, <1>3, <1>4, TotalStep
  <2> QED BY <1>5, <2>1
<1>8. DOMAIN volSlots' = Slot /\ DOMAIN cntSlots' = Slot
  <2>1. TypeOK'
    BY TypeStep
  <2> QED BY <2>1 DEF TypeOK
<1> QED BY <1>6, <1>7, <1>8, Zenon DEF TotalsMatchSlots, SumFunction

LEMMA TotalsInit == Init => TotalsMatchSlots
<1> HAVE Init
<1>1. TypeOK /\ IsFiniteSet(Slot) /\ Slot \in SUBSET Slot
  BY TypeInit, FS_Interval, ConfigAssumption DEF Slot
<1>2. (\A i \in Slot : volSlots[i] = 0) /\ (\A i \in Slot : cntSlots[i] = 0)
  BY DEF Init
<1>3. SumFunctionOnSet(volSlots, Slot) = 0
  BY <1>1, <1>2, SumZero
<1>4. SumFunctionOnSet(cntSlots, Slot) = 0
  BY <1>1, <1>2, SumZero
<1>5. 0 % VolMod = 0 /\ 0 % CntMod = 0
  BY ConfigAssumption, ModRange
<1>6. totalVol = 0 /\ totalCnt = 0
  BY DEF Init
<1> QED BY <1>1, <1>3, <1>4, <1>5, <1>6, SumOfSlots DEF TotalsMatchSlots

\* The running totals stay the sums of the slots modulo the widths of the
\* counters, however often a slot or a total wraps around (advance, process).
THEOREM TotalsAreSums == Spec => []TotalsMatchSlots
<1>1. TypeOK /\ TotalsMatchSlots /\ [Next]_vars => TotalsMatchSlots'
  <2> SUFFICES ASSUME TypeOK, TotalsMatchSlots, [Next]_vars
               PROVE  TotalsMatchSlots'
    OBVIOUS
  <2>1. CASE Next
    BY <2>1, TotalsStep DEF Next
  <2>2. CASE UNCHANGED vars
    BY <2>2 DEF vars, TotalsMatchSlots
  <2> QED BY <2>1, <2>2
<1> QED BY <1>1, TotalsInit, TypeCorrect, PTL DEF Spec

-----------------------------------------------------------------------------
(* The cooldown *)

\* No alert is later than lastAlertSec: with the signed test of process this
\* is what keeps a late trade from alerting or from moving lastAlertSec back.
AlertsBehind == \A i \in DOMAIN alerts : alerts[i].at <= lastAlertSec

LEMMA SpacedStep ==
  ASSUME TypeOK, AlertsBehind, AlertsSpaced,
         NEW ts \in Seconds, NEW amt \in Amounts, Trade(ts, amt)
  PROVE  AlertsBehind' /\ AlertsSpaced'
<1> DEFINE A == [at : Seconds, vol : 0 .. VolMod - 1, cnt : 0 .. CntMod - 1]
           a == [at |-> ts, vol |-> totalVol', cnt |-> totalCnt']
<1>1. CASE UNCHANGED <<lastAlertSec, alerts>>
  BY <1>1 DEF AlertsBehind, AlertsSpaced
<1>2. CASE /\ Fires(ts, totalVol', totalCnt', ewmaNum', ewmaDen')
           /\ lastAlertSec' = ts
           /\ alerts' = Append(alerts, a)
  <2>1. ts - lastAlertSec >= AlertCooldownSec
    BY <1>2 DEF Fires
  <2>2. /\ AlertCooldownSec \in Nat \ {0} /\ ts \in Nat /\ lastAlertSec \in Nat
        /\ Seconds \subseteq Nat
    BY ConfigAssumption, InputAssumption DEF TypeOK
  <2>3. alerts \in Seq(A) /\ a.at = ts
    BY DEF TypeOK
  <2>4. \A i \in DOMAIN alerts : alerts[i].at \in Nat /\ alerts[i].at <= lastAlertSec
    <3>1. \A x \in A : x.at \in Nat
      BY <2>2
    <3> HIDE DEF A
    <3>2. \A i \in DOMAIN alerts : alerts[i] \in A
      BY <2>3
    <3> QED BY <3>1, <3>2 DEF AlertsBehind
  <2> HIDE DEF A, a
  <2>5. /\ DOMAIN alerts' = 1 .. Len(alerts) + 1
        /\ DOMAIN alerts = 1 .. Len(alerts) /\ Len(alerts) \in Nat
        /\ \A i \in 1 .. Len(alerts) : alerts'[i] = alerts[i]
        /\ alerts'[Len(alerts) + 1] = a
    BY <1>2, <2>3
  <2>6. \A i \in DOMAIN alerts' :
          \/ i \in DOMAIN alerts /\ alerts'[i] = alerts[i]
          \/ i = Len(alerts) + 1 /\ alerts'[i].at = ts
    BY <2>3, <2>5
  <2>7. AlertsBehind'
    <3>1. ASSUME NEW i \in DOMAIN alerts' PROVE alerts'[i].at <= ts
      BY <2>1, <2>2, <2>4, <2>6
    <3> QED BY <1>2, <3>1 DEF AlertsBehind
  <2>8. AlertsSpaced'
    <3>1. ASSUME NEW i \in DOMAIN alerts', NEW j \in DOMAIN alerts', i < j
          PROVE  alerts'[j].at - alerts'[i].at >= AlertCooldownSec
      <4>1. CASE j \in DOMAIN alerts
        <5>1. i \in DOMAIN alerts /\ alerts'[i] = alerts[i] /\ alerts'[j] = alerts[j]
          BY <2>5, <3>1, <4>1
        <5> QED BY <3>1, <4>1, <5>1 DEF AlertsSpaced
      <4>2. CASE j = Len(alerts) + 1
        <5>1. i \in DOMAIN alerts /\ alerts'[i] = alerts[i] /\ alerts'[j].at = ts
          BY <2>3, <2>5, <3>1, <4>2
        <5>2. alerts[i].at \in Nat /\ alerts[i].at <= lastAlertSec
          BY <2>4, <5>1
        <5> QED BY <2>1, <2>2, <5>1, <5>2
      <4> QED BY <2>6, <4>1, <4>2
    <3> QED BY <3>1 DEF AlertsSpaced
  <2> QED BY <2>7, <2>8
<1> QED BY <1>1, <1>2, TradeStep, Zenon

\* Two alerts of a mint are at least the cooldown apart by the timestamps of
\* their trades, for any order in which the trades arrive and any lag: the
\* proof nowhere uses MaxLag (the cooldown test of process).
THEOREM CooldownHolds == Spec => []AlertsSpaced
<1>1. Init => AlertsBehind /\ AlertsSpaced
  BY DEF Init, AlertsBehind, AlertsSpaced
<1>2. TypeOK /\ AlertsBehind /\ AlertsSpaced /\ [Next]_vars
        => AlertsBehind' /\ AlertsSpaced'
  <2> SUFFICES ASSUME TypeOK, AlertsBehind, AlertsSpaced, [Next]_vars
               PROVE  AlertsBehind' /\ AlertsSpaced'
    OBVIOUS
  <2>1. CASE Next
    BY <2>1, SpacedStep DEF Next
  <2>2. CASE UNCHANGED vars
    BY <2>2 DEF vars, AlertsBehind, AlertsSpaced
  <2> QED BY <2>1, <2>2
<1> QED BY <1>1, <1>2, TypeCorrect, PTL DEF Spec

-----------------------------------------------------------------------------
(* The baseline and the thresholds *)

\* A mint without a window has no volume and no baseline.
Fresh == ~known => totalVol = 0 /\ ewmaNum = 0

\* The first trade of a mint is its whole volume and its baseline.
LEMMA FirstTrade ==
  ASSUME TypeOK, Fresh, ~known,
         NEW ts \in Seconds, NEW amt \in Amounts, Trade(ts, amt)
  PROVE  totalVol' = amt /\ ewmaNum' = amt /\ ewmaDen' = 1
<1>1. /\ VolMod \in Nat \ {0} /\ amt \in 1 .. VolMod - 1
      /\ WindowSec \in Nat \ {0} /\ ts \in Nat
  BY ConfigAssumption, InputAssumption
<1>2. Expired(ts) = {}
  <2>1. StandsAt(ts) = ts
    BY DEF StandsAt
  <2>2. Steps(ts) = 0
    BY <1>1, <2>1 DEF Steps
  <2> QED BY <2>2 DEF Expired
<1>3. totalVol = 0 /\ ewmaNum = 0
  BY DEF Fresh
<1>4. Remaining(totalVol, volSlots, ts) = 0
  BY <1>2, <1>3, SumEmpty DEF Remaining
<1>5. totalVol' = (Remaining(totalVol, volSlots, ts) + amt) % VolMod
  BY TradeStep, Zenon
<1>6. totalVol' = amt
  <2>1. amt % VolMod = amt
    <3>1. amt \in 0 .. VolMod - 1 /\ VolMod \in Nat \ {0}
      BY <1>1
    <3>2. \A x \in 0 .. VolMod - 1 : x % VolMod = x
      BY <3>1, ModRange, Zenon
    <3> QED BY <3>1, <3>2, Zenon
  <2>2. 0 + amt = amt
    BY <1>1
  <2> QED BY <1>4, <1>5, <2>1, <2>2
<1>7. ewmaNum' = BlendedNum(totalVol') /\ ewmaDen' = BlendedDen
  BY TradeStep, Zenon
<1> QED BY <1>3, <1>6, <1>7 DEF BlendedNum, BlendedDen

\* A later trade mixes the volume into the baseline.
LEMMA LaterTrade ==
  ASSUME TypeOK, ewmaNum > 0,
         NEW ts \in Seconds, NEW amt \in Amounts, Trade(ts, amt)
  PROVE  /\ ewmaNum' = AlphaNum * totalVol' * ewmaDen
                         + (AlphaDen - AlphaNum) * ewmaNum
         /\ ewmaDen' = AlphaDen * ewmaDen
         /\ ewmaNum' > 0
<1>1. /\ ewmaNum' = BlendedNum(totalVol') /\ ewmaDen' = BlendedDen
      /\ totalVol' \in 0 .. VolMod - 1
  BY TradeStep, Zenon
<1>2. /\ ewmaNum' = AlphaNum * totalVol' * ewmaDen
                      + (AlphaDen - AlphaNum) * ewmaNum
      /\ ewmaDen' = AlphaDen * ewmaDen
  BY <1>1 DEF BlendedNum, BlendedDen
<1>3. /\ AlphaNum \in Nat /\ AlphaDen - AlphaNum \in Nat \ {0}
      /\ totalVol' \in Nat /\ ewmaDen \in Nat /\ ewmaNum \in Nat \ {0}
  BY <1>1, ConfigAssumption DEF TypeOK
<1>4. AlphaNum * totalVol' * ewmaDen \in Nat
  BY <1>3, ProductNat
<1>5. (AlphaDen - AlphaNum) * ewmaNum \in Nat \ {0}
  BY <1>3, ProductPositive
<1> QED BY <1>2, <1>4, <1>5

LEMMA BaselineStep ==
  ASSUME TypeOK, Fresh, BaselineBounded,
         NEW ts \in Seconds, NEW amt \in Amounts, Trade(ts, amt)
  PROVE  Fresh' /\ BaselineBounded'
<1>1. known' = TRUE
  BY TradeStep, Zenon
<1>2. Fresh'
  BY <1>1 DEF Fresh
<1>3. CASE ~known
  <2>1. totalVol' = amt /\ ewmaNum' = amt /\ ewmaDen' = 1
    BY <1>3, FirstTrade
  <2>2. VolMod \in Nat \ {0} /\ amt \in 1 .. VolMod - 1
    BY ConfigAssumption, InputAssumption
  <2>3. ewmaNum' > 0 /\ ewmaNum' <= (VolMod - 1) * ewmaDen'
    BY <2>1, <2>2
  <2> QED BY <1>2, <2>3 DEF BaselineBounded
<1>4. CASE known
  <2> DEFINE top == VolMod - 1
             rest == AlphaDen - AlphaNum
             cur == totalVol'
             d == ewmaDen
  <2>1. ewmaNum > 0 /\ ewmaNum <= top * d
    BY <1>4 DEF BaselineBounded
  <2>2. /\ ewmaNum' = AlphaNum * cur * d + rest * ewmaNum
        /\ ewmaDen' = AlphaDen * d /\ ewmaNum' > 0
    BY <2>1, LaterTrade
  <2>3. /\ AlphaNum \in Nat /\ rest \in Nat /\ top \in Nat /\ d \in Nat
        /\ ewmaNum \in Nat /\ cur \in Nat /\ cur <= top
        /\ AlphaDen = AlphaNum + rest
    <3>1. totalVol' \in 0 .. VolMod - 1
      BY TradeStep, Zenon
    <3> QED BY <3>1, ConfigAssumption DEF TypeOK
  <2> HIDE DEF top, rest, cur, d
  <2>4. AlphaNum * cur * d <= AlphaNum * top * d
    <3>1. AlphaNum * cur <= AlphaNum * top
      BY <2>3, ProductMonotone
    <3>2. AlphaNum * cur \in Nat /\ AlphaNum * top \in Nat
      BY <2>3, ProductNat
    <3> QED BY <2>3, <3>1, <3>2
  <2>5. rest * ewmaNum <= rest * (top * d)
    BY <2>1, <2>3, ProductNat, ProductMonotone
  <2>6. AlphaNum * top * d + rest * (top * d) = top * (AlphaDen * d)
    BY <2>3
  <2>7. ewmaNum' <= top * ewmaDen'
    <3>1. /\ AlphaNum * cur * d \in Nat /\ AlphaNum * top * d \in Nat
          /\ rest * ewmaNum \in Nat /\ rest * (top * d) \in Nat
      BY <2>3, ProductNat
    <3> QED BY <2>2, <2>4, <2>5, <2>6, <3>1
  <2> QED BY <1>2, <2>2, <2>7 DEF BaselineBounded, top
<1> QED BY <1>3, <1>4

\* Once a mint has traded its baseline is positive and at most the largest
\* volume a window can show (the EWMA update of process).
THEOREM BaselineInRange == Spec => [](Fresh /\ BaselineBounded)
<1>1. Init => Fresh /\ BaselineBounded
  BY DEF Init, Fresh, BaselineBounded
<1>2. TypeOK /\ Fresh /\ BaselineBounded /\ [Next]_vars
        => Fresh' /\ BaselineBounded'
  <2> SUFFICES ASSUME TypeOK, Fresh, BaselineBounded, [Next]_vars
               PROVE  Fresh' /\ BaselineBounded'
    OBVIOUS
  <2>1. CASE Next
    BY <2>1, BaselineStep DEF Next
  <2>2. CASE UNCHANGED vars
    BY <2>2 DEF vars, Fresh, BaselineBounded
  <2> QED BY <2>1, <2>2
<1> QED BY <1>1, <1>2, TypeCorrect, PTL DEF Spec

\* What an alert says about the volume it was raised for.
Jump ==
  /\ SpikeNum > SpikeDen => known
  /\ (SpikeDen * AlphaDen - SpikeNum * AlphaNum) * totalVol' * ewmaDen
       >= SpikeNum * (AlphaDen - AlphaNum) * ewmaNum

LEMMA JumpStep ==
  ASSUME TypeOK, Fresh, BaselineBounded, alerts' # alerts,
         NEW ts \in Seconds, NEW amt \in Amounts, Trade(ts, amt)
  PROVE  Jump
<1> DEFINE v == totalVol'
           B == AlphaDen - AlphaNum
           gap == SpikeDen * AlphaDen - SpikeNum * AlphaNum
<1>1. Spikes(v, ewmaNum', ewmaDen')
  <2>1. Fires(ts, totalVol', totalCnt', ewmaNum', ewmaDen')
    BY TradeStep, Zenon
  <2> QED BY <2>1 DEF Fires
<1>2. /\ SpikeNum \in Nat \ {0} /\ SpikeDen \in Nat \ {0}
      /\ AlphaNum \in Nat \ {0} /\ B \in Nat \ {0} /\ AlphaDen = AlphaNum + B
      /\ ewmaNum \in Nat /\ ewmaDen \in Nat \ {0}
  BY ConfigAssumption DEF TypeOK
<1>3. v \in Nat
  <2>1. totalVol' \in 0 .. VolMod - 1
    BY TradeStep, Zenon
  <2> QED BY <2>1, ConfigAssumption
<1> HIDE DEF v, B
<1>4. CASE ~known
  <2>1. v = amt /\ ewmaNum' = v /\ ewmaDen' = 1 /\ ewmaNum = 0
    BY <1>4, FirstTrade DEF v, Fresh
  <2>2. v > 0 /\ SpikeDen * v >= SpikeNum * v
    BY <1>1, <1>2, <1>3, <2>1 DEF Spikes
  <2>3. SpikeNum <= SpikeDen
    BY <1>2, <1>3, <2>2
  <2>4. SpikeNum * AlphaNum <= SpikeDen * AlphaDen
    <3>1. AlphaNum * SpikeNum <= AlphaNum * SpikeDen
      BY <1>2, <2>3, ProductMonotone
    <3>2. SpikeDen * AlphaNum <= SpikeDen * AlphaDen
      BY <1>2, ProductMonotone
    <3> QED BY <1>2, <3>1, <3>2
  <2>5. gap \in Nat
    BY <1>2, <2>4
  <2> HIDE DEF gap
  <2>6. gap * v * ewmaDen \in Nat
    BY <1>2, <1>3, <2>5, ProductNat
  <2>7. SpikeNum * B * ewmaNum = 0
    BY <1>2, <2>1
  <2>8. gap * v * ewmaDen >= SpikeNum * B * ewmaNum
    BY <2>6, <2>7
  <2> QED BY <1>2, <2>3, <2>8 DEF Jump, gap, v, B
<1>5. CASE known
  <2>1. ewmaNum > 0
    BY <1>5 DEF BaselineBounded
  <2>2. /\ ewmaNum' = AlphaNum * v * ewmaDen + B * ewmaNum
        /\ ewmaDen' = AlphaDen * ewmaDen
    BY <2>1, LaterTrade DEF v, B
  <2>3. SpikeDen * v * (AlphaDen * ewmaDen)
          >= SpikeNum * (AlphaNum * v * ewmaDen + B * ewmaNum)
    BY <1>1, <2>2 DEF Spikes
  <2>4. gap * v * ewmaDen >= SpikeNum * B * ewmaNum
    <3>1. SpikeDen * v * (AlphaDen * ewmaDen) = (SpikeDen * AlphaDen) * v * ewmaDen
      BY <1>2, <1>3
    <3>2. SpikeNum * (AlphaNum * v * ewmaDen + B * ewmaNum)
            = (SpikeNum * AlphaNum) * v * ewmaDen + SpikeNum * B * ewmaNum
      BY <1>2, <1>3
    <3>3. gap * v * ewmaDen = (SpikeDen * AlphaDen) * v * ewmaDen
                                - (SpikeNum * AlphaNum) * v * ewmaDen
      BY <1>2, <1>3
    <3> DEFINE a == (SpikeDen * AlphaDen) * v * ewmaDen
               b == (SpikeNum * AlphaNum) * v * ewmaDen
               c == SpikeNum * B * ewmaNum
    <3>4. a \in Int /\ b \in Int /\ c \in Int /\ a >= b + c
      BY <1>2, <1>3, <2>3, <3>1, <3>2
    <3> HIDE DEF a, b, c
    <3>5. a - b >= c
      BY <3>4
    <3> QED BY <3>3, <3>5 DEF a, b, c
  <2> QED BY <1>5, <2>4 DEF Jump, gap, v, B
<1> QED BY <1>4, <1>5

\* An alert needs a volume of m(1-a)/(1-ma) times the baseline the trade found,
\* and not the SpikeMultiple m alone, because process updates the EWMA first;
\* with m > 1 the first trade of a mint never alerts (process).
THEOREM AlertsNeedJump == Spec => AlertNeedsJump
<1>1. TypeOK /\ Fresh /\ BaselineBounded /\ [Next]_vars
        => [alerts' # alerts => Jump]_vars
  <2> SUFFICES ASSUME TypeOK, Fresh, BaselineBounded, [Next]_vars,
                      alerts' # alerts
               PROVE  Jump
    OBVIOUS
  <2>1. CASE Next
    BY <2>1, JumpStep DEF Next
  <2>2. CASE UNCHANGED vars
    BY <2>2 DEF vars
  <2> QED BY <2>1, <2>2
<1>2. TypeOK /\ Fresh /\ BaselineBounded /\ [Next]_vars
        => [alerts' # alerts =>
              /\ SpikeNum > SpikeDen => known
              /\ (SpikeDen * AlphaDen - SpikeNum * AlphaNum) * totalVol' * ewmaDen
                   >= SpikeNum * (AlphaDen - AlphaNum) * ewmaNum]_vars
  BY <1>1 DEF Jump
<1> QED BY <1>2, TypeCorrect, BaselineInRange, PTL DEF Spec, AlertNeedsJump

\* With EWMAAlpha * SpikeMultiple >= 1 and SpikeMultiple > 1, which New accepts,
\* no sequence of trades raises an alert (New, process).
THEOREM SilentConfiguration == Spec => []NeverAlerts
<1>1. Init => NeverAlerts
  BY DEF Init, NeverAlerts
<1>2. TypeOK /\ Fresh /\ BaselineBounded /\ NeverAlerts /\ [Next]_vars
        => NeverAlerts'
  <2> SUFFICES ASSUME TypeOK, Fresh, BaselineBounded, NeverAlerts, [Next]_vars,
                      SpikeNum * AlphaNum >= SpikeDen * AlphaDen,
                      SpikeNum > SpikeDen
               PROVE  alerts' = <<>>
    BY DEF NeverAlerts
  <2>1. alerts = <<>>
    BY DEF NeverAlerts
  <2>2. CASE Next
    <3>1. PICK ts \in Seconds, amt \in Amounts : Trade(ts, amt)
      BY <2>2 DEF Next
    <3>2. SUFFICES ASSUME alerts' # alerts PROVE FALSE
      BY <2>1
    <3>3. Jump
      BY <3>1, <3>2, JumpStep
    <3>4. ewmaNum > 0
      BY <3>3 DEF Jump, BaselineBounded
    <3> DEFINE gap == SpikeDen * AlphaDen - SpikeNum * AlphaNum
               more == SpikeNum * (AlphaDen - AlphaNum)
               w == totalVol' * ewmaDen
    <3>5. /\ SpikeNum \in Nat \ {0} /\ SpikeDen \in Nat \ {0}
          /\ AlphaNum \in Nat \ {0} /\ AlphaDen - AlphaNum \in Nat \ {0}
          /\ ewmaNum \in Nat \ {0} /\ ewmaDen \in Nat
      BY <3>4, ConfigAssumption DEF TypeOK
    <3>6. totalVol' \in Nat
      <4>1. totalVol' \in 0 .. VolMod - 1
        BY <3>1, TradeStep, Zenon
      <4> QED BY <4>1, ConfigAssumption
    <3>7. w \in Nat /\ more \in Nat \ {0} /\ gap \in Int /\ gap <= 0
      <4>1. w \in Nat
        BY <3>5, <3>6, ProductNat
      <4>2. more \in Nat \ {0}
        BY <3>5, ProductPositive
      <4>3. SpikeNum * AlphaNum \in Nat /\ SpikeDen * AlphaDen \in Nat
        BY ConfigAssumption, ProductNat
      <4>4. SpikeNum * AlphaNum >= SpikeDen * AlphaDen
        OBVIOUS
      <4> QED BY <4>1, <4>2, <4>3, <4>4
    <3>8. gap * totalVol' * ewmaDen = gap * w
      BY <3>5, <3>6, <3>7
    <3>9. gap * w >= more * ewmaNum
      BY <3>3, <3>8 DEF Jump
    <3> HIDE DEF gap, more, w
    <3>10. more * ewmaNum > 0 /\ gap * w <= 0
      BY <3>5, <3>7
    <3> QED BY <3>5, <3>7, <3>9, <3>10
  <2>3. CASE UNCHANGED vars
    BY <2>1, <2>3 DEF vars
  <2> QED BY <2>2, <2>3
<1> QED BY <1>1, <1>2, TypeCorrect, BaselineInRange, PTL DEF Spec

-----------------------------------------------------------------------------
(* The ring holds recent seconds *)

\* A slot counts trades of the seconds that fall on it.
SlotHoldsItsSeconds == \A i \in Slot : \A s \in counted[i] : s % WindowSec = i

\* A mint without a window has counted nothing.
NothingCounted == ~known => \A i \in Slot : counted[i] = {}

\* A second that leaves the window when a trade of second ts arrives is one
\* whose slot advance clears.
LEMMA LeavingIsExpired ==
  ASSUME TypeOK, known, NEW ts \in Seconds, NEW s \in Nat,
         lastSec - WindowSec < s, s <= lastSec,
         s <= NewLastSec(ts) - WindowSec
  PROVE  s % WindowSec \in Expired(ts)
<1>1. /\ WindowSec \in Nat \ {0} /\ ts \in Nat /\ lastSec \in Nat
  BY ConfigAssumption, InputAssumption DEF TypeOK
<1>2. StandsAt(ts) = lastSec
  BY DEF StandsAt
<1>3. ts > lastSec /\ NewLastSec(ts) = ts
  BY <1>1, <1>2 DEF NewLastSec
<1> DEFINE j == s + WindowSec - lastSec
<1>4. Steps(ts) = IF ts - lastSec > WindowSec THEN WindowSec ELSE ts - lastSec
  BY <1>2 DEF Steps
<1>5. j \in 1 .. Steps(ts)
  BY <1>1, <1>3, <1>4
<1>6. lastSec + j = s + 1 * WindowSec
  BY <1>1
<1>7. (lastSec + j) % WindowSec = s % WindowSec
  <2> DEFINE y == lastSec + j
  <2>1. y \in Int /\ y = s + 1 * WindowSec /\ s \in Int /\ 1 \in Int
    BY <1>1, <1>6
  <2> HIDE DEF y
  <2>2. y % WindowSec = s % WindowSec
    BY <1>1, <2>1, ModEqual
  <2> QED BY <2>2 DEF y
<1> HIDE DEF j
<1> QED BY <1>2, <1>5, <1>7 DEF Expired

LEMMA RecentStep ==
  ASSUME MaxLag < WindowSec,
         TypeOK, SlotHoldsItsSeconds, NothingCounted, WindowIsRecent,
         NEW ts \in Seconds, NEW amt \in Amounts, Trade(ts, amt)
  PROVE  SlotHoldsItsSeconds' /\ NothingCounted' /\ WindowIsRecent'
<1>1. /\ known' = TRUE /\ lastSec' = NewLastSec(ts)
      /\ ts + MaxLag >= StandsAt(ts)
      /\ counted' = [i \in Slot |->
                       (IF i \in Expired(ts) THEN {} ELSE counted[i])
                         \cup (IF i = ts % WindowSec THEN {ts} ELSE {})]
  BY TradeStep, Zenon
<1>2. ASSUME NEW i \in Slot, NEW s \in counted'[i]
      PROVE  \/ s = ts /\ i = ts % WindowSec
             \/ s \in counted[i] /\ i \notin Expired(ts)
  BY <1>1, <1>2
<1>3. SlotHoldsItsSeconds'
  BY <1>2 DEF SlotHoldsItsSeconds
<1>4. NothingCounted'
  BY <1>1 DEF NothingCounted
<1>5. /\ WindowSec \in Nat \ {0} /\ ts \in Nat /\ lastSec \in Nat /\ MaxLag \in Nat
      /\ \A i \in Slot : \A s \in counted[i] : s \in Nat
  BY ConfigAssumption, InputAssumption DEF TypeOK
<1>6. ASSUME NEW i \in Slot, NEW s \in counted'[i]
      PROVE  NewLastSec(ts) - WindowSec < s /\ s <= NewLastSec(ts)
  <2>1. CASE s = ts
    BY <1>1, <1>5, <2>1 DEF NewLastSec, StandsAt
  <2>2. CASE s \in counted[i] /\ i \notin Expired(ts)
    <3>1. known
      BY <2>2 DEF NothingCounted
    <3>2. s \in Nat /\ lastSec - WindowSec < s /\ s <= lastSec /\ s % WindowSec = i
      BY <1>5, <2>2 DEF WindowIsRecent, SlotHoldsItsSeconds
    <3>3. ~(s <= NewLastSec(ts) - WindowSec)
      BY <2>2, <3>1, <3>2, LeavingIsExpired
    <3>4. NewLastSec(ts) \in Nat /\ lastSec <= NewLastSec(ts)
      BY <1>5, <3>1 DEF NewLastSec, StandsAt
    <3> QED BY <1>5, <3>2, <3>3, <3>4
  <2> QED BY <1>2, <1>6, <2>1, <2>2
<1>7. WindowIsRecent'
  BY <1>1, <1>6 DEF WindowIsRecent
<1> QED BY <1>3, <1>4, <1>7

\* When no trade is a whole window late, what the ring counts is of the last
\* WindowSec seconds and every trade sits in the slot of its own second
\* (advance).  A trade that is later than that breaks it: see the run
\* window_late.
THEOREM WindowStaysRecent ==
  ASSUME MaxLag < WindowSec PROVE Spec => []WindowIsRecent
<1>1. Init => SlotHoldsItsSeconds /\ NothingCounted /\ WindowIsRecent
  BY DEF Init, SlotHoldsItsSeconds, NothingCounted, WindowIsRecent
<1>2. TypeOK /\ SlotHoldsItsSeconds /\ NothingCounted /\ WindowIsRecent
        /\ [Next]_vars
        => SlotHoldsItsSeconds' /\ NothingCounted' /\ WindowIsRecent'
  <2> SUFFICES ASSUME TypeOK, SlotHoldsItsSeconds, NothingCounted,
                      WindowIsRecent, [Next]_vars
               PROVE  SlotHoldsItsSeconds' /\ NothingCounted' /\ WindowIsRecent'
    OBVIOUS
  <2>1. CASE Next
    BY <2>1, RecentStep DEF Next
  <2>2. CASE UNCHANGED vars
    BY <2>2 DEF vars, SlotHoldsItsSeconds, NothingCounted, WindowIsRecent
  <2> QED BY <2>1, <2>2
<1> QED BY <1>1, <1>2, TypeCorrect, PTL DEF Spec

-----------------------------------------------------------------------------
(***************************************************************************)
(* The ring of a mint implements the sliding window: as long as no trade   *)
(* is a whole window late, the slots hold exactly the table of the last    *)
(* WindowSec seconds, and each alert reports what that table adds up to.   *)
(***************************************************************************)

\* The seconds of the window that ends at n.
Win(n) == n - WindowSec + 1 .. n

-----------------------------------------------------------------------------
(* Seconds and slots *)

\* Two numbers less than a ring apart that fall on the same slot are equal.
LEMMA ModInjective ==
  ASSUME NEW W \in Nat \ {0}, NEW s \in Int, NEW t \in Int,
         s - t < W, t - s < W, s % W = t % W
  PROVE  s = t
<1> DEFINE a == s \div W
           b == t \div W
           r == s % W
<1>1. a \in Int /\ b \in Int /\ s = a * W + r /\ t = b * W + r /\ r \in Int
  <2>1. t = b * W + (t % W) /\ s = a * W + (s % W) /\ a \in Int /\ b \in Int
    BY ModDivides
  <2>2. r \in 0 .. W - 1
    BY ModRange
  <2> QED BY <2>1, <2>2
<1> HIDE DEF a, b, r
<1> DEFINE k == a - b
<1>2. k \in Int /\ s - t = k * W
  BY <1>1
<1> HIDE DEF k
<1>3. ~(k >= 1)
  <2>1. k >= 1 => k * W >= W
    BY <1>2
  <2> QED BY <1>2, <2>1
<1>4. ~(k <= -1)
  <2>1. k <= -1 => k * W <= -W
    BY <1>2
  <2> QED BY <1>2, <2>1
<1>5. k = 0
  BY <1>2, <1>3, <1>4
<1> QED BY <1>2, <1>5

\* The seconds of a window and the slots of the ring correspond one to one.
LEMMA WindowFillsRing ==
  ASSUME NEW n \in Int
  PROVE  /\ IsFiniteSet(Win(n)) /\ IsFiniteSet(Slot) /\ Win(n) \subseteq Int
         /\ \A s \in Win(n) : s % WindowSec \in Slot
         /\ \A s, t \in Win(n) : s % WindowSec = t % WindowSec => s = t
         /\ \A i \in Slot : \E s \in Win(n) : s % WindowSec = i
<1>1. WindowSec \in Nat \ {0}
  BY ConfigAssumption
<1>2. IsFiniteSet(Win(n)) /\ IsFiniteSet(Slot) /\ Win(n) \subseteq Int
  BY <1>1, FS_Interval DEF Win, Slot
<1>3. \A s \in Win(n) : s % WindowSec \in Slot
  BY <1>1, <1>2, ModRange DEF Slot
<1>4. \A s, t \in Win(n) : s % WindowSec = t % WindowSec => s = t
  <2> TAKE s, t \in Win(n)
  <2>1. s \in Int /\ t \in Int /\ s - t < WindowSec /\ t - s < WindowSec
    BY <1>1 DEF Win
  <2> QED BY <1>1, <2>1, ModInjective
<1>5. ASSUME NEW i \in Slot PROVE \E s \in Win(n) : s % WindowSec = i
  <2> DEFINE r == (n - i) % WindowSec
             q == (n - i) \div WindowSec
             s == n - r
  <2>1. i \in Int /\ i \in 0 .. WindowSec - 1 /\ n - i \in Int
    BY <1>1 DEF Slot
  <2>2. r \in 0 .. WindowSec - 1 /\ q \in Int /\ n - i = q * WindowSec + r
    BY <1>1, <2>1, ModRange, ModDivides
  <2> HIDE DEF r, q
  <2>3. s \in Win(n) /\ s \in Int /\ s = i + q * WindowSec
    BY <1>1, <2>1, <2>2 DEF Win
  <2> HIDE DEF s
  <2>4. s % WindowSec = i % WindowSec
    BY <1>1, <2>1, <2>2, <2>3, ModEqual
  <2>5. i % WindowSec = i
    BY <1>1, <2>1, ModRange
  <2> QED BY <2>3, <2>4, <2>5
<1> QED BY <1>2, <1>3, <1>4, <1>5

\* Reading the ring by seconds adds up to the same total.
LEMMA SumOverWindow ==
  ASSUME NEW n \in Int, NEW slots \in [Slot -> Int]
  PROVE  SumFunction([s \in Win(n) |-> slots[s % WindowSec]])
           = SumFunctionOnSet(slots, Slot)
<1> DEFINE W == Win(n)
           h == [s \in W |-> s % WindowSec]
<1>1. /\ IsFiniteSet(W) /\ IsFiniteSet(Slot)
      /\ \A s \in W : s % WindowSec \in Slot
      /\ \A s, t \in W : s % WindowSec = t % WindowSec => s = t
      /\ \A i \in Slot : \E s \in W : s % WindowSec = i
  BY WindowFillsRing
<1> HIDE DEF W
<1>2. /\ h \in [W -> Slot]
      /\ \A s, t \in W : h[s] = h[t] => s = t
      /\ \A i \in Slot : \E s \in W : h[s] = i
      /\ [s \in W |-> slots[h[s]]] = [s \in W |-> slots[s % WindowSec]]
  BY <1>1
<1> HIDE DEF h
<1>3. SumFunctionOnSet([s \in W |-> slots[h[s]]], W) = SumFunctionOnSet(slots, Slot)
  BY <1>1, <1>2, SumReindex
<1> DEFINE g == [s \in W |-> slots[s % WindowSec]]
<1>4. DOMAIN g = W
  OBVIOUS
<1>5. SumFunctionOnSet(g, W) = SumFunctionOnSet(slots, Slot)
  BY <1>2, <1>3
<1> HIDE DEF g
<1>6. SumFunction(g) = SumFunctionOnSet(slots, Slot)
  BY <1>4, <1>5, Zenon DEF SumFunction
<1> QED BY <1>6 DEF g, W

\* Of the seconds in the window a trade leaves, advance clears the slots of
\* those that were not in it before.
LEMMA ExpiredInWindow ==
  ASSUME TypeOK, known, NEW ts \in Seconds, NEW s \in Win(NewLastSec(ts))
  PROVE  s % WindowSec \in Expired(ts) <=> s > lastSec
<1> DEFINE n == NewLastSec(ts)
<1>1. WindowSec \in Nat \ {0} /\ ts \in Nat /\ lastSec \in Nat
  BY ConfigAssumption, InputAssumption DEF TypeOK
<1>2. StandsAt(ts) = lastSec
  BY DEF StandsAt
<1>3. n = (IF ts <= lastSec THEN lastSec ELSE ts) /\ n \in Nat
  BY <1>1, <1>2 DEF NewLastSec
<1>4. Steps(ts) = IF ts - lastSec > WindowSec THEN WindowSec ELSE ts - lastSec
  BY <1>2 DEF Steps
<1>5. s \in Int /\ n - WindowSec < s /\ s <= n
  BY <1>1, <1>3 DEF Win
<1> HIDE DEF n
<1>6. ASSUME s > lastSec PROVE s % WindowSec \in Expired(ts)
  <2> DEFINE e == s - lastSec - 1
             r == e % WindowSec
             q == e \div WindowSec
             j == r + 1
             y == lastSec + j
  <2>1. e \in Nat /\ ts > lastSec /\ n = ts
    BY <1>1, <1>3, <1>5, <1>6
  <2>2. r \in 0 .. WindowSec - 1 /\ q \in Int /\ e = q * WindowSec + r
    <3>1. e \in Int
      BY <2>1
    <3> HIDE DEF e
    <3> QED BY <1>1, <3>1, ModRange, ModDivides
  <2>3. e < WindowSec => r = e
    BY <1>1, <2>1, ModRange
  <2>4. e <= ts - lastSec - 1
    BY <1>1, <1>5, <2>1
  <2>5. j \in 1 .. Steps(ts)
    <3>1. CASE ts - lastSec > WindowSec
      BY <1>1, <1>4, <2>2, <3>1
    <3>2. CASE ts - lastSec <= WindowSec
      <4>1. e < WindowSec
        BY <1>1, <2>1, <2>4, <3>2
      <4> HIDE DEF e
      <4>2. r = e
        BY <2>3, <4>1
      <4> HIDE DEF r
      <4> QED BY <1>1, <1>4, <2>1, <2>4, <3>2, <4>2
    <3> QED BY <1>1, <3>1, <3>2
  <2>6. s = y + q * WindowSec /\ y \in Int
    <3>1. s = lastSec + 1 + e
      BY <1>1, <1>5
    <3> HIDE DEF e, r, q
    <3> QED BY <1>1, <2>2, <3>1
  <2> HIDE DEF e, r, q, y
  <2>7. s % WindowSec = y % WindowSec
    BY <1>1, <1>5, <2>2, <2>6, ModEqual
  <2> HIDE DEF j
  <2>8. (lastSec + j) % WindowSec \in Expired(ts)
    BY <1>2, <2>5 DEF Expired
  <2> QED BY <2>7, <2>8 DEF y
<1>7. ASSUME s % WindowSec \in Expired(ts), s <= lastSec PROVE FALSE
  <2>1. PICK j \in 1 .. Steps(ts) : s % WindowSec = (lastSec + j) % WindowSec
    BY <1>2, <1>7 DEF Expired
  <2> DEFINE y == lastSec + j
  <2>2. y \in Int /\ y > lastSec /\ y - s < WindowSec /\ s - y < WindowSec
    BY <1>1, <1>3, <1>4, <1>5, <1>7
  <2>3. s % WindowSec = y % WindowSec
    BY <2>1
  <2> HIDE DEF y
  <2>4. s = y
    BY <1>1, <1>5, <2>2, <2>3, ModInjective
  <2> QED BY <1>1, <1>7, <2>2, <2>4
<1> QED BY <1>1, <1>5, <1>6, <1>7

-----------------------------------------------------------------------------
(* One table *)

\* A mint without a window has empty slots.
EmptySlots == ~known => \A i \in Slot : volSlots[i] = 0 /\ cntSlots[i] = 0

\* The entry of second s after a trade of second ts adds k: advance and the
\* addition of process do to the slot what the sliding table does to s.
LEMMA SlotSlides ==
  ASSUME TypeOK, NEW ts \in Seconds, ts \in Win(NewLastSec(ts)),
         NEW M \in Nat \ {0}, NEW slots \in [Slot -> 0 .. M - 1],
         ~known => \A i \in Slot : slots[i] = 0,
         NEW k \in Nat, NEW s \in Win(NewLastSec(ts))
  PROVE  [Cleared(slots, ts) EXCEPT ![ts % WindowSec] = (@ + k) % M][s % WindowSec]
           = ((IF known /\ s \in Win(lastSec) THEN slots[s % WindowSec] ELSE 0)
                + (IF s = ts THEN k ELSE 0)) % M
<1> DEFINE n == NewLastSec(ts)
           c == Cleared(slots, ts)
           i == s % WindowSec
           j == ts % WindowSec
           old == IF known /\ s \in Win(lastSec) THEN slots[s % WindowSec] ELSE 0
<1>1. WindowSec \in Nat \ {0} /\ ts \in Nat /\ lastSec \in Nat /\ n \in Int
  BY ConfigAssumption, InputAssumption DEF TypeOK, NewLastSec, StandsAt
<1>2. i \in Slot /\ j \in Slot /\ (i = j => s = ts) /\ s \in Int
  BY <1>1, WindowFillsRing
<1>3. c[i] = old /\ old \in 0 .. M - 1
  <2>1. c[i] = IF i \in Expired(ts) THEN 0 ELSE slots[i]
    BY <1>2 DEF Cleared
  <2>2. slots[i] \in 0 .. M - 1 /\ 0 \in 0 .. M - 1
    BY <1>2
  <2>3. CASE ~known
    BY <1>2, <2>1, <2>2, <2>3
  <2>4. CASE known
    <3>1. i \in Expired(ts) <=> s > lastSec
      BY <2>4, ExpiredInWindow
    <3>2. lastSec <= n /\ n - WindowSec < s
      BY <1>1, <2>4 DEF NewLastSec, StandsAt, Win
    <3>3. s \in Win(lastSec) <=> ~(s > lastSec)
      BY <1>1, <1>2, <3>2 DEF Win
    <3> QED BY <2>1, <2>2, <2>4, <3>1, <3>3
  <2> QED BY <2>3, <2>4
<1>4. DOMAIN c = Slot
  BY DEF Cleared
<1> HIDE DEF c, old, i, j
<1>5. [c EXCEPT ![j] = (@ + k) % M][i] = IF i = j THEN (c[i] + k) % M ELSE c[i]
  BY <1>2, <1>4
<1>6. CASE s = ts
  <2>1. i = j
    BY <1>6 DEF i, j
  <2> QED BY <1>3, <1>5, <1>6, <2>1 DEF c, old, i, j
<1>7. CASE s # ts
  <2>1. i # j
    BY <1>2, <1>7
  <2>2. (old + 0) % M = old
    <3>1. old + 0 = old
      BY <1>3
    <3> QED BY <1>3, <3>1, ModRange
  <2> QED BY <1>3, <1>5, <1>7, <2>1, <2>2 DEF c, old, i, j
<1> QED BY <1>6, <1>7

-----------------------------------------------------------------------------
(* The refinement *)

\* The tables that the ring stands for: the substitution of Sliding.
VolAt == [s \in Win(lastSec) |-> volSlots[s % WindowSec]]
CntAt == [s \in Win(lastSec) |-> cntSlots[s % WindowSec]]

\* A trade the window accepts slides both tables.
LEMMA TablesSlide ==
  ASSUME MaxLag < WindowSec, TypeOK, EmptySlots,
         NEW ts \in Seconds, NEW amt \in Amounts, Trade(ts, amt)
  PROVE  /\ ts \in Win(lastSec')
         /\ VolAt' = [s \in Win(lastSec') |->
                        ((IF known /\ s \in Win(lastSec) THEN VolAt[s] ELSE 0)
                           + (IF s = ts THEN amt ELSE 0)) % VolMod]
         /\ CntAt' = [s \in Win(lastSec') |->
                        ((IF known /\ s \in Win(lastSec) THEN CntAt[s] ELSE 0)
                           + (IF s = ts THEN 1 ELSE 0)) % CntMod]
<1>1. /\ lastSec' = NewLastSec(ts)
      /\ ts + MaxLag >= StandsAt(ts)
      /\ volSlots' = [Cleared(volSlots, ts) EXCEPT
                         ![ts % WindowSec] = (@ + amt) % VolMod]
      /\ cntSlots' = [Cleared(cntSlots, ts) EXCEPT
                         ![ts % WindowSec] = (@ + 1) % CntMod]
  BY TradeStep, Zenon
<1>2. /\ WindowSec \in Nat \ {0} /\ ts \in Nat /\ lastSec \in Nat /\ MaxLag \in Nat
      /\ amt \in Nat /\ 1 \in Nat /\ VolMod \in Nat \ {0} /\ CntMod \in Nat \ {0}
  BY ConfigAssumption, InputAssumption DEF TypeOK
<1>3. ts \in Win(NewLastSec(ts))
  BY <1>1, <1>2 DEF Win, NewLastSec, StandsAt
<1>4. /\ volSlots \in [Slot -> 0 .. VolMod - 1]
      /\ cntSlots \in [Slot -> 0 .. CntMod - 1]
      /\ ~known => \A i \in Slot : volSlots[i] = 0
      /\ ~known => \A i \in Slot : cntSlots[i] = 0
  BY DEF TypeOK, EmptySlots
<1>5. ASSUME NEW s \in Win(lastSec')
      PROVE  volSlots'[s % WindowSec]
               = ((IF known /\ s \in Win(lastSec) THEN volSlots[s % WindowSec] ELSE 0)
                    + (IF s = ts THEN amt ELSE 0)) % VolMod
  <2>1. s \in Win(NewLastSec(ts))
    BY <1>1
  <2>2. [Cleared(volSlots, ts) EXCEPT ![ts % WindowSec] = (@ + amt) % VolMod]
          [s % WindowSec]
          = ((IF known /\ s \in Win(lastSec) THEN volSlots[s % WindowSec] ELSE 0)
               + (IF s = ts THEN amt ELSE 0)) % VolMod
    BY <1>2, <1>3, <1>4, <2>1, SlotSlides
  <2> QED BY <1>1, <2>2, Zenon
<1>6. ASSUME NEW s \in Win(lastSec')
      PROVE  cntSlots'[s % WindowSec]
               = ((IF known /\ s \in Win(lastSec) THEN cntSlots[s % WindowSec] ELSE 0)
                    + (IF s = ts THEN 1 ELSE 0)) % CntMod
  <2>1. s \in Win(NewLastSec(ts))
    BY <1>1
  <2>2. [Cleared(cntSlots, ts) EXCEPT ![ts % WindowSec] = (@ + 1) % CntMod]
          [s % WindowSec]
          = ((IF known /\ s \in Win(lastSec) THEN cntSlots[s % WindowSec] ELSE 0)
               + (IF s = ts THEN 1 ELSE 0)) % CntMod
    BY <1>2, <1>3, <1>4, <2>1, SlotSlides
  <2> QED BY <1>1, <2>2, Zenon
<1>7. /\ VolAt' = [s \in Win(lastSec') |-> volSlots'[s % WindowSec]]
      /\ CntAt' = [s \in Win(lastSec') |-> cntSlots'[s % WindowSec]]
  BY DEF VolAt, CntAt, Win
<1>8. \A s \in Win(lastSec) :
        VolAt[s] = volSlots[s % WindowSec] /\ CntAt[s] = cntSlots[s % WindowSec]
  BY DEF VolAt, CntAt
<1>9. VolAt' = [s \in Win(lastSec') |->
                 ((IF known /\ s \in Win(lastSec) THEN VolAt[s] ELSE 0)
                    + (IF s = ts THEN amt ELSE 0)) % VolMod]
  BY <1>5, <1>7, <1>8
<1>10. CntAt' = [s \in Win(lastSec') |->
                  ((IF known /\ s \in Win(lastSec) THEN CntAt[s] ELSE 0)
                     + (IF s = ts THEN 1 ELSE 0)) % CntMod]
  BY <1>6, <1>7, <1>8
<1> QED BY <1>1, <1>3, <1>9, <1>10

\* The totals a trade leaves are what its tables add up to.
LEMMA TablesAddUp ==
  ASSUME TypeOK, TotalsMatchSlots,
         NEW ts \in Seconds, NEW amt \in Amounts, Trade(ts, amt)
  PROVE  /\ totalVol' = SumFunction(VolAt') % VolMod
         /\ totalCnt' = SumFunction(CntAt') % CntMod
<1>1. TypeOK' /\ TotalsMatchSlots'
  BY TypeStep, TotalsStep
<1>2. /\ lastSec' \in Int
      /\ volSlots' \in [Slot -> Int] /\ DOMAIN volSlots' = Slot
      /\ cntSlots' \in [Slot -> Int] /\ DOMAIN cntSlots' = Slot
  BY <1>1 DEF TypeOK
<1>3. /\ VolAt' = [s \in Win(lastSec') |-> volSlots'[s % WindowSec]]
      /\ CntAt' = [s \in Win(lastSec') |-> cntSlots'[s % WindowSec]]
  BY DEF VolAt, CntAt, Win
<1>4. SumFunction(VolAt') = SumFunctionOnSet(volSlots', Slot)
  BY <1>2, <1>3, SumOverWindow
<1>5. SumFunction(CntAt') = SumFunctionOnSet(cntSlots', Slot)
  BY <1>2, <1>3, SumOverWindow
<1>6. /\ totalVol' = SumFunctionOnSet(volSlots', Slot) % VolMod
      /\ totalCnt' = SumFunctionOnSet(cntSlots', Slot) % CntMod
  BY <1>1, <1>2, Zenon DEF TotalsMatchSlots, SumFunction
<1> QED BY <1>4, <1>5, <1>6

LEMMA TradeRefines ==
  ASSUME MaxLag < WindowSec,
         TypeOK, EmptySlots, TotalsMatchSlots, AlertsBehind,
         NEW ts \in Seconds, NEW amt \in Amounts, Trade(ts, amt)
  PROVE  Sliding!Trade(ts, amt)
<1> DEFINE end == IF known /\ lastSec > ts THEN lastSec ELSE ts
           alert == [at |-> ts, vol |-> SumFunction(VolAt') % VolMod,
                     cnt |-> SumFunction(CntAt') % CntMod]
<1>1. /\ known' = TRUE /\ lastSec' = NewLastSec(ts)
      /\ \/ /\ Fires(ts, totalVol', totalCnt', ewmaNum', ewmaDen')
            /\ alerts' = Append(alerts,
                           [at |-> ts, vol |-> totalVol', cnt |-> totalCnt'])
         \/ alerts' = alerts
  BY TradeStep, Zenon
<1>2. ts \in Nat /\ lastSec \in Nat /\ lastAlertSec \in Nat
        /\ AlertCooldownSec \in Nat
        /\ \A i \in DOMAIN alerts : alerts[i].at \in Nat
  <2>1. Seconds \subseteq Nat
    BY InputAssumption
  <2> DEFINE A == [at : Seconds, vol : 0 .. VolMod - 1, cnt : 0 .. CntMod - 1]
  <2>2. alerts \in Seq(A) /\ \A x \in A : x.at \in Nat
    BY <2>1 DEF TypeOK
  <2> HIDE DEF A
  <2>3. \A i \in DOMAIN alerts : alerts[i] \in A
    BY <2>2
  <2> QED BY <2>1, <2>2, <2>3, ConfigAssumption DEF TypeOK
<1>3. lastSec' = end
  BY <1>1, <1>2 DEF NewLastSec, StandsAt
<1>4. /\ ts \in Win(lastSec')
      /\ VolAt' = [s \in Win(lastSec') |->
                     ((IF known /\ s \in Win(lastSec) THEN VolAt[s] ELSE 0)
                        + (IF s = ts THEN amt ELSE 0)) % VolMod]
      /\ CntAt' = [s \in Win(lastSec') |->
                     ((IF known /\ s \in Win(lastSec) THEN CntAt[s] ELSE 0)
                        + (IF s = ts THEN 1 ELSE 0)) % CntMod]
  BY TablesSlide
<1>5. alert = [at |-> ts, vol |-> totalVol', cnt |-> totalCnt']
  BY TablesAddUp
<1>6. \/ alerts' = alerts
      \/ /\ alert.vol >= MinVolumeRaw
         /\ alert.cnt >= MinTrades
         /\ \A i \in DOMAIN alerts : ts - alerts[i].at >= AlertCooldownSec
         /\ alerts' = Append(alerts, alert)
  <2>1. CASE alerts' = alerts
    BY <2>1
  <2>2. CASE /\ Fires(ts, totalVol', totalCnt', ewmaNum', ewmaDen')
             /\ alerts' = Append(alerts,
                            [at |-> ts, vol |-> totalVol', cnt |-> totalCnt'])
    <3>1. /\ totalVol' >= MinVolumeRaw /\ totalCnt' >= MinTrades
          /\ ts - lastAlertSec >= AlertCooldownSec
      BY <2>2 DEF Fires
    <3>2. alert.vol = totalVol' /\ alert.cnt = totalCnt'
      BY <1>5
    <3>3. \A i \in DOMAIN alerts : ts - alerts[i].at >= AlertCooldownSec
      BY <1>2, <3>1 DEF AlertsBehind
    <3> QED BY <1>5, <2>2, <3>1, <3>2, <3>3
  <2> QED BY <1>1, <2>1, <2>2
<1>7. /\ VolAt' = Sliding!Slide(VolAt, end, ts, amt, VolMod)
      /\ CntAt' = Sliding!Slide(CntAt, end, ts, 1, CntMod)
      /\ ts \in Sliding!Span(end)
  BY <1>3, <1>4, Zenon DEF Sliding!Slide, Sliding!Span, Win
<1>8. alert = Sliding!Report(VolAt', CntAt', ts)
  <2>1. ASSUME NEW f PROVE Sliding!SumFunction(f) = SumFunction(f)
    BY Zenon DEF SumFunction, SumFunctionOnSet, FoldFunctionOnSet, MapThenFoldSet,
                 Sliding!SumFunction, Sliding!SumFunctionOnSet,
                 Sliding!FoldFunctionOnSet, Sliding!MapThenFoldSet
  <2> QED BY <2>1, Zenon DEF Sliding!Report
<1> HIDE DEF end, alert
<1> QED BY <1>1, <1>3, <1>6, <1>7, <1>8, Zenon
        DEF Sliding!Trade, end, VolAt, CntAt, Win

LEMMA InitRefines == Init => Sliding!Init
<1> HAVE Init
<1>1. /\ known = FALSE /\ lastSec = 0 /\ alerts = <<>>
      /\ volSlots = [i \in Slot |-> 0] /\ cntSlots = [i \in Slot |-> 0]
  BY DEF Init
<1>2. \A s \in Win(0) : s % WindowSec \in Slot
  BY WindowFillsRing
<1>3. /\ [s \in Win(0) |-> volSlots[s % WindowSec]] = [s \in Win(0) |-> 0]
      /\ [s \in Win(0) |-> cntSlots[s % WindowSec]] = [s \in Win(0) |-> 0]
  BY <1>1, <1>2
<1> QED BY <1>1, <1>3, Zenon DEF Sliding!Init, Sliding!Span, Win

\* As long as no trade is a whole window late, the ring implements the sliding
\* window: its slots are the table of the last WindowSec seconds, the alerts
\* report what that table adds up to, reach the thresholds and keep the
\* cooldown (advance, process).
THEOREM RingImplementsWindow ==
  ASSUME MaxLag < WindowSec PROVE Spec => ImplementsSlidingWindow
<1>1. Init => EmptySlots
  BY DEF Init, EmptySlots
<1>2. TypeOK /\ EmptySlots /\ [Next]_vars => EmptySlots'
  <2> SUFFICES ASSUME TypeOK, EmptySlots, [Next]_vars PROVE EmptySlots'
    OBVIOUS
  <2>1. CASE Next
    <3>1. known' = TRUE
      BY <2>1, TradeStep, Zenon DEF Next
    <3> QED BY <3>1 DEF EmptySlots
  <2>2. CASE UNCHANGED vars
    BY <2>2 DEF vars, EmptySlots
  <2> QED BY <2>1, <2>2
<1>3. Init => AlertsBehind
  BY DEF Init, AlertsBehind
<1>4. TypeOK /\ AlertsBehind /\ AlertsSpaced /\ [Next]_vars => AlertsBehind'
  <2> SUFFICES ASSUME TypeOK, AlertsBehind, AlertsSpaced, [Next]_vars
               PROVE  AlertsBehind'
    OBVIOUS
  <2>1. CASE Next
    BY <2>1, SpacedStep DEF Next
  <2>2. CASE UNCHANGED vars
    BY <2>2 DEF vars, AlertsBehind
  <2> QED BY <2>1, <2>2
<1>5. TypeOK /\ EmptySlots /\ TotalsMatchSlots /\ AlertsBehind /\ [Next]_vars
        => [Sliding!Next]_Sliding!swvars
  <2> SUFFICES ASSUME TypeOK, EmptySlots, TotalsMatchSlots, AlertsBehind,
                      [Next]_vars
               PROVE  [Sliding!Next]_Sliding!swvars
    OBVIOUS
  <2>1. CASE Next
    <3>1. PICK ts \in Seconds, amt \in Amounts : Trade(ts, amt)
      BY <2>1 DEF Next
    <3>2. Sliding!Trade(ts, amt)
      BY <3>1, TradeRefines
    <3> QED BY <3>2, Zenon DEF Sliding!Next
  <2>2. CASE UNCHANGED vars
    BY <2>2 DEF vars, Sliding!swvars
  <2> QED BY <2>1, <2>2
<1> QED BY <1>1, <1>2, <1>3, <1>4, <1>5, InitRefines,
           TypeCorrect, TotalsAreSums, CooldownHolds, PTL
        DEF Spec, ImplementsSlidingWindow, Sliding!Spec
=============================================================================
