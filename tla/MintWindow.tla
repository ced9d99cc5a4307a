----------------------------- MODULE MintWindow -----------------------------
(***************************************************************************)
(* The rolling window that a shard keeps for ONE mint, and the decision it *)
(* takes on every trade: mintWindow, shardState.process and                *)
(* shardState.advance of core/internal/processor/processor.go.             *)
(*                                                                         *)
(* shardState.byMint holds one such window per mint and process touches    *)
(* the window of the event's mint only, so a shard is the product of       *)
(* independent copies of this module; Engine.tla models which goroutine    *)
(* reaches which window.  The float64 EWMA is an exact fraction here, and  *)
(* the float parameters are fractions too (see README, "Abstractions").    *)
(***************************************************************************)
EXTENDS Integers, Sequences, Functions

CONSTANTS
  WindowSec,            \* Config.WindowSec: slots of the ring, seconds of the window
  MinVolumeRaw,         \* Config.MinVolumeRaw
  MinTrades,            \* Config.MinTrades
  SpikeNum, SpikeDen,   \* Config.SpikeMultiple = SpikeNum / SpikeDen
  AlphaNum, AlphaDen,   \* Config.EWMAAlpha     = AlphaNum / AlphaDen
  AlertCooldownSec,     \* Config.AlertCooldownSec
  VolMod,               \* 2^64 in the code: volumes are uint64 and wrap
  CntMod,               \* 2^32 in the code: trade counts are uint32 and wrap
  Amounts,              \* the OutputAmt values of the trades
  Seconds,              \* the Timestamp values of the trades
  MaxLag,               \* bound: how far behind the newest trade one may arrive
  MaxTrades             \* bound: trades processed in a behaviour

(***************************************************************************)
(* What New leaves in the Config (it replaces every value out of range by  *)
(* a default) and what IngestSwapInfo lets through: a positive amount of   *)
(* 64 bits and a positive timestamp.                                       *)
(***************************************************************************)
ASSUME ConfigAssumption ==
  /\ WindowSec \in Nat \ {0}
  /\ AlertCooldownSec \in Nat \ {0}
  /\ MinVolumeRaw \in Nat
  /\ MinTrades \in Nat
  /\ SpikeNum \in Nat \ {0} /\ SpikeDen \in Nat \ {0}
  /\ AlphaNum \in Nat \ {0} /\ AlphaDen \in Nat /\ AlphaNum < AlphaDen
  /\ VolMod \in Nat \ {0} /\ CntMod \in Nat \ {0}

ASSUME InputAssumption ==
  /\ Amounts \subseteq 1 .. VolMod - 1
  /\ Seconds \subseteq Nat \ {0}
  /\ MaxLag \in Nat
  /\ MaxTrades \in Nat

Slot == 0 .. WindowSec - 1

VARIABLES
  known,         \* the mint has an entry in byMint
  volSlots,      \* mintWindow.volSlots
  cntSlots,      \* mintWindow.cntSlots
  totalVol,      \* mintWindow.totalVol
  totalCnt,      \* mintWindow.totalCnt
  lastSec,       \* mintWindow.lastSec
  ewmaNum,       \* mintWindow.ewma = ewmaNum / ewmaDen
  ewmaDen,
  lastAlertSec,  \* mintWindow.lastAlertSec
  alerts,        \* history: what the alerts returned so far say
  counted,       \* history: the seconds whose trades each slot holds
  trades         \* history: number of trades processed

window == <<known, volSlots, cntSlots, totalVol, totalCnt, lastSec,
            ewmaNum, ewmaDen, lastAlertSec>>
vars == <<known, volSlots, cntSlots, totalVol, totalCnt, lastSec,
          ewmaNum, ewmaDen, lastAlertSec, alerts, counted, trades>>

Init ==
  /\ known = FALSE
  /\ volSlots = [i \in Slot |-> 0]
  /\ cntSlots = [i \in Slot |-> 0]
  /\ totalVol = 0
  /\ totalCnt = 0
  /\ lastSec = 0
  /\ ewmaNum = 0 /\ ewmaDen = 1
  /\ lastAlertSec = 0
  /\ alerts = <<>>
  /\ counted = [i \in Slot |-> {}]
  /\ trades = 0

-----------------------------------------------------------------------------
(* shardState.advance: the slots of the seconds entered are cleared. *)

\* The second the window stands at when a trade of second ts arrives: a mint
\* seen for the first time gets a window that stands at ts.
StandsAt(ts) == IF known THEN lastSec ELSE ts

\* Steps of the loop: one per second, one turn of the ring at most.
Steps(ts) ==
  LET behind == ts - StandsAt(ts)
  IN  IF behind > WindowSec THEN WindowSec ELSE behind

\* Bug: the loop runs from i = 0 to steps - 1.
ExpiredFromZero(ts) == { (StandsAt(ts) + i) % WindowSec : i \in 0 .. Steps(ts) - 1 }

\* The slots the loop clears; none when ts is not after lastSec (early return).
Expired(ts) == { (StandsAt(ts) + i) % WindowSec : i \in 1 .. Steps(ts) }

\* Bug: no early return for a trade of an earlier second.
NewLastSecAlways(ts) == ts

NewLastSec(ts) == IF ts <= StandsAt(ts) THEN StandsAt(ts) ELSE ts

\* A slot array after advance.
Cleared(slots, ts) ==
  [i \in Slot |-> IF i \in Expired(ts) THEN 0 ELSE slots[i]]

\* Bug: the slots are cleared and the total is left alone.
RemainingUntouched(total, slots, ts) == total

\* A running total after advance has subtracted the slots it clears.
Remaining(total, slots, ts) == total - SumFunctionOnSet(slots, Expired(ts))

-----------------------------------------------------------------------------
(* The EWMA update and the thresholds of process. *)

\* Bug: the old baseline is weighted with EWMAAlpha - 1.
BlendedNumNegated(cur) ==
  IF ewmaNum = 0 THEN cur
  ELSE AlphaNum * cur * ewmaDen + (AlphaNum - AlphaDen) * ewmaNum

\* w.ewma after a trade that brings the window's volume to cur.
BlendedNum(cur) ==
  IF ewmaNum = 0 THEN cur
  ELSE AlphaNum * cur * ewmaDen + (AlphaDen - AlphaNum) * ewmaNum

BlendedDen == IF ewmaNum = 0 THEN 1 ELSE AlphaDen * ewmaDen

\* cur >= SpikeMultiple * max(ewma, 1), both sides times SpikeDen * den.
Spikes(cur, num, den) ==
  /\ num > 0
  /\ SpikeDen * cur * den >= SpikeNum * num
  /\ SpikeDen * cur >= SpikeNum

\* Bug: the distance to the last alert is taken without its sign.
FiresEitherSide(ts, vol, cnt, num, den) ==
  /\ vol >= MinVolumeRaw
  /\ cnt >= MinTrades
  /\ Spikes(vol, num, den)
  /\ \/ ts - lastAlertSec >= AlertCooldownSec
     \/ lastAlertSec - ts >= AlertCooldownSec

Fires(ts, vol, cnt, num, den) ==
  /\ vol >= MinVolumeRaw
  /\ cnt >= MinTrades
  /\ Spikes(vol, num, den)
  /\ ts - lastAlertSec >= AlertCooldownSec

-----------------------------------------------------------------------------
(* shardState.process *)

\* The whole of process once advance is done, when the EWMA is updated with the
\* volume blend and the volume is then tested against the baseline num / den.
Apply(ts, amt, blend, num, den) ==
  LET idx == ts % WindowSec
      vol == (Remaining(totalVol, volSlots, ts) + amt) % VolMod
      cnt == (Remaining(totalCnt, cntSlots, ts) + 1) % CntMod
  IN  /\ known' = TRUE
      /\ volSlots' = [Cleared(volSlots, ts) EXCEPT ![idx] = (@ + amt) % VolMod]
      /\ cntSlots' = [Cleared(cntSlots, ts) EXCEPT ![idx] = (@ + 1) % CntMod]
      /\ totalVol' = vol
      /\ totalCnt' = cnt
      /\ lastSec' = NewLastSec(ts)
      /\ ewmaNum' = BlendedNum(blend)
      /\ ewmaDen' = BlendedDen
      /\ counted' = [i \in Slot |->
                       (IF i \in Expired(ts) THEN {} ELSE counted[i])
                         \cup (IF i = idx THEN {ts} ELSE {})]
      /\ IF Fires(ts, vol, cnt, num, den)
           THEN /\ lastAlertSec' = ts
                /\ alerts' = Append(alerts, [at |-> ts, vol |-> vol, cnt |-> cnt])
           ELSE UNCHANGED <<lastAlertSec, alerts>>

\* Bug: the EWMA is updated before the trade is added to the window.
ProcessBlendFirst(ts, amt) ==
  LET rest == Remaining(totalVol, volSlots, ts) % VolMod
  IN  Apply(ts, amt, rest, BlendedNum(rest), BlendedDen)

\* Bug: the volume is compared with the baseline the trade found.
ProcessOldBaseline(ts, amt) ==
  LET cur == (Remaining(totalVol, volSlots, ts) + amt) % VolMod
  IN  Apply(ts, amt, cur, IF ewmaNum = 0 THEN 1 ELSE ewmaNum, ewmaDen)

Process(ts, amt) ==
  LET cur == (Remaining(totalVol, volSlots, ts) + amt) % VolMod
  IN  Apply(ts, amt, cur, BlendedNum(cur), BlendedDen)

\* The trades a behaviour may contain: at most MaxTrades of them, none more
\* than MaxLag seconds behind the newest one of its mint.
Trade(ts, amt) ==
  /\ trades < MaxTrades
  /\ ts + MaxLag >= StandsAt(ts)
  /\ trades' = trades + 1
  /\ Process(ts, amt)

Next == \E ts \in Seconds, amt \in Amounts : Trade(ts, amt)

Spec == Init /\ [][Next]_vars
-----------------------------------------------------------------------------
(* Properties *)

\* Type invariant of the window (mintWindow, processor.go).
TypeOK ==
  /\ known \in BOOLEAN
  /\ volSlots \in [Slot -> 0 .. VolMod - 1]
  /\ cntSlots \in [Slot -> 0 .. CntMod - 1]
  /\ totalVol \in 0 .. VolMod - 1
  /\ totalCnt \in 0 .. CntMod - 1
  /\ lastSec \in Nat
  /\ ewmaNum \in Nat
  /\ ewmaDen \in Nat \ {0}
  /\ lastAlertSec \in Nat
  /\ alerts \in Seq([at : Seconds, vol : 0 .. VolMod - 1, cnt : 0 .. CntMod - 1])
  /\ counted \in [Slot -> SUBSET Seconds]
  /\ trades \in 0 .. MaxTrades

\* The running totals that process tests are what the slots add up to, modulo
\* the width of the counters: advance subtracts from the totals exactly what
\* it clears, also when a slot or a total has wrapped around.
TotalsMatchSlots ==
  /\ totalVol = SumFunction(volSlots) % VolMod
  /\ totalCnt = SumFunction(cntSlots) % CntMod

\* Every trade the window still counts is of one of the last WindowSec seconds
\* up to the newest trade: the ring has not kept a second beyond its time, and
\* no trade sits in a slot where a later second would be taken for its own.
WindowIsRecent ==
  \A i \in Slot : \A s \in counted[i] : lastSec - WindowSec < s /\ s <= lastSec

\* Any two alerts of a mint are at least the cooldown apart by the timestamps
\* of their trades, whatever order the trades arrive in: a trade that arrives
\* late can neither alert inside the cooldown nor move lastAlertSec back.
AlertsSpaced ==
  \A i, j \in DOMAIN alerts :
    i < j => alerts[j].at - alerts[i].at >= AlertCooldownSec

\* Once a mint has traded its baseline is positive and no larger than the
\* largest volume a window can show, so the ewma == 0 branch of process runs
\* for the first trade only and the test w.ewma <= 0 never suppresses a spike.
BaselineBounded ==
  known => /\ ewmaNum > 0
           /\ ewmaNum <= (VolMod - 1) * ewmaDen

\* process folds the volume into the EWMA before it compares the two, so an
\* alert needs more than SpikeMultiple times the baseline the trade found:
\* with m = SpikeMultiple and a = EWMAAlpha the volume must reach
\* m(1-a)/(1-ma) times it (six times with the defaults 3.0 and 0.2), and the
\* first trade of a mint cannot alert at all when m > 1.
AlertNeedsJump ==
  [][alerts' # alerts =>
       /\ SpikeNum > SpikeDen => known
       /\ (SpikeDen * AlphaDen - SpikeNum * AlphaNum) * totalVol' * ewmaDen
            >= SpikeNum * (AlphaDen - AlphaNum) * ewmaNum]_vars

\* A configuration New accepts and that silences the detector: when
\* EWMAAlpha * SpikeMultiple >= 1 (and SpikeMultiple > 1) no trade sequence
\* ever raises an alert.
NeverAlerts ==
  SpikeNum * AlphaNum >= SpikeDen * AlphaDen /\ SpikeNum > SpikeDen
    => alerts = <<>>

\* The ring implements the sliding window: the table of the abstract window
\* is read off the slots, second s from slot s % WindowSec.
Sliding == INSTANCE SlidingWindow WITH
  open     <- known,
  newest   <- lastSec,
  volAt    <- [s \in lastSec - WindowSec + 1 .. lastSec |-> volSlots[s % WindowSec]],
  cntAt    <- [s \in lastSec - WindowSec + 1 .. lastSec |-> cntSlots[s % WindowSec]],
  reported <- alerts

ImplementsSlidingWindow == Sliding!Spec
=============================================================================
