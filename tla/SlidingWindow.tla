---------------------------- MODULE SlidingWindow ----------------------------
(***************************************************************************)
(* What the spike detector promises for one mint, without the ring: a      *)
(* table of the trades of every one of the last WindowSec seconds, and     *)
(* alerts that report exactly what the table adds up to, only above the    *)
(* volume and trade thresholds, and never closer than the cooldown.  Which *)
(* of the windows that qualify raise an alert is left open: the EWMA test  *)
(* of shardState.process decides it (MintWindow.tla).                      *)
(***************************************************************************)
EXTENDS Integers, Sequences, Functions

CONSTANTS WindowSec, MinVolumeRaw, MinTrades, AlertCooldownSec,
          VolMod, CntMod, Amounts, Seconds

VARIABLES
  open,      \* a trade has been seen
  newest,    \* the newest second seen
  volAt,     \* volume of each second of the window
  cntAt,     \* trades of each second of the window
  reported   \* the alerts raised, in order

swvars == <<open, newest, volAt, cntAt, reported>>

\* The seconds of the window that ends at n.
Span(n) == n - WindowSec + 1 .. n

Init ==
  /\ open = FALSE
  /\ newest = 0
  /\ volAt = [s \in Span(0) |-> 0]
  /\ cntAt = [s \in Span(0) |-> 0]
  /\ reported = <<>>

\* The table of the window that ends at n: what both windows share is kept,
\* seconds that enter are empty, and the trade is added to its second.
Slide(table, n, ts, amt, mod) ==
  [s \in Span(n) |->
     ((IF open /\ s \in Span(newest) THEN table[s] ELSE 0)
        + (IF s = ts THEN amt ELSE 0)) % mod]

\* The alert that reports the tables vol and cnt for a trade of second ts.
Report(vol, cnt, ts) ==
  [at  |-> ts,
   vol |-> SumFunction(vol) % VolMod,
   cnt |-> SumFunction(cnt) % CntMod]

Trade(ts, amt) ==
  LET end == IF open /\ newest > ts THEN newest ELSE ts
      vol == Slide(volAt, end, ts, amt, VolMod)
      cnt == Slide(cntAt, end, ts, 1, CntMod)
      alert == Report(vol, cnt, ts)
  IN  /\ ts \in Span(end)
      /\ open' = TRUE
      /\ newest' = end
      /\ volAt' = vol
      /\ cntAt' = cnt
      /\ \/ reported' = reported
         \/ /\ alert.vol >= MinVolumeRaw
            /\ alert.cnt >= MinTrades
            /\ \A i \in DOMAIN reported : ts - reported[i].at >= AlertCooldownSec
            /\ reported' = Append(reported, alert)

Next == \E ts \in Seconds, amt \in Amounts : Trade(ts, amt)

Spec == Init /\ [][Next]_swvars
=============================================================================
