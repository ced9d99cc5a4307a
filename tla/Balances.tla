------------------------------ MODULE Balances ------------------------------
(***************************************************************************)
(* extractSwapInfo of the Alchemy enricher: the swap is guessed from the   *)
(* token balances before and after a transaction.  The swapper is taken to *)
(* be the owner whose balances changed most, the output the token it       *)
(* gained most of, a stablecoin only when it gained nothing else.          *)
(*                                                                         *)
(* A transaction names token accounts.  Each has an owner and a mint, is   *)
(* listed before and after or in one list only, and an owner may have      *)
(* several accounts for one mint.  Go's maps are iterated in any order, so *)
(* the result is one of a set.                                             *)
(***************************************************************************)
EXTENDS Integers, FiniteSets, FiniteSetsExt, Functions

CONSTANTS
  Size,          \* the accounts are 1 .. Size, in the order of the lists
  OwnerOf,       \* account -> owner
  MintOf,        \* account -> mint
  StableMints,   \* stablecoinMints
  Amounts,       \* UI amounts
  Absent         \* not in the list

Accounts == 1 .. Size
Owners == Range(OwnerOf)
Mints == Range(MintOf)

ASSUME BalancesAssumption ==
  /\ Size \in Nat \ {0}
  /\ DOMAIN OwnerOf = Accounts /\ DOMAIN MintOf = Accounts
  /\ Amounts \subseteq Nat /\ Absent \notin Amounts

VARIABLES
  pre, post,   \* PreTokenBalances and PostTokenBalances
  swap         \* what extractSwapInfo returned, <<>> while it runs

-----------------------------------------------------------------------------
\* The entries of a list for an owner and a mint.
Entries(list, o, m) ==
  {a \in Accounts : list[a] # Absent /\ OwnerOf[a] = o /\ MintOf[a] = m}

\* preBalances and postBalances: a later entry replaces an earlier one.
Amount(list, o, m) ==
  IF Entries(list, o, m) = {} THEN 0 ELSE list[Max(Entries(list, o, m))]

\* Only what is listed afterwards is looked at.
Delta(o, m) ==
  IF Entries(post, o, m) = {} THEN 0 ELSE Amount(post, o, m) - Amount(pre, o, m)

Abs(n) == IF n < 0 THEN -n ELSE n

TotalDelta(o) == SumFunctionOnSet([m \in Mints |-> Abs(Delta(o, m))], Mints)

Outputs(o) == {m \in Mints : Delta(o, m) > 0}

\* The loops that keep the greatest value met so far.
Greatest(S, value(_)) == {x \in S : \A y \in S : value(y) <= value(x)}

\* Bug: maxDelta is never raised.
AnyMover == {o \in Owners : TotalDelta(o) > 0}

Swappers == Greatest({o \in Owners : TotalDelta(o) > 0}, TotalDelta)

\* Bug: stablecoins compete with the other outputs.
AnyOutput(o) == Greatest(Outputs(o), LAMBDA m : Delta(o, m))

\* The first pass looks at the other outputs only, the second at all.
OutputMints(o) ==
  LET others == Outputs(o) \ StableMints
  IN  Greatest(IF others # {} THEN others ELSE Outputs(o), LAMBDA m : Delta(o, m))

NoSwap == <<"none">>

\* What extractSwapInfo may return.
Extracted ==
  IF \A a \in Accounts : pre[a] = Absent
  THEN {NoSwap}
  ELSE LET swaps == UNION {{<<o, m, Delta(o, m)>> : m \in OutputMints(o)} : o \in Swappers}
           fails == Swappers = {} \/ \E o \in Swappers : Outputs(o) = {}
       IN  swaps \cup (IF fails THEN {NoSwap} ELSE {})

Init ==
  /\ pre \in [Accounts -> Amounts \cup {Absent}]
  /\ post \in [Accounts -> Amounts \cup {Absent}]
  /\ swap = <<>>

ExtractSwapInfo ==
  /\ swap = <<>>
  /\ swap' \in Extracted
  /\ UNCHANGED <<pre, post>>

Next == ExtractSwapInfo

Spec == Init /\ [][Next]_<<pre, post, swap>>

-----------------------------------------------------------------------------
(* Properties *)

\* What an owner holds of a mint in all its accounts.
Holding(list, o, m) == SumFunctionOnSet(list, Entries(list, o, m))

Change(o, m) == Holding(post, o, m) - Holding(pre, o, m)

Moved(o) == SumFunctionOnSet([m \in Mints |-> Abs(Change(o, m))], Mints)

\* No account is closed, and of several accounts of one owner for one mint only
\* the last one changes.
Visible ==
  /\ \A a \in Accounts : post[a] = Absent => pre[a] = Absent
  /\ \A o \in Owners, m \in Mints : \A a, b \in Entries(post, o, m) :
       a < b => pre[a] = post[a] /\ pre[b] # Absent

\* "Find swapper: account with greatest total volume change"
\* (alchemy_tx_enricher.go:265): no owner moved more than the swapper, whose
\* output is what it gained, all of it, and its largest gain of those that are
\* no stablecoins if there are any.  It needs Visible: the lines 254 and 262
\* replace an entry, and the loop at 274 does not see a closed account.
SwapperMovedMost ==
  Visible /\ swap \notin {<<>>, NoSwap} =>
    LET o == swap[1]
        m == swap[2]
        rival(n) == Change(o, n) > 0 /\ (m \in StableMints \/ n \notin StableMints)
    IN  /\ \A p \in Owners : Moved(p) <= Moved(o)
        /\ swap[3] = Change(o, m) /\ Change(o, m) > 0
        /\ \A n \in Mints : rival(n) => Change(o, n) <= Change(o, m)
        /\ m \in StableMints => \A n \in Mints \ StableMints : Change(o, n) <= 0

\* Only a tie leaves the answer to the order of the maps: between two owners
\* that moved the same, or between two gains of one owner that are the same.
UntiedIsDetermined ==
  (Visible /\ Cardinality(Extracted) > 1) =>
    \/ \E o, p \in Owners : o # p /\ Moved(o) = Moved(p) /\ Moved(o) > 0
    \/ \E o \in Owners, m, n \in Mints :
         m # n /\ Change(o, m) = Change(o, n) /\ Change(o, m) > 0
=============================================================================
