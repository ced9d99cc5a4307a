----------------------------- MODULE MCWebhook ------------------------------
(***************************************************************************)
(* Small instances of Webhook: two accounts, one stablecoin and two other  *)
(* mints, amounts on both sides of every threshold.                        *)
(***************************************************************************)
EXTENDS Webhook

Token(account, m, n) == [userAccount |-> account, mint |-> m, amount |-> n]
Native(account, n) == [account |-> account, amount |-> n]

MCTokenInputs == {<<>>, <<Token("b", "OLD", 7)>>, <<Token("b", "OLD", 7), Token("a", "USD", 7)>>}

MCTokenOutputs ==
  { <<>>,
    <<Token("b", "NEW", 7)>>,
    <<Token("a", "USD", 7)>>,
    <<Token("c", "USD", 7), Token("a", "NEW", 8), Token("b", "OLD", 9)>>,
    <<Token("", "NEW", 0)>>,
    <<Token("c", "NEW", NotANumber), Token("a", "", 8)>> }

\* A token side and a native side; the code looks at the native one only when
\* the token one is empty, so one native value beside tokens is enough.
Sides(tokens, natives) ==
  {<<t, n>> \in tokens \X ({<<>>} \cup natives) : t = <<>> \/ n \in {<<>>, <<Native("b", 2)>>}}

MCInputs == Sides(MCTokenInputs, {<<Native("b", n)>> : n \in {NotANumber, 0, 2, 3}})
MCOutputs == Sides(MCTokenOutputs, {<<Native("b", n)>> : n \in {NotANumber, 2, 3}})

Swap(payer, in, out) ==
  [ isSwap |-> TRUE, timestamp |-> 1, feePayer |-> payer,
    tokenInputs  |-> in[1],  nativeInput  |-> in[2],
    tokenOutputs |-> out[1], nativeOutput |-> out[2] ]

\* Every swap of these sides, and one eligible swap that is not typed as a swap
\* or carries no timestamp.
MCTxs ==
  LET eligible == Swap("a", <<<<>>, <<Native("a", 3)>>>>, <<<<Token("a", "NEW", 8)>>, <<>>>>)
  IN  {Swap(payer, in, out) : payer \in {"", "a"}, in \in MCInputs, out \in MCOutputs}
        \cup {eligible, [eligible EXCEPT !.isSwap = FALSE], [eligible EXCEPT !.timestamp = 0]}
=============================================================================
