----------------------------- MODULE MCBalances -----------------------------
(***************************************************************************)
(* Instances of Balances: a user and a pool, a token and a stablecoin, and *)
(* a second account of the user for the token.                             *)
(***************************************************************************)
EXTENDS Balances

CONSTANTS user, pool, meme, usd, none

MCOwnerOf == <<user, user, pool, pool, user>>
MCMintOf == <<meme, usd, meme, usd, meme>>
MCStableMints == {usd}
=============================================================================
