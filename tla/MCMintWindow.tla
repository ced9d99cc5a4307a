---------------------------- MODULE MCMintWindow ----------------------------
(***************************************************************************)
(* Small instances of MintWindow.  The window is three seconds, the        *)
(* timestamps span more than two turns of the ring, and the amounts are    *)
(* one dust trade and one large enough to spike over a baseline of dust;   *)
(* two large ones make the total of a window wrap to zero.                 *)
(***************************************************************************)
EXTENDS MintWindow

MCSeconds == 1 .. 7
MCAmounts == {1, 8}
=============================================================================
