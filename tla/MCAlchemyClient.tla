-------------------------- MODULE MCAlchemyClient --------------------------
(***************************************************************************)
(* Small instances of AlchemyClient: two programs, a channel for one       *)
(* notification.                                                           *)
(***************************************************************************)
EXTENDS AlchemyClient

CONSTANTS p1, p2

MCPrograms == {p1, p2}
=============================================================================
