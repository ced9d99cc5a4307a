----------------------------- MODULE MCMetadata -----------------------------
(***************************************************************************)
(* Small instances of Metadata: two mints, one or two callers.             *)
(***************************************************************************)
EXTENDS Metadata

CONSTANTS m1, m2

MCMints == {m1, m2}
=============================================================================
