------------------------------ MODULE MCEngine ------------------------------
(***************************************************************************)
(* Small instances of Engine: two mints, each on a shard of its own.       *)
(***************************************************************************)
EXTENDS Engine

CONSTANTS m1, m2

MCMints == {m1, m2}
MCShards == 0 .. 1
MCShardOf == [m \in MCMints |-> IF m = m1 THEN 0 ELSE 1]
=============================================================================
