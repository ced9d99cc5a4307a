---------------------------- MODULE MCEnrichment ----------------------------
(***************************************************************************)
(* Small instances of Enrichment: two workers, a queue for one task.       *)
(***************************************************************************)
EXTENDS Enrichment

CONSTANTS s1, s2, w1, w2

MCSigs == {s1, s2}
MCWorkers == {w1, w2}
=============================================================================
