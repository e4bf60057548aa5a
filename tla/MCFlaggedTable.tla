--------------------------- MODULE MCFlaggedTable ---------------------------
(* An instance of FlaggedTable for TLC: two addresses share their first    *)
(* slot, so they evict, merge with and hide behind each other.             *)
EXTENDS FlaggedTable, TLC

CONSTANTS a, b, w1, r1

MCBucket == [k \in Key |-> 0]
MCNets   == {{a, b}}
=============================================================================
