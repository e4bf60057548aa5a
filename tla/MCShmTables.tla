----------------------------- MODULE MCShmTables -----------------------------
(***************************************************************************)
(* Small instances of the two smaller tables of the shared memory, served  *)
(* by the same two processes: NonceTable with three nonces that probe the  *)
(* same two slots, and RateRule with two rules whose strikes of one        *)
(* address share a slot.  A behaviour has one subject; the other table     *)
(* stands still.                                                           *)
(***************************************************************************)
EXTENDS NonceTable, RateRule, TLC

CONSTANTS Subjects, p, q, ra, rb

VARIABLE subject

tableVars == <<nonceVars, rateVars, subject>>

MCBucket == [n \in Nonce |-> 0]

MCStrikeBucket == [k \in Ip \X Rule |-> 0]
MCPer == ra :> 2 @@ rb :> 1
MCStrikes == ra :> 2 @@ rb :> 1
MCTtl == [r \in Rule |-> 2]
MCBudget == [r \in Rule |-> 1]
MCWindow == [r \in Rule |-> 2]

\* The same two processes serve both tables; nonces are interchangeable.
Symm == Permutations({p, q}) \cup Permutations(Nonce)

TablesInit == subject \in Subjects /\ NonceInit /\ RateInit

Redeeming == subject = "nonce" /\ NonceNext /\ UNCHANGED <<rateVars, subject>>
Limiting  == subject = "rate" /\ RateNext /\ UNCHANGED <<nonceVars, subject>>

TablesSpec == TablesInit /\ [][Redeeming \/ Limiting]_tableVars
=============================================================================
