------------------------------ MODULE FlagStore ------------------------------
(***************************************************************************)
(* What the flagged-IP table promises: for every address and namespace it  *)
(* keeps some of the flags that were raised for that very key.  The store  *)
(* is lossy: an entry may shrink or vanish at any time (expiry, eviction,  *)
(* a clear, a crashed writer).  It never invents a flag and never lets one *)
(* key's flags reach another.                                              *)
(***************************************************************************)
CONSTANTS
    Key,      \* <<address, namespace>>
    Flags     \* flag bits

VARIABLES
    raised,   \* the flags ever raised for each key
    entry     \* the flags the store holds for each key, {} for no entry

Init ==
    /\ raised = [k \in Key |-> {}]
    /\ entry = [k \in Key |-> {}]

\* A flag is raised; the store need not show it yet, or ever.
Raise(k, F) ==
    /\ raised' = [raised EXCEPT ![k] = @ \cup F]
    /\ UNCHANGED entry

\* The entry of one key changes, to flags raised for that key.
Publish(k, F) ==
    /\ F \subseteq raised[k]
    /\ entry' = [entry EXCEPT ![k] = F]
    /\ UNCHANGED raised

Next == \E k \in Key, F \in SUBSET Flags : Raise(k, F) \/ Publish(k, F)

Spec == Init /\ [][Next]_<<raised, entry>>
==============================================================================
