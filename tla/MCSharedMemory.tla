--------------------------- MODULE MCSharedMemory ---------------------------
(***************************************************************************)
(* Small instances of two parts of the shared memory: BloomPair with two   *)
(* addresses, the bits of one among those of the other, and StateFile with *)
(* the parent, the watchdog child and three inodes (one for each name and  *)
(* one that is open or may still be found after a power failure).  A       *)
(* behaviour has one subject; the other stands still.                      *)
(***************************************************************************)
EXTENDS BloomPair, StateFile, TLC

CONSTANTS Subjects, a, b

VARIABLE subject

MCIndex == a :> <<0, 1>> @@ b :> <<0, 0>>
Symm == Permutations(Requests)

SharedInit == subject \in Subjects /\ Init /\ StateInit

Filtering == subject = "filter" /\ Next /\ UNCHANGED <<stateVars, subject>>
Saving == subject = "file" /\ StateNext /\ UNCHANGED <<vars, subject>>

SharedSpec == SharedInit /\ [][Filtering \/ Saving]_<<vars, stateVars, subject>>
=============================================================================
