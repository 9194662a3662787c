------------------------------ MODULE MCWriter ------------------------------
(***************************************************************************)
(* What a writer runs, small instances side by side told apart by `part`:  *)
(* the publisher called by the sync client, the publisher called directly, *)
(* without a guard, a shorter log and no reviews, and the sync worker with *)
(* its clients.                                                            *)
(***************************************************************************)
EXTENDS Publisher, SyncWorker, TLC

\* Record 2 was derived from record 1.
MCDeps == [x \in Record |-> IF x = 2 THEN {1} ELSE {}]

VARIABLE part

MCInit == PubInit /\ Init /\ part \in {"publisher", "direct", "sync"}
MCNext ==
    \/ part = "publisher" /\ PubNext /\ op'.kind # "direct" /\ UNCHANGED <<vars, part>>
    \/ /\ part = "direct" /\ PubNext /\ op'.kind # "guarded" /\ UNCHANGED <<vars, part>>
       /\ UNCHANGED reviews /\ Len(log') <= 3
    \/ part = "sync" /\ Next /\ UNCHANGED <<pubVars, part>>

MCSpec == MCInit /\ [][MCNext]_<<pubVars, vars, part>>

\* Clients are interchangeable, and so are workers.
Symmetry == Permutations(Client) \cup Permutations(Worker)
=============================================================================
