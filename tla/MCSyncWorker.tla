---------------------------- MODULE MCSyncWorker ----------------------------
(* Small instances of SyncWorker for TLC. *)
EXTENDS SyncWorker, TLC

\* Clients are interchangeable, and so are workers.
Symmetry == Permutations(Client) \cup Permutations(Worker)
=============================================================================
