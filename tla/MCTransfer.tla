----------------------------- MODULE MCTransfer -----------------------------
(* Small instances of Transfer for TLC. *)
EXTENDS Transfer

\* Record 2 was derived from record 1.
MCDeps == [x \in Record |-> IF x = 2 THEN {1} ELSE {}]
=============================================================================
