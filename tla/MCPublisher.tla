---------------------------- MODULE MCPublisher ----------------------------
(* Small instances of Publisher for TLC. *)
EXTENDS Publisher

\* Record 2 was derived from record 1; record 3 stands alone.
MCDeps == [x \in Record |-> IF x = 2 THEN {1} ELSE {}]
=============================================================================
