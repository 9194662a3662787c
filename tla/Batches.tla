------------------------------ MODULE Batches ------------------------------
(***************************************************************************)
(* The signed batches (capsules) of memory_vault_transfer.py and the pure  *)
(* questions the publisher and the receivers ask about them.               *)
(*                                                                         *)
(* A batch covers the delivery-log interval (after, cursor] of one signed  *)
(* stream, i.e. one (sender key, source store) pair.  Its digest is the    *)
(* SHA-256 of its canonical bytes and its signature is deterministic, so   *)
(* the batch itself stands for its digest: two batches have one digest iff *)
(* they are equal.  A value that may be missing (a file, a null field) is  *)
(* a set with at most one element.                                         *)
(***************************************************************************)
EXTENDS Naturals, FiniteSets

CONSTANTS
    Record,      \* canonical memory records, numbered in the order of creation
    Deps,        \* Deps[x]: the targets of the relations of record x
    InlineMax    \* a batch of more records travels as a fragment group

ASSUME RecordAssumption == Record \subseteq Nat
ASSUME DepsAssumption == Deps \in [Record -> SUBSET Record]
ASSUME InlineMaxAssumption == InlineMax \in Nat

\* The fields of a batch that decide what happens to it.  `thin` is the v3
\* "prior_stream" schema, which leaves out records the stream already carries;
\* `review` names the operator request that rewrote the batch, if one did, and
\* the batch it replaced.
Batch(after, cursor, prev, records, thin, review) ==
    [after |-> after, cursor |-> cursor, prev |-> prev,
     records |-> records, thin |-> thin, review |-> review]

\* What publish.started.json says about a batch.
Marker(b) == [batch |-> b, cursor |-> b.cursor]

\* A grouped batch carries its records in content-addressed fragment files;
\* the group is identified by its content, so fragment x of a group is <<records, x>>.
IsGroup(b) == Cardinality(b.records) > InlineMax

Fragment(b, x) == <<b.records, x>>

Fragments(b) == IF IsGroup(b) THEN {Fragment(b, x) : x \in b.records} ELSE {}

\* Fragments are handled in index order: x is the next one missing from `have`.
NextFragment(b, have, x) ==
    /\ IsGroup(b)
    /\ x \in b.records
    /\ Fragment(b, x) \notin have
    /\ \A y \in b.records : Fragment(b, y) \notin have => x <= y

\* The least set that contains S and, with any record, those of its relation
\* targets that are not in `omit`: the traversal of Vault._changes.
Pull(S, omit) ==
    {x \in Record :
        \A T \in SUBSET Record :
            (S \subseteq T /\ \A t \in T : Deps[t] \ omit \subseteq T) => x \in T}

Closure(S) == Pull(S, {})

Closed(S) == \A x \in S : Deps[x] \subseteq S

\* A set of batches without a fork: one batch per stream prefix, every batch
\* hash-linked to the batch in the set that ends where it starts.
OnePerPrefix(S) == \A a, b \in S : a.after = b.after => a = b

HashLinked(S) ==
    \A b \in S : b.after > 0 => \E p \in S : b.prev = {p} /\ p.cursor = b.after
=============================================================================
