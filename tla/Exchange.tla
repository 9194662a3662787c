------------------------------ MODULE Exchange ------------------------------
(***************************************************************************)
(* The shared exchange directory of one stream, as DirectoryTransfer sees  *)
(* it: a set of capsule files and a set of group fragment files.  The      *)
(* directory is carried by a folder service that is not part of the        *)
(* program; it can lose a file at any time.                                *)
(***************************************************************************)
EXTENDS Batches

CONSTANT
    Faults       \* what may happen around the program: lost files, changes of trust

ASSUME FaultsAssumption ==
    Faults \subseteq {"lose_file", "lose_fragment", "lose_index", "lose_state", "trust"}

VARIABLES
    exch,        \* the capsule files of the stream that are in the exchange
    fragments    \* the fragment files of its groups that are there

exchVars == <<exch, fragments>>

ExchangeInit ==
    /\ exch = {}
    /\ fragments = {}

\* The folder service loses a capsule ("even if the output later disappears").
LoseFile ==
    /\ "lose_file" \in Faults
    /\ \E b \in exch : exch' = exch \ {b}
    /\ UNCHANGED fragments

LoseFragment ==
    /\ "lose_fragment" \in Faults
    /\ \E f \in fragments : fragments' = fragments \ {f}
    /\ UNCHANGED exch
=============================================================================
