--------------------------- MODULE ForkedExchange ---------------------------
(***************************************************************************)
(* Receivers in front of an exchange they cannot rely on: any signed batch *)
(* of the stream may turn up at any time, competing ones included, as when *)
(* two publisher states share one key or an old exchange is copied back.   *)
(***************************************************************************)
EXTENDS Receiver

CONSTANT Signed      \* the batches that carry a valid signature of the stream

\* Whatever else is signed, an interval is not empty ("invalid_transfer_cursor").
ASSUME SignedAssumption ==
    \A b \in Signed :
        b.after \in Nat /\ b.cursor \in Nat /\ b.after < b.cursor /\ b.records \subseteq Record

VARIABLE steady      \* history: no file was lost yet, and no key enrolled or revoked

vars == <<exchVars, recvVars, steady>>

Init == ExchangeInit /\ RecvInit /\ steady = TRUE

\* The folder service delivers a batch, with the fragments of its group.
Appear(b) ==
    /\ b \notin exch
    /\ exch' = exch \cup {b}
    /\ fragments' = fragments \cup Fragments(b)
    /\ UNCHANGED <<recvVars, steady>>

\* A lost fragment is only missing; a lost file may hide that two compete.
Lose ==
    /\ \/ LoseFile /\ steady' = FALSE
       \/ LoseFragment /\ UNCHANGED steady
    /\ UNCHANGED recvVars

Next ==
    \/ \E r \in Receiver : ReceiverStep(r) /\ steady' = (steady /\ trust' = trust)
    \/ \E b \in Signed : Appear(b)
    \/ Lose

Spec == Init /\ [][Next]_vars

----------------------------------------------------------------------------
(* Properties *)

\* While the folder keeps its files and trust is what it was, no receiver ever
\* admits two branches, or a batch without those before it, whatever competes
\* (DirectoryTransfer.receive, receive_capsule).
KeptIsOneStream == steady => AcceptedIsOneStream

\* The head is in the vault, whatever was lost; and while nothing is, the vault
\* is at most one batch ahead of it (DirectoryTransfer.receive).
HeadFollowsVault == HeadHasReceipt /\ (steady => AtMostOneAhead)
=============================================================================
