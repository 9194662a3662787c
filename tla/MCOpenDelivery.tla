-------------------------- MODULE MCOpenDelivery --------------------------
(* Small instances of OpenDelivery for TLC. *)
EXTENDS OpenDelivery, TLC

Busy(P) == {p \in P : call[p] # Idle}

\* Threads of the node whose caller does not wait for them any more.
Orphans == {j \in commits : call[j.by].pc # "commit"}

\* Two processes work at a time, orphaned threads included.  They are two of the
\* sender until something is stored and committed, and two of the recipient
\* while the policy is active and no intent is valid, so that nothing is being
\* uploaded: what a recipient does with what is stored does not depend on
\* intents.  A policy in conflict is followed until a message is stored.  Where
\* a lease is revoked, which refuses all that a revoked policy refuses, the
\* policy is not.
MCBound ==
    /\ Cardinality(Busy(Process)) + Cardinality(Orphans) <= 2
    /\ Cardinality(Busy(Sending)) = 2 => mailbox.sequence = 0 \/ commits # {}
    /\ Cardinality(Busy(Receiving)) = 2 => policy.status = "active" /\ valid = {}
    /\ policy.status = "conflict" => mailbox.sequence = 0
    /\ policy.status = "active" \/ \A g \in Grant : contact[g].lease # "revoked"

\* Messages and the processes of an endpoint are interchangeable.
Symmetry ==
    Permutations(Message) \cup Permutations(Sending) \cup Permutations(Receiving)
=============================================================================
