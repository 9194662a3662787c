---------------------------- MODULE MCUnreliable ----------------------------
(***************************************************************************)
(* Small instances side by side, told apart by `part`, of what receives    *)
(* over something it does not control:                                     *)
(*   forks    an exchange folder in which everything that may be signed    *)
(*            turns up, competing batches included;                        *)
(*   faults   a shorter stream in a folder that loses files, with keys     *)
(*            that are enrolled and revoked, and a batch without what it   *)
(*            depends on;                                                  *)
(*   network  two endpoints of a private network and a node that is        *)
(*            replaced by an empty one;                                    *)
(*   slot     an acknowledgement slot whose authorities revoke and         *)
(*            contradict themselves.                                       *)
(***************************************************************************)
EXTENDS ForkedExchange, RelayNetwork, AckSlot, TLC

MCDeps == [x \in Record |-> IF x = 2 THEN {1} ELSE {}]

A1 == Batch(0, 1, {}, {1}, FALSE, {})
A2 == Batch(1, 2, {A1}, {2}, TRUE, {})
F1 == Batch(0, 2, {}, {1, 2}, FALSE, {})      \* a group, and a fork at the start
F2 == Batch(1, 2, {A1}, {1, 2}, FALSE, {})    \* a fork after A1
A3 == Batch(2, 3, {A2}, {1}, FALSE, {})
E1 == Batch(0, 1, {}, {}, FALSE, {})          \* nothing was admitted at the sender
E2 == Batch(1, 2, {E1}, {2}, TRUE, {})        \* leaves out what E1 did not carry
N2 == Batch(1, 2, {E1}, {2}, FALSE, {})       \* not closed, and does not say so

MCSigned == {A1, A2, F1, F2, A3, E1, E2, N2}
MCShort == {E1, E2, N2, F1}

CONSTANTS Other, Second
VARIABLE part

Document(issuer, revision, digest, revoked) ==
    [issuer |-> issuer, revision |-> revision, digest |-> digest, revoked |-> revoked]
Request(original, variant) == [original |-> original, variant |-> variant]

\* The owner contradicts its first document, and revokes in its second.
Stands1 == Document("owner", 1, 1, FALSE)
Fork1 == Document("owner", 1, 2, FALSE)
Revoked2 == Document("owner", 2, 3, TRUE)
Writer1 == Document("writer", 1, 4, FALSE)

\* Two write grants for a slot; one receipt, in two requests.
MCBindRequest == {Request("w1", 1), Request("w2", 1)}
MCPutRequest == {Request("p1", 1), Request("p1", 2)}
MCStatuses == {{Stands1}, {Fork1}, {Revoked2}, {Stands1, Writer1}}

Working == {p \in Caller : request[p].pc \in {"gate", "publish"}}

MCInit ==
    /\ Init /\ NetInit /\ AckInit
    /\ \/ part \in {"forks", "faults"}
       \/ part \in {"network", "slot"} /\ \A r \in Receiver : Untrusted(r) = {}

\* The callers of a slot are interchangeable: Second comes only to another one.
MCNext ==
    /\ UNCHANGED part
    /\ \/ /\ part = "forks" /\ Next /\ UNCHANGED <<netVars, ackVars>>
          /\ steady' /\ fragments \subseteq fragments' /\ N2 \notin exch'
       \/ /\ part = "faults" /\ Next /\ exch' \subseteq MCShort /\ UNCHANGED <<netVars, ackVars>>
          /\ N2 \in exch' => exch' \subseteq {E1, N2}
       \/ part = "network" /\ NetNext /\ UNCHANGED <<vars, ackVars>>
       \/ /\ part = "slot" /\ AckNext /\ UNCHANGED <<vars, netVars>>
          /\ Second \in Working' => Working # {}

MCSpec == MCInit /\ [][MCNext]_<<vars, netVars, ackVars, part>>

Busy(P) == {p \in P : call[p] # Idle}
Queued == {m \in Message : outbox[m].queued}

\* Two processes of the network work at a time; when two messages are queued,
\* one of each endpoint, with the first incarnation of the node.
MCBound ==
    /\ Cardinality(Busy(Process)) <= 2
    /\ \/ Cardinality(Queued) <= 1
       \/ /\ Cardinality(Busy(Sending)) <= 1 /\ Cardinality(Busy(Receiving)) <= 1
          /\ \A a \in Address : node[a].epoch = 1

\* Other stays unbound and is only read; it is allocated once the first resource
\* is ready, and requests come once nothing is half allocated.  Two at a time
\* are two of a kind at the first resource, or one there and a read of Other.
\* Two of the three documents of the owner turn up, any two of them.
SlotBound ==
    /\ {Stands1, Fork1, Revoked2} \notin SUBSET (presented \cup UNION {request[p].statuses : p \in Working})
    /\ slot[Other].phase # "none" =>
        \A r \in Resource \ {Other} : slot[r].phase \notin {"none", "pending", "active"}
    /\ Working # {} => \A r \in Resource : slot[r].phase \notin {"pending", "active"}
    /\ \A p \in Working : request[p].at = Other => request[p].op = "read"
    /\ \A p, q \in Working : p # q =>
        IF request[p].op = request[q].op THEN request[p].op # "read"
        ELSE Other \in {request[p].at, request[q].at}

\* The processes of an endpoint are interchangeable.
Symmetry == Permutations(Sending) \cup Permutations(Receiving)
=============================================================================
