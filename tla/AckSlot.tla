------------------------------ MODULE AckSlot ------------------------------
(***************************************************************************)
(* The acknowledgement slot of an owner at a node of the open network      *)
(* (memory_vault_open_repair_state.py, _access.py, _empty_state.py and     *)
(* _occupied_state.py).  The owner allocates a resource for the slot, and  *)
(* binds it to one write grant; the writer of that grant puts one receipt. *)
(* Each of these requests, and each read, brings the signed statuses of    *)
(* the authorities it rests on.  It is prepared without a lock, checked in *)
(* one transaction, built without a lock, and checked again in the         *)
(* transaction that publishes its result.  A check records the statuses it *)
(* was shown also when it refuses: what one resource has seen revoked, is  *)
(* revoked for every resource of the same root.                            *)
(***************************************************************************)
EXTENDS Naturals, FiniteSets

CONSTANTS
    Resource,      \* resources of one slot at one node
    Caller,        \* requests the node works on at the same time
    BindRequest,   \* of the owner: the write grant, and the rest of the request
    PutRequest,    \* of the writer: the receipt, and the rest of the request
    Statuses,      \* sets of signed status documents that a request may bring
    MaxDocuments   \* bound on the documents a resource pays for

\* The digest of a document is over all of it.
ASSUME StatusesAssumption ==
    /\ \A D \in Statuses : \A d \in D : d.revision \in Nat /\ d.digest \in Nat
    /\ \A d, e \in UNION Statuses : d.digest = e.digest => d = e

VARIABLES
    slot,       \* per resource: phase, the request it is bound by, the one that filled it
    ledger,     \* per resource: observed statuses, and why it is blocked
    latched,    \* every resource of the root is refused
    request,    \* what the node does for each caller
    presented,  \* history: statuses that came before a check that committed
    replies     \* history: bindings and receipts that were confirmed

ackVars == <<slot, ledger, latched, request, presented, replies>>

NoRequest == [pc |-> "idle"]

AckInit ==
    /\ slot = [r \in Resource |-> [phase |-> "none", bind |-> {}, put |-> {}]]
    /\ ledger = [r \in Resource |-> [documents |-> {}, blocked |-> "none"]]
    /\ latched = FALSE
    /\ request = [p \in Caller |-> NoRequest]
    /\ presented = {}
    /\ replies = {}

----------------------------------------------------------------------------
(* Allocation: three transactions, each of which returns its saved originals *)
(* when it is repeated.                                                      *)

Advance(r, from, to) ==
    /\ slot[r].phase = from
    /\ slot' = [slot EXCEPT ![r].phase = to]
    /\ UNCHANGED <<ledger, latched, request, presented, replies>>

\* The node reserves capacity, if it has any left, before it offers.
Allocate(r) == Advance(r, "none", "pending")

\* An offer that lapsed is not activated any more, and stays reserved.
Activate(r) == Advance(r, "pending", "active")

FinalizeUnbound(r) == Advance(r, "active", "unbound")

----------------------------------------------------------------------------
(* The ledger of statuses *)

Of(i, D) == {d \in D : d.issuer = i}

\* What any resource of the root has recorded.
Recorded(L) == UNION {L[r].documents : r \in Resource}

Contradicts(d, e) == d.issuer = e.issuer /\ d.revision = e.revision /\ d.digest # e.digest

\* Observations are recorded by revision, then by digest.
Before(D, d) == {e \in D : e.revision < d.revision \/ (e.revision = d.revision /\ e.digest < d.digest)}

\* A resource pays for every document it records.
Full(r, D, d) ==
    /\ d \notin ledger[r].documents
    /\ Cardinality(ledger[r].documents \cup Before(D, d)) >= MaxDocuments

\* Any resource of the root has recorded another document of that revision.
Contradicted(D, d) == \E e \in Recorded(ledger) \cup Before(D, d) : Contradicts(d, e)

\* Nothing is recorded by a resource that is blocked, and nothing after the
\* document that blocks it.
Reached(r, D) ==
    {d \in D : /\ ledger[r].blocked = "none"
               /\ \A e \in Before(D, d) : ~Full(r, D, e) /\ ~Contradicted(D, e)}

\* What a check leaves of the statuses D, whatever it decides.  A document that
\* cannot be paid for latches the root; a contradiction is recorded, and blocks
\* the resource.
Observe(r, D) ==
    LET unpaid == {d \in Reached(r, D) : Full(r, D, d)}
        taken == Reached(r, D) \ unpaid
        reason == IF unpaid # {} THEN "capacity"
                  ELSE IF \E d \in taken : Contradicted(D, d) THEN "conflict"
                  ELSE ledger[r].blocked
    IN  [ledger |-> [ledger EXCEPT ![r] = [documents |-> @.documents \cup taken, blocked |-> reason]],
         latched |-> latched \/ unpaid # {}]

\* Mutant: what one resource has seen is not held against the others.
StandsHere(i, r, D, L) ==
    \E d \in Of(i, D \cap L[r].documents) : \A e \in Of(i, L[r].documents) :
        ~d.revoked /\ ~Contradicts(d, e) /\ e.revision <= d.revision

\* The authority of i stands: nothing revoked or contradicted anywhere at the
\* root, and D has the newest status that any resource has recorded.
Stands(i, r, D, L) ==
    LET known == Of(i, Recorded(L))
    IN  /\ \A d, e \in known : ~d.revoked /\ ~Contradicts(d, e)
        /\ \E d \in D \cap L[r].documents : d \in known /\ \A e \in known : e.revision <= d.revision

\* Nobody may present an older status than this resource had before.
RollsBack(r, D) == \E d \in D : \E e \in Of(d.issuer, ledger[r].documents) : d.revision < e.revision

----------------------------------------------------------------------------
(* Requests *)

\* Who issues the statuses a request rests on: the node's own do not change.
Issuers(op, phase) == IF op = "put" \/ phase = "occupied" THEN {"owner", "writer"} ELSE {"owner"}

\* The phases in which a request finds anything to do.
Phases(op) ==
    CASE op = "bind" -> {"unbound", "empty", "conflicted"}
      [] op = "put" -> {"empty", "occupied"}
      [] op = "read" -> {"unbound", "empty", "occupied"}

Requests(op) ==
    CASE op = "bind" -> BindRequest [] op = "put" -> PutRequest [] op = "read" -> {[kind |-> "read"]}

\* The originals are authenticated against a snapshot of the resource.
Prepare(p, op, r, q, D) ==
    /\ request[p].pc \in {"idle", "granted"} /\ slot[r].phase \in Phases(op)
    /\ {d.issuer : d \in D} \subseteq Issuers(op, slot[r].phase)
    /\ request' = [request EXCEPT ![p] =
        [pc |-> "gate", op |-> op, at |-> r, q |-> q, statuses |-> D, stamp |-> slot[r]]]
    /\ UNCHANGED <<slot, ledger, latched, presented, replies>>

\* Mutant: the snapshot is not compared again.
UnmovedNever(p) == TRUE

\* A check sees the resource as it was prepared, or records nothing.
Unmoved(p) == slot[request[p].at] = request[p].stamp

\* The transaction commits what it observed, before its answer is known.
Commit(p, fresh) ==
    LET after == Observe(request[p].at, fresh)
    IN  /\ ledger' = after.ledger /\ latched' = after.latched
        /\ presented' = presented \cup fresh

\* All of the statuses are still valid, and none refuses the request.
Permitted(p, fresh) ==
    LET c == request[p]
        after == Observe(c.at, fresh)
    IN  /\ fresh = c.statuses /\ c.stamp.phase # "conflicted" /\ ~RollsBack(c.at, fresh)
        /\ ~after.latched /\ after.ledger[c.at].blocked = "none"
        /\ \A i \in Issuers(c.op, c.stamp.phase) : Stands(i, c.at, fresh, after.ledger)

\* What the resource already has of the kind that is requested.
Existing(p) == IF request[p].op = "read" THEN {} ELSE slot[request[p].at][request[p].op]

Competes(p) == \E e \in Existing(p) : e.original # request[p].q.original

Checks(p, pc, fresh) ==
    request[p].pc = pc /\ Unmoved(p) /\ fresh \subseteq request[p].statuses /\ Commit(p, fresh)

Answer(p) == request' = [request EXCEPT ![p] = NoRequest]

Refuse(p, pc, fresh) ==
    /\ Checks(p, pc, fresh) /\ ~Permitted(p, fresh)
    /\ Answer(p) /\ UNCHANGED <<slot, replies>>

\* Another original for what is bound or filled: both are void from now on.
Conflict(p, fresh) ==
    /\ Checks(p, "gate", fresh) /\ Permitted(p, fresh) /\ Competes(p)
    /\ slot' = [slot EXCEPT ![request[p].at].phase = "conflicted"]
    /\ Answer(p) /\ UNCHANGED replies

\* A new request, or exactly the one that was stored, goes on to be built.
Pass(p, fresh) ==
    /\ Checks(p, "gate", fresh) /\ Permitted(p, fresh) /\ ~Competes(p)
    /\ request' = [request EXCEPT ![p] = IF Existing(p) \subseteq {@.q} THEN [@ EXCEPT !.pc = "publish"] ELSE NoRequest]
    /\ UNCHANGED <<slot, replies>>

\* The second check, in the transaction that stores what was built.
Publish(p, fresh) ==
    LET c == request[p]
    IN  /\ Checks(p, "publish", fresh) /\ Permitted(p, fresh)
        /\ IF c.op = "read" THEN UNCHANGED <<slot, replies>>
           ELSE /\ slot' = [slot EXCEPT ![c.at][c.op] = {c.q},
                                        ![c.at].phase = IF c.op = "put" THEN "occupied" ELSE "empty"]
                /\ replies' = replies \cup {[at |-> c.at, op |-> c.op, q |-> c.q]}
        /\ request' = [request EXCEPT ![p] = [pc |-> "granted"]]

\* A request ends early: the resource has moved, there is no room for what was
\* built, or the process stops.
Abandon(p) ==
    /\ request[p].pc \in {"gate", "publish"}
    /\ Answer(p) /\ UNCHANGED <<slot, ledger, latched, presented, replies>>

AckNext ==
    \/ \E r \in Resource : Allocate(r) \/ Activate(r) \/ FinalizeUnbound(r)
    \/ \E p \in Caller :
        \/ \E op \in {"bind", "put", "read"}, r \in Resource, D \in Statuses :
            \E q \in Requests(op) : Prepare(p, op, r, q, D)
        \/ request[p].pc \in {"gate", "publish"} /\ \E fresh \in SUBSET request[p].statuses :
            \/ \E pc \in {"gate", "publish"} : Refuse(p, pc, fresh)
            \/ Conflict(p, fresh) \/ Pass(p, fresh) \/ Publish(p, fresh)
        \/ Abandon(p)

AckSpec == AckInit /\ [][AckNext]_ackVars

----------------------------------------------------------------------------
(* Properties *)

Consistent(D) == \A d, e \in D : ~Contradicts(d, e)

\* D says of authority i that it stands, and has said nothing else.
Undisputed(i, D) == Consistent(Of(i, D)) /\ \A d \in Of(i, D) : ~d.revoked

Granted(p) == request[p].pc = "publish" /\ request'[p].pc = "granted"

\* Nothing is stored, and nothing is read, after a revocation, a contradiction or
\* a newer status of an authority it rests on came before a check of any resource
\* of the root, also when that check refused (RepairAckAccess.check_locked) - as
\* long as no other authority of the root contradicts itself: a resource that is
\* blocked by a contradiction records nothing any more.
ObservedRevocationHolds ==
    [][\A p \in Caller : Granted(p) =>
        \A i \in Issuers(request[p].op, request[p].stamp.phase) :
            Consistent(presented' \ Of(i, presented')) =>
                /\ Undisputed(i, presented')
                /\ \E d \in Of(i, request[p].statuses) :
                    \A e \in Of(i, presented') : e.revision <= d.revision]_ackVars

\* Whoever was confirmed a binding or a receipt was confirmed the only one, and
\* it is still what the resource holds; no receipt precedes its binding
\* (RepairAckEmptyState.bind, RepairAckOccupiedState.put).
ConfirmedIsUnique ==
    \A x \in replies :
        /\ slot[x.at][x.op] = {x.q}
        /\ x.op = "put" => slot[x.at].bind # {} /\ slot[x.at].phase \in {"occupied", "conflicted"}
=============================================================================
