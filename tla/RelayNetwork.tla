---------------------------- MODULE RelayNetwork ----------------------------
(***************************************************************************)
(* Messages between two endpoints of a private network over relay nodes    *)
(* (memory_vault_network.py, memory_vault_relay.py).  The authority issues *)
(* who is a member and which incarnation of a node serves an address.  A   *)
(* node that is replaced starts empty and counts from one again.  Several  *)
(* processes of one endpoint work on its database at the same time; every  *)
(* action below is one transaction of it, or one request to a node.        *)
(***************************************************************************)
EXTENDS Naturals, Sequences, SequencesExt, FiniteSets

CONSTANTS
    Message,       \* requests of the sending endpoint
    Invalid,       \* those of them whose content the recipient cannot accept
    Address,       \* addresses of relay nodes
    Sending,       \* processes of the sending endpoint
    Receiving,     \* processes of the receiving endpoint, none of the sending one
    PageLimit,     \* rows of one poll
    MaxVersion,    \* bound on the documents the authority issues
    MaxEpoch       \* bound on the incarnations of a node

ASSUME NetworkAssumption == Sending \cap Receiving = {} /\ PageLimit \in Nat

VARIABLES
    control,    \* the authority: version, members, incarnation of each address
    node,       \* what serves an address: incarnation, its control, its rows
    endpoint,   \* checkpoint, bound incarnations and cursors of both endpoints
    outbox,     \* of the sender: frozen envelope and storage receipts
    inbox,      \* of the recipient: accepted envelopes
    rejected,   \* and the quarantine of those with invalid content
    acked,      \* acknowledgements the sender has of its messages
    call        \* what each process is doing

saved == <<outbox, inbox, rejected, acked>>
netVars == <<control, node, endpoint, saved, call>>

Process == Sending \cup Receiving
Agent == {"sender", "recipient"}
AgentOf(p) == IF p \in Sending THEN "sender" ELSE "recipient"
Idle == [pc |-> "idle"]
Fresh(e) == [epoch |-> e, version |-> 0, members |-> {}, messages |-> <<>>, receipts |-> <<>>]

NetInit ==
    /\ control = [version |-> 1, members |-> Agent, epoch |-> [a \in Address |-> 1]]
    /\ node = [a \in Address |-> Fresh(1)]
    /\ endpoint = [g \in Agent |-> [version |-> 0, bound |-> [a \in Address |-> 0],
                                    cursor |-> [a \in Address |-> 0]]]
    /\ outbox = [m \in Message |-> [queued |-> FALSE, envelope |-> {}, receipts |-> {}]]
    /\ inbox = {} /\ rejected = {} /\ acked = {}
    /\ call = [p \in Process |-> Idle]

Step(p, pc) == call' = [call EXCEPT ![p].pc = pc]
Return(p) == call' = [call EXCEPT ![p] = Idle]

----------------------------------------------------------------------------
(* Fresh control state, and the incarnation of the node *)

\* send and pump choose a row whose receipt from this node is missing.
Pending(m, a) == outbox[m].queued /\ a \notin outbox[m].receipts

\* The node's challenge and the authority's answer to it; the checkpoint is
\* saved at once.
FetchStatus(p, a, M) ==
    /\ call[p] = Idle
    /\ AgentOf(p) \in control.members
    /\ endpoint' = [endpoint EXCEPT ![AgentOf(p)].version = control.version]
    /\ call' = [call EXCEPT ![p] = [pc |-> "status", address |-> a, epoch |-> node[a].epoch,
                                    status |-> control, message |-> M]]
    /\ UNCHANGED <<control, node, saved>>

BeginDeliver(p, a) == p \in Sending /\ \E m \in Message : Pending(m, a) /\ FetchStatus(p, a, {m})
BeginReceiving(p, a) == FetchStatus(p, a, {})

MayBindAny(c, g) == c.status.epoch[c.address] = c.epoch    \* mutant: an old answer binds

\* _bind_node: another process may have saved newer documents meanwhile.
MayBind(c, g) == c.status.version >= endpoint[g].version /\ c.status.epoch[c.address] = c.epoch

KeepReceipts(g, a) == UNCHANGED outbox    \* mutant: receipts outlive the incarnation

\* What was stored at the previous incarnation counts no more.
ForgetReceipts(g, a) ==
    outbox' = IF g = "sender" THEN [m \in Message |-> [outbox[m] EXCEPT !.receipts = @ \ {a}]] ELSE outbox

Bind(p) ==
    LET c == call[p]  g == AgentOf(p)
    IN  /\ c.pc = "status"
        /\ MayBind(c, g)
        /\ IF endpoint[g].bound[c.address] = c.epoch
           THEN UNCHANGED outbox /\ endpoint' = [endpoint EXCEPT ![g].version = c.status.version]
           ELSE /\ endpoint' = [endpoint EXCEPT ![g].version = c.status.version,
                                                ![g].bound[c.address] = c.epoch,
                                                ![g].cursor[c.address] = 0]
                /\ ForgetReceipts(g, c.address)
        /\ Step(p, "bound")
        /\ UNCHANGED <<control, node, inbox, rejected, acked>>

AssertNothing(p) == TRUE    \* mutant: rebound by another process meanwhile

\* _assert_node: still the incarnation this process began with.
AssertNode(p) == endpoint[AgentOf(p)].bound[call[p].address] = call[p].epoch

\* Relay.update_status: the challenge is known to the incarnation that made it.
Refresh(p) ==
    LET c == call[p]
    IN  /\ c.pc = "bound"
        /\ node[c.address].epoch = c.epoch
        /\ c.status.version >= node[c.address].version
        /\ node' = [node EXCEPT ![c.address].version = c.status.version,
                                ![c.address].members = c.status.members]
        /\ AssertNode(p)
        /\ Step(p, "fresh")
        /\ UNCHANGED <<control, endpoint, saved>>

----------------------------------------------------------------------------
(* Sending *)

Enqueue(m) ==
    /\ ~outbox[m].queued
    /\ outbox' = [outbox EXCEPT ![m].queued = TRUE]
    /\ UNCHANGED <<control, node, endpoint, inbox, rejected, acked, call>>

SealAlways(m, candidate) == candidate    \* mutant: what another process froze is replaced

\* The first sealed envelope stays.
Sealed(m, candidate) == IF outbox[m].envelope = {} THEN candidate ELSE outbox[m].envelope

Freeze(p) ==
    LET c == call[p]
    IN  /\ c.pc = "fresh" /\ c.message # {}
        /\ Agent \subseteq c.status.members
        /\ \E m \in c.message :
            LET e == Sealed(m, {[message |-> m, version |-> c.status.version, by |-> p]})
            IN  /\ outbox' = [outbox EXCEPT ![m].envelope = e]
                /\ call' = [call EXCEPT ![p] = [pc |-> "sealed", address |-> c.address, epoch |-> c.epoch,
                                                message |-> c.message, envelope |-> e]]
        /\ UNCHANGED <<control, node, endpoint, inbox, rejected, acked>>

Copies(n, e) == {f \in ToSet(n.messages) : f.message = e.message}

\* Relay.post_message: the same envelope again is answered, another is refused.
Post(p) ==
    LET c == call[p]  n == node[c.address]
    IN  /\ c.pc = "sealed"
        /\ n.version # 0 /\ Agent \subseteq n.members
        /\ \E e \in c.envelope :
            /\ e.version <= n.version
            /\ Copies(n, e) \subseteq {e}
            /\ node' = [node EXCEPT ![c.address].messages = IF Copies(n, e) = {} THEN Append(@, e) ELSE @]
        /\ call' = [call EXCEPT ![p] = [pc |-> "posted", address |-> c.address, epoch |-> c.epoch,
                                        message |-> c.message, storedBy |-> n.epoch]]
        /\ UNCHANGED <<control, endpoint, saved>>

\* The receipt is signed by the incarnation that stored the message.
SaveReceipt(p) ==
    LET c == call[p]
    IN  /\ c.pc = "posted"
        /\ AssertNode(p) /\ c.storedBy = c.epoch
        /\ outbox' = [m \in Message |-> IF m \in c.message THEN [outbox[m] EXCEPT !.receipts = @ \cup {c.address}]
                                        ELSE outbox[m]]
        /\ Return(p)
        /\ UNCHANGED <<control, node, endpoint, inbox, rejected, acked>>

----------------------------------------------------------------------------
(* Receiving *)

ReadCursor(p) ==
    LET c == call[p]
    IN  /\ c.pc = "fresh" /\ c.message = {}
        /\ AssertNode(p)
        /\ call' = [call EXCEPT ![p] = [pc |-> "asked", address |-> c.address, epoch |-> c.epoch,
                                        status |-> c.status, cursor |-> endpoint[AgentOf(p)].cursor[c.address]]]
        /\ UNCHANGED <<control, node, endpoint, saved>>

AdvancedBack(old, new) == new    \* mutant: the last page to be saved counts

\* A slower page never rewinds what a faster one saved.
Advanced(old, new) == Max({old, new})

\* What concerns an agent: messages for the recipient, receipts for the sender.
Rows(n, g) == IF g = "recipient" THEN n.messages ELSE n.receipts
PageEnd(n, g, cursor) == Max({cursor, Min({cursor + PageLimit, Len(Rows(n, g))})})

\* Relay.poll passes over messages of a sender that is no member any more.
Poll(p) ==
    LET c == call[p]  n == node[c.address]  g == AgentOf(p)
    IN  /\ c.pc = "asked"
        /\ g \in n.members
        /\ call' = [call EXCEPT ![p] =
                [pc |-> "page", address |-> c.address, epoch |-> c.epoch, status |-> c.status,
                 rows |-> IF "sender" \in n.members
                          THEN SubSeq(Rows(n, g), c.cursor + 1, PageEnd(n, g, c.cursor)) ELSE <<>>,
                 cursor |-> PageEnd(n, g, c.cursor), unacked |-> {}]]
        /\ UNCHANGED <<control, node, endpoint, saved>>

Known(m) == {e \in inbox \cup rejected : e.message = m}

AnyClaim(e) == {e}    \* mutant: what was quarantined is acknowledged too

\* Only content that was saved in the inbox is acknowledged.
Claim(e) == {e} \ rejected'

\* _accept: checked against the members this process was told of.
Accept(p) ==
    LET c == call[p]
    IN  /\ c.pc = "page" /\ p \in Receiving /\ c.rows # <<>> /\ c.unacked = {}
        /\ Agent \subseteq c.status.members
        /\ LET e == Head(c.rows)
           IN  /\ e.version <= c.status.version
               /\ Known(e.message) \subseteq {e}
               /\ IF e.message \in Invalid
                  THEN rejected' = rejected \cup {e} /\ UNCHANGED inbox
                  ELSE inbox' = inbox \cup {e} /\ UNCHANGED rejected
               /\ call' = [call EXCEPT ![p].rows = Tail(@), ![p].unacked = Claim(e)]
        /\ UNCHANGED <<control, node, endpoint, outbox, acked>>

\* Relay.ack: a claim about a message this incarnation holds; the first stays.
Ack(p) ==
    LET c == call[p]  n == node[c.address]
    IN  /\ c.pc = "page"
        /\ AssertNode(p)
        /\ "recipient" \in n.members
        /\ \E e \in c.unacked :
            /\ e \in ToSet(n.messages)
            /\ node' = [node EXCEPT ![c.address].receipts = IF e \in ToSet(@) THEN @ ELSE Append(@, e)]
        /\ call' = [call EXCEPT ![p].unacked = {}]
        /\ UNCHANGED <<control, endpoint, saved>>

\* Every receipt is of the envelope the outbox holds, or the page fails; one of
\* a recipient that is no member any more is passed over.
CommitPage(p) ==
    LET c == call[p]  g == AgentOf(p)
    IN  /\ c.pc = "page" /\ c.unacked = {}
        /\ p \in Receiving => c.rows = <<>>
        /\ AssertNode(p)
        /\ endpoint' = [endpoint EXCEPT ![g].cursor[c.address] = Advanced(@, c.cursor)]
        /\ IF p \in Sending /\ "recipient" \in c.status.members
           THEN /\ \A e \in ToSet(c.rows) : outbox[e.message].envelope = {e}
                /\ acked' = acked \cup {e.message : e \in ToSet(c.rows)}
           ELSE UNCHANGED acked
        /\ Return(p)
        /\ UNCHANGED <<control, node, outbox, inbox, rejected>>

\* An error, a lost answer, the end of a time budget, a crash.
Stop(p) ==
    /\ call[p] # Idle
    /\ Return(p)
    /\ UNCHANGED <<control, node, endpoint, saved>>

----------------------------------------------------------------------------
(* The authority and the operators of nodes *)

\* A new incarnation serves the address, and the authority announces it.
Replace(a) ==
    /\ node[a].epoch < MaxEpoch /\ control.epoch[a] = node[a].epoch
    /\ node' = [node EXCEPT ![a] = Fresh(node[a].epoch + 1)]
    /\ UNCHANGED <<control, endpoint, saved, call>>

Authorize(a) ==
    /\ control.epoch[a] # node[a].epoch /\ control.version < MaxVersion
    /\ control' = [control EXCEPT !.version = @ + 1, !.epoch[a] = node[a].epoch]
    /\ UNCHANGED <<node, endpoint, saved, call>>

Revoke(g) ==
    /\ g \in control.members /\ control.version < MaxVersion
    /\ control' = [control EXCEPT !.version = @ + 1, !.members = @ \ {g}]
    /\ UNCHANGED <<node, endpoint, saved, call>>

Continue(p) ==
    \/ Bind(p) \/ Refresh(p)
    \/ Freeze(p) \/ Post(p) \/ SaveReceipt(p)
    \/ ReadCursor(p) \/ Poll(p) \/ Accept(p) \/ Ack(p) \/ CommitPage(p)

NetNext ==
    \/ \E m \in Message : Enqueue(m)
    \/ \E p \in Process : Continue(p) \/ Stop(p)
    \/ \E p \in Process, a \in Address : BeginDeliver(p, a) \/ BeginReceiving(p, a)
    \/ \E a \in Address : Replace(a) \/ Authorize(a)
    \/ \E g \in Agent : Revoke(g)

NetSpec == NetInit /\ [][NetNext]_netVars

\* A process that began goes on to its end or its error, deliver and receive
\* are called again and again, and the authority announces a replaced node.
NetInterrupted(p) == Stop(p) /\ ~Continue(p) /\ ENABLED Continue(p)

NetFairness ==
    /\ \A p \in Process :
        /\ <>[][~NetInterrupted(p)]_netVars
        /\ WF_netVars(Continue(p)) /\ WF_netVars(Stop(p))
        /\ \A a \in Address : SF_netVars(BeginReceiving(p, a)) /\ SF_netVars(BeginDeliver(p, a))
    /\ \A a \in Address : WF_netVars(Authorize(a))

FairNetSpec == NetSpec /\ NetFairness

----------------------------------------------------------------------------
(* Properties *)

Current(g, a) == endpoint[g].bound[a] = node[a].epoch

\* A storage receipt is about the incarnation the endpoint is bound to: while
\* that one serves the address, it has the message (NetworkClient._bind_node).
ReceiptIsTrue ==
    \A m \in Message : \A a \in outbox[m].receipts :
        Current("sender", a) => outbox[m].envelope # {} /\ outbox[m].envelope \subseteq ToSet(node[a].messages)

\* What the cursor has passed at this incarnation is saved or quarantined, or
\* its sender was no member any more: no replacement, no process that answers
\* late and no interruption ever makes the endpoint skip a message.
PassedIsSettled ==
    \A a \in Address : Current("recipient", a) =>
        /\ endpoint["recipient"].cursor[a] <= Len(node[a].messages)
        /\ "sender" \in control.members =>
            ToSet(SubSeq(node[a].messages, 1, endpoint["recipient"].cursor[a])) \subseteq inbox \cup rejected

\* The sender reports a message as received only if exactly the envelope it
\* froze is in the recipient's inbox.
AckedIsSaved == \A m \in acked : outbox[m].envelope \subseteq inbox

\* Neither end loses a message.
NothingIsLost == PassedIsSettled /\ AckedIsSaved

\* A message has one envelope, at every node and at the recipient, whichever
\* processes raced to seal it.
OneEnvelope ==
    \A e \in inbox \cup rejected \cup UNION {ToSet(node[a].messages) : a \in Address} :
        outbox[e.message].envelope = {e}

\* Nodes, pages and processes that race add up to letters that are sealed once,
\* settled once and confirmed only when they were accepted, whatever is replaced
\* or revoked (NetworkClient._deliver_impl, _accept).
Letters == INSTANCE Mail WITH
    Overruling <- FALSE,
    sealed <- UNION {outbox[m].envelope : m \in Message},
    saved <- inbox, refused <- rejected, confirmed <- acked

ImplementsMail == Letters!Spec

\* Neither a process with an old answer nor an old incarnation takes an
\* endpoint back.
BindingsMoveOn ==
    [][\A g \in Agent, a \in Address :
        /\ endpoint'[g].version >= endpoint[g].version
        /\ endpoint'[g].bound[a] >= endpoint[g].bound[a]
        /\ endpoint'[g].bound[a] = endpoint[g].bound[a] => endpoint'[g].cursor[a] >= endpoint[g].cursor[a]]_netVars

\* What is queued arrives and is confirmed, also when the node that had stored
\* it is replaced by an empty one, unless one of the two endpoints is revoked.
QueuedIsConfirmed ==
    \A m \in Message \ Invalid :
        outbox[m].queued ~> m \in acked \/ ~(Agent \subseteq control.members)
=============================================================================
