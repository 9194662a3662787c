---------------------------- MODULE NodeTransfer ----------------------------
(***************************************************************************)
(* The move of a relay node's store to another node of a private network   *)
(* (memory_vault_node_transfer.py, memory_vault_relay.py): the source is   *)
(* frozen, the authority grants the move of exactly that snapshot, and a   *)
(* pass of the operator uploads it, object by object.  Passes fail at any  *)
(* point and are repeated; a request may arrive after its pass has ended.  *)
(*                                                                         *)
(* Every operation of a node runs in one transaction under its lock.  The  *)
(* objects are files beside the database: a file whose publication failed  *)
(* at the last flush is there, and a power loss may still take it away.    *)
(***************************************************************************)
EXTENDS Naturals, Sequences, SequencesExt, FiniteSets

CONSTANTS
    Node,         \* nodes, each with a key, an address and a storage epoch of its own
    Message,      \* ciphertext envelopes that members post
    Newcomer,     \* members that join by invitation
    Pass,         \* commands `transfer` that run at the same time
    MaxVersion,   \* bound on the directories the authority issues
    MaxLate       \* bound on the requests that outlive their pass

None == [state |-> "none"]

VARIABLES
    directory,    \* of the authority: its version and the standing of each node
    relay,        \* each node's database
    objects,      \* each node's files: "none", "volatile" (until a power loss), "durable"
    pass,         \* what each command is doing
    late          \* requests on their way whose command has ended

nodeVars == <<directory, relay, objects, pass, late>>
Idle == [pc |-> "idle"]

NodeInit ==
    /\ directory = [version |-> 1, standing |-> [n \in Node |-> "active"]]
    /\ relay = [n \in Node |->
        [known |-> [directory EXCEPT !.version = 0], draining |-> FALSE,
         messages |-> <<>>, receipts |-> <<>>, challenges |-> {}, joined |-> {},
         export |-> None, import |-> None]]
    /\ objects = [n \in Node |-> [m \in Message |-> "none"]]
    /\ pass = [p \in Pass |-> Idle]
    /\ late = {}

----------------------------------------------------------------------------
(* What members ask of a node *)

WritableAlways(n) == TRUE       \* mutant: no fence

\* Relay._writable
Writable(n) == ~relay[n].draining /\ relay[n].import.state # "receiving"

\* _current: no answer without a fresh status of the issuer.
Serving(n) == relay[n].known.version # 0

\* atomic_write: also what is there already is published again.
Publish(n, m) == objects' = [objects EXCEPT ![n][m] = "durable"]

\* Its directory could not be flushed, or the transaction did not commit.
PublishFails(n, m) ==
    /\ objects[n][m] # "durable"
    /\ \E outcome \in {"volatile", "durable"} : objects' = [objects EXCEPT ![n][m] = outcome]

\* The object first, then the row.
Post(n, m) ==
    /\ Serving(n) /\ Writable(n)
    /\ m \notin ToSet(relay[n].messages)
    /\ \/ /\ Publish(n, m)
          /\ relay' = [relay EXCEPT ![n].messages = Append(@, m)]
       \/ PublishFails(n, m) /\ UNCHANGED relay
    /\ UNCHANGED <<directory, pass, late>>

Ack(n, m) ==
    /\ Serving(n) /\ Writable(n)
    /\ m \in ToSet(relay[n].messages) \ ToSet(relay[n].receipts)
    /\ relay' = [relay EXCEPT ![n].receipts = Append(@, m)]
    /\ UNCHANGED <<directory, objects, pass, late>>

\* Those that expired go when another one is made.
JoinChallenge(n, v) ==
    /\ Serving(n) /\ Writable(n)
    /\ v \notin relay[n].joined
    /\ \E kept \in SUBSET relay[n].challenges :
        relay' = [relay EXCEPT ![n].challenges = kept \cup {v}]
    /\ UNCHANGED <<directory, objects, pass, late>>

Join(n, v) ==
    /\ Serving(n) /\ Writable(n)
    /\ v \in relay[n].challenges
    /\ relay' = [relay EXCEPT ![n].challenges = @ \ {v}, ![n].joined = @ \cup {v}]
    /\ UNCHANGED <<directory, objects, pass, late>>

----------------------------------------------------------------------------
(* Control, and the frozen source *)

\* authorized_node
Authorized(d, n, action) ==
    /\ d.standing[n] # "revoked"
    /\ action = "import" => d.standing[n] = "active"

\* Relay.update_status, with the authority's answer to the node's challenge.
Refreshed(n) ==
    /\ Authorized(directory, n, "refresh")
    /\ relay' = [relay EXCEPT ![n].known = directory]

\* The node asks itself, or an endpoint brings it the answer.
Refresh(n) == Refreshed(n) /\ UNCHANGED <<directory, objects, pass, late>>

NodeCurrent(n, action) == Serving(n) /\ Authorized(relay[n].known, n, action)

Drain(n) ==
    /\ NodeCurrent(n, "export")
    /\ relay' = [relay EXCEPT ![n].draining = TRUE]
    /\ UNCHANGED <<directory, objects, pass, late>>

Frozen(n) == relay[n].export # None

\* The rows as they are under the lock; they are never read again.
Snapshot(n) ==
    [source |-> n, version |-> relay[n].known.version, messages |-> relay[n].messages,
     receipts |-> relay[n].receipts, joined |-> relay[n].joined]

PrepareExport(n) ==
    /\ NodeCurrent(n, "export")
    /\ relay[n].import.state # "receiving" /\ ~Frozen(n)
    /\ \A m \in ToSet(relay[n].messages) : objects[n][m] # "none"
    /\ relay' = [relay EXCEPT
        ![n].draining = TRUE,
        ![n].export = [state |-> "frozen", snapshot |-> Snapshot(n), receipt |-> {}]]
    /\ UNCHANGED <<directory, objects, pass, late>>

\* verify_directory: a node never comes back.
ChangeDirectory ==
    /\ directory.version < MaxVersion
    /\ \E n \in Node, s \in {"active", "draining", "revoked"} :
        /\ directory.standing[n] = s \/ (directory.standing[n] # "revoked" /\ s # "active")
        /\ directory' = [version |-> directory.version + 1,
                         standing |-> [directory.standing EXCEPT ![n] = s]]
    /\ UNCHANGED <<relay, objects, pass, late>>

----------------------------------------------------------------------------
(* The target *)

\* _grant: the grant is for exactly the directory the node knows now.
Granted(g, n) ==
    LET known == relay[n].known
    IN  /\ Serving(n) /\ known.version = g.version
        /\ Authorized(known, g.snapshot.source, "export") /\ Authorized(known, g.target, "import")

\* _empty_target; a challenge counts as well, the first members do not.
EmptyTarget(n) ==
    LET r == relay[n]
    IN  /\ ~r.draining /\ r.export = None
        /\ r.messages = <<>> /\ r.receipts = <<>> /\ r.challenges = {} /\ r.joined = {}

SameGrant(n, g) == relay[n].import # None /\ relay[n].import.grant = g    \* mutant: no renewal

\* The same snapshot, with whichever grant.
SameImport(n, g) == relay[n].import # None /\ relay[n].import.grant.snapshot = g.snapshot

Committed(n) == relay[n].import.state = "committed"

\* An import that is already there takes the renewed grant.
HandleBegin(q) ==
    LET t == q.grant.target
    IN  /\ q.phase = "begin"
        /\ IF relay[t].import = None
           THEN /\ EmptyTarget(t)
                /\ relay' = [relay EXCEPT ![t].import = [state |-> "receiving", grant |-> q.grant, next |-> 0]]
           ELSE /\ SameImport(t, q.grant)
                /\ relay' = [relay EXCEPT ![t].import.grant = q.grant]
        /\ UNCHANGED objects

Carried(q) == q.grant.snapshot.messages[q.index + 1]

\* In order; one that was stored already is only compared.
HandleObject(q) ==
    LET t == q.grant.target
    IN  /\ q.phase = "object" /\ SameImport(t, q.grant)
        /\ q.index <= relay[t].import.next
        /\ IF Committed(t) \/ q.index < relay[t].import.next
           THEN objects[t][Carried(q)] # "none" /\ UNCHANGED <<relay, objects>>
           ELSE /\ Publish(t, Carried(q))
                /\ relay' = [relay EXCEPT ![t].import.next = q.index + 1]

\* The file may be there, the progress is not.
HandleFails(q) ==
    LET t == q.grant.target
    IN  /\ Granted(q.grant, t)
        /\ q.phase = "object" /\ SameImport(t, q.grant) /\ ~Committed(t)
        /\ q.index = relay[t].import.next
        /\ PublishFails(t, Carried(q))
        /\ UNCHANGED relay

\* Every object once more, then the rows with their sequences.
HandleCommit(q) ==
    LET t == q.grant.target  s == q.grant.snapshot
    IN  /\ q.phase = "commit" /\ SameImport(t, q.grant)
        /\ IF Committed(t) THEN UNCHANGED <<relay, objects>>
           ELSE /\ relay[t].import.next = Len(s.messages)
                /\ EmptyTarget(t)
                /\ \A m \in ToSet(s.messages) : objects[t][m] # "none"
                /\ objects' = [objects EXCEPT ![t] =
                    [m \in Message |-> IF m \in ToSet(s.messages) THEN "durable" ELSE @[m]]]
                /\ relay' = [relay EXCEPT
                    ![t].messages = s.messages, ![t].receipts = s.receipts, ![t].joined = s.joined,
                    ![t].import.state = "committed"]

Handle(q) ==
    /\ Granted(q.grant, q.grant.target)
    /\ HandleBegin(q) \/ HandleObject(q) \/ HandleCommit(q)
    /\ UNCHANGED directory

----------------------------------------------------------------------------
(* A pass of the source *)

Request(g, phase, index) == [grant |-> g, phase |-> phase, index |-> index]
Sent(g, phase, index) == [pc |-> "sent", grant |-> g, request |-> Request(g, phase, index)]

\* issue_transfer_grant: of exactly this snapshot, under the directory of now.
Grantable(s, t) == Frozen(s) /\ s # t /\ Authorized(directory, s, "export") /\ Authorized(directory, t, "import")
GrantFor(s, t) == [snapshot |-> relay[s].export.snapshot, target |-> t, version |-> directory.version]

\* The source refreshes its status first: a grant under an older directory
\* would be of no use.  A receipt that is there is only checked and kept.
BeginPass(p, s, t) ==
    /\ pass[p] = Idle
    /\ Grantable(s, t)
    /\ relay[s].export.receipt \subseteq {t}
    /\ Refreshed(s)
    /\ pass' = [pass EXCEPT ![p] =
        [pc |-> IF relay[s].export.receipt = {} THEN "greet" ELSE "save", grant |-> GrantFor(s, t)]]
    /\ UNCHANGED <<directory, objects, late>>

\* The target's challenge, answered by the authority.
Greet(p) ==
    /\ pass[p].pc = "greet"
    /\ Refreshed(pass[p].grant.target)
    /\ pass' = [pass EXCEPT ![p] = Sent(@.grant, "begin", 0)]
    /\ UNCHANGED <<directory, objects, late>>

\* What the pass goes on with, after the target's signed answer.
AfterAnswer(g, import) ==
    IF import.state = "committed" THEN [pc |-> "save", grant |-> g]
    ELSE IF import.next < Len(g.snapshot.messages) THEN Sent(g, "object", import.next)
    ELSE Sent(g, "commit", 0)

\* The source reads the object when it sends it.
Serve(p) ==
    /\ pass[p].pc = "sent"
    /\ LET q == pass[p].request
       IN  /\ q.phase = "object" => objects[q.grant.snapshot.source][Carried(q)] # "none"
           /\ Handle(q)
           /\ pass' = [pass EXCEPT ![p] = AfterAnswer(q.grant, relay'[q.grant.target].import)]
    /\ UNCHANGED late

ServeFails(p) ==
    /\ pass[p].pc = "sent"
    /\ HandleFails(pass[p].request)
    /\ pass' = [pass EXCEPT ![p] = Idle]
    /\ UNCHANGED <<directory, late>>

\* Checked against the control state of now, and then the receipt is there.
SaveReceipt(p) ==
    LET g == pass[p].grant  s == g.snapshot.source
    IN  /\ pass[p].pc = "save"
        /\ Granted(g, s)
        /\ relay' = [relay EXCEPT ![s].export.receipt = {g.target}]
        /\ pass' = [pass EXCEPT ![p] = Idle]
        /\ UNCHANGED <<directory, objects, late>>

\* A budget that is used up, an error, a crash; the request may still arrive.
StopPass(p) ==
    /\ pass[p] # Idle
    /\ pass' = [pass EXCEPT ![p] = Idle]
    /\ \/ UNCHANGED late
       \/ /\ pass[p].pc = "sent" /\ Cardinality(late) < MaxLate
          /\ late' = late \cup {pass[p].request}
    /\ UNCHANGED <<directory, relay, objects>>

\* Also a request whose answer got lost.
ServeLate(q) ==
    /\ late' = late \ {q}
    /\ Handle(q) \/ (HandleFails(q) /\ UNCHANGED directory)
    /\ UNCHANGED pass

Drop(q) == late' = late \ {q} /\ UNCHANGED <<directory, relay, objects, pass>>

\* What was not flushed may be gone.
PowerLoss(n) ==
    /\ \E lost \in SUBSET {m \in Message : objects[n][m] = "volatile"} :
        /\ lost # {}
        /\ objects' = [objects EXCEPT ![n] = [m \in Message |-> IF m \in lost THEN "none" ELSE @[m]]]
    /\ UNCHANGED <<directory, relay, pass, late>>

Proceed(p) == Greet(p) \/ Serve(p) \/ SaveReceipt(p)

NodeNext ==
    \/ ChangeDirectory
    \/ \E n \in Node : Refresh(n) \/ Drain(n) \/ PrepareExport(n) \/ PowerLoss(n)
    \/ \E n \in Node, m \in Message : Post(n, m) \/ Ack(n, m)
    \/ \E n \in Node, v \in Newcomer : JoinChallenge(n, v) \/ Join(n, v)
    \/ \E p \in Pass : Proceed(p) \/ ServeFails(p) \/ StopPass(p)
    \/ \E p \in Pass, s, t \in Node : BeginPass(p, s, t)
    \/ \E q \in late : ServeLate(q) \/ Drop(q)

NodeSpec == NodeInit /\ [][NodeNext]_nodeVars

\* The operator repeats the command, with a renewed grant when policy changed,
\* and from some time on nothing cuts a pass short that could go on.
PassInterrupted(p) == ServeFails(p) \/ (StopPass(p) /\ ENABLED Proceed(p))

NodeFairness ==
    \A p \in Pass :
        /\ <>[][~PassInterrupted(p)]_nodeVars
        /\ WF_nodeVars(Proceed(p)) /\ WF_nodeVars(StopPass(p))
        /\ \A s, t \in Node : SF_nodeVars(BeginPass(p, s, t))

FairNodeSpec == NodeSpec /\ NodeFairness

----------------------------------------------------------------------------
(* Properties *)

\* Every row of a node has its object, and no power loss takes it away: not
\* after a publication that failed half way, and not after an import that went
\* on over what such a one left behind (Relay.post_message, _receive_transfer).
ServedIsDurable == \A n \in Node : \A m \in ToSet(relay[n].messages) : objects[n][m] = "durable"

Whole(r, s) == IsPrefix(s.messages, r.messages) /\ IsPrefix(s.receipts, r.receipts) /\ s.joined \subseteq r.joined

\* "exit_ready" is said of a source only if the target has all the source ever
\* confirmed to a member, each message and receipt at its sequence, and all
\* that came later is behind it (transfer, Relay._writable).
HandedOverIsComplete ==
    \A s \in Node : Frozen(s) =>
        \A t \in relay[s].export.receipt :
            Committed(t) /\ relay[t].import.grant.snapshot.source = s /\ Whole(relay[t], relay[s])

\* A store that moved is complete at its new node, and what a node serves no
\* power loss takes away, also what an import took over half published
\* (transfer, receive_transfer, Relay.post_message).
NodeStoreIsKept == HandedOverIsComplete /\ ServedIsDurable

HandedOver(s) == Frozen(s) /\ relay[s].export.receipt # {}

Unfit(t, s) ==
    \/ directory.standing[t] # "active"
    \/ relay[t].draining
    \/ IF relay[t].import = None THEN ~EmptyTarget(t) ELSE relay[t].import.grant.snapshot.source # s

\* A frozen source is handed over, however its passes were cut short, whatever
\* failed half way and with however many grants, unless no other node can take it.
FrozenIsHandedOver ==
    \A s \in Node :
        Frozen(s) ~> \/ HandedOver(s)
                     \/ directory.standing[s] = "revoked"
                     \/ \A t \in Node \ {s} : Unfit(t, s)
=============================================================================
