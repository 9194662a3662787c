---------------------------- MODULE OpenDelivery ----------------------------
(***************************************************************************)
(* Messages over one node of the open network                              *)
(* (memory_vault_open_contact_state.py, memory_vault_open_delivery_state.py*)
(* and memory_vault_open_delivery_client.py).  Nobody is a member of       *)
(* anything: a recipient publishes a policy, a sender asks, the recipient  *)
(* approves with the lease of a finite mailbox, and what is sent under it  *)
(* is uploaded under an intent that is valid for an hour at most.  Several *)
(* processes of one endpoint work on its database at the same time; every  *)
(* action below is one transaction of it, or one request to the node.      *)
(* What has expired counts as collected: every request collects first, and *)
(* every query asks for what has not expired.                              *)
(***************************************************************************)
EXTENDS Naturals, FiniteSets

CONSTANTS
    Message,       \* requests of the sender to the recipient
    Grant,         \* contact requests, each of which a lease may be granted to
    MaxItems,      \* bound on the messages a lease has room for
    Chunks,        \* chunks of an envelope
    Sending,       \* processes of the sender
    Receiving,     \* processes of the recipient, none of the sender
    PageLimit,     \* messages of one listing
    MaxRevision,   \* bound on the revisions of the policy
    MaxIntents     \* bound on the upload intents of a message

ASSUME DeliveryAssumption == MaxItems \in Nat /\ PageLimit \in Nat

VARIABLES
    policy,     \* of the recipient at the node: revision and status
    contact,    \* per grant: the contact request and its lease at the node
    approval,   \* approvals the sender has fetched
    mailbox,    \* what the node stores: last sequence, messages, receipts
    handle,     \* upload handles
    commits,    \* threads of the node that are committing an upload
    valid,      \* messages whose last intent has not expired
    outbox,     \* of the sender: frozen session, intent, result, acknowledgement
    inbox,      \* of the recipient: phase of each message, receipt sent
    cursor,     \* of the recipient in each mailbox
    call        \* what each process is doing

contactVars == <<policy, contact, approval>>
nodeVars == <<mailbox, handle, commits>>
endpointVars == <<valid, outbox, inbox, cursor>>
openVars == <<contactVars, nodeVars, endpointVars, call>>

Process == Sending \cup Receiving
Idle == [pc |-> "idle"]

OpenInit ==
    /\ policy = [revision |-> 0, status |-> "none"]
    /\ contact = [g \in Grant |-> [state |-> "none", revision |-> 0, lease |-> "none", items |-> 0]]
    /\ approval = {}
    /\ mailbox = [sequence |-> 0, messages |-> {}, receipts |-> {}]
    /\ handle = [m \in Message |-> {}]
    /\ commits = {}
    /\ valid = {}
    /\ outbox = [m \in Message |-> [grant |-> {}, intent |-> 0, result |-> {}, acked |-> FALSE]]
    /\ inbox = [m \in Message |-> [phase |-> "none", sent |-> FALSE]]
    /\ cursor = [g \in Grant |-> 0]
    /\ call = [p \in Process |-> Idle]

Step(p, pc) == call' = [call EXCEPT ![p].pc = pc]
Return(p) == call' = [call EXCEPT ![p] = Idle]

----------------------------------------------------------------------------
(* First contact *)

\* The recipient enables contact, under a lease of its own for the policy.
\* Another policy of a known revision is a conflict, and stays one.
PutPolicy(n) ==
    /\ policy.status \in {"none", "revoked"} /\ policy.revision <= n
    /\ policy' = [revision |-> n, status |-> IF n = policy.revision THEN "conflict" ELSE "active"]
    /\ UNCHANGED <<contact, approval, nodeVars, endpointVars, call>>

\* The operator of the node revokes the lease of the policy.
RevokePolicy ==
    /\ policy.status = "active"
    /\ policy' = [policy EXCEPT !.status = "revoked"]
    /\ UNCHANGED <<contact, approval, nodeVars, endpointVars, call>>

\* A contact request is about one revision of the policy.
OfThePolicy(g) == policy.status = "active" /\ contact[g].revision = policy.revision

\* One request of a sender waits at a time.
Submit(g) ==
    /\ policy.status = "active" /\ contact[g].state = "none"
    /\ \A h \in Grant : contact[h].state # "pending"
    /\ contact' = [contact EXCEPT ![g].state = "pending", ![g].revision = policy.revision]
    /\ UNCHANGED <<policy, approval, nodeVars, endpointVars, call>>

\* The recipient has the node allocate the lease, signs its decision and has
\* the node store it; it may stop in between, and goes on with what it signed.
Allocate(g) ==
    /\ contact[g].state = "pending" /\ contact[g].lease = "none"
    /\ \E n \in 1 .. MaxItems :
        contact' = [contact EXCEPT ![g].lease = "free", ![g].items = n]
    /\ UNCHANGED <<policy, approval, nodeVars, endpointVars, call>>

Decide(g) ==
    /\ OfThePolicy(g) /\ contact[g].state = "pending"
    /\ \/ /\ contact[g].lease = "free"
          /\ contact' = [contact EXCEPT ![g].state = "approved", ![g].lease = "granted"]
       \/ /\ contact[g].lease = "none"
          /\ contact' = [contact EXCEPT ![g].state = "rejected"]
    /\ UNCHANGED <<policy, approval, nodeVars, endpointVars, call>>

Fetch(g) ==
    /\ OfThePolicy(g) /\ contact[g].state = "approved" /\ contact[g].lease = "granted"
    /\ approval' = approval \cup {g}
    /\ UNCHANGED <<policy, contact, nodeVars, endpointVars, call>>

\* The operator of the node revokes a mailbox.
RevokeLease(g) ==
    /\ contact[g].lease \in {"free", "granted"}
    /\ contact' = [contact EXCEPT ![g].lease = "revoked"]
    /\ UNCHANGED <<policy, approval, nodeVars, endpointVars, call>>

\* What a mailbox may still be used for by its sender.
Authorized(g) == OfThePolicy(g) /\ contact[g].state = "approved" /\ contact[g].lease = "granted"

----------------------------------------------------------------------------
(* The node *)

StoredFrom(g) == {e \in mailbox.messages : e.grant = g}
Uploading(g) == {m \in Message : \E h \in handle[m] : h.grant = g /\ h.state = "uploading"}

\* An intent is not expired as long as it is the last one and valid.
Acceptable(m, intent, g) == m \in valid /\ outbox[m].intent = intent /\ Authorized(g)

\* Room for the whole envelope is reserved before its first byte.
StartUpload(p) ==
    LET c == call[p]  m == c.message  g == CHOOSE h \in c.row.grant : TRUE
    IN  /\ c.pc = "start"
        /\ Acceptable(m, c.intent, g)
        /\ IF handle[m] = {}
           THEN /\ Cardinality(StoredFrom(g)) + Cardinality(Uploading(g)) < contact[g].items
                /\ handle' = [handle EXCEPT ![m] = {[intent |-> c.intent, grant |-> g,
                                                     prefix |-> 0, state |-> "uploading"]}]
           ELSE (\A h \in handle[m] : h.intent = c.intent) /\ UNCHANGED handle
        /\ Step(p, "upload")
        /\ UNCHANGED <<contactVars, mailbox, commits, endpointVars>>

UploadChunk(p) ==
    LET c == call[p]  m == c.message
    IN  /\ c.pc = "upload"
        /\ \E h \in handle[m] :
            /\ h.state = "uploading" /\ h.prefix < Chunks
            /\ Acceptable(m, h.intent, h.grant)
            /\ handle' = [handle EXCEPT ![m] = {[h EXCEPT !.prefix = @ + 1]}]
        /\ UNCHANGED <<contactVars, mailbox, commits, endpointVars, call>>

\* _commit signs the receipt for the next sequence outside of a transaction.
\* What is stored already is answered again.
BeginCommit(p) ==
    LET c == call[p]  m == c.message
    IN  /\ c.pc = "upload"
        /\ \E h \in handle[m] :
            \/ /\ \E e \in mailbox.messages : e.message = m /\ e.intent = h.intent
               /\ Step(p, "save")
               /\ UNCHANGED commits
            \/ /\ \A e \in mailbox.messages : e.message # m
               /\ h.prefix = Chunks /\ Acceptable(m, h.intent, h.grant)
               /\ \A j \in commits : j.by # p
               /\ commits' = commits \cup {[message |-> m, grant |-> h.grant, intent |-> h.intent,
                                            sequence |-> mailbox.sequence + 1, by |-> p]}
               /\ Step(p, "commit")
        /\ UNCHANGED <<contactVars, mailbox, handle, endpointVars>>

Answer(j, pc) ==
    IF call[j.by].pc = "commit" /\ call[j.by].message = j.message
    THEN IF pc = "idle" THEN Return(j.by) ELSE Step(j.by, pc)
    ELSE UNCHANGED call

\* The transaction that publishes asks again for everything that the checks
\* before it found; no request waits for its thread any more after a crash.
MutMayPublish(j) == \E h \in handle[j.message] : h.intent = j.intent \* mutant: authority is not asked again

MayPublish(j) ==
    /\ \E h \in handle[j.message] : h.intent = j.intent /\ h.state = "uploading"
    /\ Acceptable(j.message, j.intent, j.grant)

Publish(j) ==
    /\ MayPublish(j) /\ j.sequence = mailbox.sequence + 1
    /\ mailbox' = [mailbox EXCEPT !.sequence = j.sequence,
                                  !.messages = @ \cup {[message |-> j.message, grant |-> j.grant,
                                                        intent |-> j.intent, sequence |-> j.sequence]}]
    /\ handle' = [handle EXCEPT ![j.message] = {[h EXCEPT !.state = "committed"] : h \in @}]
    /\ commits' = commits \ {j}
    /\ Answer(j, "save")
    /\ UNCHANGED <<contactVars, endpointVars>>

\* Another commit took the sequence: sign for the next one.
SignAgain(j) ==
    /\ MayPublish(j) /\ j.sequence # mailbox.sequence + 1
    /\ commits' = (commits \ {j}) \cup {[j EXCEPT !.sequence = mailbox.sequence + 1]}
    /\ UNCHANGED <<contactVars, mailbox, handle, endpointVars, call>>

RefuseCommit(j) ==
    /\ ~MayPublish(j)
    /\ commits' = commits \ {j}
    /\ Answer(j, "idle")
    /\ UNCHANGED <<contactVars, mailbox, handle, endpointVars>>

----------------------------------------------------------------------------
(* The sender *)

\* Where send goes on, given the row it has read.  A stored result has to be
\* of the stored intent.
Continued(row) ==
    CASE row.grant = {} -> "freeze"
      [] row.grant # {} /\ row.result = {} -> IF row.intent = 0 THEN "intent" ELSE "recover"
      [] OTHER -> IF row.result = {row.intent} THEN "confirm" ELSE "idle"

Resume(p, m, row) ==
    call' = [call EXCEPT ![p] = IF Continued(row) = "idle" THEN Idle
                                ELSE [pc |-> Continued(row), message |-> m, row |-> row, intent |-> 0]]

Send(p, m) ==
    /\ call[p] = Idle
    /\ Resume(p, m, outbox[m])
    /\ UNCHANGED <<contactVars, nodeVars, endpointVars>>

\* Messages whose envelope is frozen for a mailbox, uploaded or not.
FrozenFor(g) == {m \in Message : g \in outbox[m].grant}

\* _freeze_dispatch: a mailbox with room, the least filled one, unless another
\* process has frozen the message already.
MutFreeze(p) == \* mutant: counts only what the node has
    LET c == call[p]  m == c.message
    IN  /\ c.pc = "freeze"
        /\ IF outbox[m].grant # {}
           THEN UNCHANGED outbox
           ELSE \E g \in approval :
                /\ Cardinality(StoredFrom(g)) + Cardinality(Uploading(g)) < contact[g].items
                /\ outbox' = [outbox EXCEPT ![m].grant = {g}]
        /\ Resume(p, m, outbox'[m])
        /\ UNCHANGED <<contactVars, nodeVars, valid, inbox, cursor>>

Freeze(p) ==
    LET c == call[p]  m == c.message
        free == {g \in approval : Cardinality(FrozenFor(g)) < contact[g].items}
    IN  /\ c.pc = "freeze"
        /\ approval # {}
        /\ IF outbox[m].grant # {}
           THEN UNCHANGED outbox
           ELSE \E g \in free :
                /\ \A h \in free :
                    Cardinality(FrozenFor(g)) * contact[h].items <= Cardinality(FrozenFor(h)) * contact[g].items
                /\ outbox' = [outbox EXCEPT ![m].grant = {g}]
        /\ Resume(p, m, outbox'[m])
        /\ UNCHANGED <<contactVars, nodeVars, valid, inbox, cursor>>

\* stored.get: an upload whose answer was lost is taken up as it is, when it is
\* of the intent that this process has read.
Recover(p) ==
    LET c == call[p]
    IN  /\ c.pc = "recover"
        /\ \/ /\ \A e \in mailbox.messages : e.message # c.message
              /\ Step(p, "intent")
           \/ /\ \E e \in mailbox.messages : e.message = c.message /\ e.intent = c.row.intent
              /\ call' = [call EXCEPT ![p].pc = "save", ![p].intent = c.row.intent]
           \/ /\ \E e \in mailbox.messages : e.message = c.message /\ e.intent # c.row.intent
              /\ Return(p)
        /\ UNCHANGED <<contactVars, nodeVars, endpointVars>>

\* The intent of the row, or a new one when that has expired.
UploadIntent(p) ==
    LET c == call[p]  m == c.message
    IN  /\ c.pc = "intent"
        /\ c.row.grant \subseteq approval
        /\ \/ /\ m \in valid
              /\ call' = [call EXCEPT ![p].pc = "start", ![p].intent = outbox[m].intent]
              /\ UNCHANGED <<valid, outbox>>
           \/ /\ m \notin valid /\ outbox[m].intent < MaxIntents
              /\ valid' = valid \cup {m}
              /\ outbox' = [outbox EXCEPT ![m].intent = @ + 1]
              /\ call' = [call EXCEPT ![p].pc = "start", ![p].intent = outbox[m].intent + 1]
        /\ UNCHANGED <<contactVars, nodeVars, inbox, cursor>>

\* _save_send_result; another result is a conflict.
SaveResult(p) ==
    LET c == call[p]  m == c.message
    IN  /\ c.pc = "save"
        /\ outbox[m].result \subseteq {c.intent}
        /\ outbox' = [outbox EXCEPT ![m].result = {c.intent}]
        /\ Step(p, "confirm")
        /\ UNCHANGED <<contactVars, nodeVars, valid, inbox, cursor>>

\* receipt.get, and the acknowledgement is saved.
Confirm(p) ==
    LET c == call[p]  m == c.message
    IN  /\ c.pc = "confirm"
        /\ outbox' = [outbox EXCEPT ![m].acked = @ \/ m \in mailbox.receipts]
        /\ Return(p)
        /\ UNCHANGED <<contactVars, nodeVars, valid, inbox, cursor>>

----------------------------------------------------------------------------
(* The recipient *)

\* A page is handled in the order of the sequences.
First(page) == CHOOSE e \in page : \A d \in page : d = e \/ e.sequence < d.sequence

\* list: the next messages of a mailbox behind the cursor, as it was when it was
\* read; another process may have moved it since.
List(p, g) ==
    \E after \in 0 .. cursor[g] :
        LET behind == {e \in StoredFrom(g) : e.sequence > after}
            page == {e \in behind : Cardinality({d \in behind : d.sequence < e.sequence}) < PageLimit}
        IN  /\ call[p] = Idle
            /\ contact[g].state = "approved" /\ contact[g].lease = "granted"
            /\ page # {}
            /\ call' = [call EXCEPT ![p] = [pc |-> "entry", grant |-> {g}, page |-> page]]
            /\ UNCHANGED <<contactVars, nodeVars, endpointVars>>

\* _receive_entry: a message that is new is read and staged.
Stage(p) ==
    LET c == call[p]  e == First(c.page)  m == e.message
    IN  /\ c.pc = "entry"
        /\ \/ inbox[m].phase # "none" /\ UNCHANGED inbox
           \/ /\ inbox[m].phase = "none"
              /\ e \in mailbox.messages /\ contact[e.grant].lease = "granted"
              /\ inbox' = [inbox EXCEPT ![m].phase = "staged"]
        /\ Step(p, "finish")
        /\ UNCHANGED <<contactVars, nodeVars, valid, outbox, cursor>>

NextEntry(p) ==
    LET rest == call[p].page \ {First(call[p].page)}
    IN  IF rest = {} THEN Return(p)
        ELSE call' = [call EXCEPT ![p].pc = "entry", ![p].page = rest]

\* Where receive goes on with a message that was decided: in a page it moves the
\* cursor first, and a receipt is only for what is saved.
GoOn(p, phase) ==
    IF call[p].grant # {} THEN Step(p, IF phase = "saved" THEN "advance" ELSE "skip")
    ELSE IF phase = "saved" THEN Step(p, "receipt") ELSE Return(p)

\* _finish_inbox reads the row, and scans and imports a staged one outside of any
\* transaction; the import is idempotent.  Two processes need not come to one
\* verdict: a scan also depends on the files and the time it is given.
Finish(p) ==
    LET c == call[p]  m == First(c.page).message
    IN  /\ c.pc = "finish"
        /\ IF inbox[m].phase = "staged"
           THEN \E verdict \in {"accept", "refuse"} : Step(p, verdict)
           ELSE GoOn(p, inbox[m].phase)
        /\ UNCHANGED <<contactVars, nodeVars, endpointVars>>

\* Its closing transaction asks only whether the row is saved: it takes a row
\* back that another process has rejected since.
Accept(p) ==
    LET m == First(call[p].page).message
    IN  /\ call[p].pc = "accept"
        /\ inbox' = [inbox EXCEPT ![m].phase = "saved"]
        /\ GoOn(p, "saved")
        /\ UNCHANGED <<contactVars, nodeVars, valid, outbox, cursor>>

MutRefuse(p) == \* mutant: asks only whether the row is rejected
    LET m == First(call[p].page).message
    IN  /\ call[p].pc = "refuse"
        /\ inbox' = [inbox EXCEPT ![m].phase = "rejected"]
        /\ GoOn(p, "rejected")
        /\ UNCHANGED <<contactVars, nodeVars, valid, outbox, cursor>>

\* _reject_inbox asks for both, and answers with what was decided before.
Refuse(p) ==
    LET m == First(call[p].page).message
    IN  /\ call[p].pc = "refuse"
        /\ inbox' = [inbox EXCEPT ![m].phase = IF @ = "staged" THEN "rejected" ELSE @]
        /\ GoOn(p, inbox'[m].phase)
        /\ UNCHANGED <<contactVars, nodeVars, valid, outbox, cursor>>

MutAdvance(p) == \* mutant: moves past the whole page
    LET c == call[p]  s == (CHOOSE e \in c.page : \A d \in c.page : d.sequence <= e.sequence).sequence
    IN  /\ c.pc \in {"advance", "skip"}
        /\ cursor' = [g \in Grant |-> IF g \in c.grant /\ cursor[g] < s THEN s ELSE cursor[g]]
        /\ IF c.pc = "advance" THEN Step(p, "receipt") ELSE NextEntry(p)
        /\ UNCHANGED <<contactVars, nodeVars, valid, outbox, inbox>>

Advance(p) ==
    LET c == call[p]  s == First(c.page).sequence
    IN  /\ c.pc \in {"advance", "skip"}
        /\ cursor' = [g \in Grant |-> IF g \in c.grant /\ cursor[g] < s THEN s ELSE cursor[g]]
        /\ IF c.pc = "advance" THEN Step(p, "receipt") ELSE NextEntry(p)
        /\ UNCHANGED <<contactVars, nodeVars, valid, outbox, inbox>>

\* _send_receipt: it is sent once, as far as the recipient knows, and whether
\* or not the node takes it the call goes on.
SendReceipt(p) ==
    LET m == First(call[p].page).message
    IN  /\ call[p].pc = "receipt"
        /\ \/ UNCHANGED <<mailbox, inbox>>
           \/ /\ inbox[m].phase = "saved" /\ ~inbox[m].sent
              /\ \E e \in mailbox.messages : e.message = m /\ contact[e.grant].lease = "granted"
              /\ mailbox' = [mailbox EXCEPT !.receipts = @ \cup {m}]
              /\ inbox' \in {inbox, [inbox EXCEPT ![m].sent = TRUE]}
        /\ NextEntry(p)
        /\ UNCHANGED <<contactVars, handle, commits, valid, outbox, cursor>>

\* receive takes up first what an earlier call left behind.
TakeUp(p, m) ==
    /\ call[p] = Idle
    /\ inbox[m].phase = "staged" \/ (inbox[m].phase = "saved" /\ ~inbox[m].sent)
    /\ call' = [call EXCEPT ![p] = [pc |-> "finish", grant |-> {}, page |-> {[message |-> m]}]]
    /\ UNCHANGED <<contactVars, nodeVars, endpointVars>>

----------------------------------------------------------------------------
(* Time, and what goes wrong *)

\* Calls and threads that work on the handle of a message end in an error.
Interrupt(m) ==
    /\ commits' = {j \in commits : j.message # m}
    /\ call' = [p \in Process |->
                    IF call[p].pc \in {"upload", "commit"} /\ call[p].message = m THEN Idle ELSE call[p]]

\* An upload that takes more than two minutes loses its handle.
HandleExpires(m) ==
    /\ \E h \in handle[m] : h.state = "uploading"
    /\ handle' = [handle EXCEPT ![m] = {}]
    /\ Interrupt(m)
    /\ UNCHANGED <<contactVars, mailbox, endpointVars>>

\* An intent takes its unfinished upload along; what is stored stays.  A call
\* lasts a minute and an intent an hour: it does not expire in a call that began
\* before it was issued.
IntentExpires(m) ==
    /\ m \in valid
    /\ \A p \in Sending : call[p] # Idle /\ call[p].message = m => call[p].row.intent = outbox[m].intent
    /\ valid' = valid \ {m}
    /\ IF \E h \in handle[m] : h.state = "uploading"
       THEN handle' = [handle EXCEPT ![m] = {}] /\ Interrupt(m)
       ELSE UNCHANGED <<handle, commits, call>>
    /\ UNCHANGED <<contactVars, mailbox, outbox, inbox, cursor>>

\* A contact request expires with its decision, its lease, the mailbox and the
\* intents that were issued for it.  The sequence of the node stays.
GrantExpires(g) ==
    /\ contact[g].state \in {"pending", "approved"}
    /\ contact' = [contact EXCEPT ![g].state = "expired", ![g].lease = "none"]
    /\ approval' = approval \ {g}
    /\ mailbox' = [mailbox EXCEPT
            !.messages = @ \ StoredFrom(g),
            !.receipts = @ \ {e.message : e \in StoredFrom(g)}]
    /\ handle' = [m \in Message |-> {h \in handle[m] : h.grant # g}]
    /\ commits' = {j \in commits : j.grant # g}
    /\ valid' = valid \ FrozenFor(g)
    /\ call' = [p \in Process |->
                    IF call[p].pc \in {"upload", "commit"} /\ g \in call[p].row.grant
                    THEN Idle ELSE call[p]]
    /\ UNCHANGED <<policy, outbox, inbox, cursor>>

\* An error, a lost answer, the end of a time budget, a crash.
Stop(p) ==
    /\ call[p] # Idle
    /\ Return(p)
    /\ UNCHANGED <<contactVars, nodeVars, endpointVars>>

ContactNext ==
    \/ \E n \in 1 .. MaxRevision : PutPolicy(n)
    \/ RevokePolicy
    \/ \E g \in Grant :
        Submit(g) \/ Allocate(g) \/ Decide(g) \/ Fetch(g) \/ RevokeLease(g) \/ GrantExpires(g)

SenderNext(p) ==
    \/ \E m \in Message : Send(p, m)
    \/ Freeze(p) \/ Recover(p) \/ UploadIntent(p) \/ StartUpload(p) \/ UploadChunk(p)
    \/ BeginCommit(p) \/ SaveResult(p) \/ Confirm(p)

RecipientNext(p) ==
    \/ \E g \in Grant : List(p, g)
    \/ \E m \in Message : TakeUp(p, m)
    \/ Stage(p) \/ Finish(p) \/ Accept(p) \/ Refuse(p) \/ Advance(p) \/ SendReceipt(p)

OpenNext ==
    \/ ContactNext
    \/ \E p \in Sending : SenderNext(p)
    \/ \E p \in Receiving : RecipientNext(p)
    \/ \E p \in Process : Stop(p)
    \/ \E j \in commits : Publish(j) \/ SignAgain(j) \/ RefuseCommit(j)
    \/ \E m \in Message : HandleExpires(m) \/ IntentExpires(m)

OpenSpec == OpenInit /\ [][OpenNext]_openVars
----------------------------------------------------------------------------
(* Properties *)

\* The cursor passes nothing that the recipient has not dealt with: a stored
\* message at or before it is in the inbox, saved or rejected
\* (OpenDeliveryClient.receive, DeliveryState._commit).
PassedIsSettled ==
    \A e \in mailbox.messages :
        e.sequence <= cursor[e.grant] => inbox[e.message].phase \in {"saved", "rejected"}

\* What the sender reports as validated and saved is in the recipient's inbox,
\* and so is what the node holds a receipt of (OpenDeliveryClient._send_receipt).
AckedIsSaved ==
    \A m \in Message :
        outbox[m].acked \/ m \in mailbox.receipts => inbox[m].phase = "saved"

\* Neither end loses a message: the recipient's cursor passes none it has not
\* dealt with, and the sender counts none as saved that is not
\* (OpenDeliveryClient.receive, _send_receipt).
NothingIsLost == PassedIsSettled /\ AckedIsSaved

\* The letter of a message names the mailbox it was frozen for.
Letter(m) == [message |-> m, grant |-> outbox[m].grant]
InPhase(phase) == {Letter(m) : m \in {n \in Message : inbox[n].phase = phase}}

\* Mailboxes, handles and threads add up to letters that are frozen for one
\* mailbox, stay saved whichever process decides after that, and are confirmed
\* only when they are saved, whatever expires or is revoked.  What is rejected
\* may still be saved (OpenDeliveryClient._freeze_dispatch, _finish_inbox).
Letters == INSTANCE Mail WITH
    Overruling <- TRUE,
    sealed <- {Letter(m) : m \in {n \in Message : outbox[n].grant # {}}},
    saved <- InPhase("saved"), refused <- InPhase("rejected"),
    confirmed <- {m \in Message : outbox[m].acked}

ImplementsMail == Letters!Spec

\* However many processes dispatch at once, a mailbox has room for everything
\* that was frozen for it, which never moves to another
\* (OpenDeliveryClient._freeze_dispatch).
FrozenFits == \A g \in Grant : Cardinality(FrozenFor(g)) <= contact[g].items

\* Nothing is stored for a recipient who has revoked or revised meanwhile, at
\* whatever moment of an upload that happens (DeliveryState._commit).
NothingAfterRevocation ==
    [][\A e \in mailbox'.messages \ mailbox.messages : Authorized(e.grant)]_openVars

\* What the comment in OpenDeliveryClient.send says: an upload that was
\* committed can be recovered when its answer was lost and its intent expired.
StoredIsRecoverable ==
    \A e \in mailbox.messages : outbox[e.message].intent = e.intent
=============================================================================
