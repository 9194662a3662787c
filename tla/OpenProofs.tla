----------------------------- MODULE OpenProofs -----------------------------
(***************************************************************************)
(* Proofs about OpenDelivery, for any messages, contact requests and       *)
(* processes and all bounds: neither end loses a message, mailboxes are    *)
(* not overcommitted, nothing is stored after a revocation, and a message  *)
(* has one letter, which stays saved once it is (Mail).                    *)
(*                                                                         *)
(* A listing is worked through without any lock, while other processes     *)
(* list the same mailbox, move the cursor, and messages come and expire.   *)
(* What makes it safe is what such a page says of the mailbox (PageOf), at *)
(* whatever moment: nothing that is stored lies between its entries unless *)
(* it has been dealt with.                                                 *)
(***************************************************************************)
EXTENDS OpenDelivery, FiniteSetTheorems, WellFoundedInduction, TLAPS

----------------------------------------------------------------------------
(* The inductive invariant: types. *)

SendPCs == {"freeze", "recover", "intent", "start", "upload", "commit", "save", "confirm"}
ReceivePCs == {"entry", "finish", "accept", "refuse", "advance", "skip", "receipt"}

ContactStates == {"none", "pending", "approved", "rejected", "expired"}
LeaseStates == {"none", "free", "granted", "revoked"}
Contacts == [state : ContactStates, revision : Nat, lease : LeaseStates, items : Nat]

Entries == [message : Message, grant : Grant, intent : Nat, sequence : Nat]
Mailboxes == [sequence : Nat, messages : SUBSET Entries, receipts : SUBSET Message]
Handles == [intent : Nat, grant : Grant, prefix : Nat, state : {"uploading", "committed"}]
Commits == [message : Message, grant : Grant, intent : Nat, sequence : Nat, by : Process]

Rows == [grant : SUBSET Grant, intent : Nat, result : SUBSET Nat, acked : BOOLEAN]
Phases == [phase : {"none", "staged", "saved", "rejected"}, sent : BOOLEAN]

SendCalls == [pc : SendPCs, message : Message, row : Rows, intent : Nat]
ReceiveCalls == [pc : ReceivePCs, grant : SUBSET Grant, page : SUBSET (Entries \cup [message : Message])]

NodeOK ==
    /\ policy \in [revision : Nat, status : {"none", "active", "revoked", "conflict"}]
    /\ contact \in [Grant -> Contacts]
    /\ approval \subseteq Grant
    /\ mailbox \in Mailboxes
    /\ handle \in [Message -> SUBSET Handles]
    /\ commits \subseteq Commits

EndpointOK ==
    /\ outbox \in [Message -> Rows]
    /\ inbox \in [Message -> Phases]
    /\ cursor \in [Grant -> Nat]

\* A call that is past the row it read has found a frozen session in it.
CallsOK ==
    /\ call \in [Process -> {Idle} \cup SendCalls \cup ReceiveCalls]
    /\ \A p \in Process : call[p].pc \in {"recover", "intent", "start"} => call[p].row.grant # {}

TypeOK == NodeOK /\ EndpointOK /\ CallsOK

----------------------------------------------------------------------------
(* The inductive invariant: mailbox, pages, rows. *)

Settled(m) == inbox[m].phase \in {"saved", "rejected"}

\* Sequences are given once.
MailboxInv ==
    /\ IsFiniteSet(mailbox.messages)
    /\ \A e \in mailbox.messages : e.sequence <= mailbox.sequence
    /\ \A d, e \in mailbox.messages : d.sequence = e.sequence => d = e

\* What was listed of the mailbox of g: whatever is stored there before one of
\* its entries is an entry itself or has been dealt with.
PageOf(g, page) ==
    /\ page \subseteq Entries
    /\ \A e \in page : e.grant = g /\ e.sequence <= mailbox.sequence
    /\ \A d \in page \cup mailbox.messages, e \in page : d.sequence = e.sequence => d = e
    /\ \A d \in StoredFrom(g), e \in page : d.sequence < e.sequence => d \in page \/ Settled(d.message)

PageInv(p) ==
    call[p].pc \in ReceivePCs =>
        /\ \/ \E g \in Grant : call[p].grant = {g} /\ PageOf(g, call[p].page) /\ call[p].page # {}
           \/ call[p].grant = {} /\ \E m \in Message : call[p].page = {[message |-> m]}
        /\ call[p].pc \in {"finish", "accept", "refuse"} => inbox[First(call[p].page).message].phase # "none"
        /\ call[p].pc \in {"advance", "skip", "receipt"} => Settled(First(call[p].page).message)

CursorInv == (\A g \in Grant : cursor[g] <= mailbox.sequence) /\ PassedIsSettled

ReceiveInv == MailboxInv /\ CursorInv /\ (\A p \in Process : PageInv(p)) /\ AckedIsSaved

\* Nothing was frozen for a mailbox before it had room.
FrozenInv ==
    /\ \A g \in Grant : contact[g].state \in {"none", "pending"} /\ contact[g].lease = "none" =>
        contact[g].items = 0
    /\ \A g \in Grant : IsFiniteSet(FrozenFor(g))
    /\ FrozenFits

OpenInv == TypeOK /\ ReceiveInv /\ FrozenInv

----------------------------------------------------------------------------
(* Lemmas about pages. *)

\* A set of natural numbers that is not empty has a least one.
LEMMA LeastNumber ==
    ASSUME NEW S, S \subseteq Nat, S # {}
    PROVE  \E m \in S : \A n \in S : m <= n
<1> DEFINE Less == {p \in Nat \X Nat : p[1] < p[2]}
<1>1. IsWellFoundedOn(Less, Nat)
    BY NatLessThanWellFounded DEF OpToRel
<1> HIDE DEF Less
<1>2. PICK m \in S : \A n \in S : <<n, m>> \notin Less
    BY <1>1, WFMin
<1>3. ASSUME NEW n \in S PROVE m <= n
    <2>1. n < m => <<n, m>> \in Less
        BY DEF Less
    <2> QED
        BY <1>2, <2>1
<1> QED
    BY <1>3

\* A page begins with the entry of the least sequence.
LEMMA FirstOfPage ==
    ASSUME NEW g, NEW page, PageOf(g, page), page # {}
    PROVE  /\ First(page) \in page
           /\ \A d \in page : d = First(page) \/ First(page).sequence < d.sequence
<1>1. \A e \in page : e.sequence \in Nat
    BY DEF PageOf, Entries
<1> DEFINE S == {e.sequence : e \in page}
<1>2. S \subseteq Nat /\ S # {}
    BY <1>1
<1>3. PICK n \in S : \A k \in S : n <= k
    BY <1>2, LeastNumber
<1>4. PICK e \in page : e.sequence = n
    BY <1>3
<1>5. ASSUME NEW d \in page PROVE d = e \/ e.sequence < d.sequence
    <2>1. e.sequence <= d.sequence
        BY <1>3, <1>4
    <2>2. e.sequence = d.sequence => d = e
        BY DEF PageOf
    <2> QED
        BY <1>1, <2>1, <2>2
<1> QED
    BY <1>5 DEF First

LEMMA FirstOfOne == ASSUME NEW e PROVE First({e}) = e
BY DEF First

\* A step gives sequences only to what is new, and forgets nothing that the
\* recipient has staged or decided.
Later ==
    /\ mailbox.sequence <= mailbox'.sequence
    /\ \A d \in mailbox'.messages : d \in mailbox.messages \/ mailbox.sequence < d.sequence
    /\ \A m \in Message :
        /\ inbox[m].phase # "none" => inbox'[m].phase # "none"
        /\ Settled(m) => Settled(m)'

LEMMA PageStays ==
    ASSUME TypeOK, TypeOK', Later, NEW g \in Grant, NEW page, PageOf(g, page)
    PROVE  PageOf(g, page)'
<1>1. page \subseteq Entries /\ \A e \in page : e.grant = g /\ e.sequence <= mailbox.sequence
    BY DEF PageOf
<1>2. mailbox.sequence \in Nat /\ mailbox'.sequence \in Nat /\ \A e \in page : e.sequence \in Nat
    BY <1>1 DEF TypeOK, NodeOK, Mailboxes, Entries
<1>3. mailbox'.messages \subseteq Entries
    BY DEF TypeOK, NodeOK, Mailboxes
<1>4. \A d \in mailbox'.messages : d.message \in Message /\ d.sequence \in Nat
    BY <1>3 DEF Entries
<1>5. \A e \in page : e.grant = g /\ e.sequence <= mailbox'.sequence
    BY <1>1, <1>2 DEF Later
<1>6. ASSUME NEW d \in page \cup mailbox'.messages, NEW e \in page, d.sequence = e.sequence PROVE d = e
    BY <1>1, <1>2, <1>4, <1>6 DEF PageOf, Later
<1>7. ASSUME NEW d \in StoredFrom(g)', NEW e \in page, d.sequence < e.sequence
      PROVE  d \in page \/ Settled(d.message)'
    <2>1. d \in mailbox'.messages /\ d.grant = g
        BY DEF StoredFrom
    <2>2. d \in mailbox.messages
        BY <1>1, <1>2, <1>4, <1>7, <2>1 DEF Later
    <2>3. d \in page \/ Settled(d.message)
        BY <1>7, <2>1, <2>2 DEF PageOf, StoredFrom
    <2> QED
        BY <1>4, <2>1, <2>3 DEF Later
<1> QED
    BY <1>1, <1>5, <1>6, <1>7 DEF PageOf

\* A page that was begun stays one when its first entry has been dealt with.
LEMMA RestOfPage ==
    ASSUME NEW g \in Grant, NEW page, PageOf(g, page), page # {}, Settled(First(page).message)
    PROVE  PageOf(g, page \ {First(page)})
<1>1. First(page) \in page
    BY FirstOfPage
<1> QED
    BY <1>1 DEF PageOf

----------------------------------------------------------------------------
(* Type correctness. *)

LEMMA CallKinds ==
    /\ \A c \in SendCalls : c # Idle /\ c \notin ReceiveCalls
    /\ \A c \in ReceiveCalls : c # Idle
    /\ Idle.pc \notin SendPCs \cup ReceivePCs
BY DEF SendCalls, ReceiveCalls, Idle, SendPCs, ReceivePCs

\* What a call is, told by where it stands.
LEMMA CallOfSender ==
    ASSUME TypeOK, NEW p \in Process, call[p].pc \in SendPCs
    PROVE  call[p] \in SendCalls
BY DEF TypeOK, CallsOK, SendPCs, ReceivePCs, SendCalls, ReceiveCalls, Idle

LEMMA CallOfRecipient ==
    ASSUME TypeOK, NEW p \in Process, call[p].pc \in ReceivePCs
    PROVE  call[p] \in ReceiveCalls
BY DEF TypeOK, CallsOK, SendPCs, ReceivePCs, SendCalls, ReceiveCalls, Idle

\* One call is replaced by another that is well formed.
LEMMA OneCall ==
    ASSUME CallsOK, NEW p \in Process, NEW c \in {Idle} \cup SendCalls \cup ReceiveCalls,
           c.pc \in {"recover", "intent", "start"} => c.row.grant # {},
           call' = [call EXCEPT ![p] = c]
    PROVE  CallsOK'
BY DEF CallsOK

LEMMA ReturnType ==
    ASSUME CallsOK, NEW p \in Process, Return(p)
    PROVE  CallsOK'
BY OneCall DEF Return, Idle

LEMMA SendStepType ==
    ASSUME TypeOK, NEW p \in Process, call[p].pc \in SendPCs, NEW pc \in SendPCs, Step(p, pc),
           pc \in {"recover", "intent", "start"} => call[p].row.grant # {}
    PROVE  CallsOK'
<1> DEFINE c == [call[p] EXCEPT !.pc = pc]
<1>1. call[p] \in SendCalls
    BY CallOfSender
<1>2. c \in SendCalls /\ c.pc = pc /\ c.row = call[p].row
    BY <1>1 DEF SendCalls
<1>3. call' = [call EXCEPT ![p] = c]
    BY DEF Step, TypeOK, CallsOK
<1> QED
    BY <1>2, <1>3, OneCall DEF TypeOK

LEMMA ReceiveStepType ==
    ASSUME TypeOK, NEW p \in Process, call[p].pc \in ReceivePCs, NEW pc \in ReceivePCs, Step(p, pc)
    PROVE  CallsOK'
<1> DEFINE c == [call[p] EXCEPT !.pc = pc]
<1>1. call[p] \in ReceiveCalls
    BY CallOfRecipient
<1>2. c \in ReceiveCalls /\ c.pc = pc
    BY <1>1 DEF ReceiveCalls
<1>3. call' = [call EXCEPT ![p] = c]
    BY DEF Step, TypeOK, CallsOK
<1> QED
    BY <1>2, <1>3, OneCall DEF TypeOK, ReceivePCs

LEMMA ResumeType ==
    ASSUME CallsOK, NEW p \in Process, NEW m \in Message, NEW row \in Rows, Resume(p, m, row)
    PROVE  CallsOK'
<1> DEFINE c == IF Continued(row) = "idle" THEN Idle
                ELSE [pc |-> Continued(row), message |-> m, row |-> row, intent |-> 0]
<1>1. /\ Continued(row) \in {"freeze", "recover", "intent", "confirm", "idle"}
      /\ Continued(row) \in {"recover", "intent"} => row.grant # {}
    BY DEF Continued
<1>2. c \in {Idle} \cup SendCalls
    BY <1>1 DEF SendCalls, SendPCs
<1>3. c.pc \in {"recover", "intent", "start"} => c.row.grant # {}
    BY <1>1 DEF Idle
<1>4. call' = [call EXCEPT ![p] = c]
    BY DEF Resume
<1> QED
    BY <1>2, <1>3, <1>4, OneCall

\* Calls end, one or some of them; the others go on.
LEMMA SomeReturn ==
    ASSUME CallsOK, DOMAIN call' = Process, call' = [p \in Process |-> call'[p]],
           \A p \in Process : call'[p] = call[p] \/ call'[p] = Idle
    PROVE  CallsOK'
BY DEF CallsOK, Idle

LEMMA InterruptType ==
    ASSUME NodeOK, CallsOK, NEW m, Interrupt(m)
    PROVE  commits' \subseteq Commits /\ CallsOK'
<1>1. commits' \subseteq Commits
    BY DEF Interrupt, NodeOK
<1>2. CallsOK'
    BY SomeReturn DEF Interrupt
<1> QED
    BY <1>1, <1>2

LEMMA AnswerType ==
    ASSUME TypeOK, NEW j \in commits, NEW pc \in {"idle", "save"}, Answer(j, pc)
    PROVE  CallsOK'
<1>1. j.by \in Process
    BY DEF TypeOK, NodeOK, Commits
<1>2. CASE UNCHANGED call
    BY <1>2 DEF TypeOK, CallsOK
<1>3. CASE Return(j.by)
    BY <1>1, <1>3, ReturnType DEF TypeOK
<1>4. CASE call[j.by].pc = "commit" /\ Step(j.by, pc) /\ pc = "save"
    BY <1>1, <1>4, SendStepType DEF SendPCs
<1> QED
    BY <1>2, <1>3, <1>4 DEF Answer

LEMMA TypeInit == OpenInit => TypeOK
<1> SUFFICES ASSUME OpenInit PROVE TypeOK
    OBVIOUS
<1>1. NodeOK
    BY DEF OpenInit, NodeOK, Contacts, ContactStates, LeaseStates, Mailboxes
<1>2. EndpointOK
    BY DEF OpenInit, EndpointOK, Rows, Phases
<1>3. CallsOK
    BY DEF OpenInit, CallsOK, Idle
<1> QED
    BY <1>1, <1>2, <1>3 DEF TypeOK

LEMMA ContactTypes ==
    ASSUME TypeOK, ContactNext
    PROVE  TypeOK'
<1> USE DEF contactVars, nodeVars, endpointVars
<1>1. NodeOK /\ EndpointOK /\ CallsOK
    BY DEF TypeOK
<1>2. ASSUME UNCHANGED <<outbox, inbox, cursor>> PROVE EndpointOK'
    BY <1>1, <1>2 DEF EndpointOK
<1>3. ASSUME UNCHANGED call PROVE CallsOK'
    BY <1>1, <1>3 DEF CallsOK
<1>4. ASSUME NEW n \in 1 .. MaxRevision, PutPolicy(n) PROVE TypeOK'
    <2>1. NodeOK'
        BY <1>1, <1>4 DEF PutPolicy, NodeOK
    <2> QED
        BY <1>2, <1>3, <1>4, <2>1 DEF PutPolicy, TypeOK
<1>5. CASE RevokePolicy
    <2>1. NodeOK'
        BY <1>1, <1>5 DEF RevokePolicy, NodeOK
    <2> QED
        BY <1>2, <1>3, <1>5, <2>1 DEF RevokePolicy, TypeOK
<1>6. ASSUME NEW g \in Grant, Submit(g) \/ Allocate(g) \/ Decide(g) \/ Fetch(g) \/ RevokeLease(g)
      PROVE  TypeOK'
    <2>1. contact[g] \in Contacts /\ policy.revision \in Nat
        BY <1>1 DEF NodeOK
    <2>2. contact' \in [Grant -> Contacts]
        <3>1. CASE Submit(g)
            BY <1>1, <2>1, <3>1 DEF Submit, NodeOK, Contacts, ContactStates
        <3>2. CASE Allocate(g)
            <4>1. PICK n \in 1 .. MaxItems :
                    contact' = [contact EXCEPT ![g].lease = "free", ![g].items = n]
                BY <3>2 DEF Allocate
            <4>2. n \in Nat
                BY DeliveryAssumption
            <4>3. [contact[g] EXCEPT !.lease = "free", !.items = n] \in Contacts
                BY <2>1, <4>2 DEF Contacts, LeaseStates
            <4> QED
                BY <1>1, <4>1, <4>3 DEF NodeOK
        <3>3. CASE Decide(g)
            BY <1>1, <2>1, <3>3 DEF Decide, NodeOK, Contacts, ContactStates, LeaseStates
        <3>4. CASE Fetch(g)
            BY <1>1, <3>4 DEF Fetch, NodeOK
        <3>5. CASE RevokeLease(g)
            BY <1>1, <2>1, <3>5 DEF RevokeLease, NodeOK, Contacts, LeaseStates
        <3> QED
            BY <1>6, <3>1, <3>2, <3>3, <3>4, <3>5
    <2>3. approval' \subseteq Grant
        BY <1>1, <1>6 DEF Submit, Allocate, Decide, Fetch, RevokeLease, NodeOK
    <2>4. UNCHANGED <<policy, nodeVars, endpointVars, call>>
        BY <1>6 DEF Submit, Allocate, Decide, Fetch, RevokeLease
    <2>5. NodeOK'
        BY <1>1, <2>2, <2>3, <2>4 DEF NodeOK
    <2> QED
        BY <1>2, <1>3, <2>4, <2>5 DEF TypeOK
<1>7. ASSUME NEW g \in Grant, GrantExpires(g) PROVE TypeOK'
    <2>1. contact' \in [Grant -> Contacts] /\ approval' \subseteq Grant
        BY <1>1, <1>7 DEF GrantExpires, NodeOK, Contacts, ContactStates, LeaseStates
    <2>2. mailbox' \in Mailboxes
        BY <1>1, <1>7 DEF GrantExpires, NodeOK, Mailboxes
    <2>3. handle' \in [Message -> SUBSET Handles] /\ commits' \subseteq Commits
        BY <1>1, <1>7 DEF GrantExpires, NodeOK
    <2>4. NodeOK'
        BY <1>1, <1>7, <2>1, <2>2, <2>3 DEF GrantExpires, NodeOK
    <2>5. CallsOK'
        BY <1>1, <1>7, SomeReturn DEF GrantExpires
    <2> QED
        BY <1>2, <1>7, <2>4, <2>5 DEF GrantExpires, TypeOK
<1> QED
    BY <1>4, <1>5, <1>6, <1>7 DEF ContactNext

LEMMA NodeTypes ==
    ASSUME TypeOK, NEW p \in Process, StartUpload(p) \/ UploadChunk(p) \/ BeginCommit(p)
    PROVE  TypeOK'
<1> USE DEF contactVars, nodeVars, endpointVars
<1>1. NodeOK /\ EndpointOK /\ CallsOK
    BY DEF TypeOK
<1>2. ASSUME UNCHANGED <<outbox, inbox, cursor>> PROVE EndpointOK'
    BY <1>1, <1>2 DEF EndpointOK
<1>3. call[p] \in SendCalls
    BY CallOfSender DEF StartUpload, UploadChunk, BeginCommit, SendPCs
<1>4. call[p].message \in Message /\ call[p].intent \in Nat /\ call[p].row \in Rows
    BY <1>3 DEF SendCalls
<1>5. CASE StartUpload(p)
    <2> DEFINE g == CHOOSE h \in call[p].row.grant : TRUE
    <2>1. g \in Grant
        BY <1>1, <1>4, <1>5 DEF StartUpload, CallsOK, Rows
    <2>2. handle' \in [Message -> SUBSET Handles]
        <3> HIDE DEF g
        <3>1. [intent |-> call[p].intent, grant |-> g, prefix |-> 0, state |-> "uploading"] \in Handles
            BY <1>4, <2>1 DEF Handles
        <3>2. \/ UNCHANGED handle
              \/ handle' = [handle EXCEPT ![call[p].message] =
                                {[intent |-> call[p].intent, grant |-> g, prefix |-> 0, state |-> "uploading"]}]
            BY <1>5, Zenon DEF StartUpload, g
        <3> QED
            BY <1>1, <1>4, <3>1, <3>2 DEF NodeOK
    <2>3. NodeOK'
        BY <1>1, <1>5, <2>2 DEF StartUpload, NodeOK
    <2>4. CallsOK'
        BY <1>5, SendStepType DEF StartUpload, SendPCs
    <2> QED
        BY <1>2, <1>5, <2>3, <2>4 DEF StartUpload, TypeOK
<1>6. CASE UploadChunk(p)
    <2>1. PICK h \in handle[call[p].message] :
            handle' = [handle EXCEPT ![call[p].message] = {[h EXCEPT !.prefix = @ + 1]}]
        BY <1>6 DEF UploadChunk
    <2>2. h \in Handles
        BY <1>1, <1>4, <2>1 DEF NodeOK
    <2>3. [h EXCEPT !.prefix = @ + 1] \in Handles
        BY <2>2 DEF Handles
    <2>4. NodeOK'
        BY <1>1, <1>4, <1>6, <2>1, <2>3 DEF UploadChunk, NodeOK
    <2> QED
        BY <1>1, <1>2, <1>6, <2>4 DEF UploadChunk, TypeOK, CallsOK
<1>7. CASE BeginCommit(p)
    <2>1. PICK h \in handle[call[p].message] :
            \/ Step(p, "save") /\ UNCHANGED commits
            \/ /\ commits' = commits \cup {[message |-> call[p].message, grant |-> h.grant, intent |-> h.intent,
                                            sequence |-> mailbox.sequence + 1, by |-> p]}
               /\ Step(p, "commit")
        BY <1>7 DEF BeginCommit
    <2>2. h \in Handles /\ mailbox.sequence \in Nat
        BY <1>1, <1>4, <2>1 DEF NodeOK, Mailboxes
    <2>3. commits' \subseteq Commits
        BY <1>1, <1>4, <2>1, <2>2 DEF NodeOK, Commits, Handles
    <2>4. NodeOK'
        BY <1>1, <1>7, <2>3 DEF BeginCommit, NodeOK
    <2>5. CallsOK'
        BY <1>7, <2>1, SendStepType DEF BeginCommit, SendPCs
    <2> QED
        BY <1>2, <1>7, <2>4, <2>5 DEF BeginCommit, TypeOK
<1> QED
    BY <1>5, <1>6, <1>7

LEMMA CommitTypes ==
    ASSUME TypeOK, NEW j \in commits, Publish(j) \/ SignAgain(j) \/ RefuseCommit(j)
    PROVE  TypeOK'
<1> USE DEF contactVars, nodeVars, endpointVars
<1>1. NodeOK /\ EndpointOK /\ CallsOK
    BY DEF TypeOK
<1>2. j \in Commits /\ mailbox \in Mailboxes
    BY <1>1 DEF NodeOK
<1>3. EndpointOK'
    BY <1>1 DEF EndpointOK, Publish, SignAgain, RefuseCommit
<1>4. CASE Publish(j)
    <2>1. [message |-> j.message, grant |-> j.grant, intent |-> j.intent, sequence |-> j.sequence] \in Entries
        BY <1>2 DEF Commits, Entries
    <2>2. mailbox' \in Mailboxes
        BY <1>2, <1>4, <2>1 DEF Publish, Mailboxes, Commits
    <2>3. handle' \in [Message -> SUBSET Handles]
        <3>1. \A h \in handle[j.message] : [h EXCEPT !.state = "committed"] \in Handles
            BY <1>1, <1>2 DEF NodeOK, Commits, Handles
        <3> QED
            BY <1>1, <1>2, <1>4, <3>1 DEF Publish, NodeOK
    <2>4. NodeOK'
        BY <1>1, <1>4, <2>2, <2>3 DEF Publish, NodeOK
    <2> QED
        BY <1>3, <1>4, <2>4, AnswerType DEF Publish, TypeOK
<1>5. CASE SignAgain(j)
    <2>1. [j EXCEPT !.sequence = mailbox.sequence + 1] \in Commits
        BY <1>2 DEF Commits, Mailboxes
    <2>2. NodeOK'
        BY <1>1, <1>5, <2>1 DEF SignAgain, NodeOK
    <2> QED
        BY <1>1, <1>3, <1>5, <2>2 DEF SignAgain, TypeOK, CallsOK
<1>6. CASE RefuseCommit(j)
    <2>1. NodeOK'
        BY <1>1, <1>6 DEF RefuseCommit, NodeOK
    <2> QED
        BY <1>3, <1>6, <2>1, AnswerType DEF RefuseCommit, TypeOK
<1> QED
    BY <1>4, <1>5, <1>6

LEMMA SenderTypes ==
    ASSUME TypeOK, NEW p \in Process,
           \/ \E m \in Message : Send(p, m)
           \/ Freeze(p) \/ Recover(p) \/ UploadIntent(p) \/ SaveResult(p) \/ Confirm(p)
    PROVE  TypeOK'
<1> USE DEF contactVars, nodeVars, endpointVars
<1>1. NodeOK /\ EndpointOK /\ CallsOK
    BY DEF TypeOK
<1>2. NodeOK'
    BY <1>1 DEF Send, Freeze, Recover, UploadIntent, SaveResult, Confirm, NodeOK
<1>3. UNCHANGED <<inbox, cursor>>
    BY DEF Send, Freeze, Recover, UploadIntent, SaveResult, Confirm
<1>4. ASSUME outbox' \in [Message -> Rows] PROVE EndpointOK'
    BY <1>1, <1>3, <1>4 DEF EndpointOK
<1>5. outbox \in [Message -> Rows] /\ call = [x \in Process |-> call[x]]
    BY <1>1 DEF EndpointOK, CallsOK
<1>6. ASSUME NEW m \in Message, Send(p, m) PROVE TypeOK'
    <2>1. CallsOK'
        BY <1>1, <1>5, <1>6, ResumeType DEF Send
    <2> QED
        BY <1>2, <1>4, <1>5, <1>6, <2>1 DEF Send, TypeOK
<1> DEFINE c == call[p]
           m == call[p].message
<1>7. ASSUME c.pc \in SendPCs PROVE c \in SendCalls /\ m \in Message /\ c.intent \in Nat /\ c.row \in Rows
    <2>1. c \in SendCalls
        BY <1>7, CallOfSender
    <2> QED
        BY <2>1 DEF SendCalls
<1>8. CASE Freeze(p)
    <2>1. c.pc \in SendPCs /\ Resume(p, m, outbox'[m])
        BY <1>8 DEF Freeze, SendPCs
    <2>2. m \in Message
        BY <1>7, <2>1
    <2>3. UNCHANGED outbox \/ \E g \in approval : outbox' = [outbox EXCEPT ![m].grant = {g}]
        BY <1>8 DEF Freeze
    <2>4. approval \subseteq Grant
        BY <1>1 DEF NodeOK
    <2>5. \A g \in Grant : [outbox[m] EXCEPT !.grant = {g}] \in Rows
        BY <1>5, <2>2 DEF Rows
    <2>6. outbox' \in [Message -> Rows]
        BY <1>5, <2>2, <2>3, <2>4, <2>5
    <2>7. CallsOK'
        BY <1>1, <2>1, <2>2, <2>6, ResumeType
    <2> QED
        BY <1>2, <1>4, <2>6, <2>7 DEF TypeOK
<1>9. CASE Recover(p)
    <2>1. c.pc = "recover" /\ c.row.grant # {} /\ c.pc \in SendPCs
        BY <1>1, <1>9 DEF Recover, CallsOK, SendPCs
    <2>2. c \in SendCalls /\ c.row \in Rows
        BY <1>7, <2>1, Zenon
    <2>3. ASSUME Step(p, "intent") PROVE CallsOK'
        <3>1. "intent" \in SendPCs
            BY DEF SendPCs
        <3> QED
            BY <2>1, <2>3, <3>1, SendStepType
    <2>4. ASSUME Return(p) PROVE CallsOK'
        BY <1>1, <2>4, ReturnType
    <2>5. ASSUME call' = [call EXCEPT ![p].pc = "save", ![p].intent = c.row.intent] PROVE CallsOK'
        <3> DEFINE d == [c EXCEPT !.pc = "save", !.intent = c.row.intent]
        <3>1. d \in SendCalls /\ d.pc = "save"
            BY <2>2 DEF SendCalls, SendPCs, Rows
        <3>2. call' = [call EXCEPT ![p] = d]
            BY <1>5, <2>5
        <3> HIDE DEF d
        <3> QED
            BY <1>1, <3>1, <3>2, OneCall
    <2>6. CallsOK'
        BY <1>9, <2>3, <2>4, <2>5 DEF Recover
    <2> QED
        BY <1>2, <1>4, <1>5, <1>9, <2>6 DEF Recover, TypeOK
<1>10. CASE UploadIntent(p)
    <2>1. c.pc = "intent" /\ c.row.grant # {} /\ c.pc \in SendPCs
        BY <1>1, <1>10 DEF UploadIntent, CallsOK, SendPCs
    <2>2. c \in SendCalls /\ m \in Message
        BY <1>7, <2>1
    <2>3. outbox[m] \in Rows /\ outbox[m].intent \in Nat
        BY <1>5, <2>2 DEF Rows
    <2>4. outbox' \in [Message -> Rows]
        <3>1. [outbox[m] EXCEPT !.intent = @ + 1] \in Rows
            BY <2>3 DEF Rows
        <3>2. UNCHANGED outbox \/ outbox' = [outbox EXCEPT ![m].intent = @ + 1]
            BY <1>10 DEF UploadIntent
        <3> QED
            BY <1>5, <2>2, <3>1, <3>2
    <2>5. PICK n \in {outbox[m].intent, outbox[m].intent + 1} :
            call' = [call EXCEPT ![p].pc = "start", ![p].intent = n]
        BY <1>10 DEF UploadIntent
    <2> DEFINE d == [c EXCEPT !.pc = "start", !.intent = n]
    <2>a. n \in Nat
        BY <2>3
    <2>6. d \in SendCalls /\ d.pc = "start" /\ d.row = c.row
        BY <2>2, <2>a DEF SendCalls, SendPCs
    <2>7. call' = [call EXCEPT ![p] = d]
        BY <1>5, <2>5
    <2> HIDE DEF d
    <2>8. CallsOK'
        BY <1>1, <2>1, <2>6, <2>7, OneCall
    <2> QED
        BY <1>2, <1>4, <2>4, <2>8 DEF TypeOK
<1>11. CASE SaveResult(p)
    <2>1. c.pc \in SendPCs /\ Step(p, "confirm")
        BY <1>11 DEF SaveResult, SendPCs
    <2>2. m \in Message /\ c.intent \in Nat
        BY <1>7, <2>1
    <2>3. [outbox[m] EXCEPT !.result = {c.intent}] \in Rows
        BY <1>5, <2>2 DEF Rows
    <2>4. outbox' \in [Message -> Rows]
        BY <1>5, <1>11, <2>2, <2>3 DEF SaveResult
    <2>5. CallsOK'
        BY <2>1, SendStepType DEF SendPCs
    <2> QED
        BY <1>2, <1>4, <2>4, <2>5 DEF TypeOK
<1>12. CASE Confirm(p)
    <2>1. c.pc \in SendPCs /\ Return(p)
        BY <1>12 DEF Confirm, SendPCs
    <2>2. m \in Message
        BY <1>7, <2>1
    <2>3. [outbox[m] EXCEPT !.acked = @ \/ m \in mailbox.receipts] \in Rows
        BY <1>5, <2>2 DEF Rows
    <2>4. outbox' \in [Message -> Rows]
        BY <1>5, <1>12, <2>2, <2>3 DEF Confirm
    <2>5. CallsOK'
        BY <1>1, <2>1, ReturnType
    <2> QED
        BY <1>2, <1>4, <2>4, <2>5 DEF TypeOK
<1> QED
    BY <1>6, <1>8, <1>9, <1>10, <1>11, <1>12

\* The first entry of what a recipient works on is about a message.
LEMMA FirstIsOfMessage ==
    ASSUME TypeOK, NEW p \in Process, PageInv(p), call[p].pc \in ReceivePCs
    PROVE  /\ First(call[p].page) \in call[p].page /\ First(call[p].page).message \in Message
           /\ \A g \in call[p].grant : /\ g \in Grant /\ call[p].grant = {g}
                                       /\ PageOf(g, call[p].page) /\ First(call[p].page) \in Entries
<1>1. CASE \E g \in Grant : call[p].grant = {g} /\ PageOf(g, call[p].page) /\ call[p].page # {}
    <2>1. PICK g \in Grant : call[p].grant = {g} /\ PageOf(g, call[p].page) /\ call[p].page # {}
        BY <1>1
    <2>2. First(call[p].page) \in call[p].page
        BY <2>1, FirstOfPage
    <2>3. First(call[p].page) \in Entries
        BY <2>1, <2>2 DEF PageOf
    <2> QED
        BY <2>1, <2>2, <2>3 DEF Entries
<1>2. CASE call[p].grant = {} /\ \E m \in Message : call[p].page = {[message |-> m]}
    <2>1. PICK m \in Message : call[p].page = {[message |-> m]}
        BY <1>2
    <2>2. First(call[p].page) = [message |-> m]
        BY <2>1, FirstOfOne
    <2> QED
        BY <1>2, <2>1, <2>2
<1> QED
    BY <1>1, <1>2 DEF PageInv

LEMMA NextEntryType ==
    ASSUME TypeOK, NEW p \in Process, call[p].pc \in ReceivePCs, NextEntry(p)
    PROVE  CallsOK'
<1> DEFINE rest == call[p].page \ {First(call[p].page)}
<1>1. CASE Return(p)
    BY <1>1, ReturnType DEF TypeOK
<1>2. CASE call' = [call EXCEPT ![p].pc = "entry", ![p].page = rest]
    <2> DEFINE d == [call[p] EXCEPT !.pc = "entry", !.page = rest]
    <2>1. d \in ReceiveCalls /\ d.pc = "entry"
        BY CallOfRecipient DEF ReceiveCalls, ReceivePCs
    <2>2. call' = [call EXCEPT ![p] = d]
        BY <1>2 DEF TypeOK, CallsOK
    <2> QED
        BY <2>1, <2>2, OneCall DEF TypeOK
<1> QED
    BY <1>1, <1>2 DEF NextEntry

\* Where a recipient goes on once a message is decided.
LEMMA GoOnSteps ==
    ASSUME NEW p, NEW phase, GoOn(p, phase)
    PROVE  Return(p) \/ \E pc \in {"receipt", "advance", "skip"} : Step(p, pc)
BY DEF GoOn

LEMMA GoOnType ==
    ASSUME TypeOK, NEW p \in Process, call[p].pc \in ReceivePCs, NEW phase, GoOn(p, phase)
    PROVE  CallsOK'
<1>1. Return(p) \/ \E pc \in {"receipt", "advance", "skip"} : Step(p, pc)
    BY GoOnSteps
<1>2. \A pc \in {"receipt", "advance", "skip"} : pc \in ReceivePCs
    BY DEF ReceivePCs
<1>3. CASE Return(p)
    BY <1>3, ReturnType DEF TypeOK
<1>4. CASE \E pc \in {"receipt", "advance", "skip"} : Step(p, pc)
    BY <1>2, <1>4, ReceiveStepType
<1> QED
    BY <1>1, <1>3, <1>4

LEMMA RecipientTypes ==
    ASSUME TypeOK, NEW p \in Process, PageInv(p), RecipientNext(p)
    PROVE  TypeOK'
<1> USE DEF contactVars, nodeVars, endpointVars
<1>1. NodeOK /\ EndpointOK /\ CallsOK
    BY DEF TypeOK
<1>2. ASSUME UNCHANGED <<contactVars, nodeVars>> PROVE NodeOK'
    BY <1>1, <1>2 DEF NodeOK
<1>3. inbox \in [Message -> Phases] /\ cursor \in [Grant -> Nat]
    BY <1>1 DEF EndpointOK
<1>4. ASSUME UNCHANGED <<outbox>>, inbox' \in [Message -> Phases], cursor' \in [Grant -> Nat] PROVE EndpointOK'
    BY <1>1, <1>4 DEF EndpointOK
<1> DEFINE c == call[p]
           m == First(call[p].page).message
<1>5. ASSUME NEW g \in Grant, List(p, g) PROVE TypeOK'
    <2>1. PICK page \in SUBSET StoredFrom(g) :
            call' = [call EXCEPT ![p] = [pc |-> "entry", grant |-> {g}, page |-> page]]
        BY <1>5 DEF List
    <2>2. page \subseteq Entries
        BY <1>1 DEF StoredFrom, NodeOK, Mailboxes
    <2> DEFINE d == [pc |-> "entry", grant |-> {g}, page |-> page]
    <2>3. d \in ReceiveCalls /\ d.pc = "entry"
        BY <2>2 DEF ReceiveCalls, ReceivePCs
    <2>4. CallsOK'
        BY <1>1, <2>1, <2>3, OneCall
    <2> QED
        BY <1>2, <1>3, <1>4, <1>5, <2>4 DEF List, TypeOK
<1>6. ASSUME NEW n \in Message, TakeUp(p, n) PROVE TypeOK'
    <2> DEFINE d == [pc |-> "finish", grant |-> {}, page |-> {[message |-> n]}]
    <2>1. d \in ReceiveCalls /\ d.pc = "finish"
        BY DEF ReceiveCalls, ReceivePCs
    <2>2. CallsOK'
        BY <1>1, <1>6, <2>1, OneCall DEF TakeUp
    <2> QED
        BY <1>2, <1>3, <1>4, <1>6, <2>2 DEF TakeUp, TypeOK
<1>7. ASSUME c.pc \in ReceivePCs PROVE m \in Message
    BY <1>7, FirstIsOfMessage
<1>8. ASSUME NEW n \in Message, NEW f \in {"staged", "saved", "rejected"}
      PROVE  [inbox EXCEPT ![n].phase = f] \in [Message -> Phases]
    BY <1>3 DEF Phases
<1>9. CASE Stage(p)
    <2>1. c.pc \in ReceivePCs /\ Step(p, "finish")
        BY <1>9 DEF Stage, ReceivePCs
    <2>2. inbox' \in [Message -> Phases]
        BY <1>3, <1>7, <1>8, <1>9, <2>1 DEF Stage
    <2>3. CallsOK'
        BY <2>1, ReceiveStepType DEF ReceivePCs
    <2> QED
        BY <1>2, <1>3, <1>4, <1>9, <2>2, <2>3 DEF Stage, TypeOK
<1>10. CASE Finish(p)
    <2>1. c.pc \in ReceivePCs
        BY <1>10 DEF Finish, ReceivePCs
    <2>2. GoOn(p, inbox[m].phase) \/ \E pc \in {"accept", "refuse"} : Step(p, pc)
        BY <1>10 DEF Finish
    <2>3. "accept" \in ReceivePCs /\ "refuse" \in ReceivePCs
        BY DEF ReceivePCs
    <2>4. CallsOK'
        <3>1. CASE GoOn(p, inbox[m].phase)
            BY <2>1, <3>1, GoOnType
        <3>2. CASE \E pc \in {"accept", "refuse"} : Step(p, pc)
            BY <2>1, <2>3, <3>2, ReceiveStepType
        <3> QED
            BY <2>2, <3>1, <3>2
    <2> QED
        BY <1>2, <1>3, <1>4, <1>10, <2>4 DEF Finish, TypeOK
<1>13. CASE Accept(p) \/ Refuse(p)
    <2>1. c.pc \in ReceivePCs /\ \E phase : GoOn(p, phase)
        BY <1>13 DEF Accept, Refuse, ReceivePCs
    <2>2. m \in Message
        BY <1>7, <2>1
    <2>3. \/ inbox' = [inbox EXCEPT ![m].phase = "saved"]
          \/ inbox' = [inbox EXCEPT ![m].phase = IF @ = "staged" THEN "rejected" ELSE @]
        BY <1>13 DEF Accept, Refuse
    <2>4. inbox' \in [Message -> Phases]
        BY <1>3, <2>2, <2>3 DEF Phases
    <2>5. CallsOK'
        BY <2>1, GoOnType
    <2> QED
        BY <1>2, <1>3, <1>4, <1>13, <2>4, <2>5 DEF Accept, Refuse, TypeOK
<1>11. CASE Advance(p)
    <2>1. c.pc \in ReceivePCs /\ (Step(p, "receipt") \/ NextEntry(p))
        BY <1>11 DEF Advance, ReceivePCs
    <2>2. \A g \in c.grant : First(c.page).sequence \in Nat
        BY <2>1, FirstIsOfMessage DEF Entries
    <2>3. cursor' \in [Grant -> Nat]
        BY <1>3, <1>11, <2>2 DEF Advance
    <2>4. CallsOK'
        BY <2>1, ReceiveStepType, NextEntryType DEF ReceivePCs
    <2> QED
        BY <1>2, <1>3, <1>4, <1>11, <2>3, <2>4 DEF Advance, TypeOK
<1>12. CASE SendReceipt(p)
    <2>1. c.pc \in ReceivePCs /\ NextEntry(p)
        BY <1>12 DEF SendReceipt, ReceivePCs
    <2>2. m \in Message
        BY <1>7, <2>1
    <2>3. inbox' \in [Message -> Phases]
        BY <1>3, <1>12, <2>2 DEF SendReceipt, Phases
    <2>4. mailbox' \in Mailboxes
        BY <1>1, <1>12, <2>2 DEF SendReceipt, NodeOK, Mailboxes
    <2>5. NodeOK'
        BY <1>1, <1>12, <2>4 DEF SendReceipt, NodeOK
    <2>6. CallsOK'
        BY <2>1, NextEntryType
    <2> QED
        BY <1>3, <1>4, <1>12, <2>3, <2>5, <2>6 DEF SendReceipt, TypeOK
<1> QED
    BY <1>5, <1>6, <1>9, <1>10, <1>11, <1>12, <1>13 DEF RecipientNext

\* Handles and intents that expire, calls that stop.
LEMMA FailureTypes ==
    ASSUME TypeOK,
           \/ \E p \in Process : Stop(p)
           \/ \E m \in Message : HandleExpires(m) \/ IntentExpires(m)
    PROVE  TypeOK'
<1> USE DEF contactVars, nodeVars, endpointVars
<1>1. NodeOK /\ EndpointOK /\ CallsOK
    BY DEF TypeOK
<1>2. EndpointOK'
    BY <1>1 DEF Stop, HandleExpires, IntentExpires, EndpointOK
<1>3. ASSUME NEW p \in Process, Stop(p) PROVE TypeOK'
    <2>1. NodeOK'
        BY <1>1, <1>3 DEF Stop, NodeOK
    <2> QED
        BY <1>1, <1>2, <1>3, <2>1, ReturnType DEF Stop, TypeOK
<1>4. ASSUME NEW m \in Message, HandleExpires(m) \/ IntentExpires(m) PROVE TypeOK'
    <2>1. commits' \subseteq Commits /\ CallsOK'
        <3>1. CASE Interrupt(m)
            BY <1>1, <3>1, InterruptType
        <3>2. CASE UNCHANGED <<commits, call>>
            BY <1>1, <3>2 DEF NodeOK, CallsOK
        <3> QED
            BY <1>4, <3>1, <3>2 DEF HandleExpires, IntentExpires
    <2>2. handle' \in [Message -> SUBSET Handles]
        BY <1>1, <1>4 DEF HandleExpires, IntentExpires, NodeOK
    <2>3. NodeOK'
        BY <1>1, <1>4, <2>1, <2>2 DEF HandleExpires, IntentExpires, NodeOK
    <2> QED
        BY <1>2, <2>1, <2>3 DEF TypeOK
<1> QED
    BY <1>3, <1>4

LEMMA TypeNext == TypeOK /\ (\A p \in Process : PageInv(p)) /\ [OpenNext]_openVars => TypeOK'
<1> SUFFICES ASSUME TypeOK, \A p \in Process : PageInv(p), [OpenNext]_openVars PROVE TypeOK'
    OBVIOUS
<1>1. CASE ContactNext
    BY <1>1, ContactTypes
<1>2. ASSUME NEW p \in Sending, SenderNext(p) PROVE TypeOK'
    BY <1>2, NodeTypes, SenderTypes DEF SenderNext, Process
<1>3. ASSUME NEW p \in Receiving, RecipientNext(p) PROVE TypeOK'
    BY <1>3, RecipientTypes DEF Process
<1>4. ASSUME NEW j \in commits, Publish(j) \/ SignAgain(j) \/ RefuseCommit(j) PROVE TypeOK'
    BY <1>4, CommitTypes
<1>5. CASE (\E p \in Process : Stop(p)) \/ \E m \in Message : HandleExpires(m) \/ IntentExpires(m)
    BY <1>5, FailureTypes
<1>6. CASE UNCHANGED openVars
    BY <1>6 DEF openVars, contactVars, nodeVars, endpointVars, TypeOK, NodeOK, EndpointOK, CallsOK
<1> QED
    BY <1>1, <1>2, <1>3, <1>4, <1>5, <1>6 DEF OpenNext

----------------------------------------------------------------------------
(* Mailboxes never hold more than they have room for. *)

\* Only _freeze_dispatch freezes, for one mailbox, and it counts.
LEMMA FrozenStep ==
    ASSUME TypeOK, [OpenNext]_openVars
    PROVE  \/ UNCHANGED contact /\ \A g \in Grant : FrozenFor(g)' = FrozenFor(g)
           \/ /\ UNCHANGED contact
              /\ \E m \in Message : \E g \in Grant :
                    /\ Cardinality(FrozenFor(g)) < contact[g].items
                    /\ m \notin FrozenFor(g)
                    /\ FrozenFor(g)' = FrozenFor(g) \cup {m}
                    /\ \A h \in Grant \ {g} : FrozenFor(h)' = FrozenFor(h)
           \/ ContactNext /\ \A g \in Grant : FrozenFor(g)' = FrozenFor(g)
<1> USE DEF contactVars, nodeVars, endpointVars
<1>0. outbox \in [Message -> Rows] /\ approval \subseteq Grant
    BY DEF TypeOK, NodeOK, EndpointOK
<1>1. ASSUME UNCHANGED contact, \A m \in Message : outbox'[m].grant = outbox[m].grant
      PROVE  UNCHANGED contact /\ \A g \in Grant : FrozenFor(g)' = FrozenFor(g)
    BY <1>1 DEF FrozenFor
<1>2. ASSUME UNCHANGED <<contact, outbox>>
      PROVE  UNCHANGED contact /\ \A g \in Grant : FrozenFor(g)' = FrozenFor(g)
    BY <1>1, <1>2
<1>3. CASE ContactNext
    <2>1. UNCHANGED outbox
        BY <1>3 DEF ContactNext, PutPolicy, RevokePolicy, Submit, Allocate, Decide, Fetch, RevokeLease,
                    GrantExpires
    <2> QED
        BY <1>3, <2>1 DEF FrozenFor
<1>4. ASSUME NEW p \in Sending, NEW m \in Message, Send(p, m) PROVE UNCHANGED <<contact, outbox>>
    BY <1>4 DEF Send
<1>5. ASSUME NEW p \in Sending, Recover(p) \/ StartUpload(p) \/ UploadChunk(p) \/ BeginCommit(p)
      PROVE  UNCHANGED <<contact, outbox>>
    BY <1>5 DEF Recover, StartUpload, UploadChunk, BeginCommit
<1>6. ASSUME NEW p \in Sending, UploadIntent(p) \/ SaveResult(p) \/ Confirm(p)
      PROVE  UNCHANGED contact /\ \A m \in Message : outbox'[m].grant = outbox[m].grant
    <2> DEFINE m == call[p].message
    <2>1. \/ UNCHANGED outbox
          \/ outbox' = [outbox EXCEPT ![m].intent = @ + 1]
          \/ outbox' = [outbox EXCEPT ![m].result = {call[p].intent}]
          \/ outbox' = [outbox EXCEPT ![m].acked = @ \/ m \in mailbox.receipts]
        BY <1>6, Zenon DEF UploadIntent, SaveResult, Confirm
    <2>2. UNCHANGED contact
        BY <1>6 DEF UploadIntent, SaveResult, Confirm
    <2>3. ASSUME NEW n \in Message PROVE outbox'[n].grant = outbox[n].grant
        BY <1>0, <2>1 DEF Rows
    <2> QED
        BY <2>2, <2>3
<1>7. ASSUME NEW p \in Sending, Freeze(p)
      PROVE  /\ UNCHANGED contact
             /\ \/ UNCHANGED outbox
                \/ \E m \in Message : \E g \in Grant :
                    /\ Cardinality(FrozenFor(g)) < contact[g].items
                    /\ m \notin FrozenFor(g)
                    /\ FrozenFor(g)' = FrozenFor(g) \cup {m}
                    /\ \A h \in Grant \ {g} : FrozenFor(h)' = FrozenFor(h)
    <2> DEFINE m == call[p].message
    <2>1. UNCHANGED contact
        BY <1>7 DEF Freeze
    <2>2. CASE UNCHANGED outbox
        BY <2>1, <2>2
    <2>3. CASE ~UNCHANGED outbox
        <3>1. PICK g \in approval :
                /\ Cardinality(FrozenFor(g)) < contact[g].items
                /\ outbox[m].grant = {} /\ outbox' = [outbox EXCEPT ![m].grant = {g}]
            BY <1>7, <2>3 DEF Freeze
        <3>2. m \in Message
            <4>1. call[p].pc \in SendPCs /\ p \in Process
                BY <1>7 DEF Freeze, SendPCs, Process
            <4> QED
                BY <4>1, CallOfSender DEF SendCalls
        <3>3. outbox'[m].grant = {g} /\ \A n \in Message \ {m} : outbox'[n] = outbox[n]
            BY <1>0, <3>1, <3>2 DEF Rows
        <3>4. m \notin FrozenFor(g) /\ FrozenFor(g)' = FrozenFor(g) \cup {m}
            BY <3>1, <3>2, <3>3 DEF FrozenFor
        <3>5. ASSUME NEW h \in Grant \ {g} PROVE FrozenFor(h)' = FrozenFor(h)
            BY <3>1, <3>2, <3>3 DEF FrozenFor
        <3> QED
            BY <1>0, <2>1, <3>1, <3>2, <3>4, <3>5
    <2> QED
        BY <2>2, <2>3
<1>8. ASSUME NEW p \in Receiving, RecipientNext(p) PROVE UNCHANGED <<contact, outbox>>
    BY <1>8 DEF RecipientNext, List, TakeUp, Stage, Finish, Accept, Refuse, Advance, SendReceipt
<1>9. ASSUME NEW j \in commits, Publish(j) \/ SignAgain(j) \/ RefuseCommit(j) PROVE UNCHANGED <<contact, outbox>>
    BY <1>9 DEF Publish, SignAgain, RefuseCommit
<1>10. CASE (\E p \in Process : Stop(p)) \/ \E m \in Message : HandleExpires(m) \/ IntentExpires(m)
    <2>1. UNCHANGED <<contact, outbox>>
        BY <1>10 DEF Stop, HandleExpires, IntentExpires
    <2> QED
        BY <1>2, <2>1
<1>11. CASE UNCHANGED openVars
    BY <1>2, <1>11 DEF openVars
<1>12. ASSUME NEW p \in Sending, SenderNext(p)
       PROVE  \/ UNCHANGED contact /\ \A g \in Grant : FrozenFor(g)' = FrozenFor(g)
              \/ Freeze(p)
    BY <1>1, <1>2, <1>4, <1>5, <1>6, <1>12 DEF SenderNext
<1> QED
    BY <1>2, <1>3, <1>7, <1>8, <1>9, <1>10, <1>11, <1>12 DEF OpenNext

LEMMA FrozenNext == TypeOK /\ FrozenInv /\ [OpenNext]_openVars => FrozenInv'
<1> SUFFICES ASSUME TypeOK, FrozenInv, [OpenNext]_openVars PROVE FrozenInv'
    OBVIOUS
<1>0. contact \in [Grant -> Contacts] /\ \A g \in Grant : contact[g].items \in Nat
    BY DEF TypeOK, NodeOK, Contacts
<1>1. CASE UNCHANGED contact /\ \A g \in Grant : FrozenFor(g)' = FrozenFor(g)
    BY <1>1 DEF FrozenInv, FrozenFits
<1>2. ASSUME UNCHANGED contact, NEW m \in Message, NEW g \in Grant,
             Cardinality(FrozenFor(g)) < contact[g].items, m \notin FrozenFor(g),
             FrozenFor(g)' = FrozenFor(g) \cup {m},
             \A h \in Grant \ {g} : FrozenFor(h)' = FrozenFor(h)
      PROVE  FrozenInv'
    <2>1. /\ IsFiniteSet(FrozenFor(g) \cup {m})
          /\ Cardinality(FrozenFor(g) \cup {m}) = Cardinality(FrozenFor(g)) + 1
        BY <1>2, FS_AddElement DEF FrozenInv
    <2>2. Cardinality(FrozenFor(g)) \in Nat
        BY FS_CardinalityType DEF FrozenInv
    <2>3. IsFiniteSet(FrozenFor(g)') /\ Cardinality(FrozenFor(g)') <= contact[g].items
        BY <1>0, <1>2, <2>1, <2>2
    <2>4. \A h \in Grant : IsFiniteSet(FrozenFor(h)') /\ Cardinality(FrozenFor(h)') <= contact'[h].items
        BY <1>2, <2>3 DEF FrozenInv, FrozenFits
    <2> QED
        BY <1>2, <2>4 DEF FrozenInv, FrozenFits
<1>3. CASE ContactNext /\ \A g \in Grant : FrozenFor(g)' = FrozenFor(g)
    <2> DEFINE Room(c) == c.state \in {"none", "pending"} /\ c.lease = "none" => c.items = 0
    <2>1. ASSUME NEW g \in Grant
          PROVE  contact'[g].items >= contact[g].items /\ Room(contact'[g])
        <3>1. contact[g] \in Contacts /\ Room(contact[g])
            BY <1>0 DEF FrozenInv
        <3>2. ASSUME contact'[g] = contact[g]
              PROVE  contact'[g].items >= contact[g].items /\ Room(contact'[g])
            BY <1>0, <3>1, <3>2
        <3>3. CASE UNCHANGED contact
            BY <3>2, <3>3
        <3>4. ASSUME NEW h \in Grant, Allocate(h)
              PROVE  contact'[g].items >= contact[g].items /\ Room(contact'[g])
            <4>1. PICK n \in 1 .. MaxItems :
                    contact' = [contact EXCEPT ![h].lease = "free", ![h].items = n]
                BY <3>4 DEF Allocate
            <4>2. contact[h].state = "pending" /\ contact[h].lease = "none"
                BY <3>4 DEF Allocate
            <4>3. CASE g = h
                BY <1>0, <3>1, <4>1, <4>2, <4>3, DeliveryAssumption DEF Contacts
            <4>4. CASE g # h
                BY <1>0, <3>2, <4>1, <4>4
            <4> QED
                BY <4>3, <4>4
        <3>5. ASSUME NEW h \in Grant, Submit(h) \/ Decide(h) \/ RevokeLease(h) \/ GrantExpires(h)
              PROVE  contact'[g].items >= contact[g].items /\ Room(contact'[g])
            <4>1. CASE g # h
                BY <1>0, <3>2, <3>5, <4>1 DEF Submit, Decide, RevokeLease, GrantExpires
            <4>2. CASE g = h
                BY <1>0, <3>1, <3>5, <4>2 DEF Submit, Decide, RevokeLease, GrantExpires, Contacts
            <4> QED
                BY <4>1, <4>2
        <3> QED
            BY <1>3, <3>3, <3>4, <3>5 DEF ContactNext, PutPolicy, RevokePolicy, Fetch
    <2>2. ASSUME NEW g \in Grant PROVE Cardinality(FrozenFor(g)) <= contact'[g].items
        <3>1. Cardinality(FrozenFor(g)) \in Nat /\ Cardinality(FrozenFor(g)) <= contact[g].items
            BY FS_CardinalityType DEF FrozenInv, FrozenFits
        <3>2. contact'[g].items \in Nat
            BY <1>3, ContactTypes DEF TypeOK, NodeOK, Contacts
        <3> QED
            BY <1>0, <2>1, <3>1, <3>2
    <2> QED
        BY <1>3, <2>1, <2>2 DEF FrozenInv, FrozenFits
<1> QED
    BY <1>1, <1>2, <1>3, FrozenStep

----------------------------------------------------------------------------
(* Neither end loses a message. *)

\* What changes at the recipient when it is not the recipient who acts.
LEMMA OthersLeave ==
    ASSUME TypeOK,
           \/ ContactNext
           \/ \E p \in Sending : SenderNext(p)
           \/ \E p \in Process : Stop(p)
           \/ \E j \in commits : Publish(j) \/ SignAgain(j) \/ RefuseCommit(j)
           \/ \E m \in Message : HandleExpires(m) \/ IntentExpires(m)
           \/ UNCHANGED openVars
    PROVE  /\ UNCHANGED <<inbox, cursor>>
           /\ mailbox'.receipts \subseteq mailbox.receipts
           /\ \A p \in Process : call'[p] = call[p] \/ call'[p].pc \notin ReceivePCs
           /\ \/ /\ mailbox'.messages \subseteq mailbox.messages
                 /\ mailbox'.sequence = mailbox.sequence
              \/ \E e \in Entries : /\ e.sequence = mailbox.sequence + 1
                                    /\ mailbox'.messages = mailbox.messages \cup {e}
                                    /\ mailbox'.sequence = mailbox.sequence + 1
<1> USE DEF contactVars, nodeVars, endpointVars
<1>0. /\ mailbox \in Mailboxes /\ commits \subseteq Commits
      /\ call = [p \in Process |-> call[p]] /\ Idle.pc \notin ReceivePCs
    BY CallKinds DEF TypeOK, NodeOK, CallsOK
<1>1. ASSUME UNCHANGED <<mailbox, inbox, cursor>>,
             \A p \in Process : call'[p] = call[p] \/ call'[p].pc \notin ReceivePCs
      PROVE  /\ UNCHANGED <<inbox, cursor>>
             /\ mailbox'.receipts \subseteq mailbox.receipts
             /\ \A p \in Process : call'[p] = call[p] \/ call'[p].pc \notin ReceivePCs
             /\ mailbox'.messages \subseteq mailbox.messages
             /\ mailbox'.sequence = mailbox.sequence
    BY <1>1
<1>2. ASSUME NEW p \in Process, call[p].pc \in SendPCs, NEW pc \in SendPCs, Step(p, pc)
      PROVE  \A q \in Process : call'[q] = call[q] \/ call'[q].pc \notin ReceivePCs
    <2>1. call[p] \in SendCalls
        BY <1>2, CallOfSender
    <2>2. [call[p] EXCEPT !.pc = pc].pc = pc
        BY <2>1 DEF SendCalls
    <2>3. call' = [call EXCEPT ![p] = [call[p] EXCEPT !.pc = pc]]
        BY <1>0, <1>2 DEF Step
    <2>4. pc \notin ReceivePCs
        BY <1>2 DEF SendPCs, ReceivePCs
    <2> QED
        BY <1>0, <2>2, <2>3, <2>4
<1>3. ASSUME NEW p \in Process, Return(p)
      PROVE  \A q \in Process : call'[q] = call[q] \/ call'[q].pc \notin ReceivePCs
    BY <1>0, <1>3 DEF Return
<1>4. CASE ContactNext
    <2>1. ASSUME NEW g \in Grant, GrantExpires(g)
          PROVE  /\ UNCHANGED <<inbox, cursor>>
                 /\ mailbox'.receipts \subseteq mailbox.receipts
                 /\ \A p \in Process : call'[p] = call[p] \/ call'[p].pc \notin ReceivePCs
                 /\ mailbox'.messages \subseteq mailbox.messages
                 /\ mailbox'.sequence = mailbox.sequence
        <3>1. \A p \in Process : call'[p] = call[p] \/ call'[p] = Idle
            BY <2>1 DEF GrantExpires
        <3> QED
            BY <1>0, <2>1, <3>1 DEF GrantExpires, Mailboxes
    <2>2. ASSUME ~\E g \in Grant : GrantExpires(g)
          PROVE  UNCHANGED <<mailbox, inbox, cursor, call>>
        BY <1>4, <2>2 DEF ContactNext, PutPolicy, RevokePolicy, Submit, Allocate, Decide, Fetch, RevokeLease
    <2> QED
        BY <1>1, <2>1, <2>2
<1>5. ASSUME NEW p \in Sending, SenderNext(p)
      PROVE  /\ UNCHANGED <<mailbox, inbox, cursor>>
             /\ \A q \in Process : call'[q] = call[q] \/ call'[q].pc \notin ReceivePCs
    <2>1. UNCHANGED <<mailbox, inbox, cursor>>
        BY <1>5 DEF SenderNext, Send, Freeze, Recover, UploadIntent, StartUpload, UploadChunk, BeginCommit,
                    SaveResult, Confirm
    <2>2. ASSUME NEW c, call' = [call EXCEPT ![p] = c], c.pc \notin ReceivePCs
          PROVE  \A q \in Process : call'[q] = call[q] \/ call'[q].pc \notin ReceivePCs
        BY <1>0, <2>2
    <2>3. ASSUME NEW m, NEW row, Resume(p, m, row)
          PROVE  \A q \in Process : call'[q] = call[q] \/ call'[q].pc \notin ReceivePCs
        <3> DEFINE c == IF Continued(row) = "idle" THEN Idle
                        ELSE [pc |-> Continued(row), message |-> m, row |-> row, intent |-> 0]
        <3>1. Continued(row) \in {"freeze", "recover", "intent", "confirm", "idle"}
            BY DEF Continued
        <3>2. c.pc \notin ReceivePCs
            BY <1>0, <3>1 DEF ReceivePCs
        <3>3. call' = [call EXCEPT ![p] = c]
            BY <2>3 DEF Resume
        <3> HIDE DEF c
        <3> QED
            BY <2>2, <3>2, <3>3
    <2>4. CASE (\E m \in Message : Send(p, m)) \/ Freeze(p)
        BY <2>3, <2>4 DEF Send, Freeze
    <2>5. ASSUME NEW pc \in {"start", "save"}, NEW n,
                 call[p].pc \in SendPCs, call' = [call EXCEPT ![p].pc = pc, ![p].intent = n]
          PROVE  \A q \in Process : call'[q] = call[q] \/ call'[q].pc \notin ReceivePCs
        <3> DEFINE c == [call[p] EXCEPT !.pc = pc, !.intent = n]
        <3>1. call[p] \in SendCalls
            BY <2>5, CallOfSender DEF Process
        <3>2. c.pc = pc
            BY <3>1 DEF SendCalls
        <3>3. call' = [call EXCEPT ![p] = c]
            BY <1>0, <2>5 DEF Process
        <3>4. c.pc \notin ReceivePCs
            BY <3>2 DEF ReceivePCs
        <3> HIDE DEF c
        <3> QED
            BY <2>2, <3>3, <3>4
    <2>6. "recover" \in SendPCs /\ "intent" \in SendPCs /\ "start" \in SendPCs /\ "upload" \in SendPCs
          /\ "commit" \in SendPCs /\ "save" \in SendPCs /\ "confirm" \in SendPCs
        BY DEF SendPCs
    <2>7. ASSUME Recover(p) PROVE \A q \in Process : call'[q] = call[q] \/ call'[q].pc \notin ReceivePCs
        <3>1. call[p].pc = "recover" /\ p \in Process
            BY <2>7 DEF Recover, Process
        <3>2. \/ Step(p, "intent") \/ Return(p)
              \/ call' = [call EXCEPT ![p].pc = "save", ![p].intent = call[p].row.intent]
            BY <2>7 DEF Recover
        <3> QED
            BY <1>2, <1>3, <2>5, <2>6, <3>1, <3>2
    <2>8. ASSUME UploadIntent(p) PROVE \A q \in Process : call'[q] = call[q] \/ call'[q].pc \notin ReceivePCs
        <3>1. call[p].pc = "intent"
            BY <2>8 DEF UploadIntent
        <3>2. \E n : call' = [call EXCEPT ![p].pc = "start", ![p].intent = n]
            BY <2>8 DEF UploadIntent
        <3> QED
            BY <2>5, <2>6, <3>1, <3>2
    <2>9. ASSUME StartUpload(p) \/ BeginCommit(p) \/ SaveResult(p)
          PROVE  \A q \in Process : call'[q] = call[q] \/ call'[q].pc \notin ReceivePCs
        <3>1. p \in Process /\ call[p].pc \in {"start", "upload", "save"}
            BY <2>9 DEF StartUpload, BeginCommit, SaveResult, Process
        <3>2. \E pc \in {"upload", "save", "commit", "confirm"} : Step(p, pc)
            BY <2>9 DEF StartUpload, BeginCommit, SaveResult
        <3>3. call[p].pc \in SendPCs
            BY <2>6, <3>1
        <3> QED
            BY <1>2, <2>6, <3>1, <3>2, <3>3
    <2>10. ASSUME UploadChunk(p) \/ Confirm(p)
           PROVE  \A q \in Process : call'[q] = call[q] \/ call'[q].pc \notin ReceivePCs
        BY <1>3, <2>10 DEF UploadChunk, Confirm, Process
    <2> QED
        BY <1>5, <2>1, <2>4, <2>7, <2>8, <2>9, <2>10 DEF SenderNext
<1>6. ASSUME NEW p \in Process, Stop(p)
      PROVE  /\ UNCHANGED <<mailbox, inbox, cursor>>
             /\ \A q \in Process : call'[q] = call[q] \/ call'[q].pc \notin ReceivePCs
    BY <1>3, <1>6 DEF Stop
<1>7. ASSUME NEW j \in commits, NEW pc \in {"idle", "save"}, Answer(j, pc)
      PROVE  \A q \in Process : call'[q] = call[q] \/ call'[q].pc \notin ReceivePCs
    <2>1. j.by \in Process
        BY <1>0 DEF Commits
    <2>2. CASE UNCHANGED call
        BY <2>2
    <2>3. CASE Return(j.by)
        BY <1>3, <2>1, <2>3
    <2>4. CASE call[j.by].pc = "commit" /\ Step(j.by, pc) /\ pc = "save"
        BY <1>2, <2>1, <2>4 DEF SendPCs
    <2> QED
        BY <1>7, <2>2, <2>3, <2>4 DEF Answer
<1>8. ASSUME NEW j \in commits, SignAgain(j) \/ RefuseCommit(j)
      PROVE  /\ UNCHANGED <<mailbox, inbox, cursor>>
             /\ \A q \in Process : call'[q] = call[q] \/ call'[q].pc \notin ReceivePCs
    BY <1>7, <1>8 DEF SignAgain, RefuseCommit
<1>9. ASSUME NEW j \in commits, Publish(j)
      PROVE  /\ UNCHANGED <<inbox, cursor>>
             /\ mailbox'.receipts \subseteq mailbox.receipts
             /\ \A p \in Process : call'[p] = call[p] \/ call'[p].pc \notin ReceivePCs
             /\ \E e \in Entries : /\ e.sequence = mailbox.sequence + 1
                                   /\ mailbox'.messages = mailbox.messages \cup {e}
                                   /\ mailbox'.sequence = mailbox.sequence + 1
    <2> DEFINE e == [message |-> j.message, grant |-> j.grant, intent |-> j.intent, sequence |-> j.sequence]
    <2>1. e \in Entries /\ e.sequence = mailbox.sequence + 1
        BY <1>0, <1>9 DEF Publish, Commits, Entries
    <2>2. /\ mailbox'.messages = mailbox.messages \cup {e} /\ mailbox'.sequence = mailbox.sequence + 1
          /\ mailbox'.receipts = mailbox.receipts
        BY <1>0, <1>9 DEF Publish, Mailboxes
    <2>3. UNCHANGED <<inbox, cursor>>
        BY <1>9 DEF Publish
    <2>4. \A p \in Process : call'[p] = call[p] \/ call'[p].pc \notin ReceivePCs
        BY <1>7, <1>9 DEF Publish
    <2> HIDE DEF e
    <2> QED
        BY <2>1, <2>2, <2>3, <2>4
<1>10. ASSUME NEW m \in Message, HandleExpires(m) \/ IntentExpires(m)
       PROVE  /\ UNCHANGED <<mailbox, inbox, cursor>>
              /\ \A q \in Process : call'[q] = call[q] \/ call'[q].pc \notin ReceivePCs
    <2>1. UNCHANGED <<mailbox, inbox, cursor>>
        BY <1>10 DEF HandleExpires, IntentExpires
    <2>2. \A q \in Process : call'[q] = call[q] \/ call'[q] = Idle
        BY <1>10 DEF HandleExpires, IntentExpires, Interrupt
    <2> QED
        BY <1>0, <2>1, <2>2
<1>11. CASE UNCHANGED openVars
    BY <1>1, <1>11 DEF openVars
<1> QED
    BY <1>1, <1>4, <1>5, <1>6, <1>8, <1>9, <1>10, <1>11

LEMMA LaterStep ==
    ASSUME TypeOK,
           \A m \in Message : /\ inbox[m].phase # "none" => inbox'[m].phase # "none"
                              /\ Settled(m) => Settled(m)',
           \/ /\ mailbox'.messages \subseteq mailbox.messages
              /\ mailbox'.sequence = mailbox.sequence
           \/ \E e \in Entries : /\ e.sequence = mailbox.sequence + 1
                                 /\ mailbox'.messages = mailbox.messages \cup {e}
                                 /\ mailbox'.sequence = mailbox.sequence + 1
    PROVE  Later
<1>1. mailbox.sequence \in Nat
    BY DEF TypeOK, NodeOK, Mailboxes
<1> QED
    BY <1>1 DEF Later

\* The mailbox keeps its order, and a cursor that stays put passes nothing new.
LEMMA MailboxKeeps ==
    ASSUME TypeOK, TypeOK', MailboxInv, CursorInv, Later, UNCHANGED cursor,
           IsFiniteSet(mailbox'.messages),
           \A d \in mailbox'.messages : d \in mailbox.messages \/ d.sequence = mailbox'.sequence,
           \A d, e \in mailbox'.messages \ mailbox.messages : d = e
    PROVE  MailboxInv' /\ CursorInv'
<1>1. /\ mailbox.sequence \in Nat /\ mailbox'.sequence \in Nat
      /\ mailbox.messages \subseteq Entries /\ mailbox'.messages \subseteq Entries
      /\ cursor \in [Grant -> Nat]
    BY DEF TypeOK, NodeOK, EndpointOK, Mailboxes
<1>2. \A e \in mailbox'.messages : e.sequence \in Nat /\ e.message \in Message /\ e.grant \in Grant
    BY <1>1 DEF Entries
<1>3. \A e \in mailbox'.messages : e.sequence <= mailbox'.sequence
    BY <1>1, <1>2 DEF MailboxInv, Later
<1>4. ASSUME NEW d \in mailbox'.messages, NEW e \in mailbox'.messages, d.sequence = e.sequence PROVE d = e
    <2>1. CASE d \in mailbox.messages /\ e \in mailbox.messages
        BY <1>4, <2>1 DEF MailboxInv
    <2>2. CASE d \notin mailbox.messages /\ e \notin mailbox.messages
        BY <2>2
    <2>3. \A x \in mailbox.messages, y \in mailbox'.messages \ mailbox.messages : x.sequence # y.sequence
        <3> SUFFICES ASSUME NEW x \in mailbox.messages, NEW y \in mailbox'.messages \ mailbox.messages
                     PROVE  x.sequence # y.sequence
            OBVIOUS
        <3>1. x.sequence <= mailbox.sequence /\ mailbox.sequence < y.sequence
            BY DEF MailboxInv, Later
        <3> QED
            BY <1>1, <1>2, <3>1 DEF Entries
    <2> QED
        BY <1>4, <2>1, <2>2, <2>3
<1>5. ASSUME NEW e \in mailbox'.messages, e.sequence <= cursor'[e.grant]
      PROVE  inbox'[e.message].phase \in {"saved", "rejected"}
    <2>1. cursor[e.grant] \in Nat /\ cursor[e.grant] <= mailbox.sequence
        BY <1>1, <1>2 DEF CursorInv
    <2>2. e \in mailbox.messages
        BY <1>1, <1>2, <1>5, <2>1 DEF Later
    <2> QED
        BY <1>2, <1>5, <2>2 DEF CursorInv, PassedIsSettled, Later, Settled
<1>6. \A g \in Grant : cursor'[g] <= mailbox'.sequence
    BY <1>1 DEF CursorInv, Later
<1> QED
    BY <1>3, <1>4, <1>5, <1>6 DEF MailboxInv, CursorInv, PassedIsSettled

\* What a process of the recipient knows stays true while others act.
LEMMA PageInvStays ==
    ASSUME TypeOK, TypeOK', Later, NEW p \in Process, PageInv(p), call'[p] = call[p]
    PROVE  PageInv(p)'
<1> SUFFICES ASSUME call[p].pc \in ReceivePCs PROVE PageInv(p)'
    BY DEF PageInv
<1>1. First(call[p].page).message \in Message
    BY FirstIsOfMessage
<1>2. ASSUME NEW g \in Grant, PageOf(g, call[p].page) PROVE PageOf(g, call[p].page)'
    BY <1>2, PageStays
<1> QED
    BY <1>1, <1>2 DEF PageInv, Later, Settled

\* What a step of the recipient leaves alone: no stored message comes or goes,
\* nothing staged or decided is taken back, only its own call moves.
LEMMA RecipientLeaves ==
    ASSUME TypeOK, NEW p \in Process, PageInv(p), RecipientNext(p)
    PROVE  /\ UNCHANGED <<mailbox.messages, mailbox.sequence, outbox>>
           /\ Later
           /\ \A m \in Message : inbox[m].phase = "saved" => inbox'[m].phase = "saved"
           /\ \A q \in Process \ {p} : call'[q] = call[q]
<1> USE DEF contactVars, nodeVars, endpointVars
<1>0. /\ mailbox \in Mailboxes /\ inbox \in [Message -> Phases]
      /\ call = [q \in Process |-> call[q]]
    BY DEF TypeOK, NodeOK, EndpointOK, CallsOK
<1> DEFINE m == First(call[p].page).message
<1>1. mailbox'.messages = mailbox.messages /\ mailbox'.sequence = mailbox.sequence /\ UNCHANGED outbox
    BY <1>0 DEF RecipientNext, List, TakeUp, Stage, Finish, Accept, Refuse, Advance, SendReceipt, Mailboxes
<1>2. \A q \in Process \ {p} : call'[q] = call[q]
    BY <1>0 DEF RecipientNext, List, TakeUp, Stage, Finish, Accept, Refuse, Advance, SendReceipt,
                NextEntry, GoOn, Step, Return
<1>3. \/ UNCHANGED inbox
      \/ inbox[m].phase = "none" /\ inbox' = [inbox EXCEPT ![m].phase = "staged"]
      \/ inbox[m].phase # "none" /\ inbox' = [inbox EXCEPT ![m].phase = "saved"]
      \/ inbox' = [inbox EXCEPT ![m].phase = IF @ = "staged" THEN "rejected" ELSE @]
      \/ inbox' = [inbox EXCEPT ![m].sent = TRUE]
    <2>1. CASE Accept(p)
        BY <2>1 DEF Accept, PageInv, ReceivePCs
    <2>2. CASE ~Accept(p)
        BY <2>2 DEF RecipientNext, List, TakeUp, Stage, Finish, Refuse, Advance, SendReceipt
    <2> QED
        BY <2>1, <2>2
<1>4. ASSUME NEW n \in Message
      PROVE  /\ \/ inbox'[n].phase = inbox[n].phase
                \/ inbox[n].phase \in {"none", "staged"}
                \/ inbox[n].phase # "none" /\ inbox'[n].phase = "saved"
             /\ inbox[n].phase # "none" => inbox'[n].phase # "none"
    <2> HIDE DEF m
    <2> QED
        BY <1>0, <1>3 DEF Phases
<1>5. \A n \in Message : Settled(n) => Settled(n)'
    BY <1>4 DEF Settled
<1>6. Later
    BY <1>1, <1>4, <1>5, LaterStep
<1> QED
    BY <1>1, <1>2, <1>4, <1>6

\* A listing that was asked for when the cursor stood at after.
ListFrom(p, g, after) ==
    LET behind == {e \in StoredFrom(g) : e.sequence > after}
        page == {e \in behind : Cardinality({d \in behind : d.sequence < e.sequence}) < PageLimit}
    IN  /\ page # {}
        /\ call' = [call EXCEPT ![p] = [pc |-> "entry", grant |-> {g}, page |-> page]]

\* A new page: the first messages behind the cursor.
LEMMA ListPage ==
    ASSUME TypeOK, TypeOK', ReceiveInv, NEW p \in Process, NEW g \in Grant, List(p, g)
    PROVE  PageInv(p)'
<1>a. PICK after \in 0 .. cursor[g] : ListFrom(p, g, after)
    BY DEF List, ListFrom
<1> DEFINE behind == {e \in StoredFrom(g) : e.sequence > after}
           Before(e) == {d \in behind : d.sequence < e.sequence}
           page == {e \in behind : Cardinality(Before(e)) < PageLimit}
<1>0. /\ mailbox \in Mailboxes /\ mailbox.messages \subseteq Entries
      /\ call = [q \in Process |-> call[q]] /\ cursor[g] \in Nat
      /\ after \in Nat /\ after <= cursor[g]
    BY DEF TypeOK, NodeOK, EndpointOK, CallsOK, Mailboxes
<1>1. page # {} /\ call'[p] = [pc |-> "entry", grant |-> {g}, page |-> page]
    BY <1>0, <1>a DEF ListFrom
<1>2. UNCHANGED <<mailbox, inbox, cursor>>
    BY DEF List, nodeVars, endpointVars
<1>3. behind \subseteq mailbox.messages /\ \A e \in behind : e.grant = g /\ e.sequence \in Nat
    BY <1>0 DEF StoredFrom, Entries
<1>4. IsFiniteSet(behind)
    BY <1>3, FS_Subset DEF ReceiveInv, MailboxInv
<1>5. ASSUME NEW d \in behind, NEW e \in page, d.sequence < e.sequence PROVE d \in page
    <2>1. Before(d) \subseteq Before(e) /\ Before(e) \subseteq behind
        BY <1>3, <1>5
    <2>2. IsFiniteSet(Before(e))
        BY <1>4, <2>1, FS_Subset
    <2>3. Cardinality(Before(d)) <= Cardinality(Before(e))
        BY <2>1, <2>2, FS_Subset
    <2>4. Cardinality(Before(d)) \in Nat /\ Cardinality(Before(e)) \in Nat
        BY <2>1, <2>2, FS_Subset, FS_CardinalityType
    <2>5. Cardinality(Before(e)) < PageLimit
        OBVIOUS
    <2>6. Cardinality(Before(d)) < PageLimit
        BY <2>3, <2>4, <2>5, DeliveryAssumption
    <2> QED
        BY <2>6
<1>6. PageOf(g, page)
    <2>1. page \subseteq Entries /\ \A e \in page : e.grant = g /\ e.sequence <= mailbox.sequence
        BY <1>0, <1>3 DEF ReceiveInv, MailboxInv
    <2>2. \A d \in page \cup mailbox.messages, e \in page : d.sequence = e.sequence => d = e
        BY <1>3 DEF ReceiveInv, MailboxInv
    <2>3. ASSUME NEW d \in StoredFrom(g), NEW e \in page, d.sequence < e.sequence
          PROVE  d \in page \/ Settled(d.message)
        <3>1. CASE d.sequence > after
            BY <1>5, <2>3, <3>1
        <3>2. d.sequence \in Nat
            BY <1>0 DEF StoredFrom, Entries
        <3>3. CASE d.sequence <= after
            BY <1>0, <3>2, <3>3 DEF ReceiveInv, CursorInv, PassedIsSettled, StoredFrom, Settled
        <3> QED
            BY <1>0, <3>1, <3>2, <3>3
    <2> HIDE DEF page
    <2> QED
        BY <2>1, <2>2, <2>3 DEF PageOf
<1> HIDE DEF page
<1>7. PICK pg : pg = page
    OBVIOUS
<1>8. PageOf(g, pg) /\ pg # {} /\ call'[p] = [pc |-> "entry", grant |-> {g}, page |-> pg]
    BY <1>1, <1>6, <1>7
<1>9. PageOf(g, pg)'
    BY <1>2, <1>8 DEF PageOf, StoredFrom, Settled
<1> QED
    BY <1>8, <1>9 DEF PageInv

\* The same page, a step further.
LEMMA SamePage ==
    ASSUME TypeOK, TypeOK', Later, NEW p \in Process, PageInv(p), call[p].pc \in ReceivePCs,
           NEW pc \in ReceivePCs, Step(p, pc),
           pc \in {"finish", "accept", "refuse"} => inbox'[First(call[p].page).message].phase # "none",
           pc \in {"advance", "skip", "receipt"} =>
               inbox'[First(call[p].page).message].phase \in {"saved", "rejected"}
    PROVE  PageInv(p)'
<1>1. call[p] \in ReceiveCalls /\ call \in [Process -> {Idle} \cup SendCalls \cup ReceiveCalls]
    BY CallOfRecipient DEF TypeOK, CallsOK
<1>2. call'[p].pc = pc /\ call'[p].grant = call[p].grant /\ call'[p].page = call[p].page
    BY <1>1 DEF Step, ReceiveCalls
<1>3. ASSUME NEW g \in Grant, PageOf(g, call[p].page) PROVE PageOf(g, call[p].page)'
    <2>1. PICK pg : pg = call[p].page
        OBVIOUS
    <2>2. PageOf(g, pg)'
        BY <1>3, <2>1, PageStays
    <2>3. call'[p].page = pg
        BY <1>2, <2>1
    <2> QED
        BY <2>2, <2>3
<1>4. \/ \E g \in Grant : /\ call'[p].grant = {g} /\ PageOf(g, call[p].page)' /\ call'[p].page # {}
      \/ call'[p].grant = {} /\ \E m \in Message : call'[p].page = {[message |-> m]}
    BY <1>2, <1>3 DEF PageInv
<1>5. /\ call'[p].pc \in {"finish", "accept", "refuse"} => inbox'[First(call'[p].page).message].phase # "none"
      /\ call'[p].pc \in {"advance", "skip", "receipt"} =>
            inbox'[First(call'[p].page).message].phase \in {"saved", "rejected"}
    BY <1>2
<1> QED
    BY <1>4, <1>5 DEF PageInv, Settled

\* The next entry of the page, when its first one has been dealt with.
LEMMA RestPage ==
    ASSUME TypeOK, TypeOK', Later, NEW p \in Process, PageInv(p),
           call[p].pc \in {"skip", "receipt"}, NextEntry(p)
    PROVE  PageInv(p)'
<1> DEFINE rest == call[p].page \ {First(call[p].page)}
<1>0. call[p].pc \in ReceivePCs
    BY DEF ReceivePCs
<1>1. call[p] \in ReceiveCalls /\ call \in [Process -> {Idle} \cup SendCalls \cup ReceiveCalls]
    BY <1>0, CallOfRecipient DEF TypeOK, CallsOK
<1>2. CASE rest = {}
    <2>1. call'[p] = Idle
        BY <1>1, <1>2 DEF NextEntry, Return
    <2> QED
        BY <2>1, CallKinds DEF PageInv
<1>3. CASE rest # {}
    <2>1. /\ call'[p].pc = "entry" /\ call'[p].grant = call[p].grant /\ call'[p].page = rest
        BY <1>1, <1>3 DEF NextEntry, ReceiveCalls
    <2>2. ~\E m \in Message : call[p].page = {[message |-> m]}
        BY <1>3, FirstOfOne
    <2>3. PICK g \in Grant : call[p].grant = {g} /\ PageOf(g, call[p].page) /\ call[p].page # {}
        BY <1>0, <2>2 DEF PageInv
    <2>4. Settled(First(call[p].page).message)
        BY <1>0 DEF PageInv
    <2>5. PICK pg : pg = rest
        OBVIOUS
    <2>6. PageOf(g, pg)
        BY <2>3, <2>4, <2>5, RestOfPage
    <2>7. PageOf(g, pg)'
        BY <2>6, PageStays
    <2>8. call'[p].page = pg /\ pg # {}
        BY <1>3, <2>1, <2>5
    <2> QED
        BY <2>1, <2>3, <2>7, <2>8 DEF PageInv
<1> QED
    BY <1>2, <1>3

\* And when it goes on with what was decided.
LEMMA GoOnPage ==
    ASSUME TypeOK, TypeOK', Later, NEW p \in Process, PageInv(p), call[p].pc \in ReceivePCs,
           NEW phase, GoOn(p, phase), inbox'[First(call[p].page).message].phase \in {"saved", "rejected"}
    PROVE  PageInv(p)'
<1>1. Return(p) \/ \E pc \in {"receipt", "advance", "skip"} : Step(p, pc)
    BY GoOnSteps
<1>2. \A pc \in {"receipt", "advance", "skip"} : pc \in ReceivePCs
    BY DEF ReceivePCs
<1>3. CASE Return(p)
    <2>1. call'[p] = Idle
        BY <1>3 DEF Return, TypeOK, CallsOK
    <2> QED
        BY <2>1, CallKinds DEF PageInv
<1>4. ASSUME NEW pc \in {"receipt", "advance", "skip"}, Step(p, pc) PROVE PageInv(p)'
    BY <1>2, <1>4, SamePage
<1> QED
    BY <1>1, <1>3, <1>4

\* A recipient knows of its page what it has to, wherever it stands.
LEMMA PageNext ==
    ASSUME TypeOK, TypeOK', ReceiveInv, NEW p \in Process, RecipientNext(p)
    PROVE  PageInv(p)'
<1> USE DEF contactVars, nodeVars, endpointVars
<1> DEFINE m == First(call[p].page).message
<1>0. PageInv(p) /\ Later /\ inbox \in [Message -> Phases]
    BY RecipientLeaves DEF ReceiveInv, TypeOK, EndpointOK
<1>1. ASSUME call[p].pc \in ReceivePCs PROVE m \in Message
    BY <1>0, <1>1, FirstIsOfMessage
<1>2. CASE \E g \in Grant : List(p, g)
    BY <1>2, ListPage
<1>3. ASSUME NEW n \in Message, TakeUp(p, n) PROVE PageInv(p)'
    <2>1. /\ call'[p] = [pc |-> "finish", grant |-> {}, page |-> {[message |-> n]}]
          /\ inbox' = inbox /\ inbox[n].phase # "none"
        BY <1>3 DEF TakeUp, TypeOK, CallsOK
    <2>2. First({[message |-> n]}) = [message |-> n]
        BY FirstOfOne
    <2>3. First({[message |-> n]}).message = n
        BY <2>2
    <2> QED
        BY <2>1, <2>3 DEF PageInv
<1>4. CASE Stage(p)
    <2>1. call[p].pc \in ReceivePCs /\ "finish" \in ReceivePCs /\ Step(p, "finish")
        BY <1>4 DEF Stage, ReceivePCs
    <2>2. inbox'[m].phase # "none"
        BY <1>0, <1>1, <1>4, <2>1 DEF Stage, Phases
    <2> QED
        BY <1>0, <2>1, <2>2, SamePage
<1>5. CASE Finish(p)
    <2>1. call[p].pc \in ReceivePCs /\ call[p].pc = "finish" /\ UNCHANGED inbox
        BY <1>5 DEF Finish, ReceivePCs
    <2>2. inbox[m].phase # "none" /\ m \in Message
        BY <1>0, <1>1, <2>1 DEF PageInv
    <2>3. CASE inbox[m].phase = "staged"
        <3>1. PICK pc \in {"accept", "refuse"} : Step(p, pc)
            BY <1>5, <2>3 DEF Finish
        <3>2. pc \in ReceivePCs /\ inbox'[m].phase # "none"
            BY <2>1, <2>2 DEF ReceivePCs
        <3> QED
            BY <1>0, <2>1, <3>1, <3>2, SamePage
    <2>4. CASE inbox[m].phase # "staged"
        <3>1. GoOn(p, inbox[m].phase)
            BY <1>5, <2>4 DEF Finish
        <3>2. inbox'[m].phase \in {"saved", "rejected"}
            BY <1>0, <2>1, <2>2, <2>4 DEF Phases
        <3> QED
            BY <1>0, <2>1, <3>1, <3>2, GoOnPage
    <2> QED
        BY <2>3, <2>4
<1>8. CASE Accept(p) \/ Refuse(p)
    <2>1. /\ call[p].pc \in ReceivePCs /\ call[p].pc \in {"accept", "refuse"}
          /\ \E phase : GoOn(p, phase)
        BY <1>8 DEF Accept, Refuse, ReceivePCs
    <2>2. inbox[m].phase # "none" /\ m \in Message
        BY <1>0, <1>1, <2>1 DEF PageInv
    <2>3. \/ inbox' = [inbox EXCEPT ![m].phase = "saved"]
          \/ inbox' = [inbox EXCEPT ![m].phase = IF @ = "staged" THEN "rejected" ELSE @]
        BY <1>8 DEF Accept, Refuse
    <2>4. inbox'[m].phase \in {"saved", "rejected"}
        BY <1>0, <2>2, <2>3 DEF Phases
    <2> QED
        BY <1>0, <2>1, <2>4, GoOnPage
<1>6. CASE Advance(p)
    <2>1. /\ call[p].pc \in ReceivePCs /\ "receipt" \in ReceivePCs /\ UNCHANGED inbox
          /\ \/ Step(p, "receipt")
             \/ call[p].pc = "skip" /\ NextEntry(p)
        BY <1>6 DEF Advance, ReceivePCs
    <2>2. inbox'[m].phase \in {"saved", "rejected"}
        BY <1>0, <1>6, <2>1 DEF Advance, PageInv, Settled
    <2> QED
        BY <1>0, <2>1, <2>2, SamePage, RestPage
<1>7. CASE SendReceipt(p)
    BY <1>0, <1>7, RestPage DEF SendReceipt
<1> QED
    BY <1>2, <1>3, <1>4, <1>5, <1>6, <1>7, <1>8 DEF RecipientNext

\* The cursor moves to an entry that has been dealt with, and what is stored
\* before it has been, too.
LEMMA AdvanceKeeps ==
    ASSUME TypeOK, ReceiveInv, NEW p \in Process, Advance(p)
    PROVE  CursorInv'
<1> USE DEF contactVars, nodeVars, endpointVars
<1> DEFINE e == First(call[p].page)
<1>1. /\ call[p].pc \in ReceivePCs /\ PageInv(p) /\ UNCHANGED <<mailbox, inbox>>
      /\ cursor' = [g \in Grant |-> IF g \in call[p].grant /\ cursor[g] < e.sequence THEN e.sequence ELSE cursor[g]]
    BY DEF Advance, ReceivePCs, ReceiveInv
<1>2. Settled(e.message)
    BY <1>1 DEF Advance, PageInv
<1>3. /\ cursor \in [Grant -> Nat] /\ mailbox.sequence \in Nat
      /\ \A d \in mailbox.messages : d \in Entries /\ d.sequence \in Nat /\ d.grant \in Grant
    BY DEF TypeOK, EndpointOK, NodeOK, Mailboxes, Entries
<1>4. ASSUME NEW g \in call[p].grant
      PROVE  /\ g \in Grant /\ e.sequence \in Nat /\ e.sequence <= mailbox.sequence
             /\ \A d \in StoredFrom(g) : d.sequence <= e.sequence => Settled(d.message)
    <2>1. g \in Grant /\ PageOf(g, call[p].page) /\ e \in call[p].page /\ e \in Entries
        BY <1>1, FirstIsOfMessage
    <2>2. e.sequence \in Nat /\ e.sequence <= mailbox.sequence
        BY <2>1 DEF PageOf, Entries
    <2>3. ASSUME NEW d \in StoredFrom(g), d.sequence <= e.sequence PROVE Settled(d.message)
        <3>1. d \in mailbox.messages /\ d.sequence \in Nat
            BY <1>3 DEF StoredFrom
        <3>2. CASE d.sequence = e.sequence
            <4>1. d = e
                BY <2>1, <3>1, <3>2 DEF PageOf
            <4> QED
                BY <1>2, <4>1
        <3>3. CASE d.sequence < e.sequence
            <4>1. d \notin call[p].page
                BY <2>1, <2>2, <3>1, <3>3, FirstOfPage
            <4> QED
                BY <2>1, <3>3, <4>1 DEF PageOf
        <3> QED
            BY <2>2, <2>3, <3>1, <3>2, <3>3
    <2> QED
        BY <2>1, <2>2, <2>3
<1>5. \A g \in Grant : cursor'[g] <= mailbox'.sequence
    BY <1>1, <1>4 DEF ReceiveInv, CursorInv
<1>6. ASSUME NEW d \in mailbox.messages, d.sequence <= cursor'[d.grant] PROVE Settled(d.message)
    <2>1. CASE d.sequence <= cursor[d.grant]
        BY <2>1 DEF ReceiveInv, CursorInv, PassedIsSettled, Settled
    <2>2. CASE ~(d.sequence <= cursor[d.grant])
        <3>1. d.grant \in call[p].grant /\ cursor'[d.grant] = e.sequence
            BY <1>1, <1>3, <1>6, <2>2
        <3>2. d \in StoredFrom(d.grant)
            BY DEF StoredFrom
        <3> QED
            BY <1>4, <1>6, <3>1, <3>2
    <2> QED
        BY <2>1, <2>2
<1> QED
    BY <1>1, <1>5, <1>6 DEF CursorInv, PassedIsSettled, Settled

\* The sender counts as saved what the node holds a receipt of, and the
\* recipient sends one for what it has saved.
LEMMA AcknowledgedStep ==
    ASSUME TypeOK, [OpenNext]_openVars
    PROVE  \A m \in Message : outbox'[m].acked => outbox[m].acked \/ m \in mailbox.receipts
<1> USE DEF contactVars, nodeVars, endpointVars
<1>0. outbox \in [Message -> Rows]
    BY DEF TypeOK, EndpointOK
<1>1. ASSUME UNCHANGED outbox
      PROVE  \A m \in Message : outbox'[m].acked => outbox[m].acked \/ m \in mailbox.receipts
    BY <1>1
<1>2. CASE ContactNext
    BY <1>1, <1>2 DEF ContactNext, PutPolicy, RevokePolicy, Submit, Allocate, Decide, Fetch, RevokeLease, GrantExpires
<1>3. ASSUME NEW p \in Sending, SenderNext(p)
      PROVE  \A m \in Message : outbox'[m].acked => outbox[m].acked \/ m \in mailbox.receipts
    <2>1. CASE \/ UNCHANGED outbox
               \/ \E n : outbox' = [outbox EXCEPT ![call[p].message].intent = n]
               \/ \E g : outbox' = [outbox EXCEPT ![call[p].message].grant = g]
               \/ \E r : outbox' = [outbox EXCEPT ![call[p].message].result = r]
        BY <1>0, <2>1 DEF Rows
    <2>2. CASE Confirm(p)
        BY <1>0, <2>2 DEF Confirm, Rows
    <2>3. CASE ~Confirm(p)
        <3>1. CASE Freeze(p)
            BY <2>1, <3>1 DEF Freeze
        <3>2. CASE UploadIntent(p)
            <4>1. UNCHANGED outbox \/ outbox' = [outbox EXCEPT ![call[p].message].intent = @ + 1]
                BY <3>2 DEF UploadIntent
            <4> QED
                BY <1>0, <4>1 DEF Rows
        <3>3. CASE SaveResult(p)
            BY <2>1, <3>3 DEF SaveResult
        <3>4. CASE ~Freeze(p) /\ ~UploadIntent(p) /\ ~SaveResult(p)
            BY <1>1, <1>3, <2>3, <3>4 DEF SenderNext, Send, Recover, StartUpload, UploadChunk, BeginCommit
        <3> QED
            BY <3>1, <3>2, <3>3, <3>4
    <2> QED
        BY <2>2, <2>3
<1>4. ASSUME NEW p \in Receiving, RecipientNext(p) PROVE UNCHANGED outbox
    BY <1>4 DEF RecipientNext, List, TakeUp, Stage, Finish, Accept, Refuse, Advance, SendReceipt
<1>5. ASSUME NEW p \in Process, Stop(p) PROVE UNCHANGED outbox
    BY <1>5 DEF Stop
<1>6. ASSUME NEW j \in commits, Publish(j) \/ SignAgain(j) \/ RefuseCommit(j) PROVE UNCHANGED outbox
    BY <1>6 DEF Publish, SignAgain, RefuseCommit
<1>7. ASSUME NEW m \in Message, HandleExpires(m) \/ IntentExpires(m) PROVE UNCHANGED outbox
    BY <1>7 DEF HandleExpires, IntentExpires
<1>8. CASE UNCHANGED openVars
    BY <1>1, <1>8 DEF openVars
<1> QED
    BY <1>1, <1>2, <1>3, <1>4, <1>5, <1>6, <1>7, <1>8 DEF OpenNext

LEMMA ReceiptStep ==
    ASSUME TypeOK, NEW p \in Process, PageInv(p), RecipientNext(p)
    PROVE  \A m \in mailbox'.receipts : m \in mailbox.receipts \/ inbox[m].phase = "saved"
<1> DEFINE n == First(call[p].page).message
<1>1. mailbox \in Mailboxes
    BY DEF TypeOK, NodeOK
<1>2. CASE SendReceipt(p)
    <2>1. \/ UNCHANGED mailbox
          \/ inbox[n].phase = "saved" /\ mailbox' = [mailbox EXCEPT !.receipts = @ \cup {n}]
        BY <1>2 DEF SendReceipt
    <2> HIDE DEF n
    <2> QED
        BY <1>1, <2>1 DEF Mailboxes
<1>3. CASE ~SendReceipt(p)
    BY <1>3 DEF RecipientNext, List, TakeUp, Stage, Finish, Accept, Refuse, Advance, nodeVars
<1> QED
    BY <1>2, <1>3

LEMMA ReceiveNext == TypeOK /\ TypeOK' /\ ReceiveInv /\ [OpenNext]_openVars => ReceiveInv'
<1> SUFFICES ASSUME TypeOK, TypeOK', ReceiveInv, [OpenNext]_openVars PROVE ReceiveInv'
    OBVIOUS
<1>0. /\ mailbox \in Mailboxes /\ mailbox' \in Mailboxes /\ IsFiniteSet(mailbox.messages)
      /\ MailboxInv /\ CursorInv /\ AckedIsSaved /\ \A p \in Process : PageInv(p)
    BY DEF TypeOK, NodeOK, ReceiveInv, MailboxInv
<1>1. \A m \in Message : outbox'[m].acked => outbox[m].acked \/ m \in mailbox.receipts
    BY AcknowledgedStep
<1>2. ASSUME NEW p \in Receiving, RecipientNext(p) PROVE ReceiveInv'
    <2>1. /\ UNCHANGED <<mailbox.messages, mailbox.sequence>> /\ Later
          /\ \A m \in Message : inbox[m].phase = "saved" => inbox'[m].phase = "saved"
          /\ \A q \in Process \ {p} : call'[q] = call[q]
        BY <1>0, <1>2, RecipientLeaves DEF Process
    <2>2. AckedIsSaved'
        BY <1>0, <1>1, <1>2, <2>1, ReceiptStep DEF AckedIsSaved, Process, Mailboxes
    <2>3. MailboxInv' /\ CursorInv'
        <3>1. CASE Advance(p)
            <4>1. UNCHANGED mailbox
                BY <3>1 DEF Advance, nodeVars
            <4>2. MailboxInv'
                BY <1>0, <4>1 DEF MailboxInv
            <4> QED
                BY <3>1, <4>2, AdvanceKeeps DEF Process
        <3>2. CASE ~Advance(p)
            <4>1. UNCHANGED cursor
                BY <1>2, <3>2 DEF RecipientNext, List, TakeUp, Stage, Finish, Accept, Refuse, SendReceipt, endpointVars
            <4> QED
                BY <1>0, <2>1, <4>1, MailboxKeeps
        <3> QED
            BY <3>1, <3>2
    <2>4. ASSUME NEW q \in Process PROVE PageInv(q)'
        <3>1. CASE q = p
            BY <1>2, <3>1, PageNext
        <3>2. CASE q # p
            BY <1>0, <2>1, <3>2, PageInvStays
        <3> QED
            BY <3>1, <3>2
    <2> QED
        BY <2>2, <2>3, <2>4 DEF ReceiveInv
<1>3. CASE ~\E p \in Receiving : RecipientNext(p)
    <2>1. \/ ContactNext
          \/ \E p \in Sending : SenderNext(p)
          \/ \E p \in Process : Stop(p)
          \/ \E j \in commits : Publish(j) \/ SignAgain(j) \/ RefuseCommit(j)
          \/ \E m \in Message : HandleExpires(m) \/ IntentExpires(m)
          \/ UNCHANGED openVars
        BY <1>3 DEF OpenNext
    <2>2. /\ UNCHANGED <<inbox, cursor>>
          /\ mailbox'.receipts \subseteq mailbox.receipts
          /\ \A p \in Process : call'[p] = call[p] \/ call'[p].pc \notin ReceivePCs
          /\ \/ /\ mailbox'.messages \subseteq mailbox.messages
                /\ mailbox'.sequence = mailbox.sequence
             \/ \E e \in Entries : /\ e.sequence = mailbox.sequence + 1
                                   /\ mailbox'.messages = mailbox.messages \cup {e}
                                   /\ mailbox'.sequence = mailbox.sequence + 1
        BY <2>1, OthersLeave
    <2>3. \A m \in Message : /\ inbox[m].phase # "none" => inbox'[m].phase # "none"
                             /\ Settled(m) => Settled(m)'
        BY <2>2 DEF Settled
    <2>4. Later
        BY <2>2, <2>3, LaterStep
    <2>5. /\ IsFiniteSet(mailbox'.messages)
          /\ \A d \in mailbox'.messages : d \in mailbox.messages \/ d.sequence = mailbox'.sequence
          /\ \A d, e \in mailbox'.messages \ mailbox.messages : d = e
        BY <1>0, <2>2, FS_Subset, FS_AddElement
    <2>6. MailboxInv' /\ CursorInv'
        BY <1>0, <2>2, <2>4, <2>5, MailboxKeeps
    <2>7. ASSUME NEW p \in Process PROVE PageInv(p)'
        <3>1. CASE call'[p] = call[p]
            BY <1>0, <2>4, <3>1, PageInvStays
        <3>2. CASE call'[p].pc \notin ReceivePCs
            BY <3>2 DEF PageInv
        <3> QED
            BY <2>2, <3>1, <3>2
    <2>8. AckedIsSaved'
        BY <1>0, <1>1, <2>2 DEF AckedIsSaved
    <2> QED
        BY <2>6, <2>7, <2>8 DEF ReceiveInv
<1> QED
    BY <1>2, <1>3

----------------------------------------------------------------------------
(* The theorems. *)

LEMMA OpenInvInit == OpenInit => OpenInv
<1> SUFFICES ASSUME OpenInit PROVE OpenInv
    OBVIOUS
<1>1. TypeOK
    BY TypeInit
<1>2. MailboxInv /\ CursorInv /\ AckedIsSaved
    BY FS_EmptySet DEF OpenInit, MailboxInv, CursorInv, PassedIsSettled, AckedIsSaved
<1>3. \A p \in Process : PageInv(p)
    BY CallKinds DEF OpenInit, PageInv
<1>4. \A g \in Grant : contact[g].items = 0 /\ FrozenFor(g) = {}
    BY DEF OpenInit, FrozenFor
<1>5. FrozenInv
    BY <1>4, FS_EmptySet DEF FrozenInv, FrozenFits
<1> QED
    BY <1>1, <1>2, <1>3, <1>5 DEF OpenInv, ReceiveInv

LEMMA OpenInvariant == OpenSpec => []OpenInv
<1>1. OpenInv /\ [OpenNext]_openVars => OpenInv'
    <2> SUFFICES ASSUME OpenInv, [OpenNext]_openVars PROVE OpenInv'
        OBVIOUS
    <2>1. TypeOK'
        BY TypeNext DEF OpenInv, ReceiveInv
    <2>2. ReceiveInv'
        BY <2>1, ReceiveNext DEF OpenInv
    <2>3. FrozenInv'
        BY FrozenNext DEF OpenInv
    <2> QED
        BY <2>1, <2>2, <2>3 DEF OpenInv
<1> QED
    BY <1>1, OpenInvInit, PTL DEF OpenSpec

\* Whoever lists, reads and moves the cursor of one mailbox at the same time,
\* whatever is revoked or expires and wherever a call stops: the cursor passes
\* nothing that was not dealt with, and no message counts as saved that is not
\* (OpenDeliveryClient.receive, _finish_inbox and _send_receipt).
THEOREM OpenNothingIsLost == OpenSpec => []NothingIsLost
<1>1. OpenInv => NothingIsLost
    BY DEF OpenInv, ReceiveInv, CursorInv, NothingIsLost
<1> QED
    BY <1>1, OpenInvariant, PTL

\* Processes that dispatch at once never freeze more for a mailbox than its
\* lease has room for (OpenDeliveryClient._freeze_dispatch).
THEOREM FrozenAlwaysFits == OpenSpec => []FrozenFits
<1>1. OpenInv => FrozenFits
    BY DEF OpenInv, FrozenInv
<1> QED
    BY <1>1, OpenInvariant, PTL

\* Whatever happens to the policy and to the lease during an upload, nothing is
\* stored that the recipient does not permit at that moment: the transaction
\* that publishes asks again (DeliveryState._commit).
THEOREM NothingStoredAfterRevocation == OpenSpec => NothingAfterRevocation
<1>1. ASSUME OpenInv, [OpenNext]_openVars
      PROVE  \A e \in mailbox'.messages \ mailbox.messages : Authorized(e.grant)
    <2> USE DEF contactVars, nodeVars, endpointVars
    <2>0. mailbox \in Mailboxes /\ TypeOK /\ \A p \in Process : PageInv(p)
        BY <1>1 DEF OpenInv, TypeOK, NodeOK, ReceiveInv
    <2>1. CASE \E j \in commits : Publish(j)
        <3>1. PICK j \in commits : Publish(j)
            BY <2>1
        <3>2. mailbox'.messages \ mailbox.messages \subseteq
                  {[message |-> j.message, grant |-> j.grant, intent |-> j.intent, sequence |-> j.sequence]}
            BY <2>0, <3>1 DEF Publish, Mailboxes
        <3>3. Authorized(j.grant)
            BY <3>1 DEF Publish, MayPublish, Acceptable
        <3> QED
            BY <3>2, <3>3
    <2>2. CASE ~\E j \in commits : Publish(j)
        <3>1. ASSUME NEW p \in Receiving, RecipientNext(p) PROVE mailbox'.messages \subseteq mailbox.messages
            <4>1. p \in Process /\ PageInv(p)
                BY <2>0 DEF Process
            <4>2. UNCHANGED <<mailbox.messages, mailbox.sequence, outbox>>
                BY <2>0, <3>1, <4>1, RecipientLeaves
            <4> QED
                BY <4>2
        <3>2. ASSUME ContactNext PROVE mailbox'.messages \subseteq mailbox.messages
            <4>1. ASSUME NEW g \in Grant, GrantExpires(g) PROVE mailbox'.messages \subseteq mailbox.messages
                BY <2>0, <4>1 DEF GrantExpires, Mailboxes
            <4>2. ASSUME ~\E g \in Grant : GrantExpires(g) PROVE UNCHANGED mailbox
                BY <3>2, <4>2 DEF ContactNext, PutPolicy, RevokePolicy, Submit, Allocate, Decide, Fetch, RevokeLease
            <4> QED
                BY <4>1, <4>2
        <3>3. ASSUME NEW p \in Sending, SenderNext(p) PROVE UNCHANGED mailbox
            BY <3>3 DEF SenderNext, Send, Freeze, Recover, UploadIntent, StartUpload, UploadChunk, BeginCommit,
                        SaveResult, Confirm
        <3>4. ASSUME NEW p \in Process, Stop(p) PROVE UNCHANGED mailbox
            BY <3>4 DEF Stop
        <3>5. ASSUME NEW j \in commits, SignAgain(j) \/ RefuseCommit(j) PROVE UNCHANGED mailbox
            BY <3>5 DEF SignAgain, RefuseCommit
        <3>6. ASSUME NEW m \in Message, HandleExpires(m) \/ IntentExpires(m) PROVE UNCHANGED mailbox
            BY <3>6 DEF HandleExpires, IntentExpires
        <3>7. ASSUME UNCHANGED openVars PROVE UNCHANGED mailbox
            BY <3>7 DEF openVars
        <3>8. \/ ContactNext \/ UNCHANGED openVars
              \/ \E p \in Sending : SenderNext(p)
              \/ \E p \in Receiving : RecipientNext(p)
              \/ \E p \in Process : Stop(p)
              \/ \E j \in commits : SignAgain(j) \/ RefuseCommit(j)
              \/ \E m \in Message : HandleExpires(m) \/ IntentExpires(m)
            BY <1>1, <2>2 DEF OpenNext
        <3>9. mailbox'.messages \subseteq mailbox.messages
            BY <3>1, <3>2, <3>3, <3>4, <3>5, <3>6, <3>7, <3>8
        <3> QED
            BY <3>9
    <2> QED
        BY <2>1, <2>2
<1> QED
    BY <1>1, OpenInvariant, PTL DEF OpenSpec, NothingAfterRevocation

----------------------------------------------------------------------------
(* OpenDelivery implements Mail. *)

Frozen(m) == outbox[m].grant # {}

\* Whatever calls, handles, threads, the mailbox and the inbox know of was
\* frozen before: no message is settled that was not sealed.
TraceInv ==
    /\ \A p \in Process : call[p].pc \in SendPCs /\ call[p].row.grant # {} => Frozen(call[p].message)
    /\ \A m \in Message : handle[m] # {} \/ inbox[m].phase # "none" => Frozen(m)
    /\ \A j \in commits : Frozen(j.message)
    /\ \A e \in mailbox.messages : Frozen(e.message)

\* A row is frozen once, by _freeze_dispatch, for one mailbox; what else changes
\* in it is the intent, the result or the acknowledgement.
LEMMA OutboxStep ==
    ASSUME TypeOK, [OpenNext]_openVars
    PROVE  \/ UNCHANGED outbox
           \/ /\ UNCHANGED inbox
              /\ \E m \in Message :
                    \/ \E g \in Grant : ~Frozen(m) /\ outbox' = [outbox EXCEPT ![m].grant = {g}]
                    \/ outbox' = [outbox EXCEPT ![m].acked = @ \/ m \in mailbox.receipts]
                    \/ \E n : outbox' = [outbox EXCEPT ![m].intent = n]
                    \/ \E r : outbox' = [outbox EXCEPT ![m].result = r]
<1> USE DEF contactVars, nodeVars, endpointVars
<1>0. outbox \in [Message -> Rows] /\ approval \subseteq Grant
    BY DEF TypeOK, NodeOK, EndpointOK
<1>1. ASSUME NEW p \in Sending, Freeze(p) \/ UploadIntent(p) \/ SaveResult(p) \/ Confirm(p), ~UNCHANGED outbox
      PROVE  /\ UNCHANGED inbox
             /\ \E m \in Message :
                    \/ \E g \in Grant : ~Frozen(m) /\ outbox' = [outbox EXCEPT ![m].grant = {g}]
                    \/ outbox' = [outbox EXCEPT ![m].acked = @ \/ m \in mailbox.receipts]
                    \/ \E n : outbox' = [outbox EXCEPT ![m].intent = n]
                    \/ \E r : outbox' = [outbox EXCEPT ![m].result = r]
    <2>1. call[p].pc \in SendPCs /\ p \in Process /\ UNCHANGED inbox
        BY <1>1 DEF Freeze, UploadIntent, SaveResult, Confirm, SendPCs, Process
    <2>2. PICK m \in Message : m = call[p].message
        BY <2>1, CallOfSender DEF SendCalls
    <2>3. CASE Freeze(p)
        <3>1. \E g \in approval : ~Frozen(m) /\ outbox' = [outbox EXCEPT ![m].grant = {g}]
            BY <1>1, <2>2, <2>3 DEF Freeze, Frozen
        <3> QED
            BY <1>0, <2>1, <3>1
    <2>4. CASE UploadIntent(p)
        <3>1. outbox' = [outbox EXCEPT ![m].intent = @ + 1]
            BY <1>1, <2>2, <2>4 DEF UploadIntent
        <3>2. outbox' = [outbox EXCEPT ![m].intent = outbox[m].intent + 1]
            BY <1>0, <3>1
        <3> QED
            BY <2>1, <3>2
    <2>5. CASE SaveResult(p)
        BY <2>1, <2>2, <2>5 DEF SaveResult
    <2>6. CASE Confirm(p)
        BY <2>1, <2>2, <2>6 DEF Confirm
    <2> QED
        BY <1>1, <2>3, <2>4, <2>5, <2>6
<1>2. ASSUME NEW p \in Sending, SenderNext(p), ~(Freeze(p) \/ UploadIntent(p) \/ SaveResult(p) \/ Confirm(p))
      PROVE  UNCHANGED outbox
    BY <1>2 DEF SenderNext, Send, Recover, StartUpload, UploadChunk, BeginCommit
<1>3. ASSUME ContactNext PROVE UNCHANGED outbox
    BY <1>3 DEF ContactNext, PutPolicy, RevokePolicy, Submit, Allocate, Decide, Fetch, RevokeLease, GrantExpires
<1>4. ASSUME NEW p \in Receiving, RecipientNext(p) PROVE UNCHANGED outbox
    BY <1>4 DEF RecipientNext, List, TakeUp, Stage, Finish, Accept, Refuse, Advance, SendReceipt
<1>5. ASSUME NEW j \in commits, Publish(j) \/ SignAgain(j) \/ RefuseCommit(j) PROVE UNCHANGED outbox
    BY <1>5 DEF Publish, SignAgain, RefuseCommit
<1>6. ASSUME (\E p \in Process : Stop(p)) \/ \E m \in Message : HandleExpires(m) \/ IntentExpires(m)
      PROVE  UNCHANGED outbox
    BY <1>6 DEF Stop, HandleExpires, IntentExpires
<1>7. ASSUME UNCHANGED openVars PROVE UNCHANGED outbox
    BY <1>7 DEF openVars
<1> QED
    BY <1>1, <1>2, <1>3, <1>4, <1>5, <1>6, <1>7 DEF OpenNext

\* What is frozen stays what it is, and what is acknowledged stays so.
LEMMA FrozenStays ==
    ASSUME TypeOK, [OpenNext]_openVars, NEW m \in Message
    PROVE  /\ Frozen(m) => outbox'[m].grant = outbox[m].grant /\ Frozen(m)'
           /\ outbox[m].acked => outbox'[m].acked
<1>1. outbox \in [Message -> Rows] /\ outbox[m] \in Rows
    BY DEF TypeOK, EndpointOK
<1>2. CASE UNCHANGED outbox
    BY <1>2 DEF Frozen
<1>3. ASSUME NEW n \in Message,
             \/ \E g \in Grant : ~Frozen(n) /\ outbox' = [outbox EXCEPT ![n].grant = {g}]
             \/ outbox' = [outbox EXCEPT ![n].acked = @ \/ n \in mailbox.receipts]
             \/ \E i : outbox' = [outbox EXCEPT ![n].intent = i]
             \/ \E r : outbox' = [outbox EXCEPT ![n].result = r]
      PROVE  /\ Frozen(m) => outbox'[m].grant = outbox[m].grant /\ Frozen(m)'
             /\ outbox[m].acked => outbox'[m].acked
    BY <1>1, <1>3 DEF Frozen, Rows
<1> QED
    BY <1>2, <1>3, OutboxStep

\* A call works on the row it has read, or reads another one.
SameRow(q) ==
    call'[q].pc \in SendPCs =>
        call[q].pc \in SendPCs /\ call'[q].message = call[q].message /\ call'[q].row = call[q].row

LEMMA StepKeepsRow ==
    ASSUME TypeOK, NEW p \in Process, NEW pc, call[p].pc \in SendPCs \/ pc \in ReceivePCs,
           Step(p, pc) \/ Return(p)
    PROVE  \A q \in Process : SameRow(q)
<1>1. call \in [Process -> {Idle} \cup SendCalls \cup ReceiveCalls] /\ Idle.pc \notin SendPCs
    BY CallKinds DEF TypeOK, CallsOK
<1>2. ASSUME call[p].pc \in SendPCs, Step(p, pc) PROVE SameRow(p)
    <2>1. call[p] \in SendCalls
        BY <1>2, CallOfSender
    <2>2. call'[p] = [call[p] EXCEPT !.pc = pc]
        BY <1>1, <1>2 DEF Step
    <2> QED
        BY <1>2, <2>1, <2>2 DEF SameRow, SendCalls
<1>3. ASSUME call[p].pc \notin SendPCs, pc \in ReceivePCs, Step(p, pc) PROVE SameRow(p)
    <2>1. call[p] \in {Idle} \cup ReceiveCalls
        BY <1>1, <1>3 DEF SendCalls
    <2>2. call'[p] = [call[p] EXCEPT !.pc = pc]
        BY <1>1, <1>3 DEF Step
    <2>3. call'[p].pc = pc
        BY <2>1, <2>2 DEF Idle, ReceiveCalls
    <2> QED
        BY <1>3, <2>3 DEF SameRow, SendPCs, ReceivePCs
<1>4. ASSUME Return(p) PROVE SameRow(p)
    BY <1>1, <1>4 DEF Return, SameRow
<1>5. ASSUME NEW q \in Process \ {p} PROVE SameRow(q)
    BY <1>1, <1>5 DEF Step, Return, SameRow
<1> QED
    BY <1>2, <1>3, <1>4, <1>5

LEMMA OneCallRow ==
    ASSUME TypeOK, NEW p \in Process, NEW c, call' = [call EXCEPT ![p] = c], c.pc \notin SendPCs
    PROVE  \A q \in Process : SameRow(q)
BY DEF TypeOK, CallsOK, SameRow

LEMMA RowsKept ==
    ASSUME TypeOK, [OpenNext]_openVars, NEW q \in Process
    PROVE  SameRow(q) \/ \E m \in Message : Resume(q, m, outbox'[m])
<1> USE DEF contactVars, nodeVars, endpointVars
<1>0. /\ call \in [Process -> {Idle} \cup SendCalls \cup ReceiveCalls]
      /\ Idle.pc \notin SendPCs /\ commits \subseteq Commits
    BY CallKinds DEF TypeOK, NodeOK, CallsOK
<1>1. ASSUME \A r \in Process : call'[r] = call[r] \/ call'[r] = Idle PROVE SameRow(q)
    BY <1>0, <1>1 DEF SameRow
<1>2. ASSUME NEW p \in Process, NEW m \in Message, Resume(p, m, outbox'[m])
      PROVE  SameRow(q) \/ \E n \in Message : Resume(q, n, outbox'[n])
    <2>1. CASE q = p
        BY <1>2, <2>1
    <2>2. CASE q # p
        BY <1>0, <1>2, <2>2 DEF Resume, SameRow
    <2> QED
        BY <2>1, <2>2
<1>3. CASE ContactNext
    <2>1. UNCHANGED call \/ \E g \in Grant : GrantExpires(g)
        BY <1>3 DEF ContactNext, PutPolicy, RevokePolicy, Submit, Allocate, Decide, Fetch, RevokeLease
    <2> QED
        BY <1>1, <2>1 DEF GrantExpires
<1>4. ASSUME NEW p \in Sending, SenderNext(p)
      PROVE  SameRow(q) \/ \E m \in Message : Resume(q, m, outbox'[m])
    <2>0. p \in Process
        BY DEF Process
    <2>1. ASSUME NEW m \in Message, Send(p, m) PROVE Resume(p, m, outbox'[m])
        BY <2>1 DEF Send
    <2>2. ASSUME Freeze(p) PROVE \E m \in Message : Resume(p, m, outbox'[m])
        <3>1. call[p].pc \in SendPCs /\ Resume(p, call[p].message, outbox'[call[p].message])
            BY <2>2 DEF Freeze, SendPCs
        <3>2. call[p].message \in Message
            BY <2>0, <3>1, CallOfSender DEF SendCalls
        <3> QED
            BY <3>1, <3>2
    <2>3. ASSUME StartUpload(p) \/ BeginCommit(p) \/ SaveResult(p) \/ Confirm(p) PROVE SameRow(q)
        <3>1. call[p].pc \in SendPCs /\ (Return(p) \/ \E pc \in SendPCs : Step(p, pc))
            BY <2>3 DEF StartUpload, BeginCommit, SaveResult, Confirm, SendPCs
        <3> QED
            BY <2>0, <3>1, StepKeepsRow
    <2>4. ASSUME UploadChunk(p) PROVE SameRow(q)
        BY <1>1, <2>4 DEF UploadChunk
    <2>5. ASSUME Recover(p) \/ UploadIntent(p) PROVE SameRow(q)
        <3>1. call[p].pc \in SendPCs
            BY <2>5 DEF Recover, UploadIntent, SendPCs
        <3>2. \/ Return(p) \/ \E pc \in SendPCs : Step(p, pc)
              \/ \E pc, n : call' = [call EXCEPT ![p].pc = pc, ![p].intent = n]
            BY <2>5 DEF Recover, UploadIntent, SendPCs
        <3>3. ASSUME NEW pc, NEW n, call' = [call EXCEPT ![p].pc = pc, ![p].intent = n] PROVE SameRow(q)
            <4>1. call[p] \in SendCalls
                BY <2>0, <3>1, CallOfSender
            <4>2. call'[p] = [call[p] EXCEPT !.pc = pc, !.intent = n] /\ (q # p => call'[q] = call[q])
                BY <1>0, <2>0, <3>3
            <4>3. CASE q = p
                <5>1. call'[q].message = call[q].message /\ call'[q].row = call[q].row
                    BY <4>1, <4>2, <4>3 DEF SendCalls
                <5> QED
                    BY <3>1, <4>3, <5>1 DEF SameRow
            <4> QED
                BY <4>2, <4>3 DEF SameRow
        <3> QED
            BY <2>0, <3>1, <3>2, <3>3, StepKeepsRow
    <2> QED
        BY <1>2, <1>4, <2>0, <2>1, <2>2, <2>3, <2>4, <2>5 DEF SenderNext
<1>5. ASSUME NEW p \in Receiving, RecipientNext(p) PROVE SameRow(q)
    <2>0. p \in Process
        BY DEF Process
    <2>1. ASSUME (\E g \in Grant : List(p, g)) \/ \E m \in Message : TakeUp(p, m) PROVE SameRow(q)
        <3>1. \E g, page, pc : /\ pc \in {"entry", "finish"}
                              /\ call' = [call EXCEPT ![p] = [pc |-> pc, grant |-> g, page |-> page]]
            BY <2>1 DEF List, TakeUp
        <3>2. PICK g, page, pc : /\ pc \in {"entry", "finish"}
                                /\ call' = [call EXCEPT ![p] = [pc |-> pc, grant |-> g, page |-> page]]
            BY <3>1
        <3>3. [pc |-> pc, grant |-> g, page |-> page].pc \notin SendPCs
            BY <3>2 DEF SendPCs
        <3> QED
            BY <2>0, <3>2, <3>3, OneCallRow
    <2>2. ASSUME Stage(p) \/ Finish(p) \/ Accept(p) \/ Refuse(p) PROVE SameRow(q)
        <3>1. (\E phase : GoOn(p, phase)) \/ \E pc \in ReceivePCs : Step(p, pc)
            BY <2>2 DEF Stage, Finish, Accept, Refuse, ReceivePCs
        <3>2. Return(p) \/ \E pc \in ReceivePCs : Step(p, pc)
            BY <3>1, GoOnSteps DEF ReceivePCs
        <3>3. "skip" \in ReceivePCs
            BY DEF ReceivePCs
        <3>4. CASE Return(p)
            BY <2>0, <3>3, <3>4, StepKeepsRow
        <3>5. ASSUME NEW pc \in ReceivePCs, Step(p, pc) PROVE SameRow(q)
            BY <2>0, <3>5, StepKeepsRow
        <3> QED
            BY <3>2, <3>4, <3>5
    <2>4. ASSUME Advance(p), ~NextEntry(p) PROVE SameRow(q)
        <3>1. Step(p, "receipt") /\ "receipt" \in ReceivePCs
            BY <2>4 DEF Advance, ReceivePCs
        <3> QED
            BY <2>0, <3>1, StepKeepsRow
    <2>3. ASSUME Advance(p) \/ SendReceipt(p), NextEntry(p) PROVE SameRow(q)
        <3>1. call[p].pc \in ReceivePCs /\ NextEntry(p)
            BY <2>3 DEF Advance, SendReceipt, ReceivePCs
        <3>2. call[p] \in ReceiveCalls
            BY <2>0, <3>1, CallOfRecipient
        <3>3. CASE Return(p)
            BY <1>0, <1>1, <3>3 DEF Return
        <3>4. ASSUME NEW rest, call' = [call EXCEPT ![p].pc = "entry", ![p].page = rest] PROVE SameRow(q)
            <4>1. call'[p].pc = "entry" /\ (q # p => call'[q] = call[q])
                BY <1>0, <2>0, <3>2, <3>4 DEF ReceiveCalls
            <4> QED
                BY <4>1 DEF SameRow, SendPCs
        <3> QED
            BY <3>1, <3>3, <3>4 DEF NextEntry
    <2> QED
        BY <1>5, <2>1, <2>2, <2>3, <2>4 DEF RecipientNext, SendReceipt
<1>6. ASSUME NEW p \in Process, Stop(p) PROVE SameRow(q)
    BY <1>0, <1>1, <1>6 DEF Stop, Return
<1>7. ASSUME NEW j \in commits, Publish(j) \/ SignAgain(j) \/ RefuseCommit(j) PROVE SameRow(q)
    <2>1. UNCHANGED call \/ Answer(j, "save") \/ Answer(j, "idle")
        BY <1>7 DEF Publish, SignAgain, RefuseCommit
    <2>2. ASSUME NEW pc \in {"save", "idle"}, Answer(j, pc)
          PROVE  UNCHANGED call \/ (call[j.by].pc = "commit" /\ (Return(j.by) \/ Step(j.by, pc)))
        BY <2>2 DEF Answer
    <2>3. j.by \in Process
        BY <1>0 DEF Commits
    <2>4. ASSUME NEW pc \in {"save", "idle"}, Answer(j, pc) PROVE SameRow(q)
        <3>1. CASE UNCHANGED call
            BY <1>1, <3>1
        <3>2. CASE call[j.by].pc = "commit" /\ (Return(j.by) \/ Step(j.by, pc))
            <4>1. call[j.by].pc \in SendPCs
                BY <3>2 DEF SendPCs
            <4> QED
                BY <2>3, <3>2, <4>1, StepKeepsRow
        <3> QED
            BY <2>2, <2>4, <3>1, <3>2
    <2> QED
        BY <1>1, <2>1, <2>4
<1>8. ASSUME NEW m \in Message, HandleExpires(m) \/ IntentExpires(m) PROVE SameRow(q)
    BY <1>1, <1>8 DEF HandleExpires, IntentExpires, Interrupt
<1>9. CASE UNCHANGED openVars
    BY <1>1, <1>9 DEF openVars
<1> QED
    BY <1>3, <1>4, <1>5, <1>6, <1>7, <1>8, <1>9 DEF OpenNext

\* A step leaves traces only of what is frozen.
LEMMA TraceNext ==
    ASSUME TypeOK, TypeOK', (\A p \in Process : PageInv(p)), TraceInv, [OpenNext]_openVars
    PROVE  TraceInv'
<1> USE DEF contactVars, nodeVars, endpointVars
<1>0. /\ mailbox \in Mailboxes /\ commits \subseteq Commits /\ handle \in [Message -> SUBSET Handles]
      /\ inbox \in [Message -> Phases] /\ mailbox'.messages \subseteq Entries /\ commits' \subseteq Commits
    BY DEF TypeOK, NodeOK, EndpointOK, Mailboxes
<1>1. \A m \in Message : Frozen(m) => Frozen(m)'
    BY FrozenStays
<1>2. ASSUME NEW q \in Process, call'[q].pc \in SendPCs, call'[q].row.grant # {}
      PROVE  outbox'[call'[q].message].grant # {}
    <2>1. CASE SameRow(q)
        <3>1. call[q] \in SendCalls /\ call'[q].message = call[q].message /\ Frozen(call[q].message)
            BY <1>2, <2>1, CallOfSender DEF SameRow, TraceInv
        <3>2. PICK m \in Message : m = call[q].message
            BY <3>1 DEF SendCalls
        <3> QED
            BY <1>1, <3>1, <3>2 DEF Frozen
    <2>2. ASSUME NEW m \in Message, Resume(q, m, outbox'[m]) PROVE outbox'[call'[q].message].grant # {}
        <3>1. call'[q] = IF Continued(outbox'[m]) = "idle" THEN Idle
                         ELSE [pc |-> Continued(outbox'[m]), message |-> m, row |-> outbox'[m], intent |-> 0]
            BY <2>2 DEF Resume, TypeOK, CallsOK
        <3>2. call'[q].message = m /\ call'[q].row = outbox'[m]
            BY <1>2, <3>1, CallKinds
        <3> QED
            BY <1>2, <3>2
    <2> QED
        BY <2>1, <2>2, RowsKept
\* Traces of uploads.
<1>3. ASSUME NEW m \in Message, handle'[m] # {} PROVE handle[m] # {} \/ Frozen(m)
    <2>1. ASSUME NEW p \in Sending, SenderNext(p) PROVE handle[m] # {} \/ Frozen(m)
        <3>1. CASE StartUpload(p)
            <4>1. /\ call[p].pc \in SendPCs /\ p \in Process /\ call[p].row.grant # {}
                  /\ m # call[p].message => handle'[m] = handle[m]
                BY <1>0, <3>1 DEF StartUpload, SendPCs, Process, TypeOK, CallsOK
            <4> QED
                BY <1>3, <4>1 DEF TraceInv
        <3>2. CASE UploadChunk(p)
            BY <1>0, <1>3, <3>2 DEF UploadChunk
        <3>3. CASE ~StartUpload(p) /\ ~UploadChunk(p)
            BY <1>3, <2>1, <3>3 DEF SenderNext, Send, Freeze, Recover, UploadIntent, BeginCommit, SaveResult, Confirm
        <3> QED
            BY <3>1, <3>2, <3>3
    <2>2. ASSUME ContactNext PROVE handle[m] # {}
        <3>1. (\E g \in Grant : GrantExpires(g)) \/ UNCHANGED handle
            BY <2>2 DEF ContactNext, PutPolicy, RevokePolicy, Submit, Allocate, Decide, Fetch, RevokeLease
        <3>2. ASSUME NEW g \in Grant, GrantExpires(g) PROVE handle'[m] \subseteq handle[m]
            BY <3>2 DEF GrantExpires
        <3> QED
            BY <1>3, <3>1, <3>2
    <2>3. ASSUME NEW j \in commits, Publish(j) \/ SignAgain(j) \/ RefuseCommit(j) PROVE handle[m] # {}
        BY <1>0, <1>3, <2>3 DEF Publish, SignAgain, RefuseCommit
    <2>4. ASSUME NEW n \in Message, HandleExpires(n) \/ IntentExpires(n) PROVE handle[m] # {}
        BY <1>0, <1>3, <2>4 DEF HandleExpires, IntentExpires
    <2>5. ASSUME \/ \E p \in Receiving : RecipientNext(p)
                 \/ \E p \in Process : Stop(p)
                 \/ UNCHANGED openVars
          PROVE  handle[m] # {}
        BY <1>3, <2>5 DEF RecipientNext, List, TakeUp, Stage, Finish, Accept, Refuse, Advance, SendReceipt, Stop, openVars
    <2> QED
        BY <2>1, <2>2, <2>3, <2>4, <2>5 DEF OpenNext
<1>4. ASSUME NEW k \in commits' PROVE (\E j \in commits : j.message = k.message) \/ Frozen(k.message)
    <2>1. ASSUME NEW p \in Sending, SenderNext(p)
          PROVE  (\E j \in commits : j.message = k.message) \/ Frozen(k.message)
        <3>1. CASE BeginCommit(p)
            <4>1. call[p].pc \in SendPCs /\ p \in Process /\ handle[call[p].message] # {}
                BY <3>1 DEF BeginCommit, SendPCs, Process
            <4>2. call[p].message \in Message
                BY <4>1, CallOfSender DEF SendCalls
            <4>3. k \in commits \/ k.message = call[p].message
                BY <3>1 DEF BeginCommit
            <4> QED
                BY <4>1, <4>2, <4>3 DEF TraceInv
        <3>2. CASE ~BeginCommit(p)
            BY <2>1, <3>2 DEF SenderNext, Send, Freeze, Recover, UploadIntent, StartUpload, UploadChunk, SaveResult,
                              Confirm
        <3> QED
            BY <3>1, <3>2
    <2>2. ASSUME NEW j \in commits, Publish(j) \/ SignAgain(j) \/ RefuseCommit(j)
          PROVE  \E i \in commits : i.message = k.message
        BY <1>0, <2>2 DEF Publish, SignAgain, RefuseCommit, Commits
    <2>3. ASSUME ContactNext PROVE k \in commits
        <3>1. (\E g \in Grant : GrantExpires(g)) \/ UNCHANGED commits
            BY <2>3 DEF ContactNext, PutPolicy, RevokePolicy, Submit, Allocate, Decide, Fetch, RevokeLease
        <3> QED
            BY <3>1 DEF GrantExpires
    <2>4. ASSUME \E m \in Message : HandleExpires(m) \/ IntentExpires(m) PROVE k \in commits
        BY <2>4 DEF HandleExpires, IntentExpires, Interrupt
    <2>5. ASSUME \/ \E p \in Receiving : RecipientNext(p)
                 \/ \E p \in Process : Stop(p)
                 \/ UNCHANGED openVars
          PROVE  k \in commits
        BY <2>5 DEF RecipientNext, List, TakeUp, Stage, Finish, Accept, Refuse, Advance, SendReceipt, Stop, openVars
    <2> QED
        BY <2>1, <2>2, <2>3, <2>4, <2>5 DEF OpenNext
\* Traces of what is stored and of what arrives.
<1>5. ASSUME NEW e \in mailbox'.messages
      PROVE  e \in mailbox.messages \/ \E j \in commits : j.message = e.message
    <2>1. ASSUME NEW j \in commits, Publish(j)
          PROVE  e \in mailbox.messages \/ e.message = j.message
        BY <1>0, <2>1 DEF Publish, Mailboxes
    <2>2. ASSUME NEW p \in Receiving, RecipientNext(p) PROVE e \in mailbox.messages
        BY <2>2, RecipientLeaves DEF Process
    <2>3. ASSUME NEW g \in Grant, GrantExpires(g) PROVE e \in mailbox.messages
        BY <1>0, <2>3 DEF GrantExpires, Mailboxes
    <2>4. ASSUME \/ ContactNext /\ ~\E g \in Grant : GrantExpires(g)
                 \/ \E p \in Sending : SenderNext(p)
                 \/ \E p \in Process : Stop(p)
                 \/ \E j \in commits : SignAgain(j) \/ RefuseCommit(j)
                 \/ \E m \in Message : HandleExpires(m) \/ IntentExpires(m)
                 \/ UNCHANGED openVars
          PROVE  e \in mailbox.messages
        BY <2>4 DEF ContactNext, PutPolicy, RevokePolicy, Submit, Allocate, Decide, Fetch, RevokeLease,
                    SenderNext, Send, Freeze, Recover, UploadIntent, StartUpload, UploadChunk, BeginCommit,
                    SaveResult, Confirm, Stop, SignAgain, RefuseCommit, HandleExpires, IntentExpires, openVars
    <2> QED
        BY <2>1, <2>2, <2>3, <2>4 DEF OpenNext
<1>6. ASSUME NEW m \in Message, inbox'[m].phase # "none"
      PROVE  inbox[m].phase # "none" \/ \E e \in mailbox.messages : e.message = m
    <2>1. ASSUME NEW p \in Receiving, RecipientNext(p), ~Stage(p) PROVE inbox[m].phase # "none"
        <3>1. CASE UNCHANGED inbox
            BY <1>6, <3>1
        <3>2. CASE Accept(p)
            <4>1. inbox[First(call[p].page).message].phase # "none"
                BY <3>2 DEF Accept, PageInv, ReceivePCs, Process
            <4> QED
                BY <1>0, <1>6, <3>2, <4>1 DEF Accept, Phases
        <3>4. CASE Refuse(p)
            BY <1>0, <1>6, <3>4 DEF Refuse, Phases
        <3>3. CASE SendReceipt(p)
            BY <1>0, <1>6, <3>3 DEF SendReceipt, Phases
        <3> QED
            BY <2>1, <3>1, <3>2, <3>3, <3>4 DEF RecipientNext, List, TakeUp, Finish, Advance
    <2>2. ASSUME NEW p \in Receiving, Stage(p)
          PROVE  inbox[m].phase # "none" \/ \E e \in mailbox.messages : e.message = m
        BY <1>0, <1>6, <2>2 DEF Stage
    <2>3. CASE ~\E p \in Receiving : RecipientNext(p)
        BY <1>6, <2>3, OthersLeave DEF OpenNext
    <2> QED
        BY <2>1, <2>2, <2>3 DEF RecipientNext
<1>7. \A m \in Message : handle'[m] # {} \/ inbox'[m].phase # "none" => Frozen(m)
    BY <1>3, <1>6 DEF TraceInv
<1>8. \A j \in commits' : Frozen(j.message)
    BY <1>4 DEF TraceInv
<1>9. \A e \in mailbox'.messages : Frozen(e.message)
    BY <1>5 DEF TraceInv
<1>10. /\ \A j \in commits' : j.message \in Message
       /\ \A e \in mailbox'.messages : e.message \in Message
    BY <1>0 DEF Commits, Entries
<1> QED
    BY <1>1, <1>2, <1>7, <1>8, <1>9, <1>10 DEF TraceInv, Frozen

----------------------------------------------------------------------------
(* The refinement. *)

Sent == {Letter(m) : m \in {n \in Message : Frozen(n)}}
Acked == {m \in Message : outbox[m].acked}

openMailVars == <<Sent, InPhase("saved"), InPhase("rejected"), Acked>>

\* A letter says of which message it is.
LEMMA LetterOf == \A m, n : Letter(m) = Letter(n) => m = n
BY DEF Letter

\* What changes no frozen row changes no letter.
LEMMA SentStays ==
    ASSUME \A m \in Message : outbox'[m].grant = outbox[m].grant
    PROVE  /\ Sent' = Sent
           /\ \A phase : UNCHANGED inbox => InPhase(phase)' = InPhase(phase)
BY DEF Sent, InPhase, Letter, Frozen

\* Freezing seals a message that nobody has settled.
LEMMA FreezeSeals ==
    ASSUME TypeOK, TraceInv, UNCHANGED inbox, NEW m \in Message, NEW g \in Grant,
           ~Frozen(m), outbox' = [outbox EXCEPT ![m].grant = {g}]
    PROVE  Letters!Seal
<1>1. /\ outbox \in [Message -> Rows]
      /\ outbox'[m].grant = {g} /\ outbox'[m].acked = outbox[m].acked
      /\ \A n \in Message : n # m => outbox'[n] = outbox[n]
    BY DEF TypeOK, EndpointOK, Rows
<1> DEFINE l == [message |-> m, grant |-> {g}]
<1>2. Letter(m)' = l /\ \A n \in Message : n # m => Letter(n)' = Letter(n)
    BY <1>1 DEF Letter
<1>3. Sent' = Sent \cup {l} /\ \A k \in Sent : k.message # m
    BY <1>1, <1>2 DEF Sent, Frozen, Letter
<1>4. ASSUME NEW phase, phase # "none" PROVE InPhase(phase)' = InPhase(phase)
    <2>1. \A n \in Message : inbox[n].phase = phase => n # m
        BY <1>4 DEF TraceInv
    <2> QED
        BY <1>2, <2>1 DEF InPhase
<1>5. Acked' = Acked
    BY <1>1 DEF Acked
<1>6. l \in Sent' \ Sent /\ l.message = m
    BY <1>3
<1>7. InPhase("saved")' = InPhase("saved") /\ InPhase("rejected")' = InPhase("rejected")
    BY <1>4
<1> HIDE DEF l
<1> QED
    BY <1>3, <1>5, <1>6, <1>7 DEF Letters!Seal, Sent, Acked, Frozen

\* A message that comes to be saved is an accepted letter, one that comes to be
\* rejected a refused one; other steps of the recipient settle nothing.
LEMMA RecipientSettles ==
    ASSUME TypeOK, TraceInv, NEW p \in Process, PageInv(p), RecipientNext(p)
    PROVE  Letters!Accept \/ Letters!Refuse \/ UNCHANGED openMailVars
<1> USE DEF contactVars, nodeVars, endpointVars
<1>0. /\ inbox \in [Message -> Phases] /\ UNCHANGED outbox
      /\ Sent' = Sent /\ Acked' = Acked /\ \A m \in Message : Letter(m)' = Letter(m)
    BY RecipientLeaves DEF TypeOK, EndpointOK, Sent, Acked, Frozen, Letter
<1>1. ASSUME \A m \in Message, phase \in {"saved", "rejected"} : (inbox'[m].phase = phase) = (inbox[m].phase = phase)
      PROVE  UNCHANGED openMailVars
    BY <1>0, <1>1 DEF openMailVars, InPhase
<1> DEFINE m == First(call[p].page).message
<1>2. ASSUME NEW n \in Message, NEW phase, inbox[n].phase # "none", inbox[n].phase # phase,
             phase \in {"saved", "rejected"}, inbox' = [inbox EXCEPT ![n].phase = phase]
      PROVE  /\ Letter(n) \in Sent /\ Letter(n) \notin InPhase(phase)
             /\ InPhase(phase)' = InPhase(phase) \cup {Letter(n)}
             /\ \A other : other # phase => InPhase(other)' = InPhase(other) \ {Letter(n)}
    <2>1. inbox'[n].phase = phase /\ \A k \in Message : k # n => inbox'[k] = inbox[k]
        BY <1>0, <1>2 DEF Phases
    <2>2. Letter(n) \in Sent
        BY <1>2 DEF TraceInv, Sent
    <2>3. Letter(n) \notin InPhase(phase)
        BY <1>2, LetterOf DEF InPhase
    <2>4. InPhase(phase)' = InPhase(phase) \cup {Letter(n)}
        BY <1>0, <2>1 DEF InPhase
    <2>5. ASSUME NEW other, other # phase PROVE InPhase(other)' = InPhase(other) \ {Letter(n)}
        BY <1>0, <2>1, <2>5, LetterOf DEF InPhase
    <2> QED
        BY <2>2, <2>3, <2>4, <2>5
<1>3. CASE Accept(p)
    <2>1. m \in Message /\ inbox[m].phase # "none" /\ inbox' = [inbox EXCEPT ![m].phase = "saved"]
        BY <1>3, FirstIsOfMessage DEF Accept, ReceivePCs, PageInv
    <2> HIDE DEF m
    <2>2. CASE inbox[m].phase = "saved"
        BY <1>0, <1>1, <2>1, <2>2 DEF Phases
    <2>3. CASE inbox[m].phase # "saved"
        <3>1. /\ Letter(m) \in Sent /\ Letter(m) \notin InPhase("saved")
              /\ InPhase("saved")' = InPhase("saved") \cup {Letter(m)}
              /\ InPhase("rejected")' = InPhase("rejected") \ {Letter(m)}
            BY <1>2, <2>1, <2>3
        <3> QED
            BY <1>0, <3>1 DEF Letters!Accept, Sent, Acked, Frozen
    <2> QED
        BY <2>2, <2>3
<1>7. CASE Refuse(p)
    <2>1. m \in Message /\ inbox' = [inbox EXCEPT ![m].phase = IF @ = "staged" THEN "rejected" ELSE @]
        BY <1>7, FirstIsOfMessage DEF Refuse, ReceivePCs
    <2> HIDE DEF m
    <2>2. CASE inbox[m].phase # "staged"
        BY <1>0, <1>1, <2>1, <2>2 DEF Phases
    <2>3. CASE inbox[m].phase = "staged"
        <3>1. inbox' = [inbox EXCEPT ![m].phase = "rejected"]
            BY <1>0, <2>1, <2>3 DEF Phases
        <3>2. Letter(m) \notin InPhase("saved")
            BY <2>3, LetterOf DEF InPhase
        <3>3. /\ Letter(m) \in Sent /\ Letter(m) \notin InPhase("rejected")
              /\ InPhase("rejected")' = InPhase("rejected") \cup {Letter(m)}
              /\ InPhase("saved")' = InPhase("saved") \ {Letter(m)}
            BY <1>2, <2>1, <2>3, <3>1
        <3>4. InPhase("saved")' = InPhase("saved")
            BY <3>2, <3>3
        <3> QED
            BY <1>0, <3>2, <3>3, <3>4 DEF Letters!Refuse, Sent, Acked, Frozen
    <2> QED
        BY <2>2, <2>3
<1>4. CASE Stage(p)
    <2>1. \/ UNCHANGED inbox
          \/ inbox[m].phase = "none" /\ inbox' = [inbox EXCEPT ![m].phase = "staged"]
        BY <1>4 DEF Stage
    <2> HIDE DEF m
    <2> QED
        BY <1>0, <1>1, <2>1 DEF Phases
<1>5. CASE SendReceipt(p)
    <2>1. inbox' \in {inbox, [inbox EXCEPT ![m].sent = TRUE]}
        BY <1>5 DEF SendReceipt
    <2> HIDE DEF m
    <2> QED
        BY <1>0, <1>1, <2>1 DEF Phases
<1>6. CASE ~Accept(p) /\ ~Refuse(p) /\ ~Stage(p) /\ ~SendReceipt(p)
    BY <1>1, <1>6 DEF RecipientNext, List, TakeUp, Finish, Advance
<1> QED
    BY <1>3, <1>4, <1>5, <1>6, <1>7

\* Confirming acknowledges what has been saved.
LEMMA ReceiptConfirms ==
    ASSUME TypeOK, AckedIsSaved, UNCHANGED inbox, NEW m \in Message,
           outbox' = [outbox EXCEPT ![m].acked = @ \/ m \in mailbox.receipts]
    PROVE  Letters!Confirm
<1>1. /\ outbox \in [Message -> Rows]
      /\ outbox'[m].acked = (outbox[m].acked \/ m \in mailbox.receipts)
      /\ \A n \in Message : n # m => outbox'[n] = outbox[n]
      /\ \A n \in Message : outbox'[n].grant = outbox[n].grant
    BY DEF TypeOK, EndpointOK, Rows
<1>2. Sent' = Sent /\ \A phase : InPhase(phase)' = InPhase(phase)
    BY <1>1, SentStays
<1>3. Acked \subseteq Acked'
    BY <1>1 DEF Acked
<1>4. ASSUME NEW n \in Acked' PROVE n \in {l.message : l \in InPhase("saved")}
    <2>1. n \in Message /\ inbox[n].phase = "saved"
        BY <1>1, <1>4 DEF Acked, AckedIsSaved
    <2>2. Letter(n) \in InPhase("saved") /\ Letter(n).message = n
        BY <2>1 DEF InPhase, Letter
    <2> QED
        BY <2>2
<1> QED
    BY <1>2, <1>3, <1>4 DEF Letters!Confirm, Sent, Acked, Frozen

\* What changes neither the inbox nor a frozen session nor an acknowledgement
\* is nothing that Mail can tell.
LEMMA RowChangesUnseen ==
    ASSUME TypeOK, UNCHANGED inbox, NEW m \in Message,
           \/ \E n : outbox' = [outbox EXCEPT ![m].intent = n]
           \/ \E r : outbox' = [outbox EXCEPT ![m].result = r]
    PROVE  UNCHANGED openMailVars
<1>1. \A n \in Message : outbox'[n].grant = outbox[n].grant /\ outbox'[n].acked = outbox[n].acked
    BY DEF TypeOK, EndpointOK, Rows
<1> QED
    BY <1>1, SentStays DEF openMailVars, Acked

\* Policies, leases, uploads, listings and receipts over one node of the open
\* network promise what Mail says, whatever expires, is revoked or is retried:
\* one letter for a message, which stays saved once it is, whatever another
\* process decides, and is confirmed only when it is saved; what was rejected may
\* still be saved (OpenDeliveryClient.send, receive and _finish_inbox).
THEOREM DeliveryImplementsMail == OpenSpec => ImplementsMail
<1>1. OpenInit => TraceInv /\ Letters!Init
    <2> SUFFICES ASSUME OpenInit PROVE TraceInv /\ Letters!Init
        OBVIOUS
    <2>1. TraceInv
        BY CallKinds DEF OpenInit, TraceInv
    <2>2. Letters!Init
        BY DEF OpenInit, Letters!Init, InPhase
    <2> QED
        BY <2>1, <2>2
<1>2. OpenInv /\ OpenInv' /\ TraceInv /\ [OpenNext]_openVars => TraceInv' /\ [Letters!Next]_openMailVars
    <2> SUFFICES ASSUME OpenInv, OpenInv', TraceInv, [OpenNext]_openVars
                 PROVE  TraceInv' /\ (Letters!Next \/ UNCHANGED openMailVars)
        OBVIOUS
    <2>1. TypeOK /\ TypeOK' /\ AckedIsSaved /\ \A p \in Process : PageInv(p)
        BY DEF OpenInv, ReceiveInv
    <2>2. TraceInv'
        BY <2>1, TraceNext
    <2>3. CASE \E p \in Receiving : RecipientNext(p)
        BY <2>1, <2>2, <2>3, RecipientSettles DEF Letters!Next, Process
    <2>4. CASE ~\E p \in Receiving : RecipientNext(p)
        <3>1. UNCHANGED inbox
            BY <2>1, <2>4, OthersLeave DEF OpenNext
        <3>2. ASSUME NEW m \in Message, NEW g \in Grant,
                     ~Frozen(m), outbox' = [outbox EXCEPT ![m].grant = {g}]
              PROVE  Letters!Seal
            BY <2>1, <3>1, <3>2, FreezeSeals
        <3>3. CASE UNCHANGED outbox
            <4>1. UNCHANGED openMailVars
                BY <3>1, <3>3, SentStays DEF openMailVars, Acked
            <4> QED
                BY <2>2, <4>1
        <3>4. ASSUME NEW m \in Message,
                     outbox' = [outbox EXCEPT ![m].acked = @ \/ m \in mailbox.receipts]
              PROVE  Letters!Confirm
            BY <2>1, <3>1, <3>4, ReceiptConfirms
        <3>5. ASSUME NEW m \in Message,
                     \/ \E n : outbox' = [outbox EXCEPT ![m].intent = n]
                     \/ \E r : outbox' = [outbox EXCEPT ![m].result = r]
              PROVE  UNCHANGED openMailVars
            BY <2>1, <3>1, <3>5, RowChangesUnseen
        <3> QED
            BY <2>1, <2>2, <3>2, <3>3, <3>4, <3>5, OutboxStep DEF Letters!Next
    <2> QED
        BY <2>3, <2>4
<1>3. [Letters!Next]_openMailVars <=>
      [Letters!Next]_<<{Letter(m) : m \in {n \in Message : outbox[n].grant # {}}},
                       InPhase("saved"), InPhase("rejected"), {m \in Message : outbox[m].acked}>>
    BY DEF openMailVars, Sent, Acked, Frozen
<1> QED
    BY <1>1, <1>2, <1>3, OpenInvariant, PTL DEF OpenSpec, ImplementsMail, Letters!Spec
=============================================================================
