------------------------------ MODULE Receiver ------------------------------
(***************************************************************************)
(* The receiving half of DirectoryTransfer (memory_vault_transfer.py):     *)
(* receive and receive_capsule, for the receivers of one stream, together  *)
(* with the admission transaction of dependency.ingest_verified and the    *)
(* unlocked fetch of memory_vault_sync._pull_peer.                         *)
(*                                                                         *)
(* A receiver owns a vault (receipts and admitted records, changed in one  *)
(* SQLite transaction) and a private state directory (cursor, head,        *)
(* evidence, staged fragments), changed by later or earlier file writes.   *)
(***************************************************************************)
EXTENDS Exchange

CONSTANTS
    Receiver,          \* the receiving endpoints
    StageFragments     \* maximum_fragments, the new fragments one call stages

ASSUME StageAssumption == StageFragments \in Nat \ {0}

VARIABLES
    recv,        \* recv[r]: cursor and head of this stream in state.json
    evidence,    \* evidence[r]: received-capsules/<digest>.json
    staged,      \* staged[r]: fragments in incoming-groups
    receipts,    \* receipts[r]: transfer_receipts of the vault
    admitted,    \* admitted[r]: records the vault holds as verified
    trust,       \* trust[r][x]: what r's trust store says of the signer of record x
    fetched,     \* fetched[r]: capsule a pull has downloaded without the lock
    rop          \* rop[r]: the call that holds r's transfer.lock

stateVars == <<recv, evidence, staged>>
vaultOf == <<receipts, admitted>>
recvVars == <<stateVars, vaultOf, trust, fetched, rop>>

RIdle == [pc |-> "idle", kind |-> "none", seen |-> {}, batch |-> {}, copied |-> 0]

RecvInit ==
    /\ recv = [r \in Receiver |-> [cursor |-> 0, head |-> {}]]
    /\ evidence = [r \in Receiver |-> {}]
    /\ staged = [r \in Receiver |-> {}]
    /\ receipts = [r \in Receiver |-> {}]
    /\ admitted = [r \in Receiver |-> {}]
    /\ trust \in [Receiver -> [Record -> {"unknown", "trusted"}]]
    /\ fetched = [r \in Receiver |-> {}]
    /\ rop = [r \in Receiver |-> RIdle]

RAt(r, pc) == rop[r].pc = pc

----------------------------------------------------------------------------
(* What a receiver decides from the files it sees. *)

\* require_trusted fails for the signers of these records.
Untrusted(r) == {x \in Record : trust[r][x] # "trusted"}

\* _verify_capsule: the envelope and the inline records; the records of a group
\* are verified fragment by fragment and again at admission.
Authentic(r, b) == IsGroup(b) \/ b.records \cap Untrusted(r) = {}

\* The saved head must be the only authenticated file at its own prefix, or
\* the peer is stopped (fork, or history missing).
HeadConfirmed(r, files) ==
    \A h \in recv[r].head : {b \in files : b.after = h.after} = {h}

\* The batches at the receiver's prefix that it can authenticate.
Candidates(r, files) == {b \in files : b.after = recv[r].cursor /\ Authentic(r, b)}

\* A fork, two candidates, is left to the operator.
AnyCandidate(r, files, b) == b \in Candidates(r, files)     \* mutant: take either

OnlyCandidate(r, files, b) == Candidates(r, files) = {b}

\* _check_chain: a continuation must name the saved head.
ChainedByCursor(r, b) == b.after = recv[r].cursor     \* mutant: no hash link

Chained(r, b) ==
    b.after > 0 => \E h \in recv[r].head : h.cursor = b.after /\ b.prev = {h}

\* The capsule must still start at the cursor when the lock is held.
AtCursor(r, b) == recv[r].cursor = b.after

\* _received_evidence: keep the envelope before anything is admitted.
RetainNothing(r, b) == UNCHANGED evidence     \* mutant: not kept

Retain(r, b) == evidence' = [evidence EXCEPT ![r] = @ \cup {b}]

----------------------------------------------------------------------------
(* receive: one locked call over a directory listing. *)

BeginReceive(r) ==
    /\ RAt(r, "idle")
    /\ HeadConfirmed(r, exch)
    /\ rop' = [rop EXCEPT ![r] = [RIdle EXCEPT !.pc = "select", !.kind = "receive",
                                               !.seen = exch]]
    /\ UNCHANGED <<exchVars, stateVars, vaultOf, trust, fetched>>

\* The listing may be old: a listed file may be gone and a new one is not seen.
\* The one candidate is kept as evidence before anything is admitted.
Select(r) ==
    /\ RAt(r, "select")
    /\ \E b \in exch :
        /\ OnlyCandidate(r, rop[r].seen \cap exch, b)
        /\ Chained(r, b)
        /\ Retain(r, b)
        /\ rop' = [rop EXCEPT ![r].pc = "fetch", ![r].batch = {b}, ![r].copied = 0]
    /\ UNCHANGED <<exchVars, recv, staged, vaultOf, trust, fetched>>

\* stage_group_fragments: one verified fragment, StageFragments in a call.
StageFragment(r) ==
    /\ RAt(r, "fetch")
    /\ rop[r].copied < StageFragments
    /\ \E b \in rop[r].batch : \E x \in b.records :
        /\ NextFragment(b, staged[r], x)
        /\ Fragment(b, x) \in fragments
        /\ x \notin Untrusted(r)
        /\ staged' = [staged EXCEPT ![r] = @ \cup {Fragment(b, x)}]
    /\ rop' = [rop EXCEPT ![r].copied = @ + 1]
    /\ UNCHANGED <<exchVars, recv, evidence, vaultOf, trust, fetched>>

\* _admit_payload before the transaction: all records present and trusted, and
\* for a thin continuation the retained envelope of its predecessor.
Admissible(r, b) ==
    /\ Fragments(b) \subseteq staged[r]
    /\ b.records \cap Untrusted(r) = {}
    /\ b.thin /\ b.after > 0 => b.prev \subseteq evidence[r]

\* The checks inside the transaction: the predecessor's receipt, and the actual
\* closure of the new records, admitted and trusted.  For a full batch that is
\* not closed there is no dependency validator, and nothing may dangle.
IngestibleByReceipt(r, b) ==     \* mutant: trust the sender's index
    b.thin /\ b.after > 0 => b.prev \subseteq receipts[r]

Ingestible(r, b) ==
    /\ b.thin /\ b.after > 0 => b.prev \subseteq receipts[r]
    /\ IF b.thin \/ Closed(b.records)
       THEN Closure(b.records) \subseteq (admitted[r] \cup b.records) \ Untrusted(r)
       ELSE \A x \in b.records : Deps[x] \subseteq admitted[r] \cup b.records

\* One transaction; an existing receipt is replayed and admits nothing again.
Admit(r) ==
    /\ RAt(r, "fetch")
    /\ \E b \in rop[r].batch :
        /\ Admissible(r, b)
        /\ b \in receipts[r] \/ Ingestible(r, b)
        /\ receipts' = [receipts EXCEPT ![r] = @ \cup {b}]
        /\ admitted' = [admitted EXCEPT ![r] = IF b \in receipts[r] THEN @ ELSE @ \cup b.records]
    /\ rop' = [rop EXCEPT ![r].pc = "admitted"]
    /\ UNCHANGED <<exchVars, stateVars, trust, fetched>>

MayWriteHeadEarly(r) == rop[r].pc \in {"fetch", "admitted"}   \* mutant: head first

MayWriteHead(r) == RAt(r, "admitted")

\* _remember_head and state.json, after the transaction has committed; receive
\* goes on with the next prefix of the same listing.
WriteHead(r) ==
    /\ MayWriteHead(r)
    /\ \E b \in rop[r].batch :
        recv' = [recv EXCEPT ![r] = [cursor |-> b.cursor, head |-> {b}]]
    /\ rop' = [rop EXCEPT ![r] = IF rop[r].kind = "receive"
                                 THEN [rop[r] EXCEPT !.pc = "select", !.batch = {}, !.copied = 0]
                                 ELSE RIdle]
    /\ UNCHANGED <<exchVars, evidence, staged, vaultOf, trust, fetched>>

----------------------------------------------------------------------------
(* _pull_peer and receive_capsule: state.json and the remote listing are     *)
(* read without the lock; the downloaded capsule is admitted under it.       *)

PullPeer(r) ==
    /\ HeadConfirmed(r, exch)
    /\ \E b \in exch :
        /\ OnlyCandidate(r, exch, b)
        /\ fetched' = [fetched EXCEPT ![r] = {b}]
    /\ UNCHANGED <<exchVars, stateVars, vaultOf, trust, rop>>

\* The state may have moved on since the fetch: the exact head is replayed,
\* any other capsule must start at the current cursor.
ReceiveCapsule(r) ==
    /\ RAt(r, "idle")
    /\ \E b \in fetched[r] :
        /\ Authentic(r, b)
        /\ AtCursor(r, b)
        /\ Chained(r, b)
        /\ Retain(r, b)
        /\ rop' = [rop EXCEPT ![r] = [RIdle EXCEPT !.pc = "fetch", !.kind = "capsule",
                                                   !.batch = {b}]]
    /\ fetched' = [fetched EXCEPT ![r] = {}]
    /\ UNCHANGED <<exchVars, recv, staged, vaultOf, trust>>

\* A pull ends without an admission: a replayed head, a moved cursor, an error.
DropFetched(r) ==
    /\ fetched[r] # {}
    /\ fetched' = [fetched EXCEPT ![r] = {}]
    /\ UNCHANGED <<exchVars, stateVars, vaultOf, trust, rop>>

----------------------------------------------------------------------------
(* What happens around the calls. *)

\* A crash, an exception, or the end of the listing or of the batch limit.
RStop(r) ==
    /\ ~RAt(r, "idle")
    /\ rop' = [rop EXCEPT ![r] = RIdle]
    /\ UNCHANGED <<exchVars, stateVars, vaultOf, trust, fetched>>

\* The operator of r registers the signer of a record, or revokes it for good.
Enroll(r, x) ==
    /\ "trust" \in Faults
    /\ trust[r][x] = "unknown"
    /\ trust' = [trust EXCEPT ![r][x] = "trusted"]
    /\ UNCHANGED <<exchVars, stateVars, vaultOf, fetched, rop>>

RevokeKey(r, x) ==
    /\ "trust" \in Faults
    /\ trust[r][x] = "trusted"
    /\ trust' = [trust EXCEPT ![r][x] = "revoked"]
    /\ UNCHANGED <<exchVars, stateVars, vaultOf, fetched, rop>>

ReceiverStep(r) ==
    \/ BeginReceive(r) \/ Select(r) \/ StageFragment(r) \/ Admit(r) \/ WriteHead(r)
    \/ PullPeer(r) \/ ReceiveCapsule(r) \/ DropFetched(r) \/ RStop(r)
    \/ \E x \in Record : Enroll(r, x) \/ RevokeKey(r, x)

----------------------------------------------------------------------------
(* Properties *)

\* What one receiver has admitted is one stream, without a fork and without a
\* gap, even if other signed batches compete at its prefixes, its listing is
\* old, it fetched without the lock or it crashed between vault and state.json.
AcceptedIsOneStream ==
    \A r \in Receiver : OnePerPrefix(receipts[r]) /\ HashLinked(receipts[r])

\* The cursor never claims more than the vault holds: the batch it ends at has
\* its receipt in the vault, however the two writes are torn apart, and the
\* envelope of each receipt is among the retained evidence.
HeadHasReceipt ==
    \A r \in Receiver :
        /\ recv[r].head \subseteq receipts[r] /\ receipts[r] \subseteq evidence[r]
        /\ \A h \in recv[r].head : h.cursor = recv[r].cursor

\* The vault is at most one batch ahead of state.json, the one a crash left
\* between its receipt and the head, and that batch continues the head.
AtMostOneAhead ==
    \A r \in Receiver :
        \A b \in receipts[r] : b.cursor > recv[r].cursor => b.after = recv[r].cursor

\* No admitted record waits for a relation target the vault does not hold.
AdmittedIsClosed == \A r \in Receiver : Closed(admitted[r])

\* A saved head never moves back, and moves only to its direct successor.
HeadAdvancesByOne ==
    [][\A r \in Receiver :
        recv'[r] # recv[r] => \A b \in recv'[r].head :
            b.after = recv[r].cursor /\ (b.after > 0 => b.prev = recv[r].head)]_recvVars
=============================================================================
