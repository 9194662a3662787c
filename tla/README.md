# Memory Vault Sync in TLA+

A verification development for Memory Vault Sync (`memory_vault*.py`). It models how memory
records are admitted to a vault, leave it, travel, and are admitted by other vaults: over a shared
directory or a cloud remote, over the relay nodes of a private network, which can hand their stores over, and over the public nodes of the open
network. Beside them stands the part that replaces the program itself, its signed updates. TLC checks the
models on small instances; TLAPS proves for every instance what the publisher, the receivers, the sync worker, the vault with its cache, the private
network, open delivery, the acknowledgement slots and the installation promise, and that publisher and receivers together implement one stream.

- [The system](#the-system): components, state, interaction, what is hard
- [The modules](#the-modules) and how they correspond to the code
- [The runs](#the-runs): questions, bounds, fairness
- [Disagreements found](#disagreements-found)
- [The proofs](#the-proofs)
- [What is not modelled](#what-is-not-modelled) and [the plan](#the-plan)

`PROJECT.json` lists the components, runs, theorems, the hazards of the code with the
properties that cover them, and for every definition the lines of code it stands for.

## The system

| Component | State it keeps | Operations | What makes it correct |
|---|---|---|---|
| **Vault core** `memory_vault.py` | SQLite: records, admissions, pinned authors, relations, `delivery_log`, `transfer_receipts`, epochs | remember, import, ingest, quarantine, restore, changes (a page of the delivery log), requeue, recall | admitted records are closed under relations; a transfer is admitted once; no delivery is skipped silently; only its author retires a record |
| **Transfer** `memory_vault_transfer.py` | private directory: `state.json` (cursors, heads), `publish.pending.json`, `publish.started.json`, `publication-reviews/*`, `received-capsules/*`, staged fragments; the exchange directory | publish, resolve_pending, acknowledge_published, receive, receive_capsule, anchor_received | what is visible is one hash-linked stream; each receiver holds a prefix of it; nothing unreviewed leaves |
| **Dependency index** `memory_vault_dependency.py` | SQLite cache: published members and head per stream, positive validations | incremental_changes, validate_outgoing, published, ingest_verified | a batch omits only what its receivers hold; a lost or stale cache does no harm |
| **Sync worker** `memory_vault_sync.py` | `sync-trigger.json`, `sync-state.json`, `launch.json`, `remote-receipt.json`, three file locks | request_sync (notify and spawn), run, receive, flush, resolve, requeue, anchor | no announced write is forgotten; the upload cursor can be continued; one worker at a time |
| **Trust** `memory_vault_trust.py`, `memory_vault_device_trust.py`, `memory_vault_encrypted_replication.py` | trusted and revoked keys, device membership, encrypted replicas | add, revoke, verify; enrol, rotate; replicate | a revoked key admits nothing any more |
| **Remotes and storage** `memory_vault_remote.py`, `_drive.py`, `_storage.py`, `_file_copy.py`, `_pack.py` | remote folders, copy journals | list, upload, download with budgets | an uploaded file is complete and is what was meant |
| **Client** `memory_vault_client.py`, `_lifecycle.py`, `_capture.py`, `_hosts.py`, `_manage.py`, `_compat.py`, `_agent.py`, sharing, artifacts | configuration, projections of records | the request API, hooks, imports | every durable write is followed by a notification |
| **Backup, recovery, migration** | snapshots, packs | offline copies and conversions | a restored installation does not fork its stream |
| **Update and install** `memory_vault_update*.py`, `_install.py`, `_managed_launcher.py` | trust store with its floors, `install.json`, stage directories, `releases/`, `active.json`, `activations/*.json` | pin a root, stage, activate, roll back, automatic updates | trust never goes back, the pointer always names a complete and covered release, only an operator lowers it |
| **Private network** `memory_vault_network*.py`, `_relay.py`, `_node*.py`, `_topic*.py` | checkpoint, node bindings, cursors, outbox and inbox of an endpoint; rows of a node | refresh status, bind, send, poll, accept, acknowledge | a message has one envelope, is skipped by nobody, and is confirmed only if saved |
| **Open network** `memory_vault_open_*.py` | at a node: policies, contact requests, leases, uploads, messages, receipts; at an endpoint: frozen sessions, intents, results, inbox, cursors | request contact, approve, dispatch, upload, commit, recover, list, import, confirm | no mailbox is overcommitted, nothing is stored after a revocation, receipts are true |
| **Open repair** `memory_vault_open_repair_*.py` | acknowledgement slots, the ledger of signed statuses, journals of mailbox, receipt and index copies | allocate, bind, put, read; prepare, consent, copy, activate | what was seen revoked stays refused; retries reuse exact requests; a copy is authorised end to end |
| TypeScript client, adapters, plugins, scripts | | | |

How the modelled parts interact:

```
 client --write--> Vault (delivery_log)          Vault of the receiver (receipts, records)
   |                      | changes                          ^ ingest (one transaction)
   | request_sync         v                                  |
   +--trigger--> sync worker: publish --capsules--> exchange/remote --> receive / pull
        (three non-blocking locks)   journal in files           state.json, evidence in files
```

The publisher and the receivers share nothing but the files of the exchange, which a folder
service carries: they come late, vanish and come back. Every call holds `transfer.lock`, so the
interleavings that matter are those of its *file writes* with crashes, with the vault and
trust changes of other processes, and with the calls of other endpoints. A remote pull reads its state and downloads
before it takes the lock. The worker's locks are never waited for: whoever meets a busy one gives up.

The networks do without shared files. In the private network an authority signs who is a member and
which incarnation of a node serves an address; endpoints poll nodes that can be
replaced by empty ones. In the open network nobody is a member: a recipient publishes a policy at a public node, a
sender asks, and an approval carries the lease of a finite mailbox; commits run in threads of the node that may
outlive the request. The acknowledgement slots of open repair live at such nodes too. Every endpoint keeps
an SQLite database that several of its processes use at the same time, and holds no lock while it talks to a node.
An installation is updated by commands of an operator and by an automatic worker, which share a trust store,
stage directories and the pointer `active.json`.

What is hard to test, and what the properties are about: calls cut short between any two
writes; batches frozen in one call and published by another; operator reviews that rewrite
such a batch; lost files, a lost index, a lost `state.json`; competing signed batches; keys enrolled and
revoked meanwhile; notifications that meet a running worker; validations reused after the vault has changed; answers of a
node or an authority that come late, after another process went ahead; cursors that
count the rows of a node that is no more; intents, leases and policies that expire or are revoked
between a check and its use; metadata of two releases mixed by a server. `PROJECT.json` has each of
them at its line ("hazards").

## The modules

| Module | Models |
|---|---|
| `Batches` | a batch (capsule), its digest, groups and fragments, the closure of relations |
| `Exchange` | the shared directory of one stream, which can lose files |
| `Publisher` | publish, resolve_pending, acknowledge_published and what surrounds them |
| `Receiver` | receive, receive_capsule, the admission transaction, the unlocked pull |
| `ForkedExchange` | receivers in front of an exchange where any signed batch may turn up |
| `Transfer` | one publisher and its receivers around one exchange |
| `Stream` | the abstract specification: an append-only stream, receivers hold prefixes |
| `SyncWorker` | notifications, launches, locks, windows, uploads |
| `Admissions` | the vault: who vouches for a record, what related records may do to it, what is to be delivered |
| `ValidationCache` | validations that reuse certificates, beside writers of `Admissions` |
| `RelayNetwork` | two endpoints of a private network, relay nodes, the authority |
| `NodeTransfer` | the move of a relay node's store to another node |
| `OpenDelivery` | first contact, mailboxes, uploads and receipts at a public node |
| `Mail` | the abstract specification of both networks: a message is sealed in one letter, a saved letter stays saved, and a message is confirmed only when its letter is saved |
| `AckSlot` | an acknowledgement slot and its ledger of statuses |
| `UpdateTrust` | verification of release metadata (no state) |
| `ManagedInstall` | staging, activation, rollback and the automatic worker |
| `PublisherProofs`, `TransferProofs` | theorems about `Publisher`; about `ForkedExchange` and about `Transfer` (which implements `Stream`) |
| `SyncProofs`, `VaultProofs`, `NetProofs`, `NodeProofs`, `OpenProofs`, `InstallProofs` | theorems about `SyncWorker`, about `Admissions` and `ValidationCache`, about `RelayNetwork` and `AckSlot`, about `NodeTransfer`, `OpenDelivery` and `ManagedInstall`; `RelayNetwork` and `OpenDelivery` implement `Mail` |
| `MC*` | small instances for TLC; `MCWriter`, `MCLive`, `MCUnreliable`, `MCServicesLive` and `MCVault` put independent ones side by side, told apart by `part`, which never changes. `MCWriter`, `MCLive` (for safety), `MCUnreliable`, `MCTransfer`, `MCVault` and `MCManagedInstall` extend the modules they are instances of, so their runs check the very definitions the theorems state |

### Batches and the exchange

A batch covers the interval `(after, cursor]` of a delivery log and names its predecessor. Its
SHA-256 digest and its deterministic signature are functions of its content, so the batch
itself stands for its digest: two batches have the same digest iff they are equal (an ideal
hash). All batches of a stream are signed by one key that everybody trusts; trust in the
*records* inside is modelled per record. Records are numbers in creation order; their content
is reduced to their relation targets (`Deps`), to whether they hold a local path (`Flagged`)
or a credential (`Secret`). An optional value (a file, a null field) is a set with at most one
element. A large batch is a group: the capsule holds a manifest, the records travel in fragment
files that are handled in order.

### Publisher

| Variable | Code |
|---|---|
| `log`, `unadmitted` | `delivery_log`, and the records whose signer is not trusted at the moment |
| `pending`, `started`, `state`, `index`, `reviews` | `publish.pending.json`, `publish.started.json`, the publisher's fields of `state.json`, the dependency index (head and members), `publication-reviews/<request>/*.json` |
| `op` | the running call, what it holds in memory; forgotten by `Stop` |
| `exposed` | history: the capsules that ever were visible |

One action stands for one durable write with the checks in front of it: `BeginPublish` to
`DropStarted` follow `publish` from top to bottom, `Acknowledge` enters the same bookkeeping
from `acknowledge_published`, and `BeginReview`, `WriteDecision`, `ReplacePending`,
`CompleteReview` follow `resolve_pending`, with `ResumeReview` for the same request again after a
crash. `intent.json`, `original.json` and `replacement.json` without `decision.json` have no
effect on any later call except binding the request id, and are one stage. An early return, a refused check and a crash are all
`Stop`: the lock is released, files stay. Around the calls the vault remembers and
requeues records, keys are revoked, the exchange loses files, and receive calls of the same
endpoint write `state.json` back (`RewriteState`). `Requeue` delivers again, in the order of their ids, also
the records that depend on the requeued one, as the code does.

The DLP guard is an argument of `publish` (transfer.py:1077-1080): the sync client passes one, the `publish` command does not, and
docs/TRANSFER.md:63-66 says so. `Publishing` is the set of kinds of calls; `op.kind` is `"guarded"` or `"direct"`. Only a guarded call
refuses credentials and unapproved paths, or reads the fragment signatures of a group (`Guarded`); what a review demands (`ReviewComplete`) and what
`validate_outgoing_payload` demands of a thin batch (`StillAdmitted`) hold for both.

### Receiver

Per receiver: cursor and head in `state.json`, retained envelopes, staged fragments, and the vault
with receipts and admitted records. `BeginReceive` takes the lock, confirms the saved head and
lists the directory (`seen`); `Select` reads what is *still there* of that listing,
takes the only authenticated candidate at the cursor, checks the chain and retains the envelope; `StageFragment`,
`Admit` and `WriteHead` are the writes that follow. `PullPeer` fetches without the lock what
`ReceiveCapsule` later admits under it. `Admit` is one SQLite transaction: receipt,
records and the closure check, which for a full batch that is not closed, and so has no dependency validator, only asks that no relation dangles (`Ingestible`). Trust is `unknown`, `trusted` or `revoked` per record. In `ForkedExchange` the history variable
`steady` says that no file was lost so far and no key enrolled or revoked.

### SyncWorker

Inside one publish or receive call the two modules above apply; here logs and cursors
are lengths. Clients and workers are processes. `completed` says whether
`completed_generation` equals the trigger's generation, and `current` whether the
generation a window works for is still the trigger's: generations are random and
are only compared. The history variables `quiet` (written, not yet announced) and `forwarded` (received
from a peer) say for whom a delivery waits. `resolve` on a cloud backend compares the remote
receipt first; since its publication has started by then, the transfer's own check subsumes that.

### Admissions and ValidationCache

| Variable | Code |
|---|---|
| `row`, `author` | `record_admissions`, and the metadata entry `state_author` of a record |
| `trust` | the trust file |
| `due`, `sent` | the delivery log past the reader's cursor, and what left since it was last announced |
| `epoch`, `cache` | `dependency_epoch` with its nonce, the `validations` table of the private index |
| `job` | the validation that holds the index, with the snapshot or transaction it works in |

Each action of `Admissions` is a transaction: `Remember`, `ImportBundle`, `Ingest`, `QuarantineSigner`,
`RequeueRecords` and `Restore`; `Take` is what they share: a copy is taken over if it is worth more,
the first author is pinned, and the records raised and the dependents of those
known before are announced. `Status` is what the record's relations make of it
(`_memory_status`). In `ValidationCache` a validation begins with the digest of the trust file, visits
records one by one, ends if the trust file is still the same, commits, and writes its certificates
after the commit. Writers and trust commands act between any two of these steps, and an abort undoes the epoch too.

### RelayNetwork

`control` is the authority, `node` what serves an address at the moment; `endpoint` holds the checkpoint of either
endpoint, the incarnation it is bound to at each address, and its cursor there. `outbox`, `inbox`, `rejected` and
`acked` are rows of the two databases, `call` is what each process carries between its transactions. `FetchStatus`, `Bind`
and `Refresh` open every conversation; `Freeze`, `Post`, `SaveReceipt` follow `_deliver_impl`,
and `ReadCursor`, `Poll`, `Accept`, `Ack`, `CommitPage` follow `receive`. Where the code calls `_assert_node`
so does the action. `Replace` and `Authorize` are the two halves of replacing a node.

### Mail

What both networks promise of a message. `sealed` are the letters that exist, each of one message; `Seal` adds
one for a message that has none, `Accept` saves one, `Refuse` refuses one that is not saved, and `Confirm` takes messages as received whose letters are saved.
`Overruling` says whether a letter that was refused may be saved after all: in `RelayNetwork` it may not, in `OpenDelivery` it may.
In `RelayNetwork` a letter is an envelope in the outbox with the node version and the process that sealed it, saved means in `inbox`, and a page of receipts
may confirm several at once. In `OpenDelivery` it is a message with the mailbox it was frozen for, saved and
refused are phases of the recipient's inbox row. Status answers, bindings, uploads, listings, cursors, receipts
and everything that expires or stops are steps that `Mail` does not see.

### NodeTransfer

`directory` is the authority's, `relay` the database of each node with the directory it knows, its rows, its export and its
import; `objects` are its files, `pass` is the running command `transfer` of an operator, `late` holds requests that outlive
their pass. Each operation of a node is one transaction under its lock. `PrepareExport` freezes the rows (`Snapshot`);
`BeginPass`, `Greet`, `Serve`, `SaveReceipt` follow `transfer`, and `HandleBegin`, `HandleObject`, `HandleCommit` the three phases
of `_receive_transfer`. `Writable` is the fence on everything members ask. `PublishFails` is `atomic_write` that stops
between the rename and the flush of the directory: the file is there, "volatile" until it is published once more, and `PowerLoss` may
take it away. An answer that got lost is a `StopPass`, and the target handles the same request once more.

The expiry of grants, status answers and challenges is left out where another action has its effect: an expired grant is a pass that
stops and begins again with a renewed one, and a challenge may be gone whenever the next is made. Capacity in bytes is not modelled,
and a node serves from the moment it has had one status answer.

### OpenDelivery

`policy`, `contact`, `mailbox`, `handle` and `commits` are the node (`commits` its threads),
`approval`, `valid`, `outbox`, `inbox` and `cursor` the endpoints. `Send` to `Confirm` follow
`OpenDeliveryClient.send`, `List` to `SendReceipt` follow `receive`, `TakeUp` is what
receive does first. A page that was listed is a set, handled in the order of the sequences (`First`); the cursor a listing is asked for may
be behind by the time the node answers. `_finish_inbox` reads a staged row, scans it and imports
it before the transaction that settles it, so `Finish` only comes to a verdict, and `Accept` and `Refuse` are the two closing transactions. Two processes
may come to different verdicts, because a scan also fails for reasons of time and files and not only of content. `Accept` asks only whether the
row is saved (line 764) and so takes back what another process has rejected since, `Refuse` asks for both (line 777): a message may go
from rejected to saved, and never the other way. A commit reads the sequence, signs outside of a transaction, and
publishes in one that asks for everything again (`MayPublish`); if another took the
sequence it signs once more. Expiry is an action: what has expired counts as collected, because
every request collects first and every query excludes it. One assumption about
time is made: an intent, valid for an hour, does not expire during a call, which lasts a minute, that
began before it was issued.

### AckSlot

`slot` and `ledger` are the rows of each resource, `latched` the root's latch, `request` what the node does for each
caller. A request is prepared without a lock (`Prepare` keeps a stamp of the resource), checked in a
transaction, built without a lock, and checked again in the transaction that stores it (`Publish`). A check
commits the statuses it was shown also when it refuses. The code goes through them in order of revision; `Observe` says of each
document whether the loop reaches it: nothing before it found the ledger full, or contradicted a recorded one, which blocks the
resource for those after it. A status that expired between the checks is the
subset `fresh` that a check still accepts. `presented` and `replies` are history.

### UpdateTrust and ManagedInstall

`UpdateTrust` has the pure part: thresholds, rotation one version at a time, the chain of timestamp,
snapshot and targets, expiry with the tolerated skew, the floors. A file stands for its bytes, and its signatures
are the set of keys that really signed it. `ManagedInstall` has the files: `trust`, `config` (`install.json`), `staged`,
`installed` (how much of `releases/<archive>` is on disk), `active`, `receipts`. `stager` and `command` hold the two locks,
`worker` is the automatic worker between its locked calls. `BeginActivate`, `Unpack`, `SaveTrust`, `Prepare`, `MovePointer`,
`CommitReceipt` are the writes of an activation in their order, `StopCommand` may come after any of
them, and `MayGoOn` and `FinishReceipt` are what the same request finds when it is repeated.

### Abstractions worth knowing

- Signatures are ideal: what a key signed is a field of the document, and equal digests mean equal documents.
- A request to a node and its answer are one step where nothing but the node's transaction matters; a lost answer is a `Stop` after it.
- One stream per model; a receive call serves several peers one after the other, with separate fields each.
- A page of changes ends wherever its byte and record limits may end it: any admissible row.
- Blocked records become signed dispositions in the code; here they are records a batch passes over.
- The publishing key stays trusted; a revoked publisher key stops all calls.
- `attest_unsigned`, the v1 envelopes and `anchor_received` are not modelled.
- `SyncWorker` has only publications that passed the guard. `_push_pending` asks it again before an upload (sync.py:422), so a batch that a direct
  call published with what the guard refuses would be held back there; `LiveLogGetsDelivered` is about streams without one.

## The runs

| Run | Instance | Question |
|---|---|---|
| `writer` | publisher called with a guard: 2 related records, log up to 4, groups of 2, one fragment per call, one review request, all faults but a lost `state.json`; the same called without a guard, log up to 3, no reviews. Sync worker: 2 clients, 2 workers, remote, 2 publications per window, log up to 2 | do interruptions anywhere keep one stream, closed and complete? is no announced write forgotten, and the upload cursor usable? |
| `live` | publisher that may lose `state.json`, called with and without a guard, with a review request, log up to 3, one record with a path to approve and one with a credential; the same without that fault, log up to 2; publisher and receiver, log up to 2 | does any half-written journal block the stream? does everything arrive? do reviews bind every call, and does the guard hold in the calls that pass one, when `state.json` may be lost? |
| `publisher_decision` | log up to 2, no faults | does a recorded exclusion stand? (violated) |
| `publisher_lost_state` | log up to 3, `state.json` may be lost | is a lost state noticed? (violated) |
| `unreliable` | one receiver and 7 signed batches, two forks among them; 4 batches, one of them without what it depends on, with lost files, keys enrolled and revoked; private network: 2 messages, one of them invalid, 2 processes per endpoint, one address, 2 incarnations; a slot with two resources, 2 callers, 4 sets of statuses | is what a receiver admits one stream, and how do head and vault stand with all faults? do endpoints and a replaced node implement `Mail`, and lose nothing? does a slot forget a revocation, or confirm two things? |
| `transfer` | publisher with a review request, one receiver that trusts any set of signers, log up to 2, lost capsules | does it implement `Stream`; do thin batches fit? |
| `services_live` | sync worker: 1 client, 1 worker, remote, log up to 2; private network: 1 message, a replaced node, a revocation; a node to be moved to another: 1 message, 1 pass, 2 directories | is everything delivered and confirmed? is a frozen node handed over? |
| `sync_forward` | shared directory, 2 clients, 2 workers | does a received batch keep a pass due? (violated) |
| `update` | 2 releases, a root rotation, 7 offers of a server, two of them forged and two mixed, 2 operator requests, 2 instants | does trust ever go back, or the pointer name something incomplete, uncovered or older? |
| `vault` | 3 records (a source, a record derived from it, one that supersedes that), 2 keys; validations about two of them; a node's store that moves: 2 nodes and 2 messages, 3 nodes and 1 message, 2 nodes and 2 directories | is authorship pinned, no verified record weakened, no delivery forgotten? are certificates true when used? does a moved store arrive whole, and stay? |
| `delivery` | one mailbox, 2 messages, 2 processes per endpoint | is anything passed over, confirmed unsaved, overcommitted, or stored after a revocation? is `Mail` implemented? |
| `delivery_recovery` | 1 message, 1 process per endpoint, 2 intents | can a committed upload always be recovered? (violated) |

Why the bounds are enough. Two related records are the least with which a batch can leave a dependency out, a
group has more than one fragment, and a review can keep one record and exclude the other. A guard only refuses, so each step of a guarded call is one
of a direct call as well, and `transfer` has direct calls only; `writer` has either kind alone, the direct calls with a shorter log and no
reviews; batches that one kind leaves and the other takes up are in `live`. A
log of four deliveries has three consecutive batches (fresh, continuation, continuation of a thin batch) with a
requeued record in it. One review request can be new, interrupted, resumed, and applied to its own
result; a second adds no interaction because only the request of the pending batch matters. One
receiver is enough for every property, because receivers share only the exchange, which
they do not write. The signed batches of `unreliable` contain a fork at the start of the stream, one in the middle,
a group, and a continuation that leaves out what its predecessor did not carry. A full batch that is not closed (`N2`) appears with its predecessor
only, since what it adds is the other branch of the admission check. Two clients and two workers make every lock of the
sync worker contended. Three records give a chain of two relations, which is what tells direct from
indirect dependents, and a record whose author is another's.

In the networks the interference is between two processes: each action touches the rows of one message,
address or mailbox, so that two processes and two messages give every
pair of steps that can meet. `MCBound` says so: two processes work at a time (in `delivery` the threads of a
node count), both of one endpoint or one of each. With two messages in `unreliable` it is one of each endpoint at the
first incarnation, because races to seal and races with a replaced node are about one message. In `delivery` two
processes of the sender race until something is stored and while something is committed, and two of the recipient while no intent is valid, so that nothing is uploaded: a
sender and a recipient meet at the mailbox, not in the other's database. Policy and lease are not both revoked there, since either
alone ends what may be stored. `SlotBound` has the second resource only
read, since what matters of it is what it has seen; two of the owner's three documents turn up, any two.
Two incarnations of a node and two versions of the authority's documents make an old and a new one, with
a revocation or a replacement between them.

The moves of `vault` are three restrictions of one instance (`NodePart`), because what needs two letters, three nodes or two directories are different
questions: with two letters an object may be served out of order, with three nodes a store moves on once more or one
snapshot is granted to two targets, with two directories a grant is renewed in the middle of an import. `NodeBound` says which
nodes are exported (the last one never, another only after its import, so that moves in both directions at once are left out), and that an
invitation is not followed beside a second letter or a late request: it touches rows that neither of them reads, except that an
open invitation keeps a target from being empty.

Two instants, before and after the expiry of the first
root, and a clock that may run back, separate what expires from what does not.

The bounds are `MaxLog` and `MaxLength` (delivery log), `CallFragments`, `StageFragments` (fragments per call, 8 in the code),
`MaximumBatches` (publications per window), `InlineMax` (records of a batch that is not a group),
`MaxEpoch` (of `ValidationCache`: the epoch counter; of `RelayNetwork`: incarnations), `MaxRestores`, `MaxVersion`, `PageLimit`, `MaxItems`, `Chunks`, `MaxRevision`,
`MaxIntents`, `MaxDocuments`, `MaxRotations`, `MaxGeneration`, `MaxStaged`. `MaxItems`, `MaxDocuments`,
`MaxRotations` and `MaxGeneration` stand for limits of the code: beyond them the actions refuse as the code does.

Symmetry is used in safety runs only, over clients, workers, processes, messages and request ids that no action
tells apart. `VIEW` in `vault` leaves out what validations never read, in the part that is about them.

Deadlock checking is off in `unreliable` (`Signed` is finite, and a receiver
that met a fork has nothing more to do once everything has appeared; authority documents run out), in `vault` and
in `update` (the bounds on epochs, stages and generations end what can be done). In the other models a
process can always be called again.

### Properties

- `ExposedIsOneStream`, `StartedIsIrrevocable`: nobody sees two batches at one place; the bytes that somebody may have seen are not rewritten.
- `ExposedIsReviewed`: whoever publishes, no batch of an unfinished review gets out, nor one of a finished review with a credential or a path it did not approve; and a call
  with a guard makes nothing visible that its guard refuses, also when a call without one froze or started it, and when `state.json` is lost. What a direct call publishes of
  its own accord is not claimed to be clean: the code does not check it.
- `ExposedIsClosed`, `ContinuationIsIngestible`: thin batches leave out only what the stream carried, whatever was excluded, revoked, requeued or lost.
- `CursorAccountsForDeliveries`: the cursor passes a delivery only for one of three reasons.
- `LiveDeliveriesGetPublished`, `LiveEverythingArrives`: no journal state is a trap, and everything arrives.
- `KeptIsOneStream`, `HeadFollowsVault`, `AdmittedIsClosed`, `HeadAdvancesByOne`: of competing batches one branch is admitted; vault and `state.json` of a receiver drift apart by at most one batch, and never the wrong way.
- `ImplementsStream`: `Transfer` refines `Stream` with `stream <- exposed, taken <- receipts`: a batch is committed when it becomes visible, and taken with its transaction.
- `AnnouncedStaysPending`, `RemoteIsPrefix`, `LiveLogGetsDelivered`: the worker forgets nothing and can always continue.
- `NothingIsForgotten`, `RetiredByItsAuthor`, `NoDemotion`: what was passed over comes back when its closure is verified; copies that arrive by any way, and restored databases, neither weaken a record that is verified under a trusted key nor move the authority over it; only quarantining that very key does.
- `CertificatesHold`, `ValidatedIsVerified`: the cache shortens validations and never decides one differently.
- `ImplementsMail`: `RelayNetwork` and `OpenDelivery` refine `Mail`, with `sealed`, `saved`, `refused` and `confirmed` read off outbox and inbox; what is refused is final in the first only.
- `ReceiptIsTrue`, `NothingIsLost`, `BindingsMoveOn`, `LiveQueuedIsConfirmed`: replaced nodes, late answers and racing processes neither hide nor duplicate a message.
- `NodeStoreIsKept`, `LiveFrozenIsHandedOver`: a store that is said to have moved is complete at its new node and survives a power loss there; a frozen one can always be moved to a node that is fit for it.
- `NothingIsLost`, `FrozenFits`, `NothingAfterRevocation`: the same of the open network, with finite mailboxes and authority that ends.
- `ObservedRevocationHolds`, `ConfirmedIsUnique`: a status seen at one resource holds at all of them; a confirmed binding or receipt is the only one.
- `FloorsNeverDrop`, `TrustIsSigned`, `PointerIsSound`, `OneHistory`, `ActiveIsAgreedTo`: trust and pointer of an installation, over any interruption.

### Fairness

`PubFairness` and `ReceiverFairness`: a call that runs goes on to its end or its error (weak
fairness of its own steps: it is sequential code that waits for nobody), publish and receive
are called again and again (the sync window does both), an interrupted review is taken up
again by the operator, and interruptions of calls that could go on end some day.
The last step of a call that has nothing to write (`UpToDate` with an existing `state.json`) has the same effect as an
interruption; it does not count as one, since otherwise no fair behaviour would be left.

`Fairness` of the worker: events keep coming (every client session start is one) and run
their notification, processes run, time passes. The locks are not waited for, so an attempt is only successful if the
lock is free at that moment: strong fairness of `BeginEnqueue`, `Probe`, `Launch` and `TakeWorkerLock` says that
an attempt that could succeed again and again succeeds some day. Commands of operators and
errors in windows end some day. Without these assumptions the code promises no delivery, and
its documentation does not claim one.

`NetFairness`: a process that began goes on to its end or its error; deliver and receive are called again and again (the code
starts nothing by itself: hosts run the pass of `memory_vault_network_worker.py`, which retries the outbox and polls, on their
schedule), strongly fair because another call may be in the way at any moment; interruptions of calls that could go on end; the authority announces a node that
replaced another. Without the last, an endpoint has no way to accept the new incarnation.

`NodeFairness`: the operator repeats the command `transfer`, with a grant renewed under the present directory, until it says that the node may
leave (the command is made for that: its budget ends a pass in the middle of an upload); from some time on no pass that
could go on is interrupted. Nothing is assumed of members, whose requests the fence keeps out.

`live` and `services_live` state fairness of disjunctions of actions of different parts. `part` never changes and at
most one disjunct is ever enabled, so this is the fairness of each, with fewer formulas.

## Disagreements found

1. **An interrupted exclusion does not stand** (`publisher_decision`, `DecisionStands`).
   `docs/PARITY.md:37`: "An exclusion means not delivered". When `resolve_pending` stops after
   `decision.json` and before the pending batch is replaced, publish continues the original
   batch, excluded records included, and the decision can no longer be finished.
2. **A lost state.json is papered over** (`publisher_lost_state`, `PendingDoesNotCompete`).
   `docs/TRANSFER.md:422`: "Missing state ... requires explicit reconciliation". publish
   refuses if the file is missing and the exchange is not empty; but a receive of the same endpoint in between (a
   receive-only run of the sync worker, or the receive command) writes an empty state
   back, and the next publish signs a competing first batch.
3. **A received batch need not keep a pass due** (`sync_forward`, `ReceivedStaysPending`).
   Comment at `memory_vault_sync.py:706`: "every received batch keeps a later pass due". A
   window that received leaves `completed_generation` alone; if an earlier window completed the
   same generation, status reports nothing pending. (`LogGetsDelivered` still
   holds: the next event of any kind queues a new trigger.)

4. **A late commit strands its message** (`delivery_recovery`, `StoredIsRecoverable`).
   Comment at `memory_vault_open_delivery_client.py:362`: "Recover a committed upload even if its final response was lost
   and its short upload intent has since expired." `send` asks the node for the stored message before it decides about a new
   intent. A commit whose thread outlives its caller may land after the answer "absent"; if the intent has expired by then, a new one is
   written over it, the node refuses the upload because the committed handle has the old intent, and every later send ends in
   `open_delivery_intent_mismatch`.

Limits of the design rather than disagreements.

`KeptIsOneStream` speaks of a receiver whose exchange has lost no file and whose keys are what they were (`steady`). A crash between the admission and the
head write, followed by the loss of the admitted capsule, lets a receiver admit a competing
batch at the same prefix, as the head that would expose it was never saved.

`ObservedRevocationHolds` has a premise: no other authority of the root contradicts itself. A resource that was
shown two documents of one revision by one issuer is blocked, records nothing any more, and does not latch the root
(a resource that is out of room does). So: the owner's status and the writer's first are shown to two
resources; the first is then shown another document of the writer with the same revision, and is blocked; then it is
shown the owner's revocation, which it does not record. The second resource, asked with the owner's old status, still
permits. The module's comment says that a caller "must commit the observed floors/revocations before reporting
denial" (`memory_vault_open_repair_access.py:3`), which a blocked resource does not do; it takes a writer
that signs two documents of one revision.

A target must be empty, and `FrozenIsHandedOver` has an exception for targets that are not (`Unfit`). It is wide: an open join challenge
counts until another one is made, and a target that is told to drain between the beginning and the commit of an import
refuses the commit for good, since it is not empty then and nothing undoes either. A snapshot may be granted to two targets in turn,
and both may commit it; the source keeps the receipt of one.

## The proofs

Each theorem holds for every value of the constants that satisfies the named assumptions of the modules: relation targets are
records, bounds and versions are natural numbers, signed batches and statuses are well-formed, no process is of two kinds
(`DepsAssumption`, `BoundAssumption`, `VersionsAssumption`, `SignedAssumption`, `StatusesAssumption`, `NetworkAssumption` and so on; TLC evaluates all of them on
the instances). The last column says what a theorem assumes of the faults beyond that.

| Theorem | Of | Statement | Given that |
|---|---|---|---|
| `PublisherTypeOK` | `Publisher` | `[]TypeOK` | |
| `PublishedIsOneStream` | | `[]ExposedIsOneStream` | `state.json` is not lost |
| `StartedStays` | | `StartedIsIrrevocable` | |
| `PublishedIsReviewed` | | `ExposedIsReviewed` | |
| `PublishedIsClosed` | | `[]ExposedIsClosed` | `state.json` is not lost |
| `CursorAlwaysAccounts` | | `[]CursorAccountsForDeliveries` | `state.json` is not lost |
| `HeadAlwaysHasReceipt` | `ForkedExchange` | `[]HeadHasReceipt`: the head is in the vault | |
| `AdmittedIsAlwaysClosed` | | `[]AdmittedIsClosed` | |
| `HeadMovesByOne` | | `HeadAdvancesByOne` | |
| `AcceptedStaysOneStream` | | `[]KeptIsOneStream` | |
| `HeadAlwaysFollowsVault` | | `[]HeadFollowsVault` | |
| `TransferImplementsStream` | `Transfer` | `ImplementsStream`, the refinement of `Stream` | `state.json` is not lost |
| `ContinuationAlwaysIngestible` | | `[]ContinuationIsIngestible` | `state.json` is not lost |
| `ReceiversHoldOneStream` | | `[]AcceptedIsOneStream`, whatever files and keys come and go | `state.json` is not lost |
| `SyncTypesHold` | `SyncWorker` | `[]SyncTypeOK`: no lock has two holders | |
| `AnnouncedAlwaysPending` | | `[]AnnouncedStaysPending` | |
| `RemoteAlwaysPrefix` | | `[]RemoteIsPrefix` | |
| `NothingIsEverForgotten` | `Admissions` | `[]NothingIsForgotten` | |
| `OnlyTheAuthorRetires` | | `[]RetiredByItsAuthor` | |
| `ProofsStay`, `AuthorsStay` | | `NoDemotion`, `AuthorStays` | |
| `CertificatesAlwaysHold` | `ValidationCache` | `[]CertificatesHold` | |
| `ValidationIsComplete` | | `ValidatedIsVerified` | |
| `EnvelopeStaysOne` | `RelayNetwork` | `[]OneEnvelope` | |
| `ReceiptsStayTrue` | | `[]ReceiptIsTrue` | |
| `NothingGetsLost` | | `[]NothingIsLost` | |
| `EndpointsMoveOn` | | `BindingsMoveOn` | |
| `NetworkImplementsMail` | | `ImplementsMail`, the refinement of `Mail` | |
| `NodeStoreStays` | `NodeTransfer` | `[]NodeStoreIsKept` | |
| `ServedStaysDurable` | | `[]ServedIsDurable` | |
| `OpenNothingIsLost` | `OpenDelivery` | `[]NothingIsLost` | |
| `FrozenAlwaysFits` | | `[]FrozenFits` | |
| `NothingStoredAfterRevocation` | | `NothingAfterRevocation` | |
| `DeliveryImplementsMail` | | `ImplementsMail`, the refinement of `Mail` | |
| `ConfirmedStaysUnique` | `AckSlot` | `[]ConfirmedIsUnique` | |
| `RevocationsHold` | | `ObservedRevocationHolds` | |
| `InstallTypes` | `ManagedInstall` | `[]TypeOK` | |
| `PointerAlwaysSound` | | `[]PointerIsSound` | |
| `GenerationsAreOneHistory` | | `[]OneHistory` | |
| `TrustMovesOn` | | `FloorsNeverDrop` | |
| `TrustOfOneRelease`, `TrustAlwaysSigned` | | `[]TrustIsOneRelease`, `[]TrustIsSigned` | |
| `AgreedToAlways` | | `ActiveIsAgreedTo` | |

The assumption about `state.json` is necessary: finding 2 is the counterexample. So is the premise `steady` inside `KeptIsOneStream` and
`HeadFollowsVault`, in front of a forked exchange (see the limits above); behind one publisher (`ReceiversHoldOneStream`) it is not needed.

Almost none of these properties is inductive. What each argument rests on:

**Publisher.** Whether the batch exposed next continues the
stream, or was reviewed, depends on the journal and on where the running call stands. `JInv` is `TypeOK` with
`JournalInv`: a call that copies has passed the review
check, and its guard if it has one, and left its marker, and a review runs only while nothing has started. It speaks neither of cursors
nor of the exchange, so it holds whatever is lost, and `StartedStays` and
`PublishedIsReviewed` follow from it. `IInv` adds `StreamInv`:

- `StateInv`: `state.json` ends at a batch that was visible, or nothing was published;
- `PendingInv`: the frozen batch continues `state.json`, or is the batch it ends at (its bookkeeping is unfinished);
- `FrontierInv`: a visible batch past the cursor is the frozen one and its started marker exists. This
  is what makes the lost output harmless: the marker survives it;
- `ReviewInv`: a replacement has the interval and predecessor of its original;
- `CallInv`: what each point of the running call may rely on about its place in the stream.

Given these, `ExtendsStream` shows that exposing the frozen batch extends the
stream: any visible batch at its prefix lies past the cursor, so by `FrontierInv` it is
the frozen batch itself. `StreamNext` has one case per action. `PublishedIsReviewed` adds
that the files of a completed review never change (`CompletedStays`), so a permission once
given stays, and that what a review keeps has no credential and only approved paths (`KeptInv`), so its replacement passes a guard
also where none is called (`ReviewedPasses`). `CarryInv` is about what batches carry: every batch that is visible or frozen is
closed over what came before it and accounts for the deliveries of its interval; a review is of such a batch, and what it keeps relates to nothing
it excludes (`ReviewedInv`); the members of the index were carried
(`MembersInv`, which is why a thin batch may rely on an index that is only behind); visible batches cover all the
cursor has passed (`CoverInv`). A delivery counts as excluded if a completed review of that interval, not necessarily the
last one, took it out: with several requests an earlier exclusion is confirmed by a later review without being repeated.

**Receivers.** `RecvInv` ties the running call to the files: what it selected is an authenticated continuation of the cursor
and retained, what it fetched may be older than the state it meets, and the vault is closed over each committed batch. It needs no assumption, since
the admission transaction checks the closure itself. `KeepInv` says of a `steady` receiver, whatever faults there are afterwards: `ChoiceInv`, what a call has chosen or committed beyond the head is visible and the
exchange shows no other candidate that could be chosen in its place, and `ChainInv`, the receipts are a chain up to the head and at most one batch past it.

**Refinement.** `TransferImplementsStream` combines both: `TransferInv` says that any two visible batches follow each
other (`Follow`) and that what a receiver committed is all that is visible up to one cursor (`PrefixInv`). Then each step of a
publisher extends `stream` by a continuation of its last batch or stutters, and each admission takes the first batch not taken.

**Sync worker.** `WindowInv` follows a window to its end: one that may still complete its generation leaves nothing announced
undelivered, and an announcement that comes meanwhile has replaced the generation. `RemoteInv` has the upload cursor and
its receipt at most one batch apart, with the interrupted upload known by name; `LockInv` says who may be at which point.

**Vault and cache.** `AdmissionInv` adds to the types what the state of a row says of its signer and author (`RowsInv`), that only
a key that was trusted once has verified anything (`TrustInv`) and that no relation dangles (`ClosedInv`). `CacheInv` is about snapshots: a certificate speaks of its
epoch (`CertInv`), the rows a validation reads are those of its epoch (`SnapshotInv`), and as long as the policy is the one of its beginning, all it has visited is good and
leads only to what is visited, pending or behind a certificate (`WalkInv`). `Leads` is a recursive function; that it is closed under relations is proved by
induction in the form of well-founded sets (`InductiveSet`), level by level.

**Private network.** `NetInv` has a part for the authority, the nodes, the endpoints, the outbox, the processes, their answers and what was
saved. The central notion is what no step takes back (`Later`): versions, incarnations and what an incarnation
stores only grow. So an answer that a process carries is still true of the incarnation it came from, speaks of the present only while that
incarnation serves the address (`AnswersInv`), and a higher document version never names an earlier incarnation.
That the network implements `Mail` follows step by step: who freezes a message seals it unless another process was faster,
who accepts or refuses a row does so with its letter, and a page of receipts confirms what `NetInv` says is in the inbox. It takes one more invariant
(`SortedInv`): whether a letter is saved or refused depends on its content alone, so that several copies of one letter agree.

**Node transfer.** What a source may give up depends on what its target did before any number of interrupted passes, renewed
grants and requests that arrive late. `NodeInv` says that a frozen snapshot is of the rows the source keeps and a receipt names a target that holds it
(`FrozenInv`), that every import, and every grant in a pass or a late request, is of the snapshot its source is frozen at (`ImportInv`, `PassInv`), that a
committed import is whole, that a pass about to save a receipt was told by a target that holds everything, and that the object of each row is durable. It is kept because of what no step of a node takes back (`Goes`: the
freeze, the snapshot of an import, its commit, the order of the rows); each handler is shown to go on in this sense, and one lemma (`GoesKeeps`)
derives the invariant from it.

**Open network.** `OpenInv` holds what a recipient may rely on while it works through a listing without a lock, with other processes listing the same
mailbox, moving the cursor, and messages arriving and expiring: nothing that is stored lies between the entries of a page unless it was
dealt with (`PageOf`), a call past an entry's import has dealt with it (`PageInv`), and sequences are given once (`MailboxInv`). Then moving the cursor to the first entry passes
nothing else. `FrozenInv` counts the frozen envelopes of each mailbox; that the sender counts in the very transaction that freezes is all it takes, and
that room is given once, before anything is frozen. For `Mail` it must not be possible to save or refuse a message that was never sealed, however old
the row, the handle, the thread or the listing is through which it came: all they know of was frozen before (`TraceInv`), and what is frozen
never moves to another mailbox (`FrozenStays`).

**Slots.** `AckInv`: a slot that can be filled or read is bound (`SlotInv`); a request past its first check holds a snapshot of a slot that could take
it, empty or with the same request in it (`RequestInv`), and the second transaction compares the slot with that snapshot; what was confirmed is what the slot holds (`Kept`). For `RevocationsHold`,
`RootInv` says what the ledgers of a root know together: all that any check was shown is recorded at some resource, unless one is blocked; and one is
blocked only for want of room, which latches the root, or because of a contradiction that is recorded (`LedgerInv`). The step that keeps it is
`ObservedKeeps`: of the documents of a check, the first that blocks (there is one, by well-ordering of their revisions) is where the loop ends, and everything before it was
recorded. A grant then passes over nothing: what was said of its authorities is recorded, consistent and not newer than what it brought.

**Installation.** `IInv` has the locks (a signed activation keeps stage commands out, `LockInv`), the store about to be saved, verified
against the one still in place (`StoreInv`), receipts that lead from one sound pointer to the next (`ReceiptInv`), what a command at each point
relies on (`CommandInv`, `AgreementInv`), and generations at most the pointer's (`HistoryInv`). `SignedInv` adds that stores are signed; it
rests on `RotationsAreGenuine`, an induction over the rotations of one directory.

Every invariant, action property and refinement that a passing run checks is proved. Only model-checked are:

- the liveness properties, under fairness (`LiveDeliveriesGetPublished`, `LiveEverythingArrives`, `LiveLogGetsDelivered`,
  `LiveQueuedIsConfirmed`, `LiveFrozenIsHandedOver`), and with them `ENABLED`, which are out of the prover's reach;
- the four disagreements, which are counterexamples.

## What is not modelled

- **Remote backends and file storage** (`_remote`, `_drive`, `_storage`, `_file_copy`, `_pack`): I/O with budgets. Their failures appear as
  steps that may not happen; the fork preflight and the fragment receipts of `_push_pending` do not.
- **Receiving**: `anchor_received`, the v1 envelopes it is for, the limits and the fairness over several peers in one call;
  the one-time `attest_unsigned` mode of publish.
- **Vault core**: recall and ranking, maintenance, the store format.
- **Private network**: hints, endpoint backup, topics, the trial coordinator.
- **Open network**: challenges, routing and its lookups, capacity in bytes, provider facts, the maintained contact directory.
- **Open repair**: bootstrap sessions and their replay rows, conversion and copies on other nodes, mailbox roots and
  snapshots, indexes, cleanup. About seventy files repeat the shape of `AckSlot` (authenticate, check, build, check again, store) with other documents.
- **Device trust and encrypted replication, lifecycle, capture, hosts, imports, sharing**: cryptography, text
  rules and projections of records, mostly without state of their own.
- **Backup, recovery and migration**: offline commands on a quiescent installation, dominated by file formats.
- **The TypeScript client**: a second implementation of the network client; the Python one is the reference.
- Adapters, plugins, packaging and scripts.

`PROJECT.json` gives the reason per component.

## The plan

1. Done: the writer's path (`Publisher`, `Receiver`, `Transfer` against `Stream`, `SyncWorker`), the vault (`Admissions`,
   `ValidationCache`), both networks (`RelayNetwork`, `NodeTransfer`, `OpenDelivery`, `AckSlot`), the installation
   (`UpdateTrust`, `ManagedInstall`); the theorems above.
2. Proofs, each with its inductive invariant model-checked first: that `NodeTransfer` implements one store that moves from node to node.
3. Models: the upload with fragment receipts and fork preflight below the upload step of `SyncWorker`; `anchor_received`; device
   membership epochs; the capacity ledger of an open node; one copy journal of open repair.
