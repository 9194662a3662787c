----------------------------- MODULE Publisher -----------------------------
(***************************************************************************)
(* The publishing half of DirectoryTransfer (memory_vault_transfer.py):    *)
(* publish, resolve_pending and acknowledge_published.                     *)
(*                                                                         *)
(* Each call holds transfer.lock, so at most one call runs; but it changes *)
(* several files one after the other, the process may stop after any of    *)
(* them, and the vault, the trust store and the exchange change meanwhile. *)
(* Every durable write is an action; `op` is what the running call keeps   *)
(* in memory and Stop (a crash, or an exception) forgets it.               *)
(***************************************************************************)
EXTENDS Exchange, Sequences

CONSTANTS
    Request,         \* request ids an operator uses for reviews
    Flagged,         \* records with a local path: published only if approved
    Secret,          \* records with a credential: never publishable
    Publishing,      \* who calls publish: with a guard, as the sync client, or without
    MaxLog,          \* bound on the length of the delivery log
    CallFragments    \* maximum_fragments, the new fragments one call copies

ASSUME PrivacyAssumption == Flagged \subseteq Record /\ Secret \subseteq Record
ASSUME PublishingAssumption == Publishing \subseteq {"guarded", "direct"}
ASSUME BoundAssumption == MaxLog \in Nat /\ CallFragments \in Nat \ {0}

VARIABLES
    log,         \* delivery_log of the source vault: the record of each sequence
    unadmitted,  \* records of the vault whose signer is not trusted now
    pending,     \* publish.pending.json
    started,     \* publish.started.json
    state,       \* the publisher's fields of state.json
    index,       \* head and members of dependency-index.sqlite3
    reviews,     \* publication-reviews/<request>/*.json
    op,          \* the call that holds transfer.lock
    exposed      \* history: the batches ever made visible in the exchange

journal == <<pending, started, state, index, reviews>>
vaultVars == <<log, unadmitted>>
pubVars == <<exchVars, vaultVars, journal, op, exposed>>

\* A call that stands at pc and has copied no fragment yet.
Call(pc, kind, request) == [pc |-> pc, kind |-> kind, copied |-> 0, request |-> request]
Idle == Call("idle", "none", {})

NoState == [exists |-> FALSE, cursor |-> 0, last |-> {}]
NoIndex == [head |-> {}, members |-> {}]

\* The files of one review: how far it got, the batch it is about, what the
\* operator keeps and allows, and the batch that replaces the original.
ReviewFiles(stage, original, keep, allow, replacement) ==
    [stage |-> stage, original |-> original, keep |-> keep, allow |-> allow,
     replacement |-> replacement]
NoReview == ReviewFiles("none", {}, {}, FALSE, {})

PubInit ==
    /\ ExchangeInit
    /\ log = <<>>
    /\ unadmitted = {}
    /\ pending = {}
    /\ started = {}
    /\ state = NoState
    /\ index = NoIndex
    /\ reviews = [q \in Request |-> NoReview]
    /\ op = Idle
    /\ exposed = {}

At(pc) == op.pc = pc
Goto(pc) == op' = [op EXCEPT !.pc = pc]

----------------------------------------------------------------------------
(* What a call reads before it decides. *)

\* The roots of (state.cursor, c] whose whole closure is admitted; the others
\* become signed dispositions or, if not admitted themselves, are passed over.
RootsShort(c) ==         \* mutant: the page misses its last row
    {x \in {log[i] : i \in state.cursor + 1 .. c - 1} : Closure({x}) \cap unadmitted = {}}

Roots(c) ==
    {x \in {log[i] : i \in state.cursor + 1 .. c} : Closure({x}) \cap unadmitted = {}}

\* PublishedBoundary: published members may be left out only while the index
\* head is exactly the batch this publisher published last.
OmissibleByCursor == {log[i] : i \in 1 .. state.cursor}   \* mutant: trust the cursor

Omissible == IF index.head = state.last /\ state.last # {} THEN index.members ELSE {}

FreshBatchUnlinked(c) ==  \* mutant: no link to the predecessor
    LET records == Pull(Roots(c), Omissible)
    IN  Batch(state.cursor, c, {}, records, ~Closed(records), {})

FreshBatch(c) ==
    LET records == Pull(Roots(c), Omissible)
    IN  Batch(state.cursor, c, state.last, records, ~Closed(records), {})

\* A page ends at the head of the log or at an admitted row with more to come.
PageEnd(c) ==
    \/ c = Len(log)
    \/ /\ log[c] \notin unadmitted
       /\ \E i \in c + 1 .. Len(log) : log[i] \notin unadmitted

\* local_path_approvals: the completed local journal of the batch's own review.
ReviewComplete(b) ==
    \A v \in b.review :
        /\ reviews[v.request].stage = "completed"
        /\ reviews[v.request].original = {v.replaces}
        /\ reviews[v.request].replacement = {b}

Approved(b) ==
    UNION {IF reviews[v.request].allow THEN b.records \cap Flagged ELSE {} : v \in b.review}

\* What the publication guard of the sync client lets out (assert_publishable).
GuardPasses(b) ==
    /\ b.records \cap Secret = {}
    /\ b.records \cap Flagged \subseteq Approved(b)

\* The guard is an argument of publish: the sync client passes one, the command
\* line does not.  To read a group it verifies the signatures of the fragments.
Guarded(b) ==
    op.kind = "guarded" => GuardPasses(b) /\ (IsGroup(b) => b.records \cap unadmitted = {})

\* validate_outgoing_payload, for every caller: only a thin batch is looked at.
StillAdmitted(b) == b.thin => Closure(b.records) \cap unadmitted = {}

\* Everything publish checks between the frozen bytes and the started marker.
MayStartUnreviewed(b) ==  \* mutant: the review journal is not read
    StillAdmitted(b) /\ Guarded(b)

MayStart(b) == StillAdmitted(b) /\ ReviewComplete(b) /\ Guarded(b)

\* _prefix_exposed: a started publication or any file at this prefix.
PrefixExposedByFile(b) == \E f \in exch : f.after = b.after   \* mutant: no marker check

PrefixExposed(b) == started # {} \/ \E f \in exch : f.after = b.after

AlreadyPublished(b) == b.cursor = state.cursor /\ state.last = {b}

----------------------------------------------------------------------------
(* publish *)

BeginPublishStrict ==     \* mutant: a finished publication's marker is an error
    /\ At("idle")
    /\ pending = {} => started = {}
    /\ \E kind \in Publishing : op' = Call("open", kind, {})
    /\ UNCHANGED <<exchVars, vaultVars, journal, exposed>>

\* Take the lock, read state.json, and drop a started marker that a finished
\* publication left behind; any other marker without a batch is an error.
BeginPublish ==
    /\ At("idle")
    /\ pending = {} => started \subseteq {Marker(b) : b \in state.last}
    /\ \E kind \in Publishing : op' = Call("open", kind, {})
    /\ started' = IF pending = {} THEN {} ELSE started
    /\ UNCHANGED <<exchVars, vaultVars, pending, state, index, reviews, exposed>>

\* The pending copy of a batch that state.json already records: only finish
\* its bookkeeping (the "recovered_receipt" branch).
RecoverPublished ==
    /\ At("open")
    /\ \E b \in pending : AlreadyPublished(b) /\ started \subseteq {Marker(b)}
    /\ op' = [op EXCEPT !.pc = "exposed", !.kind = "recover"]
    /\ UNCHANGED <<exchVars, vaultVars, journal, exposed>>

\* Continue with the exact bytes frozen by an earlier call; inline records must
\* still be trusted (otherwise "pending_trust_changed").
ResumePending ==
    /\ At("open")
    /\ \E b \in pending :
        /\ ~AlreadyPublished(b)
        /\ b.after = state.cursor
        /\ IsGroup(b) \/ b.records \cap unadmitted = {}
    /\ Goto("frozen")
    /\ UNCHANGED <<exchVars, vaultVars, journal, exposed>>

\* No batch to continue: state.json must exist unless the stream is empty
\* ("publisher_state_missing").
MayFreeze == pending = {} /\ (state.exists \/ exch = {})

\* Sign the next batch and save its bytes before anything is delivered.
Freeze ==
    /\ At("open")
    /\ MayFreeze
    /\ \E c \in state.cursor + 1 .. Len(log) : PageEnd(c) /\ pending' = {FreshBatch(c)}
    /\ Goto("frozen")
    /\ UNCHANGED <<exchVars, vaultVars, started, state, index, reviews, exposed>>

UpToDate ==
    /\ At("open")
    /\ MayFreeze
    /\ state.cursor = Len(log)
    /\ state' = [state EXCEPT !.exists = TRUE]
    /\ op' = Idle
    /\ UNCHANGED <<exchVars, vaultVars, pending, started, index, reviews, exposed>>

\* The started marker, at most one, is durable before anything is exposed.
StartPublication ==
    /\ At("frozen")
    /\ \E b \in pending :
        /\ MayStart(b)
        /\ started \subseteq {Marker(b)}
        /\ started' = {Marker(b)}
    /\ Goto("copying")
    /\ UNCHANGED <<exchVars, vaultVars, pending, state, index, reviews, exposed>>

MayCopyOneMore == op.copied <= CallFragments     \* mutant: off by one

MayCopy == op.copied < CallFragments

\* publish_group_fragments: one new fragment, at most CallFragments in a call.
CopyFragment ==
    /\ At("copying")
    /\ MayCopy
    /\ \E b \in pending : \E x \in b.records :
        /\ NextFragment(b, fragments, x)
        /\ fragments' = fragments \cup {Fragment(b, x)}
    /\ op' = [op EXCEPT !.copied = @ + 1]
    /\ UNCHANGED <<exch, vaultVars, journal, exposed>>

\* The capsule file itself, only after all fragments of its group.
Expose ==
    /\ At("copying")
    /\ \E b \in pending :
        /\ Fragments(b) \subseteq fragments
        /\ exch' = exch \cup {b}
        /\ exposed' = exposed \cup {b}
    /\ Goto("exposed")
    /\ UNCHANGED <<fragments, vaultVars, journal>>

\* _record_published: read the output back and advance the dependency index.
\* A surviving index head must be this batch or its predecessor
\* ("dependency_frontier_incomplete").
RecordPublished ==
    /\ At("exposed")
    /\ \E b \in pending :
        /\ b \in exch
        /\ \A h \in index.head : h = b \/ (h.cursor = b.after /\ b.prev = {h})
        /\ index' = [head |-> {b}, members |-> index.members \cup b.records]
    /\ Goto(IF op.kind = "recover" THEN "saved" ELSE "indexed")
    /\ UNCHANGED <<exchVars, vaultVars, pending, started, state, reviews, exposed>>

\* state.json takes the new cursor and digest.
SaveState ==
    /\ At("indexed")
    /\ \E b \in pending :
        /\ op.kind = "acknowledge" => started \subseteq {Marker(b)}
        /\ state' = [exists |-> TRUE, cursor |-> b.cursor, last |-> {b}]
    /\ Goto("saved")
    /\ UNCHANGED <<exchVars, vaultVars, pending, started, index, reviews, exposed>>

DropPending ==
    /\ At("saved")
    /\ pending' = {}
    /\ Goto("cleaned")
    /\ UNCHANGED <<exchVars, vaultVars, started, state, index, reviews, exposed>>

DropStarted ==
    /\ At("cleaned")
    /\ started' = {}
    /\ op' = Idle
    /\ UNCHANGED <<exchVars, vaultVars, pending, state, index, reviews, exposed>>

Publish ==
    \/ BeginPublish \/ RecoverPublished \/ ResumePending \/ Freeze \/ UpToDate
    \/ StartPublication \/ CopyFragment \/ Expose \/ RecordPublished \/ SaveState
    \/ DropPending \/ DropStarted

----------------------------------------------------------------------------
(* acknowledge_published: an operator records that the identical file is in  *)
(* the exchange, without any trust check; the bookkeeping is publish's own.  *)

Acknowledge ==
    /\ At("idle")
    /\ \E b \in pending :
        /\ state.cursor \in {b.after, b.cursor}
        /\ state.cursor = b.cursor => state.last = {b}
        /\ b \in exch
    /\ op' = Call("exposed", "acknowledge", {})
    /\ UNCHANGED <<exchVars, vaultVars, journal, exposed>>

----------------------------------------------------------------------------
(* resolve_pending: an operator keeps some records of the pending batch and  *)
(* excludes the rest.                                                        *)

Reviewable(b) == b.after = state.cursor /\ ~PrefixExposed(b)

Replacement(b, q, keep) ==
    Batch(b.after, b.cursor, state.last, keep, b.thin, {[request |-> q, replaces |-> b]})

\* The partition is complete by construction; no kept record may relate to an
\* excluded one, secrets have no override, local paths need `allow`.
KeepAllowed(b, keep, allow) ==
    /\ keep \subseteq b.records
    /\ \A x \in keep : Deps[x] \cap (b.records \ keep) = {}
    /\ keep \cap Secret = {}
    /\ allow \/ keep \cap Flagged = {}
    /\ keep \cap unadmitted = {}

\* A new request, or one interrupted before its decision was saved; the
\* request id is bound to its arguments by intent.json.
BeginReview(q, keep, allow) ==
    /\ At("idle")
    /\ \E b \in pending :
        /\ Reviewable(b)
        /\ KeepAllowed(b, keep, allow)
        /\ ReviewComplete(b)
        /\ LET intent == ReviewFiles("intent", {b}, keep, allow, {})
           IN  /\ reviews[q] \in {NoReview, intent}
               /\ reviews' = [reviews EXCEPT ![q] = intent]
    /\ op' = Call("intended", "review", {q})
    /\ UNCHANGED <<exchVars, vaultVars, pending, started, state, index, exposed>>

\* original.json, replacement.json and decision.json, in this order; the first
\* two have no effect without the third.
WriteDecision ==
    /\ At("intended")
    /\ \E q \in op.request : \E b \in reviews[q].original :
        LET keep == reviews[q].keep
        IN  reviews' = [reviews EXCEPT ![q] =
                ReviewFiles("decided", {b}, keep, @.allow, {Replacement(b, q, keep)})]
    /\ Goto("decided")
    /\ UNCHANGED <<exchVars, vaultVars, pending, started, state, index, exposed>>

\* The same request again after a crash: finish the saved decision unchanged.
ResumeReview(q) ==
    /\ At("idle")
    /\ reviews[q].stage = "decided"
    /\ \E b \in pending :
        /\ Reviewable(b)
        /\ b \in reviews[q].original \cup reviews[q].replacement
    /\ \A r \in reviews[q].replacement : IsGroup(r) \/ r.records \cap unadmitted = {}
    /\ op' = Call("decided", "review", {q})
    /\ UNCHANGED <<exchVars, vaultVars, journal, exposed>>

ReplacePending ==
    /\ At("decided")
    /\ \E q \in op.request :
        pending' = IF pending = reviews[q].original THEN reviews[q].replacement ELSE pending
    /\ Goto("replaced")
    /\ UNCHANGED <<exchVars, vaultVars, started, state, index, reviews, exposed>>

CompleteReview ==
    /\ At("replaced")
    /\ \E q \in op.request : reviews' = [reviews EXCEPT ![q].stage = "completed"]
    /\ op' = Idle
    /\ UNCHANGED <<exchVars, vaultVars, pending, started, state, index, exposed>>

Review ==
    \/ \E q \in Request, keep \in SUBSET Record, allow \in BOOLEAN : BeginReview(q, keep, allow)
    \/ \E q \in Request : ResumeReview(q)
    \/ WriteDecision \/ ReplacePending \/ CompleteReview

----------------------------------------------------------------------------
(* What happens around the calls. *)

\* A crash, an exception or an early return: the lock is released, files stay.
Stop ==
    /\ ~At("idle")
    /\ op' = Idle
    /\ UNCHANGED <<exchVars, vaultVars, journal, exposed>>

Logged == {log[i] : i \in 1 .. Len(log)}

\* The vault commits a new record; its relation targets are already there.
Remember(x) ==
    /\ Len(log) < MaxLog
    /\ x \notin Logged
    /\ Deps[x] \subseteq Logged
    /\ log' = Append(log, x)
    /\ UNCHANGED <<exchVars, unadmitted, journal, op, exposed>>

\* requeue_records: deliver an old record again, and after it, in the order of
\* their ids, every admitted record that depends on it.
Dependents(x) == {y \in Logged \ {x} : x \in Closure({y})} \ unadmitted

Requeue(x) ==
    /\ x \in Logged \ unadmitted
    /\ Len(log) + 1 + Cardinality(Dependents(x)) <= MaxLog
    /\ \E s \in [1 .. Cardinality(Dependents(x)) -> Dependents(x)] :
        /\ \A i, j \in DOMAIN s : i < j => s[i] < s[j]
        /\ log' = log \o <<x>> \o s
    /\ UNCHANGED <<exchVars, unadmitted, journal, op, exposed>>

\* The operator revokes the key that signed a record.
Revoke(x) ==
    /\ "trust" \in Faults
    /\ unadmitted' = unadmitted \cup {x}
    /\ UNCHANGED <<exchVars, log, journal, op, exposed>>

LoseIndex ==
    /\ "lose_index" \in Faults
    /\ At("idle")
    /\ index' = NoIndex
    /\ UNCHANGED <<exchVars, vaultVars, pending, started, state, reviews, op, exposed>>

LoseState ==
    /\ "lose_state" \in Faults
    /\ At("idle")
    /\ state' = NoState
    /\ UNCHANGED <<exchVars, vaultVars, pending, started, index, reviews, op, exposed>>

\* receive and receive_capsule of the same endpoint write state.json back, with
\* the publisher's fields as they read them; a missing file reads as an empty one.
RewriteState ==
    /\ At("idle")
    /\ state' = [state EXCEPT !.exists = TRUE]
    /\ UNCHANGED <<exchVars, vaultVars, pending, started, index, reviews, op, exposed>>

LoseOutput ==
    /\ LoseFile \/ LoseFragment
    /\ UNCHANGED <<vaultVars, journal, op, exposed>>

PubEnvironment ==
    \/ Stop
    \/ \E x \in Record : Remember(x) \/ Requeue(x) \/ Revoke(x)
    \/ RewriteState
    \/ LoseIndex \/ LoseState \/ LoseOutput

PubNext == Publish \/ Acknowledge \/ Review \/ PubEnvironment

PubSpec == PubInit /\ [][PubNext]_pubVars

----------------------------------------------------------------------------
(* Properties *)

AtMostOne(S) == \A a, b \in S : a = b

IsBatch(b) ==
    /\ b = Batch(b.after, b.cursor, b.prev, b.records, b.thin, b.review)
    /\ b.after \in Nat /\ b.cursor \in Nat /\ b.after < b.cursor
    /\ b.records \subseteq Record
    /\ b.thin \in BOOLEAN
    /\ \A v \in b.review : v.request \in Request

IsState(s) ==
    /\ s = [exists |-> s.exists, cursor |-> s.cursor, last |-> s.last]
    /\ s.exists \in BOOLEAN /\ s.cursor \in Nat
    /\ AtMostOne(s.last) /\ \A b \in s.last : IsBatch(b)

IsIndex(i) ==
    /\ i = [head |-> i.head, members |-> i.members]
    /\ AtMostOne(i.head) /\ i.members \subseteq Record

IsReview(v) ==
    /\ v = [stage |-> v.stage, original |-> v.original, keep |-> v.keep,
            allow |-> v.allow, replacement |-> v.replacement]
    /\ v.stage \in {"none", "intent", "decided", "completed"}
    /\ v.keep \subseteq Record /\ v.allow \in BOOLEAN
    /\ AtMostOne(v.original) /\ AtMostOne(v.replacement)
    /\ \A b \in v.original \cup v.replacement : IsBatch(b)

PCs == {"idle", "open", "frozen", "copying", "exposed", "indexed", "saved", "cleaned",
        "intended", "decided", "replaced"}
Kinds == {"none", "guarded", "direct", "recover", "acknowledge", "review"}
Calls == [pc : PCs, kind : Kinds, copied : 0 .. CallFragments,
          request : {S \in SUBSET Request : AtMostOne(S)}]

\* Every file of the journal holds values of the shape the code reads back.
TypeOK ==
    /\ log \in Seq(Record)
    /\ unadmitted \subseteq Record
    /\ \A b \in exch \cup exposed \cup pending : IsBatch(b)
    /\ AtMostOne(pending) /\ AtMostOne(started)
    /\ IsState(state)
    /\ IsIndex(index)
    /\ DOMAIN reviews = Request /\ \A q \in Request : IsReview(reviews[q])
    /\ op \in Calls

\* What readers of the exchange have ever been able to see is one stream: no
\* two batches start at the same cursor and each one names its predecessor,
\* wherever publish, resolve_pending and acknowledge_published are cut short.
ExposedIsOneStream == OnePerPrefix(exposed) /\ HashLinked(exposed)

\* Once the started marker is durable the frozen bytes are never rewritten:
\* the pending batch can only stay or be finished with.
StartedIsIrrevocable ==
    [][started # {} => pending' \in {pending, {}}]_pubVars

\* Whoever publishes, a batch of a review gets out only when the journal of the
\* review is complete, and then without a credential or an unapproved path.
ReviewsHold ==
    \A b \in exposed : ReviewComplete(b) /\ (b.review # {} => GuardPasses(b))

\* Reviews bind every publication, and keep what became visible under them; the
\* guard binds the calls that pass one: they make nothing visible that the guard
\* refuses, whoever froze or started the batch (DirectoryTransfer.publish,
\* local_path_approvals).
ExposedIsReviewed ==
    [][/\ ReviewsHold'
       /\ \A b \in exposed' \ exposed : op.kind = "guarded" => GuardPasses(b)]_pubVars

\* A thin batch leaves out only records that the stream really carries: up to
\* every batch the exposed records contain all their relation targets.
ExposedIsClosed ==
    \A b \in exposed :
        Closed(UNION {a.records : a \in {e \in exposed : e.cursor <= b.cursor}})

\* A completed review, the last of its interval or an earlier one, took x out of
\* what was to be published for the interval of b.
Excluded(b, x) ==
    \E q \in Request : \E o \in reviews[q].original, r \in reviews[q].replacement :
        /\ reviews[q].stage = "completed" /\ r.after = b.after /\ r.cursor = b.cursor
        /\ x \in o.records \ r.records

\* The published cursor passes a delivery only when a batch carried it, an
\* operator excluded it, or something it needs is not admitted.
CursorAccountsForDeliveries ==
    \A i \in 1 .. state.cursor :
        \/ \E b \in exposed :
            b.after < i /\ i <= b.cursor /\ (log[i] \in b.records \/ Excluded(b, log[i]))
        \/ Closure({log[i]}) \cap unadmitted # {}

\* A recorded decision to exclude records stands: the batch it replaces does
\* not get out any more, not even when the replacement was interrupted.
DecisionStands ==
    \A q \in Request :
        reviews[q].stage \in {"decided", "completed"} => reviews[q].original \cap exposed = {}

\* "Missing state ... requires explicit reconciliation" (docs/TRANSFER.md): publish
\* signs no batch that competes with one the exchange already holds.
PendingDoesNotCompete ==
    \A b \in pending, e \in exch : b.after = e.after => b = e

\* The steps of the running call, and a call cut short although it could go on
\* (the last step of a call may look like one, when it has nothing left to write).
Continue == ~At("idle") /\ (Publish \/ WriteDecision \/ ReplacePending \/ CompleteReview)
Interrupted == Stop /\ ~Continue /\ ENABLED Continue

\* Interruptions end some day; a call runs to its end or its error; publishing
\* is called again and again, and an interrupted review is taken up again.
PubFairness ==
    /\ <>[][~Interrupted]_pubVars
    /\ WF_pubVars(Continue) /\ WF_pubVars(Stop)
    /\ SF_pubVars(BeginPublish)
    /\ SF_pubVars(\E q \in Request : ResumeReview(q))

FairPubSpec == PubSpec /\ PubFairness

\* Wherever calls are cut short, repeated calls get every delivery past the
\* publisher: no half-written journal blocks the stream for good.
DeliveriesGetPublished ==
    \A c \in 1 .. MaxLog : Len(log) >= c ~> state.cursor >= c
=============================================================================
