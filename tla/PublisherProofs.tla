-------------------------- MODULE PublisherProofs --------------------------
(***************************************************************************)
(* What the publisher guarantees for every vault, every review and every   *)
(* point at which its calls are cut short: type correctness, one stream,   *)
(* nothing rewritten after it started, nothing published unreviewed.       *)
(***************************************************************************)
EXTENDS Publisher, FiniteSetTheorems, FunctionTheorems, SequenceTheorems, TLAPS

----------------------------------------------------------------------------
(* The inductive invariant. *)

\* The batch continues the published stream as state.json records it.
Continues(b) == b.after = state.cursor /\ b.prev = state.last

\* state.json ends at a batch that was visible, or nothing was published.
StateInv ==
    \/ state.last = {} /\ state.cursor = 0
    \/ \E l \in exposed : state.last = {l} /\ l.cursor = state.cursor

\* The frozen batch is the next one, or the last one with its bookkeeping left.
PendingInv ==
    \A b \in pending :
        Continues(b) \/ (state.last = {b} /\ b.cursor = state.cursor)

\* A visible batch past the cursor is the frozen one, and its marker is there.
FrontierInv ==
    \A b \in exposed :
        b.cursor > state.cursor => pending = {b} /\ Continues(b) /\ started # {}

\* A saved decision replaces a batch by one at the same place of the stream.
ReviewInv ==
    \A q \in Request : \A r \in reviews[q].replacement : \E b \in reviews[q].original :
        r.after = b.after /\ r.cursor = b.cursor /\ r.prev = b.prev

\* What the running call may rely on about the journal, whatever state.json says:
\* a started batch is past its review, and a review is of one that did not start.
Stage(v) == reviews[v].stage

\* What StartPublication has found out about the batch that it lets out.
Permitted(b) == ReviewComplete(b) /\ (op.kind = "guarded" => GuardPasses(b))

JournalInv ==
    /\ At("open") => (pending = {} => started = {})
    /\ At("copying") => started # {} /\ \A b \in pending : Permitted(b)
    /\ At("intended") => started = {} /\ \A q \in op.request : Stage(q) = "intent"
    /\ op.pc \in {"decided", "replaced"} =>
        started = {} /\ \A q \in op.request : Stage(q) = "decided"

JInv == TypeOK /\ JournalInv

\* What it may rely on about its place in the stream.
CallInv ==
    /\ op.pc \in {"open", "frozen", "copying"} => op.kind \in {"guarded", "direct"}
    /\ op.pc \in {"frozen", "copying"} => pending # {}
    /\ op.pc \in {"frozen", "copying", "intended", "decided", "replaced"} =>
        \A b \in pending : Continues(b)
    /\ At("exposed") => pending # {} /\ pending \subseteq exposed
    /\ At("exposed") /\ op.kind = "recover" => pending = state.last
    /\ At("indexed") => pending # {} /\ pending \subseteq exposed
    /\ At("saved") => pending = state.last
    /\ At("cleaned") => pending = {}
    /\ At("intended") => \A q \in op.request : reviews[q].original = pending

StreamInv ==
    /\ exch \subseteq exposed
    /\ StateInv /\ PendingInv /\ FrontierInv /\ ReviewInv /\ CallInv
    /\ ExposedIsOneStream

IInv == TypeOK /\ JournalInv /\ StreamInv

----------------------------------------------------------------------------
(* Lemmas about the operators. *)

\* A batch signed for the deliveries after the cursor is well formed, whatever
\* the vault and the dependency index hold.
LEMMA FreshBatchType ==
    ASSUME TypeOK, NEW c \in state.cursor + 1 .. Len(log)
    PROVE  IsBatch(FreshBatch(c)) /\ Continues(FreshBatch(c))
<1>1. state.cursor \in Nat /\ c \in Nat /\ state.cursor < c
    BY DEF TypeOK, IsState
<1>2. Pull(Roots(c), Omissible) \subseteq Record
    BY DEF Pull
<1>3. Closed(Pull(Roots(c), Omissible)) \in BOOLEAN
    BY DEF Closed
<1> QED
    BY <1>1, <1>2, <1>3 DEF FreshBatch, Batch, IsBatch, Continues

\* The batch a review puts in the place of another is well formed and keeps the
\* interval.
LEMMA ReplacementType ==
    ASSUME TypeOK, NEW q \in Request, NEW b \in reviews[q].original
    PROVE  IsBatch(Replacement(b, q, reviews[q].keep))
<1>1. IsBatch(b) /\ reviews[q].keep \subseteq Record
    BY DEF TypeOK, IsReview
<1> QED
    BY <1>1 DEF Replacement, Batch, IsBatch

\* Requeueing a record makes a finite number of new deliveries.
LEMMA DependentsFinite ==
    ASSUME TypeOK, NEW x
    PROVE  /\ Cardinality(Dependents(x)) \in Nat
           /\ Dependents(x) \subseteq Record
<1>1. Len(log) \in Nat /\ DOMAIN log = 1 .. Len(log) /\ \A i \in 1 .. Len(log) : log[i] \in Record
    BY DEF TypeOK
<1>2. IsFiniteSet(1 .. Len(log))
    BY <1>1, FS_Interval
<1>3. [i \in 1 .. Len(log) |-> log[i]] \in Surjection(1 .. Len(log), Logged)
    BY DEF Logged, Surjection
<1>4. IsFiniteSet(Logged)
    BY <1>2, <1>3, FS_Surjection
<1>5. Dependents(x) \in SUBSET Logged
    BY DEF Dependents
<1>6. IsFiniteSet(Dependents(x))
    BY <1>4, <1>5, FS_Subset
<1>7. Logged \subseteq Record
    BY <1>1 DEF Logged
<1> QED
    BY <1>5, <1>6, <1>7, FS_CardinalityType

----------------------------------------------------------------------------
(* Type correctness. *)

LEMMA TypeInit == PubInit => TypeOK
<1> SUFFICES ASSUME PubInit PROVE TypeOK
    OBVIOUS
<1> USE DEF PubInit, ExchangeInit
<1>1. log \in Seq(Record)
    OBVIOUS
<1>2. IsState(state) /\ IsIndex(index)
    BY DEF IsState, IsIndex, NoState, NoIndex, AtMostOne
<1>3. DOMAIN reviews = Request /\ \A q \in Request : IsReview(reviews[q])
    BY DEF IsReview, NoReview, ReviewFiles, AtMostOne
<1>4. op \in Calls
    BY BoundAssumption DEF Idle, Call, Calls, PCs, Kinds, AtMostOne
<1> QED
    BY <1>1, <1>2, <1>3, <1>4 DEF TypeOK, AtMostOne

\* Going on to another point of a call keeps the call well formed.
LEMMA GotoType ==
    ASSUME TypeOK, NEW pc \in PCs, Goto(pc)
    PROVE  op' \in Calls
BY DEF TypeOK, Goto, Calls

\* Every step of the publisher and around it leaves well-formed files.
LEMMA TypeNext == TypeOK /\ [PubNext]_pubVars => TypeOK'
<1> SUFFICES ASSUME TypeOK, [PubNext]_pubVars PROVE TypeOK'
    OBVIOUS
<1> USE DEF pubVars, exchVars, vaultVars, journal
<1>1. CASE BeginPublish
    <2>1. op' \in Calls
        BY <1>1, BoundAssumption, PublishingAssumption
        DEF BeginPublish, Call, Calls, PCs, Kinds, AtMostOne
    <2>2. AtMostOne(started')
        BY <1>1 DEF BeginPublish, TypeOK, AtMostOne
    <2> QED
        BY <1>1, <2>1, <2>2 DEF BeginPublish, TypeOK
<1>2. CASE RecoverPublished
    <2>1. op' \in Calls
        BY <1>2 DEF RecoverPublished, TypeOK, Calls, PCs, Kinds
    <2> QED
        BY <1>2, <2>1 DEF RecoverPublished, TypeOK
<1>3. CASE ResumePending
    BY <1>3, GotoType DEF ResumePending, TypeOK, PCs
<1>4. CASE Freeze
    <2>1. PICK c \in state.cursor + 1 .. Len(log) : pending' = {FreshBatch(c)}
        BY <1>4 DEF Freeze
    <2>2. AtMostOne(pending') /\ \A b \in pending' : IsBatch(b)
        BY <2>1, FreshBatchType DEF AtMostOne
    <2> QED
        BY <1>4, <2>2, GotoType DEF Freeze, TypeOK, PCs
<1>5. CASE UpToDate
    <2>1. op' \in Calls
        BY <1>5, BoundAssumption DEF UpToDate, Idle, Call, Calls, PCs, Kinds, AtMostOne
    <2>2. IsState(state')
        BY <1>5 DEF UpToDate, TypeOK, IsState
    <2> QED
        BY <1>5, <2>1, <2>2 DEF UpToDate, TypeOK
<1>6. CASE StartPublication
    <2>1. AtMostOne(started')
        BY <1>6 DEF StartPublication, AtMostOne
    <2> QED
        BY <1>6, <2>1, GotoType DEF StartPublication, TypeOK, PCs
<1>7. CASE CopyFragment
    <2>1. op' \in Calls
        BY <1>7, BoundAssumption DEF CopyFragment, MayCopy, TypeOK, Calls
    <2> QED
        BY <1>7, <2>1 DEF CopyFragment, TypeOK
<1>8. CASE Expose
    BY <1>8, GotoType DEF Expose, TypeOK, PCs
<1>9. CASE RecordPublished
    <2>1. PICK b \in pending : index' = [head |-> {b}, members |-> index.members \cup b.records]
        BY <1>9 DEF RecordPublished
    <2>2. IsIndex(index')
        BY <2>1 DEF TypeOK, IsIndex, IsBatch, AtMostOne
    <2>3. op' \in Calls
        BY <1>9, GotoType DEF RecordPublished, PCs
    <2> QED
        BY <1>9, <2>2, <2>3 DEF RecordPublished, TypeOK
<1>10. CASE SaveState
    <2>1. IsState(state')
        BY <1>10 DEF SaveState, TypeOK, IsState, IsBatch, AtMostOne
    <2> QED
        BY <1>10, <2>1, GotoType DEF SaveState, TypeOK, PCs
<1>11. CASE DropPending
    BY <1>11, GotoType DEF DropPending, TypeOK, PCs, AtMostOne
<1>12. CASE DropStarted
    <2>1. op' \in Calls
        BY <1>12, BoundAssumption DEF DropStarted, Idle, Call, Calls, PCs, Kinds, AtMostOne
    <2> QED
        BY <1>12, <2>1 DEF DropStarted, TypeOK, AtMostOne
<1>13. CASE Acknowledge
    <2>1. op' \in Calls
        BY <1>13, BoundAssumption DEF Acknowledge, Idle, Call, Calls, PCs, Kinds, AtMostOne
    <2> QED
        BY <1>13, <2>1 DEF Acknowledge, TypeOK
<1>14. ASSUME NEW q \in Request, NEW keep \in SUBSET Record, NEW allow \in BOOLEAN,
              BeginReview(q, keep, allow)
       PROVE  TypeOK'
    <2>1. PICK b \in pending :
            reviews' = [reviews EXCEPT ![q] = ReviewFiles("intent", {b}, keep, allow, {})]
        BY <1>14 DEF BeginReview
    <2>2. IsReview(ReviewFiles("intent", {b}, keep, allow, {}))
        BY DEF IsReview, ReviewFiles, TypeOK, AtMostOne
    <2>3. DOMAIN reviews' = Request /\ \A r \in Request : IsReview(reviews'[r])
        BY <2>1, <2>2 DEF TypeOK
    <2>4. op' \in Calls
        BY <1>14, BoundAssumption DEF BeginReview, Idle, Call, Calls, PCs, Kinds, AtMostOne
    <2> QED
        BY <1>14, <2>3, <2>4 DEF BeginReview, TypeOK
<1>15. ASSUME NEW q \in Request, ResumeReview(q) PROVE TypeOK'
    <2>1. op' \in Calls
        BY <1>15, BoundAssumption DEF ResumeReview, Idle, Call, Calls, PCs, Kinds, AtMostOne
    <2> QED
        BY <1>15, <2>1 DEF ResumeReview, TypeOK
<1>16. CASE WriteDecision
    <2>1. PICK q \in op.request : \E b \in reviews[q].original : reviews' =
            [reviews EXCEPT ![q] = ReviewFiles("decided", {b}, reviews[q].keep, reviews[q].allow,
                                               {Replacement(b, q, reviews[q].keep)})]
        BY <1>16 DEF WriteDecision
    <2>2. q \in Request
        BY DEF TypeOK, Calls
    <2>3. PICK b \in reviews[q].original : reviews' =
            [reviews EXCEPT ![q] = ReviewFiles("decided", {b}, reviews[q].keep, reviews[q].allow,
                                               {Replacement(b, q, reviews[q].keep)})]
        BY <2>1
    <2>4. IsBatch(Replacement(b, q, reviews[q].keep))
        BY <2>2, ReplacementType
    <2>5. IsReview(ReviewFiles("decided", {b}, reviews[q].keep, reviews[q].allow,
                               {Replacement(b, q, reviews[q].keep)}))
        BY <2>2, <2>4 DEF TypeOK, IsReview, ReviewFiles, AtMostOne
    <2>6. DOMAIN reviews' = Request /\ \A r \in Request : IsReview(reviews'[r])
        BY <2>2, <2>3, <2>5 DEF TypeOK
    <2> QED
        BY <1>16, <2>6, GotoType DEF WriteDecision, TypeOK, PCs
<1>17. CASE ReplacePending
    <2>1. PICK q \in op.request :
            pending' = IF pending = reviews[q].original THEN reviews[q].replacement ELSE pending
        BY <1>17 DEF ReplacePending
    <2>2. IsReview(reviews[q])
        BY DEF TypeOK, Calls
    <2>3. AtMostOne(pending') /\ \A b \in pending' : IsBatch(b)
        BY <2>1, <2>2 DEF TypeOK, IsReview
    <2> QED
        BY <1>17, <2>3, GotoType DEF ReplacePending, TypeOK, PCs
<1>18. CASE CompleteReview
    <2>1. PICK q \in op.request : reviews' = [reviews EXCEPT ![q].stage = "completed"]
        BY <1>18 DEF CompleteReview
    <2>2. q \in Request
        BY DEF TypeOK, Calls
    <2>3. IsReview(reviews'[q])
        BY <2>1, <2>2 DEF TypeOK, IsReview
    <2>4. DOMAIN reviews' = Request /\ \A r \in Request : IsReview(reviews'[r])
        BY <2>1, <2>2, <2>3 DEF TypeOK
    <2>5. op' \in Calls
        BY <1>18, BoundAssumption DEF CompleteReview, Idle, Call, Calls, PCs, Kinds, AtMostOne
    <2> QED
        BY <1>18, <2>4, <2>5 DEF CompleteReview, TypeOK
<1>19. CASE Stop
    <2>1. op' \in Calls
        BY <1>19, BoundAssumption DEF Stop, Idle, Call, Calls, PCs, Kinds, AtMostOne
    <2> QED
        BY <1>19, <2>1 DEF Stop, TypeOK
<1>20. ASSUME NEW x \in Record, Remember(x) PROVE TypeOK'
    <2>1. log' \in Seq(Record)
        BY <1>20 DEF Remember, TypeOK
    <2> QED
        BY <1>20, <2>1 DEF Remember, TypeOK
<1>21. ASSUME NEW x \in Record, Requeue(x) PROVE TypeOK'
    <2>1. PICK s \in [1 .. Cardinality(Dependents(x)) -> Dependents(x)] : log' = log \o <<x>> \o s
        BY <1>21 DEF Requeue
    <2>2. s \in Seq(Record)
        BY DependentsFinite
    <2>3. log \o <<x>> \in Seq(Record)
        BY DEF TypeOK
    <2>4. log' \in Seq(Record)
        BY <2>1, <2>2, <2>3
    <2> QED
        BY <1>21, <2>4 DEF Requeue, TypeOK
<1>22. ASSUME NEW x \in Record, Revoke(x) PROVE TypeOK'
    BY <1>22 DEF Revoke, TypeOK
<1>23. CASE LoseIndex
    <2>1. IsIndex(index')
        BY <1>23 DEF LoseIndex, NoIndex, IsIndex, AtMostOne
    <2> QED
        BY <1>23, <2>1 DEF LoseIndex, TypeOK
<1>24. CASE LoseState
    <2>1. IsState(state')
        BY <1>24 DEF LoseState, NoState, IsState, AtMostOne
    <2> QED
        BY <1>24, <2>1 DEF LoseState, TypeOK
<1>25. CASE LoseOutput
    BY <1>25 DEF LoseOutput, LoseFile, LoseFragment, TypeOK
<1>26. CASE RewriteState
    <2>1. IsState(state')
        BY <1>26 DEF RewriteState, TypeOK, IsState
    <2> QED
        BY <1>26, <2>1 DEF RewriteState, TypeOK
<1>27. CASE UNCHANGED pubVars
    BY <1>27 DEF TypeOK
<1> QED
    BY <1>1, <1>2, <1>3, <1>4, <1>5, <1>6, <1>7, <1>8, <1>9, <1>10, <1>11, <1>12, <1>13, <1>14,
       <1>15, <1>16, <1>17, <1>18, <1>19, <1>20, <1>21, <1>22, <1>23, <1>24, <1>25, <1>26, <1>27
    DEF PubNext, Publish, Review, PubEnvironment

\* Files keep the shape the code reads back, wherever calls are cut short and
\* whatever is lost.
THEOREM PublisherTypeOK == PubSpec => []TypeOK
BY TypeInit, TypeNext, PTL DEF PubSpec

----------------------------------------------------------------------------
(* The journal. *)

\* What a call that goes on to pc keeps in memory.
LEMMA GotoKeeps ==
    ASSUME TypeOK, NEW pc \in PCs, Goto(pc)
    PROVE  op'.pc = pc /\ op'.kind = op.kind /\ op'.request = op.request
BY DEF TypeOK, Goto, Calls

LEMMA UnchangedJournal ==
    ASSUME JInv, UNCHANGED <<pending, started, reviews, op>>
    PROVE  JournalInv'
BY DEF JInv, JournalInv, At, Stage, Permitted, ReviewComplete, GuardPasses, Approved

\* Every step keeps what calls rely on about the journal, whatever is lost.
LEMMA JournalNext ==
    ASSUME JInv, [PubNext]_pubVars
    PROVE  JournalInv'
<1> USE DEF pubVars, exchVars, vaultVars, journal
<1>1. CASE BeginPublish
    BY <1>1 DEF BeginPublish, Call, JournalInv, At
<1>2. CASE RecoverPublished
    <2>1. op'.pc = "exposed"
        BY <1>2 DEF RecoverPublished, JInv, TypeOK, Calls
    <2> QED
        BY <2>1 DEF JournalInv, At
<1>3. CASE ResumePending \/ Freeze \/ Expose \/ RecordPublished \/ SaveState \/ DropPending
    <2>1. op'.pc \in {"frozen", "exposed", "saved", "indexed", "cleaned"}
        BY <1>3, GotoKeeps DEF ResumePending, Freeze, Expose, RecordPublished, SaveState,
             DropPending, JInv, PCs
    <2> QED
        BY <2>1 DEF JournalInv, At
<1>4. CASE UpToDate \/ DropStarted \/ Acknowledge \/ CompleteReview \/ Stop
    <2>1. op'.pc \in {"idle", "exposed"}
        BY <1>4 DEF UpToDate, DropStarted, Acknowledge, CompleteReview, Stop, Idle, Call
    <2> QED
        BY <2>1 DEF JournalInv, At
<1>5. CASE StartPublication
    <2>1. op'.pc = "copying" /\ started' # {}
        BY <1>5, GotoKeeps DEF StartPublication, JInv, PCs
    <2>2. \A b \in pending : Permitted(b)
        BY <1>5 DEF StartPublication, MayStart, Guarded, Permitted, JInv, TypeOK, AtMostOne
    <2>3. op'.kind = op.kind
        BY <1>5, GotoKeeps DEF StartPublication, JInv, PCs
    <2>4. \A b \in pending' : Permitted(b)'
        BY <1>5, <2>2, <2>3 DEF StartPublication, Permitted, ReviewComplete, GuardPasses, Approved
    <2> QED
        BY <2>1, <2>4 DEF JournalInv, At
<1>6. CASE CopyFragment
    <2>1. op'.pc = op.pc /\ op.pc = "copying" /\ op'.kind = op.kind
        BY <1>6 DEF CopyFragment, At, JInv, TypeOK, Calls
    <2> QED
        BY <1>6, <2>1
        DEF CopyFragment, JInv, JournalInv, At, Permitted, ReviewComplete, GuardPasses, Approved
<1>7. ASSUME NEW q \in Request, NEW keep \in SUBSET Record, NEW allow \in BOOLEAN,
             BeginReview(q, keep, allow)
      PROVE  JournalInv'
    <2>1. PICK b \in pending :
            /\ Reviewable(b)
            /\ reviews' = [reviews EXCEPT ![q] = ReviewFiles("intent", {b}, keep, allow, {})]
        BY <1>7 DEF BeginReview
    <2>2. started' = {} /\ op'.pc = "intended" /\ op'.request = {q}
        BY <1>7, <2>1 DEF BeginReview, Reviewable, PrefixExposed, Call
    <2>3. Stage(q)' = "intent"
        BY <2>1 DEF JInv, TypeOK, Stage, ReviewFiles
    <2> QED
        BY <2>2, <2>3 DEF JournalInv, At
<1>8. ASSUME NEW q \in Request, ResumeReview(q) PROVE JournalInv'
    <2>1. started' = {} /\ op'.pc = "decided" /\ op'.request = {q}
        BY <1>8 DEF ResumeReview, Reviewable, PrefixExposed, Call
    <2>2. Stage(q)' = "decided"
        BY <1>8 DEF ResumeReview, Stage
    <2> QED
        BY <2>1, <2>2 DEF JournalInv, At
<1>9. CASE WriteDecision
    <2>1. PICK q \in op.request : \E b \in reviews[q].original : reviews' =
            [reviews EXCEPT ![q] = ReviewFiles("decided", {b}, reviews[q].keep, reviews[q].allow,
                                               {Replacement(b, q, reviews[q].keep)})]
        BY <1>9 DEF WriteDecision
    <2>2. op.request = {q} /\ q \in Request
        BY DEF JInv, TypeOK, Calls, AtMostOne
    <2>3. Stage(q)' = "decided"
        BY <2>1, <2>2 DEF JInv, TypeOK, Stage, ReviewFiles
    <2>4. op'.pc = "decided" /\ op'.request = op.request
        BY <1>9, GotoKeeps DEF WriteDecision, JInv, PCs
    <2>5. started' = {}
        BY <1>9 DEF WriteDecision, JInv, JournalInv
    <2> QED
        BY <2>2, <2>3, <2>4, <2>5 DEF JournalInv, At
<1>10. CASE ReplacePending
    <2>1. op'.pc = "replaced" /\ op'.request = op.request
        BY <1>10, GotoKeeps DEF ReplacePending, JInv, PCs
    <2>2. started' = {} /\ \A q \in op.request : Stage(q)' = "decided"
        BY <1>10 DEF ReplacePending, JInv, JournalInv, At, Stage
    <2> QED
        BY <2>1, <2>2 DEF JournalInv, At
<1>11. ASSUME NEW x \in Record, Remember(x) \/ Requeue(x) \/ Revoke(x) PROVE JournalInv'
    BY <1>11, UnchangedJournal DEF Remember, Requeue, Revoke
<1>12. CASE RewriteState \/ LoseIndex \/ LoseState \/ LoseOutput
    BY <1>12, UnchangedJournal DEF RewriteState, LoseIndex, LoseState, LoseOutput
<1>13. CASE UNCHANGED pubVars
    BY <1>13, UnchangedJournal
<1> QED
    BY <1>1, <1>2, <1>3, <1>4, <1>5, <1>6, <1>7, <1>8, <1>9, <1>10, <1>11, <1>12, <1>13
    DEF PubNext, Publish, Review, PubEnvironment

LEMMA JournalHolds == PubSpec => []JInv
<1>1. PubInit => JInv
    BY TypeInit DEF PubInit, JInv, JournalInv, At, Idle, Call
<1>2. JInv /\ [PubNext]_pubVars => JInv'
    BY TypeNext, JournalNext DEF JInv
<1> QED
    BY <1>1, <1>2, PTL DEF PubSpec

----------------------------------------------------------------------------
(* One stream. *)

LEMMA StreamInit == PubInit => StreamInv
BY DEF PubInit, ExchangeInit, StreamInv, StateInv, PendingInv, FrontierInv, ReviewInv, CallInv,
       At, Idle, Call, NoState, NoReview, ReviewFiles, ExposedIsOneStream, OnePerPrefix, HashLinked

\* A batch that continues the published stream makes it longer, without a fork
\* and without a gap.
LEMMA ExtendsStream ==
    ASSUME IInv, NEW b \in pending, Continues(b)
    PROVE  OnePerPrefix(exposed \cup {b}) /\ HashLinked(exposed \cup {b})
<1> USE DEF IInv, StreamInv
<1>1. IsBatch(b) /\ IsState(state) /\ \A a \in exposed : IsBatch(a)
    BY DEF TypeOK
<1>2. ASSUME NEW a \in exposed, a.after = b.after PROVE a = b
    <2>1. a.cursor > state.cursor
        BY <1>1, <1>2 DEF Continues, IsBatch, IsState
    <2> QED
        BY <2>1 DEF FrontierInv
<1>3. OnePerPrefix(exposed \cup {b})
    BY <1>2 DEF OnePerPrefix, ExposedIsOneStream
<1>4. ASSUME b.after > 0 PROVE \E p \in exposed : b.prev = {p} /\ p.cursor = b.after
    BY <1>4 DEF StateInv, Continues
<1>5. HashLinked(exposed \cup {b})
    BY <1>4 DEF HashLinked, ExposedIsOneStream
<1> QED
    BY <1>3, <1>5

\* The part of the invariant that no step of a call's memory can disturb.
FilesInv ==
    /\ exch \subseteq exposed
    /\ StateInv /\ PendingInv /\ FrontierInv /\ ReviewInv
    /\ ExposedIsOneStream

LEMMA FilesUnchanged ==
    ASSUME IInv, exch' \subseteq exch, started' = started,
           UNCHANGED <<pending, state, reviews, exposed>>
    PROVE  FilesInv'
BY DEF IInv, StreamInv, FilesInv, StateInv, PendingInv, FrontierInv, ReviewInv, Continues,
       ExposedIsOneStream

\* The environment, and an interruption, take nothing away from a call.
LEMMA IdleCall ==
    ASSUME op'.pc = "idle"
    PROVE  CallInv'
BY DEF CallInv, At

LEMMA UnchangedCall ==
    ASSUME IInv, UNCHANGED <<pending, started, state, reviews, op, exposed>>
    PROVE  CallInv'
BY DEF IInv, StreamInv, CallInv, At, Continues

\* Every step leaves one stream, provided state.json is not lost.
LEMMA StreamNext ==
    ASSUME "lose_state" \notin Faults, IInv, [PubNext]_pubVars
    PROVE  StreamInv'
<1> USE DEF pubVars, exchVars, vaultVars, journal
<1> SUFFICES FilesInv' /\ CallInv'
    BY DEF FilesInv, StreamInv
<1>1. CASE BeginPublish
    <2>1. FilesInv'
        BY <1>1 DEF BeginPublish, IInv, StreamInv, FilesInv, StateInv, PendingInv, FrontierInv,
                    ReviewInv, Continues, ExposedIsOneStream
    <2>2. CallInv'
        BY <1>1, PublishingAssumption DEF BeginPublish, Call, CallInv, At
    <2> QED
        BY <2>1, <2>2
<1>2. CASE RecoverPublished
    <2>1. FilesInv'
        BY <1>2, FilesUnchanged DEF RecoverPublished
    <2>2. op'.pc = "exposed" /\ op'.kind = "recover"
        BY <1>2 DEF RecoverPublished, IInv, TypeOK, Calls
    <2>3. pending # {} /\ pending = state.last /\ pending \subseteq exposed
        BY <1>2 DEF RecoverPublished, AlreadyPublished, IInv, TypeOK, AtMostOne, StreamInv, StateInv
    <2> QED
        BY <1>2, <2>1, <2>2, <2>3 DEF RecoverPublished, CallInv, At
<1>3. CASE ResumePending
    <2>1. FilesInv'
        BY <1>3, FilesUnchanged DEF ResumePending
    <2>2. op'.pc = "frozen"
        BY <1>3, GotoKeeps DEF ResumePending, IInv, PCs
    <2>4. op.pc = "open" /\ op'.kind = op.kind
        BY <1>3, GotoKeeps DEF ResumePending, IInv, PCs, At
    <2>3. pending # {} /\ \A b \in pending : Continues(b)
        BY <1>3 DEF ResumePending, AlreadyPublished, IInv, TypeOK, AtMostOne, StreamInv, PendingInv
    <2> QED
        BY <1>3, <2>1, <2>2, <2>3, <2>4
        DEF ResumePending, IInv, StreamInv, CallInv, At, Continues
<1>4. CASE Freeze
    <2>1. PICK c \in state.cursor + 1 .. Len(log) : pending' = {FreshBatch(c)}
        BY <1>4 DEF Freeze
    <2>2. Continues(FreshBatch(c))
        BY FreshBatchType DEF IInv
    <2>3. \A b \in pending' : Continues(b)'
        BY <1>4, <2>1, <2>2 DEF Freeze, Continues
    <2>4. FilesInv'
        BY <1>4, <2>3 DEF Freeze, MayFreeze, IInv, StreamInv, FilesInv, StateInv, PendingInv,
                          FrontierInv, ReviewInv, ExposedIsOneStream
    <2>5. op'.pc = "frozen" /\ op.pc = "open" /\ op'.kind = op.kind
        BY <1>4, GotoKeeps DEF Freeze, IInv, PCs, At
    <2> QED
        BY <2>1, <2>3, <2>4, <2>5 DEF IInv, StreamInv, CallInv, At
<1>5. CASE UpToDate
    <2>1. state'.cursor = state.cursor /\ state'.last = state.last
        BY <1>5 DEF UpToDate, IInv, TypeOK, IsState
    <2>2. FilesInv'
        BY <1>5, <2>1 DEF UpToDate, IInv, StreamInv, FilesInv, StateInv, PendingInv,
                          FrontierInv, ReviewInv, Continues, ExposedIsOneStream
    <2> QED
        BY <1>5, <2>2, IdleCall DEF UpToDate, Idle, Call
<1>6. CASE StartPublication
    <2>1. op'.pc = "copying" /\ op.pc = "frozen" /\ op'.kind = op.kind
        BY <1>6, GotoKeeps DEF StartPublication, IInv, PCs, At
    <2>2. FilesInv'
        BY <1>6 DEF StartPublication, IInv, StreamInv, FilesInv, StateInv, PendingInv,
                    FrontierInv, ReviewInv, Continues, ExposedIsOneStream
    <2>3. pending # {} /\ \A b \in pending : Continues(b)
        BY <1>6 DEF StartPublication, IInv, StreamInv, CallInv, At
    <2>4. \A b \in pending' : Continues(b)'
        BY <1>6, <2>3 DEF StartPublication, Continues
    <2>5. pending' # {} /\ op'.kind \in {"guarded", "direct"}
        BY <1>6, <2>1, <2>3 DEF StartPublication, IInv, StreamInv, CallInv
    <2> QED
        BY <2>1, <2>2, <2>3, <2>4, <2>5 DEF CallInv, At
<1>7. CASE CopyFragment
    <2>1. FilesInv'
        BY <1>7, FilesUnchanged DEF CopyFragment
    <2>2. op'.pc = op.pc /\ op'.kind = op.kind /\ op'.request = op.request
        BY <1>7 DEF CopyFragment, IInv, TypeOK, Calls
    <2> QED
        BY <1>7, <2>1, <2>2 DEF CopyFragment, IInv, StreamInv, CallInv, At, Continues
<1>8. CASE Expose
    <2>1. PICK b \in pending : exch' = exch \cup {b} /\ exposed' = exposed \cup {b}
        BY <1>8 DEF Expose
    <2>2. pending = {b} /\ Continues(b) /\ started # {}
        BY <1>8 DEF Expose, IInv, TypeOK, AtMostOne, JournalInv, StreamInv, CallInv, At
    <2>3. ExposedIsOneStream'
        BY <1>8, <2>1, <2>2, ExtendsStream DEF ExposedIsOneStream
    <2>4. FilesInv'
        BY <1>8, <2>1, <2>2, <2>3 DEF Expose, IInv, StreamInv, FilesInv, StateInv, PendingInv,
             FrontierInv, ReviewInv, Continues
    <2>5. op'.pc = "exposed" /\ op'.kind = op.kind
        BY <1>8, GotoKeeps DEF Expose, IInv, PCs
    <2> QED
        BY <1>8, <2>1, <2>2, <2>4, <2>5 DEF Expose, IInv, StreamInv, CallInv, At
<1>9. CASE RecordPublished
    <2>1. FilesInv'
        BY <1>9, FilesUnchanged DEF RecordPublished
    <2>2. op'.pc \in {"indexed", "saved"} /\ (op'.pc = "saved" => op.kind = "recover")
        BY <1>9, GotoKeeps DEF RecordPublished, IInv, PCs
    <2>3. pending # {} /\ pending \subseteq exposed /\ (op.kind = "recover" => pending = state.last)
        BY <1>9 DEF RecordPublished, IInv, StreamInv, CallInv
    <2> QED
        BY <1>9, <2>1, <2>2, <2>3 DEF RecordPublished, CallInv, At
<1>10. CASE SaveState
    <2>1. PICK b \in pending : state' = [exists |-> TRUE, cursor |-> b.cursor, last |-> {b}]
        BY <1>10 DEF SaveState
    <2>2. pending = {b} /\ b \in exposed
        BY <1>10 DEF SaveState, IInv, TypeOK, AtMostOne, StreamInv, CallInv
    <2>3. state'.last = {b} /\ state'.cursor = b.cursor
        BY <2>1
    <2>4. state.cursor <= b.cursor
        BY DEF IInv, TypeOK, IsBatch, IsState, StreamInv, PendingInv, Continues
    <2>5. StateInv' /\ PendingInv'
        BY <1>10, <2>2, <2>3 DEF SaveState, StateInv, PendingInv
    <2>6. \A a \in exposed : a.cursor <= b.cursor
        <3> SUFFICES ASSUME NEW a \in exposed, a # b PROVE a.cursor <= b.cursor
            BY DEF IInv, TypeOK, IsBatch
        <3>1. ~(a.cursor > state.cursor)
            BY <2>2 DEF IInv, StreamInv, FrontierInv
        <3>2. a.cursor \in Nat /\ b.cursor \in Nat /\ state.cursor \in Nat
            BY DEF IInv, TypeOK, IsBatch, IsState
        <3> QED
            BY <3>1, <3>2, <2>4
    <2>7. FrontierInv'
        BY <1>10, <2>3, <2>6 DEF SaveState, FrontierInv, IInv, TypeOK, IsBatch
    <2>8. FilesInv'
        BY <1>10, <2>5, <2>7 DEF SaveState, IInv, StreamInv, FilesInv, ReviewInv, ExposedIsOneStream
    <2>9. op'.pc = "saved"
        BY <1>10, GotoKeeps DEF SaveState, IInv, PCs
    <2> QED
        BY <1>10, <2>2, <2>3, <2>8, <2>9 DEF SaveState, CallInv, At
<1>11. CASE DropPending
    <2>1. \A b \in exposed : b.cursor <= state.cursor
        <3> SUFFICES ASSUME NEW b \in exposed, b.cursor > state.cursor PROVE FALSE
            BY DEF IInv, TypeOK, IsBatch, IsState
        <3>1. pending = {b} /\ pending = state.last
            BY <1>11 DEF DropPending, IInv, StreamInv, FrontierInv, CallInv
        <3>2. state.cursor = b.cursor
            BY <3>1 DEF IInv, StreamInv, StateInv
        <3> QED
            BY <3>2 DEF IInv, TypeOK, IsState
    <2>2. FrontierInv'
        BY <1>11, <2>1 DEF DropPending, FrontierInv, IInv, TypeOK, IsBatch, IsState
    <2>3. FilesInv'
        BY <1>11, <2>2 DEF DropPending, IInv, StreamInv, FilesInv, StateInv, PendingInv, ReviewInv,
                           ExposedIsOneStream
    <2>4. op'.pc = "cleaned"
        BY <1>11, GotoKeeps DEF DropPending, IInv, PCs
    <2> QED
        BY <1>11, <2>3, <2>4 DEF DropPending, CallInv, At
<1>12. CASE DropStarted
    <2>1. pending = {}
        BY <1>12 DEF DropStarted, IInv, StreamInv, CallInv
    <2>2. FilesInv'
        BY <1>12, <2>1 DEF DropStarted, IInv, StreamInv, FilesInv, StateInv, PendingInv, FrontierInv,
                           ReviewInv, Continues, ExposedIsOneStream
    <2> QED
        BY <1>12, <2>2, IdleCall DEF DropStarted, Idle, Call
<1>13. CASE Acknowledge
    <2>1. FilesInv'
        BY <1>13, FilesUnchanged DEF Acknowledge
    <2>2. pending # {} /\ pending \subseteq exposed
        BY <1>13 DEF Acknowledge, IInv, TypeOK, AtMostOne, StreamInv
    <2> QED
        BY <1>13, <2>1, <2>2 DEF Acknowledge, Call, CallInv, At
<1>14. ASSUME NEW q \in Request, NEW keep \in SUBSET Record, NEW allow \in BOOLEAN,
              BeginReview(q, keep, allow)
       PROVE  FilesInv' /\ CallInv'
    <2>1. PICK b \in pending :
            /\ Reviewable(b)
            /\ reviews' = [reviews EXCEPT ![q] = ReviewFiles("intent", {b}, keep, allow, {})]
        BY <1>14 DEF BeginReview
    <2>2. pending = {b} /\ started = {} /\ b.after = state.cursor
        BY <2>1 DEF IInv, TypeOK, AtMostOne, Reviewable, PrefixExposed
    <2>3. Continues(b)
        BY <2>2 DEF IInv, TypeOK, IsBatch, StreamInv, PendingInv, Continues
    <2>4. reviews'[q] = ReviewFiles("intent", {b}, keep, allow, {})
        BY <2>1 DEF IInv, TypeOK
    <2>5. \A r \in Request \ {q} : reviews'[r] = reviews[r]
        BY <2>1 DEF IInv, TypeOK
    <2>6. ReviewInv'
        BY <2>4, <2>5 DEF ReviewFiles, ReviewInv, IInv, StreamInv
    <2>7. FilesInv'
        BY <1>14, <2>6 DEF BeginReview, IInv, StreamInv, FilesInv, StateInv, PendingInv, FrontierInv,
                           Continues, ExposedIsOneStream
    <2>8. op'.pc = "intended" /\ op'.request = {q}
        BY <1>14 DEF BeginReview, Call
    <2>9. \A a \in pending' : Continues(a)'
        BY <1>14, <2>2, <2>3 DEF BeginReview, Continues
    <2>10. reviews'[q].original = pending'
        BY <1>14, <2>2, <2>4 DEF BeginReview, ReviewFiles
    <2> QED
        BY <2>7, <2>8, <2>9, <2>10 DEF CallInv, At
<1>15. ASSUME NEW q \in Request, ResumeReview(q) PROVE FilesInv' /\ CallInv'
    <2>1. FilesInv'
        BY <1>15, FilesUnchanged DEF ResumeReview
    <2>2. PICK b \in pending : Reviewable(b)
        BY <1>15 DEF ResumeReview
    <2>3. pending = {b} /\ started = {} /\ b.after = state.cursor
        BY <2>2 DEF IInv, TypeOK, AtMostOne, Reviewable, PrefixExposed
    <2>4. Continues(b)
        BY <2>3 DEF IInv, TypeOK, IsBatch, StreamInv, PendingInv, Continues
    <2>5. \A a \in pending' : Continues(a)'
        BY <1>15, <2>3, <2>4 DEF ResumeReview, Continues
    <2> QED
        BY <1>15, <2>1, <2>5 DEF ResumeReview, Call, CallInv, At
<1>16. CASE WriteDecision
    <2>1. PICK q \in op.request : \E b \in reviews[q].original : reviews' =
            [reviews EXCEPT ![q] = ReviewFiles("decided", {b}, reviews[q].keep, reviews[q].allow,
                                               {Replacement(b, q, reviews[q].keep)})]
        BY <1>16 DEF WriteDecision
    <2>2. PICK b \in reviews[q].original : reviews' =
            [reviews EXCEPT ![q] = ReviewFiles("decided", {b}, reviews[q].keep, reviews[q].allow,
                                               {Replacement(b, q, reviews[q].keep)})]
        BY <2>1
    <2>3. q \in Request /\ reviews[q].original = pending /\ \A a \in pending : Continues(a)
        BY <1>16 DEF WriteDecision, IInv, TypeOK, Calls, StreamInv, CallInv, At
    <2> DEFINE r == Replacement(b, q, reviews[q].keep)
    <2>4. r.after = b.after /\ r.cursor = b.cursor /\ r.prev = b.prev
        BY <2>3 DEF Continues, Replacement, Batch
    <2>5. reviews'[q] = ReviewFiles("decided", {b}, reviews[q].keep, reviews[q].allow, {r})
        BY <2>2, <2>3 DEF IInv, TypeOK
    <2>6. \A p \in Request \ {q} : reviews'[p] = reviews[p]
        BY <2>2 DEF IInv, TypeOK
    <2>7. ReviewInv'
        <3> HIDE DEF r
        <3> QED
            BY <2>4, <2>5, <2>6 DEF ReviewFiles, ReviewInv, IInv, StreamInv
    <2>8. FilesInv'
        BY <1>16, <2>7 DEF WriteDecision, IInv, StreamInv, FilesInv, StateInv, PendingInv,
                           FrontierInv, Continues, ExposedIsOneStream
    <2>9. op'.pc = "decided" /\ op'.request = op.request
        BY <1>16, GotoKeeps DEF WriteDecision, IInv, PCs
    <2> QED
        BY <1>16, <2>3, <2>8, <2>9 DEF WriteDecision, CallInv, At, Continues
<1>17. CASE ReplacePending
    <2>1. PICK q \in op.request :
            pending' = IF pending = reviews[q].original THEN reviews[q].replacement ELSE pending
        BY <1>17 DEF ReplacePending
    <2>2. q \in Request /\ started = {} /\ \A b \in pending : Continues(b)
        BY <1>17 DEF ReplacePending, IInv, TypeOK, Calls, JournalInv, StreamInv, CallInv, At
    <2>3. \A r \in pending' : Continues(r)'
        <3>1. CASE pending = reviews[q].original
            <4>1. \A r \in reviews[q].replacement : Continues(r)
                BY <2>2, <3>1 DEF IInv, StreamInv, ReviewInv, Continues
            <4> QED
                BY <1>17, <2>1, <3>1, <4>1 DEF ReplacePending, Continues
        <3>2. CASE pending # reviews[q].original
            BY <1>17, <2>1, <2>2, <3>2 DEF ReplacePending, Continues
        <3> QED
            BY <3>1, <3>2
    <2>4. \A b \in exposed : ~(b.cursor > state.cursor)
        BY <2>2 DEF IInv, StreamInv, FrontierInv
    <2>5. FilesInv'
        BY <1>17, <2>3, <2>4 DEF ReplacePending, IInv, StreamInv, FilesInv, StateInv, PendingInv,
                                 FrontierInv, ReviewInv, ExposedIsOneStream
    <2>6. op'.pc = "replaced" /\ op'.request = op.request
        BY <1>17, GotoKeeps DEF ReplacePending, IInv, PCs
    <2> QED
        BY <2>3, <2>5, <2>6 DEF CallInv, At
<1>18. CASE CompleteReview
    <2>1. PICK q \in op.request : reviews' = [reviews EXCEPT ![q].stage = "completed"]
        BY <1>18 DEF CompleteReview
    <2>2. \A p \in Request : reviews'[p].original = reviews[p].original
                             /\ reviews'[p].replacement = reviews[p].replacement
        BY <2>1 DEF IInv, TypeOK, IsReview
    <2>3. FilesInv'
        BY <1>18, <2>2 DEF CompleteReview, IInv, StreamInv, FilesInv, StateInv, PendingInv,
                           FrontierInv, ReviewInv, Continues, ExposedIsOneStream
    <2> QED
        BY <1>18, <2>3, IdleCall DEF CompleteReview, Idle, Call
<1>19. CASE Stop
    BY <1>19, FilesUnchanged, IdleCall DEF Stop, Idle, Call
<1>20. ASSUME NEW x \in Record, Remember(x) \/ Requeue(x) \/ Revoke(x) PROVE FilesInv' /\ CallInv'
    <2>1. UNCHANGED <<exch, journal, op, exposed>>
        BY <1>20 DEF Remember, Requeue, Revoke
    <2> QED
        BY <2>1, FilesUnchanged, UnchangedCall
<1>21. CASE LoseIndex
    BY <1>21, FilesUnchanged, UnchangedCall DEF LoseIndex
<1>22. CASE LoseOutput
    BY <1>22, FilesUnchanged, UnchangedCall DEF LoseOutput, LoseFile, LoseFragment
<1>23. CASE UNCHANGED pubVars
    BY <1>23, FilesUnchanged, UnchangedCall
<1>24. CASE RewriteState
    <2>1. state'.cursor = state.cursor /\ state'.last = state.last
        BY <1>24 DEF RewriteState, IInv, TypeOK, IsState
    <2>2. FilesInv'
        BY <1>24, <2>1 DEF RewriteState, IInv, StreamInv, FilesInv, StateInv, PendingInv,
                           FrontierInv, ReviewInv, Continues, ExposedIsOneStream
    <2> QED
        BY <1>24, <2>2, IdleCall DEF RewriteState, At
<1>25. ~LoseState
    BY DEF LoseState
<1> QED
    BY <1>1, <1>2, <1>3, <1>4, <1>5, <1>6, <1>7, <1>8, <1>9, <1>10, <1>11, <1>12, <1>13, <1>14,
       <1>15, <1>16, <1>17, <1>18, <1>19, <1>20, <1>21, <1>22, <1>23, <1>24,
       <1>25
    DEF PubNext, Publish, Review, PubEnvironment

LEMMA InvariantHolds ==
    ASSUME "lose_state" \notin Faults
    PROVE  PubSpec => []IInv
<1>1. PubInit => StreamInv
    BY StreamInit
<1>2. JInv /\ StreamInv /\ [PubNext]_pubVars => StreamInv'
    BY StreamNext DEF IInv, JInv
<1>3. JInv /\ StreamInv => IInv
    BY DEF IInv, JInv
<1> QED
    BY <1>1, <1>2, <1>3, JournalHolds, PTL DEF PubSpec

\* For every vault, review and crash: what readers have ever been able to see
\* is one hash-linked stream without a fork, as long as state.json is kept.
THEOREM PublishedIsOneStream ==
    ASSUME "lose_state" \notin Faults
    PROVE  PubSpec => []ExposedIsOneStream
<1>1. IInv => ExposedIsOneStream
    BY DEF IInv, StreamInv
<1> QED
    BY <1>1, InvariantHolds, PTL

----------------------------------------------------------------------------
(* Frozen bytes and reviews. *)

\* No step rewrites a batch whose publication has started.
LEMMA StartedStep ==
    ASSUME JInv, [PubNext]_pubVars, started # {}
    PROVE  pending' \in {pending, {}}
<1> USE DEF pubVars, journal
<1>1. CASE Freeze
    BY <1>1 DEF Freeze, MayFreeze, JInv, JournalInv
<1>2. CASE ReplacePending
    BY <1>2 DEF ReplacePending, JInv, JournalInv, At
<1>3. CASE Publish /\ ~Freeze
    BY <1>3 DEF Publish, BeginPublish, RecoverPublished, ResumePending, UpToDate, StartPublication,
         CopyFragment, Expose, RecordPublished, SaveState, DropPending, DropStarted
<1>4. CASE (Review /\ ~ReplacePending) \/ Acknowledge
    BY <1>4 DEF Review, BeginReview, ResumeReview, WriteDecision, CompleteReview, Acknowledge
<1>5. CASE PubEnvironment \/ UNCHANGED pubVars
    BY <1>5 DEF PubEnvironment, Stop, Remember, Requeue, Revoke, RewriteState, LoseIndex,
         LoseState, LoseOutput
<1> QED
    BY <1>1, <1>2, <1>3, <1>4, <1>5 DEF PubNext

\* For every vault, review, crash and loss: once the started marker is durable,
\* the frozen bytes stay as they are until the publication is finished.
THEOREM StartedStays == PubSpec => StartedIsIrrevocable
<1>1. JInv /\ [PubNext]_pubVars => [started # {} => pending' \in {pending, {}}]_pubVars
    BY StartedStep
<1> QED
    BY <1>1, JournalHolds, PTL DEF PubSpec, StartedIsIrrevocable

\* The files of a completed review never change.
LEMMA CompletedStays ==
    ASSUME JInv, [PubNext]_pubVars, NEW q \in Request, Stage(q) = "completed"
    PROVE  reviews'[q] = reviews[q]
<1> USE DEF pubVars, journal
<1>1. ASSUME NEW p \in Request, NEW keep, NEW allow, BeginReview(p, keep, allow)
      PROVE  reviews'[q] = reviews[q]
    <2>1. Stage(p) \in {"none", "intent"}
        BY <1>1 DEF BeginReview, Stage, NoReview, ReviewFiles
    <2> QED
        BY <1>1, <2>1 DEF BeginReview, JInv, TypeOK
<1>2. CASE WriteDecision
    <2>1. \A p \in op.request : Stage(p) = "intent"
        BY <1>2 DEF WriteDecision, JInv, JournalInv
    <2> QED
        BY <1>2, <2>1 DEF WriteDecision, JInv, TypeOK
<1>3. CASE CompleteReview
    <2>1. \A p \in op.request : Stage(p) = "decided"
        BY <1>3 DEF CompleteReview, JInv, JournalInv, At
    <2> QED
        BY <1>3, <2>1 DEF CompleteReview, JInv, TypeOK
<1>4. CASE Publish
    BY <1>4 DEF Publish, BeginPublish, RecoverPublished, ResumePending, Freeze, UpToDate,
         StartPublication, CopyFragment, Expose, RecordPublished, SaveState, DropPending, DropStarted
<1>5. CASE ReplacePending \/ Acknowledge \/ \E p \in Request : ResumeReview(p)
    BY <1>5 DEF ReplacePending, Acknowledge, ResumeReview
<1>6. CASE PubEnvironment \/ UNCHANGED pubVars
    BY <1>6 DEF PubEnvironment, Stop, Remember, Requeue, Revoke, RewriteState, LoseIndex,
         LoseState, LoseOutput
<1> QED
    BY <1>1, <1>2, <1>3, <1>4, <1>5, <1>6 DEF PubNext, Review

\* So a batch that may be published under its review keeps that permission.
LEMMA ReviewCompleteStays ==
    ASSUME JInv, [PubNext]_pubVars, NEW b, IsBatch(b), ReviewComplete(b)
    PROVE  /\ ReviewComplete(b)'
           /\ b.review # {} => Approved(b)' = Approved(b)
<1>1. \A v \in b.review : v.request \in Request /\ Stage(v.request) = "completed"
    BY DEF IsBatch, ReviewComplete, Stage
<1>2. \A v \in b.review : reviews'[v.request] = reviews[v.request]
    BY <1>1, CompletedStays
<1> QED
    BY <1>2 DEF ReviewComplete, Approved

\* What an operator keeps has no credential, and local paths only if allowed; the
\* replacement carries exactly what is kept.
Kept(v) ==
    /\ v.keep \cap Secret = {}
    /\ v.allow \/ v.keep \cap Flagged = {}
    /\ \A r \in v.replacement : r.records = v.keep

KeptInv == \A q \in Request : Kept(reviews[q])

LEMMA KeptNext ==
    ASSUME JInv, KeptInv, [PubNext]_pubVars
    PROVE  KeptInv'
<1> USE DEF pubVars, journal
<1>1. ASSUME NEW q \in Request, NEW keep \in SUBSET Record, NEW allow \in BOOLEAN,
             BeginReview(q, keep, allow)
      PROVE  KeptInv'
    <2>1. PICK b \in pending :
            /\ KeepAllowed(b, keep, allow)
            /\ reviews' = [reviews EXCEPT ![q] = ReviewFiles("intent", {b}, keep, allow, {})]
        BY <1>1 DEF BeginReview
    <2>2. Kept(ReviewFiles("intent", {b}, keep, allow, {}))
        BY <2>1 DEF KeepAllowed, Kept, ReviewFiles
    <2> QED
        BY <2>1, <2>2 DEF JInv, TypeOK, KeptInv
<1>2. CASE WriteDecision
    <2>1. PICK q \in op.request : \E b \in reviews[q].original : reviews' =
            [reviews EXCEPT ![q] = ReviewFiles("decided", {b}, reviews[q].keep, reviews[q].allow,
                                               {Replacement(b, q, reviews[q].keep)})]
        BY <1>2 DEF WriteDecision
    <2>2. q \in Request
        BY DEF JInv, TypeOK, Calls
    <2>3. PICK b \in reviews[q].original : reviews' =
            [reviews EXCEPT ![q] = ReviewFiles("decided", {b}, reviews[q].keep, reviews[q].allow,
                                               {Replacement(b, q, reviews[q].keep)})]
        BY <2>1
    <2>4. Kept(reviews'[q])
        BY <2>2, <2>3 DEF KeptInv, Kept, ReviewFiles, Replacement, Batch, JInv, TypeOK
    <2> QED
        BY <2>2, <2>3, <2>4 DEF JInv, TypeOK, KeptInv
<1>3. CASE CompleteReview
    <2>1. PICK q \in op.request : reviews' = [reviews EXCEPT ![q].stage = "completed"]
        BY <1>3 DEF CompleteReview
    <2>2. q \in Request
        BY DEF JInv, TypeOK, Calls
    <2>3. Kept(reviews'[q])
        BY <2>1, <2>2 DEF KeptInv, Kept, JInv, TypeOK, IsReview
    <2> QED
        BY <2>1, <2>2, <2>3 DEF JInv, TypeOK, KeptInv
<1>4. CASE Publish
    BY <1>4 DEF Publish, BeginPublish, RecoverPublished, ResumePending, Freeze, UpToDate, KeptInv,
         StartPublication, CopyFragment, Expose, RecordPublished, SaveState, DropPending, DropStarted
<1>5. CASE ReplacePending \/ Acknowledge \/ \E q \in Request : ResumeReview(q)
    BY <1>5 DEF ReplacePending, Acknowledge, ResumeReview, KeptInv
<1>6. CASE PubEnvironment \/ UNCHANGED pubVars
    BY <1>6 DEF PubEnvironment, Stop, Remember, Requeue, Revoke, RewriteState, LoseIndex,
         LoseState, LoseOutput, KeptInv
<1> QED
    BY <1>1, <1>2, <1>3, <1>4, <1>5, <1>6 DEF PubNext, Review

\* So the batch of a complete review passes the guard, whoever publishes it.
LEMMA ReviewedPasses ==
    ASSUME KeptInv, NEW b, IsBatch(b), ReviewComplete(b), b.review # {}
    PROVE  GuardPasses(b)
<1>1. PICK v \in b.review : v.request \in Request /\ reviews[v.request].replacement = {b}
    BY DEF IsBatch, ReviewComplete
<1>2. Kept(reviews[v.request]) /\ b.records = reviews[v.request].keep
    BY <1>1 DEF KeptInv, Kept
<1>3. reviews[v.request].allow => b.records \cap Flagged \subseteq Approved(b)
    BY DEF Approved
<1> QED
    BY <1>2, <1>3 DEF Kept, GuardPasses

\* A step makes only a batch visible that the running call has found permitted.
LEMMA ExposesPermitted ==
    ASSUME JInv, [PubNext]_pubVars, NEW b \in exposed' \ exposed
    PROVE  Permitted(b) /\ IsBatch(b)
<1>1. CASE Expose
    BY <1>1 DEF Expose, JInv, TypeOK, JournalInv
<1>2. CASE Publish /\ ~Expose
    BY <1>2 DEF Publish, BeginPublish, RecoverPublished, ResumePending, Freeze, UpToDate,
         StartPublication, CopyFragment, RecordPublished, SaveState, DropPending, DropStarted
<1>3. CASE Review \/ Acknowledge
    BY <1>3 DEF Review, BeginReview, ResumeReview, WriteDecision, ReplacePending,
         CompleteReview, Acknowledge
<1>4. CASE PubEnvironment \/ UNCHANGED pubVars
    BY <1>4 DEF pubVars, PubEnvironment, Stop, Remember, Requeue, Revoke, RewriteState,
         LoseIndex, LoseState, LoseOutput
<1> QED
    BY <1>1, <1>2, <1>3, <1>4 DEF PubNext

RInv == JInv /\ KeptInv /\ ReviewsHold

LEMMA ReviewsHoldNext ==
    ASSUME RInv, [PubNext]_pubVars
    PROVE  ReviewsHold'
<1>1. \A b \in exposed' : IsBatch(b) /\ ReviewComplete(b)
    BY ExposesPermitted DEF RInv, JInv, TypeOK, ReviewsHold, Permitted
<1>2. \A b \in exposed' : ReviewComplete(b)'
    BY <1>1, ReviewCompleteStays DEF RInv
<1>3. \A b \in exposed' : b.review # {} => GuardPasses(b)'
    BY <1>1, ReviewedPasses, ReviewCompleteStays DEF RInv, GuardPasses
<1> QED
    BY <1>1, <1>2, <1>3 DEF ReviewsHold

LEMMA ReviewsAlwaysHold == PubSpec => []RInv
<1>1. PubInit => KeptInv /\ ReviewsHold
    BY DEF PubInit, KeptInv, Kept, NoReview, ReviewFiles, ReviewsHold
<1>2. RInv /\ JInv' /\ [PubNext]_pubVars => RInv'
    BY KeptNext, ReviewsHoldNext DEF RInv
<1> QED
    BY <1>1, <1>2, JournalHolds, PTL DEF PubSpec, RInv

\* For every vault, review, crash and loss, and whoever calls publish: the batch
\* of a review gets out only under the complete journal of that review, and then
\* without a credential or an unapproved local path; and a call with a guard
\* makes nothing visible that the guard refuses.
THEOREM PublishedIsReviewed == PubSpec => ExposedIsReviewed
<1>1. ASSUME RInv, [PubNext]_pubVars
      PROVE  [/\ ReviewsHold'
              /\ \A b \in exposed' \ exposed : op.kind = "guarded" => GuardPasses(b)]_pubVars
    BY <1>1, ReviewsHoldNext, ExposesPermitted DEF RInv, Permitted
<1> QED
    BY <1>1, ReviewsAlwaysHold, PTL DEF PubSpec, ExposedIsReviewed

----------------------------------------------------------------------------
(* What batches leave out, and what the cursor passes. *)

\* What the stream carried before b.
CarriedBefore(b) == UNION {a.records : a \in {e \in exposed : e.cursor <= b.after}}

ClosedBatch(b) == \A x \in b.records : Deps[x] \subseteq b.records \cup CarriedBefore(b)

\* What became of delivery i of the interval of b.
Accounted(b, i) ==
    \/ log[i] \in b.records
    \/ Excluded(b, log[i])
    \/ \E v \in b.review : log[i] \in v.replaces.records \ b.records
    \/ Closure({log[i]}) \cap unadmitted # {}

Accounts(b) == b.cursor <= Len(log) /\ \A i \in b.after + 1 .. b.cursor : Accounted(b, i)

Sound(b) == ClosedBatch(b) /\ Accounts(b)

\* What an operator keeps of a batch relates to nothing that is excluded from it.
Partition(o, keep) ==
    keep \subseteq o.records /\ \A x \in keep : Deps[x] \cap (o.records \ keep) = {}

\* A review is of a sound batch whose own review, if it had one, is complete.
ReviewedInv(q) ==
    \A o \in reviews[q].original :
        /\ Sound(o) /\ ReviewComplete(o) /\ Partition(o, reviews[q].keep)
        /\ \A r \in reviews[q].replacement :
            r.records = reviews[q].keep /\ r.review = {[request |-> q, replaces |-> o]}

\* The index knows only members of the stream.
MembersInv == index.members \subseteq UNION {a.records : a \in exposed}

CoverInv == \A i \in 1 .. state.cursor : \E b \in exposed : b.after < i /\ i <= b.cursor

CarryInv ==
    /\ \A b \in exposed \cup pending : Sound(b)
    /\ \A q \in Request : ReviewedInv(q)
    /\ MembersInv /\ CoverInv

\* The records that a traversal of the relations finds: the roots, and with each
\* record its targets, except for those that may be left out.
LEMMA PullHolds ==
    ASSUME NEW S, S \subseteq Record, NEW omit
    PROVE  /\ S \subseteq Pull(S, omit)
           /\ \A x \in Pull(S, omit) : Deps[x] \subseteq Pull(S, omit) \cup omit
<1>1. \A x \in Record : Deps[x] \subseteq Record
    BY DepsAssumption
<1>2. Pull(S, omit) = {x \in Record : \A T \in SUBSET Record :
                            (S \subseteq T /\ \A t \in T : Deps[t] \ omit \subseteq T) => x \in T}
    BY DEF Pull
<1>3. ASSUME NEW x \in Pull(S, omit), NEW y \in Deps[x], y \notin omit PROVE y \in Pull(S, omit)
    <2>1. x \in Record /\ y \in Record
        BY <1>1, <1>2, <1>3
    <2>2. SUFFICES ASSUME NEW T \in SUBSET Record, S \subseteq T, \A t \in T : Deps[t] \ omit \subseteq T
                   PROVE  y \in T
        BY <1>2, <2>1
    <2>3. x \in T
        BY <1>2, <1>3, <2>2
    <2> QED
        BY <1>3, <2>2, <2>3
<1> QED
    BY <1>2, <1>3

\* While nothing is pending, all that was visible lies before the cursor.
LEMMA AllBeforeCursor ==
    ASSUME IInv, pending = {}
    PROVE  \A b \in exposed : b.cursor <= state.cursor
<1>1. \A b \in exposed : IsBatch(b)
    BY DEF IInv, TypeOK
<1>2. state.cursor \in Nat
    BY DEF IInv, TypeOK, IsState
<1> QED
    BY <1>1, <1>2 DEF IInv, StreamInv, FrontierInv, IsBatch

\* A batch that publish signs leaves out only what the stream carried, and
\* passes over a delivery only if its closure is not admitted.
LEMMA FreshBatchIsSound ==
    ASSUME IInv, CarryInv, pending = {}, NEW c \in state.cursor + 1 .. Len(log)
    PROVE  Sound(FreshBatch(c))
<1> DEFINE b == FreshBatch(c)
<1> DEFINE P == Pull(Roots(c), Omissible)
<1>1. state.cursor \in Nat /\ c \in Nat /\ log \in Seq(Record)
    BY DEF IInv, TypeOK, IsState
<1>2. b.after = state.cursor /\ b.cursor = c /\ b.records = P
    BY DEF FreshBatch, Batch
<1>3. \A i \in state.cursor + 1 .. c : log[i] \in Record
    BY <1>1
<1>4. Roots(c) \subseteq Record
    BY <1>3 DEF Roots
<1>5. Roots(c) \subseteq P /\ \A x \in P : Deps[x] \subseteq P \cup Omissible
    BY <1>4, PullHolds
<1>6. Omissible \subseteq CarriedBefore(b)
    <2>1. Omissible \subseteq UNION {a.records : a \in exposed}
        BY DEF Omissible, CarryInv, MembersInv
    <2>2. \A a \in exposed : a.cursor <= b.after
        BY <1>2, AllBeforeCursor
    <2> QED
        BY <2>1, <2>2 DEF CarriedBefore
<1>7. ClosedBatch(b)
    BY <1>2, <1>5, <1>6 DEF ClosedBatch
<1>8. ASSUME NEW i \in b.after + 1 .. b.cursor PROVE Accounted(b, i)
    <2>1. CASE Closure({log[i]}) \cap unadmitted = {}
        <3>1. log[i] \in Roots(c)
            BY <1>2, <1>8, <2>1 DEF Roots
        <3> QED
            BY <1>2, <1>5, <3>1 DEF Accounted
    <2> QED
        BY <2>1 DEF Accounted
<1>9. b.cursor <= Len(log)
    BY <1>1, <1>2
<1> QED
    BY <1>7, <1>8, <1>9 DEF Sound, Accounts

\* The batch that a review puts in the place of another is as sound: what it
\* leaves out besides was excluded by the operator.
LEMMA ReplacementIsSound ==
    ASSUME IInv, NEW q \in Request, ReviewedInv(q),
           NEW o \in reviews[q].original, NEW r \in reviews[q].replacement
    PROVE  Sound(r)
<1>1. /\ Sound(o) /\ ReviewComplete(o) /\ Partition(o, r.records)
      /\ r.review = {[request |-> q, replaces |-> o]}
    BY DEF ReviewedInv
<1>2. r.after = o.after /\ r.cursor = o.cursor /\ IsBatch(o)
    BY DEF IInv, StreamInv, ReviewInv, TypeOK, IsReview, AtMostOne
<1>3. CarriedBefore(r) = CarriedBefore(o)
    BY <1>2 DEF CarriedBefore
<1>4. ClosedBatch(r)
    BY <1>1, <1>3 DEF Sound, ClosedBatch, Partition
<1>5. ASSUME NEW i \in r.after + 1 .. r.cursor PROVE Accounted(r, i)
    <2>1. Accounted(o, i)
        BY <1>1, <1>2, <1>5 DEF Sound, Accounts
    <2>2. CASE log[i] \in o.records
        <3>1. [request |-> q, replaces |-> o].replaces = o
            OBVIOUS
        <3> QED
            BY <1>1, <2>2, <3>1 DEF Accounted
    <2>3. CASE Excluded(o, log[i])
        <3>1. Excluded(r, log[i])
            BY <1>2, <2>3 DEF Excluded
        <3> QED
            BY <3>1 DEF Accounted
    <2>4. ASSUME NEW v \in o.review, log[i] \in v.replaces.records \ o.records
          PROVE  Accounted(r, i)
        <3>1. /\ v.request \in Request /\ reviews[v.request].stage = "completed"
              /\ reviews[v.request].original = {v.replaces} /\ reviews[v.request].replacement = {o}
            BY <1>1, <1>2, <2>4 DEF ReviewComplete, IsBatch
        <3>2. Excluded(r, log[i])
            BY <1>2, <2>4, <3>1 DEF Excluded
        <3> QED
            BY <3>2 DEF Accounted
    <2>5. CASE Closure({log[i]}) \cap unadmitted # {}
        BY <2>5 DEF Accounted
    <2> QED
        BY <2>1, <2>2, <2>3, <2>4, <2>5 DEF Accounted
<1> QED
    BY <1>1, <1>2, <1>4, <1>5 DEF Sound, Accounts

\* The delivery log only grows at its end.
LEMMA LogGrows ==
    ASSUME TypeOK, [PubNext]_pubVars
    PROVE  Len(log) <= Len(log') /\ \A i \in 1 .. Len(log) : log'[i] = log[i]
<1> USE DEF pubVars, vaultVars
<1>1. log \in Seq(Record) /\ Len(log) \in Nat
    BY DEF TypeOK
<1>2. ASSUME NEW x \in Record, Remember(x)
      PROVE  Len(log) <= Len(log') /\ \A i \in 1 .. Len(log) : log'[i] = log[i]
    BY <1>1, <1>2 DEF Remember
<1>3. ASSUME NEW x \in Record, Requeue(x)
      PROVE  Len(log) <= Len(log') /\ \A i \in 1 .. Len(log) : log'[i] = log[i]
    <2>1. PICK s \in [1 .. Cardinality(Dependents(x)) -> Dependents(x)] : log' = log \o <<x>> \o s
        BY <1>3 DEF Requeue
    <2>2. s \in Seq(Record) /\ Len(s) \in Nat
        BY DependentsFinite
    <2>3. <<x>> \in Seq(Record) /\ Len(<<x>>) = 1
        OBVIOUS
    <2> DEFINE front == log \o <<x>>
    <2>4. front \in Seq(Record) /\ Len(front) = Len(log) + 1 /\ \A i \in 1 .. Len(log) : front[i] = log[i]
        BY <1>1, <2>3
    <2> HIDE DEF front
    <2>5. Len(front \o s) = Len(front) + Len(s) /\ \A i \in 1 .. Len(front) : (front \o s)[i] = front[i]
        BY <2>2, <2>4
    <2>6. log' = front \o s
        BY <2>1 DEF front
    <2> QED
        BY <1>1, <2>2, <2>4, <2>5, <2>6
<1>4. CASE log' = log
    BY <1>1, <1>4
<1>5. CASE Publish
    BY <1>4, <1>5 DEF Publish, BeginPublish, RecoverPublished, ResumePending, Freeze, UpToDate,
         StartPublication, CopyFragment, Expose, RecordPublished, SaveState, DropPending, DropStarted
<1>6. CASE Review \/ Acknowledge
    BY <1>4, <1>6 DEF Review, BeginReview, ResumeReview, WriteDecision, ReplacePending, CompleteReview, Acknowledge
<1>7. CASE PubEnvironment \/ UNCHANGED pubVars
    BY <1>2, <1>3, <1>4, <1>7 DEF PubEnvironment, Stop, Revoke, RewriteState, LoseIndex, LoseState, LoseOutput
<1> QED
    BY <1>5, <1>6, <1>7 DEF PubNext

\* Nothing that was visible is forgotten, and a revoked key is not restored.
LEMMA HistoryGrows ==
    ASSUME [PubNext]_pubVars
    PROVE  exposed \subseteq exposed' /\ unadmitted \subseteq unadmitted'
<1> USE DEF pubVars, vaultVars
<1>1. CASE Publish
    BY <1>1 DEF Publish, BeginPublish, RecoverPublished, ResumePending, Freeze, UpToDate,
         StartPublication, CopyFragment, Expose, RecordPublished, SaveState, DropPending, DropStarted
<1>2. CASE Review \/ Acknowledge
    BY <1>2 DEF Review, BeginReview, ResumeReview, WriteDecision, ReplacePending, CompleteReview, Acknowledge
<1>3. CASE PubEnvironment \/ UNCHANGED pubVars
    BY <1>3 DEF PubEnvironment, Stop, Remember, Requeue, Revoke, RewriteState, LoseIndex, LoseState, LoseOutput
<1> QED
    BY <1>1, <1>2, <1>3 DEF PubNext

\* A sound batch stays sound.
LEMMA SoundStays ==
    ASSUME JInv, [PubNext]_pubVars, NEW b, IsBatch(b), Sound(b)
    PROVE  Sound(b)'
<1>1. Len(log) <= Len(log') /\ \A i \in 1 .. Len(log) : log'[i] = log[i]
    BY LogGrows DEF JInv
<1>2. CarriedBefore(b) \subseteq CarriedBefore(b)'
    BY HistoryGrows DEF CarriedBefore
<1>3. ClosedBatch(b)'
    BY <1>2 DEF Sound, ClosedBatch
<1>4. ASSUME NEW x, Excluded(b, x) PROVE Excluded(b, x)'
    <2>1. PICK q \in Request : \E o \in reviews[q].original, r \in reviews[q].replacement :
            /\ reviews[q].stage = "completed" /\ r.after = b.after /\ r.cursor = b.cursor
            /\ x \in o.records \ r.records
        BY <1>4 DEF Excluded
    <2>2. reviews'[q] = reviews[q]
        BY <2>1, CompletedStays DEF Stage
    <2> QED
        BY <2>1, <2>2 DEF Excluded
<1>5. Len(log) \in Nat /\ Len(log') \in Nat /\ b.after \in Nat /\ b.cursor \in Nat
    BY TypeNext DEF JInv, TypeOK, IsBatch
<1>6. ASSUME NEW i \in b.after + 1 .. b.cursor PROVE Accounted(b, i)'
    <2>1. Accounted(b, i) /\ log'[i] = log[i]
        BY <1>1, <1>5, <1>6 DEF Sound, Accounts
    <2>2. unadmitted \subseteq unadmitted'
        BY HistoryGrows
    <2> QED
        BY <1>4, <2>1, <2>2 DEF Accounted
<1>7. b.cursor <= Len(log')
    BY <1>1, <1>5 DEF Sound, Accounts
<1> QED
    BY <1>3, <1>6, <1>7 DEF Sound, Accounts

LEMMA CarryInit == PubInit => CarryInv
BY DEF PubInit, CarryInv, ReviewedInv, MembersInv, CoverInv, NoReview, NoIndex, NoState, ReviewFiles

\* Batches that are kept and reviews that are left alone stay as they are.
LEMMA KeptSound ==
    ASSUME IInv, CarryInv, [PubNext]_pubVars
    PROVE  /\ \A b \in exposed \cup pending : Sound(b)'
           /\ \A q \in Request : reviews'[q] = reviews[q] => ReviewedInv(q)'
<1>1. JInv /\ \A b \in exposed \cup pending : IsBatch(b)
    BY DEF IInv, JInv, TypeOK
<1>2. \A b \in exposed \cup pending : Sound(b)'
    BY <1>1, SoundStays DEF CarryInv
<1>3. ASSUME NEW q \in Request, reviews'[q] = reviews[q] PROVE ReviewedInv(q)'
    <2>1. \A o \in reviews[q].original : IsBatch(o) /\ Sound(o) /\ ReviewComplete(o)
        BY DEF IInv, TypeOK, IsReview, CarryInv, ReviewedInv
    <2>2. \A o \in reviews[q].original : Sound(o)' /\ ReviewComplete(o)'
        BY <1>1, <2>1, SoundStays, ReviewCompleteStays
    <2> QED
        BY <1>3, <2>2 DEF CarryInv, ReviewedInv, Partition
<1> QED
    BY <1>2, <1>3

\* Most steps leave reviews, stream and cursor alone and freeze nothing new.
LEMMA QuietStep ==
    ASSUME IInv, CarryInv, [PubNext]_pubVars, pending' \subseteq pending, UNCHANGED <<reviews, exposed>>,
           index'.members \subseteq index.members, state'.cursor = state.cursor
    PROVE  CarryInv'
BY KeptSound DEF CarryInv, MembersInv, CoverInv

LEMMA CarryNext ==
    ASSUME "lose_state" \notin Faults, IInv, CarryInv, [PubNext]_pubVars
    PROVE  CarryInv'
<1> USE DEF pubVars, exchVars, vaultVars, journal
<1>a. /\ \A b \in exposed \cup pending : Sound(b)' /\ IsBatch(b)
      /\ \A q \in Request : reviews'[q] = reviews[q] => ReviewedInv(q)'
    BY KeptSound DEF IInv, TypeOK
<1>b. JInv /\ DOMAIN reviews = Request
    BY DEF IInv, JInv, TypeOK
<1>1. CASE BeginPublish \/ RecoverPublished \/ ResumePending \/ StartPublication \/ CopyFragment \/ DropStarted
    BY <1>1, QuietStep DEF BeginPublish, RecoverPublished, ResumePending, StartPublication, CopyFragment, DropStarted
<1>2. CASE Freeze
    <2>1. PICK c \in state.cursor + 1 .. Len(log) : pending' = {FreshBatch(c)}
        BY <1>2 DEF Freeze
    <2>2. pending = {} /\ UNCHANGED <<exchVars, vaultVars, started, state, index, reviews, exposed>>
        BY <1>2 DEF Freeze, MayFreeze
    <2>3. Sound(FreshBatch(c))
        BY <2>2, FreshBatchIsSound
    <2>4. IsBatch(FreshBatch(c))
        BY FreshBatchType DEF IInv
    <2> DEFINE b == FreshBatch(c)
    <2>5. \A a : a = b => IsBatch(a) /\ Sound(a) /\ pending' = {a}
        BY <2>1, <2>3, <2>4
    <2> HIDE DEF b
    <2>6. \A a : a = b => Sound(a)'
        BY <1>b, <2>5, SoundStays
    <2>7. \A a \in pending' : Sound(a)'
        BY <2>5, <2>6
    <2> QED
        BY <1>a, <2>2, <2>7 DEF CarryInv, MembersInv, CoverInv
<1>3. CASE UpToDate \/ RewriteState
    <2>1. state'.cursor = state.cursor
        BY <1>3 DEF UpToDate, RewriteState, IInv, TypeOK, IsState
    <2> QED
        BY <1>3, <2>1, QuietStep DEF UpToDate, RewriteState
<1>4. CASE Expose
    <2>1. PICK b \in pending : exposed' = exposed \cup {b}
        BY <1>4 DEF Expose
    <2>2. UNCHANGED <<vaultVars, journal>>
        BY <1>4 DEF Expose
    <2> QED
        BY <1>a, <2>1, <2>2 DEF CarryInv, MembersInv, CoverInv
<1>5. CASE RecordPublished
    <2>1. PICK b \in pending : index' = [head |-> {b}, members |-> index.members \cup b.records]
        BY <1>5 DEF RecordPublished
    <2>2. UNCHANGED <<exchVars, vaultVars, pending, started, state, reviews, exposed>>
        BY <1>5 DEF RecordPublished
    <2>3. b \in exposed
        BY <1>5, <2>1 DEF RecordPublished, IInv, StreamInv, CallInv
    <2>4. MembersInv'
        BY <2>1, <2>2, <2>3 DEF CarryInv, MembersInv
    <2> QED
        BY <1>a, <2>2, <2>4 DEF CarryInv, CoverInv
<1>6. CASE SaveState
    <2>1. PICK b \in pending : state' = [exists |-> TRUE, cursor |-> b.cursor, last |-> {b}]
        BY <1>6 DEF SaveState
    <2>2. UNCHANGED <<exchVars, vaultVars, pending, started, index, reviews, exposed>>
        BY <1>6 DEF SaveState
    <2>3. b \in exposed
        BY <1>6, <2>1 DEF SaveState, IInv, StreamInv, CallInv
    <2>4. b.after = state.cursor \/ b.cursor = state.cursor
        BY <2>1 DEF IInv, StreamInv, PendingInv, Continues
    <2>5. state'.cursor = b.cursor /\ b.after \in Nat /\ b.cursor \in Nat /\ state.cursor \in Nat
        BY <1>a, <2>1 DEF IsBatch, IInv, TypeOK, IsState
    <2>6. CoverInv'
        <3> SUFFICES ASSUME NEW i \in 1 .. b.cursor PROVE \E a \in exposed : a.after < i /\ i <= a.cursor
            BY <2>2, <2>5 DEF CoverInv
        <3>1. CASE i <= state.cursor
            BY <2>5, <3>1 DEF CarryInv, CoverInv
        <3>2. CASE i > state.cursor
            BY <2>3, <2>4, <2>5, <3>2
        <3> QED
            BY <2>5, <3>1, <3>2
    <2> QED
        BY <1>a, <2>2, <2>6 DEF CarryInv, MembersInv
<1>7. CASE DropPending
    BY <1>7, QuietStep DEF DropPending
<1>8. CASE Acknowledge \/ Stop \/ \E q \in Request : ResumeReview(q)
    BY <1>8, QuietStep DEF Acknowledge, Stop, ResumeReview
<1>9. ASSUME NEW q \in Request, NEW keep, NEW allow, BeginReview(q, keep, allow) PROVE CarryInv'
    <2>1. PICK b \in pending : /\ KeepAllowed(b, keep, allow) /\ ReviewComplete(b)
                               /\ reviews' = [reviews EXCEPT ![q] = ReviewFiles("intent", {b}, keep, allow, {})]
        BY <1>9 DEF BeginReview
    <2>2. UNCHANGED <<exchVars, vaultVars, pending, started, state, index, exposed>>
        BY <1>9 DEF BeginReview
    <2>3. reviews'[q].original = {b} /\ reviews'[q].keep = keep /\ reviews'[q].replacement = {}
        BY <1>b, <2>1 DEF ReviewFiles
    <2>4. Partition(b, keep)
        BY <2>1 DEF KeepAllowed, Partition
    <2>5. Sound(b)' /\ ReviewComplete(b)'
        BY <1>a, <1>b, <2>1, ReviewCompleteStays
    <2>6. ReviewedInv(q)'
        BY <2>3, <2>4, <2>5 DEF ReviewedInv, Partition
    <2>7. \A p \in Request : p # q => reviews'[p] = reviews[p]
        BY <1>b, <2>1
    <2> QED
        BY <1>a, <2>2, <2>6, <2>7 DEF CarryInv, MembersInv, CoverInv
<1>10. CASE WriteDecision
    <2>1. PICK q \in op.request : \E b \in reviews[q].original :
            reviews' = [reviews EXCEPT ![q] = ReviewFiles("decided", {b}, reviews[q].keep, @.allow,
                                                          {Replacement(b, q, reviews[q].keep)})]
        BY <1>10 DEF WriteDecision
    <2>2. PICK b \in reviews[q].original :
            reviews' = [reviews EXCEPT ![q] = ReviewFiles("decided", {b}, reviews[q].keep, @.allow,
                                                          {Replacement(b, q, reviews[q].keep)})]
        BY <2>1
    <2>3. UNCHANGED <<exchVars, vaultVars, pending, started, state, index, exposed>>
        BY <1>10 DEF WriteDecision
    <2>4. q \in Request
        BY DEF IInv, TypeOK, Calls
    <2>5. /\ reviews'[q].original = {b} /\ reviews'[q].keep = reviews[q].keep
          /\ reviews'[q].replacement = {Replacement(b, q, reviews[q].keep)}
        BY <1>b, <2>2, <2>4 DEF ReviewFiles
    <2>6. /\ Replacement(b, q, reviews[q].keep).records = reviews[q].keep
          /\ Replacement(b, q, reviews[q].keep).review = {[request |-> q, replaces |-> b]}
        BY DEF Replacement, Batch
    <2>7. IsBatch(b) /\ Sound(b) /\ ReviewComplete(b) /\ Partition(b, reviews[q].keep)
        BY <2>4 DEF IInv, TypeOK, IsReview, CarryInv, ReviewedInv
    <2>8. Sound(b)' /\ ReviewComplete(b)'
        BY <1>b, <2>7, SoundStays, ReviewCompleteStays
    <2>9. ReviewedInv(q)'
        BY <2>5, <2>6, <2>7, <2>8 DEF ReviewedInv, Partition
    <2>10. \A p \in Request : p # q => reviews'[p] = reviews[p]
        BY <1>b, <2>2
    <2> QED
        BY <1>a, <2>3, <2>9, <2>10 DEF CarryInv, MembersInv, CoverInv
<1>11. CASE ReplacePending
    <2>1. PICK q \in op.request :
            pending' = IF pending = reviews[q].original THEN reviews[q].replacement ELSE pending
        BY <1>11 DEF ReplacePending
    <2>2. UNCHANGED <<exchVars, vaultVars, started, state, index, reviews, exposed>>
        BY <1>11 DEF ReplacePending
    <2>3. q \in Request /\ IsReview(reviews[q]) /\ ReviewedInv(q)
        BY DEF IInv, TypeOK, Calls, CarryInv
    <2>4. ASSUME NEW r \in reviews[q].replacement PROVE Sound(r)'
        <3>1. PICK o \in reviews[q].original : TRUE
            BY <2>3, <2>4 DEF IInv, StreamInv, ReviewInv
        <3>2. Sound(r) /\ IsBatch(r)
            BY <2>3, <2>4, <3>1, ReplacementIsSound DEF IsReview
        <3> QED
            BY <1>b, <3>2, SoundStays
    <2>5. \A b \in pending' : Sound(b)'
        BY <1>a, <2>1, <2>4
    <2> QED
        BY <1>a, <2>2, <2>5 DEF CarryInv, MembersInv, CoverInv
<1>12. CASE CompleteReview
    <2>1. PICK q \in op.request : reviews' = [reviews EXCEPT ![q].stage = "completed"]
        BY <1>12 DEF CompleteReview
    <2>2. UNCHANGED <<exchVars, vaultVars, pending, started, state, index, exposed>>
        BY <1>12 DEF CompleteReview
    <2>3. q \in Request /\ IsReview(reviews[q]) /\ ReviewedInv(q)
        BY DEF IInv, TypeOK, Calls, CarryInv
    <2>4. /\ reviews'[q].original = reviews[q].original /\ reviews'[q].keep = reviews[q].keep
          /\ reviews'[q].replacement = reviews[q].replacement
        BY <1>b, <2>1, <2>3 DEF IsReview
    <2>5. \A o \in reviews[q].original : Sound(o)' /\ ReviewComplete(o)'
        BY <1>b, <2>3, SoundStays, ReviewCompleteStays DEF IsReview, ReviewedInv
    <2>6. ReviewedInv(q)'
        BY <2>3, <2>4, <2>5 DEF ReviewedInv, Partition
    <2>7. \A p \in Request : p # q => reviews'[p] = reviews[p]
        BY <1>b, <2>1
    <2> QED
        BY <1>a, <2>2, <2>6, <2>7 DEF CarryInv, MembersInv, CoverInv
<1>13. CASE LoseIndex
    BY <1>13, QuietStep DEF LoseIndex, NoIndex
<1>14. CASE LoseOutput \/ UNCHANGED pubVars \/ \E x \in Record : Remember(x) \/ Requeue(x) \/ Revoke(x)
    BY <1>14, QuietStep DEF LoseOutput, Remember, Requeue, Revoke
<1>15. ~LoseState
    BY DEF LoseState
<1> QED
    BY <1>1, <1>2, <1>3, <1>4, <1>5, <1>6, <1>7, <1>8, <1>9, <1>10, <1>11, <1>12, <1>13, <1>14, <1>15
    DEF PubNext, Publish, Review, PubEnvironment

LEMMA CarryHolds ==
    ASSUME "lose_state" \notin Faults
    PROVE  PubSpec => []CarryInv
<1>1. PubInit => CarryInv
    BY CarryInit
<1>2. IInv /\ CarryInv /\ [PubNext]_pubVars => CarryInv'
    BY CarryNext
<1> QED
    BY <1>1, <1>2, InvariantHolds, PTL DEF PubSpec

\* Whatever was excluded, revoked, requeued or lost, a thin batch leaves out
\* only records that earlier batches of the stream carried (_changes,
\* incremental_changes), as long as state.json is kept.
THEOREM PublishedIsClosed ==
    ASSUME "lose_state" \notin Faults
    PROVE  PubSpec => []ExposedIsClosed
<1>1. IInv /\ CarryInv => ExposedIsClosed
    <2> SUFFICES ASSUME IInv, CarryInv, NEW b \in exposed,
                        NEW e \in exposed, e.cursor <= b.cursor, NEW x \in e.records
                 PROVE  Deps[x] \subseteq UNION {a.records : a \in {d \in exposed : d.cursor <= b.cursor}}
        BY DEF ExposedIsClosed, Closed
    <2>1. IsBatch(b) /\ \A d \in exposed : IsBatch(d)
        BY DEF IInv, TypeOK
    <2>2. \A d \in exposed : d.cursor <= e.after => d.cursor <= b.cursor
        BY <2>1 DEF IsBatch
    <2>3. Deps[x] \subseteq e.records \cup CarriedBefore(e)
        BY DEF CarryInv, Sound, ClosedBatch
    <2> QED
        BY <2>2, <2>3 DEF CarriedBefore
<1> QED
    BY <1>1, InvariantHolds, CarryHolds, PTL

\* No delivery is passed silently: the cursor is past one only if a batch
\* carried it, a completed review excluded it, or something it needs is not
\* admitted (publish, resolve_pending), as long as state.json is kept.
THEOREM CursorAlwaysAccounts ==
    ASSUME "lose_state" \notin Faults
    PROVE  PubSpec => []CursorAccountsForDeliveries
<1>1. IInv /\ CarryInv /\ ReviewsHold => CursorAccountsForDeliveries
    <2> SUFFICES ASSUME IInv, CarryInv, ReviewsHold, NEW i \in 1 .. state.cursor,
                        Closure({log[i]}) \cap unadmitted = {}
                 PROVE  \E b \in exposed : b.after < i /\ i <= b.cursor
                                            /\ (log[i] \in b.records \/ Excluded(b, log[i]))
        BY DEF CursorAccountsForDeliveries
    <2>1. PICK b \in exposed : b.after < i /\ i <= b.cursor
        BY DEF CarryInv, CoverInv
    <2>2. IsBatch(b) /\ state.cursor \in Nat
        BY DEF IInv, TypeOK, IsState
    <2>3. Accounted(b, i)
        BY <2>1, <2>2 DEF CarryInv, Sound, Accounts, IsBatch
    <2>4. ASSUME NEW v \in b.review, log[i] \in v.replaces.records \ b.records
          PROVE  Excluded(b, log[i])
        <3>1. /\ v.request \in Request /\ reviews[v.request].stage = "completed"
              /\ reviews[v.request].original = {v.replaces} /\ reviews[v.request].replacement = {b}
            BY <2>2, <2>4 DEF ReviewsHold, ReviewComplete, IsBatch
        <3> QED
            BY <2>4, <3>1 DEF Excluded
    <2> QED
        BY <2>1, <2>3, <2>4 DEF Accounted
<1> QED
    BY <1>1, InvariantHolds, CarryHolds, ReviewsAlwaysHold, PTL DEF RInv

=============================================================================
