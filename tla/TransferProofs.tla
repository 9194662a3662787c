--------------------------- MODULE TransferProofs ---------------------------
(***************************************************************************)
(* The receivers, alone and behind a publisher.  The first part is about   *)
(* any exchange, forked or lossy (ForkedExchange): the head has its        *)
(* receipt and moves one batch at a time, admitted records are closed, and *)
(* in a folder that keeps its files competing batches never split the      *)
(* stream.  The second part is about publisher and receivers together      *)
(* (Transfer): they implement an append-only stream of which every         *)
(* receiver holds a prefix, and a receiver that holds what came before can *)
(* take whatever the publisher leaves out of a batch.                      *)
(***************************************************************************)
EXTENDS Transfer, ForkedExchange, PublisherProofs

----------------------------------------------------------------------------
(* What a receiver makes sure of by itself: the inductive invariant. *)

\* What _verify_capsule makes sure of before it looks at anything else.
WellFormed(b) ==
    b.after \in Nat /\ b.cursor \in Nat /\ b.after < b.cursor /\ b.records \subseteq Record

\* Every batch that a receiver has seen, holds or has admitted.
Known(r) == rop[r].seen \cup rop[r].batch \cup fetched[r] \cup receipts[r] \cup evidence[r]

RecvTypes ==
    /\ DOMAIN recv = Receiver /\ DOMAIN evidence = Receiver /\ DOMAIN staged = Receiver
    /\ DOMAIN receipts = Receiver /\ DOMAIN admitted = Receiver /\ DOMAIN trust = Receiver
    /\ DOMAIN fetched = Receiver /\ DOMAIN rop = Receiver
    /\ receipts = [r \in Receiver |-> receipts[r]] /\ admitted = [r \in Receiver |-> admitted[r]]
    /\ \A r \in Receiver :
        /\ recv[r] = [cursor |-> recv[r].cursor, head |-> recv[r].head] /\ recv[r].cursor \in Nat
        /\ rop[r] = [pc |-> rop[r].pc, kind |-> rop[r].kind, seen |-> rop[r].seen,
                     batch |-> rop[r].batch, copied |-> rop[r].copied]

\* The head is the last batch of a vault that has a receipt for it.
HeadInv(r) ==
    /\ \/ recv[r].head = {} /\ recv[r].cursor = 0
       \/ \E h \in receipts[r] : recv[r].head = {h} /\ h.cursor = recv[r].cursor
    /\ receipts[r] \subseteq evidence[r]

\* A call that has selected a batch has kept it, and it continues the head
\* until the head is written.
BatchInv(r) ==
    /\ rop[r].pc \in {"idle", "select", "fetch", "admitted"}
    /\ rop[r].pc \in {"idle", "select"} => rop[r].batch = {}
    /\ rop[r].pc \in {"fetch", "admitted"} =>
        \E b \in evidence[r] : rop[r].batch = {b} /\ b.after = recv[r].cursor /\ Chained(r, b)
    /\ rop[r].pc = "admitted" => rop[r].batch \subseteq receipts[r]

RecvInv ==
    /\ RecvTypes
    /\ \A b \in exch : WellFormed(b)
    /\ \A r \in Receiver :
        /\ \A b \in Known(r) : WellFormed(b)
        /\ HeadInv(r) /\ BatchInv(r) /\ Closed(admitted[r])

\* Only what the step is about changes, and only for its receiver.
RecvVarsOf(r) ==
    <<recv[r], evidence[r], staged[r], receipts[r], admitted[r], trust[r], fetched[r], rop[r]>>

----------------------------------------------------------------------------
(* Lemmas about the operators. *)

\* The closure of a set of records holds them and all they relate to.
LEMMA ClosureIsClosed ==
    ASSUME NEW S, S \subseteq Record
    PROVE  /\ S \subseteq Closure(S) /\ Closure(S) \subseteq Record
           /\ \A x \in Closure(S) : Deps[x] \subseteq Closure(S)
<1>1. \A x \in Record : Deps[x] \subseteq Record
    BY DepsAssumption
<1>2. Closure(S) = {x \in Record : \A T \in SUBSET Record :
                        (S \subseteq T /\ \A t \in T : Deps[t] \subseteq T) => x \in T}
    BY DEF Closure, Pull
<1>3. ASSUME NEW x \in Closure(S), NEW y \in Deps[x] PROVE y \in Closure(S)
    <2>1. x \in Record /\ y \in Record
        BY <1>1, <1>2, <1>3
    <2>2. SUFFICES ASSUME NEW T \in SUBSET Record, S \subseteq T, \A t \in T : Deps[t] \subseteq T
                   PROVE  y \in T
        BY <1>2, <2>1
    <2>3. x \in T
        BY <1>2, <1>3, <2>2
    <2> QED
        BY <1>3, <2>2, <2>3
<1> QED
    BY <1>2, <1>3

\* What the transaction checks keeps the vault closed.
LEMMA IngestKeepsClosed ==
    ASSUME NEW r \in Receiver, NEW b, b.records \subseteq Record, Closed(admitted[r]), Ingestible(r, b)
    PROVE  Closed(admitted[r] \cup b.records)
<1>1. \A x \in b.records : Deps[x] \subseteq Closure(b.records)
    BY ClosureIsClosed
<1>2. \A x \in b.records : Deps[x] \subseteq admitted[r] \cup b.records
    BY <1>1 DEF Ingestible
<1>3. SUFFICES ASSUME NEW x \in admitted[r] \cup b.records PROVE Deps[x] \subseteq admitted[r] \cup b.records
    BY DEF Closed
<1>4. CASE x \in admitted[r]
    BY <1>4 DEF Closed
<1>5. CASE x \in b.records
    BY <1>2, <1>5
<1> QED
    BY <1>3, <1>4, <1>5

----------------------------------------------------------------------------
(* Steps *)

\* A step of one receiver leaves the others and the exchange alone.
LEMMA OthersUnmoved ==
    ASSUME RecvTypes, NEW r \in Receiver, ReceiverStep(r)
    PROVE  /\ UNCHANGED exchVars
           /\ \A s \in Receiver : s # r => UNCHANGED RecvVarsOf(s)
           /\ DOMAIN recv' = Receiver /\ DOMAIN evidence' = Receiver /\ DOMAIN staged' = Receiver
           /\ DOMAIN receipts' = Receiver /\ DOMAIN admitted' = Receiver /\ DOMAIN trust' = Receiver
           /\ DOMAIN fetched' = Receiver /\ DOMAIN rop' = Receiver
           /\ receipts' = [s \in Receiver |-> receipts'[s]] /\ admitted' = [s \in Receiver |-> admitted'[s]]
<1> USE DEF RecvTypes, RecvVarsOf, stateVars, vaultOf, exchVars
<1>1. CASE BeginReceive(r)
    BY <1>1 DEF BeginReceive
<1>2. CASE Select(r)
    BY <1>2 DEF Select, Retain
<1>3. CASE StageFragment(r)
    BY <1>3 DEF StageFragment
<1>4. CASE Admit(r)
    BY <1>4 DEF Admit
<1>5. CASE WriteHead(r)
    BY <1>5 DEF WriteHead
<1>6. CASE PullPeer(r)
    BY <1>6 DEF PullPeer
<1>7. CASE ReceiveCapsule(r)
    BY <1>7 DEF ReceiveCapsule, Retain
<1>8. CASE DropFetched(r)
    BY <1>8 DEF DropFetched
<1>9. CASE RStop(r)
    BY <1>9 DEF RStop
<1>10. CASE \E x \in Record : Enroll(r, x) \/ RevokeKey(r, x)
    BY <1>10 DEF Enroll, RevokeKey
<1> QED
    BY <1>1, <1>2, <1>3, <1>4, <1>5, <1>6, <1>7, <1>8, <1>9, <1>10 DEF ReceiverStep

\* One receiver's part of the invariant.
OneInv(r) ==
    /\ recv[r] = [cursor |-> recv[r].cursor, head |-> recv[r].head] /\ recv[r].cursor \in Nat
    /\ rop[r] = [pc |-> rop[r].pc, kind |-> rop[r].kind, seen |-> rop[r].seen,
                 batch |-> rop[r].batch, copied |-> rop[r].copied]
    /\ \A b \in Known(r) : WellFormed(b)
    /\ HeadInv(r) /\ BatchInv(r) /\ Closed(admitted[r])

LEMMA OneInvUnmoved ==
    ASSUME NEW r, OneInv(r), UNCHANGED RecvVarsOf(r)
    PROVE  OneInv(r)'
<1> USE DEF RecvVarsOf
<1>1. Known(r)' = Known(r)
    BY DEF Known
<1>2. HeadInv(r)' /\ BatchInv(r)'
    BY DEF OneInv, HeadInv, BatchInv, Chained
<1>3. Closed(admitted[r])'
    BY DEF OneInv, Closed
<1> QED
    BY <1>1, <1>2, <1>3 DEF OneInv, WellFormed

\* A call that ends or has nothing in hand satisfies what is asked of a call.
LEMMA RestingCall ==
    ASSUME NEW r \in Receiver, OneInv(r), recv'[r] = recv[r], receipts'[r] = receipts[r],
           receipts'[r] \subseteq evidence'[r], admitted'[r] = admitted[r],
           NEW c, rop'[r] = c,
           c = [pc |-> c.pc, kind |-> c.kind, seen |-> c.seen, batch |-> c.batch, copied |-> c.copied],
           c.pc \in {"idle", "select"}, c.batch = {},
           \A b \in Known(r)' : WellFormed(b)
    PROVE  OneInv(r)'
<1>1. HeadInv(r)'
    BY DEF OneInv, HeadInv
<1>2. BatchInv(r)'
    BY DEF BatchInv
<1>3. Closed(admitted[r])'
    BY DEF OneInv, Closed
<1> QED
    BY <1>1, <1>2, <1>3 DEF OneInv, WellFormed

LEMMA StepKeepsOne ==
    ASSUME RecvTypes, \A b \in exch : WellFormed(b), NEW r \in Receiver, OneInv(r), ReceiverStep(r)
    PROVE  OneInv(r)'
<1> USE DEF RecvTypes, stateVars, vaultOf, exchVars
<1>a. /\ RIdle = [pc |-> RIdle.pc, kind |-> RIdle.kind, seen |-> RIdle.seen,
                  batch |-> RIdle.batch, copied |-> RIdle.copied]
      /\ RIdle.pc = "idle" /\ RIdle.batch = {} /\ RIdle.seen = {}
    BY DEF RIdle
<1>b. /\ \A b \in Known(r) : WellFormed(b)
      /\ receipts[r] \subseteq evidence[r]
    BY DEF OneInv, HeadInv
<1>1. CASE BeginReceive(r)
    <2> DEFINE c == [pc |-> "select", kind |-> "receive", seen |-> exch, batch |-> {}, copied |-> 0]
    <2>1. rop'[r] = c /\ UNCHANGED <<exchVars, stateVars, vaultOf, trust, fetched>>
        BY <1>1 DEF BeginReceive, RIdle
    <2>2. /\ c = [pc |-> c.pc, kind |-> c.kind, seen |-> c.seen, batch |-> c.batch, copied |-> c.copied]
          /\ c.pc = "select" /\ c.batch = {} /\ c.seen = exch
        OBVIOUS
    <2>3. Known(r)' \subseteq Known(r) \cup exch
        BY <2>1, <2>2 DEF Known
    <2> HIDE DEF c
    <2> QED
        BY <1>b, <2>1, <2>2, <2>3, RestingCall
<1>2. CASE Select(r)
    <2>1. PICK b \in exch : /\ OnlyCandidate(r, rop[r].seen \cap exch, b) /\ Chained(r, b) /\ Retain(r, b)
                            /\ rop' = [rop EXCEPT ![r].pc = "fetch", ![r].batch = {b}, ![r].copied = 0]
        BY <1>2 DEF Select
    <2>2. UNCHANGED <<exchVars, recv, staged, vaultOf, trust, fetched>>
        BY <1>2 DEF Select
    <2>3. evidence'[r] = evidence[r] \cup {b}
        BY <2>1 DEF Retain
    <2>4. /\ rop'[r] = [pc |-> "fetch", kind |-> rop[r].kind, seen |-> rop[r].seen, batch |-> {b}, copied |-> 0]
        BY <2>1 DEF OneInv
    <2>5. b.after = recv[r].cursor
        BY <2>1 DEF OnlyCandidate, Candidates
    <2>6. HeadInv(r)'
        BY <2>2, <2>3 DEF OneInv, HeadInv
    <2>7. BatchInv(r)'
        BY <2>1, <2>2, <2>3, <2>4, <2>5 DEF BatchInv, Chained
    <2>8. Known(r)' \subseteq Known(r) \cup exch
        BY <2>2, <2>3, <2>4 DEF Known
    <2> QED
        BY <1>b, <2>2, <2>4, <2>6, <2>7, <2>8 DEF OneInv, WellFormed, Closed
<1>3. CASE StageFragment(r)
    <2>1. UNCHANGED <<exchVars, recv, evidence, vaultOf, trust, fetched>>
        BY <1>3 DEF StageFragment
    <2>2. rop'[r] = [pc |-> rop[r].pc, kind |-> rop[r].kind, seen |-> rop[r].seen,
                     batch |-> rop[r].batch, copied |-> rop[r].copied + 1]
        BY <1>3 DEF StageFragment, OneInv
    <2>3. HeadInv(r)' /\ BatchInv(r)'
        BY <2>1, <2>2 DEF OneInv, HeadInv, BatchInv, Chained
    <2>4. Known(r)' = Known(r)
        BY <2>1, <2>2 DEF Known
    <2> QED
        BY <1>b, <2>1, <2>2, <2>3, <2>4 DEF OneInv, WellFormed, Closed
<1>4. CASE Admit(r)
    <2>1. PICK b \in rop[r].batch :
            /\ b \in receipts[r] \/ Ingestible(r, b)
            /\ receipts' = [receipts EXCEPT ![r] = @ \cup {b}]
            /\ admitted' = [admitted EXCEPT ![r] = IF b \in receipts[r] THEN @ ELSE @ \cup b.records]
        BY <1>4 DEF Admit
    <2>2. rop[r].pc = "fetch" /\ UNCHANGED <<exchVars, stateVars, trust, fetched>>
        BY <1>4 DEF Admit, RAt
    <2>3. rop'[r] = [pc |-> "admitted", kind |-> rop[r].kind, seen |-> rop[r].seen,
                     batch |-> rop[r].batch, copied |-> rop[r].copied]
        BY <1>4 DEF Admit, OneInv
    <2>4. rop[r].batch = {b} /\ b \in evidence[r] /\ b.after = recv[r].cursor /\ Chained(r, b)
        BY <2>1, <2>2 DEF OneInv, BatchInv
    <2>5. receipts'[r] = receipts[r] \cup {b}
        BY <2>1
    <2>6. HeadInv(r)'
        BY <2>2, <2>4, <2>5 DEF OneInv, HeadInv
    <2>7. BatchInv(r)'
        BY <2>2, <2>3, <2>4, <2>5 DEF BatchInv, Chained
    <2>8. Known(r)' = Known(r)
        BY <2>2, <2>3, <2>4, <2>5 DEF Known
    <2>9. Closed(admitted'[r])
        <3>1. WellFormed(b) /\ Closed(admitted[r])
            BY <1>b, <2>1 DEF Known, OneInv
        <3>2. admitted'[r] = admitted[r] \/ (Ingestible(r, b) /\ admitted'[r] = admitted[r] \cup b.records)
            BY <2>1
        <3> QED
            BY <3>1, <3>2, IngestKeepsClosed DEF WellFormed
    <2> QED
        BY <1>b, <2>2, <2>3, <2>6, <2>7, <2>8, <2>9 DEF OneInv, WellFormed
<1>5. CASE WriteHead(r)
    <2>1. PICK b \in rop[r].batch : recv' = [recv EXCEPT ![r] = [cursor |-> b.cursor, head |-> {b}]]
        BY <1>5 DEF WriteHead
    <2>2. rop[r].pc = "admitted" /\ UNCHANGED <<exchVars, evidence, staged, vaultOf, trust, fetched>>
        BY <1>5 DEF WriteHead, MayWriteHead, RAt
    <2>3. \/ rop'[r] = [pc |-> "select", kind |-> rop[r].kind, seen |-> rop[r].seen, batch |-> {}, copied |-> 0]
          \/ rop'[r] = RIdle
        BY <1>5 DEF WriteHead, OneInv
    <2>4. b \in receipts[r] /\ b.cursor \in Nat
        BY <1>b, <2>1, <2>2 DEF OneInv, BatchInv, Known, WellFormed
    <2>5. recv'[r] = [cursor |-> b.cursor, head |-> {b}]
        BY <2>1
    <2>6. HeadInv(r)'
        BY <1>b, <2>2, <2>4, <2>5 DEF HeadInv
    <2>7. BatchInv(r)'
        BY <2>3, <1>a DEF BatchInv
    <2>8. Known(r)' \subseteq Known(r)
        BY <1>a, <2>2, <2>3 DEF Known
    <2>9. rop'[r] = [pc |-> rop'[r].pc, kind |-> rop'[r].kind, seen |-> rop'[r].seen,
                     batch |-> rop'[r].batch, copied |-> rop'[r].copied]
        BY <1>a, <2>3
    <2>10. Closed(admitted'[r])
        BY <2>2 DEF OneInv
    <2> QED
        BY <1>b, <2>4, <2>5, <2>6, <2>7, <2>8, <2>9, <2>10 DEF OneInv, WellFormed
<1>6. CASE PullPeer(r)
    <2>1. PICK b \in exch : fetched' = [fetched EXCEPT ![r] = {b}]
        BY <1>6 DEF PullPeer
    <2>2. UNCHANGED <<exchVars, stateVars, vaultOf, trust, rop>>
        BY <1>6 DEF PullPeer
    <2>3. HeadInv(r)' /\ BatchInv(r)'
        BY <2>2 DEF OneInv, HeadInv, BatchInv, Chained
    <2>4. Known(r)' \subseteq Known(r) \cup exch
        BY <2>1, <2>2 DEF Known
    <2> QED
        BY <1>b, <2>2, <2>3, <2>4 DEF OneInv, WellFormed, Closed
<1>7. CASE ReceiveCapsule(r)
    <2>1. PICK b \in fetched[r] : /\ AtCursor(r, b) /\ Chained(r, b) /\ Retain(r, b)
                                  /\ rop' = [rop EXCEPT ![r] = [RIdle EXCEPT !.pc = "fetch", !.kind = "capsule", !.batch = {b}]]
        BY <1>7 DEF ReceiveCapsule
    <2>2. fetched'[r] = {} /\ UNCHANGED <<exchVars, recv, staged, vaultOf, trust>>
        BY <1>7 DEF ReceiveCapsule
    <2>3. evidence'[r] = evidence[r] \cup {b}
        BY <2>1 DEF Retain
    <2>4. rop'[r] = [pc |-> "fetch", kind |-> "capsule", seen |-> {}, batch |-> {b}, copied |-> 0]
        BY <2>1 DEF RIdle
    <2>5. HeadInv(r)'
        BY <2>2, <2>3 DEF OneInv, HeadInv
    <2>6. BatchInv(r)'
        BY <2>1, <2>2, <2>3, <2>4 DEF BatchInv, Chained, AtCursor
    <2>7. Known(r)' \subseteq Known(r)
        <3>1. rop'[r].seen = {} /\ rop'[r].batch = {b} /\ receipts'[r] = receipts[r]
            BY <2>2, <2>4
        <3> QED
            BY <2>1, <2>2, <2>3, <3>1 DEF Known
    <2> QED
        BY <1>b, <2>2, <2>4, <2>5, <2>6, <2>7 DEF OneInv, WellFormed, Closed
<1>8. CASE DropFetched(r)
    <2>1. fetched'[r] = {} /\ UNCHANGED <<exchVars, stateVars, vaultOf, trust, rop>>
        BY <1>8 DEF DropFetched
    <2>2. HeadInv(r)' /\ BatchInv(r)'
        BY <2>1 DEF OneInv, HeadInv, BatchInv, Chained
    <2>3. Known(r)' \subseteq Known(r)
        BY <2>1 DEF Known
    <2> QED
        BY <1>b, <2>1, <2>2, <2>3 DEF OneInv, WellFormed, Closed
<1>9. CASE RStop(r)
    <2>1. rop'[r] = RIdle /\ UNCHANGED <<exchVars, stateVars, vaultOf, trust, fetched>>
        BY <1>9 DEF RStop
    <2>2. Known(r)' \subseteq Known(r)
        BY <1>a, <2>1 DEF Known
    <2> QED
        BY <1>a, <1>b, <2>1, <2>2, RestingCall
<1>10. CASE \E x \in Record : Enroll(r, x) \/ RevokeKey(r, x)
    <2>1. UNCHANGED <<exchVars, stateVars, vaultOf, fetched, rop>>
        BY <1>10 DEF Enroll, RevokeKey
    <2>2. HeadInv(r)' /\ BatchInv(r)'
        BY <2>1 DEF OneInv, HeadInv, BatchInv, Chained
    <2>3. Known(r)' = Known(r)
        BY <2>1 DEF Known
    <2> QED
        BY <1>b, <2>1, <2>2, <2>3 DEF OneInv, WellFormed, Closed
<1> QED
    BY <1>1, <1>2, <1>3, <1>4, <1>5, <1>6, <1>7, <1>8, <1>9, <1>10 DEF ReceiverStep

----------------------------------------------------------------------------
(* The invariant holds. *)

LEMMA RecvInvInit ==
    ASSUME RecvInit, exch = {}
    PROVE  RecvInv
<1> USE DEF RecvInit, RIdle
<1>1. RecvTypes
    BY DEF RecvTypes
<1>2. \A r \in Receiver : Known(r) = {}
    BY DEF Known
<1>3. \A r \in Receiver : HeadInv(r) /\ BatchInv(r) /\ Closed(admitted[r])
    BY DEF HeadInv, BatchInv, Closed
<1> QED
    BY <1>1, <1>2, <1>3 DEF RecvInv

LEMMA RecvInvStep ==
    ASSUME RecvInv, NEW r \in Receiver, ReceiverStep(r)
    PROVE  RecvInv'
<1>1. RecvTypes /\ (\A b \in exch : WellFormed(b)) /\ \A s \in Receiver : OneInv(s)
    BY DEF RecvInv, RecvTypes, OneInv
<1>2. OneInv(r)'
    BY <1>1, StepKeepsOne
<1>3. ASSUME NEW s \in Receiver, s # r PROVE OneInv(s)'
    BY <1>1, <1>3, OthersUnmoved, OneInvUnmoved
<1>4. \A s \in Receiver : OneInv(s)'
    BY <1>2, <1>3
<1>5. RecvTypes'
    BY <1>1, <1>4, OthersUnmoved DEF RecvTypes, OneInv
<1>6. \A b \in exch' : WellFormed(b)
    BY <1>1, OthersUnmoved DEF exchVars
<1> QED
    BY <1>4, <1>5, <1>6 DEF RecvInv, OneInv, WellFormed

\* What happens in the exchange does not concern the receivers' own state.
LEMMA RecvInvEnvironment ==
    ASSUME RecvInv, UNCHANGED recvVars, \A b \in exch' : WellFormed(b)
    PROVE  RecvInv'
<1> USE DEF recvVars, stateVars, vaultOf
<1>1. RecvTypes /\ \A s \in Receiver : OneInv(s)
    BY DEF RecvInv, RecvTypes, OneInv
<1>2. ASSUME NEW s \in Receiver PROVE OneInv(s)'
    BY <1>1, OneInvUnmoved DEF RecvVarsOf
<1>3. RecvTypes'
    BY <1>1 DEF RecvTypes
<1> QED
    BY <1>2, <1>3 DEF RecvInv, OneInv, WellFormed

\* Nothing but signed batches turns up.
LEMMA AppearingIsWellFormed ==
    ASSUME \A b \in exch : WellFormed(b), (\E b \in Signed : Appear(b)) \/ Lose
    PROVE  UNCHANGED recvVars /\ \A b \in exch' : WellFormed(b)
<1>1. ASSUME NEW c \in Signed, Appear(c) PROVE UNCHANGED recvVars /\ \A b \in exch' : WellFormed(b)
    BY <1>1, SignedAssumption DEF Appear, WellFormed
<1>2. ASSUME Lose PROVE UNCHANGED recvVars /\ \A b \in exch' : WellFormed(b)
    BY <1>2 DEF Lose, LoseFile, LoseFragment
<1> QED
    BY <1>1, <1>2

LEMMA RecvInvariant == Spec => []RecvInv
<1>1. Init => RecvInv
    BY RecvInvInit DEF Init, ExchangeInit
<1>2. RecvInv /\ [Next]_vars => RecvInv'
    <2> SUFFICES ASSUME RecvInv, [Next]_vars PROVE RecvInv'
        OBVIOUS
    <2>1. \A b \in exch : WellFormed(b)
        BY DEF RecvInv
    <2>2. CASE \E r \in Receiver : ReceiverStep(r)
        BY <2>2, RecvInvStep
    <2>3. CASE (\E b \in Signed : Appear(b)) \/ Lose
        BY <2>1, <2>3, AppearingIsWellFormed, RecvInvEnvironment
    <2>4. CASE UNCHANGED vars
        BY <2>1, <2>4, RecvInvEnvironment DEF vars, exchVars
    <2> QED
        BY <2>2, <2>3, <2>4 DEF Next
<1> QED
    BY <1>1, <1>2, PTL DEF Spec

\* Whatever files come and go, and wherever a call is cut short between the
\* vault and state.json: the head has its receipt, and every receipt has its
\* evidence (_admit_payload, _remember_head).
THEOREM HeadAlwaysHasReceipt == Spec => []HeadHasReceipt
<1>1. RecvInv => HeadHasReceipt
    BY DEF RecvInv, HeadInv, HeadHasReceipt
<1> QED
    BY <1>1, RecvInvariant, PTL

\* The vault of a receiver never holds a record without the records it relates
\* to, whatever a sender left out and whichever key is trusted (ingest_verified).
THEOREM AdmittedIsAlwaysClosed == Spec => []AdmittedIsClosed
<1>1. RecvInv => AdmittedIsClosed
    BY DEF RecvInv, AdmittedIsClosed
<1> QED
    BY <1>1, RecvInvariant, PTL

\* A head moves only from one batch to the batch that names it as its
\* predecessor, whether the batch came from the listing or from a pull that had
\* read the state without the lock (receive, receive_capsule).
THEOREM HeadMovesByOne == Spec => HeadAdvancesByOne
<1> DEFINE Step == \A r \in Receiver :
        recv'[r] # recv[r] => \A b \in recv'[r].head :
            b.after = recv[r].cursor /\ (b.after > 0 => b.prev = recv[r].head)
<1>1. RecvInv /\ [Next]_vars => Step
    <2> SUFFICES ASSUME RecvInv, [Next]_vars, NEW r \in Receiver, recv'[r] # recv[r]
                 PROVE  \A b \in recv'[r].head :
                            b.after = recv[r].cursor /\ (b.after > 0 => b.prev = recv[r].head)
        OBVIOUS
    <2>1. RecvTypes /\ OneInv(r)
        BY DEF RecvInv, RecvTypes, OneInv
    <2>2. ReceiverStep(r)
        <3>1. CASE (\E b \in Signed : Appear(b)) \/ Lose \/ UNCHANGED vars
            BY <3>1 DEF Appear, Lose, vars, recvVars, stateVars
        <3>2. ASSUME NEW s \in Receiver, ReceiverStep(s), s # r PROVE FALSE
            BY <2>1, <3>2, OthersUnmoved DEF RecvVarsOf
        <3> QED
            BY <3>1, <3>2 DEF Next
    <2>3. WriteHead(r)
        BY <2>2 DEF ReceiverStep, BeginReceive, Select, StageFragment, Admit, PullPeer, ReceiveCapsule,
                    DropFetched, RStop, Enroll, RevokeKey, stateVars
    <2>4. PICK b \in rop[r].batch : recv' = [recv EXCEPT ![r] = [cursor |-> b.cursor, head |-> {b}]]
        BY <2>3 DEF WriteHead
    <2>5. rop[r].pc = "admitted"
        BY <2>3 DEF WriteHead, MayWriteHead, RAt
    <2>6. b.after = recv[r].cursor /\ Chained(r, b)
        BY <2>1, <2>4, <2>5 DEF OneInv, BatchInv
    <2>7. recv'[r].head = {b}
        BY <2>1, <2>4 DEF RecvTypes
    <2>8. b.after > 0 => b.prev = recv[r].head
        BY <2>1, <2>6 DEF Chained, OneInv, HeadInv
    <2> QED
        BY <2>6, <2>7, <2>8
<1>2. RecvInv /\ RecvInv' /\ [Next]_vars => [Step]_recvVars
    BY <1>1
<1>3. Spec => [][Step]_recvVars
    BY <1>2, RecvInvariant, PTL DEF Spec
<1> QED
    BY <1>3, PTL DEF HeadAdvancesByOne

----------------------------------------------------------------------------
(* A folder that keeps its files, and trust that does not change. *)

\* What r has chosen at its cursor: downloaded, in hand, or admitted but not
\* yet recorded in state.json.
Chosen(r) == {x \in fetched[r] \cup rop[r].batch \cup receipts[r] : x.after = recv[r].cursor}

\* Nothing that r has chosen can be overlooked by a later choice: it is still a
\* candidate, the only one that was chosen, and a listing that does not show it
\* shows no other.
ChoiceInv(r) ==
    /\ rop[r].seen \subseteq exch
    /\ Chosen(r) \subseteq Candidates(r, exch)
    /\ \A x, y \in Chosen(r) : x = y
    /\ rop[r].pc = "select" =>
        \A x \in Chosen(r) : x \in rop[r].seen \/ Candidates(r, rop[r].seen) \subseteq {x}

\* What is admitted is a chain up to the head, and at most one batch past it.
ChainInv(r) ==
    /\ \A x \in fetched[r] : x.after <= recv[r].cursor
    /\ \A x \in receipts[r] : x.cursor <= recv[r].cursor \/ x.after = recv[r].cursor
    /\ OnePerPrefix(receipts[r]) /\ HashLinked(receipts[r])

KeepInv == steady => \A r \in Receiver : ChoiceInv(r) /\ ChainInv(r)

LEMMA KeepInvInit == Init => KeepInv
<1> SUFFICES ASSUME Init, NEW r \in Receiver PROVE ChoiceInv(r) /\ ChainInv(r)
    BY DEF KeepInv
<1>1. Chosen(r) = {} /\ rop[r].seen = {} /\ fetched[r] = {} /\ receipts[r] = {}
    BY DEF Init, RecvInit, RIdle, Chosen
<1> QED
    BY <1>1 DEF ChoiceInv, ChainInv, OnePerPrefix, HashLinked

\* A batch in a larger folder is a candidate still.
LEMMA MoreFiles ==
    ASSUME NEW r, ChoiceInv(r), ChainInv(r), UNCHANGED RecvVarsOf(r), exch \subseteq exch'
    PROVE  ChoiceInv(r)' /\ ChainInv(r)'
<1> USE DEF RecvVarsOf
<1>1. Chosen(r)' = Chosen(r)
    BY DEF Chosen
<1>2. \A b : Authentic(r, b)' <=> Authentic(r, b)
    BY DEF Authentic, Untrusted
<1>3. Candidates(r, exch) \subseteq Candidates(r, exch)'
    BY <1>2 DEF Candidates
<1>4. Candidates(r, rop[r].seen)' = Candidates(r, rop[r].seen)
    BY <1>2 DEF Candidates
<1>5. ChoiceInv(r)'
    BY <1>1, <1>3, <1>4 DEF ChoiceInv
<1>6. ChainInv(r)'
    BY DEF ChainInv, OnePerPrefix, HashLinked
<1> QED
    BY <1>5, <1>6

\* A step that gives r nothing new to choose from, at the same cursor.
LEMMA NothingChosen ==
    ASSUME NEW r, ChoiceInv(r), ChainInv(r), UNCHANGED <<exch, recv[r], receipts[r], trust[r]>>,
           fetched'[r] \cup rop'[r].batch \subseteq fetched[r] \cup rop[r].batch,
           fetched'[r] \subseteq fetched[r],
           rop'[r].seen \subseteq exch,
           rop'[r].pc = "select" =>
                \/ rop'[r].seen = exch
                \/ rop[r].pc = "select" /\ rop'[r].seen = rop[r].seen
    PROVE  ChoiceInv(r)' /\ ChainInv(r)'
<1>1. Chosen(r)' \subseteq Chosen(r)
    BY DEF Chosen
<1>2. \A b : Authentic(r, b)' <=> Authentic(r, b)
    BY DEF Authentic, Untrusted
<1>3. Candidates(r, exch)' = Candidates(r, exch)
    BY <1>2 DEF Candidates
<1>4. Chosen(r)' \subseteq exch
    BY <1>1 DEF ChoiceInv, Candidates
<1>5. rop'[r].seen = rop[r].seen => Candidates(r, rop[r].seen)' = Candidates(r, rop[r].seen)
    BY <1>2 DEF Candidates
<1>6. ChoiceInv(r)'
    <2>1. ASSUME rop'[r].pc = "select", NEW x \in Chosen(r)'
          PROVE  x \in rop'[r].seen \/ Candidates(r, rop[r].seen)' \subseteq {x}
        <3>1. CASE rop'[r].seen = exch
            BY <1>4, <2>1, <3>1
        <3>2. CASE rop[r].pc = "select" /\ rop'[r].seen = rop[r].seen
            <4>1. x \in rop[r].seen \/ Candidates(r, rop[r].seen) \subseteq {x}
                BY <1>1, <2>1, <3>2 DEF ChoiceInv
            <4> QED
                BY <1>5, <3>2, <4>1
        <3> QED
            BY <2>1, <3>1, <3>2
    <2>2. \A x, y \in Chosen(r)' : x = y
        BY <1>1 DEF ChoiceInv
    <2>3. Chosen(r)' \subseteq Candidates(r, exch)'
        BY <1>1, <1>3 DEF ChoiceInv
    <2> QED
        BY <2>1, <2>2, <2>3 DEF ChoiceInv
<1>7. ChainInv(r)'
    BY DEF ChainInv, OnePerPrefix, HashLinked
<1> QED
    BY <1>6, <1>7

LEMMA KeepStep ==
    ASSUME RecvInv, NEW r \in Receiver, ReceiverStep(r), trust' = trust, ChoiceInv(r), ChainInv(r)
    PROVE  ChoiceInv(r)' /\ ChainInv(r)'
<1> USE DEF stateVars, vaultOf, exchVars
<1>a. /\ \A b \in exch : WellFormed(b)
      /\ \A b \in Known(r) : WellFormed(b)
      /\ HeadInv(r) /\ BatchInv(r) /\ DOMAIN recv = Receiver /\ DOMAIN receipts = Receiver
      /\ DOMAIN fetched = Receiver /\ DOMAIN rop = Receiver
      /\ recv[r].cursor \in Nat
    BY DEF RecvInv, RecvTypes
<1>b. rop[r] = [pc |-> rop[r].pc, kind |-> rop[r].kind, seen |-> rop[r].seen,
                batch |-> rop[r].batch, copied |-> rop[r].copied]
    BY DEF RecvInv, RecvTypes
<1>c. RIdle.pc = "idle" /\ RIdle.batch = {} /\ RIdle.seen = {}
    BY DEF RIdle
<1>d. rop[r].seen \subseteq exch
    BY DEF ChoiceInv
<1>1. CASE BeginReceive(r)
    <2>1. UNCHANGED <<exchVars, stateVars, vaultOf, trust, fetched>>
        BY <1>1 DEF BeginReceive
    <2>2. rop'[r] = [pc |-> "select", kind |-> "receive", seen |-> exch, batch |-> {}, copied |-> 0]
        BY <1>1, <1>a DEF BeginReceive, RIdle
    <2>3. rop'[r].seen = exch /\ rop'[r].batch = {}
        BY <2>2
    <2> QED
        BY <2>1, <2>3, NothingChosen
<1>2. CASE Select(r)
    <2>1. PICK b \in exch : /\ OnlyCandidate(r, rop[r].seen \cap exch, b)
                            /\ rop' = [rop EXCEPT ![r].pc = "fetch", ![r].batch = {b}, ![r].copied = 0]
        BY <1>2 DEF Select
    <2>2. rop[r].pc = "select" /\ UNCHANGED <<exchVars, recv, staged, vaultOf, trust, fetched>>
        BY <1>2 DEF Select, RAt
    <2>3. rop'[r] = [pc |-> "fetch", kind |-> rop[r].kind, seen |-> rop[r].seen, batch |-> {b}, copied |-> 0]
        BY <1>a, <1>b, <2>1
    <2>4. rop'[r].pc = "fetch" /\ rop'[r].seen = rop[r].seen /\ rop'[r].batch = {b}
        BY <2>3
    <2>5. Candidates(r, rop[r].seen) = {b} /\ b.after = recv[r].cursor
        <3>1. rop[r].seen \cap exch = rop[r].seen
            BY <1>d
        <3> QED
            BY <2>1, <3>1 DEF OnlyCandidate, Candidates
    <2>6. \A x \in Chosen(r) : x = b
        <3> SUFFICES ASSUME NEW x \in Chosen(r) PROVE x = b
            OBVIOUS
        <3>1. x \in rop[r].seen \/ Candidates(r, rop[r].seen) \subseteq {x}
            BY <2>2 DEF ChoiceInv
        <3>2. x \in Candidates(r, exch)
            BY DEF ChoiceInv
        <3>3. x \in rop[r].seen => x \in Candidates(r, rop[r].seen)
            BY <3>2 DEF Candidates
        <3> QED
            BY <2>5, <3>1, <3>3
    <2>7. Chosen(r)' \subseteq Chosen(r) \cup {b}
        BY <2>2, <2>4 DEF Chosen
    <2>8. Candidates(r, exch)' = Candidates(r, exch)
        BY <2>2 DEF Candidates, Authentic, Untrusted
    <2>9. b \in Candidates(r, exch)
        BY <1>d, <2>5 DEF Candidates
    <2>10. ChoiceInv(r)'
        BY <1>d, <2>2, <2>4, <2>6, <2>7, <2>8, <2>9 DEF ChoiceInv
    <2>11. ChainInv(r)'
        BY <2>2 DEF ChainInv, OnePerPrefix, HashLinked
    <2> QED
        BY <2>10, <2>11
<1>3. CASE StageFragment(r)
    <2>1. UNCHANGED <<exchVars, recv, evidence, vaultOf, trust, fetched>>
        BY <1>3 DEF StageFragment
    <2>2. rop'[r] = [pc |-> rop[r].pc, kind |-> rop[r].kind, seen |-> rop[r].seen,
                     batch |-> rop[r].batch, copied |-> rop[r].copied + 1]
        BY <1>3, <1>a, <1>b DEF StageFragment
    <2>3. rop'[r].pc = rop[r].pc /\ rop'[r].seen = rop[r].seen /\ rop'[r].batch = rop[r].batch
        BY <2>2
    <2> QED
        BY <1>d, <2>1, <2>3, NothingChosen
<1>4. CASE Admit(r)
    <2>1. PICK b \in rop[r].batch : receipts' = [receipts EXCEPT ![r] = @ \cup {b}]
        BY <1>4 DEF Admit
    <2>2. rop[r].pc = "fetch" /\ UNCHANGED <<exchVars, stateVars, trust, fetched>>
        BY <1>4 DEF Admit, RAt
    <2>3. rop'[r].pc = "admitted" /\ rop'[r].seen = rop[r].seen /\ rop'[r].batch = rop[r].batch
        BY <1>4, <1>a, <1>b DEF Admit
    <2>4. b.after = recv[r].cursor /\ Chained(r, b) /\ b \in Chosen(r)
        BY <1>a, <2>1, <2>2 DEF BatchInv, Chosen
    <2>5. receipts'[r] = receipts[r] \cup {b}
        BY <1>a, <2>1
    <2>6. Chosen(r)' = Chosen(r)
        BY <2>2, <2>3, <2>4, <2>5 DEF Chosen
    <2>7. Candidates(r, exch)' = Candidates(r, exch)
        BY <2>2 DEF Candidates, Authentic, Untrusted
    <2>8. ChoiceInv(r)'
        BY <1>d, <2>2, <2>3, <2>6, <2>7 DEF ChoiceInv
    <2>9. OnePerPrefix(receipts'[r])
        <3>1. ASSUME NEW x \in receipts[r], x.after = b.after PROVE x = b
            BY <2>4, <3>1 DEF Chosen, ChoiceInv
        <3>2. OnePerPrefix(receipts[r])
            BY DEF ChainInv
        <3> QED
            BY <2>5, <3>1, <3>2 DEF OnePerPrefix
    <2>10. HashLinked(receipts'[r])
        <3>1. b.after > 0 => \E p \in receipts[r] : b.prev = {p} /\ p.cursor = b.after
            BY <1>a, <2>4 DEF Chained, HeadInv
        <3>2. HashLinked(receipts[r])
            BY DEF ChainInv
        <3> QED
            BY <2>5, <3>1, <3>2 DEF HashLinked
    <2>11. ChainInv(r)'
        BY <2>2, <2>4, <2>5, <2>9, <2>10 DEF ChainInv
    <2> QED
        BY <2>8, <2>11
<1>5. CASE WriteHead(r)
    <2>1. PICK b \in rop[r].batch : recv' = [recv EXCEPT ![r] = [cursor |-> b.cursor, head |-> {b}]]
        BY <1>5 DEF WriteHead
    <2>2. rop[r].pc = "admitted" /\ UNCHANGED <<exchVars, evidence, staged, vaultOf, trust, fetched>>
        BY <1>5 DEF WriteHead, MayWriteHead, RAt
    <2>3. rop'[r].batch = {} /\ rop'[r].seen \subseteq exch
        <3>1. \/ rop'[r] = [pc |-> "select", kind |-> rop[r].kind, seen |-> rop[r].seen, batch |-> {}, copied |-> 0]
              \/ rop'[r] = RIdle
            BY <1>5, <1>a, <1>b DEF WriteHead
        <3> QED
            BY <1>c, <1>d, <3>1
    <2>4. /\ b \in receipts[r] /\ b.after = recv[r].cursor /\ b.after < b.cursor /\ b.cursor \in Nat
          /\ b \in Chosen(r)
        BY <1>a, <2>1, <2>2 DEF BatchInv, Known, WellFormed, Chosen
    <2>5. recv'[r].cursor = b.cursor
        BY <1>a, <2>1
    <2>6. \A x \in receipts[r] : x.cursor <= recv'[r].cursor /\ x.after < recv'[r].cursor
        <3> SUFFICES ASSUME NEW x \in receipts[r]
                     PROVE  x.cursor <= recv'[r].cursor /\ x.after < recv'[r].cursor
            OBVIOUS
        <3>1. WellFormed(x)
            BY <1>a DEF Known
        <3>2. CASE x.cursor <= recv[r].cursor
            BY <1>a, <2>4, <2>5, <3>1, <3>2 DEF WellFormed
        <3>3. CASE x.after = recv[r].cursor
            <4>1. x = b
                BY <2>4, <3>3 DEF Chosen, ChoiceInv
            <4> QED
                BY <2>4, <2>5, <4>1
        <3> QED
            BY <3>2, <3>3 DEF ChainInv
    <2>7. \A x \in fetched[r] : x.after < recv'[r].cursor
        BY <1>a, <2>4, <2>5 DEF ChainInv, Known, WellFormed
    <2>8. Chosen(r)' = {}
        BY <1>a, <2>2, <2>3, <2>4, <2>5, <2>6, <2>7 DEF Chosen, Known, WellFormed
    <2>9. ChoiceInv(r)'
        BY <2>2, <2>3, <2>8 DEF ChoiceInv
    <2>10. ChainInv(r)'
        <3>1. \A x \in fetched'[r] : x.after <= recv'[r].cursor
            BY <1>a, <2>2, <2>4, <2>5, <2>7 DEF Known, WellFormed
        <3> QED
            BY <2>2, <2>6, <3>1 DEF ChainInv, OnePerPrefix, HashLinked
    <2> QED
        BY <2>9, <2>10
<1>6. CASE PullPeer(r)
    <2>1. PICK b \in exch : OnlyCandidate(r, exch, b) /\ fetched' = [fetched EXCEPT ![r] = {b}]
        BY <1>6 DEF PullPeer
    <2>2. UNCHANGED <<exchVars, stateVars, vaultOf, trust, rop>>
        BY <1>6 DEF PullPeer
    <2>3. fetched'[r] = {b} /\ Candidates(r, exch) = {b} /\ b.after = recv[r].cursor
        BY <1>a, <2>1 DEF OnlyCandidate, Candidates
    <2>4. Chosen(r)' \subseteq Chosen(r) \cup {b}
        BY <2>2, <2>3 DEF Chosen
    <2>5. Chosen(r)' \subseteq {b}
        BY <2>3, <2>4 DEF ChoiceInv
    <2>6. Candidates(r, exch)' = {b}
        BY <2>2, <2>3 DEF Candidates, Authentic, Untrusted
    <2>7. Candidates(r, rop[r].seen)' \subseteq {b}
        BY <1>d, <2>2, <2>6 DEF Candidates
    <2>8. ChoiceInv(r)'
        BY <1>d, <2>2, <2>5, <2>6, <2>7 DEF ChoiceInv
    <2>9. ChainInv(r)'
        BY <1>a, <2>2, <2>3 DEF ChainInv, OnePerPrefix, HashLinked
    <2> QED
        BY <2>8, <2>9
<1>7. CASE ReceiveCapsule(r)
    <2>1. PICK b \in fetched[r] :
            rop' = [rop EXCEPT ![r] = [RIdle EXCEPT !.pc = "fetch", !.kind = "capsule", !.batch = {b}]]
        BY <1>7 DEF ReceiveCapsule
    <2>2. fetched'[r] = {} /\ UNCHANGED <<exchVars, recv, staged, vaultOf, trust>>
        BY <1>7, <1>a DEF ReceiveCapsule
    <2>3. rop'[r] = [pc |-> "fetch", kind |-> "capsule", seen |-> {}, batch |-> {b}, copied |-> 0]
        BY <1>a, <2>1 DEF RIdle
    <2>4. rop'[r].pc = "fetch" /\ rop'[r].seen = {} /\ rop'[r].batch = {b}
        BY <2>3
    <2> QED
        BY <2>1, <2>2, <2>4, NothingChosen
<1>8. CASE DropFetched(r)
    <2>1. fetched'[r] = {} /\ UNCHANGED <<exchVars, stateVars, vaultOf, trust, rop>>
        BY <1>8, <1>a DEF DropFetched
    <2> QED
        BY <1>d, <2>1, NothingChosen
<1>9. CASE RStop(r)
    <2>1. rop'[r] = RIdle /\ UNCHANGED <<exchVars, stateVars, vaultOf, trust, fetched>>
        BY <1>9, <1>a DEF RStop
    <2> QED
        BY <1>c, <2>1, NothingChosen
<1>10. CASE \E x \in Record : Enroll(r, x) \/ RevokeKey(r, x)
    <2>1. UNCHANGED <<exchVars, stateVars, vaultOf, trust, fetched, rop>>
        BY <1>10 DEF Enroll, RevokeKey
    <2> QED
        BY <2>1 DEF ChoiceInv, ChainInv, Chosen, Candidates, Authentic, Untrusted, OnePerPrefix, HashLinked
<1> QED
    BY <1>1, <1>2, <1>3, <1>4, <1>5, <1>6, <1>7, <1>8, <1>9, <1>10 DEF ReceiverStep

LEMMA KeepNext == RecvInv /\ KeepInv /\ [Next]_vars => KeepInv'
<1> SUFFICES ASSUME RecvInv, KeepInv, [Next]_vars, steady', NEW s \in Receiver
             PROVE  ChoiceInv(s)' /\ ChainInv(s)'
    BY DEF KeepInv
<1>0. steady
    BY DEF Next, Appear, Lose, vars
<1>1. RecvTypes /\ ChoiceInv(s) /\ ChainInv(s)
    BY <1>0 DEF RecvInv, KeepInv
<1>2. ASSUME NEW r \in Receiver, ReceiverStep(r), s # r PROVE ChoiceInv(s)' /\ ChainInv(s)'
    <2>1. exch' = exch /\ UNCHANGED RecvVarsOf(s)
        BY <1>1, <1>2, OthersUnmoved DEF exchVars
    <2> QED
        BY <1>1, <2>1, MoreFiles
<1>3. CASE ReceiverStep(s) /\ trust' = trust
    BY <1>1, <1>3, KeepStep
<1>4. CASE \E b \in Signed : Appear(b)
    <2>1. exch \subseteq exch' /\ UNCHANGED RecvVarsOf(s)
        BY <1>4 DEF Appear, RecvVarsOf, recvVars, stateVars, vaultOf
    <2> QED
        BY <1>1, <2>1, MoreFiles
<1>5. CASE Lose \/ UNCHANGED vars
    <2>1. exch \subseteq exch' /\ UNCHANGED RecvVarsOf(s)
        BY <1>5 DEF Lose, LoseFragment, RecvVarsOf, vars, exchVars, recvVars, stateVars, vaultOf
    <2> QED
        BY <1>1, <2>1, MoreFiles
<1> QED
    BY <1>2, <1>3, <1>4, <1>5 DEF Next

LEMMA KeepInvariant == Spec => []KeepInv
<1>1. Init => KeepInv
    BY KeepInvInit
<1>2. RecvInv /\ KeepInv /\ [Next]_vars => KeepInv'
    BY KeepNext
<1> QED
    BY <1>1, <1>2, RecvInvariant, PTL DEF Spec

\* Competing signed batches, old listings, downloads without the lock and
\* crashes between vault and state.json never make a receiver admit two
\* branches, while the folder keeps its files and trust does not change (receive).
THEOREM AcceptedStaysOneStream == Spec => []KeptIsOneStream
<1>1. KeepInv => KeptIsOneStream
    BY DEF KeepInv, ChainInv, AcceptedIsOneStream, KeptIsOneStream
<1> QED
    BY <1>1, KeepInvariant, PTL

\* The head has its receipt, whatever was lost; while nothing is, the vault is
\* never more than the one batch ahead of state.json that a crash left between
\* the admission and the head (_admit_payload, _remember_head).
THEOREM HeadAlwaysFollowsVault == Spec => []HeadFollowsVault
<1>1. RecvInv /\ KeepInv /\ steady => AtMostOneAhead
    <2> SUFFICES ASSUME RecvInv, KeepInv, steady, NEW r \in Receiver, NEW b \in receipts[r],
                        b.cursor > recv[r].cursor
                 PROVE  b.after = recv[r].cursor
        BY DEF AtMostOneAhead
    <2>1. b.cursor \in Nat /\ recv[r].cursor \in Nat
        BY DEF RecvInv, RecvTypes, Known, WellFormed
    <2> QED
        BY <2>1 DEF KeepInv, ChainInv
<1>2. HeadHasReceipt /\ (steady => AtMostOneAhead) => HeadFollowsVault
    BY DEF HeadFollowsVault
<1>3. RecvInv /\ KeepInv => (steady => AtMostOneAhead)
    BY <1>1
<1> QED
    BY <1>2, <1>3, HeadAlwaysHasReceipt, RecvInvariant, KeepInvariant, PTL

----------------------------------------------------------------------------
(* Publisher and receivers together: the inductive invariant. *)

\* Batches follow one another: no two of them overlap.
Follow(a, b) == a = b \/ a.cursor <= b.after \/ b.cursor <= a.after

\* Whatever a receiver has in hand was visible; it holds all of the stream up
\* to the last batch it took, and the records of these batches and no others.
PrefixInv(r) ==
    /\ Known(r) \subseteq exposed
    /\ \A b \in receipts[r], p \in exposed : p.cursor <= b.cursor => p \in receipts[r]
    /\ admitted[r] = UNION {b.records : b \in receipts[r]}

TransferInv ==
    /\ \A a, b \in exposed : Follow(a, b)
    /\ \A r \in Receiver : PrefixInv(r)

----------------------------------------------------------------------------
(* The publisher's part goes on undisturbed. *)

LEMMA PublisherRuns == TransferSpec => PubSpec
<1>1. TransferInit => PubInit
    BY DEF TransferInit
<1>2. ASSUME [TransferNext]_transferVars PROVE [PubNext]_pubVars
    <2>1. ASSUME NEW r \in Receiver, ReceiverStep(r), UNCHANGED publisherOnly PROVE UNCHANGED pubVars
        <3>1. UNCHANGED exchVars
            BY <2>1 DEF ReceiverStep, BeginReceive, Select, StageFragment, Admit, WriteHead, PullPeer,
                        ReceiveCapsule, DropFetched, RStop, Enroll, RevokeKey
        <3> QED
            BY <2>1, <3>1 DEF publisherOnly, pubVars
    <2>2. CASE UNCHANGED transferVars
        BY <2>2 DEF transferVars
    <2> QED
        BY <1>2, <2>1, <2>2 DEF TransferNext
<1> QED
    BY <1>1, <1>2, PTL DEF TransferSpec, PubSpec

\* What a step is, seen from the receivers.
LEMMA TransferSteps ==
    ASSUME [TransferNext]_transferVars
    PROVE  \/ [PubNext]_pubVars /\ UNCHANGED recvVars
           \/ \E r \in Receiver : ReceiverStep(r) /\ UNCHANGED <<publisherOnly, exchVars>>
<1>1. ASSUME NEW r \in Receiver, ReceiverStep(r) PROVE UNCHANGED exchVars
    BY <1>1 DEF ReceiverStep, BeginReceive, Select, StageFragment, Admit, WriteHead, PullPeer,
                ReceiveCapsule, DropFetched, RStop, Enroll, RevokeKey
<1>2. CASE UNCHANGED transferVars
    BY <1>2 DEF transferVars
<1> QED
    BY <1>1, <1>2 DEF TransferNext

LEMMA RecvInvInTransfer == TransferSpec => []RecvInv
<1>1. TransferInit => RecvInv
    BY RecvInvInit DEF TransferInit, PubInit, ExchangeInit
<1>2. TypeOK => \A b \in exch : WellFormed(b)
    BY DEF TypeOK, IsBatch, WellFormed
<1>3. RecvInv /\ TypeOK' /\ [TransferNext]_transferVars => RecvInv'
    <2> SUFFICES ASSUME RecvInv, TypeOK', [TransferNext]_transferVars PROVE RecvInv'
        OBVIOUS
    <2>1. \A b \in exch' : WellFormed(b)
        BY DEF TypeOK, IsBatch, WellFormed
    <2>2. CASE UNCHANGED recvVars
        BY <2>1, <2>2, RecvInvEnvironment
    <2> QED
        BY <2>2, TransferSteps, RecvInvStep
<1> QED
    BY <1>1, <1>3, PublisherRuns, PublisherTypeOK, PTL DEF TransferSpec

----------------------------------------------------------------------------
(* One more batch is visible. *)

\* The publisher either leaves the visible stream alone, or extends it at its
\* end by a batch that names the last one.
LEMMA CommitsAtTheEnd ==
    ASSUME IInv, TransferInv, [PubNext]_pubVars
    PROVE  \/ exposed' = exposed
           \/ \E b \in exposed' :
                /\ exposed' = exposed \cup {b} /\ b \notin exposed /\ IsBatch(b)
                /\ \A a \in exposed : a.cursor <= b.after
                /\ IF exposed = {} THEN b.after = 0 ELSE \E a \in exposed : a.cursor = b.after
                /\ b.prev = {p \in exposed : p.cursor = b.after}
<1>1. CASE Expose
    <2>1. PICK b \in pending : exposed' = exposed \cup {b}
        BY <1>1 DEF Expose
    <2>2. pending = {b} /\ Continues(b) /\ IsBatch(b) /\ IsState(state) /\ \A a \in exposed : IsBatch(a)
        BY <1>1 DEF Expose, IInv, TypeOK, AtMostOne, StreamInv, CallInv, At
    <2>3. CASE b \in exposed
        BY <2>1, <2>3
    <2>4. CASE b \notin exposed
        <3>1. \A a \in exposed : a.cursor <= b.after
            BY <2>2, <2>4 DEF IInv, StreamInv, FrontierInv, Continues, IsBatch, IsState
        <3>2. CASE state.last = {} /\ state.cursor = 0
            <4>1. exposed = {}
                BY <2>2, <3>1, <3>2 DEF Continues, IsBatch
            <4> QED
                BY <2>1, <2>2, <2>4, <3>2, <4>1 DEF Continues
        <3>3. ASSUME NEW l \in exposed, state.last = {l}, l.cursor = state.cursor
              PROVE  /\ exposed # {} /\ \E a \in exposed : a.cursor = b.after
                     /\ b.prev = {p \in exposed : p.cursor = b.after}
            <4>1. ASSUME NEW p \in exposed, p.cursor = b.after PROVE p = l
                BY <2>2, <3>3, <4>1 DEF TransferInv, Follow, Continues, IsBatch
            <4> QED
                BY <2>2, <3>3, <4>1 DEF Continues
        <3>4. \/ state.last = {} /\ state.cursor = 0
              \/ \E l \in exposed : state.last = {l} /\ l.cursor = state.cursor
            BY DEF IInv, StreamInv, StateInv
        <3> QED
            BY <2>1, <2>2, <2>4, <3>1, <3>2, <3>3, <3>4
    <2> QED
        BY <2>3, <2>4
<1>2. CASE Publish /\ ~Expose
    BY <1>2 DEF Publish, BeginPublish, RecoverPublished, ResumePending, Freeze, UpToDate,
         StartPublication, CopyFragment, RecordPublished, SaveState, DropPending, DropStarted
<1>3. CASE Review \/ Acknowledge
    BY <1>3 DEF Review, BeginReview, ResumeReview, WriteDecision, ReplacePending, CompleteReview, Acknowledge
<1>4. CASE PubEnvironment \/ UNCHANGED pubVars
    BY <1>4 DEF pubVars, PubEnvironment, Stop, Remember, Requeue, Revoke, RewriteState, LoseIndex, LoseState,
         LoseOutput
<1> QED
    BY <1>1, <1>2, <1>3, <1>4 DEF PubNext

LEMMA PublisherKeepsPrefixes ==
    ASSUME IInv, RecvInv, TransferInv, [PubNext]_pubVars, UNCHANGED recvVars
    PROVE  TransferInv'
<1> USE DEF recvVars, stateVars, vaultOf
<1>1. \A r \in Receiver : Known(r)' = Known(r) /\ Known(r) \subseteq exposed
    BY DEF Known, TransferInv, PrefixInv
<1>2. \A a \in exposed : IsBatch(a)
    BY DEF IInv, TypeOK
<1>3. CASE exposed' = exposed
    BY <1>1, <1>3 DEF TransferInv, PrefixInv, Follow
<1>4. ASSUME NEW b \in exposed', exposed' = exposed \cup {b}, IsBatch(b), \A a \in exposed : a.cursor <= b.after
      PROVE  TransferInv'
    <2>1. \A x, y \in exposed' : Follow(x, y)
        BY <1>4 DEF TransferInv, Follow
    <2>2. ASSUME NEW r \in Receiver, NEW c \in receipts[r], b.cursor <= c.cursor PROVE FALSE
        <3>1. c \in exposed
            BY <1>1 DEF Known
        <3> QED
            BY <1>2, <1>4, <2>2, <3>1 DEF IsBatch
    <2>3. \A r \in Receiver : PrefixInv(r)'
        BY <1>1, <1>4, <2>2 DEF TransferInv, PrefixInv
    <2> QED
        BY <2>1, <2>3 DEF TransferInv
<1> QED
    BY <1>3, <1>4, CommitsAtTheEnd

----------------------------------------------------------------------------
(* A receiver takes the next batch. *)

\* Only an admission changes the vault, and nothing comes into a receiver's
\* hands that is not in the exchange.
LEMMA ReceiverHands ==
    ASSUME RecvInv, NEW r \in Receiver, ReceiverStep(r)
    PROVE  /\ Admit(r) \/ (receipts' = receipts /\ admitted' = admitted)
           /\ Known(r)' \subseteq Known(r) \cup exch
<1> USE DEF stateVars, vaultOf, exchVars
<1>a. /\ DOMAIN recv = Receiver /\ DOMAIN evidence = Receiver /\ DOMAIN fetched = Receiver
      /\ DOMAIN rop = Receiver /\ DOMAIN receipts = Receiver
      /\ rop[r] = [pc |-> rop[r].pc, kind |-> rop[r].kind, seen |-> rop[r].seen,
                   batch |-> rop[r].batch, copied |-> rop[r].copied]
    BY DEF RecvInv, RecvTypes
<1>b. RIdle.seen = {} /\ RIdle.batch = {}
    BY DEF RIdle
<1>1. CASE BeginReceive(r)
    <2>1. rop'[r] = [pc |-> "select", kind |-> "receive", seen |-> exch, batch |-> {}, copied |-> 0]
        BY <1>1, <1>a DEF BeginReceive, RIdle
    <2>2. rop'[r].seen = exch /\ rop'[r].batch = {}
        BY <2>1
    <2> QED
        BY <1>1, <2>2 DEF BeginReceive, Known
<1>2. CASE Select(r)
    <2>1. PICK b \in exch : Retain(r, b) /\ rop' = [rop EXCEPT ![r].pc = "fetch", ![r].batch = {b}, ![r].copied = 0]
        BY <1>2 DEF Select
    <2>2. rop'[r] = [pc |-> "fetch", kind |-> rop[r].kind, seen |-> rop[r].seen, batch |-> {b}, copied |-> 0]
        BY <1>a, <2>1
    <2>3. rop'[r].seen = rop[r].seen /\ rop'[r].batch = {b} /\ evidence'[r] = evidence[r] \cup {b}
        BY <1>a, <2>1, <2>2 DEF Retain
    <2> QED
        BY <1>2, <2>3 DEF Select, Known
<1>3. CASE StageFragment(r)
    <2>1. rop'[r].seen = rop[r].seen /\ rop'[r].batch = rop[r].batch
        BY <1>3, <1>a DEF StageFragment
    <2> QED
        BY <1>3, <2>1 DEF StageFragment, Known
<1>4. CASE Admit(r)
    <2>1. PICK b \in rop[r].batch : receipts' = [receipts EXCEPT ![r] = @ \cup {b}]
        BY <1>4 DEF Admit
    <2>2. rop'[r].seen = rop[r].seen /\ rop'[r].batch = rop[r].batch /\ receipts'[r] = receipts[r] \cup {b}
        BY <1>4, <1>a, <2>1 DEF Admit
    <2> QED
        BY <1>4, <2>1, <2>2 DEF Admit, Known
<1>5. CASE WriteHead(r)
    <2>1. rop'[r].seen \subseteq rop[r].seen /\ rop'[r].batch \subseteq rop[r].batch
        <3>1. \/ rop'[r] = [pc |-> "select", kind |-> rop[r].kind, seen |-> rop[r].seen, batch |-> {}, copied |-> 0]
              \/ rop'[r] = RIdle
            BY <1>5, <1>a DEF WriteHead
        <3> QED
            BY <1>b, <3>1
    <2> QED
        BY <1>5, <2>1 DEF WriteHead, Known
<1>6. CASE PullPeer(r)
    BY <1>6, <1>a DEF PullPeer, Known
<1>7. CASE ReceiveCapsule(r)
    <2>1. PICK b \in fetched[r] : Retain(r, b) /\
            rop' = [rop EXCEPT ![r] = [RIdle EXCEPT !.pc = "fetch", !.kind = "capsule", !.batch = {b}]]
        BY <1>7 DEF ReceiveCapsule
    <2>2. rop'[r] = [pc |-> "fetch", kind |-> "capsule", seen |-> {}, batch |-> {b}, copied |-> 0]
        BY <1>a, <2>1 DEF RIdle
    <2>3. rop'[r].seen = {} /\ rop'[r].batch = {b}
        BY <2>2
    <2>4. evidence'[r] = evidence[r] \cup {b}
        BY <1>a, <2>1 DEF Retain
    <2>5. /\ fetched' = [fetched EXCEPT ![r] = {}]
          /\ UNCHANGED vaultOf
        BY <1>7 DEF ReceiveCapsule
    <2>6. fetched'[r] = {}
        BY <1>a, <2>5
    <2> QED
        BY <2>1, <2>3, <2>4, <2>5, <2>6 DEF Known
<1>8. CASE DropFetched(r)
    BY <1>8, <1>a DEF DropFetched, Known
<1>9. CASE RStop(r)
    BY <1>9, <1>a, <1>b DEF RStop, Known
<1>10. CASE \E x \in Record : Enroll(r, x) \/ RevokeKey(r, x)
    BY <1>10 DEF Enroll, RevokeKey, Known
<1> QED
    BY <1>1, <1>2, <1>3, <1>4, <1>5, <1>6, <1>7, <1>8, <1>9, <1>10 DEF ReceiverStep

\* The batch in hand is the one that follows all that the vault holds.
LEMMA HoldsAllBefore ==
    ASSUME IInv, RecvInv, TransferInv, NEW r \in Receiver, NEW b \in exposed,
           b.after = recv[r].cursor, b \notin receipts[r]
    PROVE  receipts[r] = {p \in exposed : p.cursor <= b.after}
<1>1. /\ \A a \in exposed : IsBatch(a)
      /\ recv[r].cursor \in Nat /\ receipts[r] \subseteq exposed
    BY DEF IInv, TypeOK, RecvInv, RecvTypes, TransferInv, PrefixInv, Known
<1>2. ASSUME NEW p \in exposed, p.cursor <= b.after PROVE p \in receipts[r]
    <2>1. \/ recv[r].head = {} /\ recv[r].cursor = 0
          \/ \E h \in receipts[r] : h.cursor = recv[r].cursor
        BY DEF RecvInv, HeadInv
    <2>2. p.cursor > 0 /\ p.cursor <= recv[r].cursor
        BY <1>1, <1>2 DEF IsBatch
    <2>3. recv[r].cursor # 0
        BY <1>1, <2>2 DEF IsBatch
    <2>4. PICK h \in receipts[r] : h.cursor = recv[r].cursor
        BY <2>1, <2>3
    <2>5. p.cursor <= h.cursor
        BY <2>2, <2>4
    <2> QED
        BY <2>4, <2>5 DEF TransferInv, PrefixInv
<1>3. ASSUME NEW p \in receipts[r] PROVE p.cursor <= b.after
    <2>1. p \in exposed /\ p # b /\ Follow(p, b)
        BY <1>1, <1>3 DEF TransferInv
    <2>2. CASE b.cursor <= p.after
        <3>1. b.cursor <= p.cursor
            BY <1>1, <2>1, <2>2 DEF IsBatch
        <3> QED
            BY <1>3, <3>1 DEF TransferInv, PrefixInv
    <2> QED
        BY <2>1, <2>2 DEF Follow
<1> QED
    BY <1>1, <1>2, <1>3

LEMMA ReceiverKeepsPrefixes ==
    ASSUME IInv, RecvInv, TransferInv, NEW r \in Receiver, ReceiverStep(r), UNCHANGED <<publisherOnly, exchVars>>
    PROVE  /\ TransferInv'
           /\ \/ receipts' = receipts
              \/ \E b \in exposed :
                    /\ receipts[r] = {p \in exposed : p.cursor <= b.after}
                    /\ receipts' = [receipts EXCEPT ![r] = @ \cup {b}]
<1> USE DEF publisherOnly, exchVars
<1>1. /\ \A a \in exposed : IsBatch(a)
      /\ exch \subseteq exposed
      /\ DOMAIN receipts = Receiver /\ DOMAIN admitted = Receiver
    BY DEF IInv, TypeOK, StreamInv, RecvInv, RecvTypes
<1>2. \A s \in Receiver : Known(s)' \subseteq exposed
    <2>1. ASSUME NEW s \in Receiver, s # r PROVE Known(s)' = Known(s)
        BY <2>1, OthersUnmoved DEF RecvInv, RecvVarsOf, Known
    <2> QED
        BY <1>1, <2>1, ReceiverHands DEF TransferInv, PrefixInv
<1>3. \A a, b \in exposed' : Follow(a, b)
    BY DEF TransferInv
<1>4. CASE receipts' = receipts /\ admitted' = admitted
    BY <1>2, <1>3, <1>4 DEF TransferInv, PrefixInv
<1>5. CASE Admit(r)
    <2>1. PICK b \in rop[r].batch :
            /\ receipts' = [receipts EXCEPT ![r] = @ \cup {b}]
            /\ admitted' = [admitted EXCEPT ![r] = IF b \in receipts[r] THEN @ ELSE @ \cup b.records]
        BY <1>5 DEF Admit
    <2>2. b \in exposed /\ b.after = recv[r].cursor
        BY <1>5, <2>1 DEF Admit, RAt, RecvInv, BatchInv, TransferInv, PrefixInv, Known
    <2>3. CASE b \in receipts[r]
        <3>1. receipts' = receipts /\ admitted' = admitted
            BY <2>1, <2>3 DEF RecvInv, RecvTypes
        <3> QED
            BY <1>4, <3>1
    <2>4. CASE b \notin receipts[r]
        <3>1. receipts[r] = {p \in exposed : p.cursor <= b.after}
            BY <2>2, <2>4, HoldsAllBefore
        <3>2. receipts'[r] = receipts[r] \cup {b} /\ admitted'[r] = admitted[r] \cup b.records
            BY <1>1, <2>1, <2>4
        <3>3. ASSUME NEW p \in exposed, p.cursor <= b.cursor PROVE p \in receipts'[r]
            <4>1. p = b \/ p.cursor <= b.after \/ b.cursor <= p.after
                BY <2>2 DEF TransferInv, Follow
            <4>2. IsBatch(p) /\ IsBatch(b)
                BY <1>1, <2>2
            <4> QED
                BY <3>1, <3>2, <3>3, <4>1, <4>2 DEF IsBatch
        <3>4. ASSUME NEW c \in receipts'[r], NEW p \in exposed, p.cursor <= c.cursor PROVE p \in receipts'[r]
            BY <3>2, <3>3, <3>4 DEF TransferInv, PrefixInv
        <3>5. admitted'[r] = UNION {c.records : c \in receipts'[r]}
            BY <3>2 DEF TransferInv, PrefixInv
        <3>6. PrefixInv(r)'
            BY <1>2, <3>4, <3>5 DEF PrefixInv
        <3>7. ASSUME NEW s \in Receiver, s # r PROVE PrefixInv(s)'
            <4>1. receipts'[s] = receipts[s] /\ admitted'[s] = admitted[s]
                BY <1>1, <2>1, <3>7
            <4> QED
                BY <1>2, <4>1 DEF TransferInv, PrefixInv
        <3> QED
            BY <1>3, <2>1, <2>2, <3>1, <3>6, <3>7 DEF TransferInv
    <2> QED
        BY <2>3, <2>4
<1> QED
    BY <1>4, <1>5, ReceiverHands

LEMMA TransferInvariant ==
    ASSUME "lose_state" \notin Faults
    PROVE  TransferSpec => [](IInv /\ RecvInv /\ TransferInv)
<1>1. TransferInit => TransferInv
    <2> SUFFICES ASSUME TransferInit PROVE TransferInv
        OBVIOUS
    <2>1. exposed = {} /\ \A r \in Receiver : receipts[r] = {} /\ admitted[r] = {} /\ Known(r) = {}
        BY DEF TransferInit, PubInit, RecvInit, RIdle, Known
    <2> QED
        BY <2>1 DEF TransferInv, PrefixInv
<1>2. IInv /\ RecvInv /\ TransferInv /\ [TransferNext]_transferVars => TransferInv'
    BY TransferSteps, PublisherKeepsPrefixes, ReceiverKeepsPrefixes
<1> QED
    BY <1>1, <1>2, PublisherRuns, InvariantHolds, RecvInvInTransfer, PTL DEF TransferSpec

----------------------------------------------------------------------------
(* The refinement. *)

\* Files, journals and calls implement one append-only stream of which every
\* receiver holds a prefix: each step is a commit at the end of the stream, one
\* receiver taking the next batch, or neither (publish, receive), as long as
\* state.json is kept.
THEOREM TransferImplementsStream ==
    ASSUME "lose_state" \notin Faults
    PROVE  TransferSpec => ImplementsStream
<1>1. TransferInit => Promise!Init
    BY DEF TransferInit, PubInit, RecvInit, Promise!Init
<1>2. IInv /\ RecvInv /\ TransferInv /\ [TransferNext]_transferVars => [Promise!Next]_<<exposed, receipts>>
    <2> SUFFICES ASSUME IInv, RecvInv, TransferInv, [TransferNext]_transferVars
                 PROVE  Promise!Next \/ UNCHANGED <<exposed, receipts>>
        OBVIOUS
    <2>1. CASE [PubNext]_pubVars /\ UNCHANGED recvVars
        <3>1. receipts' = receipts
            BY <2>1 DEF recvVars, vaultOf
        <3>2. ASSUME NEW b \in exposed',
                     exposed' = exposed \cup {b}, b \notin exposed, IsBatch(b),
                     \A a \in exposed : a.cursor <= b.after,
                     IF exposed = {} THEN b.after = 0 ELSE \E a \in exposed : a.cursor = b.after,
                     b.prev = {p \in exposed : p.cursor = b.after}
              PROVE  Promise!Commit
            <4>1. Promise!EndsAt(exposed, b.after)
                BY <3>2 DEF Promise!EndsAt
            <4>2. b.cursor > b.after
                BY <3>2 DEF IsBatch
            <4> QED
                BY <3>1, <3>2, <4>1, <4>2 DEF Promise!Commit
        <3> QED
            BY <2>1, <3>1, <3>2, CommitsAtTheEnd DEF Promise!Next
    <2>2. ASSUME NEW r \in Receiver, ReceiverStep(r), UNCHANGED <<publisherOnly, exchVars>>
          PROVE  Promise!Next \/ UNCHANGED <<exposed, receipts>>
        <3>1. exposed' = exposed
            BY <2>2 DEF publisherOnly
        <3> QED
            BY <2>2, <3>1, ReceiverKeepsPrefixes DEF Promise!Next, Promise!Take
    <2> QED
        BY <2>1, <2>2, TransferSteps
<1> QED
    BY <1>1, <1>2, TransferInvariant, PTL DEF TransferSpec, ImplementsStream, Promise!Spec

\* Whatever was excluded, revoked, requeued or lost before: a receiver that has
\* the batches before a thin one and trusts all records can take it
\* (incremental_changes, ingest_verified), as long as state.json is kept.
THEOREM ContinuationAlwaysIngestible ==
    ASSUME "lose_state" \notin Faults
    PROVE  TransferSpec => []ContinuationIsIngestible
<1>1. IInv /\ CarryInv /\ RecvInv /\ TransferInv => ContinuationIsIngestible
    <2> SUFFICES ASSUME IInv, CarryInv, RecvInv, TransferInv, NEW r \in Receiver, NEW b \in exposed,
                        receipts[r] = {p \in exposed : p.cursor <= b.after}, Untrusted(r) = {}
                 PROVE  Ingestible(r, b)
        BY DEF ContinuationIsIngestible
    <2>1. ASSUME b.after > 0 PROVE b.prev \subseteq receipts[r]
        <3>1. PICK p \in exposed : b.prev = {p} /\ p.cursor = b.after
            BY <2>1 DEF IInv, StreamInv, ExposedIsOneStream, HashLinked
        <3>2. IsBatch(b)
            BY DEF IInv, TypeOK
        <3> QED
            BY <3>1, <3>2 DEF IsBatch
    <2> DEFINE T == admitted[r] \cup b.records
    <2>2. T \in SUBSET Record /\ b.records \subseteq Record
        <3>1. \A a \in exposed : a.records \subseteq Record
            BY DEF IInv, TypeOK, IsBatch
        <3>2. admitted[r] = UNION {a.records : a \in receipts[r]}
            BY DEF TransferInv, PrefixInv
        <3> QED
            BY <3>1, <3>2
    <2>3. ASSUME NEW x \in T PROVE Deps[x] \subseteq T
        <3>1. CASE x \in admitted[r]
            BY <3>1 DEF RecvInv, Closed
        <3>2. CASE x \in b.records
            <4>1. Deps[x] \subseteq b.records \cup CarriedBefore(b)
                BY <3>2 DEF CarryInv, Sound, ClosedBatch
            <4>2. CarriedBefore(b) = admitted[r]
                BY DEF CarriedBefore, TransferInv, PrefixInv
            <4> QED
                BY <4>1, <4>2
        <3> QED
            BY <2>3, <3>1, <3>2
    <2>4. Closure(b.records) \subseteq T
        BY <2>2, <2>3 DEF Closure, Pull
    <2>5. \A x \in b.records : Deps[x] \subseteq T
        BY <2>3
    <2> QED
        BY <2>1, <2>4, <2>5 DEF Ingestible
<1> QED
    BY <1>1, TransferInvariant, PublisherRuns, CarryHolds, PTL

\* So no receiver ever holds two branches, and none a batch without those
\* before it, whatever files are lost and whichever keys are revoked.
THEOREM ReceiversHoldOneStream ==
    ASSUME "lose_state" \notin Faults
    PROVE  TransferSpec => []AcceptedIsOneStream
<1>1. IInv /\ TransferInv => AcceptedIsOneStream
    <2> SUFFICES ASSUME IInv, TransferInv, NEW r \in Receiver
                 PROVE  OnePerPrefix(receipts[r]) /\ HashLinked(receipts[r])
        BY DEF AcceptedIsOneStream
    <2>1. receipts[r] \subseteq exposed /\ \A a \in exposed : IsBatch(a)
        BY DEF TransferInv, PrefixInv, Known, IInv, TypeOK
    <2>2. OnePerPrefix(receipts[r])
        BY <2>1 DEF IInv, StreamInv, ExposedIsOneStream, OnePerPrefix
    <2>3. ASSUME NEW b \in receipts[r], b.after > 0
          PROVE  \E p \in receipts[r] : b.prev = {p} /\ p.cursor = b.after
        <3>1. PICK p \in exposed : b.prev = {p} /\ p.cursor = b.after
            BY <2>1, <2>3 DEF IInv, StreamInv, ExposedIsOneStream, HashLinked
        <3>2. p.cursor <= b.cursor
            BY <2>1, <2>3, <3>1 DEF IsBatch
        <3> QED
            BY <2>3, <3>1, <3>2 DEF TransferInv, PrefixInv
    <2> QED
        BY <2>2, <2>3 DEF HashLinked
<1> QED
    BY <1>1, TransferInvariant, PTL

=============================================================================
