---------------------------- MODULE VaultProofs ----------------------------
(***************************************************************************)
(* What the admission of records guarantees for every set of records,      *)
(* relations and keys: proofs are only taken away by a quarantine, records *)
(* are only retired by their first author, no verified closure drops out   *)
(* of the delivery log, and a validation that was shortened by the cache   *)
(* finds what a full one would have found.                                 *)
(***************************************************************************)
EXTENDS ValidationCache, FiniteSetTheorems, WellFoundedInduction, TLAPS

----------------------------------------------------------------------------
(* What a record leads to. *)

\* A set of numbers that is inductive holds them all.
LEMMA InductiveSet ==
    ASSUME NEW S, 0 \in S, \A n \in Nat : n \in S => n + 1 \in S
    PROVE  Nat \subseteq S
<1> SUFFICES ASSUME Nat \ S # {} PROVE FALSE
    OBVIOUS
<1> DEFINE Less == {p \in Nat \X Nat : p[1] < p[2]}
<1>1. IsWellFoundedOn(Less, Nat)
    BY NatLessThanWellFounded DEF OpToRel
<1> HIDE DEF Less
<1>2. PICK m \in Nat \ S : \A n \in Nat \ S : <<n, m>> \notin Less
    BY <1>1, WFMin
<1>3. m # 0 /\ m - 1 \in Nat
    BY <1>2
<1>4. <<m - 1, m>> \in Less
    BY <1>3 DEF Less
<1>5. m - 1 \in S
    BY <1>2, <1>3, <1>4
<1> QED
    BY <1>3, <1>5

LEMMA RecordsCounted == Cardinality(Record) \in Nat
BY RecordAssumption, FS_CardinalityType

LEMMA TargetsAreRecords == \A r \in Record : Targets(r) \subseteq Record
BY RelationsAssumption DEF Targets

\* One level more.
Further(f) == [r \in Record |-> {r} \cup UNION {f[t] : t \in Targets(r)}]

\* The function that Leads is the last value of, up to any level.
IsReach(g, n) ==
    g = [m \in 0 .. n |-> IF m = 0 THEN [r \in Record |-> {r}]
                          ELSE [r \in Record |-> {r} \cup UNION {g[m - 1][t] : t \in Targets(r)}]]

\* The recursion has a solution.
LEMMA ReachExists == \A n \in Nat : \E g : IsReach(g, n)
<1> DEFINE S == {n \in Nat : \E g : IsReach(g, n)}
<1> SUFFICES Nat \subseteq S
    OBVIOUS
<1>1. 0 \in S
    <2>1. IsReach([m \in 0 .. 0 |-> [r \in Record |-> {r}]], 0)
        BY DEF IsReach
    <2> QED
        BY <2>1
<1>2. ASSUME NEW n \in Nat, n \in S PROVE n + 1 \in S
    <2>1. PICK g : IsReach(g, n)
        BY <1>2
    <2> DEFINE h == [m \in 0 .. n + 1 |-> IF m = n + 1 THEN Further(g[n]) ELSE g[m]]
    <2>2. DOMAIN h = 0 .. n + 1 /\ h = [m \in 0 .. n + 1 |-> h[m]]
        OBVIOUS
    <2>3. h[0] = [r \in Record |-> {r}]
        BY <2>1 DEF IsReach
    <2>4. \A m \in 1 .. n + 1 : h[m - 1] = g[m - 1]
        OBVIOUS
    <2>5. \A m \in 1 .. n + 1 : h[m] = Further(h[m - 1])
        <3> SUFFICES ASSUME NEW m \in 1 .. n + 1 PROVE h[m] = Further(h[m - 1])
            OBVIOUS
        <3>1. CASE m = n + 1
            BY <2>4, <3>1
        <3>2. CASE m # n + 1
            <4>1. h[m] = g[m] /\ m \in 0 .. n /\ m # 0
                BY <3>2
            <4>2. g[m] = Further(g[m - 1])
                BY <2>1, <4>1 DEF IsReach, Further
            <4> QED
                BY <2>4, <4>1, <4>2
        <3> QED
            BY <3>1, <3>2
    <2> HIDE DEF h
    <2>6. \A m \in 0 .. n + 1 : m = 0 \/ m \in 1 .. n + 1
        OBVIOUS
    <2>7. IsReach(h, n + 1)
        BY <2>2, <2>3, <2>5, <2>6 DEF IsReach, Further
    <2> QED
        BY <2>7
<1> QED
    BY <1>1, <1>2, InductiveSet

LEMMA LeadsIsReached ==
    \E g : Leads = g[Cardinality(Record)] /\ IsReach(g, Cardinality(Record))
<1>1. \E g : IsReach(g, Cardinality(Record))
    BY ReachExists, RecordsCounted
<1>2. IsReach(CHOOSE g : IsReach(g, Cardinality(Record)), Cardinality(Record))
    BY <1>1, Zenon
<1>3. Leads = (CHOOSE g : IsReach(g, Cardinality(Record)))[Cardinality(Record)]
    BY DEF Leads, IsReach
<1> QED
    BY <1>2, <1>3

\* What a solution says, level by level.
LEMMA ReachLevels ==
    ASSUME NEW N \in Nat, NEW g, IsReach(g, N), NEW r \in Record
    PROVE  /\ g[0][r] = {r}
           /\ \A n \in 1 .. N : g[n][r] = {r} \cup UNION {g[n - 1][t] : t \in Targets(r)}
BY DEF IsReach

\* A later level has at least what an earlier one has.
LEMMA ReachGrows ==
    ASSUME NEW N \in Nat, NEW g, IsReach(g, N)
    PROVE  \A n \in 0 .. N : \A m \in 0 .. n : \A r \in Record : g[m][r] \subseteq g[n][r]
<1> DEFINE Step == {n \in Nat : n < N => \A r \in Record : g[n][r] \subseteq g[n + 1][r]}
<1>1. Nat \subseteq Step
    <2>1. 0 \in Step
        <3>1. ASSUME 0 < N, NEW r \in Record PROVE g[0][r] \subseteq g[0 + 1][r]
            <4>1. g[0][r] = {r} /\ r \in g[1][r]
                BY <3>1, ReachLevels
            <4> QED
                BY <4>1
        <3> QED
            BY <3>1
    <2>2. ASSUME NEW n \in Nat, n \in Step PROVE n + 1 \in Step
        <3> SUFFICES ASSUME n + 1 < N, NEW r \in Record PROVE g[n + 1][r] \subseteq g[n + 1 + 1][r]
            OBVIOUS
        <3>1. \A t \in Record : g[n][t] \subseteq g[n + 1][t]
            BY <2>2
        <3>2. /\ g[n + 1][r] = {r} \cup UNION {g[n][t] : t \in Targets(r)}
              /\ g[n + 1 + 1][r] = {r} \cup UNION {g[n + 1][t] : t \in Targets(r)}
            <4>1. n + 1 \in 1 .. N /\ n + 1 + 1 \in 1 .. N /\ n + 1 - 1 = n /\ n + 1 + 1 - 1 = n + 1
                OBVIOUS
            <4> QED
                BY <4>1, ReachLevels
        <3>3. Targets(r) \subseteq Record
            BY TargetsAreRecords
        <3> QED
            BY <3>1, <3>2, <3>3
    <2> HIDE DEF Step
    <2> QED
        BY <2>1, <2>2, InductiveSet
<1> DEFINE Up == {n \in Nat : n <= N => \A m \in 0 .. n : \A r \in Record : g[m][r] \subseteq g[n][r]}
<1>2. 0 \in Up
    OBVIOUS
<1>3. ASSUME NEW n \in Nat, n \in Up PROVE n + 1 \in Up
    <2> SUFFICES ASSUME n + 1 <= N, NEW m \in 0 .. n + 1, NEW r \in Record
                 PROVE  g[m][r] \subseteq g[n + 1][r]
        OBVIOUS
    <2>1. CASE m = n + 1
        BY <2>1
    <2>2. CASE m # n + 1
        <3>1. g[m][r] \subseteq g[n][r]
            BY <1>3, <2>2
        <3>2. g[n][r] \subseteq g[n + 1][r]
            BY <1>1
        <3> QED
            BY <3>1, <3>2
    <2> QED
        BY <2>1, <2>2
<1>4. Nat \subseteq Up
    <2> HIDE DEF Up
    <2> QED
        BY <1>2, <1>3, InductiveSet
<1> QED
    BY <1>4

\* A record leads to itself, and else to what one of its targets leads to.
LEMMA LeadsByTargets ==
    ASSUME NEW r \in Record
    PROVE  /\ r \in Leads[r]
           /\ \A a \in Leads[r] : a = r \/ \E t \in Targets(r) : a \in Leads[t]
<1> DEFINE N == Cardinality(Record)
<1>1. PICK g : Leads = g[N] /\ IsReach(g, N)
    BY LeadsIsReached
<1>2. N \in Nat /\ N # 0
    BY RecordsCounted, RecordAssumption, FS_EmptySet
<1> HIDE DEF N
<1>3. g[N][r] = {r} \cup UNION {g[N - 1][t] : t \in Targets(r)}
    BY <1>1, <1>2, ReachLevels
<1>4. \A t \in Targets(r) : g[N - 1][t] \subseteq g[N][t]
    BY <1>1, <1>2, ReachGrows, TargetsAreRecords
<1> QED
    BY <1>1, <1>3, <1>4

\* A walk along the targets that stops where everything further on is in G.
LEMMA LeadsWithin ==
    ASSUME NEW V \in SUBSET Record, NEW G,
           \A v \in V : v \in G /\ (Leads[v] \subseteq G \/ Targets(v) \subseteq V)
    PROVE  \A v \in V : Leads[v] \subseteq G
<1> DEFINE N == Cardinality(Record)
<1>1. PICK g : Leads = g[N] /\ IsReach(g, N)
    BY LeadsIsReached
<1>2. N \in Nat
    BY RecordsCounted
<1> HIDE DEF N
<1> DEFINE In == {n \in Nat : n <= N => \A v \in V : g[n][v] \subseteq G}
<1>3. 0 \in In
    BY <1>1, <1>2, ReachLevels
<1>4. ASSUME NEW n \in Nat, n \in In PROVE n + 1 \in In
    <2> SUFFICES ASSUME n + 1 <= N, NEW v \in V PROVE g[n + 1][v] \subseteq G
        OBVIOUS
    <2>1. CASE Leads[v] \subseteq G
        <3>1. g[n + 1][v] \subseteq g[N][v]
            BY <1>1, <1>2, ReachGrows
        <3> QED
            BY <1>1, <2>1, <3>1
    <2>2. CASE Targets(v) \subseteq V
        <3>1. g[n + 1][v] = {v} \cup UNION {g[n][t] : t \in Targets(v)}
            <4>1. n + 1 \in 1 .. N /\ n + 1 - 1 = n
                BY <1>2
            <4> QED
                BY <1>1, <1>2, <4>1, ReachLevels
        <3>2. \A t \in Targets(v) : g[n][t] \subseteq G
            BY <1>2, <1>4, <2>2
        <3> QED
            BY <3>1, <3>2
    <2> QED
        BY <2>1, <2>2
<1>5. Nat \subseteq In
    <2> HIDE DEF In
    <2> QED
        BY <1>3, <1>4, InductiveSet
<1> QED
    BY <1>1, <1>2, <1>5

----------------------------------------------------------------------------
(* The inductive invariant of the admissions. *)

Unsigned == {"local_unsigned", "accepted_unsigned"}
Rows == [state : {"absent", "verified", "quarantined"} \cup Unsigned, signer : SUBSET Key]

AdmissionTypeOK ==
    /\ row \in [Record -> Rows] /\ author \in [Record -> SUBSET Key]
    /\ trust \in [Key -> {"unknown", "trusted", "revoked"}]
    /\ due \subseteq Record /\ sent \subseteq Record

\* What the state of a row says of its attestation.
RowsInv ==
    \A r \in Record :
        /\ row[r].state = "absent" => row[r] = Absent
        /\ row[r].state \in Unsigned => row[r].signer = {}
        /\ row[r].state = "verified" => row[r].signer # {}
        /\ row[r].signer # {} => author[r] # {}

\* Only what was trusted once has verified anything.
TrustInv ==
    /\ \A k \in OwnKey : trust[k] # "unknown"
    /\ \A r \in Record : row[r].state = "verified" => \A k \in row[r].signer : trust[k] # "unknown"

\* Nothing dangles.
ClosedInv == \A r \in Stored(row) : Targets(r) \subseteq Stored(row)

AdmissionInv == AdmissionTypeOK /\ RowsInv /\ TrustInv /\ ClosedInv /\ NothingIsForgotten

----------------------------------------------------------------------------
(* Ranks and arrivals. *)

LEMMA RankIsTwo ==
    ASSUME NEW w
    PROVE  /\ Admitted(w) = 2 <=> w.state = "verified" /\ \A k \in w.signer : trust[k] = "trusted"
           /\ Admitted(w) \in {0, 1, 2}
           /\ Admitted(w) > 0 => w.state \in {"verified"} \cup Unsigned
<1>1. CASE w.state = "verified"
    BY <1>1 DEF Admitted, Strength
<1>2. CASE w.state # "verified"
    BY <1>2 DEF Admitted, Strength, Unsigned
<1> QED
    BY <1>1, <1>2

LEMMA Strengths ==
    /\ Strength("verified") = 2 /\ Strength("quarantined") = 0
    /\ \A state \in Unsigned : Strength(state) = 1
BY DEF Strength, Unsigned

\* Records come with a state, attested by keys that are no strangers, and
\* leave nothing dangling.
Arrival(R, state, signer) ==
    /\ R \subseteq Record
    /\ UNION {Targets(r) : r \in R} \subseteq Stored(row) \cup R
    /\ \/ /\ state = "verified" /\ signer \subseteq Key /\ signer # {}
          /\ \A k \in signer : trust[k] # "unknown"
       \/ state \in {"quarantined"} \cup Unsigned /\ signer = {}

LEMMA ArrivalMay ==
    ASSUME AdmissionInv, NEW R, NEW state, NEW signer, Arrival(R, state, signer),
           Take(R, state, signer)
    PROVE  /\ \A r \in R : Raises(r, state) => row'[r] = [state |-> state, signer |-> signer]
           /\ \A r \in Record : r \notin R \/ ~Raises(r, state) => row'[r] = row[r]
           /\ Stored(row)' = Stored(row) \cup R
<1>1. \A r \in R : Raises(r, state) => row'[r] = [state |-> state, signer |-> signer]
    BY DEF Take, RowsAfter, Arrival
<1>2. \A r \in Record : r \notin R \/ ~Raises(r, state) => row'[r] = row[r]
    BY DEF Take, RowsAfter
<1>3. state # "absent"
    BY DEF Arrival, Unsigned
<1>4. \A r \in R : row[r].state = "absent" => Raises(r, state)
    BY DEF AdmissionInv, RowsInv, Raises, Arrival
<1>5. Stored(row)' = Stored(row) \cup R
    BY <1>1, <1>2, <1>3, <1>4 DEF Stored, Arrival
<1> QED
    BY <1>1, <1>2, <1>5

\* What a step can be.
AdmissionSteps ==
    \/ \E R, state, signer : Arrival(R, state, signer) /\ Take(R, state, signer) /\ UNCHANGED trust
    \/ \E R \in SUBSET Record : RequeueRecords(R)
    \/ \E k \in Key : QuarantineSigner(k) \/ TrustKey(k) \/ RevokeKey(k)
    \/ \E accept \in BOOLEAN : Restore(accept)
    \/ \E r \in Record : ReadEntry(r)
    \/ UNCHANGED admissionVars

LEMMA AdmissionStepKinds == AdmissionInv /\ [AdmissionNext]_admissionVars => AdmissionSteps
<1> SUFFICES ASSUME AdmissionInv, [AdmissionNext]_admissionVars PROVE AdmissionSteps
    OBVIOUS
<1>1. ASSUME NEW r \in Record, NEW signer \in {{}, OwnKey}, Remember(r, signer) PROVE AdmissionSteps
    <2> DEFINE state == IF signer = {} THEN "local_unsigned" ELSE "verified"
    <2>1. Take({r}, state, signer) /\ UNCHANGED trust
        BY <1>1 DEF Remember
    <2>2. UNION {Targets(q) : q \in {r}} \subseteq Stored(row) \cup {r}
        BY <1>1 DEF Remember
    <2>3. \/ /\ state = "verified" /\ signer \subseteq Key /\ signer # {}
             /\ \A k \in signer : trust[k] # "unknown"
          \/ state \in {"quarantined"} \cup Unsigned /\ signer = {}
        BY OwnKeyAssumption DEF AdmissionInv, TrustInv, Unsigned
    <2> HIDE DEF state
    <2>4. Arrival({r}, state, signer)
        BY <2>2, <2>3 DEF Arrival
    <2> QED
        BY <2>1, <2>4 DEF AdmissionSteps
<1>2. ASSUME NEW R \in Travelling, NEW accept \in BOOLEAN, ImportBundle(R, accept) PROVE AdmissionSteps
    <2> DEFINE state == IF accept THEN "accepted_unsigned" ELSE "quarantined"
    <2>1. Take(R, state, {}) /\ UNCHANGED trust
        BY <1>2 DEF ImportBundle
    <2>2. state \in {"quarantined"} \cup Unsigned
        BY DEF Unsigned
    <2> HIDE DEF state
    <2>3. Arrival(R, state, {})
        BY <1>2, <2>2, RecordAssumption DEF Arrival, ImportBundle
    <2> QED
        BY <2>1, <2>3 DEF AdmissionSteps
<1>3. ASSUME NEW R \in Travelling, NEW k \in Key, Ingest(R, k) PROVE AdmissionSteps
    <2>1. Arrival(R, "verified", {k})
        BY <1>3, RecordAssumption DEF Arrival, Ingest
    <2> QED
        BY <1>3, <2>1 DEF AdmissionSteps, Ingest
<1> QED
    BY <1>1, <1>2, <1>3 DEF AdmissionNext, AdmissionWrite, AdmissionSteps

----------------------------------------------------------------------------
(* The invariant is kept. *)

\* A copy that arrives does nothing to a record that is verified.
LEMMA ArrivalSparesVerified ==
    ASSUME AdmissionInv, NEW R, NEW state, NEW signer, Arrival(R, state, signer),
           NEW r \in R, Raises(r, state)
    PROVE  Rank(r) # 2
<1>1. CASE row[r] = Absent
    BY <1>1, RankIsTwo DEF Rank, Absent
<1>2. CASE Admitted(row[r]) < Strength(state)
    <2>1. Strength(state) \in {0, 1, 2}
        BY Strengths DEF Arrival
    <2> QED
        BY <1>2, <2>1 DEF Rank
<1> QED
    BY <1>1, <1>2 DEF Raises

LEMMA AdmissionTypeNext == AdmissionInv /\ AdmissionSteps => AdmissionTypeOK'
<1> SUFFICES ASSUME AdmissionInv, AdmissionSteps PROVE AdmissionTypeOK'
    OBVIOUS
<1> USE DEF vaultVars
<1>0. AdmissionTypeOK
    BY DEF AdmissionInv
<1>1. ASSUME NEW R, NEW state, NEW signer, Arrival(R, state, signer), Take(R, state, signer), UNCHANGED trust
      PROVE  AdmissionTypeOK'
    <2>1. [state |-> state, signer |-> signer] \in Rows
        BY <1>1 DEF Arrival, Rows
    <2>2. row' \in [Record -> Rows]
        BY <1>0, <1>1, <2>1 DEF Take, RowsAfter, AdmissionTypeOK
    <2>3. \A r \in Record : AuthorAfter(r, signer) \in SUBSET Key
        BY <1>0, <1>1 DEF AuthorAfter, AdmissionTypeOK, Rows, Arrival
    <2>4. author' \in [Record -> SUBSET Key]
        BY <1>0, <1>1, <2>3 DEF Take, AuthorsAfter, AdmissionTypeOK
    <2>5. Announced(R, state, signer) \subseteq Record
        BY <1>1 DEF Announced, Dependents, Arrival
    <2> QED
        BY <1>0, <1>1, <2>2, <2>4, <2>5 DEF AdmissionTypeOK, Take
<1>2. ASSUME NEW R \in SUBSET Record, RequeueRecords(R) PROVE AdmissionTypeOK'
    BY <1>0, <1>2 DEF AdmissionTypeOK, RequeueRecords, Dependents
<1>3. ASSUME NEW k \in Key, QuarantineSigner(k) PROVE AdmissionTypeOK'
    BY <1>0, <1>3 DEF AdmissionTypeOK, QuarantineSigner, Rows
<1>4. ASSUME NEW k \in Key, TrustKey(k) \/ RevokeKey(k) PROVE AdmissionTypeOK'
    BY <1>0, <1>4 DEF AdmissionTypeOK, TrustKey, RevokeKey
<1>5. ASSUME NEW accept \in BOOLEAN, Restore(accept) PROVE AdmissionTypeOK'
    <2> DEFINE State(r) ==
            IF row[r].signer # {}
            THEN IF \A k \in row[r].signer : trust[k] = "trusted" THEN "verified" ELSE "quarantined"
            ELSE IF accept /\ row[r].state \in {"local_unsigned", "accepted_unsigned"}
                 THEN "accepted_unsigned" ELSE "quarantined"
    <2>1. \A r \in Record : State(r) \in {"verified", "quarantined"} \cup Unsigned
        BY DEF Unsigned
    <2>2. row' = [r \in Record |-> IF row[r] = Absent THEN Absent ELSE [row[r] EXCEPT !.state = State(r)]]
        BY <1>5 DEF Restore
    <2> HIDE DEF State
    <2>3. Absent \in Rows
        BY DEF Absent, Rows
    <2>4. row' \in [Record -> Rows]
        BY <1>0, <2>1, <2>2, <2>3 DEF AdmissionTypeOK, Rows
    <2> QED
        BY <1>0, <1>5, <2>4 DEF AdmissionTypeOK, Restore, Stored
<1>6. ASSUME NEW r \in Record, ReadEntry(r) PROVE AdmissionTypeOK'
    BY <1>0, <1>6 DEF AdmissionTypeOK, ReadEntry
<1>7. CASE UNCHANGED admissionVars
    BY <1>0, <1>7 DEF AdmissionTypeOK, admissionVars
<1> QED
    BY <1>1, <1>2, <1>3, <1>4, <1>5, <1>6, <1>7 DEF AdmissionSteps

\* A restored row, field by field.
LEMMA RestoredRow ==
    ASSUME AdmissionInv, NEW accept \in BOOLEAN, Restore(accept), NEW r \in Record
    PROVE  /\ row[r] = Absent <=> row'[r] = Absent
           /\ row'[r].signer = row[r].signer
           /\ row'[r].state = "verified" =>
                row[r].signer # {} /\ \A k \in row[r].signer : trust[k] = "trusted"
           /\ row'[r].state \in Unsigned => row[r].signer = {}
           /\ row'[r].state = "absent" => row'[r] = Absent
           /\ row[r].signer # {} /\ (\A k \in row[r].signer : trust[k] = "trusted") =>
                row'[r].state = "verified"
<1>1. row[r] \in Rows
    BY DEF AdmissionInv, AdmissionTypeOK
<1>2. CASE row[r] = Absent
    BY <1>2 DEF Restore, Absent, Unsigned
<1>3. CASE row[r] # Absent
    <2>1. PICK state \in {"verified", "quarantined", "accepted_unsigned"} :
            /\ row'[r] = [row[r] EXCEPT !.state = state]
            /\ state = "verified" <=>
                row[r].signer # {} /\ \A k \in row[r].signer : trust[k] = "trusted"
            /\ state = "accepted_unsigned" => row[r].signer = {}
        BY <1>3 DEF Restore
    <2>2. row'[r].state = state /\ row'[r].signer = row[r].signer
        BY <1>1, <2>1 DEF Rows
    <2>3. row'[r] # Absent
        BY <2>1, <2>2 DEF Absent
    <2> QED
        BY <1>3, <2>1, <2>2, <2>3 DEF Unsigned
<1> QED
    BY <1>2, <1>3

\* A quarantined row keeps its attestation.
LEMMA QuarantinedRow ==
    ASSUME AdmissionInv, NEW k \in Key, QuarantineSigner(k), NEW r \in Record
    PROVE  \/ row'[r] = row[r]
           \/ /\ row[r].state = "verified" /\ row'[r] = [row[r] EXCEPT !.state = "quarantined"]
              /\ row'[r].state = "quarantined" /\ row'[r].signer = row[r].signer
<1>1. row[r] \in Rows
    BY DEF AdmissionInv, AdmissionTypeOK
<1> QED
    BY <1>1 DEF QuarantineSigner, Rows

LEMMA RowsNext == AdmissionInv /\ AdmissionSteps => RowsInv'
<1> SUFFICES ASSUME AdmissionInv, AdmissionSteps, NEW r \in Record
             PROVE  (/\ row[r].state = "absent" => row[r] = Absent
                     /\ row[r].state \in Unsigned => row[r].signer = {}
                     /\ row[r].state = "verified" => row[r].signer # {}
                     /\ row[r].signer # {} => author[r] # {})'
    BY DEF RowsInv
<1> USE DEF vaultVars
<1>0. /\ row[r].state = "absent" => row[r] = Absent
      /\ row[r].state \in Unsigned => row[r].signer = {}
      /\ row[r].state = "verified" => row[r].signer # {}
      /\ row[r].signer # {} => author[r] # {}
    BY DEF AdmissionInv, RowsInv
<1>1. ASSUME NEW R, NEW state, NEW signer, Arrival(R, state, signer), Take(R, state, signer), UNCHANGED trust
      PROVE  (/\ row[r].state = "absent" => row[r] = Absent
              /\ row[r].state \in Unsigned => row[r].signer = {}
              /\ row[r].state = "verified" => row[r].signer # {}
              /\ row[r].signer # {} => author[r] # {})'
    <2>1. author'[r] = IF r \in R THEN AuthorAfter(r, signer) ELSE author[r]
        BY <1>1 DEF Take, AuthorsAfter
    <2>2. author[r] # {} \/ (r \in R /\ signer # {}) => author'[r] # {}
        BY <1>0, <2>1 DEF AuthorAfter
    <2>3. CASE r \in R /\ Raises(r, state)
        <3>1. row'[r] = [state |-> state, signer |-> signer]
            BY <1>1, <2>3, ArrivalMay
        <3>2. row'[r].state = state /\ row'[r].signer = signer
            BY <3>1
        <3> QED
            BY <1>1, <2>2, <2>3, <3>2 DEF Arrival, Unsigned
    <2>4. CASE r \notin R \/ ~Raises(r, state)
        <3>1. row'[r] = row[r]
            BY <1>1, <2>4, ArrivalMay
        <3> QED
            BY <1>0, <2>2, <3>1 DEF Absent
    <2> QED
        BY <2>3, <2>4
<1>2. ASSUME NEW k \in Key, QuarantineSigner(k)
      PROVE  (/\ row[r].state = "absent" => row[r] = Absent
              /\ row[r].state \in Unsigned => row[r].signer = {}
              /\ row[r].state = "verified" => row[r].signer # {}
              /\ row[r].signer # {} => author[r] # {})'
    <2>1. author' = author
        BY <1>2 DEF QuarantineSigner
    <2> QED
        BY <1>0, <1>2, <2>1, QuarantinedRow DEF Absent, Unsigned
<1>3. ASSUME NEW accept \in BOOLEAN, Restore(accept)
      PROVE  (/\ row[r].state = "absent" => row[r] = Absent
              /\ row[r].state \in Unsigned => row[r].signer = {}
              /\ row[r].state = "verified" => row[r].signer # {}
              /\ row[r].signer # {} => author[r] # {})'
    <2>1. author' = author
        BY <1>3 DEF Restore
    <2> QED
        BY <1>0, <1>3, <2>1, RestoredRow DEF Absent
<1>4. CASE UNCHANGED <<row, author>>
    BY <1>0, <1>4 DEF Absent
<1> QED
    BY <1>1, <1>2, <1>3, <1>4 DEF AdmissionSteps, RequeueRecords, TrustKey, RevokeKey, ReadEntry, admissionVars

LEMMA TrustNext == AdmissionInv /\ AdmissionSteps => TrustInv'
<1> SUFFICES ASSUME AdmissionInv, AdmissionSteps PROVE TrustInv'
    OBVIOUS
<1> USE DEF vaultVars
<1>1. \A k \in Key : trust[k] # "unknown" => trust'[k] # "unknown"
    BY DEF AdmissionSteps, AdmissionInv, AdmissionTypeOK, RequeueRecords, QuarantineSigner, TrustKey,
           RevokeKey, Restore, ReadEntry, admissionVars
<1>2. ASSUME NEW r \in Record, row'[r].state = "verified", NEW k \in row'[r].signer
      PROVE  k \in Key /\ trust[k] # "unknown"
    <2>0. row[r].state = "verified" /\ k \in row[r].signer => k \in Key /\ trust[k] # "unknown"
        BY DEF AdmissionInv, TrustInv, AdmissionTypeOK, Rows
    <2>1. ASSUME NEW R, NEW state, NEW signer, Arrival(R, state, signer), Take(R, state, signer)
          PROVE  k \in Key /\ trust[k] # "unknown"
        <3>1. CASE r \in R /\ Raises(r, state)
            <4>0. row'[r] = [state |-> state, signer |-> signer]
                BY <2>1, <3>1, ArrivalMay
            <4>1. state = "verified" /\ k \in signer
                BY <1>2, <4>0
            <4> QED
                BY <2>1, <4>1 DEF Arrival, Unsigned
        <3>2. CASE r \notin R \/ ~Raises(r, state)
            BY <1>2, <2>0, <2>1, <3>2, ArrivalMay
        <3> QED
            BY <3>1, <3>2
    <2>2. ASSUME NEW q \in Key, QuarantineSigner(q) PROVE k \in Key /\ trust[k] # "unknown"
        BY <1>2, <2>0, <2>2, QuarantinedRow
    <2>3. ASSUME NEW accept \in BOOLEAN, Restore(accept) PROVE k \in Key /\ trust[k] # "unknown"
        <3>1. k \in row[r].signer /\ trust[k] = "trusted"
            BY <1>2, <2>3, RestoredRow
        <3> QED
            BY <3>1 DEF AdmissionInv, AdmissionTypeOK, Rows
    <2>4. CASE UNCHANGED row
        BY <1>2, <2>0, <2>4
    <2> QED
        BY <2>1, <2>2, <2>3, <2>4 DEF AdmissionSteps, RequeueRecords, TrustKey, RevokeKey, ReadEntry, admissionVars
<1> QED
    BY <1>1, <1>2, OwnKeyAssumption DEF AdmissionInv, TrustInv

LEMMA ClosedNext == AdmissionInv /\ AdmissionSteps => ClosedInv'
<1> SUFFICES ASSUME AdmissionInv, AdmissionSteps PROVE ClosedInv'
    OBVIOUS
<1> USE DEF vaultVars
<1>1. ASSUME NEW R, NEW state, NEW signer, Arrival(R, state, signer), Take(R, state, signer)
      PROVE  ClosedInv'
    <2>1. Stored(row)' = Stored(row) \cup R
        BY <1>1, ArrivalMay
    <2>2. UNION {Targets(r) : r \in R} \subseteq Stored(row) \cup R
        BY <1>1 DEF Arrival
    <2> QED
        BY <2>1, <2>2 DEF AdmissionInv, ClosedInv
<1>2. ASSUME Stored(row)' = Stored(row) PROVE ClosedInv'
    BY <1>2 DEF AdmissionInv, ClosedInv
<1>3. ASSUME NEW k \in Key, QuarantineSigner(k) PROVE ClosedInv'
    <2>1. \A r \in Record : row'[r].state = "absent" <=> row[r].state = "absent"
        BY <1>3, QuarantinedRow
    <2> QED
        BY <1>2, <2>1 DEF Stored
<1>4. ASSUME NEW accept \in BOOLEAN, Restore(accept) PROVE ClosedInv'
    <2>1. \A r \in Record : row'[r].state = "absent" <=> row[r].state = "absent"
        BY <1>4, RestoredRow DEF AdmissionInv, RowsInv, Absent
    <2> QED
        BY <1>2, <2>1 DEF Stored
<1>5. CASE UNCHANGED row
    BY <1>2, <1>5 DEF Stored
<1> QED
    BY <1>1, <1>3, <1>4, <1>5 DEF AdmissionSteps, RequeueRecords, TrustKey, RevokeKey, ReadEntry, admissionVars

\* What a stored record leads to is stored.
LEMMA StoredLeads ==
    ASSUME AdmissionInv, NEW r \in Stored(row)
    PROVE  Leads[r] \subseteq Stored(row)
<1>1. Stored(row) \in SUBSET Record
    BY DEF Stored
<1> QED
    BY <1>1, LeadsWithin DEF AdmissionInv, ClosedInv

\* Whoever can be delivered after records arrived could be before, or is announced.
LEMMA ArrivalAnnounces ==
    ASSUME AdmissionInv, NEW R, NEW state, NEW signer, Arrival(R, state, signer),
           Take(R, state, signer), UNCHANGED trust, NEW r \in Record, Deliverable(r)'
    PROVE  Deliverable(r) \/ r \in Announced(R, state, signer)
<1>1. \A c \in Leads[r] : Rank(c)' = 2
    BY DEF Deliverable
<1>2. r \in Leads[r]
    BY LeadsByTargets
<1> SUFFICES ASSUME NEW c \in Leads[r], Rank(c) # 2 PROVE r \in Announced(R, state, signer)
    BY DEF Deliverable
<1>3. Rank(c)' = 2 /\ Rank(r)' = 2
    BY <1>1, <1>2
<1>4. c \in Record
    <2>1. Leads[r] \subseteq Record
        BY LeadsWithin, TargetsAreRecords
    <2> QED
        BY <2>1
<1>5. row'[c] # row[c]
    <2>1. Rank(c)' = Admitted(row[c])' /\ Rank(c) = Admitted(row[c])
        BY DEF Rank
    <2>2. (row'[c].state = "verified" /\ \A k \in row'[c].signer : trust'[k] = "trusted")
        BY <1>3, RankIsTwo DEF Rank, Admitted, Strength
    <2>3. ~(row[c].state = "verified" /\ \A k \in row[c].signer : trust[k] = "trusted")
        BY RankIsTwo DEF Rank
    <2> QED
        BY <2>2, <2>3
<1>6. c \in R /\ Raises(c, state)
    BY <1>4, <1>5, ArrivalMay
<1>7. CASE c = r
    BY <1>6, <1>7 DEF Announced
<1>8. CASE c # r /\ row[c] # Absent
    <2>1. c \in Upgraded(R, state)
        BY <1>6, <1>8 DEF Upgraded
    <2>2. PICK t \in Targets(r) : c \in Leads[t]
        BY <1>8, LeadsByTargets
    <2>3. r \in Dependents(Upgraded(R, state))
        BY <2>1, <2>2 DEF Dependents
    <2>4. Admitted(RowsAfter(R, state, signer)[r]) = Rank(r)'
        BY DEF Take, Rank, Admitted
    <2> QED
        BY <1>3, <2>3, <2>4 DEF Announced
<1>9. CASE row[c] = Absent
    <2>1. r \notin Stored(row)
        BY <1>9, StoredLeads DEF Stored, Absent
    <2>2. row[r] = Absent
        BY <2>1 DEF Stored, AdmissionInv, RowsInv
    <2>3. row'[r] # row[r]
        BY <1>3, <2>2 DEF Rank, Admitted, Strength, Absent
    <2>4. r \in R /\ Raises(r, state)
        BY <2>3, ArrivalMay
    <2> QED
        BY <2>4 DEF Announced
<1> QED
    BY <1>7, <1>8, <1>9

LEMMA ForgottenNext == AdmissionInv /\ AdmissionSteps => NothingIsForgotten'
<1> SUFFICES ASSUME AdmissionInv, AdmissionSteps, NEW r \in Record, Deliverable(r)'
             PROVE  r \in due' \cup sent'
    BY DEF NothingIsForgotten
<1> USE DEF vaultVars
<1>0. Deliverable(r) => r \in due \cup sent
    BY DEF AdmissionInv, NothingIsForgotten
<1>1. r \in Leads[r] /\ Leads[r] \subseteq Record
    BY LeadsByTargets, LeadsWithin, TargetsAreRecords
<1>2. \A c \in Leads[r] : row'[c].state = "verified" /\ \A k \in row'[c].signer : trust'[k] = "trusted"
    <2>1. \A c \in Leads[r] : Admitted(row[c])' = 2
        BY DEF Deliverable, Rank
    <2> QED
        BY <2>1 DEF Admitted, Strength
<1>3. ASSUME \A c \in Leads[r] : row[c].state = "verified" /\ \A k \in row[c].signer : trust[k] = "trusted"
      PROVE  Deliverable(r)
    BY <1>3, RankIsTwo DEF Deliverable, Rank
<1>4. ASSUME NEW R, NEW state, NEW signer, Arrival(R, state, signer), Take(R, state, signer), UNCHANGED trust
      PROVE  r \in due' \cup sent'
    <2>1. Deliverable(r) \/ r \in Announced(R, state, signer)
        BY <1>4, ArrivalAnnounces
    <2> QED
        BY <1>0, <1>4, <2>1 DEF Take
<1>5. ASSUME NEW R \in SUBSET Record, RequeueRecords(R) PROVE r \in due' \cup sent'
    <2>1. Deliverable(r)
        BY <1>2, <1>3, <1>5 DEF RequeueRecords
    <2> QED
        BY <1>0, <1>5, <2>1 DEF RequeueRecords
<1>6. ASSUME NEW k \in Key, QuarantineSigner(k) PROVE r \in due' \cup sent'
    <2>1. UNCHANGED <<trust, due, sent>>
        BY <1>6 DEF QuarantineSigner
    <2>2. \A c \in Leads[r] : row'[c] = row[c]
        BY <1>1, <1>2, <1>6, QuarantinedRow
    <2> QED
        BY <1>0, <1>2, <1>3, <2>1, <2>2
<1>7. ASSUME NEW k \in Key, TrustKey(k) \/ RevokeKey(k) PROVE r \in due' \cup sent'
    <2>1. UNCHANGED <<row, due, sent>>
        BY <1>7 DEF TrustKey, RevokeKey
    <2>2. \A q \in Key : trust[q] # "unknown" /\ trust'[q] = "trusted" => trust[q] = "trusted"
        BY <1>7 DEF TrustKey, RevokeKey, AdmissionInv, AdmissionTypeOK
    <2>3. \A c \in Leads[r] : \A q \in row[c].signer : q \in Key
        BY <1>1 DEF AdmissionInv, AdmissionTypeOK, Rows
    <2>4. \A c \in Leads[r] : row[c].state = "verified" /\ \A q \in row[c].signer : trust[q] = "trusted"
        BY <1>1, <1>2, <2>1, <2>2, <2>3 DEF AdmissionInv, TrustInv
    <2> QED
        BY <1>0, <1>3, <2>1, <2>4
<1>8. ASSUME NEW accept \in BOOLEAN, Restore(accept) PROVE r \in due' \cup sent'
    <2>1. row'[r].state = "verified"
        BY <1>1, <1>2
    <2>2. row[r].signer # {}
        BY <1>8, <2>1, RestoredRow
    <2>3. row[r].state # "absent"
        BY <2>2 DEF AdmissionInv, RowsInv, Absent
    <2> QED
        BY <1>8, <2>3 DEF Restore, Stored
<1>9. ASSUME NEW q \in Record, ReadEntry(q) PROVE r \in due' \cup sent'
    <2>1. Deliverable(r)
        BY <1>2, <1>3, <1>9 DEF ReadEntry
    <2> QED
        BY <1>0, <1>9, <2>1 DEF ReadEntry
<1>10. CASE UNCHANGED admissionVars
    <2>1. Deliverable(r)
        BY <1>2, <1>3, <1>10 DEF admissionVars
    <2> QED
        BY <1>0, <1>10, <2>1 DEF admissionVars
<1> QED
    BY <1>4, <1>5, <1>6, <1>7, <1>8, <1>9, <1>10 DEF AdmissionSteps

----------------------------------------------------------------------------
(* What the vault guarantees. *)

LEMMA AdmissionInvariant == AdmissionSpec => []AdmissionInv
<1>1. AdmissionInit => AdmissionInv
    <2> SUFFICES ASSUME AdmissionInit PROVE AdmissionInv
        OBVIOUS
    <2>0. \A r \in Record : row[r] = Absent /\ author[r] = {}
        BY DEF AdmissionInit
    <2>1. AdmissionTypeOK
        BY DEF AdmissionInit, AdmissionTypeOK, Rows, Absent
    <2>2. RowsInv
        BY <2>0 DEF RowsInv, Absent, Unsigned
    <2>3. TrustInv
        <3>1. PICK T \in SUBSET Key :
                OwnKey \subseteq T /\ trust = [k \in Key |-> IF k \in T THEN "trusted" ELSE "unknown"]
            BY DEF AdmissionInit
        <3>2. \A k \in OwnKey : trust[k] # "unknown"
            BY <3>1, OwnKeyAssumption
        <3> QED
            BY <2>0, <3>2 DEF TrustInv, Absent
    <2>4. ClosedInv
        BY <2>0 DEF ClosedInv, Stored, Absent
    <2>5. NothingIsForgotten
        <3>1. \A r \in Record : Rank(r) # 2
            BY <2>0, RankIsTwo DEF Rank, Absent
        <3> QED
            BY <3>1, LeadsByTargets DEF NothingIsForgotten, Deliverable
    <2> QED
        BY <2>1, <2>2, <2>3, <2>4, <2>5 DEF AdmissionInv
<1>2. AdmissionInv /\ [AdmissionNext]_admissionVars => AdmissionInv'
    BY AdmissionStepKinds, AdmissionTypeNext, RowsNext, TrustNext, ClosedNext, ForgottenNext
    DEF AdmissionInv
<1> QED
    BY <1>1, <1>2, PTL DEF AdmissionSpec

\* No verified closure is ever neither delivered nor to be delivered, whichever
\* of its members were unverified, quarantined or attested by a revoked key
\* when it was passed over (Vault._changes, _requeue_dependents).
THEOREM NothingIsEverForgotten == AdmissionSpec => []NothingIsForgotten
<1>1. AdmissionInv => NothingIsForgotten
    BY DEF AdmissionInv
<1> QED
    BY <1>1, AdmissionInvariant, PTL

\* Nobody but its first author retires a record, and an unsigned one is only
\* retired by a record of the same installation (_STATE_AUTHOR_MATCH_SQL).
THEOREM OnlyTheAuthorRetires == AdmissionSpec => []RetiredByItsAuthor
<1>1. AdmissionInv => RetiredByItsAuthor
    <2> SUFFICES ASSUME AdmissionInv, NEW r \in Record, Status(r) \in {"superseded", "resolved"}
                 PROVE  \E e \in Relations :
                            /\ e.target = r /\ Rank(e.source) > 0
                            /\ row[e.source].signer # {} => author[r] = row[e.source].signer
                            /\ row[e.source].signer = {} => row[r].state = "local_unsigned"
        BY DEF RetiredByItsAuthor
    <2>1. /\ Rank(r) # 0
          /\ \E s \in Record : \E type \in {"resolves", "supersedes"} : Effective(s, type, r)
        BY DEF Status
    <2>2. PICK s \in Record : \E type \in {"resolves", "supersedes"} : Effective(s, type, r)
        BY <2>1
    <2>3. PICK type \in {"resolves", "supersedes"} : Effective(s, type, r)
        BY <2>2
    <2> DEFINE e == [source |-> s, type |-> type, target |-> r]
    <2>4. e \in Relations /\ e.target = r /\ e.source = s
        BY <2>3 DEF Effective
    <2>5. Rank(s) > 0
        BY <2>1, <2>3, RankIsTwo DEF Effective, Rank
    <2>6. /\ row[s].signer # {} => author[r] = row[s].signer
          /\ row[s].signer = {} => row[r].state = "local_unsigned"
        BY <2>3 DEF Effective, StateAuthorMatch, AuthorKey, AdmissionInv, RowsInv, Unsigned
    <2> QED
        BY <2>4, <2>5, <2>6
<1> QED
    BY <1>1, AdmissionInvariant, PTL

\* Neither a copy that arrives by any way nor a restored database takes from a
\* verified record what it has: only a quarantine of the very key that attests it
\* does, and it keeps the attestation (_set_admission, restore_database).
THEOREM ProofsStay == AdmissionSpec => NoDemotion
<1> DEFINE Step == \A r \in Record : Rank(r) = 2 /\ row'[r] # row[r] =>
        /\ row'[r] = [row[r] EXCEPT !.state = "quarantined"]
        /\ \E k \in row[r].signer : QuarantineSigner(k)
<1>1. AdmissionInv /\ [AdmissionNext]_admissionVars => Step
    <2> SUFFICES ASSUME AdmissionInv, AdmissionSteps, NEW r \in Record, Rank(r) = 2, row'[r] # row[r]
                 PROVE  /\ row'[r] = [row[r] EXCEPT !.state = "quarantined"]
                        /\ \E k \in row[r].signer : QuarantineSigner(k)
        BY AdmissionStepKinds
    <2>1. ASSUME NEW R, NEW state, NEW signer, Arrival(R, state, signer), Take(R, state, signer)
          PROVE  FALSE
        <3>1. r \in R /\ Raises(r, state)
            BY <2>1, ArrivalMay
        <3> QED
            BY <2>1, <3>1, ArrivalSparesVerified
    <2>2. ASSUME NEW k \in Key, QuarantineSigner(k)
          PROVE  row'[r] = [row[r] EXCEPT !.state = "quarantined"] /\ k \in row[r].signer
        <3>1. row[r].signer = {k}
            BY <2>2 DEF QuarantineSigner
        <3> QED
            BY <2>2, <3>1, QuarantinedRow
    <2>3. ASSUME NEW accept \in BOOLEAN, Restore(accept) PROVE FALSE
        <3>1. row[r].state = "verified" /\ \A k \in row[r].signer : trust[k] = "trusted"
            BY RankIsTwo DEF Rank
        <3>2. row[r].signer # {} /\ row[r] \in Rows /\ row[r] # Absent
            BY <3>1 DEF AdmissionInv, RowsInv, AdmissionTypeOK, Absent
        <3>3. row'[r] = [row[r] EXCEPT !.state = "verified"]
            BY <2>3, <3>1, <3>2 DEF Restore
        <3> QED
            BY <3>1, <3>2, <3>3 DEF Rows
    <2> QED
        BY <2>1, <2>2, <2>3
        DEF AdmissionSteps, RequeueRecords, TrustKey, RevokeKey, ReadEntry, vaultVars, admissionVars
<1> QED
    BY <1>1, AdmissionInvariant, PTL DEF AdmissionSpec, NoDemotion

\* The first identity that signed a record stays its author (_set_admission).
THEOREM AuthorsStay == AdmissionSpec => AuthorStays
<1> DEFINE Step == \A r \in Record : author[r] # {} => author'[r] = author[r]
<1>1. AdmissionInv /\ [AdmissionNext]_admissionVars => Step
    <2> SUFFICES ASSUME AdmissionInv, AdmissionSteps, NEW r \in Record, author[r] # {}
                 PROVE  author'[r] = author[r]
        BY AdmissionStepKinds
    <2>1. ASSUME NEW R, NEW state, NEW signer, Take(R, state, signer) PROVE author'[r] = author[r]
        BY <2>1 DEF Take, AuthorsAfter, AuthorAfter
    <2> QED
        BY <2>1
        DEF AdmissionSteps, RequeueRecords, QuarantineSigner, TrustKey, RevokeKey, Restore, ReadEntry,
            vaultVars, admissionVars
<1> QED
    BY <1>1, AdmissionInvariant, PTL DEF AdmissionSpec, AuthorStays

----------------------------------------------------------------------------
(* The inductive invariant of the cache. *)

Epochs == [nonce : Nat, count : Nat]
Policies == [Key -> {"unknown", "trusted", "revoked"}]

IsJob(j) ==
    /\ j = [pc |-> j.pc, kind |-> j.kind, roots |-> j.roots, rows |-> j.rows, epoch |-> j.epoch,
            authors |-> j.authors, announced |-> j.announced,
            trust |-> j.trust, pending |-> j.pending, visited |-> j.visited,
            certificates |-> j.certificates]
    /\ j.pc \in {"begin", "visit", "checked", "committed"} /\ j.kind \in {"outgoing", "ingest"}
    /\ j.roots \subseteq Record /\ j.pending \subseteq Record /\ j.visited \subseteq Record
    /\ j.epoch \in Epochs
    /\ j.pc = "begin" => j.pending = {} /\ j.visited = {} /\ j.certificates = {}
    /\ j.pc # "begin" => j.trust \in Policies

CacheTypeOK ==
    /\ trust \in Policies /\ epoch \in Epochs
    /\ \A c \in cache : c.record \in Record /\ c.epoch \in Epochs /\ c.trust \in Policies
    /\ job = NoJob \/ IsJob(job)

\* Neither epochs nor policies come back.
NotAfter(e, f) == e.nonce < f.nonce \/ (e.nonce = f.nonce /\ e.count <= f.count)
Follows(old, new) ==
    \A k \in Key : /\ old[k] = "revoked" => new[k] = "revoked"
                   /\ old[k] = "trusted" => new[k] \in {"trusted", "revoked"}

\* What a record leads to is verified, in these rows and under this policy.
Good(rows, policy) == {a \in Record : rows[a].state = "verified" /\ \A k \in rows[a].signer : policy[k] = "trusted"}
Holds(r, rows, policy) == Leads[r] \subseteq Good(rows, policy)

\* The rows that are there stay as they are.
Extends(rows, later) == \A r \in Record : rows[r] # Absent => later[r] = rows[r]

\* A certificate speaks of the rows of its epoch, wherever these still are.
CertInv ==
    \A c \in cache :
        /\ NotAfter(c.epoch, epoch) /\ Follows(c.trust, trust)
        /\ c.epoch = epoch => Holds(c.record, row, c.trust)
        /\ job # NoJob /\ c.epoch = job.epoch => Holds(c.record, job.rows, c.trust)

\* The rows of a snapshot have the epoch of the snapshot; those of a write
\* transaction are the next ones of the vault.
SnapshotInv ==
    job # NoJob =>
        IF job.kind = "ingest" /\ job.pc # "committed"
        THEN NotAfter(epoch, job.epoch)
        ELSE NotAfter(job.epoch, epoch) /\ (job.epoch = epoch => Extends(job.rows, row))

Certificate(r) == [record |-> r, epoch |-> job.epoch, trust |-> job.trust]

\* As long as the policy is the one of the beginning, what was visited is good
\* and what it leads to was visited, is pending, or is certified.
WalkInv ==
    job # NoJob /\ job.pc # "begin" =>
        /\ Follows(job.trust, trust)
        /\ job.certificates \subseteq job.visited
        /\ job.pc = "visit" =>
            /\ job.roots \subseteq job.visited \cup job.pending
            /\ trust = job.trust => job.visited \subseteq Good(job.rows, job.trust)
            /\ \A r \in job.visited :
                Targets(r) \subseteq job.visited \cup job.pending \/ Certificate(r) \in cache
        /\ job.pc # "visit" => \A r \in job.visited : Holds(r, job.rows, job.trust)

CacheInv == CacheTypeOK /\ CertInv /\ SnapshotInv /\ WalkInv

----------------------------------------------------------------------------
(* Epochs and policies. *)

LEMMA EpochGrows ==
    ASSUME epoch \in Epochs, NEW rows, NEW next, next = EpochAfter(rows)
    PROVE  /\ next \in Epochs /\ NotAfter(epoch, next)
           /\ next = epoch => Extends(row, rows)
<1> DEFINE hit == {r \in Record : row[r] # Absent /\ rows[r] # row[r]}
<1>1. IsFiniteSet(hit) /\ Cardinality(hit) \in Nat
    BY RecordAssumption, FS_Subset, FS_CardinalityType
<1>2. next = [epoch EXCEPT !.count = @ + Cardinality(hit)]
    BY DEF EpochAfter
<1>3. Cardinality(hit) = 0 => hit = {}
    BY <1>1, FS_EmptySet
<1>4. hit = {} => Extends(row, rows)
    BY DEF Extends
<1> HIDE DEF hit
<1>5. /\ next.nonce = epoch.nonce /\ next.count = epoch.count + Cardinality(hit)
      /\ next \in Epochs
    BY <1>1, <1>2 DEF Epochs
<1>6. NotAfter(epoch, next)
    BY <1>1, <1>5 DEF NotAfter, Epochs
<1>7. next = epoch => Cardinality(hit) = 0
    BY <1>1, <1>5 DEF Epochs
<1> QED
    BY <1>3, <1>4, <1>5, <1>6, <1>7

LEMMA EpochsAreOrdered ==
    ASSUME NEW d \in Epochs, NEW e \in Epochs, NEW f \in Epochs, NotAfter(d, e), NotAfter(e, f)
    PROVE  /\ NotAfter(d, f)
           /\ d = f => d = e /\ e = f
<1>1. /\ d.nonce \in Nat /\ e.nonce \in Nat /\ f.nonce \in Nat
      /\ d.count \in Nat /\ e.count \in Nat /\ f.count \in Nat
    BY DEF Epochs
<1>2. NotAfter(d, f)
    BY <1>1 DEF NotAfter
<1>3. ASSUME d = f PROVE d.nonce = e.nonce /\ d.count = e.count
    BY <1>1, <1>3 DEF NotAfter
<1>4. d = [nonce |-> d.nonce, count |-> d.count] /\ e = [nonce |-> e.nonce, count |-> e.count]
    BY DEF Epochs
<1> QED
    BY <1>2, <1>3, <1>4

\* A policy that is left is never the policy again.
LEMMA PolicyMovesOn ==
    ASSUME trust \in Policies, NEW k \in Key, TrustKey(k) \/ RevokeKey(k),
           NEW old \in Policies, Follows(old, trust)
    PROVE  trust' \in Policies /\ Follows(old, trust') /\ old # trust'
<1>1. CASE TrustKey(k)
    BY <1>1 DEF TrustKey, Policies, Follows
<1>2. CASE RevokeKey(k)
    BY <1>2 DEF RevokeKey, Policies, Follows
<1> QED
    BY <1>1, <1>2

\* What verified in some rows verifies in rows that extend them.
LEMMA HoldsOn ==
    ASSUME NEW r \in Record, NEW rows, NEW later, NEW policy, Extends(rows, later), Holds(r, rows, policy)
    PROVE  Holds(r, later, policy)
<1>1. \A a \in Leads[r] : a \in Record /\ rows[a].state = "verified"
    BY DEF Holds, Good
<1>2. \A a \in Leads[r] : later[a] = rows[a]
    BY <1>1 DEF Extends, Absent
<1> QED
    BY <1>2 DEF Holds, Good

----------------------------------------------------------------------------
(* The invariant is kept. *)

LEMMA ExtendsOn ==
    ASSUME NEW a, NEW b, NEW c, Extends(a, b), Extends(b, c)
    PROVE  Extends(a, c)
BY DEF Extends

LEMMA OtherWriteKeeps == CacheInv /\ OtherWrite => CacheInv'
<1> SUFFICES ASSUME CacheInv, OtherWrite PROVE CacheInv'
    OBVIOUS
<1>1. UNCHANGED <<trust, cache, job>>
    BY DEF OtherWrite, AdmissionWrite, Remember, RequeueRecords, ImportBundle, Ingest, QuarantineSigner
<1>2. /\ epoch' \in Epochs /\ NotAfter(epoch, epoch')
      /\ epoch' = epoch => Extends(row, row')
    BY EpochGrows DEF OtherWrite, CacheInv, CacheTypeOK
<1>3. CacheTypeOK'
    BY <1>1, <1>2 DEF CacheInv, CacheTypeOK, IsJob
<1>4. CertInv'
    <2> SUFFICES ASSUME NEW c \in cache
                 PROVE  /\ NotAfter(c.epoch, epoch') /\ Follows(c.trust, trust)
                        /\ c.epoch = epoch' => Holds(c.record, row', c.trust)
                        /\ job # NoJob /\ c.epoch = job.epoch => Holds(c.record, job.rows, c.trust)
        BY <1>1 DEF CertInv
    <2>1. /\ NotAfter(c.epoch, epoch) /\ Follows(c.trust, trust)
          /\ c.epoch = epoch => Holds(c.record, row, c.trust)
          /\ job # NoJob /\ c.epoch = job.epoch => Holds(c.record, job.rows, c.trust)
        BY DEF CacheInv, CertInv
    <2>2. c.record \in Record /\ c.epoch \in Epochs /\ epoch \in Epochs
        BY DEF CacheInv, CacheTypeOK
    <2>3. NotAfter(c.epoch, epoch') /\ (c.epoch = epoch' => c.epoch = epoch /\ epoch = epoch')
        BY <1>2, <2>1, <2>2, EpochsAreOrdered
    <2> QED
        BY <1>2, <2>1, <2>2, <2>3, HoldsOn
<1>5. SnapshotInv'
    <2> SUFFICES ASSUME job # NoJob
                 PROVE  /\ ~(job.kind = "ingest" /\ job.pc # "committed")
                        /\ NotAfter(job.epoch, epoch') /\ (job.epoch = epoch' => Extends(job.rows, row'))
        BY <1>1 DEF SnapshotInv
    <2>1. ~(job.kind = "ingest" /\ job.pc # "committed")
        BY DEF OtherWrite, VaultUnlocked
    <2>2. /\ NotAfter(job.epoch, epoch) /\ (job.epoch = epoch => Extends(job.rows, row))
          /\ job.epoch \in Epochs /\ epoch \in Epochs
        BY <2>1 DEF CacheInv, SnapshotInv, CacheTypeOK, IsJob
    <2>3. NotAfter(job.epoch, epoch') /\ (job.epoch = epoch' => job.epoch = epoch /\ epoch = epoch')
        BY <1>2, <2>2, EpochsAreOrdered
    <2> QED
        BY <1>2, <2>1, <2>2, <2>3, ExtendsOn
<1>6. WalkInv'
    BY <1>1 DEF CacheInv, WalkInv, Certificate
<1> QED
    BY <1>3, <1>4, <1>5, <1>6 DEF CacheInv

LEMMA RestoreKeeps ==
    ASSUME CacheInv, NEW accept, RestoreCopy(accept)
    PROVE  CacheInv'
<1>1. UNCHANGED <<trust, cache, job>> /\ job = NoJob /\ epoch' = [nonce |-> epoch.nonce + 1, count |-> 0]
    BY DEF RestoreCopy, Restore, FreshEpoch
<1>2. epoch \in Epochs /\ epoch' \in Epochs /\ NotAfter(epoch, epoch') /\ epoch' # epoch
    BY <1>1 DEF CacheInv, CacheTypeOK, Epochs, NotAfter
<1>3. \A c \in cache : NotAfter(c.epoch, epoch') /\ c.epoch # epoch'
    BY <1>2, EpochsAreOrdered DEF CacheInv, CertInv, CacheTypeOK
<1> QED
    BY <1>1, <1>2, <1>3 DEF CacheInv, CacheTypeOK, CertInv, SnapshotInv, WalkInv

LEMMA TrustKeeps == CacheInv /\ OtherTrust => CacheInv'
<1> SUFFICES ASSUME CacheInv, OtherTrust PROVE CacheInv'
    OBVIOUS
<1>1. PICK k \in Key : TrustKey(k) \/ RevokeKey(k)
    BY DEF OtherTrust
<1>2. UNCHANGED <<row, epoch, cache, job>>
    BY <1>1 DEF OtherTrust, TrustKey, RevokeKey, vaultVars
<1>3. trust \in Policies /\ trust' \in Policies
    <2>1. trust \in Policies
        BY DEF CacheInv, CacheTypeOK
    <2>2. Follows(trust, trust)
        BY <2>1 DEF Follows
    <2> QED
        BY <1>1, <2>1, <2>2, PolicyMovesOn
<1>4. \A old \in Policies : Follows(old, trust) => Follows(old, trust') /\ old # trust'
    BY <1>1, <1>3, PolicyMovesOn
<1>5. CacheTypeOK'
    BY <1>2, <1>3 DEF CacheInv, CacheTypeOK, IsJob
<1>6. CertInv' /\ SnapshotInv'
    BY <1>2, <1>4 DEF CacheInv, CertInv, SnapshotInv, CacheTypeOK
<1>7. WalkInv'
    <2>1. job # NoJob /\ job.pc # "begin" => job.trust \in Policies
        BY DEF CacheInv, CacheTypeOK, IsJob
    <2> QED
        BY <1>2, <1>4, <2>1 DEF CacheInv, WalkInv, Certificate
<1> QED
    BY <1>5, <1>6, <1>7 DEF CacheInv

\* A job that begins has seen nothing.
LEMMA StartKeeps ==
    ASSUME CacheInv, UNCHANGED <<trust, row, epoch, cache>>,
           IsJob(job'), job'.pc = "begin",
           job'.kind = "outgoing" => job'.epoch = epoch /\ job'.rows = row,
           NotAfter(epoch, job'.epoch), job'.epoch = epoch => Extends(row, job'.rows)
    PROVE  CacheInv'
<1>0. job' # NoJob /\ job'.kind \in {"outgoing", "ingest"} /\ job'.epoch \in Epochs
    BY DEF IsJob, NoJob
<1>1. CacheTypeOK'
    BY DEF CacheInv, CacheTypeOK
<1>2. CertInv'
    <2> SUFFICES ASSUME NEW c \in cache
                 PROVE  c.epoch = job'.epoch => Holds(c.record, job'.rows, c.trust)
        BY DEF CacheInv, CertInv
    <2>1. /\ NotAfter(c.epoch, epoch)
          /\ c.epoch = epoch => Holds(c.record, row, c.trust)
        BY DEF CacheInv, CertInv
    <2>2. c.record \in Record /\ c.epoch \in Epochs /\ epoch \in Epochs
        BY DEF CacheInv, CacheTypeOK
    <2>3. c.epoch = job'.epoch => c.epoch = epoch /\ epoch = job'.epoch
        BY <2>1, <2>2, EpochsAreOrdered
    <2> QED
        BY <2>1, <2>2, <2>3, HoldsOn
<1>3. SnapshotInv'
    <2>1. CASE job'.kind = "ingest"
        BY <1>0, <2>1 DEF SnapshotInv
    <2>2. CASE job'.kind = "outgoing"
        <3>1. NotAfter(job'.epoch, epoch') /\ Extends(job'.rows, row')
            BY <2>2 DEF Extends
        <3> QED
            BY <1>0, <2>2, <3>1 DEF SnapshotInv
    <2> QED
        BY <1>0, <2>1, <2>2
<1>4. WalkInv'
    BY <1>0 DEF WalkInv
<1> QED
    BY <1>1, <1>2, <1>3, <1>4 DEF CacheInv

LEMMA JobBegins ==
    ASSUME NEW kind \in {"outgoing", "ingest"}, NEW R \in SUBSET Record, NEW rows, NEW at \in Epochs,
           NEW authors, NEW announced, NEW j, j = Job(kind, R, rows, at, authors, announced)
    PROVE  IsJob(j) /\ j.pc = "begin" /\ j.kind = kind /\ j.roots = R /\ j.rows = rows /\ j.epoch = at
BY DEF Job, IsJob

LEMMA StartOutgoingKeeps ==
    ASSUME CacheInv, NEW R \in Travelling, StartOutgoing(R)
    PROVE  CacheInv'
<1>1. epoch \in Epochs /\ NotAfter(epoch, epoch) /\ Extends(row, row)
    BY DEF CacheInv, CacheTypeOK, NotAfter, Extends, Epochs
<1>2. UNCHANGED <<trust, row, epoch, cache>> /\ R \subseteq Record
    BY RecordAssumption DEF StartOutgoing, admissionVars, vaultVars
<1>3. /\ IsJob(job') /\ job'.pc = "begin" /\ job'.kind = "outgoing"
      /\ job'.epoch = epoch /\ job'.rows = row
    BY <1>1, <1>2, JobBegins DEF StartOutgoing
<1> QED
    BY <1>1, <1>2, <1>3, StartKeeps

LEMMA StartIngestKeeps ==
    ASSUME CacheInv, NEW R \in Travelling, NEW k \in Key, StartIngest(R, k)
    PROVE  CacheInv'
<1> DEFINE rows == RowsAfter(R, "verified", {k})
<1>1. job' = Job("ingest", R, rows, EpochAfter(rows), AuthorsAfter(R, {k}), Announced(R, "verified", {k}))
    BY DEF StartIngest
<1>2. UNCHANGED <<trust, row, epoch, cache>> /\ R \subseteq Record
    BY RecordAssumption DEF StartIngest, admissionVars, vaultVars
<1> HIDE DEF rows
<1>3. /\ EpochAfter(rows) \in Epochs /\ NotAfter(epoch, EpochAfter(rows))
      /\ EpochAfter(rows) = epoch => Extends(row, rows)
    BY EpochGrows DEF CacheInv, CacheTypeOK
<1>4. /\ IsJob(job') /\ job'.pc = "begin" /\ job'.kind = "ingest"
      /\ job'.epoch = EpochAfter(rows) /\ job'.rows = rows
    BY <1>1, <1>2, <1>3, JobBegins
<1> QED
    BY <1>2, <1>3, <1>4, StartKeeps

\* A step of the job that leaves vault, policy and cache alone.
LEMMA WalkOn ==
    ASSUME CacheInv, UNCHANGED <<trust, row, epoch, cache>>, job # NoJob, IsJob(job'),
           job'.kind = job.kind, job'.rows = job.rows, job'.epoch = job.epoch,
           job'.pc # "committed", job.pc # "committed", WalkInv'
    PROVE  CacheInv'
<1>1. job' # NoJob
    BY DEF IsJob, NoJob
<1>2. CacheTypeOK' /\ CertInv' /\ SnapshotInv'
    BY <1>1 DEF CacheInv, CacheTypeOK, CertInv, SnapshotInv
<1> QED
    BY <1>2 DEF CacheInv

LEMMA BeginKeeps == CacheInv /\ BeginValidation => CacheInv'
<1> SUFFICES ASSUME CacheInv, BeginValidation PROVE CacheInv'
    OBVIOUS
<1>1. job # NoJob /\ IsJob(job) /\ job.pc = "begin"
    BY DEF BeginValidation, NoJob, CacheInv, CacheTypeOK
<1>2. trust \in Policies /\ Follows(trust, trust)
    BY DEF CacheInv, CacheTypeOK, Policies, Follows
<1>3. /\ job'.pc = "visit" /\ job'.trust = trust /\ job'.pending = job.roots
      /\ job'.visited = {} /\ job'.certificates = {}
      /\ job'.kind = job.kind /\ job'.rows = job.rows /\ job'.epoch = job.epoch /\ job'.roots = job.roots
    BY <1>1 DEF BeginValidation, IsJob
<1>4. IsJob(job')
    BY <1>1, <1>2 DEF BeginValidation, IsJob
<1>5. UNCHANGED <<trust, row, epoch, cache>>
    BY DEF BeginValidation, admissionVars, vaultVars
<1>6. WalkInv'
    BY <1>2, <1>3, <1>5 DEF WalkInv
<1> QED
    BY <1>1, <1>3, <1>4, <1>5, <1>6, WalkOn

LEMMA VisitKeeps ==
    ASSUME CacheInv, NEW r \in Record, Visit(r)
    PROVE  CacheInv'
<1>1. job # NoJob /\ IsJob(job) /\ job.pc = "visit" /\ r \in job.pending
    BY DEF Visit, NoJob, CacheInv, CacheTypeOK
<1>2. UNCHANGED <<trust, row, epoch, cache>>
    BY DEF Visit, admissionVars, vaultVars
<1>3. /\ job'.pc = "visit" /\ job'.trust = job.trust /\ job'.visited = job.visited \cup {r}
      /\ job'.pending = (job.pending \cup IF Certified(r) THEN {} ELSE Targets(r)) \ (job.visited \cup {r})
      /\ job'.certificates = IF Certified(r) THEN job.certificates ELSE job.certificates \cup {r}
      /\ job'.kind = job.kind /\ job'.rows = job.rows /\ job'.epoch = job.epoch /\ job'.roots = job.roots
    BY <1>1 DEF Visit, IsJob
<1>4. job'.pending \subseteq Record
    BY <1>1, <1>3, TargetsAreRecords DEF IsJob
<1>5. IsJob(job')
    BY <1>1, <1>3, <1>4 DEF Visit, IsJob
<1>6. WalkInv'
    <2>1. /\ Follows(job.trust, trust)
          /\ job.certificates \subseteq job.visited
          /\ job.roots \subseteq job.visited \cup job.pending
          /\ trust = job.trust => job.visited \subseteq Good(job.rows, job.trust)
          /\ \A q \in job.visited :
                Targets(q) \subseteq job.visited \cup job.pending \/ Certificate(q) \in cache
        BY <1>1 DEF CacheInv, WalkInv
    <2>2. Follows(job.trust, trust)' /\ job'.certificates \subseteq job'.visited
        BY <1>2, <1>3, <2>1 DEF Follows
    <2>3. job'.roots \subseteq job'.visited \cup job'.pending
        BY <1>3, <2>1
    <2>4. trust' = job'.trust => job'.visited \subseteq Good(job.rows, job.trust)
        BY <1>2, <1>3, <2>1 DEF Visit, Loads, Good
    <2>5. \A q \in Record : Certificate(q)' = Certificate(q)
        BY <1>3 DEF Certificate
    <2>6. Targets(r) \subseteq job'.visited \cup job'.pending \/ Certificate(r) \in cache
        BY <1>3 DEF Certified, Certificate
    <2>7. job.visited \subseteq Record
        BY <1>1 DEF IsJob
    <2>8. \A q \in job'.visited :
            Targets(q) \subseteq job'.visited \cup job'.pending \/ Certificate(q)' \in cache'
        BY <1>2, <1>3, <2>1, <2>5, <2>6, <2>7
    <2> QED
        BY <1>3, <2>2, <2>3, <2>4, <2>8 DEF WalkInv
<1> QED
    BY <1>1, <1>2, <1>3, <1>5, <1>6, WalkOn

\* When nothing is pending under an unchanged policy, all that was visited holds.
LEMMA FinishedWalk ==
    ASSUME CacheInv, Finish
    PROVE  /\ job # NoJob /\ job.roots \subseteq job.visited
           /\ \A r \in job.visited : Holds(r, job.rows, job.trust)
<1>1. job # NoJob /\ IsJob(job) /\ job.pc = "visit" /\ job.pending = {} /\ trust = job.trust
    BY DEF Finish, NoJob, CacheInv, CacheTypeOK
<1>2. /\ job.visited \subseteq Good(job.rows, job.trust) /\ job.roots \subseteq job.visited
      /\ \A r \in job.visited : Targets(r) \subseteq job.visited \/ Certificate(r) \in cache
    BY <1>1 DEF CacheInv, WalkInv
<1>3. ASSUME NEW r, Certificate(r) \in cache PROVE Holds(r, job.rows, job.trust)
    <2>1. /\ Certificate(r).record = r /\ Certificate(r).epoch = job.epoch
          /\ Certificate(r).trust = job.trust
        BY DEF Certificate
    <2> QED
        BY <1>1, <1>3, <2>1 DEF CacheInv, CertInv
<1>4. \A r \in job.visited :
        /\ r \in Good(job.rows, job.trust)
        /\ Leads[r] \subseteq Good(job.rows, job.trust) \/ Targets(r) \subseteq job.visited
    BY <1>2, <1>3 DEF Holds
<1>5. job.visited \in SUBSET Record
    BY <1>1 DEF IsJob
<1>6. \A r \in job.visited : Leads[r] \subseteq Good(job.rows, job.trust)
    BY <1>4, <1>5, LeadsWithin
<1> QED
    BY <1>1, <1>2, <1>6 DEF Holds

LEMMA FinishKeeps == CacheInv /\ Finish => CacheInv'
<1> SUFFICES ASSUME CacheInv, Finish PROVE CacheInv'
    OBVIOUS
<1>1. job # NoJob /\ IsJob(job) /\ job.pc = "visit"
    BY DEF Finish, NoJob, CacheInv, CacheTypeOK
<1>2. UNCHANGED <<trust, row, epoch, cache>>
    BY DEF Finish, admissionVars, vaultVars
<1>3. /\ job'.pc = "checked" /\ job'.trust = job.trust /\ job'.visited = job.visited
      /\ job'.certificates = job.certificates
      /\ job'.kind = job.kind /\ job'.rows = job.rows /\ job'.epoch = job.epoch
      /\ IsJob(job')
    BY <1>1 DEF Finish, IsJob
<1>4. WalkInv'
    BY <1>1, <1>2, <1>3, FinishedWalk DEF CacheInv, WalkInv
<1> QED
    BY <1>1, <1>2, <1>3, <1>4, WalkOn

LEMMA CommitKeeps == CacheInv /\ Commit => CacheInv'
<1> SUFFICES ASSUME CacheInv, Commit PROVE CacheInv'
    OBVIOUS
<1>1. job # NoJob /\ IsJob(job) /\ job.pc = "checked" /\ UNCHANGED <<trust, cache>>
    BY DEF Commit, NoJob, CacheInv, CacheTypeOK
<1>2. /\ job'.pc = "committed" /\ job'.trust = job.trust /\ job'.visited = job.visited
      /\ job'.certificates = job.certificates
      /\ job'.kind = job.kind /\ job'.rows = job.rows /\ job'.epoch = job.epoch
      /\ IsJob(job')
    BY <1>1 DEF Commit, IsJob
<1>3. job' # NoJob /\ job.epoch \in Epochs
    BY <1>1, <1>2 DEF IsJob, NoJob
<1>4. WalkInv'
    BY <1>1, <1>2 DEF CacheInv, WalkInv
<1>5. CASE job.kind = "ingest"
    <2>1. row' = job.rows /\ epoch' = job.epoch /\ NotAfter(epoch, job.epoch)
        BY <1>1, <1>5 DEF Commit, CacheInv, SnapshotInv
    <2>2. CacheTypeOK'
        BY <1>1, <1>2, <1>3, <2>1 DEF CacheInv, CacheTypeOK
    <2>3. \A c \in cache : NotAfter(c.epoch, job.epoch)
        BY <1>3, <2>1, EpochsAreOrdered DEF CacheInv, CertInv, CacheTypeOK
    <2>4. CertInv'
        BY <1>1, <1>2, <1>3, <2>1, <2>3 DEF CacheInv, CertInv
    <2>5. SnapshotInv'
        BY <1>2, <1>3, <2>1 DEF SnapshotInv, Extends, NotAfter, Epochs
    <2> QED
        BY <1>4, <2>2, <2>4, <2>5 DEF CacheInv
<1>6. CASE job.kind = "outgoing"
    <2>1. UNCHANGED <<row, epoch>>
        BY <1>6 DEF Commit, vaultVars
    <2>2. CacheTypeOK' /\ CertInv' /\ SnapshotInv'
        BY <1>1, <1>2, <1>3, <1>6, <2>1 DEF CacheInv, CacheTypeOK, CertInv, SnapshotInv
    <2> QED
        BY <1>4, <2>2 DEF CacheInv
<1> QED
    BY <1>1, <1>5, <1>6 DEF IsJob

LEMMA PersistKeeps == CacheInv /\ Persist => CacheInv'
<1> SUFFICES ASSUME CacheInv, Persist PROVE CacheInv'
    OBVIOUS
<1>1. job # NoJob /\ IsJob(job) /\ job.pc = "committed" /\ job' = NoJob
    BY DEF Persist, MayPersist, NoJob, CacheInv, CacheTypeOK
<1>2. UNCHANGED <<trust, row, epoch>>
    BY DEF Persist, admissionVars, vaultVars
<1>3. \A c \in cache' : c \in cache \/ \E r \in job.certificates : c = Certificate(r)
    BY DEF Persist, Certificate
<1>4. ASSUME NEW r \in job.certificates, NEW c, c = Certificate(r)
      PROVE  /\ c.record \in Record /\ c.epoch \in Epochs /\ c.trust \in Policies
             /\ NotAfter(c.epoch, epoch) /\ Follows(c.trust, trust)
             /\ c.epoch = epoch => Holds(c.record, row, c.trust)
    <2>1. c.record = r /\ c.epoch = job.epoch /\ c.trust = job.trust
        BY <1>4 DEF Certificate
    <2>2. r \in Record /\ Holds(r, job.rows, job.trust) /\ Follows(job.trust, trust)
        BY <1>1 DEF CacheInv, WalkInv, IsJob
    <2>3. NotAfter(job.epoch, epoch) /\ (job.epoch = epoch => Extends(job.rows, row))
        BY <1>1 DEF CacheInv, SnapshotInv
    <2> QED
        BY <1>1, <2>1, <2>2, <2>3, HoldsOn DEF IsJob
<1>5. CacheTypeOK' /\ CertInv'
    BY <1>1, <1>2, <1>3, <1>4 DEF CacheInv, CacheTypeOK, CertInv
<1> QED
    BY <1>1, <1>5 DEF CacheInv, SnapshotInv, WalkInv

LEMMA CacheNextKeeps == CacheInv /\ [CacheNext]_cacheVars => CacheInv'
<1> SUFFICES ASSUME CacheInv, [CacheNext]_cacheVars PROVE CacheInv'
    OBVIOUS
<1>1. CASE Abort
    BY <1>1 DEF Abort, admissionVars, vaultVars, CacheInv, CacheTypeOK, CertInv, SnapshotInv, WalkInv
<1>2. CASE UNCHANGED cacheVars
    BY <1>2 DEF cacheVars, admissionVars, vaultVars, CacheInv, CacheTypeOK, CertInv, SnapshotInv,
                WalkInv, Certificate
<1> QED
    BY <1>1, <1>2, OtherWriteKeeps, RestoreKeeps, TrustKeeps, StartOutgoingKeeps, StartIngestKeeps,
       BeginKeeps, VisitKeeps, FinishKeeps, CommitKeeps, PersistKeeps
    DEF CacheNext

LEMMA CacheInvariant == CacheSpec => []CacheInv
<1>1. CacheInit => CacheInv
    <2> SUFFICES ASSUME CacheInit PROVE CacheInv
        OBVIOUS
    <2>1. trust \in Policies /\ epoch \in Epochs /\ cache = {} /\ job = NoJob
        BY DEF CacheInit, AdmissionInit, Policies, Epochs
    <2> QED
        BY <2>1 DEF CacheInv, CacheTypeOK, CertInv, SnapshotInv, WalkInv
<1> QED
    BY <1>1, CacheNextKeeps, PTL DEF CacheSpec

\* A certificate that is used is true: the record and all it leads to are
\* verified by keys that are trusted now, whatever was written, restored or
\* revoked since (DependencyValidation.persist, the epoch triggers).
THEOREM CertificatesAlwaysHold == CacheSpec => []CertificatesHold
<1>1. CacheInv => CertificatesHold
    <2> SUFFICES ASSUME CacheInv, NEW c \in cache, c.epoch = epoch, c.trust = trust,
                        NEW a \in Leads[c.record]
                 PROVE  Rank(a) = 2
        BY DEF CertificatesHold
    <2>1. a \in Good(row, trust)
        BY DEF CacheInv, CertInv, Holds
    <2> QED
        BY <2>1, RankIsTwo DEF Good, Rank
<1> QED
    BY <1>1, CacheInvariant, PTL

\* A validation that succeeds says of its records what a walk through all they
\* lead to would say under one policy, the present one (require, finish).
THEOREM ValidationIsComplete == CacheSpec => ValidatedIsVerified
<1> DEFINE Step ==
        job.pc = "visit" /\ job'.pc = "checked" =>
            \A r \in job.roots : \A a \in Leads[r] :
                job.rows[a].state = "verified" /\ \A k \in job.rows[a].signer : trust[k] = "trusted"
<1>1. CacheInv /\ [CacheNext]_cacheVars => Step
    <2> SUFFICES ASSUME CacheInv, [CacheNext]_cacheVars, job.pc = "visit", job'.pc = "checked"
                 PROVE  Step
        OBVIOUS
    <2>1. Finish
        <3>1. job # NoJob /\ IsJob(job)
            BY DEF NoJob, CacheInv, CacheTypeOK
        <3>2. \A r \in Record : ~Visit(r)
            BY <3>1 DEF Visit, IsJob
        <3>3. ~OtherWrite /\ ~OtherTrust /\ ~Persist /\ ~Abort /\ job' # job
            BY <3>1 DEF OtherWrite, OtherTrust, Persist, MayPersist, Abort, NoJob
        <3> QED
            BY <3>1, <3>2, <3>3
            DEF CacheNext, RestoreCopy, StartOutgoing, StartIngest, BeginValidation, Commit, cacheVars
    <2>2. trust = job.trust
        BY <2>1 DEF Finish
    <2>3. \A r \in job.roots : Leads[r] \subseteq Good(job.rows, trust)
        BY <2>1, <2>2, FinishedWalk DEF Holds
    <2> QED
        BY <2>3 DEF Good
<1> QED
    BY <1>1, CacheInvariant, PTL DEF CacheSpec, ValidatedIsVerified
=============================================================================
