----------------------------- MODULE Admissions -----------------------------
(***************************************************************************)
(* Admission of records in one vault (memory_vault.py): who vouches for a  *)
(* record, what a record that relates to another may do to it, and which   *)
(* records are still to be delivered.  Every action is one SQLite          *)
(* transaction; the trust store is a file of its own and may change        *)
(* between any two of them.                                                *)
(***************************************************************************)
EXTENDS Naturals, FiniteSets

CONSTANTS
    Record,        \* records with their content; a record names its targets
    Key,           \* signing keys
    OwnKey,        \* the key this installation signs with, or nothing
    Relations,     \* [source, type, target]: what the records say
    Travelling     \* sets of records that arrive together

ASSUME RecordAssumption == IsFiniteSet(Record) /\ Travelling \subseteq SUBSET Record
ASSUME OwnKeyAssumption == OwnKey \in SUBSET Key /\ Cardinality(OwnKey) <= 1
ASSUME RelationsAssumption ==
    Relations \subseteq [source : Record, target : Record,
                         type : {"derived_from", "conflicts_with", "supersedes", "resolves"}]

VARIABLES
    row,       \* record_admissions: state and attesting key of each record
    author,    \* metadata "state_author": the first key seen to sign a record
    trust,     \* the trust store: what is known of each key
    due,       \* records in the delivery log past the reader's cursor
    sent       \* records whose latest entry left with its closure

vaultVars == <<row, author, due, sent>>
admissionVars == <<vaultVars, trust>>

Absent == [state |-> "absent", signer |-> {}]
Stored(rows) == {r \in Record : rows[r].state # "absent"}
Targets(r) == {e.target : e \in {f \in Relations : f.source = r}}

\* The records each record leads to, itself included.
Leads ==
    LET reach[n \in 0 .. Cardinality(Record)] ==
            IF n = 0 THEN [r \in Record |-> {r}]
            ELSE [r \in Record |-> {r} \cup UNION {reach[n - 1][t] : t \in Targets(r)}]
    IN  reach[Cardinality(Record)]

AdmissionInit ==
    /\ row = [r \in Record |-> Absent]
    /\ author = [r \in Record |-> {}]
    /\ trust \in {[k \in Key |-> IF k \in T THEN "trusted" ELSE "unknown"] : T \in {T \in SUBSET Key : OwnKey \subseteq T}}
    /\ due = {} /\ sent = {}

----------------------------------------------------------------------------
(* Admission *)

Strength(state) ==
    CASE state = "verified" -> 2
      [] state \in {"local_unsigned", "accepted_unsigned"} -> 1
      [] OTHER -> 0

\* vault_admitted: a signature counts while its key is trusted.
Admitted(w) ==
    IF w.state = "verified" /\ \E k \in w.signer : trust[k] # "trusted" THEN 0 ELSE Strength(w.state)

Rank(r) == Admitted(row[r])

RaisesLatest(r, state) == row[r].state # state    \* mutant: the last copy counts

\* A copy is taken over only if it is worth more than what is known.
Raises(r, state) == row[r] = Absent \/ Admitted(row[r]) < Strength(state)

\* Rows after records R arrived in one state, attested by `signer`.
RowsAfter(R, state, signer) ==
    [r \in Record |-> IF r \in R /\ Raises(r, state) THEN [state |-> state, signer |-> signer] ELSE row[r]]

Upgraded(R, state) == {r \in R : row[r] # Absent /\ Raises(r, state)}

\* The first signed identity is pinned, before an old proof is replaced.
AuthorAfter(r, signer) ==
    IF author[r] # {} THEN author[r] ELSE IF row[r].signer # {} THEN row[r].signer ELSE signer

AuthorsAfter(R, signer) ==
    [r \in Record |-> IF r \in R THEN AuthorAfter(r, signer) ELSE author[r]]
DirectDependents(R) == {r \in Record : Targets(r) \cap R # {}}   \* mutant: one level only

\* Records that lead to one of R over any number of relations.
Dependents(R) == {r \in Record : \E t \in Targets(r) : Leads[t] \cap R # {}}

\* What a transaction that brings R appends to the delivery log: the records it
\* raised and the admitted dependents of those it knew before.
Announced(R, state, signer) ==
    {r \in R : Raises(r, state)}
        \cup {r \in Dependents(Upgraded(R, state)) : Admitted(RowsAfter(R, state, signer)[r]) > 0}

Take(R, state, signer) ==
    /\ row' = RowsAfter(R, state, signer)
    /\ author' = AuthorsAfter(R, signer)
    /\ due' = due \cup Announced(R, state, signer)
    /\ sent' = sent \ Announced(R, state, signer)

\* _remember: a record of this installation, by a client that signs or by one
\* that cannot; its targets are stored.
Remember(r, signer) ==
    /\ Targets(r) \subseteq Stored(row)
    /\ Take({r}, IF signer = {} THEN "local_unsigned" ELSE "verified", signer)
    /\ UNCHANGED trust

\* import_bundle: unsigned records, quarantined unless the operator accepts them.
ImportBundle(R, accept) ==
    /\ UNION {Targets(r) : r \in R} \subseteq Stored(row) \cup R
    /\ Take(R, IF accept THEN "accepted_unsigned" ELSE "quarantined", {})
    /\ UNCHANGED trust

\* ingest_records without a dependency validator: attested records, nothing
\* dangling at the end.
Ingest(R, k) ==
    /\ trust[k] = "trusted"
    /\ UNION {Targets(r) : r \in R} \subseteq Stored(row) \cup R
    /\ Take(R, "verified", {k})
    /\ UNCHANGED trust

\* quarantine_signer keeps the key and the attestation of the rows.
QuarantineSigner(k) ==
    LET hit == {r \in Record : row[r].state = "verified" /\ row[r].signer = {k}}
    IN  /\ row' = [r \in Record |-> IF r \in hit THEN [row[r] EXCEPT !.state = "quarantined"] ELSE row[r]]
        /\ UNCHANGED <<author, trust, due, sent>>

\* requeue_records: explicit delivery retry of admitted records.
RequeueRecords(R) ==
    /\ \A r \in R : Rank(r) > 0
    /\ LET again == R \cup {r \in Dependents(R) : Rank(r) > 0}
       IN  due' = due \cup again /\ sent' = sent \ again
    /\ UNCHANGED <<row, author, trust>>

\* TrustStore.add and revoke; a revoked key stays so.
TrustKey(k) ==
    /\ trust[k] = "unknown"
    /\ trust' = [trust EXCEPT ![k] = "trusted"]
    /\ UNCHANGED vaultVars

RevokeKey(k) ==
    /\ trust[k] = "trusted"
    /\ trust' = [trust EXCEPT ![k] = "revoked"]
    /\ UNCHANGED vaultVars

\* restore_database: attested rows are verified again, unsigned ones are taken
\* when the operator accepts them, everything is to be delivered from the start.
Restore(accept) ==
    /\ row' = [r \in Record |->
                IF row[r] = Absent THEN Absent
                ELSE [row[r] EXCEPT !.state =
                        IF row[r].signer # {}
                        THEN IF \A k \in row[r].signer : trust[k] = "trusted" THEN "verified" ELSE "quarantined"
                        ELSE IF accept /\ row[r].state \in {"local_unsigned", "accepted_unsigned"}
                             THEN "accepted_unsigned" ELSE "quarantined"]]
    /\ due' = Stored(row) /\ sent' = {}
    /\ UNCHANGED <<author, trust>>

----------------------------------------------------------------------------
(* One entry of the delivery log is read with its closure.                   *)

Deliverable(r) == \A c \in Leads[r] : Rank(c) = 2

\* _changes passes over what is not admitted, or leads to what is not verified.
ReadEntry(r) ==
    /\ r \in due
    /\ due' = due \ {r}
    /\ sent' = IF Deliverable(r) THEN sent \cup {r} ELSE sent
    /\ UNCHANGED <<row, author, trust>>

----------------------------------------------------------------------------
(* What admitted records say of each other. *)

\* The key that may change the state of a record.
AuthorKey(r) == IF author[r] # {} THEN author[r] ELSE row[r].signer
SameSigner(s, r) ==     \* mutant: pins are ignored
    \/ row[s].signer # {} /\ row[s].signer = row[r].signer
    \/ row[s].state = "local_unsigned" /\ row[r].state = "local_unsigned"

\* _STATE_AUTHOR_MATCH_SQL: the source is attested by the first author of both.
StateAuthorMatch(s, r) ==
    \/ row[s].signer # {} /\ row[s].signer = AuthorKey(s) /\ row[s].signer = AuthorKey(r)
    \/ row[s].state = "local_unsigned" /\ row[r].state = "local_unsigned"

Effective(s, type, r) ==
    /\ [source |-> s, type |-> type, target |-> r] \in Relations
    /\ Rank(s) >= Rank(r)
    /\ StateAuthorMatch(s, r)

\* A resolution of one of two endpoints, at least as strong as both.
ConflictResolved(a, b) ==
    \E s \in Record, e \in {a, b} :
        /\ [source |-> s, type |-> "resolves", target |-> e] \in Relations
        /\ Rank(s) >= Rank(a) /\ Rank(s) >= Rank(b)
        /\ StateAuthorMatch(s, e)

\* _memory_status.
Status(r) ==
    IF Rank(r) = 0 THEN "quarantined"
    ELSE CASE \E s \in Record : Effective(s, "resolves", r) -> "resolved"
           [] \E s \in Record : Effective(s, "supersedes", r) -> "superseded"
           [] \E e \in Relations :
                /\ e.type = "conflicts_with" /\ r \in {e.source, e.target}
                /\ Rank(e.source) >= Rank(r) /\ Rank(e.target) > 0
                /\ ~ConflictResolved(e.source, e.target) -> "conflicted"
           [] OTHER -> "current"

----------------------------------------------------------------------------
AdmissionWrite ==
    \/ \E r \in Record : \/ \E signer \in {{}, OwnKey} : Remember(r, signer)
                         \/ RequeueRecords({r})
    \/ \E R \in Travelling : \E accept \in BOOLEAN : ImportBundle(R, accept)
    \/ \E R \in Travelling : \E k \in Key : Ingest(R, k)
    \/ \E k \in Key : QuarantineSigner(k)

AdmissionNext ==
    \/ AdmissionWrite
    \/ \E accept \in BOOLEAN : Restore(accept)
    \/ \E k \in Key : TrustKey(k) \/ RevokeKey(k)
    \/ \E r \in Record : ReadEntry(r)

AdmissionSpec == AdmissionInit /\ [][AdmissionNext]_admissionVars

----------------------------------------------------------------------------
(* Properties *)

\* A delivery that was passed over because something it relates to was not
\* verified comes back when that changes: no verified closure is ever neither
\* delivered nor to be delivered (Vault._requeue_dependents).
NothingIsForgotten ==
    \A r \in Record : Deliverable(r) => r \in due \cup sent

\* Nobody but the first author of a record retires it, whatever was revoked,
\* quarantined, imported again, attested by others or restored meanwhile.
RetiredByItsAuthor ==
    \A r \in Record : Status(r) \in {"superseded", "resolved"} =>
        \E e \in Relations :
            /\ e.target = r /\ Rank(e.source) > 0
            /\ row[e.source].signer # {} => author[r] = row[e.source].signer
            /\ row[e.source].signer = {} => row[r].state = "local_unsigned"

\* The first author stays the author.
AuthorStays ==
    [][\A r \in Record : author[r] # {} => author'[r] = author[r]]_admissionVars

\* Neither a copy that arrives by any way nor a restored database takes from a
\* record with a verified attestation by a trusted key what it has: only an
\* explicit quarantine of that very key does, and it keeps the attestation
\* (Vault._set_admission, restore_database).
NoDemotion ==
    [][\A r \in Record : Rank(r) = 2 /\ row'[r] # row[r] =>
        /\ row'[r] = [row[r] EXCEPT !.state = "quarantined"]
        /\ \E k \in row[r].signer : QuarantineSigner(k)]_admissionVars
=============================================================================
