-------------------------- MODULE ValidationCache --------------------------
(***************************************************************************)
(* Reuse of validated closures (memory_vault_dependency.py).  A validation *)
(* walks through the relations of records and reads the trust file at each *)
(* of them; what it found is kept in a private index under the epoch of    *)
(* the vault and the digest of the trust file, and shortens later ones.    *)
(* Writers of the vault, the operator's trust commands and a restored copy *)
(* interleave with it.                                                     *)
(***************************************************************************)
EXTENDS Admissions

CONSTANTS
    MaxEpoch,      \* bound on the epoch counter (2^63 - 1)
    MaxRestores    \* bound on the number of restored copies

VARIABLES
    epoch,    \* dependency_epoch and its nonce, in the vault's metadata
    cache,    \* the validations table: record, epoch, digest of the trust file
    job       \* the validation that holds the index, with its transaction

cacheVars == <<admissionVars, epoch, cache, job>>

NoJob == [pc |-> "none", kind |-> "none"]

CacheInit ==
    /\ AdmissionInit
    /\ epoch = [nonce |-> 0, count |-> 0]
    /\ cache = {}
    /\ job = NoJob

----------------------------------------------------------------------------
(* The epoch *)

EpochAfterInserts(rows) ==    \* mutant: the trigger on updates is missing
    [epoch EXCEPT !.count = @ + Cardinality({r \in Record : row[r] = Absent /\ rows[r] # row[r]})]

\* Triggers count every row that is updated, not those that are new.
EpochAfter(rows) ==
    [epoch EXCEPT !.count = @ + Cardinality({r \in Record : row[r] # Absent /\ rows[r] # row[r]})]
SameNonce == [epoch EXCEPT !.count = 0]    \* mutant: the copy keeps the nonce

\* A restored copy counts anew, under a nonce of its own (from the number of
\* its rows: each is updated once more; the bound is spared by starting at 0).
FreshEpoch == [nonce |-> epoch.nonce + 1, count |-> 0]

\* An open write transaction keeps other writers of the vault out.
VaultUnlocked == job.kind = "ingest" => job.pc = "committed"

OtherWrite ==
    /\ VaultUnlocked
    /\ AdmissionWrite
    /\ epoch' = EpochAfter(row')
    /\ epoch'.count <= MaxEpoch
    /\ UNCHANGED <<cache, job>>

RestoreCopy(accept) ==
    /\ job = NoJob
    /\ epoch.nonce < MaxRestores
    /\ Restore(accept)
    /\ epoch' = FreshEpoch
    /\ UNCHANGED <<cache, job>>

OtherTrust ==
    /\ \E k \in Key : TrustKey(k) \/ RevokeKey(k)
    /\ UNCHANGED <<epoch, cache, job>>

----------------------------------------------------------------------------
(* One validation *)

\* What a validation works on; the policy and the walk come later.
Job(kind, R, rows, at, authors, announced) ==
    [pc |-> "begin", kind |-> kind, roots |-> R, rows |-> rows, epoch |-> at, authors |-> authors,
     announced |-> announced, trust |-> <<>>, pending |-> {}, visited |-> {}, certificates |-> {}]

\* validate_outgoing and incremental_changes read one snapshot of the vault.
StartOutgoing(R) ==
    /\ job = NoJob
    /\ R \subseteq Stored(row)
    /\ job' = Job("outgoing", R, row, epoch, author, {})
    /\ UNCHANGED <<admissionVars, epoch, cache>>

\* ingest_verified: signatures are checked first, then a write transaction is
\* begun and the records are stored in it.
StartIngest(R, k) ==
    /\ job = NoJob
    /\ trust[k] = "trusted"
    /\ LET rows == RowsAfter(R, "verified", {k})
       IN  job' = Job("ingest", R, rows, EpochAfter(rows), AuthorsAfter(R, {k}),
                      Announced(R, "verified", {k}))
    /\ job'.epoch.count <= MaxEpoch
    /\ UNCHANGED <<admissionVars, epoch, cache>>

\* begin: the policy this validation is about.
BeginValidation ==
    /\ job.pc = "begin"
    /\ job' = [job EXCEPT !.pc = "visit", !.trust = trust, !.pending = job.roots]
    /\ UNCHANGED <<admissionVars, epoch, cache>>

\* _load: verified, by a key that is trusted when it is looked at.
Loads(r) ==
    /\ job.rows[r].state = "verified"
    /\ \A k \in job.rows[r].signer : trust[k] = "trusted"

\* _cached: the row was written under the same epoch and policy.
Certified(r) == [record |-> r, epoch |-> job.epoch, trust |-> job.trust] \in cache

\* require, one record at a time: a certified one is not followed any further.
Visit(r) ==
    /\ job.pc = "visit"
    /\ r \in job.pending
    /\ Loads(r)
    /\ job' = [job EXCEPT
        !.visited = @ \cup {r},
        !.certificates = IF Certified(r) THEN @ ELSE @ \cup {r},
        !.pending = (@ \cup IF Certified(r) THEN {} ELSE Targets(r)) \ (job.visited \cup {r})]
    /\ UNCHANGED <<admissionVars, epoch, cache>>
FinishUnchecked ==    \* mutant: the policy may have changed on the way
    /\ job.pc = "visit" /\ job.pending = {}
    /\ job' = [job EXCEPT !.pc = "checked"]
    /\ UNCHANGED <<admissionVars, epoch, cache>>

\* finish: the policy is still the one of the beginning.
Finish ==
    /\ job.pc = "visit" /\ job.pending = {}
    /\ trust = job.trust
    /\ job' = [job EXCEPT !.pc = "checked"]
    /\ UNCHANGED <<admissionVars, epoch, cache>>

Commit ==
    /\ job.pc = "checked"
    /\ IF job.kind = "ingest"
       THEN /\ row' = job.rows /\ author' = job.authors /\ epoch' = job.epoch
            /\ due' = due \cup job.announced
            /\ sent' = sent \ job.announced
       ELSE UNCHANGED <<vaultVars, epoch>>
    /\ job' = [job EXCEPT !.pc = "committed"]
    /\ UNCHANGED <<trust, cache>>
MayPersistEarly == job.pc \in {"checked", "committed"}    \* mutant: before COMMIT

\* Certificates are written after COMMIT: the epoch of a transaction that is
\* rolled back belongs to whatever is written next.
MayPersist == job.pc = "committed"

Persist ==
    /\ MayPersist
    /\ cache' = {c \in cache : c.record \notin job.certificates}
                    \cup {[record |-> r, epoch |-> job.epoch, trust |-> job.trust] : r \in job.certificates}
    /\ job' = IF job.pc = "committed" THEN NoJob ELSE [job EXCEPT !.certificates = {}]
    /\ UNCHANGED <<admissionVars, epoch>>

\* A record that does not load, an exception or a crash: nothing was written.
Abort ==
    /\ job # NoJob
    /\ job' = NoJob
    /\ UNCHANGED <<admissionVars, epoch, cache>>

CacheNext ==
    \/ OtherWrite \/ OtherTrust
    \/ \E accept \in BOOLEAN : RestoreCopy(accept)
    \/ \E R \in Travelling : StartOutgoing(R)
    \/ \E R \in Travelling, k \in Key : StartIngest(R, k)
    \/ BeginValidation
    \/ \E r \in Record : Visit(r)
    \/ Finish \/ Commit \/ Persist \/ Abort

CacheSpec == CacheInit /\ [][CacheNext]_cacheVars

----------------------------------------------------------------------------
(* Properties *)

\* A certificate that a validation may use is true: everything the record leads
\* to is verified by keys that are trusted now (DependencyValidation.persist
\* and the epoch triggers).
CertificatesHold ==
    \A c \in cache : c.epoch = epoch /\ c.trust = trust =>
        \A a \in Leads[c.record] : Rank(a) = 2

\* A validation that succeeds is about one policy, the current one, whatever
\* changed while it walked and whatever it took from the cache.
ValidatedIsVerified ==
    [][job.pc = "visit" /\ job'.pc = "checked" =>
        \A r \in job.roots : \A a \in Leads[r] :
            job.rows[a].state = "verified" /\ \A k \in job.rows[a].signer : trust[k] = "trusted"]_cacheVars
=============================================================================
