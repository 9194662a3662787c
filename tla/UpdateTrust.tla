---------------------------- MODULE UpdateTrust ----------------------------
(***************************************************************************)
(* Verification of signed release metadata (memory_vault_update_trust.py): *)
(* four roles with disjoint keys and thresholds, root rotation one version *)
(* at a time, expiry, and the floors that refuse a rollback.               *)
(*                                                                         *)
(* A metadata file stands for its bytes, hence for its digest.  A file is  *)
(* a record of its fields and the set `sigs` of keys that really signed    *)
(* it; a timestamp contains the snapshot it describes, a snapshot its      *)
(* targets, the targets one release package.                               *)
(***************************************************************************)
EXTENDS Naturals, FiniteSets

CONSTANTS
    Time,            \* instants, in units of the tolerated clock skew
    MaxRotations     \* MAX_ROOT_ROTATIONS_PER_CHECK

ASSUME TimeAssumption == Time \subseteq Nat
ASSUME RotationsAssumption == MaxRotations \in Nat \ {0}

Roles == {"root", "timestamp", "snapshot", "targets"}
Tracked == Roles \ {"root"}

\* MAX_CLOCK_SKEW_SECONDS, one unit of Time.
Skew == 1

----------------------------------------------------------------------------
(* What is checked of one file. *)

\* A root names four roles with keys of their own and reachable thresholds.
UsableRoot(r) ==
    /\ r.version > 0 /\ r.issued < r.expires
    /\ \A role \in Roles : r.threshold[role] \in 1 .. Cardinality(r.keys[role])
    /\ \A a, b \in Roles : a # b => r.keys[a] \cap r.keys[b] = {}

\* Enough of the keys the root gives to a role have signed the file.
SignedByAny(file, root, role) == file.sigs \cap root.keys[role] # {}   \* mutant: one is enough

SignedBy(file, root, role) ==
    Cardinality(file.sigs \cap root.keys[role]) >= root.threshold[role]

NotFromFuture(file, now) == file.issued < file.expires /\ file.issued <= now + Skew

Current(file, now) == NotFromFuture(file, now) /\ now < file.expires
NotRolledBackByVersion(floor, file) ==     \* mutant: equal versions are equal
    \A f \in floor : f.version <= file.version

\* An older version, or other bytes under the same version, are refused.
NotRolledBack(floor, file) ==
    \A f \in floor : f.version < file.version \/ f = file

----------------------------------------------------------------------------
(* The trust store: the root in force, for each other role the last file    *)
(* that was accepted, the last accepted package and the time of it.          *)

NoFloors == [role \in Tracked |-> {}]
Store(root, floors, target, verified) ==
    [root |-> root, floors |-> floors, target |-> target, verified |-> verified]

\* import_trusted_root: a root is pinned when it is current and signs itself.
Pinnable(root, now) == UsableRoot(root) /\ SignedBy(root, root, "root") /\ Current(root, now)
PinnedStore(root) == Store(root, NoFloors, {}, 0)

\* A rotation is signed by the root before it and by itself, and is one version on.
RotatesTo(root, next, now) ==
    /\ UsableRoot(next)
    /\ next.version = root.version + 1
    /\ SignedBy(next, root, "root") /\ SignedBy(next, next, "root")
    /\ NotFromFuture(next, now)

\* <n>.root.json of a metadata directory: the files of version n, at most one.
RootNamed(dir, n) == {r \in dir.roots : r.version = n}

\* All rotations of the directory in turn: the root in force at the end.  One
\* broken rotation, or too many of them, refuses the directory.
RootAfter(dir, root, now) ==
    LET InForce(i) == IF i = 0 THEN {root} ELSE RootNamed(dir, root.version + i)
        Followed(n) == \A i \in 1 .. n : /\ InForce(i) # {}
                                         /\ \A old \in InForce(i - 1), new \in InForce(i) :
                                                RotatesTo(old, new, now)
    IN  UNION {InForce(n) : n \in {k \in 0 .. MaxRotations : Followed(k) /\ InForce(k + 1) = {}}}

----------------------------------------------------------------------------
(* verify_update_chain: one package, one metadata directory, one store.      *)

\* A metadata directory: three role files and any root files.
Floor(dir, role) ==
    CASE role = "timestamp" -> dir.timestamp
      [] role = "snapshot" -> dir.snapshot
      [] role = "targets" -> dir.targets
ChainFollowsLoosely(dir) ==     \* mutant: parents do not bind the bytes
    /\ dir.timestamp.snapshot.version = dir.snapshot.version
    /\ dir.snapshot.targets.version = dir.targets.version

ChainFollows(dir) ==
    /\ dir.timestamp.snapshot = dir.snapshot
    /\ dir.snapshot.targets = dir.targets

\* Each of the three files is of its role, complete and in its lifetime.
Valid(dir, now) == \A role \in Tracked : Current(Floor(dir, role), now)

ClockRanBack(store, now) == now + Skew < store.verified

\* The package before must not be newer, nor another one of the same version.
PackageAdvances(store, package) ==
    \A p \in store.target :
        p.version < package.version \/ (p.version = package.version /\ p.archive = package.archive)

VerifiedRoots(dir, store, package, now) ==
    {root \in RootAfter(dir, store.root, now) :
        /\ ~ClockRanBack(store, now)
        /\ Current(root, now)
        /\ ChainFollows(dir)
        /\ Valid(dir, now)
        /\ \A role \in Tracked :
            /\ SignedBy(Floor(dir, role), root, role)
            /\ NotRolledBack(store.floors[role], Floor(dir, role))
        /\ dir.targets.package = package
        /\ PackageAdvances(store, package)}

\* The store that a successful verification hands back.
VerifiedStores(dir, store, package, now) ==
    {Store(root, [role \in Tracked |-> {Floor(dir, role)}], {package},
           IF now < store.verified THEN store.verified ELSE now) :
        root \in VerifiedRoots(dir, store, package, now)}
=============================================================================
