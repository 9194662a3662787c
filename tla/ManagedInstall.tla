--------------------------- MODULE ManagedInstall ---------------------------
(***************************************************************************)
(* Staging and activation of client releases: memory_vault_update.py,      *)
(* memory_vault_install.py and memory_vault_managed_launcher.py.           *)
(*                                                                         *)
(* Commands of the operator and the automatic worker share an installation *)
(* directory and a trust store.  Activation and staging hold a lock each;  *)
(* the worker also reads without one.  Every durable write is an action    *)
(* and any command may stop after any of them.                             *)
(***************************************************************************)
EXTENDS UpdateTrust, FiniteSetsExt

CONSTANTS
    OperatorRequest,   \* request ids an operator uses
    Offered,           \* what a release server hands out: package and metadata
    Pinned,            \* roots whose digest an operator got independently
    Reviewed,          \* packages whose digest an operator has reviewed
    MaxGeneration,     \* generation at which activations are refused (2^31 - 1)
    MaxStaged          \* bound on the number of stage directories

ASSUME GenerationAssumption == MaxGeneration \in Nat /\ MaxStaged \in Nat

Package == {offer.package : offer \in Offered}

\* Versions are integers, checked when a file is parsed.
ASSUME VersionsAssumption ==
    /\ \A root \in Pinned : root.version \in Nat
    /\ \A offer \in Offered :
        offer.package.version \in Nat /\ \A root \in offer.dir.roots : root.version \in Nat

VARIABLES
    trust,        \* the trust store file, outside the installation
    config,       \* install.json
    staged,       \* stage directories: package bytes and metadata copy
    installed,    \* releases/<archive>: how much of it is on disk
    active,       \* active.json
    receipts,     \* activations/*.json
    stager,       \* the stage command that holds the trust store's lock
    command,      \* the command that holds the installation's lock
    worker        \* the automatic worker, between its locked calls

files == <<trust, config, staged, installed, active, receipts>>
installVars == <<files, stager, command, worker>>

None == [pc |-> "idle"]
Pointer(generation, current, previous) ==
    [generation |-> generation, current |-> current, previous |-> previous]

InstallInit ==
    /\ trust = {}
    /\ config = [exists |-> FALSE, signed |-> FALSE, automatic |-> FALSE]
    /\ staged = {}
    /\ installed = [a \in {p.archive : p \in Package} |-> "nothing"]
    /\ active = {}
    /\ receipts = {}
    /\ stager = None
    /\ command = None
    /\ worker = None

\* staging, pinning and signed activation take the lock beside the trust store.
TrustLockFree ==
    /\ stager = None
    /\ command # None => command.ask.operation = "rollback" \/ ~config.signed

CurrentPackage == UNION {{a.current} : a \in active}
Generation == IF active = {} THEN 0 ELSE Max({a.generation : a \in active})

----------------------------------------------------------------------------
(* Trust and staging. *)

\* configure_trust: the first root is pinned once, by its digest.
ConfigureTrust(root, now) ==
    /\ trust = {} /\ TrustLockFree
    /\ Pinnable(root, now)
    /\ trust' = {PinnedStore(root)}
    /\ UNCHANGED <<config, staged, installed, active, receipts, stager, command, worker>>

\* _stage, first half: bytes and metadata are downloaded into a new directory
\* while the lock is held; nothing about them is believed yet.
Download(offer, by) ==
    /\ TrustLockFree /\ trust # {}
    /\ Cardinality(staged) < MaxStaged
    /\ staged' = staged \cup {[package |-> offer.package, metadata |-> {offer.dir}]}
    /\ stager' = [pc |-> "downloaded", package |-> offer.package, dir |-> offer.dir, by |-> by]
    /\ UNCHANGED <<trust, config, installed, active, receipts, command, worker>>

\* _stage, second half: verify, and advance the floors when all is on disk.
SaveFloors(now) ==
    /\ stager # None
    /\ \E store \in trust : \E next \in VerifiedStores(stager.dir, store, stager.package, now) :
        trust' = {next}
    /\ stager' = None
    /\ worker' = IF stager.by = "worker" THEN [worker EXCEPT !.pc = "staged"] ELSE worker
    /\ UNCHANGED <<config, staged, installed, active, receipts, command>>

\* A crash, a refusal or an error: the lock is free, the directory stays.
StopStaging ==
    /\ stager # None
    /\ stager' = None
    /\ worker' = IF stager.by = "worker" THEN None ELSE worker
    /\ UNCHANGED <<files, command>>

\* Without a trust store there is no lock to take and no metadata to keep.
StageUnsigned(package) ==
    /\ Cardinality(staged) < MaxStaged
    /\ staged' = staged \cup {[package |-> package, metadata |-> {}]}
    /\ UNCHANGED <<trust, config, installed, active, receipts, stager, command, worker>>

\* The operator deletes a stage directory that is no longer needed.
Discard(s) ==
    /\ staged' = staged \ {s}
    /\ UNCHANGED <<trust, config, installed, active, receipts, stager, command, worker>>

----------------------------------------------------------------------------
(* The activation journal. *)

\* One request is bound to what it was first asked for.
Ask(operation, subject) == [operation |-> operation, subject |-> subject]
Receipt(id, ask, before, after, state) ==
    [id |-> id, ask |-> ask, before |-> before, after |-> after, state |-> state]
ReceiptsOf(id) == {r \in receipts : r.id = id}
MayGoOnAnywhere(id, ask) ==     \* mutant: the pointer is not compared
    \A r \in ReceiptsOf(id) : r.ask = ask /\ r.state = "prepared"

\* _committed_replay: a request seen before goes on only if it is the same one
\* and was prepared over the pointer that is still in place.
MayGoOn(id, ask) ==
    \A r \in ReceiptsOf(id) :
        r.ask = ask /\ r.state = "prepared" /\ active = r.before /\ active # r.after

\* verify_installed: the inventory and every byte it lists.
InstalledInPart(package) == installed[package.archive] # "nothing"   \* mutant

VerifyInstalled(package) == installed[package.archive] = "complete"

\* The launcher starts what the pointer names after the same verification.
Launches(package) == installed[package.archive] = "complete"

\* The pointer was moved but its receipt not finished: only finish the receipt.
FinishReceipt(id, ask) ==
    /\ command = None
    /\ \E r \in ReceiptsOf(id) :
        /\ r.ask = ask /\ r.state = "prepared" /\ active = r.after
        /\ \A p \in CurrentPackage : VerifyInstalled(p)
        /\ receipts' = (receipts \ {r}) \cup {[r EXCEPT !.state = "committed"]}
    /\ UNCHANGED <<trust, config, staged, installed, active, stager, command, worker>>

\* The pointer an activation of `target` leads to.
Next1(target) ==
    IF CurrentPackage = {target} THEN active
    ELSE {Pointer(Generation + 1, target, CurrentPackage)}

----------------------------------------------------------------------------
(* activate, and initialize, which ends in an activation. *)

Initialize(signed, automatic) ==
    /\ ~config.exists
    /\ automatic => signed
    /\ config' = [exists |-> TRUE, signed |-> signed, automatic |-> automatic]
    /\ UNCHANGED <<trust, staged, installed, active, receipts, stager, command, worker>>

\* What an active package allows: no older one, no other bytes of the same
\* version, and new host integration only after a review.
Replaces(package, approved) ==
    \A p \in CurrentPackage :
        /\ p.version <= package.version
        /\ p.version = package.version => p.archive = package.archive
        /\ p.contract = package.contract \/ approved
NeverCancelled(by) == TRUE     \* mutant: the preference is not read again

StillAutomatic(by) == by = "worker" => config.automatic

\* _candidate: the stage is verified once more against the store as it is now;
\* without a store the operator names the digest of the archive instead.
StoresAfter(s, now) ==
    IF config.signed
    THEN UNION {VerifiedStores(dir, store, s.package, now) : dir \in s.metadata, store \in trust}
    ELSE {{} : p \in {s.package} \cap Reviewed}

\* Everything is checked under both locks.
BeginActivate(id, s, approved, by, now) ==
    /\ command = None /\ config.exists
    /\ StillAutomatic(by)
    /\ MayGoOn(id, Ask("activate", <<s.package.archive, approved>>))
    /\ Replaces(s.package, approved)
    /\ config.signed => stager = None
    /\ \E next \in StoresAfter(s, now) :
        command' = [pc |-> "unpack", id |-> id, by |-> by, target |-> s.package,
                    ask |-> Ask("activate", <<s.package.archive, approved>>), store |-> next]
    /\ UNCHANGED <<files, stager, worker>>

\* _materialize: members of the archive are written one by one, whatever an
\* interrupted attempt left is completed, the inventory comes last.
Unpack ==
    /\ command.pc = "unpack"
    /\ \E now \in {"partial", "members", "complete"} :
        /\ \/ installed[command.target.archive] = "nothing" /\ now = "partial"
           \/ installed[command.target.archive] = "partial" /\ now = "members"
           \/ installed[command.target.archive] = "members" /\ now = "complete"
        /\ installed' = [installed EXCEPT ![command.target.archive] = now]
    /\ UNCHANGED <<trust, config, staged, active, receipts, stager, command, worker>>

\* The floors advance after the bytes are in place, before the journal.
SaveTrust ==
    /\ command.pc = "unpack"
    /\ VerifyInstalled(command.target)
    /\ trust' = IF config.signed THEN {command.store} ELSE trust
    /\ command' = [command EXCEPT !.pc = "commit"]
    /\ UNCHANGED <<config, staged, installed, active, receipts, stager, worker>>

\* _commit_activation: the intent, the pointer, the receipt.
Prepare ==
    /\ command.pc = "commit"
    /\ MayGoOn(command.id, command.ask)
    /\ IF ReceiptsOf(command.id) = {}
       THEN /\ \A a \in Next1(command.target) : a.generation <= MaxGeneration
            /\ receipts' = receipts \cup
                {Receipt(command.id, command.ask, active, Next1(command.target), "prepared")}
       ELSE /\ \A r \in ReceiptsOf(command.id) : \A a \in r.after : a.current = command.target
            /\ UNCHANGED receipts
    /\ command' = [command EXCEPT !.pc = "point"]
    /\ UNCHANGED <<trust, config, staged, installed, active, stager, worker>>

MovePointer ==
    /\ command.pc = "point"
    /\ VerifyInstalled(command.target)
    /\ \E r \in ReceiptsOf(command.id) : active' = r.after
    /\ command' = [command EXCEPT !.pc = "receipt"]
    /\ UNCHANGED <<trust, config, staged, installed, receipts, stager, worker>>

CommitReceipt ==
    /\ command.pc = "receipt"
    /\ receipts' = {IF r.id = command.id THEN [r EXCEPT !.state = "committed"] ELSE r : r \in receipts}
    /\ command' = None
    /\ worker' = IF command.by = "worker" THEN None ELSE worker
    /\ UNCHANGED <<trust, config, staged, installed, active, stager>>

StopCommand ==
    /\ command # None
    /\ command' = None
    /\ worker' = IF command.by = "worker" THEN None ELSE worker
    /\ UNCHANGED <<files, stager>>

----------------------------------------------------------------------------
(* rollback: back to the package before, and no automatic updates after.     *)

\* `automatic` is switched off before the pointer moves; a prepared rollback
\* is taken up with the target it was prepared for.
BeginRollback(id, generation) ==
    /\ command = None /\ config.exists
    /\ MayGoOn(id, Ask("rollback", generation))
    /\ \E a \in active : \E p \in a.previous :
        /\ ReceiptsOf(id) = {} => a.generation = generation
        /\ command' = [pc |-> "commit", id |-> id, by |-> "operator",
                       target |-> IF ReceiptsOf(id) = {} THEN p
                                  ELSE CHOOSE t \in Package :
                                        \E r \in ReceiptsOf(id) : \E n \in r.after : n.current = t,
                       ask |-> Ask("rollback", generation), store |-> {}]
    /\ config' = [config EXCEPT !.automatic = FALSE]
    /\ UNCHANGED <<trust, staged, installed, active, receipts, stager, worker>>

ConfigureAutomatic(enabled) ==
    /\ command = None /\ config.exists
    /\ enabled => config.signed
    /\ config' = [config EXCEPT !.automatic = enabled]
    /\ UNCHANGED <<trust, staged, installed, active, receipts, stager, command, worker>>

----------------------------------------------------------------------------
(* apply_latest in the automatic worker: configuration, pointer and latest   *)
(* release are read without a lock, then staged, then activated.             *)

\* notify starts it on a host event, under the installation's lock.
WorkerStarts ==
    /\ worker = None /\ command = None
    /\ config.automatic
    /\ active # {} /\ \A p \in CurrentPackage : VerifyInstalled(p)
    /\ worker' = [pc |-> "started"]
    /\ UNCHANGED <<files, stager, command>>

WorkerChooses(package) ==
    /\ worker.pc = "started"
    /\ config.automatic
    /\ \A p \in CurrentPackage : p.version < package.version
    /\ worker' = [pc |-> "chosen", generation |-> Generation, package |-> package]
    /\ UNCHANGED <<files, stager, command>>

WorkerStages(offer) ==
    /\ worker.pc = "chosen"
    /\ worker.package = offer.package
    /\ Download(offer, "worker")

WorkerChecksAgain ==
    /\ worker.pc = "staged"
    /\ config.automatic
    /\ worker' = [worker EXCEPT !.pc = "checked"]
    /\ UNCHANGED <<files, stager, command>>

\* The request id is derived from the generation the worker started from.
WorkerActivates(now) ==
    /\ worker.pc = "checked"
    /\ \E s \in staged :
        /\ s.package = worker.package
        /\ BeginActivate(<<worker.generation, s.package>>, s, FALSE, "worker", now)

WorkerGivesUp ==
    /\ worker # None
    /\ stager # None => stager.by # "worker"
    /\ command # None => command.by # "worker"
    /\ worker' = None
    /\ UNCHANGED <<files, stager, command>>

----------------------------------------------------------------------------
InstallNext ==
    \/ \E root \in Pinned, now \in Time : ConfigureTrust(root, now)
    \/ \E offer \in Offered : Download(offer, "operator")
    \/ \E now \in Time : SaveFloors(now)
    \/ StopStaging
    \/ \E s \in staged : Discard(s)
    \/ \E signed, automatic \in BOOLEAN : Initialize(signed, automatic)
    \/ \E id \in OperatorRequest, s \in staged, approved \in BOOLEAN, now \in Time :
        \/ BeginActivate(id, s, approved, "operator", now)
        \/ FinishReceipt(id, Ask("activate", <<s.package.archive, approved>>))
    \/ Unpack \/ SaveTrust \/ Prepare \/ MovePointer \/ CommitReceipt \/ StopCommand
    \/ \E id \in OperatorRequest, g \in 1 .. MaxGeneration :
        BeginRollback(id, g) \/ FinishReceipt(id, Ask("rollback", g))
    \/ \E enabled \in BOOLEAN : ConfigureAutomatic(enabled)
    \/ \E package \in Package : StageUnsigned(package)
    \/ WorkerStarts
    \/ \E package \in Package : WorkerChooses(package)
    \/ \E offer \in Offered : WorkerStages(offer)
    \/ WorkerChecksAgain
    \/ \E now \in Time : WorkerActivates(now)
    \/ WorkerGivesUp

InstallSpec == InstallInit /\ [][InstallNext]_installVars
----------------------------------------------------------------------------
(* Properties *)

\* Trust only moves forward, whoever saves it: no older root, no older or
\* different metadata of one version, no older package, no earlier time.
FloorsNeverDrop ==
    [][\A old \in trust : \A new \in trust' :
        /\ old.root.version <= new.root.version
        /\ \A role \in Tracked : \A f \in old.floors[role] : \A g \in new.floors[role] :
            f.version < g.version \/ f = g
        /\ \A p \in old.target : \A q \in new.target : p.version <= q.version
        /\ old.verified <= new.verified]_installVars

\* What is trusted comes from one release of the metadata, never from the
\* timestamp of one and the snapshot or targets of another.
TrustIsOneRelease ==
    \A store \in trust : \A t \in store.floors["timestamp"] :
        /\ store.floors["snapshot"] = {t.snapshot}
        /\ store.floors["targets"] = {t.snapshot.targets}
        /\ store.target = {t.snapshot.targets.package}

\* The roots that signatures lead to from a pinned one, a version at a time: each
\* is signed as the one before it asks, and as it asks itself.
RootFile == Pinned \cup UNION {offer.dir.roots : offer \in Offered}
Succeeds(root, next) ==
    /\ next.version = root.version + 1
    /\ \A r \in {root, next} : Cardinality(next.sigs \cap r.keys["root"]) >= r.threshold["root"]
GenuineRoots ==
    {r \in RootFile : \A S \in SUBSET RootFile :
        Pinned \subseteq S /\ (\A a \in S, b \in RootFile : Succeeds(a, b) => b \in S) => r \in S}

\* Whatever a server hands out and whoever saves the store, the root in force
\* is genuine, as many of its keys as it asks for have signed what is trusted,
\* and all of that is of one release (_apply_root_rotations, verify_update_chain).
TrustIsSigned ==
    /\ TrustIsOneRelease
    /\ \A store \in trust :
        /\ store.root \in GenuineRoots
        /\ \A role \in Tracked : \A f \in store.floors[role] :
            Cardinality(f.sigs \cap store.root.keys[role]) >= store.root.threshold[role]

\* The package a launcher starts, and the one a rollback would return to, are
\* completely on disk whenever the pointer names them.
PointerIsRunnable == \A a \in active : \A p \in {a.current} \cup a.previous : Launches(p)

\* No signed package runs that the saved floors do not know of: a crash leaves
\* the floors ahead of the pointer and never behind.
FloorsCoverActive ==
    config.signed =>
        \A p \in CurrentPackage : \E store \in trust : \E t \in store.target : p.version <= t.version

\* Wherever an activation is cut short, what the pointer names can be started
\* and the floors cover it (activate, _commit_activation).
PointerIsSound == PointerIsRunnable /\ FloorsCoverActive

\* The audit trail is one history: no generation was given to two pointers,
\* however many prepared requests were interrupted and taken up again.
OneHistory ==
    \A r, t \in {c \in receipts : c.state = "committed"} :
        \A a \in r.after : \A b \in t.after : a.generation = b.generation => a = b

\* What runs is what the operator agreed to: only a rollback that was asked for
\* lowers the active version, and no automatic update lands after they were
\* switched off (activate, apply_latest).
ActiveIsAgreedTo ==
    [][/\ \A p \in CurrentPackage : \A q \in CurrentPackage' :
            q.version < p.version => command.ask.operation = "rollback"
       /\ active' # active /\ command.by = "worker" => config.automatic]_installVars
=============================================================================
