--------------------------- MODULE InstallProofs ---------------------------
(***************************************************************************)
(* What an installation guarantees for every server, every set of offers   *)
(* and requests, and every point at which its commands are cut short:      *)
(* trust never goes back, the pointer names complete packages that the     *)
(* saved floors cover, generations are one history, and only an operator   *)
(* lowers what runs.                                                       *)
(***************************************************************************)
EXTENDS ManagedInstall, WellFoundedInduction, TLAPS

----------------------------------------------------------------------------
(* The inductive invariant: types. *)

AtMostOne(S) == \A x, y \in S : x = y

Archive == {p.archive : p \in Package}
Dir == {offer.dir : offer \in Offered}
Agent == {"operator", "worker"}
Operation == {"activate", "rollback"}

Pointers == [generation : Nat, current : Package, previous : SUBSET Package]

\* Request ids are compared and never looked into.
IsReceipt(r) ==
    /\ r = [id |-> r.id, ask |-> r.ask, before |-> r.before, after |-> r.after, state |-> r.state]
    /\ r.ask.operation \in Operation
    /\ r.before \subseteq Pointers /\ r.after \subseteq Pointers
    /\ AtMostOne(r.before) /\ AtMostOne(r.after)
    /\ r.state \in {"prepared", "committed"}

OneRelease(store) ==
    \A t \in store.floors["timestamp"] :
        /\ store.floors["snapshot"] = {t.snapshot}
        /\ store.floors["targets"] = {t.snapshot.targets}
        /\ store.target = {t.snapshot.targets.package}

IsStore(store) ==
    /\ store.root.version \in Nat /\ store.verified \in Nat
    /\ store.target \subseteq Package /\ AtMostOne(store.target)
    /\ \A role \in Tracked : AtMostOne(store.floors[role])
    /\ OneRelease(store)

Stagers == [pc : {"downloaded"}, package : Package, dir : Dir, by : Agent]

IsCommand(c) ==
    /\ c = [pc |-> c.pc, id |-> c.id, by |-> c.by, target |-> c.target, ask |-> c.ask, store |-> c.store]
    /\ c.pc \in {"unpack", "commit", "point", "receipt"}
    /\ c.by \in Agent /\ c.target \in Package /\ c.ask.operation \in Operation

Workers ==
    [pc : {"started"}] \cup [pc : {"chosen", "staged", "checked"}, generation : Nat, package : Package]

FilesOK ==
    /\ AtMostOne(trust) /\ \A store \in trust : IsStore(store)
    /\ config \in [exists : BOOLEAN, signed : BOOLEAN, automatic : BOOLEAN]
    /\ staged \subseteq [package : Package, metadata : SUBSET Dir]
    /\ installed \in [Archive -> {"nothing", "partial", "members", "complete"}]
    /\ active \subseteq Pointers /\ AtMostOne(active)
    /\ \A r \in receipts : IsReceipt(r)

CallsOK ==
    /\ stager = None \/ stager \in Stagers
    /\ command = None \/ IsCommand(command)
    /\ worker = None \/ worker \in Workers
    /\ stager # None /\ stager.by = "worker" => worker # None /\ worker.pc = "chosen"
    /\ command # None /\ command.by = "worker" => worker # None /\ worker.pc = "checked"

TypeOK == FilesOK /\ CallsOK

----------------------------------------------------------------------------
(* The inductive invariant: locks, trust, pointer, history. *)

Activating == command # None /\ command.ask.operation = "activate"

\* Nothing happens before install.json is there, and then a signed activation
\* keeps every stage command out.
LockInv ==
    /\ ~config.exists => active = {} /\ receipts = {} /\ command = None
    /\ Activating /\ config.signed => stager = None

\* No floor of one store is above that of the other.
Advances(old, new) ==
    /\ old.root.version <= new.root.version
    /\ \A role \in Tracked : \A f \in old.floors[role] : \A g \in new.floors[role] :
        f.version < g.version \/ f = g
    /\ \A p \in old.target : \A q \in new.target : p.version <= q.version
    /\ old.verified <= new.verified

\* The store an activation is about to save was verified against the one in place.
StoreInv ==
    command # None /\ command.pc = "unpack" =>
        /\ Activating
        /\ config.signed =>
            /\ IsStore(command.store) /\ command.store.target = {command.target}
            /\ \A old \in trust : Advances(old, command.store)

\* What may be named by a pointer.
Covered(p) == \E store \in trust : \E t \in store.target : p.version <= t.version
Sound(p) == Launches(p) /\ (config.signed => Covered(p))
SoundPointers(A) == \A a \in A : \A p \in {a.current} \cup a.previous : Sound(p)

GenerationOf(A) == IF A = {} THEN 0 ELSE Max({a.generation : a \in A})

\* Each receipt leads from one sound pointer to the next one.
ReceiptInv ==
    /\ SoundPointers(active)
    /\ \A r, t \in receipts : r.id = t.id => r = t
    /\ \A r \in receipts :
        /\ SoundPointers(r.before) /\ SoundPointers(r.after)
        /\ \/ r.after = r.before
           \/ \E a \in r.after : r.after = {a} /\ a.generation = GenerationOf(r.before) + 1

\* What the running command relies on.
CommandInv ==
    /\ command # None /\ command.pc = "commit" /\ (Activating \/ ReceiptsOf(command.id) = {}) =>
        Sound(command.target)
    /\ command # None /\ command.pc = "point" => \A r \in ReceiptsOf(command.id) :
        /\ r.state = "prepared" /\ active = r.before
        /\ \A a \in r.after : a.current = command.target
    /\ command # None /\ command.pc = "receipt" => \A r \in ReceiptsOf(command.id) : active = r.after

\* Until the pointer moves, what was checked when the command began still holds.
AgreementInv ==
    command # None /\ command.pc # "receipt" =>
        /\ Activating => \A p \in CurrentPackage : p.version <= command.target.version
        /\ command.by = "worker" => config.automatic

\* Committed generations are at most the present one, which is the pointer's.
HistoryInv ==
    /\ \A r \in receipts : r.state = "committed" =>
        \A a \in r.after : a.generation <= Generation /\ (a.generation = Generation => active = {a})
    /\ OneHistory

IInv ==
    /\ TypeOK /\ LockInv /\ StoreInv
    /\ ReceiptInv /\ CommandInv /\ AgreementInv /\ HistoryInv

----------------------------------------------------------------------------
(* Lemmas about the operators. *)

\* The root in force after any rotations of a directory is not older.
LEMMA RootMovesOn ==
    ASSUME NEW dir \in Dir, NEW root, root.version \in Nat, NEW now,
           NEW new \in RootAfter(dir, root, now)
    PROVE  new.version \in Nat /\ root.version <= new.version
<1> DEFINE InForce(i) == IF i = 0 THEN {root} ELSE RootNamed(dir, root.version + i)
<1>1. PICK n \in 0 .. MaxRotations : new \in InForce(n)
    BY DEF RootAfter
<1>2. n \in Nat
    BY RotationsAssumption
<1>3. CASE n = 0
    BY <1>1, <1>3
<1>4. CASE n # 0
    <2>1. new.version = root.version + n
        BY <1>1, <1>4 DEF RootNamed
    <2> QED
        BY <1>2, <2>1
<1> QED
    BY <1>3, <1>4

\* What a verification hands back is of one release, for the package that was
\* asked about, and nowhere behind the store it was verified against.
LEMMA VerifiedAdvances ==
    ASSUME NEW dir \in Dir, NEW store, IsStore(store), NEW package \in Package, NEW now \in Time,
           NEW new \in VerifiedStores(dir, store, package, now)
    PROVE  /\ IsStore(new) /\ new.target = {package}
           /\ Advances(store, new)
<1>1. PICK root \in VerifiedRoots(dir, store, package, now) :
        new = Store(root, [role \in Tracked |-> {Floor(dir, role)}], {package},
                    IF now < store.verified THEN store.verified ELSE now)
    BY DEF VerifiedStores
<1>2. root \in RootAfter(dir, store.root, now)
    BY <1>1 DEF VerifiedRoots
<1>3. root.version \in Nat /\ store.root.version <= root.version
    BY <1>2, RootMovesOn DEF IsStore
<1>4. /\ new.root = root /\ new.target = {package}
      /\ new.floors = [role \in Tracked |-> {Floor(dir, role)}]
      /\ new.verified = IF now < store.verified THEN store.verified ELSE now
    BY <1>1 DEF Store
<1>5. now \in Nat /\ store.verified \in Nat
    BY TimeAssumption DEF IsStore
<1>6. new.verified \in Nat /\ store.verified <= new.verified
    BY <1>4, <1>5
<1>7. OneRelease(new)
    <2>1. {"timestamp", "snapshot", "targets"} \subseteq Tracked
        BY DEF Tracked, Roles
    <2>2. /\ new.floors["timestamp"] = {dir.timestamp} /\ new.floors["snapshot"] = {dir.snapshot}
          /\ new.floors["targets"] = {dir.targets}
        BY <1>4, <2>1 DEF Floor
    <2>3. dir.timestamp.snapshot = dir.snapshot /\ dir.snapshot.targets = dir.targets
        BY <1>1 DEF VerifiedRoots, ChainFollows
    <2>4. dir.targets.package = package
        BY <1>1 DEF VerifiedRoots
    <2> QED
        BY <1>4, <2>2, <2>3, <2>4 DEF OneRelease
<1>8. \A role \in Tracked : \A f \in store.floors[role] : \A g \in new.floors[role] :
        f.version < g.version \/ f = g
    BY <1>1, <1>4 DEF VerifiedRoots, NotRolledBack
<1>9. \A p \in store.target : p.version <= package.version
    <2>1. \A p \in store.target : p.version < package.version \/ p.version = package.version
        BY <1>1 DEF VerifiedRoots, PackageAdvances
    <2>2. \A p \in Package : p.version \in Nat
        BY VersionsAssumption DEF Package
    <2> QED
        BY <2>1, <2>2 DEF IsStore
<1> QED
    BY <1>3, <1>4, <1>6, <1>7, <1>8, <1>9 DEF IsStore, Advances, AtMostOne

\* Packages can be compared.
LEMMA VersionsAreNumbers == \A p \in Package : p.version \in Nat
BY VersionsAssumption DEF Package

\* A pinned store has no floors yet.
LEMMA PinnedIsStore ==
    ASSUME NEW root \in Pinned
    PROVE  IsStore(PinnedStore(root))
<1>1. root.version \in Nat
    BY VersionsAssumption
<1>2. "timestamp" \in Tracked
    BY DEF Tracked, Roles
<1> QED
    BY <1>1, <1>2 DEF IsStore, PinnedStore, Store, NoFloors, OneRelease, AtMostOne

\* The generation of a pointer that is there.
LEMMA GenerationOfOne ==
    ASSUME NEW a \in Pointers
    PROVE  GenerationOf({a}) = a.generation
<1>1. {b.generation : b \in {a}} = {a.generation} /\ a.generation \in Nat
    BY DEF Pointers
<1>2. \A g \in Nat : (CHOOSE x \in {g} : \A y \in {g} : x >= y) = g
    OBVIOUS
<1> QED
    BY <1>1, <1>2 DEF GenerationOf, Max

\* Generations are natural numbers, zero when there is no pointer.
LEMMA GenerationType ==
    ASSUME NEW A, A \subseteq Pointers, AtMostOne(A)
    PROVE  GenerationOf(A) \in Nat
<1>1. CASE A = {}
    BY <1>1 DEF GenerationOf
<1>2. ASSUME NEW a \in A PROVE GenerationOf(A) \in Nat
    <2>1. A = {a}
        BY <1>2 DEF AtMostOne
    <2> QED
        BY <2>1, GenerationOfOne DEF Pointers
<1> QED
    BY <1>1, <1>2

----------------------------------------------------------------------------
(* Type correctness. *)

LEMMA TypeInit == InstallInit => TypeOK
<1> SUFFICES ASSUME InstallInit PROVE TypeOK
    OBVIOUS
<1>1. FilesOK
    BY DEF InstallInit, FilesOK, AtMostOne, Archive
<1>2. CallsOK
    BY DEF InstallInit, CallsOK
<1> QED
    BY <1>1, <1>2 DEF TypeOK

\* A command that goes on keeps everything but its place.
LEMMA CommandGoesOn ==
    ASSUME IsCommand(command), NEW pc \in {"commit", "point", "receipt"},
           command' = [command EXCEPT !.pc = pc]
    PROVE  /\ IsCommand(command') /\ command'.pc = pc
           /\ command'.id = command.id /\ command'.by = command.by
           /\ command'.target = command.target /\ command'.ask = command.ask
           /\ command'.store = command.store
BY DEF IsCommand

\* There is no mistaking a command for none.
LEMMA CommandIsNotNone ==
    /\ \A c : IsCommand(c) => c # None
    /\ \A s \in Stagers : s # None
    /\ \A w \in Workers : w # None
<1>1. \A c : IsCommand(c) => c # None
    BY DEF IsCommand, None
<1>2. \A s \in Stagers : s # None
    BY DEF Stagers, None
<1>3. \A w \in Workers : w # None
    BY DEF Workers, None
<1> QED
    BY <1>1, <1>2, <1>3

\* A package that was downloaded comes from an offer.
LEMMA OfferType ==
    ASSUME NEW offer \in Offered
    PROVE  offer.package \in Package /\ offer.dir \in Dir
BY DEF Package, Dir

\* The stores an activation may save, if signatures are asked for.
LEMMA StoresAfterType ==
    ASSUME FilesOK, NEW s \in staged, NEW now \in Time, config.signed,
           NEW next \in StoresAfter(s, now)
    PROVE  /\ IsStore(next) /\ next.target = {s.package}
           /\ \A old \in trust : Advances(old, next)
<1>1. PICK dir \in s.metadata, store \in trust : next \in VerifiedStores(dir, store, s.package, now)
    BY DEF StoresAfter
<1>2. dir \in Dir /\ s.package \in Package /\ IsStore(store)
    BY DEF FilesOK
<1>3. IsStore(next) /\ next.target = {s.package} /\ Advances(store, next)
    BY <1>1, <1>2, VerifiedAdvances
<1>4. \A old \in trust : old = store
    BY DEF FilesOK, AtMostOne
<1> QED
    BY <1>3, <1>4

\* The pointer an activation leads to is well formed, one generation on.
LEMMA NextPointer ==
    ASSUME FilesOK, NEW target \in Package
    PROVE  /\ Next1(target) \subseteq Pointers /\ AtMostOne(Next1(target))
           /\ \A a \in Next1(target) : a.current = target
           /\ \/ Next1(target) = active
              \/ \E a \in Next1(target) :
                    /\ Next1(target) = {a} /\ a.generation = GenerationOf(active) + 1
                    /\ a.previous = CurrentPackage
<1>1. active \subseteq Pointers /\ AtMostOne(active)
    BY DEF FilesOK
<1>2. Generation \in Nat /\ Generation = GenerationOf(active)
    BY <1>1, GenerationType DEF Generation, GenerationOf
<1>3. CurrentPackage \subseteq Package
    BY <1>1 DEF CurrentPackage, Pointers
<1>4. CASE CurrentPackage = {target}
    <2>1. \A a \in active : a.current = target
        BY <1>4 DEF CurrentPackage
    <2> QED
        BY <1>1, <1>4, <2>1 DEF Next1
<1>5. CASE CurrentPackage # {target}
    <2> DEFINE new == Pointer(Generation + 1, target, CurrentPackage)
    <2>1. Next1(target) = {new}
        BY <1>5 DEF Next1
    <2>2. new \in Pointers /\ new.current = target
        BY <1>2, <1>3 DEF Pointer, Pointers
    <2>3. new.generation = GenerationOf(active) + 1 /\ new.previous = CurrentPackage
        BY <1>2 DEF Pointer
    <2> QED
        BY <2>1, <2>2, <2>3 DEF AtMostOne
<1> QED
    BY <1>4, <1>5

\* An activation begins with a well-formed command, if its package is staged.
LEMMA BeginActivateType ==
    ASSUME TypeOK, NEW id, NEW s \in staged, NEW approved \in BOOLEAN, NEW by \in Agent,
           NEW now \in Time, BeginActivate(id, s, approved, by, now)
    PROVE  /\ command = None /\ IsCommand(command') /\ command'.pc = "unpack"
           /\ command'.id = id /\ command'.by = by /\ command'.target = s.package
           /\ command'.ask = Ask("activate", <<s.package.archive, approved>>)
           /\ command'.ask.operation = "activate"
           /\ command'.store \in StoresAfter(s, now)
<1>1. PICK next \in StoresAfter(s, now) :
        command' = [pc |-> "unpack", id |-> id, by |-> by, target |-> s.package,
                    ask |-> Ask("activate", <<s.package.archive, approved>>), store |-> next]
    BY DEF BeginActivate
<1>2. s.package \in Package
    BY DEF TypeOK, FilesOK
<1> QED
    BY <1>1, <1>2 DEF BeginActivate, IsCommand, Ask, Operation

\* So does a rollback: the target of a prepared one is in its receipt.
LEMMA BeginRollbackType ==
    ASSUME TypeOK, ReceiptInv, NEW id, NEW g, BeginRollback(id, g)
    PROVE  /\ command = None /\ IsCommand(command') /\ command'.pc = "commit"
           /\ command'.id = id /\ command'.by = "operator"
           /\ command'.ask.operation = "rollback"
           /\ ReceiptsOf(id) = {} => \E a \in active : command'.target \in a.previous
<1> DEFINE Saved(t) == \E r \in ReceiptsOf(id) : \E n \in r.after : n.current = t
<1> DEFINE Found(p) ==
        command' = [pc |-> "commit", id |-> id, by |-> "operator",
                    target |-> IF ReceiptsOf(id) = {} THEN p ELSE CHOOSE t \in Package : Saved(t),
                    ask |-> Ask("rollback", g), store |-> {}]
<1>0. PICK a \in active : \E p \in a.previous : Found(p)
    BY DEF BeginRollback
<1>1. PICK p \in a.previous : Found(p)
    BY <1>0
<1>2. p \in Package
    BY DEF TypeOK, FilesOK, Pointers
<1>3. ASSUME ReceiptsOf(id) # {} PROVE \E t \in Package : Saved(t)
    <2>1. PICK r \in ReceiptsOf(id) : r \in receipts
        BY <1>3 DEF ReceiptsOf
    <2>2. active = r.before /\ active # r.after
        BY <2>1 DEF BeginRollback, MayGoOn
    <2>3. PICK n \in r.after : TRUE
        BY <2>1, <2>2 DEF ReceiptInv
    <2>4. n.current \in Package
        BY <2>1, <2>3 DEF TypeOK, FilesOK, IsReceipt, Pointers
    <2> QED
        BY <2>1, <2>3, <2>4
<1> HIDE DEF Saved
<1> DEFINE target == IF ReceiptsOf(id) = {} THEN p ELSE CHOOSE t \in Package : Saved(t)
<1>4. target \in Package
    BY <1>2, <1>3
<1>5. command' = [pc |-> "commit", id |-> id, by |-> "operator", target |-> target,
                 ask |-> Ask("rollback", g), store |-> {}]
    BY <1>1 DEF Saved
<1>6. ReceiptsOf(id) = {} => target \in a.previous
    OBVIOUS
<1> HIDE DEF target
<1>7. IsCommand(command')
    BY <1>4, <1>5 DEF IsCommand, Ask, Operation, Agent
<1> QED
    BY <1>5, <1>6, <1>7 DEF BeginRollback, Ask

LEMMA FilesNext == TypeOK /\ ReceiptInv /\ StoreInv /\ [InstallNext]_installVars => FilesOK'
<1> SUFFICES ASSUME TypeOK, ReceiptInv, StoreInv, [InstallNext]_installVars PROVE FilesOK'
    OBVIOUS
<1> USE DEF files
<1>1. ASSUME NEW root \in Pinned, NEW now \in Time, ConfigureTrust(root, now) PROVE FilesOK'
    BY <1>1, PinnedIsStore DEF ConfigureTrust, TypeOK, FilesOK, AtMostOne
<1>2. ASSUME NEW offer \in Offered, NEW by \in Agent, Download(offer, by) PROVE FilesOK'
    <2>1. [package |-> offer.package, metadata |-> {offer.dir}] \in [package : Package, metadata : SUBSET Dir]
        BY OfferType
    <2> QED
        BY <1>2, <2>1 DEF Download, TypeOK, FilesOK
<1>3. ASSUME NEW now \in Time, SaveFloors(now) PROVE FilesOK'
    <2>0. PICK store \in trust :
            \E next \in VerifiedStores(stager.dir, store, stager.package, now) : trust' = {next}
        BY <1>3 DEF SaveFloors
    <2>1. PICK next \in VerifiedStores(stager.dir, store, stager.package, now) : trust' = {next}
        BY <2>0
    <2>2. stager \in Stagers /\ IsStore(store)
        BY <1>3 DEF SaveFloors, TypeOK, FilesOK, CallsOK
    <2>3. IsStore(next)
        BY <2>1, <2>2, VerifiedAdvances DEF Stagers
    <2> QED
        BY <1>3, <2>1, <2>3 DEF SaveFloors, TypeOK, FilesOK, AtMostOne
<1>4. ASSUME NEW s \in staged, Discard(s) PROVE FilesOK'
    BY <1>4 DEF Discard, TypeOK, FilesOK
<1>5. ASSUME NEW package \in Package, StageUnsigned(package) PROVE FilesOK'
    <2>1. [package |-> package, metadata |-> {}] \in [package : Package, metadata : SUBSET Dir]
        OBVIOUS
    <2> QED
        BY <1>5, <2>1 DEF StageUnsigned, TypeOK, FilesOK
<1>6. ASSUME NEW signed \in BOOLEAN, NEW automatic \in BOOLEAN, Initialize(signed, automatic)
      PROVE  FilesOK'
    BY <1>6 DEF Initialize, TypeOK, FilesOK
<1>7. ASSUME NEW id, NEW s, NEW approved, NEW by, NEW now, BeginActivate(id, s, approved, by, now)
      PROVE  FilesOK'
    BY <1>7 DEF BeginActivate, TypeOK, FilesOK
<1>8. ASSUME NEW id, NEW ask, FinishReceipt(id, ask) PROVE FilesOK'
    <2>1. PICK r \in receipts : receipts' = (receipts \ {r}) \cup {[r EXCEPT !.state = "committed"]}
        BY <1>8 DEF FinishReceipt, ReceiptsOf
    <2>2. IsReceipt(r)
        BY DEF TypeOK, FilesOK
    <2>3. IsReceipt([r EXCEPT !.state = "committed"])
        BY <2>2 DEF IsReceipt
    <2> QED
        BY <1>8, <2>1, <2>3 DEF FinishReceipt, TypeOK, FilesOK
<1>9. CASE Unpack
    BY <1>9 DEF Unpack, TypeOK, FilesOK
<1>10. CASE SaveTrust
    <2>1. command # None
        BY <1>10 DEF SaveTrust, None
    <2>2. config.signed => IsStore(command.store)
        BY <1>10, <2>1 DEF SaveTrust, StoreInv
    <2>3. CASE config.signed
        BY <1>10, <2>2, <2>3 DEF SaveTrust, TypeOK, FilesOK, AtMostOne
    <2>4. CASE ~config.signed
        BY <1>10, <2>4 DEF SaveTrust, TypeOK, FilesOK, AtMostOne
    <2> QED
        BY <2>3, <2>4
<1>11. CASE Prepare
    <2>1. IsCommand(command)
        BY <1>11 DEF Prepare, None, TypeOK, CallsOK
    <2>2. /\ Next1(command.target) \subseteq Pointers /\ AtMostOne(Next1(command.target))
          /\ active \subseteq Pointers /\ AtMostOne(active)
        BY <2>1, NextPointer DEF IsCommand, TypeOK, FilesOK
    <2>3. IsReceipt(Receipt(command.id, command.ask, active, Next1(command.target), "prepared"))
        BY <2>1, <2>2 DEF IsReceipt, Receipt, IsCommand
    <2> QED
        BY <1>11, <2>3 DEF Prepare, TypeOK, FilesOK
<1>12. CASE MovePointer
    <2>1. PICK r \in receipts : active' = r.after
        BY <1>12 DEF MovePointer, ReceiptsOf
    <2>2. r.after \subseteq Pointers /\ AtMostOne(r.after)
        BY <2>1 DEF TypeOK, FilesOK, IsReceipt
    <2> QED
        BY <1>12, <2>1, <2>2 DEF MovePointer, TypeOK, FilesOK
<1>13. CASE CommitReceipt
    <2>1. \A r \in receipts : IsReceipt([r EXCEPT !.state = "committed"])
        BY DEF TypeOK, FilesOK, IsReceipt
    <2> QED
        BY <1>13, <2>1 DEF CommitReceipt, TypeOK, FilesOK
<1>14. ASSUME NEW id, NEW g, BeginRollback(id, g) PROVE FilesOK'
    BY <1>14 DEF BeginRollback, TypeOK, FilesOK
<1>15. ASSUME NEW enabled \in BOOLEAN, ConfigureAutomatic(enabled) PROVE FilesOK'
    BY <1>15 DEF ConfigureAutomatic, TypeOK, FilesOK
<1>16. CASE UNCHANGED files
    BY <1>16 DEF TypeOK, FilesOK
<1> QED
    BY <1>1, <1>2, <1>3, <1>4, <1>5, <1>6, <1>7, <1>8, <1>9, <1>10, <1>11, <1>12, <1>13, <1>14,
       <1>15, <1>16
    DEF InstallNext, installVars, Agent, StopStaging, StopCommand, WorkerStarts, WorkerChooses,
        WorkerStages, WorkerChecksAgain, WorkerActivates, WorkerGivesUp

LEMMA CallsNext == TypeOK /\ ReceiptInv /\ [InstallNext]_installVars => CallsOK'
<1> SUFFICES ASSUME TypeOK, ReceiptInv, [InstallNext]_installVars PROVE CallsOK'
    OBVIOUS
<1> USE DEF files
<1>0. CallsOK
    BY DEF TypeOK
<1>1. ASSUME UNCHANGED <<stager, command, worker>> PROVE CallsOK'
    BY <1>0, <1>1 DEF CallsOK
<1>2. ASSUME NEW offer \in Offered, Download(offer, "operator") PROVE CallsOK'
    <2>1. stager' \in Stagers /\ stager'.by = "operator"
        BY <1>2, OfferType DEF Download, Stagers, Agent
    <2> QED
        BY <1>0, <1>2, <2>1 DEF Download, CallsOK
<1>3. ASSUME NEW offer \in Offered, WorkerStages(offer) PROVE CallsOK'
    <2>1. stager' \in Stagers
        BY <1>3, OfferType DEF WorkerStages, Download, Stagers, Agent
    <2>2. worker # None /\ worker.pc = "chosen" /\ UNCHANGED <<worker, command>>
        BY <1>3 DEF WorkerStages, Download, None
    <2> QED
        BY <1>0, <2>1, <2>2 DEF CallsOK
<1>4. ASSUME NEW now \in Time, SaveFloors(now) PROVE CallsOK'
    <2>1. CASE stager.by = "worker"
        <3>1. worker \in Workers /\ worker.pc = "chosen"
            BY <1>0, <1>4, <2>1 DEF SaveFloors, CallsOK
        <3>2. [worker EXCEPT !.pc = "staged"] \in Workers
            BY <3>1 DEF Workers
        <3>3. worker' \in Workers /\ stager' = None /\ command' = command
            BY <1>4, <2>1, <3>2 DEF SaveFloors
        <3>4. command # None => command.by # "worker"
            BY <1>0, <3>1 DEF CallsOK
        <3> QED
            BY <1>0, <3>3, <3>4 DEF CallsOK
    <2>2. CASE stager.by # "worker"
        BY <1>0, <1>4, <2>2 DEF SaveFloors, CallsOK
    <2> QED
        BY <2>1, <2>2
<1>5. CASE StopStaging
    BY <1>0, <1>5 DEF StopStaging, CallsOK
<1>6. ASSUME NEW id, NEW s \in staged, NEW approved \in BOOLEAN, NEW now \in Time,
             BeginActivate(id, s, approved, "operator", now)
      PROVE  CallsOK'
    <2>1. IsCommand(command') /\ command'.by = "operator"
        BY <1>6, BeginActivateType DEF Agent
    <2> QED
        BY <1>0, <1>6, <2>1 DEF BeginActivate, CallsOK
<1>7. ASSUME NEW now \in Time, WorkerActivates(now) PROVE CallsOK'
    <2>1. PICK s \in staged : BeginActivate(<<worker.generation, s.package>>, s, FALSE, "worker", now)
        BY <1>7 DEF WorkerActivates
    <2>2. IsCommand(command')
        BY <2>1, BeginActivateType DEF Agent
    <2>3. worker # None /\ worker.pc = "checked" /\ UNCHANGED <<stager, worker>>
        BY <1>7, <2>1 DEF WorkerActivates, BeginActivate, None
    <2> QED
        BY <1>0, <2>2, <2>3 DEF CallsOK
<1>8. ASSUME NEW id, NEW g, BeginRollback(id, g) PROVE CallsOK'
    <2>1. IsCommand(command') /\ command'.by = "operator"
        BY <1>8, BeginRollbackType
    <2> QED
        BY <1>0, <1>8, <2>1 DEF BeginRollback, CallsOK
<1>9. ASSUME NEW pc \in {"commit", "point", "receipt"}, command # None,
             command' = [command EXCEPT !.pc = pc], UNCHANGED <<stager, worker>>
      PROVE  CallsOK'
    <2>1. IsCommand(command') /\ command'.by = command.by
        BY <1>0, <1>9, CommandGoesOn DEF CallsOK
    <2> QED
        BY <1>0, <1>9, <2>1 DEF CallsOK
<1>10. CASE SaveTrust \/ Prepare \/ MovePointer
    BY <1>9, <1>10 DEF SaveTrust, Prepare, MovePointer, None
<1>11. ASSUME command # None, command' = None, stager' = stager,
              worker' = IF command.by = "worker" THEN None ELSE worker
       PROVE  CallsOK'
    BY <1>0, <1>11 DEF CallsOK
<1>12. CASE CommitReceipt \/ StopCommand
    BY <1>11, <1>12 DEF CommitReceipt, StopCommand, None
<1>13. CASE WorkerStarts
    <2>1. [pc |-> "started"] \in Workers
        BY DEF Workers
    <2> QED
        BY <1>0, <1>13, <2>1 DEF WorkerStarts, CallsOK
<1>14. ASSUME NEW package \in Package, WorkerChooses(package) PROVE CallsOK'
    <2>1. Generation \in Nat
        BY GenerationType DEF Generation, GenerationOf, TypeOK, FilesOK
    <2>2. worker' \in Workers /\ worker.pc = "started" /\ worker # None
        BY <1>14, <2>1 DEF WorkerChooses, Workers, None
    <2> QED
        BY <1>0, <1>14, <2>2 DEF WorkerChooses, CallsOK
<1>15. CASE WorkerChecksAgain
    <2>1. worker \in Workers /\ worker.pc = "staged"
        BY <1>0, <1>15 DEF WorkerChecksAgain, CallsOK, None
    <2>2. [worker EXCEPT !.pc = "checked"] \in Workers
        BY <2>1 DEF Workers
    <2> QED
        BY <1>0, <1>15, <2>1, <2>2 DEF WorkerChecksAgain, CallsOK
<1>16. CASE WorkerGivesUp
    BY <1>0, <1>16 DEF WorkerGivesUp, CallsOK
<1> QED
    BY <1>1, <1>2, <1>3, <1>4, <1>5, <1>6, <1>7, <1>8, <1>10, <1>12, <1>13, <1>14, <1>15, <1>16
    DEF InstallNext, installVars, ConfigureTrust, Discard, Initialize, FinishReceipt, Unpack,
        ConfigureAutomatic, StageUnsigned

----------------------------------------------------------------------------
(* What a step can be, to the rest of the invariant. *)

\* A step that neither touches what is trusted and pointed at nor the command.
Quiet ==
    /\ UNCHANGED <<trust, config, installed, active, receipts, command>>
    /\ Activating /\ config.signed => stager' = stager \/ stager' = None

\* What was covered stays covered.
Keeps ==
    \A old \in trust : \A t \in old.target :
        \E new \in trust' : \E q \in new.target : t.version <= q.version

\* A root is pinned or a stage command saves the floors, under the trust lock.
TrustMoves ==
    /\ UNCHANGED <<config, installed, active, receipts, command>>
    /\ ~(Activating /\ config.signed)
    /\ Keeps /\ \A old \in trust : \A new \in trust' : Advances(old, new)

Steps ==
    \/ Quiet \/ TrustMoves
    \/ \E signed, automatic \in BOOLEAN : Initialize(signed, automatic)
    \/ \E id : \E s \in staged : \E approved \in BOOLEAN : \E by \in Agent : \E now \in Time :
        BeginActivate(id, s, approved, by, now)
    \/ \E id, ask : FinishReceipt(id, ask)
    \/ Unpack \/ SaveTrust \/ Prepare \/ MovePointer \/ CommitReceipt \/ StopCommand
    \/ \E id, g : BeginRollback(id, g)
    \/ \E enabled \in BOOLEAN : ConfigureAutomatic(enabled)

LEMMA StepKinds == TypeOK /\ LockInv /\ [InstallNext]_installVars => Steps
<1> SUFFICES ASSUME TypeOK, LockInv, [InstallNext]_installVars PROVE Steps
    OBVIOUS
<1> USE DEF files
<1>1. ASSUME NEW root \in Pinned, NEW now \in Time, ConfigureTrust(root, now) PROVE TrustMoves
    <2>1. ~(Activating /\ config.signed)
        BY <1>1 DEF ConfigureTrust, TrustLockFree, Activating
    <2> QED
        BY <1>1, <2>1 DEF ConfigureTrust, TrustMoves, Keeps
<1>2. ASSUME NEW offer, NEW by, Download(offer, by) PROVE Quiet
    <2>1. ~(Activating /\ config.signed)
        BY <1>2 DEF Download, TrustLockFree, Activating
    <2> QED
        BY <1>2, <2>1 DEF Download, Quiet
<1>3. ASSUME NEW now \in Time, SaveFloors(now) PROVE TrustMoves
    <2>0. PICK store \in trust :
            \E next \in VerifiedStores(stager.dir, store, stager.package, now) : trust' = {next}
        BY <1>3 DEF SaveFloors
    <2>1. PICK next \in VerifiedStores(stager.dir, store, stager.package, now) : trust' = {next}
        BY <2>0
    <2>2. stager \in Stagers /\ IsStore(store) /\ \A old \in trust : old = store
        BY <1>3 DEF SaveFloors, TypeOK, FilesOK, CallsOK, AtMostOne
    <2>3. next.target = {stager.package} /\ Advances(store, next)
        BY <2>1, <2>2, VerifiedAdvances DEF Stagers
    <2>4. Keeps
        BY <2>1, <2>2, <2>3 DEF Keeps, Advances
    <2>5. ~(Activating /\ config.signed)
        BY <1>3 DEF SaveFloors, LockInv
    <2> QED
        BY <1>3, <2>1, <2>2, <2>3, <2>4, <2>5 DEF SaveFloors, TrustMoves
<1>4. ASSUME UNCHANGED <<trust, config, installed, active, receipts, command>>,
             stager' = stager \/ stager' = None
      PROVE  Quiet
    BY <1>4 DEF Quiet
<1>5. CASE \/ StopStaging \/ WorkerStarts \/ WorkerChecksAgain \/ WorkerGivesUp
           \/ \E s \in staged : Discard(s)
           \/ \E package \in Package : StageUnsigned(package) \/ WorkerChooses(package)
           \/ UNCHANGED installVars
    BY <1>4, <1>5 DEF StopStaging, WorkerStarts, WorkerChecksAgain, WorkerGivesUp, Discard,
                      StageUnsigned, WorkerChooses, installVars, Steps
<1>6. CASE \/ \E root \in Pinned, now \in Time : ConfigureTrust(root, now)
           \/ \E offer \in Offered : Download(offer, "operator") \/ WorkerStages(offer)
           \/ \E now \in Time : SaveFloors(now)
    BY <1>1, <1>2, <1>3, <1>6 DEF WorkerStages, Steps
<1>7. CASE \E now \in Time : WorkerActivates(now)
    BY <1>7 DEF WorkerActivates, Steps, Agent
<1>8. CASE \E id \in OperatorRequest, s \in staged, approved \in BOOLEAN, now \in Time :
            BeginActivate(id, s, approved, "operator", now)
    BY <1>8 DEF Steps, Agent
<1> QED
    BY <1>5, <1>6, <1>7, <1>8 DEF InstallNext, Steps

----------------------------------------------------------------------------
(* Locks and the store that is about to be saved. *)

LEMMA LockNext == TypeOK /\ LockInv /\ ReceiptInv /\ Steps => LockInv'
<1> SUFFICES ASSUME TypeOK, LockInv, ReceiptInv, Steps PROVE LockInv'
    OBVIOUS
<1> USE DEF files
<1>1. CASE Quiet
    BY <1>1 DEF Quiet, LockInv, Activating
<1>2. CASE TrustMoves
    BY <1>2 DEF TrustMoves, LockInv, Activating
<1>3. ASSUME NEW signed \in BOOLEAN, NEW automatic \in BOOLEAN, Initialize(signed, automatic)
      PROVE  LockInv'
    BY <1>3 DEF Initialize, LockInv, Activating
<1>4. ASSUME NEW id, NEW s \in staged, NEW approved \in BOOLEAN, NEW by \in Agent, NEW now \in Time,
             BeginActivate(id, s, approved, by, now)
      PROVE  LockInv'
    BY <1>4 DEF BeginActivate, LockInv, Activating
<1>5. ASSUME NEW id, NEW ask, FinishReceipt(id, ask) PROVE LockInv'
    BY <1>5 DEF FinishReceipt, ReceiptsOf, LockInv, Activating
<1>6. ASSUME command # None, UNCHANGED <<config, stager>>,
             command' = None \/ command'.ask = command.ask
      PROVE  LockInv'
    BY <1>6 DEF LockInv, Activating
<1>7. CASE Unpack \/ SaveTrust \/ Prepare \/ MovePointer \/ CommitReceipt \/ StopCommand
    <2>1. command # None /\ IsCommand(command)
        BY <1>7 DEF Unpack, SaveTrust, Prepare, MovePointer, CommitReceipt, StopCommand, None,
                    TypeOK, CallsOK
    <2>2. ASSUME NEW pc, command' = [command EXCEPT !.pc = pc] PROVE command'.ask = command.ask
        BY <2>1, <2>2 DEF IsCommand
    <2> QED
        BY <1>6, <1>7, <2>1, <2>2 DEF Unpack, SaveTrust, Prepare, MovePointer, CommitReceipt, StopCommand
<1>8. ASSUME NEW id, NEW g, BeginRollback(id, g) PROVE LockInv'
    <2>1. command'.ask.operation = "rollback"
        BY <1>8, BeginRollbackType
    <2> QED
        BY <1>8, <2>1 DEF BeginRollback, LockInv, Activating, TypeOK, FilesOK
<1>9. ASSUME NEW enabled \in BOOLEAN, ConfigureAutomatic(enabled) PROVE LockInv'
    BY <1>9 DEF ConfigureAutomatic, LockInv, Activating, TypeOK, FilesOK
<1> QED
    BY <1>1, <1>2, <1>3, <1>4, <1>5, <1>7, <1>8, <1>9 DEF Steps

LEMMA StoreNext == TypeOK /\ LockInv /\ StoreInv /\ ReceiptInv /\ Steps => StoreInv'
<1> SUFFICES ASSUME TypeOK, LockInv, StoreInv, ReceiptInv, Steps PROVE StoreInv'
    OBVIOUS
<1> USE DEF files
<1>1. ASSUME UNCHANGED <<trust, config, command>> PROVE StoreInv'
    BY <1>1 DEF StoreInv, Activating
<1>2. CASE TrustMoves
    BY <1>2 DEF TrustMoves, StoreInv, Activating
<1>3. ASSUME command' = None \/ command'.pc # "unpack" PROVE StoreInv'
    BY <1>3 DEF StoreInv
<1>4. ASSUME NEW signed \in BOOLEAN, NEW automatic \in BOOLEAN, Initialize(signed, automatic)
      PROVE  StoreInv'
    BY <1>3, <1>4 DEF Initialize, LockInv
<1>5. ASSUME NEW id, NEW s \in staged, NEW approved \in BOOLEAN, NEW by \in Agent, NEW now \in Time,
             BeginActivate(id, s, approved, by, now)
      PROVE  StoreInv'
    <2>1. /\ IsCommand(command') /\ command'.target = s.package
          /\ command'.ask.operation = "activate" /\ command'.store \in StoresAfter(s, now)
        BY <1>5, BeginActivateType
    <2>2. UNCHANGED <<trust, config>>
        BY <1>5 DEF BeginActivate
    <2>3. command' # None
        BY <2>1, CommandIsNotNone
    <2>4. config.signed =>
            /\ IsStore(command'.store) /\ command'.store.target = {command'.target}
            /\ \A old \in trust : Advances(old, command'.store)
        BY <2>1, StoresAfterType DEF TypeOK
    <2> QED
        BY <2>1, <2>2, <2>3, <2>4 DEF StoreInv, Activating
<1>6. ASSUME NEW id, NEW ask, FinishReceipt(id, ask) PROVE StoreInv'
    BY <1>1, <1>6 DEF FinishReceipt
<1>7. CASE Unpack \/ StopCommand
    BY <1>1, <1>3, <1>7 DEF Unpack, StopCommand
<1>8. CASE SaveTrust \/ Prepare \/ MovePointer \/ CommitReceipt
    <2>1. command # None /\ IsCommand(command)
        BY <1>8 DEF SaveTrust, Prepare, MovePointer, CommitReceipt, None, TypeOK, CallsOK
    <2> QED
        BY <1>3, <1>8, <2>1, CommandGoesOn DEF SaveTrust, Prepare, MovePointer, CommitReceipt
<1>9. ASSUME NEW id, NEW g, BeginRollback(id, g) PROVE StoreInv'
    BY <1>3, <1>9, BeginRollbackType
<1>10. ASSUME NEW enabled \in BOOLEAN, ConfigureAutomatic(enabled) PROVE StoreInv'
    BY <1>3, <1>10 DEF ConfigureAutomatic
<1> QED
    BY <1>1, <1>2, <1>4, <1>5, <1>6, <1>7, <1>8, <1>9, <1>10 DEF Steps, Quiet

----------------------------------------------------------------------------
(* What a pointer may name, a later state lets it name too. *)

\* An activation saves a store that covers what the one before it covered.
LEMMA SaveTrustKeeps ==
    ASSUME TypeOK, StoreInv, SaveTrust
    PROVE  /\ Keeps
           /\ \A old \in trust : \A new \in trust' : old = new \/ Advances(old, new)
           /\ config.signed =>
                \E new \in trust' : new.target = {command.target}
<1>1. command # None
    BY DEF SaveTrust, None
<1>2. \A old \in trust : old.target \subseteq Package
    BY DEF TypeOK, FilesOK, IsStore
<1>3. CASE config.signed
    <2>1. /\ trust' = {command.store} /\ command.store.target = {command.target}
          /\ \A old \in trust : Advances(old, command.store)
        BY <1>1, <1>3 DEF SaveTrust, StoreInv
    <2> QED
        BY <2>1 DEF Keeps, Advances
<1>4. CASE ~config.signed
    <2>1. trust' = trust
        BY <1>4 DEF SaveTrust
    <2>2. \A t \in Package : t.version <= t.version
        BY VersionsAreNumbers
    <2>3. \A old, new \in trust : old = new
        BY DEF TypeOK, FilesOK, AtMostOne
    <2> QED
        BY <1>2, <1>4, <2>1, <2>2, <2>3 DEF Keeps
<1> QED
    BY <1>3, <1>4

LEMMA CoveredStays ==
    ASSUME TypeOK, TypeOK', Keeps \/ UNCHANGED trust, NEW p \in Package, Covered(p)
    PROVE  Covered(p)'
<1>1. CASE UNCHANGED trust
    BY <1>1 DEF Covered
<1>2. CASE Keeps
    <2>1. PICK store \in trust : \E t \in store.target : p.version <= t.version
        BY DEF Covered
    <2>2. PICK t \in store.target : p.version <= t.version
        BY <2>1
    <2>3. PICK new \in trust' : \E q \in new.target : t.version <= q.version
        BY <1>2 DEF Keeps
    <2>4. PICK q \in new.target : t.version <= q.version
        BY <2>3
    <2>5. t \in Package /\ q \in Package
        BY <2>2, <2>3, <2>4 DEF TypeOK, FilesOK, IsStore
    <2>6. p.version <= q.version
        BY <2>2, <2>4, <2>5, VersionsAreNumbers
    <2> QED
        BY <2>3, <2>4, <2>6 DEF Covered
<1> QED
    BY <1>1, <1>2

LEMMA SoundStays ==
    ASSUME TypeOK, TypeOK', LockInv, StoreInv, Steps, config.exists
    PROVE  \A A : A \subseteq Pointers /\ SoundPointers(A) => SoundPointers(A)'
<1> USE DEF files
<1>1. config'.signed = config.signed
    BY DEF Steps, Quiet, TrustMoves, Initialize, BeginActivate, FinishReceipt, Unpack, SaveTrust,
           Prepare, MovePointer, CommitReceipt, StopCommand, BeginRollback, ConfigureAutomatic,
           TypeOK, FilesOK
<1>2. Keeps \/ UNCHANGED trust
    BY SaveTrustKeeps
    DEF Steps, Quiet, TrustMoves, Initialize, BeginActivate, FinishReceipt, Unpack,
        Prepare, MovePointer, CommitReceipt, StopCommand, BeginRollback, ConfigureAutomatic
<1>3. ASSUME NEW p \in Package, Launches(p) PROVE Launches(p)'
    <2>1. CASE Unpack
        <3>1. p.archive \in Archive /\ installed \in [Archive -> {"nothing", "partial", "members", "complete"}]
            BY DEF Archive, TypeOK, FilesOK
        <3>2. PICK now \in {"partial", "members", "complete"} :
                /\ installed[command.target.archive] # "complete"
                /\ installed' = [installed EXCEPT ![command.target.archive] = now]
            BY <2>1 DEF Unpack
        <3> QED
            BY <1>3, <3>1, <3>2 DEF Launches
    <2>2. CASE UNCHANGED installed
        BY <1>3, <2>2 DEF Launches
    <2> QED
        BY <2>1, <2>2
        DEF Steps, Quiet, TrustMoves, Initialize, BeginActivate, FinishReceipt, SaveTrust,
            Prepare, MovePointer, CommitReceipt, StopCommand, BeginRollback, ConfigureAutomatic
<1>4. ASSUME NEW p \in Package, Sound(p) PROVE Sound(p)'
    BY <1>1, <1>2, <1>3, <1>4, CoveredStays DEF Sound
<1>5. ASSUME NEW A, A \subseteq Pointers, SoundPointers(A) PROVE SoundPointers(A)'
    <2>1. \A a \in A : \A p \in {a.current} \cup a.previous : p \in Package
        BY <1>5 DEF Pointers
    <2>2. \A a \in A : \A p \in {a.current} \cup a.previous : Sound(p)'
        BY <1>4, <1>5, <2>1 DEF SoundPointers
    <2> QED
        BY <2>2 DEF SoundPointers
<1> QED
    BY <1>5

\* The same for the package of a running activation.
LEMMA TargetStays ==
    ASSUME TypeOK, TypeOK', LockInv, StoreInv, Steps, config.exists, NEW p \in Package, Sound(p)
    PROVE  Sound(p)'
<1> DEFINE a == Pointer(0, p, {})
<1>1. a \in Pointers /\ a.current = p /\ a.previous = {}
    BY DEF Pointer, Pointers
<1>2. SoundPointers({a})
    BY <1>1 DEF SoundPointers
<1>3. SoundPointers({a})'
    BY <1>1, <1>2, SoundStays
<1> QED
    BY <1>1, <1>3 DEF SoundPointers

----------------------------------------------------------------------------
(* Receipts and the running command. *)

OneReceiptPerId == \A r, t \in receipts : r.id = t.id => r = t

IsStep(r) ==
    /\ SoundPointers(r.before) /\ SoundPointers(r.after)
    /\ \/ r.after = r.before
       \/ \E a \in r.after : r.after = {a} /\ a.generation = GenerationOf(r.before) + 1

\* A receipt whose state changed is the same step.
LEMMA StepStays ==
    ASSUME TypeOK, TypeOK', LockInv, StoreInv, ReceiptInv, Steps, NEW r \in receipts,
           NEW t, t.before = r.before, t.after = r.after
    PROVE  IsStep(t)'
<1>1. config.exists
    BY DEF LockInv
<1>2. r.before \subseteq Pointers /\ r.after \subseteq Pointers
    BY DEF TypeOK, FilesOK, IsReceipt
<1>3. SoundPointers(r.before) /\ SoundPointers(r.after)
    BY DEF ReceiptInv
<1>4. SoundPointers(r.before)' /\ SoundPointers(r.after)'
    BY <1>1, <1>2, <1>3, SoundStays
<1>5. \/ r.after = r.before
      \/ \E a \in r.after : r.after = {a} /\ a.generation = GenerationOf(r.before) + 1
    BY DEF ReceiptInv
<1> QED
    BY <1>4, <1>5 DEF IsStep, SoundPointers

\* Finishing a receipt keeps what it says.
LEMMA FinishedReceipt ==
    ASSUME NEW r, IsReceipt(r), NEW state
    PROVE  /\ [r EXCEPT !.state = state].id = r.id
           /\ [r EXCEPT !.state = state].before = r.before
           /\ [r EXCEPT !.state = state].after = r.after
           /\ [r EXCEPT !.state = state].state = state
BY DEF IsReceipt

LEMMA ReceiptNext ==
    TypeOK /\ TypeOK' /\ LockInv /\ StoreInv /\ ReceiptInv /\ CommandInv /\ Steps => ReceiptInv'
<1> SUFFICES ASSUME TypeOK, TypeOK', LockInv, StoreInv, ReceiptInv, CommandInv, Steps PROVE ReceiptInv'
    OBVIOUS
<1> USE DEF files
<1>1. SoundPointers(active)'
    <2>1. \A A : A \subseteq Pointers /\ A # {} /\ SoundPointers(A) =>
            (active' = A => SoundPointers(active)') \/ ~config.exists
        BY SoundStays DEF SoundPointers
    <2>2. active \subseteq Pointers /\ SoundPointers(active)
        BY DEF TypeOK, FilesOK, ReceiptInv
    <2>3. ~config.exists => active = {}
        BY DEF LockInv
    <2>4. CASE active' = active
        BY <2>1, <2>2, <2>3, <2>4 DEF SoundPointers
    <2>5. CASE MovePointer
        <3>1. PICK r \in receipts : active' = r.after
            BY <2>5 DEF MovePointer, ReceiptsOf
        <3>2. r.after \subseteq Pointers /\ SoundPointers(r.after) /\ config.exists
            BY <3>1 DEF TypeOK, FilesOK, IsReceipt, ReceiptInv, LockInv
        <3> QED
            BY <2>1, <3>1, <3>2 DEF SoundPointers
    <2> QED
        BY <2>4, <2>5
        DEF Steps, Quiet, TrustMoves, Initialize, BeginActivate, FinishReceipt, Unpack, SaveTrust,
            Prepare, CommitReceipt, StopCommand, BeginRollback, ConfigureAutomatic
<1>2. ASSUME OneReceiptPerId', \A r \in receipts' : IsStep(r)' PROVE ReceiptInv'
    BY <1>1, <1>2 DEF ReceiptInv, OneReceiptPerId, IsStep
<1>3. OneReceiptPerId /\ \A r \in receipts : IsStep(r)'
    BY StepStays DEF ReceiptInv, OneReceiptPerId
<1>4. CASE UNCHANGED receipts
    BY <1>2, <1>3, <1>4 DEF OneReceiptPerId
<1>5. ASSUME NEW id, NEW ask, FinishReceipt(id, ask) PROVE ReceiptInv'
    <2>1. PICK r \in receipts : receipts' = (receipts \ {r}) \cup {[r EXCEPT !.state = "committed"]}
        BY <1>5 DEF FinishReceipt, ReceiptsOf
    <2> DEFINE new == [r EXCEPT !.state = "committed"]
    <2>2. new.id = r.id /\ new.before = r.before /\ new.after = r.after
        BY FinishedReceipt DEF TypeOK, FilesOK
    <2>5. receipts' = (receipts \ {r}) \cup {new}
        BY <2>1
    <2> HIDE DEF new
    <2>3. OneReceiptPerId'
        BY <1>3, <2>5, <2>2 DEF OneReceiptPerId
    <2>4. \A t : t = new => IsStep(t)'
        BY <2>2, StepStays
    <2> QED
        BY <1>2, <1>3, <2>5, <2>3, <2>4
<1>6. CASE Prepare
    <2> DEFINE new == Receipt(command.id, command.ask, active, Next1(command.target), "prepared")
    <2>1. CASE ReceiptsOf(command.id) # {}
        BY <1>4, <1>6, <2>1 DEF Prepare
    <2>2. CASE ReceiptsOf(command.id) = {}
        <3>1. receipts' = receipts \cup {new} /\ UNCHANGED <<active, trust, config, installed>>
            BY <1>6, <2>2 DEF Prepare
        <3>2. /\ new.id = command.id /\ new.before = active /\ new.after = Next1(command.target)
            BY DEF Receipt
        <3>3. OneReceiptPerId'
            BY <1>3, <2>2, <3>1, <3>2 DEF OneReceiptPerId, ReceiptsOf
        <3>4. command # None /\ command.target \in Package /\ config.exists /\ Sound(command.target)
            BY <1>6, <2>2 DEF Prepare, None, TypeOK, CallsOK, IsCommand, CommandInv, LockInv
        <3>5. SoundPointers(active)
            BY DEF ReceiptInv
        <3>6. \A p \in CurrentPackage : Sound(p)
            BY <3>5 DEF SoundPointers, CurrentPackage
        <3>7. /\ \A a \in Next1(command.target) : a.current = command.target
              /\ \/ Next1(command.target) = active
                 \/ \E a \in Next1(command.target) :
                    /\ Next1(command.target) = {a} /\ a.generation = GenerationOf(active) + 1
                    /\ a.previous = CurrentPackage
            BY <3>4, NextPointer DEF TypeOK
        <3>8. SoundPointers(Next1(command.target))
            BY <3>4, <3>5, <3>6, <3>7 DEF SoundPointers
        <3>9. IsStep(new)
            BY <3>2, <3>5, <3>7, <3>8 DEF IsStep
        <3>10. Next1(command.target) \subseteq Pointers /\ active \subseteq Pointers
            BY <3>4, NextPointer DEF TypeOK, FilesOK
        <3>11. \A t : IsStep(t) /\ t.before \subseteq Pointers /\ t.after \subseteq Pointers => IsStep(t)'
            <4> SUFFICES ASSUME NEW t, IsStep(t), t.before \subseteq Pointers, t.after \subseteq Pointers
                         PROVE  IsStep(t)'
                OBVIOUS
            <4>1. SoundPointers(t.before)' /\ SoundPointers(t.after)'
                BY <3>4, SoundStays DEF IsStep
            <4> QED
                BY <4>1 DEF IsStep
        <3>12. \A t : t = new => IsStep(t)'
            BY <3>2, <3>9, <3>10, <3>11
        <3> QED
            BY <1>2, <1>3, <3>1, <3>3, <3>12
    <2> QED
        BY <2>1, <2>2
<1>7. CASE CommitReceipt
    <2> DEFINE Done(r) == IF r.id = command.id THEN [r EXCEPT !.state = "committed"] ELSE r
    <2>1. receipts' = {Done(r) : r \in receipts}
        BY <1>7 DEF CommitReceipt
    <2>2. \A r \in receipts : Done(r).id = r.id /\ Done(r).before = r.before /\ Done(r).after = r.after
        BY FinishedReceipt DEF TypeOK, FilesOK
    <2> HIDE DEF Done
    <2>3. OneReceiptPerId'
        BY <1>3, <2>1, <2>2 DEF OneReceiptPerId
    <2>4. \A r \in receipts : \A t : t = Done(r) => IsStep(t)'
        BY <2>2, StepStays
    <2> QED
        BY <1>2, <2>1, <2>3, <2>4
<1> QED
    BY <1>4, <1>5, <1>6, <1>7
    DEF Steps, Quiet, TrustMoves, Initialize, BeginActivate, Unpack, SaveTrust,
        MovePointer, StopCommand, BeginRollback, ConfigureAutomatic

LEMMA CommandNext ==
    TypeOK /\ TypeOK' /\ LockInv /\ StoreInv /\ ReceiptInv /\ CommandInv /\ Steps => CommandInv'
<1> SUFFICES ASSUME TypeOK, TypeOK', LockInv, StoreInv, ReceiptInv, CommandInv, Steps PROVE CommandInv'
    OBVIOUS
<1> USE DEF files
<1>1. ASSUME command' = None \/ command'.pc = "unpack" PROVE CommandInv'
    BY <1>1 DEF CommandInv
<1>2. CASE Quiet \/ TrustMoves
    <2>1. UNCHANGED <<active, receipts, command>> /\ (Activating' <=> Activating)
        BY <1>2 DEF Quiet, TrustMoves, Activating
    <2>2. CASE command = None
        BY <1>1, <2>1, <2>2
    <2>3. CASE command # None
        <3>1. config.exists /\ command.target \in Package
            BY <2>3 DEF LockInv, TypeOK, CallsOK, IsCommand
        <3>2. ASSUME NEW p \in Package, p = command.target, Sound(p) PROVE Sound(command.target)'
            <4>1. Sound(p)'
                BY <3>1, <3>2, TargetStays
            <4> QED
                BY <2>1, <3>2, <4>1 DEF Sound, Launches, Covered
        <3>3. ReceiptsOf(command.id)' = ReceiptsOf(command.id)
            BY <2>1 DEF ReceiptsOf
        <3> QED
            BY <2>1, <3>1, <3>2, <3>3 DEF CommandInv
    <2> QED
        BY <2>2, <2>3
<1>3. ASSUME NEW signed \in BOOLEAN, NEW automatic \in BOOLEAN, Initialize(signed, automatic)
      PROVE  CommandInv'
    BY <1>1, <1>3 DEF Initialize, LockInv
<1>4. ASSUME NEW id, NEW s \in staged, NEW approved \in BOOLEAN, NEW by \in Agent, NEW now \in Time,
             BeginActivate(id, s, approved, by, now)
      PROVE  CommandInv'
    BY <1>1, <1>4, BeginActivateType
<1>5. ASSUME NEW id, NEW ask, FinishReceipt(id, ask) PROVE CommandInv'
    BY <1>1, <1>5 DEF FinishReceipt
<1>6. CASE Unpack \/ CommitReceipt \/ StopCommand
    BY <1>1, <1>6 DEF Unpack, CommitReceipt, StopCommand
<1>7. CASE SaveTrust
    <2>1. command # None /\ IsCommand(command)
        BY <1>7 DEF SaveTrust, None, TypeOK, CallsOK
    <2>2. command'.pc = "commit" /\ command'.target = command.target /\ command'.id = command.id
        BY <1>7, <2>1, CommandGoesOn DEF SaveTrust
    <2>3. UNCHANGED <<installed, config>> /\ Launches(command.target)
        BY <1>7 DEF SaveTrust, VerifyInstalled, Launches
    <2>4. config.signed => \E new \in trust' : new.target = {command.target}
        BY <1>7, SaveTrustKeeps
    <2>5. command.target.version <= command.target.version
        BY <2>1, VersionsAreNumbers DEF IsCommand
    <2>6. Sound(command.target)'
        BY <2>2, <2>3, <2>4, <2>5 DEF Sound, Launches, Covered
    <2> QED
        BY <2>2, <2>6 DEF CommandInv
<1>8. CASE Prepare
    <2>1. command # None /\ IsCommand(command)
        BY <1>8 DEF Prepare, None, TypeOK, CallsOK
    <2>2. command'.pc = "point" /\ command'.target = command.target /\ command'.id = command.id
        BY <1>8, <2>1, CommandGoesOn DEF Prepare
    <2>3. UNCHANGED active
        BY <1>8 DEF Prepare
    <2>4. \A r \in ReceiptsOf(command.id)' :
            /\ r.state = "prepared" /\ active = r.before
            /\ \A a \in r.after : a.current = command.target
        <3> DEFINE new == Receipt(command.id, command.ask, active, Next1(command.target), "prepared")
        <3>1. CASE ReceiptsOf(command.id) # {}
            <4>1. ReceiptsOf(command.id)' = ReceiptsOf(command.id)
                BY <1>8, <2>2, <3>1 DEF Prepare, ReceiptsOf
            <4>2. \A r \in ReceiptsOf(command.id) : r.state = "prepared" /\ active = r.before
                BY <1>8 DEF Prepare, MayGoOn
            <4>3. \A r \in ReceiptsOf(command.id) : \A a \in r.after : a.current = command.target
                BY <1>8, <3>1 DEF Prepare
            <4> QED
                BY <4>1, <4>2, <4>3
        <3>2. CASE ReceiptsOf(command.id) = {}
            <4>1. receipts' = receipts \cup {new}
                BY <1>8, <3>2 DEF Prepare
            <4>2. ReceiptsOf(command.id)' \subseteq {new}
                BY <2>2, <3>2, <4>1 DEF ReceiptsOf
            <4>3. \A a \in Next1(command.target) : a.current = command.target
                BY <2>1, NextPointer DEF TypeOK, IsCommand
            <4>4. /\ new.state = "prepared" /\ new.before = active
                  /\ new.after = Next1(command.target)
                BY DEF Receipt
            <4> QED
                BY <4>2, <4>3, <4>4
        <3> QED
            BY <3>1, <3>2
    <2> QED
        BY <2>2, <2>3, <2>4 DEF CommandInv
<1>9. CASE MovePointer
    <2>1. command # None /\ IsCommand(command)
        BY <1>9 DEF MovePointer, None, TypeOK, CallsOK
    <2>2. command'.pc = "receipt" /\ command'.id = command.id
        BY <1>9, <2>1, CommandGoesOn DEF MovePointer
    <2>3. PICK r \in ReceiptsOf(command.id) : active' = r.after /\ UNCHANGED receipts
        BY <1>9 DEF MovePointer
    <2>4. \A t \in ReceiptsOf(command.id) : t = r
        BY <2>3 DEF ReceiptsOf, ReceiptInv
    <2>5. ReceiptsOf(command.id)' = ReceiptsOf(command.id)
        BY <2>2, <2>3 DEF ReceiptsOf
    <2> QED
        BY <2>2, <2>3, <2>4, <2>5 DEF CommandInv
<1>10. ASSUME NEW id, NEW g, BeginRollback(id, g) PROVE CommandInv'
    <2>1. /\ command'.pc = "commit" /\ command'.id = id
          /\ command'.ask.operation = "rollback"
          /\ IsCommand(command')
          /\ ReceiptsOf(id) = {} => \E a \in active : command'.target \in a.previous
        BY <1>10, BeginRollbackType
    <2>2. UNCHANGED <<receipts, installed, trust>> /\ config'.signed = config.signed
        BY <1>10 DEF BeginRollback, TypeOK, FilesOK
    <2>3. ~Activating' /\ ReceiptsOf(command.id)' = ReceiptsOf(id)
        BY <2>1, <2>2 DEF Activating, ReceiptsOf
    <2>4. ASSUME ReceiptsOf(id) = {} PROVE Sound(command.target)'
        <3>1. PICK a \in active : command'.target \in a.previous
            BY <2>1, <2>4
        <3>2. Sound(command'.target)
            BY <3>1 DEF ReceiptInv, SoundPointers
        <3> QED
            BY <2>2, <3>2 DEF Sound, Launches, Covered
    <2> QED
        BY <2>1, <2>3, <2>4 DEF CommandInv
<1>11. ASSUME NEW enabled \in BOOLEAN, ConfigureAutomatic(enabled) PROVE CommandInv'
    BY <1>1, <1>11 DEF ConfigureAutomatic
<1> QED
    BY <1>2, <1>3, <1>4, <1>5, <1>6, <1>7, <1>8, <1>9, <1>10, <1>11 DEF Steps

LEMMA AgreementNext ==
    TypeOK /\ LockInv /\ ReceiptInv /\ AgreementInv /\ Steps => AgreementInv'
<1> SUFFICES ASSUME TypeOK, LockInv, ReceiptInv, AgreementInv, Steps PROVE AgreementInv'
    OBVIOUS
<1> USE DEF files
<1>1. ASSUME command' = None \/ command'.pc = "receipt" PROVE AgreementInv'
    BY <1>1 DEF AgreementInv
<1>2. ASSUME UNCHANGED <<config, active, command>> PROVE AgreementInv'
    BY <1>2 DEF AgreementInv, Activating, CurrentPackage
<1>3. ASSUME NEW signed \in BOOLEAN, NEW automatic \in BOOLEAN, Initialize(signed, automatic)
      PROVE  AgreementInv'
    BY <1>1, <1>3 DEF Initialize, LockInv
<1>4. ASSUME NEW id, NEW s \in staged, NEW approved \in BOOLEAN, NEW by \in Agent, NEW now \in Time,
             BeginActivate(id, s, approved, by, now)
      PROVE  AgreementInv'
    <2>1. command'.by = by /\ command'.target = s.package
        BY <1>4, BeginActivateType
    <2>2. \A p \in CurrentPackage : p.version <= s.package.version
        BY <1>4 DEF BeginActivate, Replaces
    <2>3. by = "worker" => config.automatic
        BY <1>4 DEF BeginActivate, StillAutomatic
    <2> QED
        BY <1>4, <2>1, <2>2, <2>3 DEF BeginActivate, AgreementInv, CurrentPackage
<1>5. ASSUME NEW id, NEW ask, FinishReceipt(id, ask) PROVE AgreementInv'
    BY <1>2, <1>5 DEF FinishReceipt
<1>6. CASE Unpack \/ CommitReceipt \/ StopCommand
    BY <1>1, <1>2, <1>6 DEF Unpack, CommitReceipt, StopCommand
<1>7. CASE SaveTrust \/ Prepare
    <2>1. command # None /\ IsCommand(command) /\ command.pc # "receipt"
        BY <1>7 DEF SaveTrust, Prepare, None, TypeOK, CallsOK
    <2>2. command'.target = command.target /\ command'.ask = command.ask /\ command'.by = command.by
        BY <1>7, <2>1, CommandGoesOn DEF SaveTrust, Prepare
    <2>3. UNCHANGED <<config, active>>
        BY <1>7 DEF SaveTrust, Prepare
    <2> QED
        BY <2>1, <2>2, <2>3 DEF AgreementInv, Activating, CurrentPackage
<1>8. CASE MovePointer
    <2>1. command # None /\ IsCommand(command)
        BY <1>8 DEF MovePointer, None, TypeOK, CallsOK
    <2> QED
        BY <1>1, <1>8, <2>1, CommandGoesOn DEF MovePointer
<1>9. ASSUME NEW id, NEW g, BeginRollback(id, g) PROVE AgreementInv'
    <2>1. command'.by = "operator" /\ command'.ask.operation = "rollback"
        BY <1>9, BeginRollbackType
    <2> QED
        BY <2>1 DEF AgreementInv, Activating
<1>10. ASSUME NEW enabled \in BOOLEAN, ConfigureAutomatic(enabled) PROVE AgreementInv'
    BY <1>1, <1>10 DEF ConfigureAutomatic
<1> QED
    BY <1>2, <1>3, <1>4, <1>5, <1>6, <1>7, <1>8, <1>9, <1>10 DEF Steps, Quiet, TrustMoves

----------------------------------------------------------------------------
(* One history. *)

\* A finished receipt says where the pointer is or was.
OldOrPresent ==
    \A t \in receipts' : t.state = "committed" =>
        \/ t.after = active
        \/ \E r \in receipts : r.state = "committed" /\ r.after = t.after

\* The pointer's generation is the one that later receipts are compared with.
LEMMA PointerGeneration ==
    ASSUME TypeOK
    PROVE  /\ Generation \in Nat /\ Generation = GenerationOf(active)
           /\ \A a \in active : active = {a} /\ a.generation = Generation
<1>1. active \subseteq Pointers /\ AtMostOne(active)
    BY DEF TypeOK, FilesOK
<1>2. Generation \in Nat /\ Generation = GenerationOf(active)
    BY <1>1, GenerationType DEF Generation, GenerationOf
<1>3. ASSUME NEW a \in active PROVE active = {a} /\ a.generation = Generation
    <2>1. active = {a} /\ a \in Pointers
        BY <1>1, <1>3 DEF AtMostOne
    <2> QED
        BY <1>2, <2>1, GenerationOfOne
<1> QED
    BY <1>2, <1>3

LEMMA HistoryStays ==
    ASSUME TypeOK, HistoryInv, OldOrPresent, UNCHANGED active
    PROVE  HistoryInv'
<1>1. Generation' = Generation /\ Generation \in Nat
    BY PointerGeneration DEF Generation
<1>2. \A a \in active : active = {a} /\ a.generation = Generation
    BY PointerGeneration
<1>3. \A r \in receipts : r.state = "committed" =>
        \A a \in r.after : a.generation <= Generation /\ (a.generation = Generation => active = {a})
    BY DEF HistoryInv
<1>4. \A t \in receipts' : t.state = "committed" =>
        \A a \in t.after : a.generation <= Generation /\ (a.generation = Generation => active = {a})
    BY <1>1, <1>2, <1>3 DEF OldOrPresent
<1>5. ASSUME NEW r \in receipts', NEW t \in receipts', r.state = "committed", t.state = "committed",
             NEW a \in r.after, NEW b \in t.after, a.generation = b.generation
      PROVE  a = b
    <2>1. CASE r.after = active \/ t.after = active
        <3>1. active = {a} \/ active = {b}
            BY <1>2, <2>1
        <3>2. a.generation = Generation /\ b.generation = Generation
            BY <1>2, <1>5, <2>1
        <3>3. active = {a} /\ active = {b}
            BY <1>4, <1>5, <3>2
        <3> QED
            BY <3>3
    <2>2. CASE r.after # active /\ t.after # active
        <3>1. PICK c \in receipts : c.state = "committed" /\ c.after = r.after
            BY <1>5, <2>2 DEF OldOrPresent
        <3>2. PICK d \in receipts : d.state = "committed" /\ d.after = t.after
            BY <1>5, <2>2 DEF OldOrPresent
        <3> QED
            BY <1>5, <3>1, <3>2 DEF HistoryInv, OneHistory
    <2> QED
        BY <2>1, <2>2
<1>6. OneHistory'
    BY <1>5 DEF OneHistory
<1> QED
    BY <1>1, <1>4, <1>6 DEF HistoryInv

LEMMA HistoryNext ==
    TypeOK /\ TypeOK' /\ LockInv /\ ReceiptInv /\ CommandInv /\ HistoryInv /\ Steps => HistoryInv'
<1> SUFFICES ASSUME TypeOK, TypeOK', LockInv, ReceiptInv, CommandInv, HistoryInv, Steps
             PROVE  HistoryInv'
    OBVIOUS
<1>1. CASE UNCHANGED <<active, receipts>>
    <2>1. OldOrPresent
        BY <1>1 DEF OldOrPresent
    <2> QED
        BY <1>1, <2>1, HistoryStays
<1>2. ASSUME NEW id, NEW ask, FinishReceipt(id, ask) PROVE HistoryInv'
    <2>1. PICK r \in receipts :
            active = r.after /\ receipts' = (receipts \ {r}) \cup {[r EXCEPT !.state = "committed"]}
        BY <1>2 DEF FinishReceipt, ReceiptsOf
    <2> DEFINE new == [r EXCEPT !.state = "committed"]
    <2>2. new.after = active
        BY <2>1, FinishedReceipt DEF TypeOK, FilesOK
    <2>3. receipts' = (receipts \ {r}) \cup {new}
        BY <2>1
    <2> HIDE DEF new
    <2>4. OldOrPresent
        BY <2>2, <2>3 DEF OldOrPresent
    <2> QED
        BY <1>2, <2>4, HistoryStays DEF FinishReceipt
<1>3. CASE Prepare
    <2>1. \A t \in receipts' : t.state = "committed" => t \in receipts
        BY <1>3 DEF Prepare, Receipt
    <2> QED
        BY <1>3, <2>1, HistoryStays DEF Prepare, OldOrPresent
<1>4. CASE CommitReceipt
    <2> DEFINE Done(r) == IF r.id = command.id THEN [r EXCEPT !.state = "committed"] ELSE r
    <2>1. receipts' = {Done(r) : r \in receipts} /\ UNCHANGED active
        BY <1>4 DEF CommitReceipt
    <2>2. \A r \in receipts : r.id = command.id => active = r.after
        BY <1>4 DEF CommitReceipt, CommandInv, ReceiptsOf, None
    <2>3. \A r \in receipts : Done(r).after = r.after /\ (r.id # command.id => Done(r) = r)
        BY FinishedReceipt DEF TypeOK, FilesOK
    <2> HIDE DEF Done
    <2>4. OldOrPresent
        BY <2>1, <2>2, <2>3 DEF OldOrPresent
    <2> QED
        BY <2>1, <2>4, HistoryStays
<1>5. CASE MovePointer
    <2>1. command # None /\ command.pc = "point" /\ UNCHANGED receipts
        BY <1>5 DEF MovePointer, None
    <2>2. PICK r \in ReceiptsOf(command.id) : active' = r.after
        BY <1>5 DEF MovePointer
    <2>3. r \in receipts /\ active = r.before
        BY <2>1, <2>2 DEF CommandInv, ReceiptsOf
    <2>4. CASE r.after = r.before
        BY <1>1, <2>1, <2>2, <2>3, <2>4
    <2>5. CASE r.after # r.before
        <3>1. PICK a \in r.after : r.after = {a} /\ a.generation = GenerationOf(active) + 1
            BY <2>3, <2>5 DEF ReceiptInv
        <3>2. Generation \in Nat /\ Generation = GenerationOf(active) /\ Generation' = Generation + 1
            <4>1. active' = {a} /\ a \in Pointers
                BY <2>2, <2>3, <3>1 DEF TypeOK, FilesOK, IsReceipt
            <4>2. a.generation = Generation'
                BY <4>1, GenerationOfOne DEF Generation, GenerationOf
            <4> QED
                BY <3>1, <4>2, PointerGeneration
        <3>3. \A t \in receipts' : t.state = "committed" =>
                \A b \in t.after : b.generation <= Generation /\ b.generation \in Nat
            BY <2>1 DEF HistoryInv, TypeOK, FilesOK, IsReceipt, Pointers
        <3>4. \A t \in receipts' : t.state = "committed" =>
                \A b \in t.after : b.generation <= Generation' /\ b.generation # Generation'
            BY <3>2, <3>3
        <3>5. OneHistory'
            BY <2>1 DEF HistoryInv, OneHistory
        <3> QED
            BY <3>4, <3>5 DEF HistoryInv
    <2> QED
        BY <2>4, <2>5
<1> QED
    BY <1>1, <1>2, <1>3, <1>4, <1>5
    DEF Steps, Quiet, TrustMoves, Initialize, BeginActivate, Unpack, SaveTrust, StopCommand,
        BeginRollback, ConfigureAutomatic, files

----------------------------------------------------------------------------
(* The invariant and what it implies. *)

LEMMA InstallInvariant == InstallSpec => []IInv
<1>1. InstallInit => IInv
    BY TypeInit
    DEF InstallInit, IInv, LockInv, StoreInv, ReceiptInv, CommandInv, AgreementInv, HistoryInv,
        OneHistory, SoundPointers, Activating, ReceiptsOf
<1>2. IInv /\ [InstallNext]_installVars => IInv'
    <2> SUFFICES ASSUME IInv, [InstallNext]_installVars PROVE IInv'
        OBVIOUS
    <2>1. TypeOK'
        BY FilesNext, CallsNext DEF IInv, TypeOK
    <2>2. Steps
        BY StepKinds DEF IInv
    <2> QED
        BY <2>1, <2>2, LockNext, StoreNext, ReceiptNext, CommandNext, AgreementNext, HistoryNext DEF IInv
<1> QED
    BY <1>1, <1>2, PTL DEF InstallSpec

\* Every file of the installation and the trust store, and every command in
\* progress, has the form the code parses it as.
THEOREM InstallTypes == InstallSpec => []TypeOK
<1>1. IInv => TypeOK
    BY DEF IInv
<1> QED
    BY <1>1, InstallInvariant, PTL

\* Wherever an activation or a rollback is cut short, the pointer names
\* packages that are completely on disk, the present and the previous one, and
\* the floors cover what runs (activate, rollback, _commit_activation).
THEOREM PointerAlwaysSound == InstallSpec => []PointerIsSound
<1>1. IInv => PointerIsSound
    <2> SUFFICES ASSUME IInv PROVE PointerIsSound
        OBVIOUS
    <2>1. \A a \in active : \A p \in {a.current} \cup a.previous : Sound(p)
        BY DEF IInv, ReceiptInv, SoundPointers
    <2>2. PointerIsRunnable
        BY <2>1 DEF Sound, PointerIsRunnable
    <2>3. FloorsCoverActive
        BY <2>1 DEF Sound, Covered, FloorsCoverActive, CurrentPackage
    <2> QED
        BY <2>2, <2>3 DEF PointerIsSound
<1> QED
    BY <1>1, InstallInvariant, PTL

\* No generation is given to two pointers, whichever prepared requests were
\* interrupted and taken up again (_commit_activation, _committed_replay).
THEOREM GenerationsAreOneHistory == InstallSpec => []OneHistory
<1>1. IInv => OneHistory
    BY DEF IInv, HistoryInv
<1> QED
    BY <1>1, InstallInvariant, PTL

\* The saved floors are of one release of the metadata (verify_update_chain).
THEOREM TrustOfOneRelease == InstallSpec => []TrustIsOneRelease
<1>1. IInv => TrustIsOneRelease
    BY DEF IInv, TypeOK, FilesOK, IsStore, OneRelease, TrustIsOneRelease
<1> QED
    BY <1>1, InstallInvariant, PTL

\* Whoever saves the trust store, a stage command, an activation or the
\* worker, it never moves back (_stage, activate).
THEOREM TrustMovesOn == InstallSpec => FloorsNeverDrop
<1> DEFINE Step == \A old \in trust : \A new \in trust' : Advances(old, new)
<1>1. IInv /\ [InstallNext]_installVars => Step
    <2> SUFFICES ASSUME IInv, [InstallNext]_installVars PROVE Step
        OBVIOUS
    <2>1. Steps /\ TypeOK /\ StoreInv
        BY StepKinds DEF IInv
    <2>2. \A old, new \in trust : old = new
        BY <2>1 DEF TypeOK, FilesOK, AtMostOne
    <2>3. \A old \in trust : Advances(old, old)
        <3> SUFFICES ASSUME NEW old \in trust PROVE Advances(old, old)
            OBVIOUS
        <3>1. IsStore(old)
            BY <2>1 DEF TypeOK, FilesOK
        <3>2. old.root.version <= old.root.version /\ old.verified <= old.verified
            BY <3>1 DEF IsStore
        <3>3. \A p \in old.target : p.version <= p.version
            <4>1. old.target \subseteq Package
                BY <3>1 DEF IsStore
            <4>2. \A p \in Package : p.version <= p.version
                BY VersionsAreNumbers
            <4> QED
                BY <4>1, <4>2
        <3> QED
            BY <3>1, <3>2, <3>3 DEF Advances, IsStore, AtMostOne
    <2>4. CASE UNCHANGED trust
        BY <2>2, <2>3, <2>4
    <2>5. CASE TrustMoves
        BY <2>5 DEF TrustMoves
    <2>6. CASE SaveTrust
        BY <2>1, <2>3, <2>6, SaveTrustKeeps
    <2> QED
        BY <2>1, <2>4, <2>5, <2>6
        DEF Steps, Quiet, Initialize, BeginActivate, FinishReceipt, Unpack, Prepare, MovePointer,
            CommitReceipt, StopCommand, BeginRollback, ConfigureAutomatic, files
<1>2. Step => [\A old \in trust : \A new \in trust' :
        /\ old.root.version <= new.root.version
        /\ \A role \in Tracked : \A f \in old.floors[role] : \A g \in new.floors[role] :
            f.version < g.version \/ f = g
        /\ \A p \in old.target : \A q \in new.target : p.version <= q.version
        /\ old.verified <= new.verified]_installVars
    BY DEF Advances
<1> QED
    BY <1>1, <1>2, InstallInvariant, PTL DEF InstallSpec, FloorsNeverDrop

\* Only a rollback the operator asked for lowers what runs, and no automatic
\* update lands after they were switched off (activate, apply_latest).
THEOREM AgreedToAlways == InstallSpec => ActiveIsAgreedTo
<1> DEFINE Step ==
        /\ \A p \in CurrentPackage : \A q \in CurrentPackage' :
            q.version < p.version => command.ask.operation = "rollback"
        /\ active' # active /\ command.by = "worker" => config.automatic
<1>1. IInv /\ [InstallNext]_installVars => Step
    <2> SUFFICES ASSUME IInv, [InstallNext]_installVars PROVE Step
        OBVIOUS
    <2>1. Steps /\ TypeOK
        BY StepKinds DEF IInv
    <2>2. CurrentPackage \subseteq Package /\ \A p, q \in CurrentPackage : p = q
        BY <2>1 DEF TypeOK, FilesOK, CurrentPackage, Pointers, AtMostOne
    <2>3. CASE UNCHANGED active
        <3>1. CurrentPackage' = CurrentPackage
            BY <2>3 DEF CurrentPackage
        <3>2. \A p \in CurrentPackage : ~(p.version < p.version)
            BY <2>2, VersionsAreNumbers
        <3> QED
            BY <2>2, <2>3, <3>1, <3>2
    <2>4. CASE MovePointer
        <3>1. command # None /\ command.pc = "point" /\ IsCommand(command)
            BY <2>1, <2>4 DEF MovePointer, None, TypeOK, CallsOK
        <3>2. PICK r \in ReceiptsOf(command.id) : active' = r.after
            BY <2>4 DEF MovePointer
        <3>3. \A q \in CurrentPackage' : q = command.target
            BY <3>1, <3>2 DEF IInv, CommandInv, CurrentPackage
        <3>4. command.by = "worker" => config.automatic
            BY <3>1 DEF IInv, AgreementInv
        <3>5. command.ask.operation # "rollback" =>
                \A p \in CurrentPackage : p.version <= command.target.version
            BY <3>1 DEF IInv, AgreementInv, Activating, IsCommand, Operation
        <3>6. command.target \in Package
            BY <3>1 DEF IsCommand
        <3>7. \A p, q \in Package : p.version <= q.version => ~(q.version < p.version)
            BY VersionsAreNumbers
        <3> QED
            BY <2>2, <3>3, <3>4, <3>5, <3>6, <3>7
    <2> QED
        BY <2>1, <2>3, <2>4
        DEF Steps, Quiet, TrustMoves, Initialize, BeginActivate, FinishReceipt, Unpack, SaveTrust,
            Prepare, CommitReceipt, StopCommand, BeginRollback, ConfigureAutomatic, files
<1> QED
    BY <1>1, InstallInvariant, PTL DEF InstallSpec, ActiveIsAgreedTo

----------------------------------------------------------------------------
(* What is trusted was signed. *)

\* Sets of natural numbers that begin at 0 and lack no successor.
LEMMA InductiveSet ==
    ASSUME NEW S, 0 \in S, \A n \in Nat : n \in S => n + 1 \in S
    PROVE  Nat \subseteq S
<1> SUFFICES ASSUME Nat \ S # {} PROVE FALSE
    OBVIOUS
<1> DEFINE Less == {p \in Nat \X Nat : p[1] < p[2]}
<1>1. IsWellFoundedOn(Less, Nat)
    BY NatLessThanWellFounded DEF OpToRel
<1> HIDE DEF Less
<1>2. PICK m \in Nat \ S : \A n \in Nat \ S : <<n, m>> \notin Less
    BY <1>1, WFMin
<1>3. m # 0 /\ m - 1 \in Nat
    BY <1>2
<1>4. <<m - 1, m>> \in Less
    BY <1>3 DEF Less
<1>5. m - 1 \in S
    BY <1>2, <1>3, <1>4
<1> QED
    BY <1>3, <1>5

\* What a genuine root signs and what signs itself is genuine.
LEMMA GenuineGoesOn ==
    ASSUME NEW root \in GenuineRoots, NEW next \in RootFile, Succeeds(root, next)
    PROVE  next \in GenuineRoots
BY DEF GenuineRoots

LEMMA RotationSucceeds ==
    ASSUME NEW root, NEW next, NEW now, RotatesTo(root, next, now)
    PROVE  Succeeds(root, next)
BY DEF RotatesTo, SignedBy, Succeeds

\* A directory of a server leads from a genuine root only to a genuine one.
LEMMA RotationsAreGenuine ==
    ASSUME NEW dir \in Dir, NEW root \in GenuineRoots, NEW now,
           NEW new \in RootAfter(dir, root, now)
    PROVE  new \in GenuineRoots
<1> DEFINE InForce(i) == IF i = 0 THEN {root} ELSE RootNamed(dir, root.version + i)
           Followed(n) == \A i \in 1 .. n : /\ InForce(i) # {}
                                            /\ \A a \in InForce(i - 1), b \in InForce(i) : RotatesTo(a, b, now)
<1>1. PICK n \in 0 .. MaxRotations : Followed(n) /\ new \in InForce(n)
    BY DEF RootAfter
<1>2. n \in Nat
    BY RotationsAssumption
<1>3. \A i : i # 0 => InForce(i) \subseteq RootFile
    BY DEF RootNamed, RootFile, Dir
<1>4. \A i \in 0 .. n : InForce(i) # {}
    BY <1>1, <1>2
<1>5. \A i \in 1 .. n : \A a \in InForce(i - 1), b \in InForce(i) : Succeeds(a, b)
    BY <1>1, RotationSucceeds
<1>6. InForce(0) = {root}
    OBVIOUS
<1> HIDE DEF InForce
<1> DEFINE Good == {i \in Nat : i <= n => InForce(i) \subseteq GenuineRoots}
<1>7. 0 \in Good
    BY <1>6
<1>8. ASSUME NEW i \in Nat, i \in Good PROVE i + 1 \in Good
    <2> SUFFICES ASSUME i + 1 <= n, NEW b \in InForce(i + 1) PROVE b \in GenuineRoots
        OBVIOUS
    <2>1. i \in 0 .. n /\ i + 1 \in 1 .. n /\ i + 1 # 0 /\ (i + 1) - 1 = i
        BY <1>2
    <2>2. PICK a \in InForce(i) : TRUE
        BY <1>4, <2>1
    <2>3. a \in GenuineRoots
        BY <1>8, <2>1, <2>2
    <2>4. Succeeds(a, b)
        BY <1>5, <2>1, <2>2
    <2>5. b \in RootFile
        BY <1>3, <2>1
    <2> QED
        BY <2>3, <2>4, <2>5, GenuineGoesOn
<1> HIDE DEF Good
<1>9. Nat \subseteq Good
    BY <1>7, <1>8, InductiveSet
<1> QED
    BY <1>1, <1>2, <1>9 DEF Good

\* What a trust store holds besides its versions.
SignedStore(store) ==
    /\ store.root \in GenuineRoots
    /\ \A role \in Tracked : \A f \in store.floors[role] :
        Cardinality(f.sigs \cap store.root.keys[role]) >= store.root.threshold[role]

\* A verification against a signed store hands back a signed one.
LEMMA VerifiedIsSigned ==
    ASSUME NEW dir \in Dir, NEW store, SignedStore(store), NEW package, NEW now,
           NEW new \in VerifiedStores(dir, store, package, now)
    PROVE  SignedStore(new)
<1>1. PICK root \in VerifiedRoots(dir, store, package, now) :
        new = Store(root, [role \in Tracked |-> {Floor(dir, role)}], {package},
                    IF now < store.verified THEN store.verified ELSE now)
    BY DEF VerifiedStores
<1>2. new.root = root /\ new.floors = [role \in Tracked |-> {Floor(dir, role)}]
    BY <1>1 DEF Store
<1>3. root \in GenuineRoots
    BY <1>1, RotationsAreGenuine DEF VerifiedRoots, SignedStore
<1>4. \A role \in Tracked : SignedBy(Floor(dir, role), root, role)
    BY <1>1 DEF VerifiedRoots
<1> QED
    BY <1>2, <1>3, <1>4 DEF SignedStore, SignedBy

LEMMA PinnedIsSigned ==
    ASSUME NEW root \in Pinned
    PROVE  SignedStore(PinnedStore(root))
<1>1. root \in GenuineRoots
    BY DEF GenuineRoots, RootFile
<1> QED
    BY <1>1 DEF SignedStore, PinnedStore, Store, NoFloors

\* The store in place is signed, and so is the one an activation will save.
SignedInv ==
    /\ \A store \in trust : SignedStore(store)
    /\ command # None /\ command.pc = "unpack" /\ config.signed => SignedStore(command.store)

LEMMA SignedNext ==
    ASSUME IInv, SignedInv, [InstallNext]_installVars
    PROVE  SignedInv'
<1> USE DEF files
<1>1. TypeOK /\ LockInv
    BY DEF IInv
<1>2. CASE UNCHANGED <<trust, config, command>>
    BY <1>2 DEF SignedInv
<1>3. ASSUME NEW root \in Pinned, NEW now, ConfigureTrust(root, now) PROVE SignedInv'
    BY <1>3, PinnedIsSigned DEF ConfigureTrust, SignedInv
<1>4. ASSUME NEW now, SaveFloors(now) PROVE SignedInv'
    <2>1. PICK store \in trust : \E next \in VerifiedStores(stager.dir, store, stager.package, now) :
            trust' = {next}
        BY <1>4 DEF SaveFloors
    <2>2. PICK next \in VerifiedStores(stager.dir, store, stager.package, now) : trust' = {next}
        BY <2>1
    <2>3. stager.dir \in Dir
        BY <1>1, <1>4 DEF SaveFloors, TypeOK, CallsOK, Stagers
    <2>4. SignedStore(next)
        BY <2>2, <2>3, VerifiedIsSigned DEF SignedInv
    <2> QED
        BY <1>4, <2>2, <2>4 DEF SaveFloors, SignedInv
<1>5. ASSUME NEW signed, NEW automatic, Initialize(signed, automatic) PROVE SignedInv'
    BY <1>1, <1>5 DEF Initialize, LockInv, SignedInv
<1>6. ASSUME NEW id, NEW s \in staged, NEW approved \in BOOLEAN, NEW by \in Agent, NEW now \in Time,
             BeginActivate(id, s, approved, by, now)
      PROVE  SignedInv'
    <2>1. UNCHANGED <<trust, config>> /\ command'.store \in StoresAfter(s, now)
        BY <1>1, <1>6, BeginActivateType DEF BeginActivate
    <2>2. ASSUME config.signed PROVE SignedStore(command'.store)
        <3>1. PICK dir \in s.metadata, store \in trust :
                command'.store \in VerifiedStores(dir, store, s.package, now)
            BY <2>1, <2>2 DEF StoresAfter
        <3>2. dir \in Dir
            BY <1>1 DEF TypeOK, FilesOK
        <3> QED
            BY <3>1, <3>2, VerifiedIsSigned DEF SignedInv
    <2> QED
        BY <2>1, <2>2 DEF SignedInv
<1>7. CASE SaveTrust
    <2>1. command # None /\ IsCommand(command)
        BY <1>1, <1>7 DEF SaveTrust, None, TypeOK, CallsOK
    <2>2. command'.pc = "commit"
        BY <1>7, <2>1, CommandGoesOn DEF SaveTrust
    <2>3. trust' = trust \/ (config.signed /\ trust' = {command.store})
        BY <1>7 DEF SaveTrust
    <2> QED
        BY <1>7, <2>1, <2>2, <2>3 DEF SaveTrust, SignedInv
<1>8. CASE Prepare \/ MovePointer
    <2>1. command # None /\ IsCommand(command)
        BY <1>1, <1>8 DEF Prepare, MovePointer, None, TypeOK, CallsOK
    <2>2. command'.pc # "unpack"
        BY <1>8, <2>1, CommandGoesOn DEF Prepare, MovePointer
    <2> QED
        BY <1>8, <2>2 DEF Prepare, MovePointer, SignedInv
<1>9. CASE CommitReceipt \/ StopCommand
    BY <1>9 DEF CommitReceipt, StopCommand, SignedInv
<1>10. ASSUME NEW id, NEW g, BeginRollback(id, g) PROVE SignedInv'
    <2>1. command'.pc # "unpack"
        BY <1>10 DEF BeginRollback
    <2> QED
        BY <1>10, <2>1 DEF BeginRollback, SignedInv
<1>11. ASSUME NEW enabled, ConfigureAutomatic(enabled) PROVE SignedInv'
    BY <1>11 DEF ConfigureAutomatic, SignedInv
<1>12. ASSUME NEW id, NEW ask, FinishReceipt(id, ask) PROVE SignedInv'
    BY <1>2, <1>12 DEF FinishReceipt
<1>13. CASE \E offer \in Offered : Download(offer, "operator") \/ WorkerStages(offer)
    BY <1>2, <1>13 DEF Download, WorkerStages
<1>14. CASE \/ StopStaging \/ WorkerStarts \/ WorkerChecksAgain \/ WorkerGivesUp \/ Unpack
            \/ \E s \in staged : Discard(s)
            \/ \E package \in Package : StageUnsigned(package) \/ WorkerChooses(package)
            \/ UNCHANGED installVars
    BY <1>2, <1>14 DEF StopStaging, WorkerStarts, WorkerChecksAgain, WorkerGivesUp, Discard, Unpack,
                       StageUnsigned, WorkerChooses, installVars
<1>15. CASE \E now \in Time : WorkerActivates(now)
    BY <1>6, <1>15 DEF WorkerActivates, Agent
<1> QED
    BY <1>3, <1>4, <1>5, <1>6, <1>7, <1>8, <1>9, <1>10, <1>11, <1>12, <1>13, <1>14, <1>15
    DEF InstallNext, Agent

\* From whatever a server hands out, and whoever saves the trust store, the
\* root in force is one that signatures lead to from a pinned root, and what
\* is trusted carries as many signatures as that root asks for
\* (_apply_root_rotations, verify_update_chain).
THEOREM TrustAlwaysSigned == InstallSpec => []TrustIsSigned
<1>1. InstallInit => SignedInv
    BY DEF InstallInit, SignedInv
<1>2. IInv /\ SignedInv /\ [InstallNext]_installVars => SignedInv'
    BY SignedNext
<1>3. IInv /\ SignedInv => TrustIsSigned
    BY DEF IInv, TypeOK, FilesOK, IsStore, OneRelease, TrustIsOneRelease, SignedInv, SignedStore,
           TrustIsSigned
<1> QED
    BY <1>1, <1>2, <1>3, InstallInvariant, PTL DEF InstallSpec
=============================================================================
