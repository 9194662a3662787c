----------------------------- MODULE SyncProofs -----------------------------
(***************************************************************************)
(* Proofs about SyncWorker, for any number of clients and workers, any     *)
(* delivery log and any number of publications in a window, with and       *)
(* without a remote.  The argument: whoever works on the window has        *)
(* worker.lock alone (LockInv), so that between the publication of a batch *)
(* and the save of its upload's receipt nobody publishes another           *)
(* (RemoteInv); and a window that could mark its generation as completed   *)
(* has left nothing that was announced before it began (WindowInv), because*)
(* a later announcement replaces the generation.                           *)
(***************************************************************************)
EXTENDS SyncWorker, FiniteSetTheorems, TLAPS

Shape(w) ==
    /\ worker[w] = [pc |-> worker[w].pc, kind |-> worker[w].kind, current |-> worker[w].current,
                    round |-> worker[w].round, more |-> worker[w].more, blocked |-> worker[w].blocked]
    /\ worker[w].current \in BOOLEAN /\ worker[w].round \in 0 .. MaximumBatches

SyncTypes ==
    /\ length \in Nat /\ quiet \cup forwarded \subseteq 1 .. length
    /\ published \in [after : Nat, cursor : Nat] /\ sent \in Nat
    /\ remote \subseteq [after : Nat, cursor : Nat]
    /\ trigger \in BOOLEAN /\ completed \in BOOLEAN /\ backoff \in BOOLEAN /\ reserved \in BOOLEAN
    /\ locks \in [{"worker", "launch", "trigger"} -> SUBSET (Client \cup Worker)]
    /\ client \in [Client -> {"idle", "notify", "queue", "spawn", "probing", "launch"}]
    /\ DOMAIN worker = Worker
    /\ \A w \in Worker : Shape(w)

\* One process at most has a lock; a window and a probe have worker.lock.
InWindow == {"locked", "enqueue", "begin", "push", "receipt", "peers"}

LockInv ==
    /\ \A l \in {"worker", "launch", "trigger"} : \A p, q \in locks[l] : p = q
    /\ \A w \in Worker : worker[w].pc \in InWindow => w \in locks["worker"]
    /\ \A c \in Client : client[c] = "probing" => c \in locks["worker"]

\* What has been uploaded is in the remote before its receipt is saved.
RemoteInv ==
    /\ published.after <= published.cursor
    /\ RemoteIsPrefix
    /\ \A w \in Worker : worker[w].pc = "receipt" => Cloud /\ published \in remote

\* A window that would complete the present generation has delivered all that
\* was announced when it began.
Finishing(w) ==
    worker[w].pc = "peers" /\ worker[w].current /\ LeftNothing(w) /\ ~worker[w].blocked

WindowInv ==
    /\ \A w \in Worker : ~worker[w].more => worker[w].round < MaximumBatches
    /\ \A w \in Worker : Finishing(w) => Waiting \subseteq quiet \cup forwarded
    /\ AnnouncedStaysPending

SyncInv == SyncTypes /\ LockInv /\ RemoteInv /\ WindowInv

----------------------------------------------------------------------------
(* How a step changes the processes *)

\* A process that moves leaves the others where they are.
OnlyMoves(w) == DOMAIN worker' = Worker /\ \A v \in Worker : v # w => worker'[v] = worker[v]

LEMMA Moved ==
    ASSUME SyncTypes, NEW w \in Worker, OnlyMoves(w), Shape(w)'
    PROVE  \A v \in Worker : Shape(v)'
BY DEF SyncTypes, Shape, OnlyMoves

LEMMA SyncInitially == Init => SyncInv
<1> SUFFICES ASSUME Init PROVE SyncInv
    OBVIOUS
<1> USE DEF Init, NoRun
<1>1. SyncTypes
    <2>1. ASSUME NEW w \in Worker PROVE Shape(w)
        <3>1. worker[w] = [pc |-> "idle", kind |-> "none", current |-> FALSE,
                           round |-> 0, more |-> FALSE, blocked |-> FALSE]
            BY <2>1
        <3>2. worker[w].current = FALSE /\ worker[w].round = 0 /\ 0 \in 0 .. MaximumBatches
            BY <3>1, WindowAssumption
        <3> QED
            BY <3>1, <3>2 DEF Shape
    <2> QED
        BY <2>1 DEF SyncTypes
<1>2. LockInv
    BY DEF LockInv, InWindow
<1>3. RemoteInv
    BY DEF RemoteInv, RemoteIsPrefix
<1>4. Waiting = {}
    BY DEF Waiting, Delivered
<1>5. WindowInv
    BY <1>4, WindowAssumption DEF WindowInv, Finishing, AnnouncedStaysPending
<1> QED
    BY <1>1, <1>2, <1>3, <1>5 DEF SyncInv

\* Only the positions not yet delivered matter, and delivery never goes back: an
\* announcement that is accounted for remains so until a new one is made.
LEMMA WindowKept ==
    ASSUME SyncTypes, SyncTypes', WindowInv,
           quiet \subseteq quiet', forwarded \subseteq forwarded',
           length' = length \/ (length' = length + 1 /\ length' \in quiet' \cup forwarded'),
           Delivered' >= Delivered,
           Pending' \/ ~Pending \/ Waiting \subseteq quiet \cup forwarded,
           \A v \in Worker :
              \/ worker'[v] = worker[v]
              \/ /\ ~worker'[v].more => worker'[v].round < MaximumBatches
                 /\ Finishing(v)' => Waiting \subseteq quiet \cup forwarded
    PROVE  WindowInv'
<1>1. Delivered \in Nat /\ Delivered' \in Nat /\ length \in Nat /\ length' \in Nat
    BY DEF SyncTypes, Delivered
<1>2. ASSUME Waiting \subseteq quiet \cup forwarded PROVE Waiting' \subseteq quiet' \cup forwarded'
    <2>1. \A i : i \in Waiting <=> i \in Nat /\ Delivered < i /\ i <= length
        BY <1>1 DEF Waiting
    <2>2. \A i : i \in Waiting' <=> i \in Nat /\ Delivered' < i /\ i <= length'
        BY <1>1 DEF Waiting
    <2>3. ASSUME NEW i \in Waiting' PROVE i \in Waiting \/ (i = length' /\ length' # length)
        BY <1>1, <2>1, <2>2
    <2> QED
        BY <1>2, <2>3
<1>3. \A v \in Worker : Finishing(v)' => Waiting \subseteq quiet \cup forwarded
    BY DEF WindowInv, Finishing, LeftNothing
<1>4. \A v \in Worker : ~worker'[v].more => worker'[v].round < MaximumBatches
    BY DEF WindowInv
<1>5. AnnouncedStaysPending'
    BY <1>2 DEF WindowInv, AnnouncedStaysPending
<1> QED
    BY <1>2, <1>3, <1>4, <1>5 DEF WindowInv

LEMMA RemoteKept ==
    ASSUME RemoteInv, UNCHANGED <<published, sent, remote>>,
           \A v \in Worker : worker'[v] = worker[v] \/ worker'[v].pc # "receipt"
    PROVE  RemoteInv' /\ Delivered' = Delivered
BY DEF RemoteInv, RemoteIsPrefix, Delivered

----------------------------------------------------------------------------
(* Clients *)

LEMMA ClientKeeps ==
    ASSUME SyncInv, NEW c \in Client, ClientStep(c)
    PROVE  SyncInv'
<1> USE DEF lengthVars, streamVars, controlVars
<1>0. SyncTypes /\ LockInv /\ RemoteInv /\ WindowInv /\ c \notin Worker
    BY ProcessAssumption DEF SyncInv
<1>a. ASSUME UNCHANGED <<published, sent, remote, trigger, completed, worker>>,
             SyncTypes', LockInv', quiet \subseteq quiet', forwarded \subseteq forwarded',
             length' = length \/ (length' = length + 1 /\ length' \in quiet' \cup forwarded')
      PROVE  SyncInv'
    <2>1. Pending' = Pending
        BY <1>a DEF Pending
    <2>2. RemoteInv' /\ Delivered' = Delivered /\ Delivered \in Nat
        BY <1>0, <1>a, RemoteKept DEF Delivered, SyncTypes
    <2>3. Delivered' >= Delivered
        BY <2>2
    <2>4. WindowInv'
        BY <1>0, <1>a, <2>1, <2>3, WindowKept
    <2> QED
        BY <1>a, <2>2, <2>4 DEF SyncInv
<1>b. ASSUME UNCHANGED <<client, worker, locks>> PROVE LockInv'
    BY <1>0, <1>b DEF LockInv
<1>1. CASE LocalWrite(c)
    <2>1. SyncTypes'
        BY <1>0, <1>1 DEF LocalWrite, SyncTypes, Shape
    <2>2. LockInv'
        BY <1>0, <1>1 DEF LocalWrite, LockInv, SyncTypes
    <2> QED
        BY <1>1, <1>a, <2>1, <2>2 DEF LocalWrite
<1>2. CASE OtherEvent(c)
    <2>1. SyncTypes'
        BY <1>0, <1>2 DEF OtherEvent, SyncTypes, Shape
    <2>2. LockInv'
        BY <1>0, <1>2 DEF OtherEvent, LockInv, SyncTypes
    <2> QED
        BY <1>2, <1>a, <2>1, <2>2 DEF OtherEvent
<1>3. CASE BeginEnqueue(c)
    <2>1. SyncTypes'
        BY <1>0, <1>3 DEF BeginEnqueue, Take, SyncTypes, Shape
    <2>2. LockInv'
        BY <1>0, <1>3 DEF BeginEnqueue, Free, Take, LockInv, SyncTypes
    <2> QED
        BY <1>3, <1>a, <2>1, <2>2 DEF BeginEnqueue
<1>4. CASE Probe(c)
    <2>1. SyncTypes'
        BY <1>0, <1>4 DEF Probe, SyncTypes, Shape
    <2>2. LockInv'
        BY <1>0, <1>4 DEF Probe, Free, LockInv, SyncTypes
    <2> QED
        BY <1>4, <1>a, <2>1, <2>2 DEF Probe
<1>5. CASE EndProbe(c)
    <2>1. SyncTypes'
        BY <1>0, <1>5 DEF EndProbe, LetGo, SyncTypes, Shape
    <2>2. locks["worker"] = {c}
        BY <1>0, <1>5 DEF EndProbe, LockInv
    <2>3. LockInv'
        BY <1>0, <1>5, <2>2 DEF EndProbe, LetGo, LockInv, SyncTypes
    <2> QED
        BY <1>5, <1>a, <2>1, <2>3 DEF EndProbe
<1>6. CASE GiveUp(c)
    <2>1. SyncTypes'
        BY <1>0, <1>6 DEF GiveUp, LetGoAll, SyncTypes, Shape
    <2>2. LockInv'
        BY <1>0, <1>6 DEF GiveUp, LetGoAll, LockInv, SyncTypes
    <2> QED
        BY <1>6, <1>a, <2>1, <2>2 DEF GiveUp
<1>7. CASE Launch(c)
    <2>1. PICK w \in Worker :
            /\ worker[w].pc = "idle"
            /\ worker' = [worker EXCEPT ![w] = [NoRun EXCEPT !.pc = "starting", !.kind = "background"]]
        BY <1>7 DEF Launch
    <2>a. worker'[w] = [pc |-> "starting", kind |-> "background", current |-> FALSE,
                        round |-> 0, more |-> FALSE, blocked |-> FALSE]
        BY <1>0, <2>1 DEF SyncTypes, NoRun
    <2>2. /\ DOMAIN worker' = Worker /\ \A v \in Worker : Shape(v)'
          /\ worker'[w].pc = "starting" /\ worker'[w].round = 0
          /\ \A v \in Worker : v # w => worker'[v] = worker[v]
        <3>1. worker'[w].current = FALSE /\ worker'[w].round = 0 /\ 0 \in 0 .. MaximumBatches
            BY <2>a, WindowAssumption
        <3>2. Shape(w)'
            BY <2>a, <3>1 DEF Shape
        <3>3. worker'[w].pc = "starting"
            BY <2>a
        <3>4. OnlyMoves(w)
            BY <1>0, <2>1 DEF OnlyMoves, SyncTypes
        <3> QED
            BY <1>0, <3>1, <3>2, <3>3, <3>4, Moved DEF OnlyMoves
    <2>3. SyncTypes'
        BY <1>0, <1>7, <2>2 DEF Launch, LetGo, SyncTypes
    <2>4. LockInv'
        BY <1>0, <1>7, <2>2 DEF Launch, LetGo, LockInv, SyncTypes, InWindow
    <2>5. Pending' = Pending
        BY <1>7 DEF Launch, Pending
    <2>6. RemoteInv' /\ WindowInv'
        <3>1. RemoteInv' /\ Delivered' = Delivered /\ Delivered \in Nat
            BY <1>0, <1>7, <2>2, RemoteKept DEF Launch, Delivered, SyncTypes
        <3>2. \A v \in Worker :
                \/ worker'[v] = worker[v]
                \/ (~worker'[v].more => worker'[v].round < MaximumBatches) /\ ~Finishing(v)'
            BY <2>2, WindowAssumption DEF Finishing
        <3>3. Delivered' >= Delivered
            BY <3>1
        <3> QED
            BY <1>0, <1>7, <2>3, <2>5, <3>1, <3>2, <3>3, WindowKept DEF Launch
    <2> QED
        BY <2>3, <2>4, <2>6 DEF SyncInv
<1>8. CASE Enqueue(c)
    <2>1. /\ DOMAIN worker' = Worker
          /\ \A v \in Worker :
                worker'[v] = [pc |-> worker[v].pc, kind |-> worker[v].kind, current |-> FALSE,
                              round |-> worker[v].round, more |-> worker[v].more, blocked |-> worker[v].blocked]
        <3>1. /\ DOMAIN worker' = Worker
              /\ \A v \in Worker : worker'[v] = [worker[v] EXCEPT !.current = FALSE]
            BY <1>0, <1>8 DEF Enqueue, NewTrigger
        <3> QED
            BY <1>0, <3>1 DEF SyncTypes, Shape
    <2>2. SyncTypes'
        <3>1. ASSUME NEW v \in Worker PROVE Shape(v)'
            <4>1. worker'[v].current = FALSE /\ worker'[v].round = worker[v].round
                BY <2>1
            <4>2. worker'[v].round \in 0 .. MaximumBatches
                BY <1>0, <4>1 DEF SyncTypes, Shape
            <4>3. worker'[v] = [pc |-> worker'[v].pc, kind |-> worker'[v].kind, current |-> worker'[v].current,
                                round |-> worker'[v].round, more |-> worker'[v].more, blocked |-> worker'[v].blocked]
                BY <2>1
            <4> QED
                BY <4>1, <4>2, <4>3 DEF Shape
        <3> QED
            BY <1>0, <1>8, <2>1, <3>1 DEF Enqueue, NewTrigger, LetGo, SyncTypes
    <2>3. LockInv'
        BY <1>0, <1>8, <2>1 DEF Enqueue, NewTrigger, LetGo, LockInv, SyncTypes
    <2>4. RemoteInv'
        BY <1>0, <1>8, <2>1 DEF Enqueue, NewTrigger, RemoteInv, RemoteIsPrefix
    <2>5. WindowInv'
        BY <1>0, <1>8, <2>1 DEF Enqueue, NewTrigger, WindowInv, Finishing, AnnouncedStaysPending, Pending
    <2> QED
        BY <2>2, <2>3, <2>4, <2>5 DEF SyncInv
<1> QED
    BY <1>1, <1>2, <1>3, <1>4, <1>5, <1>6, <1>7, <1>8 DEF ClientStep

----------------------------------------------------------------------------
(* Workers *)

\* A process keeps worker.lock while it works on the window, or lets go of it.
LEMMA LocksKept ==
    ASSUME SyncTypes, LockInv, NEW w \in Worker, UNCHANGED client,
           \A v \in Worker : v # w => worker'[v] = worker[v],
           \/ UNCHANGED locks /\ (worker'[w].pc \in InWindow => w \in locks["worker"])
           \/ LetGoAll(w) /\ worker'[w].pc \notin InWindow
           \/ LetGo("worker") /\ w \in locks["worker"] /\ worker'[w].pc \notin InWindow
    PROVE  LockInv' /\ locks' \in [{"worker", "launch", "trigger"} -> SUBSET (Client \cup Worker)]
<1>1. CASE UNCHANGED locks /\ (worker'[w].pc \in InWindow => w \in locks["worker"])
    BY <1>1 DEF LockInv, SyncTypes
<1>2. CASE LetGoAll(w) /\ worker'[w].pc \notin InWindow
    <2>1. \A l \in {"worker", "launch", "trigger"} : locks'[l] = locks[l] \ {w}
        BY <1>2 DEF LetGoAll, SyncTypes
    <2>2. \A c \in Client : c # w
        BY ProcessAssumption
    <2>3. locks' \in [{"worker", "launch", "trigger"} -> SUBSET (Client \cup Worker)]
        BY <1>2 DEF LetGoAll, SyncTypes
    <2> QED
        BY <1>2, <2>1, <2>2, <2>3 DEF LockInv
<1>3. CASE LetGo("worker") /\ w \in locks["worker"] /\ worker'[w].pc \notin InWindow
    <2>1. \A v \in Worker : v # w => worker[v].pc \notin InWindow
        BY <1>3 DEF LockInv
    <2>2. \A c \in Client : client[c] # "probing"
        BY <1>3, ProcessAssumption DEF LockInv
    <2> QED
        BY <1>3, <2>1, <2>2 DEF LockInv, LetGo, SyncTypes
<1> QED
    BY <1>1, <1>2, <1>3

\* A step in which one worker moves within or out of its window, and neither
\* publishes, uploads nor announces.
LEMMA WorkerMoves ==
    ASSUME SyncInv, NEW w \in Worker, OnlyMoves(w), Shape(w)',
           UNCHANGED <<published, sent, remote, trigger, client>>,
           \/ UNCHANGED locks /\ (worker'[w].pc \in InWindow => w \in locks["worker"])
           \/ LetGoAll(w) /\ worker'[w].pc \notin InWindow
           \/ LetGo("worker") /\ w \in locks["worker"] /\ worker'[w].pc \notin InWindow,
           quiet \subseteq quiet', forwarded \subseteq forwarded', quiet' \cup forwarded' \subseteq 1 .. length',
           length' = length \/ (length' = length + 1 /\ length' \in quiet' \cup forwarded'),
           completed' \in BOOLEAN, backoff' \in BOOLEAN, UNCHANGED reserved,
           completed' = completed \/ Pending' \/ ~Pending \/ Waiting \subseteq quiet \cup forwarded,
           worker'[w].pc # "receipt",
           ~worker'[w].more => worker'[w].round < MaximumBatches,
           Finishing(w)' => Waiting \subseteq quiet \cup forwarded
    PROVE  SyncInv'
<1>1. /\ DOMAIN worker' = Worker /\ \A v \in Worker : Shape(v)'
      /\ \A v \in Worker : v # w => worker'[v] = worker[v]
    BY Moved DEF SyncInv, OnlyMoves
<1>2. LockInv' /\ locks' \in [{"worker", "launch", "trigger"} -> SUBSET (Client \cup Worker)]
    BY <1>1, LocksKept DEF SyncInv
<1>3. SyncTypes'
    BY <1>1, <1>2 DEF SyncInv, SyncTypes
<1>4. RemoteInv' /\ Delivered' = Delivered
    BY <1>1, RemoteKept DEF SyncInv
<1>5. Delivered' >= Delivered
    BY <1>4 DEF SyncInv, SyncTypes, Delivered
<1>6. Pending' \/ ~Pending \/ Waiting \subseteq quiet \cup forwarded
    BY DEF Pending
<1>7. WindowInv'
    BY <1>1, <1>3, <1>5, <1>6, WindowKept DEF SyncInv
<1> QED
    BY <1>2, <1>3, <1>4, <1>7 DEF SyncInv

LEMMA WindowKeeps ==
    ASSUME SyncInv, NEW w \in Worker,
           \/ Command(w) \/ TakeWorkerLock(w) \/ Operate(w) \/ DecideTrigger(w) \/ EndCommand(w)
           \/ BeginWindow(w) \/ StopPublishing(w) \/ ReceiveBatch(w) \/ EndWindow(w) \/ FailWindow(w)
           \/ EndProcess(w)
    PROVE  SyncInv'
<1> USE DEF lengthVars, streamVars, controlVars
<1>0. SyncTypes /\ LockInv /\ RemoteInv /\ WindowInv /\ Shape(w) /\ DOMAIN worker = Worker
    BY DEF SyncInv, SyncTypes
<1>r. 0 \in 0 .. MaximumBatches /\ 0 < MaximumBatches
    BY WindowAssumption
<1>t. length \in Nat /\ quiet \cup forwarded \subseteq 1 .. length /\ completed \in BOOLEAN /\ backoff \in BOOLEAN
    BY <1>0 DEF SyncTypes
<1>l. worker[w].pc \in InWindow => w \in locks["worker"]
    BY <1>0 DEF LockInv
<1>m. ~worker[w].more => worker[w].round < MaximumBatches
    BY <1>0 DEF WindowInv
<1>n. ASSUME worker' = [worker EXCEPT ![w] = NoRun]
      PROVE  /\ OnlyMoves(w) /\ Shape(w)' /\ worker'[w].pc = "idle"
             /\ worker'[w].round < MaximumBatches /\ ~Finishing(w)'
    <2>1. worker'[w] = [pc |-> "idle", kind |-> "none", current |-> FALSE,
                        round |-> 0, more |-> FALSE, blocked |-> FALSE]
        BY <1>0, <1>n DEF NoRun
    <2>2. worker'[w].pc = "idle" /\ worker'[w].current = FALSE /\ worker'[w].round = 0
        BY <2>1
    <2>3. Shape(w)'
        BY <2>1, <2>2, <1>r DEF Shape
    <2> QED
        BY <1>0, <1>n, <1>r, <2>2, <2>3 DEF OnlyMoves, Finishing
<1>c. ASSUME NEW pc, worker' = [worker EXCEPT ![w].pc = pc]
      PROVE  /\ OnlyMoves(w) /\ Shape(w)' /\ worker'[w].pc = pc
             /\ worker'[w].kind = worker[w].kind /\ worker'[w].round = worker[w].round
             /\ worker'[w].more = worker[w].more /\ worker'[w].blocked = worker[w].blocked
    <2>1. worker'[w] = [pc |-> pc, kind |-> worker[w].kind, current |-> worker[w].current,
                        round |-> worker[w].round, more |-> worker[w].more, blocked |-> worker[w].blocked]
        BY <1>0, <1>c DEF Shape
    <2>2. worker'[w].current = worker[w].current /\ worker'[w].round = worker[w].round
        BY <2>1
    <2>3. Shape(w)'
        BY <1>0, <2>1, <2>2 DEF Shape
    <2> QED
        BY <1>0, <1>c, <2>1, <2>3 DEF OnlyMoves
<1>1. CASE Command(w)
    <2>1. PICK kind : worker' = [worker EXCEPT ![w] = [NoRun EXCEPT !.pc = "starting", !.kind = kind]]
        BY <1>1 DEF Command
    <2>2. worker'[w] = [pc |-> "starting", kind |-> kind, current |-> FALSE,
                        round |-> 0, more |-> FALSE, blocked |-> FALSE]
        BY <1>0, <2>1 DEF NoRun
    <2>3. worker'[w].pc = "starting" /\ worker'[w].current = FALSE /\ worker'[w].round = 0
        BY <2>2
    <2>4. Shape(w)'
        BY <2>2, <2>3, <1>r DEF Shape
    <2>5. OnlyMoves(w)
        BY <1>0, <2>1 DEF OnlyMoves
    <2> QED
        BY <1>1, <1>r, <1>t, <2>3, <2>4, <2>5, WorkerMoves DEF Command, InWindow, Finishing
<1>2. CASE TakeWorkerLock(w)
    <2>1. OnlyMoves(w) /\ Shape(w)' /\ worker'[w].pc = "locked"
          /\ worker'[w].round = worker[w].round /\ worker'[w].more = worker[w].more
        BY <1>2, <1>c DEF TakeWorkerLock, Proceed
    <2>2. SyncTypes'
        <3>1. \A v \in Worker : Shape(v)'
            BY <1>0, <2>1, Moved
        <3> QED
            BY <1>0, <1>2, <2>1, <3>1 DEF TakeWorkerLock, Take, SyncTypes, OnlyMoves
    <2>3. LockInv'
        BY <1>0, <1>2, <2>1 DEF TakeWorkerLock, Free, Take, LockInv, SyncTypes, OnlyMoves, InWindow
    <2>4. RemoteInv' /\ Delivered' = Delivered /\ Delivered \in Nat
        BY <1>0, <1>2, <2>1, RemoteKept DEF TakeWorkerLock, OnlyMoves, Delivered, SyncTypes
    <2>5. WindowInv'
        <3>1. Delivered' >= Delivered /\ Pending' = Pending
            BY <1>2, <2>4 DEF TakeWorkerLock, Pending
        <3>2. ~Finishing(w)'
            BY <2>1 DEF Finishing
        <3> QED
            BY <1>0, <1>2, <1>m, <2>1, <2>2, <3>1, <3>2, WindowKept DEF TakeWorkerLock, OnlyMoves
    <2> QED
        BY <2>2, <2>3, <2>4, <2>5 DEF SyncInv
<1>3. CASE Operate(w)
    <2>1. OnlyMoves(w) /\ Shape(w)' /\ worker'[w].pc = "enqueue"
          /\ worker'[w].round = worker[w].round /\ worker'[w].more = worker[w].more
        BY <1>3, <1>c DEF Operate, Proceed
    <2>2. w \in locks["worker"]
        BY <1>3, <1>l DEF Operate, Running, InWindow
    <2>3. /\ quiet \subseteq quiet' /\ quiet' \cup forwarded' \subseteq 1 .. length'
          /\ length' = length \/ (length' = length + 1 /\ length' \in quiet' \cup forwarded')
        BY <1>3, <1>t DEF Operate
    <2> QED
        BY <1>3, <1>m, <1>t, <2>1, <2>2, <2>3, WorkerMoves DEF Operate, Finishing
<1>4. CASE DecideTrigger(w)
    <2>1. PICK pc \in {"begin", "enqueue"} : worker' = [worker EXCEPT ![w].pc = pc]
        BY <1>4 DEF DecideTrigger, Proceed
    <2>2. OnlyMoves(w) /\ Shape(w)' /\ worker'[w].pc = pc
          /\ worker'[w].round = worker[w].round /\ worker'[w].more = worker[w].more
        BY <2>1, <1>c
    <2>3. w \in locks["worker"]
        BY <1>4, <1>l DEF DecideTrigger, Running, InWindow
    <2> QED
        BY <1>4, <1>m, <1>t, <2>1, <2>2, <2>3, WorkerMoves DEF DecideTrigger, Finishing
<1>5. CASE EndCommand(w)
    <2>1. w \in locks["worker"]
        BY <1>5, <1>l DEF EndCommand, Running, InWindow
    <2> QED
        BY <1>5, <1>n, <1>t, <2>1, WorkerMoves DEF EndCommand, InWindow
<1>6. CASE BeginWindow(w)
    <2>1. PICK pc \in {"peers", "push"} :
            /\ pc = "peers" => worker[w].kind = "receive"
            /\ worker' = [worker EXCEPT ![w].current = TRUE, ![w].pc = pc]
        BY <1>6 DEF BeginWindow
    <2>2. worker'[w] = [pc |-> pc, kind |-> worker[w].kind, current |-> TRUE,
                        round |-> worker[w].round, more |-> worker[w].more, blocked |-> worker[w].blocked]
        BY <1>0, <2>1 DEF Shape
    <2>3. /\ worker'[w].pc = pc /\ worker'[w].kind = worker[w].kind /\ worker'[w].current = TRUE
          /\ worker'[w].round = worker[w].round /\ worker'[w].more = worker[w].more
        BY <2>2
    <2>4. Shape(w)'
        BY <1>0, <2>2, <2>3 DEF Shape
    <2>5. OnlyMoves(w)
        BY <1>0, <2>1 DEF OnlyMoves
    <2>6. ~Finishing(w)'
        BY <2>1, <2>3 DEF Finishing, LeftNothing
    <2>7. w \in locks["worker"]
        BY <1>6, <1>l DEF BeginWindow, Running, InWindow
    <2> QED
        BY <1>6, <1>m, <1>t, <2>1, <2>3, <2>4, <2>5, <2>6, <2>7, WorkerMoves DEF BeginWindow
<1>7. CASE StopPublishing(w)
    <2>0. w \in locks["worker"] /\ UNCHANGED <<lengthVars, streamVars, controlVars, locks, client>>
        BY <1>7, <1>l DEF StopPublishing, Running, InWindow
    <2>1. CASE NothingToPush /\ (published.cursor = length \/ worker[w].round = MaximumBatches) /\ Proceed(w, "peers")
        <3>1. OnlyMoves(w) /\ Shape(w)' /\ worker'[w].pc = "peers"
              /\ worker'[w].round = worker[w].round /\ worker'[w].more = worker[w].more
            BY <2>1, <1>c DEF Proceed
        <3>2. ASSUME Finishing(w)' PROVE Waiting = {}
            <4>1. ~worker[w].more
                BY <3>1, <3>2 DEF Finishing, LeftNothing
            <4>2. worker[w].round # MaximumBatches
                BY <1>0, <1>m, <4>1, WindowAssumption DEF Shape
            <4>3. Delivered = length
                BY <2>1, <4>2 DEF NothingToPush, Delivered
            <4> QED
                BY <1>t, <4>3 DEF Waiting
        <3> QED
            BY <1>m, <1>t, <2>0, <3>1, <3>2, WorkerMoves
    <2>2. CASE worker' = [worker EXCEPT ![w].pc = "peers", ![w].more = TRUE]
        <3>1. worker'[w] = [pc |-> "peers", kind |-> worker[w].kind, current |-> worker[w].current,
                            round |-> worker[w].round, more |-> TRUE, blocked |-> worker[w].blocked]
            BY <1>0, <2>2 DEF Shape
        <3>2. /\ worker'[w].pc = "peers" /\ worker'[w].current = worker[w].current
              /\ worker'[w].round = worker[w].round /\ worker'[w].more = TRUE
            BY <3>1
        <3>3. Shape(w)'
            BY <1>0, <3>1, <3>2 DEF Shape
        <3>4. OnlyMoves(w)
            BY <1>0, <2>2 DEF OnlyMoves
        <3>5. ~Finishing(w)'
            BY <3>2 DEF Finishing, LeftNothing
        <3> QED
            BY <1>t, <2>0, <3>2, <3>3, <3>4, <3>5, WorkerMoves
    <2>3. CASE worker' = [worker EXCEPT ![w].pc = "peers", ![w].blocked = TRUE]
        <3>1. worker'[w] = [pc |-> "peers", kind |-> worker[w].kind, current |-> worker[w].current,
                            round |-> worker[w].round, more |-> worker[w].more, blocked |-> TRUE]
            BY <1>0, <2>3 DEF Shape
        <3>2. /\ worker'[w].pc = "peers" /\ worker'[w].current = worker[w].current
              /\ worker'[w].round = worker[w].round /\ worker'[w].more = worker[w].more
              /\ worker'[w].blocked = TRUE
            BY <3>1
        <3>3. Shape(w)'
            BY <1>0, <3>1, <3>2 DEF Shape
        <3>4. OnlyMoves(w)
            BY <1>0, <2>3 DEF OnlyMoves
        <3>5. ~Finishing(w)'
            BY <3>2 DEF Finishing
        <3> QED
            BY <1>m, <1>t, <2>0, <3>2, <3>3, <3>4, <3>5, WorkerMoves
    <2> QED
        BY <1>7, <2>1, <2>2, <2>3 DEF StopPublishing
<1>8. CASE ReceiveBatch(w)
    <2>1. worker'[w] = [pc |-> worker[w].pc, kind |-> worker[w].kind, current |-> worker[w].current,
                        round |-> worker[w].round, more |-> TRUE, blocked |-> worker[w].blocked]
        BY <1>0, <1>8 DEF Shape, ReceiveBatch
    <2>2. /\ worker'[w].pc = "peers" /\ worker'[w].current = worker[w].current
          /\ worker'[w].round = worker[w].round /\ worker'[w].more = TRUE
        BY <1>8, <2>1 DEF ReceiveBatch, Running
    <2>3. Shape(w)'
        BY <1>0, <2>1, <2>2 DEF Shape
    <2>4. OnlyMoves(w)
        BY <1>0, <1>8 DEF OnlyMoves, ReceiveBatch
    <2>5. ~Finishing(w)'
        BY <2>2 DEF Finishing, LeftNothing
    <2>6. w \in locks["worker"]
        BY <1>8, <1>l DEF ReceiveBatch, Running, InWindow
    <2>7. /\ forwarded \subseteq forwarded' /\ quiet' \cup forwarded' \subseteq 1 .. length'
          /\ length' = length + 1 /\ length' \in quiet' \cup forwarded'
        BY <1>8, <1>t DEF ReceiveBatch
    <2> QED
        BY <1>8, <1>t, <2>2, <2>3, <2>4, <2>5, <2>6, <2>7, WorkerMoves DEF ReceiveBatch
<1>9. CASE EndWindow(w)
    <2>1. w \in locks["worker"]
        BY <1>9, <1>l DEF EndWindow, Running, InWindow
    <2>2. /\ completed' \in BOOLEAN
          /\ completed' = completed \/ Pending' \/ ~Pending \/ Waiting \subseteq quiet \cup forwarded
        <3>1. CASE ~LeftNothing(w)
            BY <1>9, <1>t, <3>1 DEF EndWindow
        <3>2. CASE LeftNothing(w) /\ worker[w].current
            <4>1. Finishing(w)
                BY <1>9, <3>2 DEF EndWindow, Running, Finishing
            <4> QED
                BY <1>0, <1>9, <3>2, <4>1 DEF EndWindow, WindowInv
        <3>3. CASE LeftNothing(w) /\ ~worker[w].current
            <4>1. completed' = FALSE /\ trigger' = trigger
                BY <1>0, <1>9, <3>3 DEF EndWindow, Shape
            <4> QED
                BY <4>1 DEF Pending
        <3> QED
            BY <3>1, <3>2, <3>3
    <2> QED
        BY <1>9, <1>n, <1>t, <2>1, <2>2, WorkerMoves DEF EndWindow, InWindow
<1>10. CASE FailWindow(w)
    <2>1. w \in locks["worker"]
        BY <1>10, <1>l DEF FailWindow, InWindow
    <2> QED
        BY <1>10, <1>n, <1>t, <2>1, WorkerMoves DEF FailWindow, InWindow
<1>11. CASE EndProcess(w)
    BY <1>11, <1>n, <1>t, WorkerMoves DEF EndProcess, InWindow
<1> QED
    BY <1>1, <1>2, <1>3, <1>4, <1>5, <1>6, <1>7, <1>8, <1>9, <1>10, <1>11

\* The steps that announce, publish and upload.
LEMMA StreamKeeps ==
    ASSUME SyncInv, NEW w \in Worker,
           WorkerEnqueue(w) \/ Upload(w) \/ SaveReceipt(w) \/ PublishPage(w)
    PROVE  SyncInv'
<1> USE DEF lengthVars, streamVars, controlVars
<1>0. SyncTypes /\ LockInv /\ RemoteInv /\ WindowInv /\ Shape(w) /\ DOMAIN worker = Worker
    BY DEF SyncInv, SyncTypes
<1>t. /\ length \in Nat /\ published \in [after : Nat, cursor : Nat] /\ sent \in Nat
      /\ remote \subseteq [after : Nat, cursor : Nat]
    BY <1>0 DEF SyncTypes
<1>m. ~worker[w].more => worker[w].round < MaximumBatches
    BY <1>0 DEF WindowInv
<1>c. ASSUME NEW pc, worker' = [worker EXCEPT ![w].pc = pc]
      PROVE  /\ OnlyMoves(w) /\ Shape(w)' /\ worker'[w].pc = pc
             /\ worker'[w].round = worker[w].round /\ worker'[w].more = worker[w].more
    <2>1. worker'[w] = [pc |-> pc, kind |-> worker[w].kind, current |-> worker[w].current,
                        round |-> worker[w].round, more |-> worker[w].more, blocked |-> worker[w].blocked]
        BY <1>0, <1>c DEF Shape
    <2>2. worker'[w].current = worker[w].current /\ worker'[w].round = worker[w].round
        BY <2>1
    <2>3. Shape(w)'
        BY <1>0, <2>1, <2>2 DEF Shape
    <2> QED
        BY <1>0, <1>c, <2>1, <2>3 DEF OnlyMoves
\* Whoever works on the window does so alone.
<1>a. ASSUME worker[w].pc \in InWindow, NEW v \in Worker, v # w PROVE worker[v].pc \notin InWindow
    BY <1>0, <1>a DEF LockInv
<1>1. CASE WorkerEnqueue(w)
    <2>1. DOMAIN worker' = Worker
        BY <1>1 DEF WorkerEnqueue, NewTrigger
    <2>2. ASSUME NEW v \in Worker
          PROVE  /\ Shape(v)' /\ worker'[v].round = worker[v].round /\ worker'[v].more = worker[v].more
                 /\ worker'[v].pc = worker[v].pc \/ (v = w /\ worker'[v].pc = "begin")
                 /\ v # w => worker'[v].current = FALSE
        <3>1. \E pc, current :
                /\ worker'[v] = [pc |-> pc, kind |-> worker[v].kind, current |-> current,
                                 round |-> worker[v].round, more |-> worker[v].more, blocked |-> worker[v].blocked]
                /\ \/ v # w /\ pc = worker[v].pc /\ current = FALSE
                   \/ v = w /\ pc = "begin" /\ current = worker[v].current
            <4>1. Shape(v)
                BY <1>0 DEF SyncTypes
            <4>2. CASE v = w
                <5>1. worker'[v] = [pc |-> "begin", kind |-> worker[v].kind, current |-> worker[v].current,
                                    round |-> worker[v].round, more |-> worker[v].more, blocked |-> worker[v].blocked]
                    BY <1>1, <4>1, <4>2 DEF WorkerEnqueue, NewTrigger, Shape
                <5> QED
                    BY <4>2, <5>1
            <4>3. CASE v # w
                <5>1. worker'[v] = [pc |-> worker[v].pc, kind |-> worker[v].kind, current |-> FALSE,
                                    round |-> worker[v].round, more |-> worker[v].more, blocked |-> worker[v].blocked]
                    BY <1>1, <4>1, <4>3 DEF WorkerEnqueue, NewTrigger, Shape
                <5> QED
                    BY <4>3, <5>1
            <4> QED
                BY <4>2, <4>3
        <3>a. PICK pc, current :
                /\ worker'[v] = [pc |-> pc, kind |-> worker[v].kind, current |-> current,
                                 round |-> worker[v].round, more |-> worker[v].more, blocked |-> worker[v].blocked]
                /\ \/ v # w /\ pc = worker[v].pc /\ current = FALSE
                   \/ v = w /\ pc = "begin" /\ current = worker[v].current
            BY <3>1
        <3>2. /\ worker'[v].pc = pc /\ worker'[v].round = worker[v].round /\ worker'[v].more = worker[v].more
              /\ worker'[v].current = current
            BY <3>a
        <3>b. worker[v].round \in 0 .. MaximumBatches /\ worker[v].current \in BOOLEAN /\ FALSE \in BOOLEAN
            BY <1>0 DEF SyncTypes, Shape
        <3>c. current \in BOOLEAN
            BY <3>a, <3>b, Zenon
        <3>3. Shape(v)'
            BY <3>a, <3>b, <3>c, <3>2 DEF Shape
        <3> QED
            BY <3>a, <3>2, <3>3
    <2>3. SyncTypes'
        BY <1>0, <1>1, <2>1, <2>2 DEF WorkerEnqueue, NewTrigger, SyncTypes
    <2>4. LockInv'
        BY <1>0, <1>1, <2>2 DEF WorkerEnqueue, NewTrigger, LockInv, Running, InWindow
    <2>5. RemoteInv'
        BY <1>0, <1>1, <2>2 DEF WorkerEnqueue, NewTrigger, RemoteInv, RemoteIsPrefix
    <2>6. WindowInv'
        <3>1. worker'[w].pc = "begin"
            BY <1>1 , <1>0, <2>2 DEF WorkerEnqueue, NewTrigger, Shape
        <3>2. \A v \in Worker : ~Finishing(v)'
            BY <2>2, <3>1 DEF Finishing
        <3>3. Pending'
            BY <1>1 DEF WorkerEnqueue, NewTrigger, Pending
        <3> QED
            BY <1>0, <2>2, <3>2, <3>3 DEF WindowInv, AnnouncedStaysPending
    <2> QED
        BY <2>3, <2>4, <2>5, <2>6 DEF SyncInv
<1>b. ASSUME OnlyMoves(w), Shape(w)', worker'[w].pc \in InWindow, worker[w].pc \in InWindow,
             UNCHANGED <<lengthVars, controlVars, locks, client>>,
             published' \in [after : Nat, cursor : Nat], sent' \in Nat,
             remote' \subseteq [after : Nat, cursor : Nat]
      PROVE  SyncTypes' /\ LockInv'
    <2>1. \A v \in Worker : Shape(v)'
        BY <1>0, <1>b, Moved
    <2>2. SyncTypes'
        BY <1>0, <1>b, <2>1 DEF SyncTypes, OnlyMoves
    <2>3. LockInv'
        BY <1>0, <1>b DEF LockInv, OnlyMoves
    <2> QED
        BY <2>2, <2>3
<1>d. ASSUME OnlyMoves(w), SyncTypes', ~worker'[w].more => worker'[w].round < MaximumBatches,
             worker'[w].pc # "peers", UNCHANGED <<lengthVars, controlVars>>, Delivered' >= Delivered
      PROVE  WindowInv'
    <2>1. ~Finishing(w)' /\ Pending' = Pending
        BY <1>d DEF Finishing, Pending
    <2> QED
        BY <1>0, <1>d, <2>1, WindowKept DEF OnlyMoves
<1>2. CASE Upload(w)
    <2>1. /\ OnlyMoves(w) /\ Shape(w)' /\ worker'[w].pc = "receipt"
          /\ worker'[w].round = worker[w].round /\ worker'[w].more = worker[w].more
        BY <1>2, <1>c DEF Upload, Proceed
    <2>2. /\ worker[w].pc = "push" /\ Cloud /\ published.after = sent
          /\ remote' = remote \cup {published} /\ published' = published /\ sent' = sent
        BY <1>2 DEF Upload, Running
    <2>3. SyncTypes' /\ LockInv'
        BY <1>2, <1>b, <1>t, <2>1, <2>2 DEF Upload, InWindow
    <2>4. RemoteInv'
        <3>1. \A v \in Worker : worker'[v].pc = "receipt" => v = w
            BY <1>a, <2>1, <2>2 DEF OnlyMoves, InWindow
        <3>2. RemoteIsPrefix'
            BY <1>0, <1>t, <2>2 DEF RemoteInv, RemoteIsPrefix
        <3> QED
            BY <1>0, <2>2, <3>2 DEF RemoteInv
    <2>5. Delivered' >= Delivered
        BY <1>t, <2>2 DEF Delivered
    <2>6. WindowInv'
        BY <1>2, <1>d, <1>m, <2>1, <2>3, <2>5 DEF Upload
    <2> QED
        BY <2>3, <2>4, <2>6 DEF SyncInv
<1>3. CASE SaveReceipt(w)
    <2>1. /\ OnlyMoves(w) /\ Shape(w)' /\ worker'[w].pc = "push"
          /\ worker'[w].round = worker[w].round /\ worker'[w].more = worker[w].more
        BY <1>3, <1>c DEF SaveReceipt, Proceed
    <2>2. /\ worker[w].pc = "receipt" /\ Cloud /\ published \in remote
          /\ remote' = remote /\ published' = published /\ sent' = published.cursor
        BY <1>0, <1>3 DEF SaveReceipt, Running, RemoteInv
    <2>3. SyncTypes' /\ LockInv'
        BY <1>3, <1>b, <1>t, <2>1, <2>2 DEF SaveReceipt, InWindow
    <2>0. sent <= published.cursor
        BY <1>0, <1>t, <2>2 DEF RemoteInv, RemoteIsPrefix
    <2>4. RemoteInv'
        <3>1. \A v \in Worker : worker'[v].pc # "receipt"
            BY <1>a, <2>1, <2>2 DEF OnlyMoves, InWindow
        <3>2. RemoteIsPrefix'
            BY <1>0, <1>t, <2>0, <2>2 DEF RemoteInv, RemoteIsPrefix
        <3> QED
            BY <1>0, <2>2, <3>1, <3>2 DEF RemoteInv
    <2>5. Delivered' >= Delivered
        BY <1>t, <2>0, <2>2 DEF Delivered
    <2>6. WindowInv'
        BY <1>3, <1>d, <1>m, <2>1, <2>3, <2>5 DEF SaveReceipt
    <2> QED
        BY <2>3, <2>4, <2>6 DEF SyncInv
<1>4. CASE PublishPage(w)
    <2>0. PICK c \in published.cursor + 1 .. length : published' = [after |-> published.cursor, cursor |-> c]
        BY <1>4 DEF PublishPage
    <2>1. worker'[w] = [pc |-> worker[w].pc, kind |-> worker[w].kind, current |-> worker[w].current,
                        round |-> worker[w].round + 1,
                        more |-> (worker[w].more \/ worker[w].round + 1 = MaximumBatches),
                        blocked |-> worker[w].blocked]
        BY <1>0, <1>4 DEF Shape, PublishPage
    <2>2. /\ worker[w].pc = "push" /\ worker'[w].pc = "push" /\ worker'[w].current = worker[w].current
          /\ worker'[w].round = worker[w].round + 1
          /\ worker'[w].more = (worker[w].more \/ worker[w].round + 1 = MaximumBatches)
          /\ worker[w].round < MaximumBatches
        BY <1>4, <2>1 DEF PublishPage, Running, RoundsLeft
    <2>3. /\ worker[w].round \in Nat /\ MaximumBatches \in Nat
          /\ worker'[w].round \in 0 .. MaximumBatches
          /\ ~worker'[w].more => worker'[w].round < MaximumBatches
        <3>1. /\ worker[w].round \in Nat /\ MaximumBatches \in Nat
              /\ worker'[w].round \in 0 .. MaximumBatches
              /\ worker[w].round + 1 # MaximumBatches => worker'[w].round < MaximumBatches
            BY <1>0, <2>2, WindowAssumption DEF Shape
        <3>2. ~worker'[w].more => worker[w].round + 1 # MaximumBatches
            BY <2>2, Zenon
        <3> QED
            BY <3>1, <3>2
    <2>4. Shape(w)'
        BY <1>0, <2>1, <2>2, <2>3 DEF Shape
    <2>5. OnlyMoves(w)
        BY <1>0, <1>4 DEF PublishPage, OnlyMoves
    <2>6. c \in Nat /\ c > published.cursor /\ published'.after = published.cursor /\ published'.cursor = c
          /\ published' \in [after : Nat, cursor : Nat] /\ remote' = remote /\ sent' = sent
        BY <1>4, <1>t, <2>0 DEF PublishPage
    <2>7. SyncTypes' /\ LockInv'
        BY <1>4, <1>b, <1>t, <2>2, <2>4, <2>5, <2>6 DEF PublishPage, InWindow
    <2>8. Cloud => published.cursor = sent
        BY <1>4 DEF PublishPage, NothingToPush
    <2>9. RemoteInv'
        <3>1. \A v \in Worker : worker'[v].pc # "receipt"
            BY <1>a, <2>2, <2>5 DEF OnlyMoves, InWindow
        <3>2. RemoteIsPrefix'
            BY <1>0, <1>t, <2>6, <2>8 DEF RemoteInv, RemoteIsPrefix
        <3> QED
            BY <1>t, <2>6, <3>1, <3>2 DEF RemoteInv
    <2>10. Delivered' >= Delivered
        BY <1>t, <2>6 DEF Delivered
    <2>11. WindowInv'
        BY <1>4, <1>d, <2>2, <2>3, <2>5, <2>7, <2>10 DEF PublishPage
    <2> QED
        BY <2>7, <2>9, <2>11 DEF SyncInv
<1> QED
    BY <1>1, <1>2, <1>3, <1>4

----------------------------------------------------------------------------
(* The results *)

\* The argument above, for every run of clients, workers and operators.
THEOREM SyncInvariant == Spec => []SyncInv
<1>1. SyncInv /\ [Next]_vars => SyncInv'
    <2> SUFFICES ASSUME SyncInv, [Next]_vars PROVE SyncInv'
        OBVIOUS
    <2>1. ASSUME NEW c \in Client, ClientStep(c) PROVE SyncInv'
        BY <2>1, ClientKeeps
    <2>2. ASSUME NEW w \in Worker, WorkerStep(w) PROVE SyncInv'
        BY <2>2, WindowKeeps, StreamKeeps DEF WorkerStep, WindowStep
    <2>3. CASE BackoffExpires \/ ReservationExpires \/ UNCHANGED vars
        <3>1. /\ UNCHANGED <<length, quiet, forwarded, published, sent, remote, trigger, completed, locks, client, worker>>
              /\ backoff' \in BOOLEAN /\ reserved' \in BOOLEAN
            BY <2>3 DEF BackoffExpires, ReservationExpires, vars, lengthVars, streamVars, controlVars, SyncInv, SyncTypes
        <3>2. SyncTypes'
            BY <3>1 DEF SyncInv, SyncTypes, Shape
        <3>3. LockInv' /\ RemoteInv'
            BY <3>1 DEF SyncInv, LockInv, RemoteInv, RemoteIsPrefix
        <3>4. WindowInv'
            BY <3>1 DEF SyncInv, WindowInv, Finishing, LeftNothing, AnnouncedStaysPending, Pending, Waiting, Delivered
        <3> QED
            BY <3>2, <3>3, <3>4 DEF SyncInv
    <2> QED
        BY <2>1, <2>2, <2>3 DEF Next
<1> QED
    BY <1>1, SyncInitially, PTL DEF Spec

\* Control files, locks and process memory keep their shape, and no lock has two
\* holders (_try_lock).
THEOREM SyncTypesHold == Spec => []SyncTypeOK
<1>1. SyncInv => SyncTypeOK
    <2> SUFFICES ASSUME SyncInv PROVE SyncTypeOK
        OBVIOUS
    <2>1. ASSUME NEW l \in DOMAIN locks PROVE Cardinality(locks[l]) <= 1
        <3>1. \A p, q \in locks[l] : p = q
            BY DEF SyncInv, LockInv, SyncTypes
        <3>2. CASE locks[l] = {}
            BY <3>2, FS_EmptySet
        <3>3. CASE locks[l] # {}
            <4>1. PICK p : locks[l] = {p}
                BY <3>1, <3>3
            <4>2. Cardinality(locks[l]) = 1
                BY <4>1, FS_Singleton
            <4> QED
                BY <4>2
        <3> QED
            BY <3>2, <3>3
    <2>2. \A w \in Worker : worker[w].round \in 0 .. MaximumBatches
        BY DEF SyncInv, SyncTypes, Shape
    <2> QED
        BY <2>1, <2>2 DEF SyncInv, SyncTypes, SyncTypeOK
<1> QED
    BY <1>1, SyncInvariant, PTL

\* A crash, a busy lock, a backoff or an operator's command never makes an
\* announced write look done: it is delivered, or `status` says pending (enqueue,
\* _run_window).
THEOREM AnnouncedAlwaysPending == Spec => []AnnouncedStaysPending
<1>1. SyncInv => AnnouncedStaysPending
    BY DEF SyncInv, WindowInv
<1> QED
    BY <1>1, SyncInvariant, PTL

\* The remote always holds a gap-free prefix of the local stream and is at most
\* one batch behind it, however uploads and receipts are interrupted
\* (_push_pending).
THEOREM RemoteAlwaysPrefix == Spec => []RemoteIsPrefix
<1>1. SyncInv => RemoteIsPrefix
    BY DEF SyncInv, RemoteInv
<1> QED
    BY <1>1, SyncInvariant, PTL
=============================================================================
