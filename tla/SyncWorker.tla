----------------------------- MODULE SyncWorker -----------------------------
(***************************************************************************)
(* The sync worker (memory_vault_sync.py): notifications after local       *)
(* writes, the coalescing launch of one finite worker, and the bounded     *)
(* window that publishes, uploads to a remote, and receives.               *)
(*                                                                         *)
(* Clients and workers are processes.  trigger.lock, launch.lock and       *)
(* worker.lock are non-blocking file locks: whoever finds one taken gives  *)
(* up, and a process that dies lets go of what it holds.  Publisher and    *)
(* Receiver model what happens inside one publish or receive call; here    *)
(* the delivery log and the cursors are lengths.                           *)
(***************************************************************************)
EXTENDS Naturals, FiniteSets

CONSTANTS
    Client,         \* processes that write locally and notify
    Worker,         \* processes that run a window, or an operator's command
    Cloud,          \* TRUE: rclone or native Drive, FALSE: a shared directory
    MaximumBatches, \* publications in one window
    MaxLength       \* bound on the length of the delivery log

ASSUME CloudAssumption == Cloud \in BOOLEAN
ASSUME ProcessAssumption == Client \cap Worker = {}
ASSUME WindowAssumption == MaximumBatches \in Nat \ {0} /\ MaxLength \in Nat

VARIABLES
    length,      \* length of the delivery log of the vault
    quiet,       \* history: positions whose writer has not queued a trigger
    forwarded,   \* history: positions that came from a peer
    published,   \* the last published batch [after, cursor] of the transfer state
    sent,        \* sent_cursor of remote-receipt.json
    remote,      \* the batches that are in the remote
    trigger,     \* sync-trigger.json exists
    completed,   \* its generation is the completed_generation of sync-state.json
    backoff,     \* next_retry_at is in the future
    reserved,    \* expires_at of launch.json is in the future
    locks,       \* holders of worker.lock, launch.lock and trigger.lock
    client,      \* client[c]: where the notification of c stands
    worker       \* worker[w]: what process w is doing

lengthVars == <<length, quiet, forwarded>>
streamVars == <<published, sent, remote>>
controlVars == <<trigger, completed, backoff, reserved>>
vars == <<lengthVars, streamVars, controlVars, locks, client, worker>>

\* `current`: the generation this window works for is still the trigger's.
NoRun == [pc |-> "idle", kind |-> "none", current |-> FALSE, round |-> 0,
          more |-> FALSE, blocked |-> FALSE]

Init ==
    /\ length = 0 /\ quiet = {} /\ forwarded = {}
    /\ published = [after |-> 0, cursor |-> 0] /\ sent = 0 /\ remote = {}
    /\ trigger = FALSE /\ completed = FALSE
    /\ backoff = FALSE /\ reserved = FALSE
    /\ locks = [l \in {"worker", "launch", "trigger"} |-> {}]
    /\ client = [c \in Client |-> "idle"]
    /\ worker = [w \in Worker |-> NoRun]

----------------------------------------------------------------------------
(* Locks and triggers. *)

Free(l) == locks[l] = {}
Take(l, p) == locks' = [locks EXCEPT ![l] = @ \cup {p}]
LetGo(l) == locks' = [locks EXCEPT ![l] = {}]
LetGoAll(p) == locks' = [l \in DOMAIN locks |-> locks[l] \ {p}]

\* _enqueue: a trigger with a new generation replaces the old one; it stands
\* for everything that is in the delivery log at this moment.  Generations are
\* random and only compared for equality: the new one is not the completed one,
\* nor the one any window works for.
NewTrigger(p) ==
    /\ trigger' = TRUE
    /\ completed' = FALSE
    /\ quiet' = {}
    /\ worker' = [w \in Worker |->
                    IF w = p THEN [worker[w] EXCEPT !.pc = "begin"]
                    ELSE [worker[w] EXCEPT !.current = FALSE]]
    /\ UNCHANGED <<length, forwarded, streamVars, backoff, reserved>>

\* What `status` reports as pending.
Pending == trigger /\ ~completed

----------------------------------------------------------------------------
(* request_sync, called by a client after its durable write. *)

\* A local write, or an event without one (a session start).
LocalWrite(c) ==
    /\ client[c] = "idle"
    /\ length < MaxLength
    /\ length' = length + 1
    /\ quiet' = quiet \cup {length + 1}
    /\ client' = [client EXCEPT ![c] = "notify"]
    /\ UNCHANGED <<forwarded, streamVars, controlVars, locks, worker>>

OtherEvent(c) ==
    /\ client[c] = "idle"
    /\ client' = [client EXCEPT ![c] = "notify"]
    /\ UNCHANGED <<lengthVars, streamVars, controlVars, locks, worker>>

BeginEnqueue(c) ==
    /\ client[c] = "notify"
    /\ Free("trigger") /\ Take("trigger", c)
    /\ client' = [client EXCEPT ![c] = "queue"]
    /\ UNCHANGED <<lengthVars, streamVars, controlVars, worker>>

Enqueue(c) ==
    /\ client[c] = "queue"
    /\ NewTrigger(c)
    /\ LetGo("trigger")
    /\ client' = [client EXCEPT ![c] = "spawn"]

\* _spawn takes launch.lock, and holds worker.lock for a moment to probe it.
Probe(c) ==
    /\ client[c] = "spawn"
    /\ Free("launch") /\ Free("worker")
    /\ locks' = [locks EXCEPT !["launch"] = @ \cup {c}, !["worker"] = @ \cup {c}]
    /\ client' = [client EXCEPT ![c] = "probing"]
    /\ UNCHANGED <<lengthVars, streamVars, controlVars, worker>>

EndProbe(c) ==
    /\ client[c] = "probing"
    /\ LetGo("worker")
    /\ client' = [client EXCEPT ![c] = "launch"]
    /\ UNCHANGED <<lengthVars, streamVars, controlVars, worker>>

\* Reserve the launch and start a background worker.
Launch(c) ==
    /\ client[c] = "launch"
    /\ ~backoff /\ ~reserved
    /\ reserved' = TRUE
    /\ \E w \in Worker :
        /\ worker[w].pc = "idle"
        /\ worker' = [worker EXCEPT ![w] = [NoRun EXCEPT !.pc = "starting", !.kind = "background"]]
    /\ LetGo("launch")
    /\ client' = [client EXCEPT ![c] = "idle"]
    /\ UNCHANGED <<lengthVars, streamVars, trigger, completed, backoff>>

\* A busy lock, a worker that runs, a reservation or a backoff ends the
\* notification; so does the client's own end.
GiveUp(c) ==
    /\ client[c] # "idle"
    /\ client' = [client EXCEPT ![c] = "idle"]
    /\ LetGoAll(c)
    /\ UNCHANGED <<lengthVars, streamVars, controlVars, worker>>

----------------------------------------------------------------------------
(* run, resolve and requeue, under worker.lock. *)

Running(w, pc) == worker[w].pc = pc
Proceed(w, pc) == worker' = [worker EXCEPT ![w].pc = pc]

\* An explicit run, a receive-only run, or an operator's
\* resolve or requeue.
Command(w) ==
    /\ Running(w, "idle")
    /\ \E kind \in {"run", "receive", "operator"} :
        worker' = [worker EXCEPT ![w] = [NoRun EXCEPT !.pc = "starting", !.kind = kind]]
    /\ UNCHANGED <<lengthVars, streamVars, controlVars, locks, client>>

TakeWorkerLock(w) ==
    /\ Running(w, "starting")
    /\ Free("worker") /\ Take("worker", w)
    /\ Proceed(w, "locked")
    /\ UNCHANGED <<lengthVars, streamVars, controlVars, client>>

\* requeue commits its delivery events, and resolve its decision, before the
\* trigger is queued.
Operate(w) ==
    /\ Running(w, "locked") /\ worker[w].kind = "operator"
    /\ \/ /\ length < MaxLength
          /\ length' = length + 1
          /\ quiet' = quiet \cup {length + 1}
       \/ UNCHANGED <<length, quiet>>
    /\ Proceed(w, "enqueue")
    /\ UNCHANGED <<forwarded, streamVars, controlVars, locks, client>>

\* An explicit run queues a trigger of its own; a background worker only
\* if there is none, and it observes the backoff.
DecideTrigger(w) ==
    /\ Running(w, "locked") /\ worker[w].kind # "operator"
    /\ ~(worker[w].kind = "background" /\ backoff)
    /\ Proceed(w, IF worker[w].kind = "background" /\ trigger THEN "begin" ELSE "enqueue")
    /\ UNCHANGED <<lengthVars, streamVars, controlVars, locks, client>>

WorkerEnqueue(w) ==
    /\ Running(w, "enqueue") /\ Free("trigger")
    /\ NewTrigger(w)
    /\ UNCHANGED <<locks, client>>

\* An operator's command is over; a run reads the trigger its window works for
\* and marks the state as running.
EndCommand(w) ==
    /\ Running(w, "begin") /\ worker[w].kind = "operator"
    /\ worker' = [worker EXCEPT ![w] = NoRun]
    /\ LetGo("worker")
    /\ UNCHANGED <<lengthVars, streamVars, controlVars, client>>

BeginWindow(w) ==
    /\ Running(w, "begin") /\ worker[w].kind # "operator"
    /\ worker' = [worker EXCEPT ![w].current = TRUE,
                                ![w].pc = IF worker[w].kind = "receive" THEN "peers" ELSE "push"]
    /\ UNCHANGED <<lengthVars, streamVars, controlVars, locks, client>>

UploadLater == TRUE     \* mutant: publish on, upload some time

NothingToPush == ~Cloud \/ published.cursor = sent

\* _push_pending, before each publication and once after it: the file that is
\* named after sent_cursor and the published cursor.
Upload(w) ==
    /\ Running(w, "push") /\ Cloud
    /\ published.cursor # sent
    /\ published.after = sent
    /\ remote' = remote \cup {published}
    /\ Proceed(w, "receipt")
    /\ UNCHANGED <<lengthVars, published, sent, controlVars, locks, client>>

SaveReceipt(w) ==
    /\ Running(w, "receipt")
    /\ sent' = published.cursor
    /\ Proceed(w, "push")
    /\ UNCHANGED <<lengthVars, published, remote, controlVars, locks, client>>

RoundsLeft(w) == worker[w].round < MaximumBatches

\* endpoint.publish: one page of the delivery log.
PublishPage(w) ==
    /\ Running(w, "push") /\ NothingToPush
    /\ RoundsLeft(w)
    /\ \E c \in published.cursor + 1 .. length :
        published' = [after |-> published.cursor, cursor |-> c]
    /\ worker' = [worker EXCEPT ![w].round = @ + 1,
                                ![w].more = (@ \/ worker[w].round + 1 = MaximumBatches)]
    /\ UNCHANGED <<lengthVars, sent, remote, controlVars, locks, client>>

\* Up to date; or the last publication of the window; or more fragments of a
\* group to move; or an operator's review is needed before anything is sent.
StopPublishing(w) ==
    /\ Running(w, "push")
    /\ \/ /\ NothingToPush
          /\ published.cursor = length \/ worker[w].round = MaximumBatches
          /\ Proceed(w, "peers")
       \/ worker' = [worker EXCEPT ![w].pc = "peers", ![w].more = TRUE]
       \/ worker' = [worker EXCEPT ![w].pc = "peers", ![w].blocked = TRUE]
    /\ UNCHANGED <<lengthVars, streamVars, controlVars, locks, client>>

\* An admitted batch of a peer; its records are to be forwarded in their turn.
ReceiveBatch(w) ==
    /\ Running(w, "peers")
    /\ length < MaxLength
    /\ length' = length + 1
    /\ forwarded' = forwarded \cup {length + 1}
    /\ worker' = [worker EXCEPT ![w].more = TRUE]
    /\ UNCHANGED <<quiet, streamVars, controlVars, locks, client>>

\* The generation is completed only by a window that left nothing to do.
SentSomething(w) == worker[w].kind # "receive"     \* mutant: more to do or not

LeftNothing(w) == ~worker[w].more /\ worker[w].kind # "receive"

EndWindow(w) ==
    /\ Running(w, "peers") /\ ~worker[w].blocked
    /\ completed' = IF LeftNothing(w) THEN worker[w].current ELSE completed
    /\ backoff' = FALSE
    /\ worker' = [worker EXCEPT ![w] = NoRun]
    /\ LetGo("worker")
    /\ UNCHANGED <<lengthVars, streamVars, trigger, reserved, client>>

\* An error in the window: budget, cancellation, trust, storage, review.
FailWindow(w) ==
    /\ worker[w].pc \in {"push", "receipt", "peers"}
    /\ backoff' = TRUE
    /\ worker' = [worker EXCEPT ![w] = NoRun]
    /\ LetGo("worker")
    /\ UNCHANGED <<lengthVars, streamVars, trigger, completed, reserved, client>>

\* The process ends early: a busy lock, a backoff, or it is killed.
EndProcess(w) ==
    /\ ~Running(w, "idle")
    /\ worker' = [worker EXCEPT ![w] = NoRun]
    /\ LetGoAll(w)
    /\ UNCHANGED <<lengthVars, streamVars, controlVars, client>>

----------------------------------------------------------------------------
(* Time. *)

BackoffExpires ==
    /\ backoff /\ backoff' = FALSE
    /\ UNCHANGED <<lengthVars, streamVars, trigger, completed, reserved, locks, client, worker>>

ReservationExpires ==
    /\ reserved /\ reserved' = FALSE
    /\ UNCHANGED <<lengthVars, streamVars, trigger, completed, backoff, locks, client, worker>>

ClientStep(c) ==
    \/ LocalWrite(c) \/ OtherEvent(c) \/ BeginEnqueue(c) \/ Enqueue(c)
    \/ Probe(c) \/ EndProbe(c) \/ Launch(c) \/ GiveUp(c)

WindowStep(w) ==
    \/ DecideTrigger(w) \/ WorkerEnqueue(w) \/ EndCommand(w) \/ BeginWindow(w) \/ Upload(w) \/ SaveReceipt(w)
    \/ PublishPage(w) \/ StopPublishing(w) \/ ReceiveBatch(w) \/ EndWindow(w)

WorkerStep(w) ==
    \/ Command(w) \/ TakeWorkerLock(w) \/ Operate(w)
    \/ WindowStep(w) \/ FailWindow(w) \/ EndProcess(w)

Next ==
    \/ \E c \in Client : ClientStep(c)
    \/ \E w \in Worker : WorkerStep(w)
    \/ BackoffExpires \/ ReservationExpires

Spec == Init /\ [][Next]_vars

----------------------------------------------------------------------------
(* Properties *)

Delivered == IF Cloud THEN sent ELSE published.cursor
Waiting == Delivered + 1 .. length

\* Control files and process memory hold what the code reads back.
SyncTypeOK ==
    /\ length \in Nat /\ quiet \cup forwarded \subseteq 1 .. length
    /\ published \in [after : Nat, cursor : Nat] /\ sent \in Nat
    /\ remote \subseteq [after : Nat, cursor : Nat]
    /\ trigger \in BOOLEAN /\ completed \in BOOLEAN /\ backoff \in BOOLEAN /\ reserved \in BOOLEAN
    /\ locks \in [{"worker", "launch", "trigger"} -> SUBSET (Client \cup Worker)]
    /\ \A l \in DOMAIN locks : Cardinality(locks[l]) <= 1
    /\ client \in [Client -> {"idle", "notify", "queue", "spawn", "probing", "launch"}]
    /\ \A w \in Worker : worker[w].round \in 0 .. MaximumBatches

\* No announced write is forgotten: when `status` reports nothing pending, all
\* that local writers announced has left, to the remote if there is one.
AnnouncedStaysPending ==
    ~Pending => Waiting \subseteq quiet \cup forwarded

\* "every received batch keeps a later pass due": what came from a peer and has
\* not been forwarded when the window is over is reported as pending.
ReceivedStaysPending ==
    Free("worker") /\ ~Pending => Waiting \cap forwarded = {}

\* The remote is at most one batch behind the local stream, so that the file
\* _push_pending looks for exists, and it holds a gap-free prefix of it.
RemoteIsPrefix ==
    Cloud =>
        /\ published.cursor = sent \/ published.after = sent
        /\ sent > 0 => \E b \in remote : b.cursor = sent
        /\ \A b \in remote :
            /\ b.cursor <= sent \/ b = published
            /\ b.after > 0 => \E p \in remote : p.cursor = b.after

\* A process that does not run to its end although nothing stops it.
Trouble ==
    \/ \E c \in Client : GiveUp(c) /\ client[c] \in {"queue", "probing"}
    \/ \E w \in Worker :
        \/ FailWindow(w)
        \/ EndProcess(w) /\ w \in locks["worker"]
        \/ StopPublishing(w) /\ (worker'[w].blocked \/ worker'[w].more # worker[w].more)

\* Events keep coming and notify, processes run, time passes; operators issue
\* commands for a while only, and trouble ends some day.  A lock attempt or a
\* launch that is possible again and again succeeds some day.
Fairness ==
    /\ <>[][~Trouble]_vars /\ <>[][~\E w \in Worker : Command(w)]_vars
    /\ WF_vars(BackoffExpires) /\ WF_vars(ReservationExpires)
    /\ \A c \in Client :
        /\ WF_vars(OtherEvent(c) \/ Enqueue(c) \/ EndProbe(c))
        /\ SF_vars(BeginEnqueue(c)) /\ SF_vars(Probe(c)) /\ SF_vars(Launch(c))
    /\ \A w \in Worker :
        /\ SF_vars(TakeWorkerLock(w))
        /\ WF_vars(WindowStep(w))
        /\ WF_vars(EndProcess(w))

FairSpec == Spec /\ Fairness

\* Whatever is in the delivery log gets out some day, written here or received
\* from a peer, however notifications and launches collide.
LogGetsDelivered ==
    \A i \in 1 .. MaxLength : length >= i ~> Delivered >= i
=============================================================================
