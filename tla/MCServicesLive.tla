--------------------------- MODULE MCServicesLive ---------------------------
(***************************************************************************)
(* Liveness of three small instances side by side, told apart by `part`:   *)
(* the sync worker, two endpoints of a private network, and the move of a  *)
(* relay node's store to another node.                                     *)
(***************************************************************************)
EXTENDS SyncWorker

CONSTANTS Message, Invalid, Address, Sending, Receiving, PageLimit, MaxVersion, MaxEpoch
CONSTANTS Source, Target, Pass
VARIABLES control, node, endpoint, outbox, inbox, rejected, acked, call
VARIABLES directory, relay, objects, pass, late, part

Net == INSTANCE RelayNetwork
Move == INSTANCE NodeTransfer WITH Node <- {Source, Target}, Newcomer <- {}, MaxLate <- 0

netVars == <<control, node, endpoint, outbox, inbox, rejected, acked, call>>
nodeVars == <<directory, relay, objects, pass, late>>
all == <<vars, netVars, nodeVars, part>>
InSync(A) == part = "sync" /\ A /\ UNCHANGED <<netVars, nodeVars, part>>
InNet(A) == part = "network" /\ A /\ UNCHANGED <<vars, nodeVars, part>>

\* Only one of the two nodes is ever exported.
InMove(A) == part = "move" /\ A /\ relay'[Target].export = Move!None /\ UNCHANGED <<vars, netVars, part>>

MCInit == Init /\ Net!NetInit /\ Move!NodeInit /\ part \in {"sync", "network", "move"}
MCNext == InSync(Next) \/ InNet(Net!NetNext) \/ InMove(Move!NodeNext)

\* Fairness, Net!NetFairness and Move!NodeFairness, each where it belongs.  Of two fair actions in
\* different parts at most one is ever enabled, so that fairness of their
\* disjunction is fairness of each.
MCTrouble ==
    \/ part = "sync" /\ (Trouble \/ \E w \in Worker : Command(w))
    \/ part = "network" /\ \E p \in Sending \cup Receiving : Net!NetInterrupted(p)
    \/ part = "move" /\ \E p \in Pass : Move!PassInterrupted(p)

MCFairness ==
    /\ <>[][~MCTrouble]_all
    /\ \A c \in Client, w \in Worker, s \in Sending, r \in Receiving, a \in Address, p \in Pass :
        /\ WF_all(InSync(BackoffExpires) \/ InNet(Net!Continue(s)) \/ InMove(Move!Proceed(p)))
        /\ WF_all(InSync(ReservationExpires) \/ InNet(Net!Stop(s)) \/ InMove(Move!StopPass(p)))
        /\ WF_all(InSync(OtherEvent(c) \/ Enqueue(c) \/ EndProbe(c)) \/ InNet(Net!Continue(r)))
        /\ WF_all(InSync(WindowStep(w)) \/ InNet(Net!Stop(r)))
        /\ WF_all(InSync(EndProcess(w)) \/ InNet(Net!Authorize(a)))
        /\ SF_all(InSync(BeginEnqueue(c)) \/ InNet(Net!BeginDeliver(s, a))
                  \/ InMove(Move!BeginPass(p, Source, Target)))
        /\ SF_all(InSync(Probe(c)) \/ InNet(Net!BeginReceiving(s, a)))
        /\ SF_all(InSync(Launch(c)) \/ InNet(Net!BeginReceiving(r, a)))
        /\ SF_all(InSync(TakeWorkerLock(w)))

MCSpec == MCInit /\ [][MCNext]_all /\ MCFairness

\* However notifications, probes, reservations, backoffs and windows collide,
\* everything in the delivery log leaves some day.
LiveLogGetsDelivered == part = "sync" => LogGetsDelivered

\* What an endpoint of a private network queues arrives and is confirmed, also
\* when the node that stored it is replaced by an empty one.
LiveQueuedIsConfirmed == part = "network" => Net!QueuedIsConfirmed

\* A node that was frozen for a move is handed over, however its passes were cut
\* short, unless the target is not fit for it.
LiveFrozenIsHandedOver == part = "move" => Move!FrozenIsHandedOver
=============================================================================
