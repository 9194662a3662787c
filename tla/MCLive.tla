------------------------------- MODULE MCLive -------------------------------
(***************************************************************************)
(* Small instances of the transfer side by side, told apart by `part`: for *)
(* safety a publisher that loses its state.json, which is the module as    *)
(* the cfg gives it; for liveness a publisher with a review to answer, and *)
(* a publisher with a receiver.  Record 3 needs an approval and record 4   *)
(* holds a credential: they are for the first of them, 1 and 2 for others. *)
(***************************************************************************)
EXTENDS Transfer

\* Record 2 was derived from record 1, and record 4 from record 3.
MCDeps == [x \in Record |-> IF x \in {1, 3} THEN {} ELSE {x - 1}]

VARIABLE part

Calm == INSTANCE Transfer WITH Faults <- {}, MaxLog <- 2
Pair == INSTANCE Transfer WITH Faults <- {}, MaxLog <- 2, Request <- {}, CallFragments <- 2

MCInit ==
    /\ \/ part = "lossy" /\ TransferInit
       \/ part = "publisher" /\ Calm!TransferInit
       \/ part = "pair" /\ Pair!TransferInit
    /\ \A r \in Receiver : {3, 4} \cap Untrusted(r) = {}

MCNext ==
    /\ UNCHANGED part
    /\ \/ part = "lossy" /\ PubNext /\ Logged' \cap {1, 2} = {} /\ UNCHANGED recvVars
       \/ part = "publisher" /\ Calm!PubNext /\ Logged' \cap {3, 4} = {} /\ UNCHANGED recvVars
       \/ part = "pair" /\ Pair!TransferNext /\ Logged' \cap {3, 4} = {}

\* PubFairness and FairTransferSpec, each where it belongs.
MCContinue == (part = "publisher" /\ Calm!Continue) \/ (part = "pair" /\ Pair!Continue)
MCInterrupted == (part = "publisher" /\ Calm!Interrupted) \/ (part = "pair" /\ Pair!Interrupted)
MCBegin == (part = "publisher" /\ Calm!BeginPublish) \/ (part = "pair" /\ Pair!BeginPublish)
MCResume == part = "publisher" /\ \E q \in Request : Calm!ResumeReview(q)

MCReceiverFairness(r) ==
    /\ <>[][~(part = "pair" /\ Pair!RInterrupted(r))]_transferVars
    /\ WF_transferVars(part = "pair" /\ Pair!RContinue(r))
    /\ WF_transferVars(part = "pair" /\ Pair!RStop(r) /\ UNCHANGED publisherOnly)
    /\ SF_transferVars(part = "pair" /\ Pair!BeginReceive(r) /\ UNCHANGED publisherOnly)

MCFairness ==
    /\ <>[][~MCInterrupted]_pubVars
    /\ WF_pubVars(MCContinue) /\ WF_pubVars(Stop)
    /\ SF_pubVars(MCBegin) /\ SF_pubVars(MCResume)
    /\ \A r \in Receiver : MCReceiverFairness(r)

MCSpec == MCInit /\ [][MCNext]_<<transferVars, part>> /\ MCFairness

\* Wherever calls of publish and resolve_pending are cut short, repeated calls
\* get every delivery past the publisher.
LiveDeliveriesGetPublished == part = "publisher" => Calm!DeliveriesGetPublished

\* Every delivery of the source vault reaches the receiver.
LiveEverythingArrives == part = "pair" => Pair!EverythingArrives
=============================================================================
