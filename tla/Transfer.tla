------------------------------ MODULE Transfer ------------------------------
(***************************************************************************)
(* One publisher and several receivers of its stream around one exchange   *)
(* directory: Publisher and Receiver composed, interleaved file write by   *)
(* file write.  They share nothing but the files of the exchange.          *)
(***************************************************************************)
EXTENDS Publisher, Receiver

publisherOnly == <<vaultVars, journal, op, exposed>>
transferVars == <<pubVars, recvVars>>

TransferInit == PubInit /\ RecvInit

TransferNext ==
    \/ PubNext /\ UNCHANGED recvVars
    \/ \E r \in Receiver : ReceiverStep(r) /\ UNCHANGED publisherOnly

TransferSpec == TransferInit /\ [][TransferNext]_transferVars

\* Receivers are scheduled like the publisher: a call that began runs to its
\* end or its error, interruptions end some day, and receive is called again
\* and again (the sync worker's window does both).
RContinue(r) ==
    /\ ~RAt(r, "idle")
    /\ (Select(r) \/ StageFragment(r) \/ Admit(r) \/ WriteHead(r))
    /\ UNCHANGED publisherOnly

RInterrupted(r) ==
    RStop(r) /\ UNCHANGED publisherOnly /\ ~RContinue(r) /\ ENABLED RContinue(r)

ReceiverFairness(r) ==
    /\ <>[][~RInterrupted(r)]_transferVars
    /\ WF_transferVars(RContinue(r))
    /\ WF_transferVars(RStop(r) /\ UNCHANGED publisherOnly)
    /\ SF_transferVars(BeginReceive(r) /\ UNCHANGED publisherOnly)

FairTransferSpec ==
    TransferSpec /\ PubFairness /\ \A r \in Receiver : ReceiverFairness(r)

----------------------------------------------------------------------------
(* Properties *)

\* The files, journals and calls implement one append-only stream of which
\* every receiver holds a prefix: what is ever visible is committed once, in
\* order, and each receiver admits exactly the committed batches, in order.
Promise == INSTANCE Stream WITH stream <- exposed, taken <- receipts

ImplementsStream == Promise!Spec

\* A thin batch leaves out only what its receivers hold: whoever has taken the
\* batches before it and trusts all records passes the closure check of the
\* admission transaction, whatever was excluded, revoked or requeued before.
ContinuationIsIngestible ==
    \A r \in Receiver, b \in exposed :
        receipts[r] = {p \in exposed : p.cursor <= b.after} /\ Untrusted(r) = {}
            => Ingestible(r, b)

\* Whatever a vault delivers reaches every receiver that trusts the records,
\* wherever calls of either side are cut short.
EverythingArrives ==
    \A r \in Receiver : \A c \in 1 .. MaxLog :
        Len(log) >= c /\ Untrusted(r) = {} ~> recv[r].cursor >= c
=============================================================================
