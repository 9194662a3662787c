------------------------------- MODULE Stream -------------------------------
(***************************************************************************)
(* What transfer promises, without files, locks, journals or calls: one    *)
(* append-only stream of batches, and every receiver holds a prefix of it. *)
(* A batch is committed at the moment readers can first see it and taken   *)
(* in one atomic step with everything the receiver records about it.       *)
(***************************************************************************)
EXTENDS Naturals

CONSTANT Receiver

VARIABLES
    stream,      \* the committed batches
    taken        \* taken[r]: the batches receiver r has admitted

Init ==
    /\ stream = {}
    /\ taken = [r \in Receiver |-> {}]

\* The end of a stream is the highest cursor of its batches.
EndsAt(S, c) ==
    /\ \A b \in S : b.cursor <= c
    /\ IF S = {} THEN c = 0 ELSE \E b \in S : b.cursor = c

\* The next batch starts where the stream ends and names the last batch.
Commit ==
    \E b \in stream' \ stream :
        /\ stream' = stream \cup {b}
        /\ EndsAt(stream, b.after)
        /\ b.cursor > b.after
        /\ b.prev = {p \in stream : p.cursor = b.after}
        /\ UNCHANGED taken

\* A receiver takes the batch that follows all it has, which is all before it.
Take(r) ==
    \E b \in stream :
        /\ taken[r] = {p \in stream : p.cursor <= b.after}
        /\ taken' = [taken EXCEPT ![r] = @ \cup {b}]
        /\ UNCHANGED stream

Next == Commit \/ \E r \in Receiver : Take(r)

Spec == Init /\ [][Next]_<<stream, taken>>
=============================================================================
