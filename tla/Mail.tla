-------------------------------- MODULE Mail --------------------------------
(***************************************************************************)
(* What both networks promise of messages, without nodes, pages, receipts  *)
(* or calls: a message is sealed in one letter, a letter that is saved     *)
(* stays saved, and the sender counts a message as received only when its  *)
(* letter is saved.  A refused letter stays refused in the private         *)
(* network; in the open one another process may still accept it.           *)
(***************************************************************************)

CONSTANT
    Overruling   \* whether a refused letter may be accepted after all

VARIABLES
    sealed,      \* letters the sender has frozen
    saved,       \* letters the recipient has accepted
    refused,     \* letters whose content it cannot accept
    confirmed    \* messages the sender reports as received

Init == sealed = {} /\ saved = {} /\ refused = {} /\ confirmed = {}

\* No message is in two letters.
Seal ==
    \E l \in sealed' \ sealed :
        /\ \A k \in sealed : k.message # l.message
        /\ sealed' = sealed \cup {l}
        /\ UNCHANGED <<saved, refused, confirmed>>

Accept ==
    \E l \in sealed \ saved :
        /\ l \in refused => Overruling
        /\ saved' = saved \cup {l}
        /\ refused' = refused \ {l}
        /\ UNCHANGED <<sealed, confirmed>>

Refuse ==
    \E l \in sealed \ (saved \cup refused) :
        /\ refused' = refused \cup {l}
        /\ UNCHANGED <<sealed, saved, confirmed>>

Confirm ==
    /\ confirmed \subseteq confirmed' /\ confirmed' \subseteq {l.message : l \in saved}
    /\ UNCHANGED <<sealed, saved, refused>>

Next == Seal \/ Accept \/ Refuse \/ Confirm

Spec == Init /\ [][Next]_<<sealed, saved, refused, confirmed>>
=============================================================================
