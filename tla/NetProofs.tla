------------------------------ MODULE NetProofs ------------------------------
(***************************************************************************)
(* Proofs about RelayNetwork, for any messages, addresses, processes and   *)
(* page sizes, and any number of documents and incarnations; and, at the   *)
(* end, about AckSlot, which shares nothing with it.                       *)
(*                                                                         *)
(* What each process has read is stale as soon as it has it.  The          *)
(* invariant says for how long it still holds: an answer of a node speaks  *)
(* for as long as its incarnation serves the address (CallInv), and of two *)
(* documents of the authority the one of the higher version names the      *)
(* later incarnation (AnswersInv), so that a checkpoint protects an        *)
(* endpoint from being bound backwards.                                    *)
(***************************************************************************)
EXTENDS RelayNetwork, AckSlot, SequenceTheorems, WellFoundedInduction, TLAPS

Envelope == [message : Message, version : Nat, by : Process]

\* The envelope the sender froze for a message.
Genuine(e) == e \in Envelope /\ outbox[e.message].envelope = {e}

Saved == inbox \cup rejected

\* Of the first k messages at an address, what is neither saved nor in S is of
\* a sender that is no member any more.
Settled(a, k, S) ==
    /\ k \in Nat /\ k <= Len(node[a].messages)
    /\ "sender" \in control.members => \A i \in 1 .. k : node[a].messages[i] \in Saved \cup S

\* The node has the envelope of a message.
Holds(a, m) == outbox[m].envelope # {} /\ outbox[m].envelope \subseteq ToSet(node[a].messages)

ControlInv ==
    /\ control = [version |-> control.version, members |-> control.members, epoch |-> control.epoch]
    /\ control.version \in Nat /\ control.members \subseteq Agent
    /\ DOMAIN control.epoch = Address
    /\ \A a \in Address : control.epoch[a] \in Nat /\ control.epoch[a] <= node[a].epoch

NodeInv(a) ==
    /\ node[a] = [epoch |-> node[a].epoch, version |-> node[a].version, members |-> node[a].members,
                  messages |-> node[a].messages, receipts |-> node[a].receipts]
    /\ node[a].epoch \in Nat
    /\ node[a].messages \in Seq(Envelope) /\ node[a].receipts \in Seq(Envelope)
    /\ node[a].members = {} \/ control.members \subseteq node[a].members
    /\ \A i \in 1 .. Len(node[a].messages) : Genuine(node[a].messages[i])
    /\ \A i \in 1 .. Len(node[a].receipts) : node[a].receipts[i] \in inbox

EndpointInv(g) ==
    /\ endpoint[g] = [version |-> endpoint[g].version, bound |-> endpoint[g].bound,
                      cursor |-> endpoint[g].cursor]
    /\ endpoint[g].version \in Nat /\ endpoint[g].version <= control.version
    /\ DOMAIN endpoint[g].bound = Address /\ DOMAIN endpoint[g].cursor = Address
    /\ \A a \in Address :
        /\ endpoint[g].bound[a] \in Nat /\ endpoint[g].bound[a] <= control.epoch[a]
        /\ endpoint[g].cursor[a] \in Nat
        /\ g = "recipient" /\ Current(g, a) => Settled(a, endpoint[g].cursor[a], {})

OutboxInv(m) ==
    /\ outbox[m] = [queued |-> outbox[m].queued, envelope |-> outbox[m].envelope,
                    receipts |-> outbox[m].receipts]
    /\ \A e \in outbox[m].envelope : e.message = m /\ Genuine(e)
    /\ outbox[m].receipts \subseteq Address
    /\ \A a \in outbox[m].receipts : Current("sender", a) => Holds(a, m)

\* A document of the authority that a process was shown.
StatusInv(s) ==
    /\ s.version \in Nat /\ s.version <= control.version /\ control.members \subseteq s.members
    /\ \A a \in Address : s.epoch[a] \in Nat /\ s.epoch[a] <= control.epoch[a]
    /\ s.version = control.version => s.epoch = control.epoch

WithStatus == {"status", "bound", "fresh", "asked", "page"}

CallInv(p) ==
    /\ call[p].pc \in {"idle", "status", "bound", "fresh", "sealed", "posted", "asked", "page"}
    /\ call[p].pc # "idle" =>
        /\ call[p].address \in Address
        /\ call[p].epoch \in Nat /\ call[p].epoch <= node[call[p].address].epoch
    /\ call[p].pc \in WithStatus => StatusInv(call[p].status)
    /\ call[p].pc \in {"status", "bound", "fresh"} =>
        /\ call[p] = [pc |-> call[p].pc, address |-> call[p].address, epoch |-> call[p].epoch,
                      status |-> call[p].status, message |-> call[p].message]
        /\ call[p].message = {} \/ (p \in Sending /\ \E m \in Message : call[p].message = {m})
    /\ call[p].pc \in {"sealed", "posted"} => p \in Sending
    /\ call[p].pc = "sealed" =>
        \E m \in Message :
            /\ call[p].message = {m} /\ outbox[m].envelope # {}
            /\ call[p].envelope = outbox[m].envelope
    /\ call[p].pc = "posted" =>
        /\ call[p].storedBy \in Nat /\ call[p].storedBy <= node[call[p].address].epoch
        /\ \E m \in Message :
            /\ call[p].message = {m}
            /\ call[p].storedBy = node[call[p].address].epoch => Holds(call[p].address, m)
    /\ call[p].pc = "asked" =>
        /\ call[p].cursor \in Nat
        /\ p \in Receiving /\ call[p].epoch = node[call[p].address].epoch =>
            Settled(call[p].address, call[p].cursor, {})
    /\ call[p].pc = "page" =>
        /\ call[p] = [pc |-> call[p].pc, address |-> call[p].address, epoch |-> call[p].epoch,
                      status |-> call[p].status, rows |-> call[p].rows, cursor |-> call[p].cursor,
                      unacked |-> call[p].unacked]
        /\ call[p].cursor \in Nat /\ call[p].rows \in Seq(Envelope)
        /\ \A i \in 1 .. Len(call[p].rows) : Genuine(call[p].rows[i])
        /\ call[p].unacked \subseteq inbox
        /\ p \in Receiving /\ call[p].epoch = node[call[p].address].epoch =>
            Settled(call[p].address, call[p].cursor, ToSet(call[p].rows))
        /\ p \in Sending => ToSet(call[p].rows) \subseteq inbox

\* Of two documents the higher version names the later incarnations, and none
\* that a checkpoint lets pass names an incarnation before the bound one.
AnswersInv ==
    /\ \A p, q \in Process :
        call[p].pc \in WithStatus /\ call[q].pc \in WithStatus
            /\ call[p].status.version <= call[q].status.version =>
                \A a \in Address : call[p].status.epoch[a] <= call[q].status.epoch[a]
    /\ \A p \in Process, g \in Agent :
        call[p].pc \in WithStatus /\ call[p].status.version >= endpoint[g].version =>
            \A a \in Address : endpoint[g].bound[a] <= call[p].status.epoch[a]

SavedInv ==
    /\ inbox \subseteq Envelope /\ rejected \subseteq Envelope /\ acked \subseteq Message
    /\ \A e \in Saved : Genuine(e)
    /\ \A m \in acked : outbox[m].envelope # {}
    /\ AckedIsSaved

NetDomains ==
    /\ DOMAIN node = Address /\ DOMAIN endpoint = Agent /\ DOMAIN outbox = Message
    /\ DOMAIN call = Process

NetInv ==
    /\ NetDomains /\ ControlInv /\ SavedInv /\ AnswersInv
    /\ \A a \in Address : NodeInv(a)
    /\ \A g \in Agent : EndpointInv(g)
    /\ \A m \in Message : OutboxInv(m)
    /\ \A p \in Process : CallInv(p)

----------------------------------------------------------------------------
(* Sequences and bounds *)

LEMMA ElementsOf ==
    ASSUME NEW S, NEW s \in Seq(S)
    PROVE  /\ Len(s) \in Nat /\ DOMAIN s = 1 .. Len(s)
           /\ ToSet(s) = {s[i] : i \in 1 .. Len(s)} /\ ToSet(s) \subseteq S
BY DEF ToSet

LEMMA Appended ==
    ASSUME NEW S, NEW s \in Seq(S), NEW e \in S
    PROVE  /\ Append(s, e) \in Seq(S) /\ Len(Append(s, e)) = Len(s) + 1
           /\ \A i \in 1 .. Len(s) : Append(s, e)[i] = s[i]
           /\ Append(s, e)[Len(s) + 1] = e
           /\ ToSet(Append(s, e)) = ToSet(s) \cup {e}
<1>1. /\ Append(s, e) \in Seq(S) /\ Len(Append(s, e)) = Len(s) + 1 /\ Len(s) \in Nat
      /\ \A i \in 1 .. Len(s) : Append(s, e)[i] = s[i]
      /\ Append(s, e)[Len(s) + 1] = e
    OBVIOUS
<1>2. /\ ToSet(s) = {s[i] : i \in 1 .. Len(s)}
      /\ ToSet(Append(s, e)) = {Append(s, e)[i] : i \in 1 .. Len(s) + 1}
    BY <1>1, ElementsOf
<1>3. ASSUME NEW x PROVE x \in ToSet(Append(s, e)) <=> x \in ToSet(s) \/ x = e
    <2>1. 1 .. Len(s) + 1 = (1 .. Len(s)) \cup {Len(s) + 1}
        BY <1>1
    <2> QED
        BY <1>1, <1>2, <2>1
<1> QED
    BY <1>1, <1>3

LEMMA EmptyHasNone == ToSet(<<>>) = {}
<1>1. <<>> \in Seq({}) /\ 1 .. Len(<<>>) = {}
    OBVIOUS
<1> QED
    BY <1>1, ElementsOf

LEMMA HeadAndTail ==
    ASSUME NEW S, NEW s \in Seq(S), s # <<>>
    PROVE  /\ Tail(s) \in Seq(S) /\ Head(s) \in S /\ Len(Tail(s)) + 1 = Len(s)
           /\ \A i \in 1 .. Len(Tail(s)) : Tail(s)[i] = s[i + 1] /\ i + 1 \in 1 .. Len(s)
           /\ 1 \in 1 .. Len(s) /\ Head(s) = s[1]
           /\ ToSet(s) = ToSet(Tail(s)) \cup {Head(s)}
<1>1. /\ Tail(s) \in Seq(S) /\ Head(s) \in S /\ Len(Tail(s)) + 1 = Len(s) /\ Len(s) \in Nat
      /\ Len(Tail(s)) \in Nat /\ Len(s) > 0
      /\ \A i \in 1 .. Len(Tail(s)) : Tail(s)[i] = s[i + 1]
      /\ Head(s) = s[1]
    OBVIOUS
<1>2. /\ ToSet(s) = {s[i] : i \in 1 .. Len(s)}
      /\ ToSet(Tail(s)) = {Tail(s)[i] : i \in 1 .. Len(Tail(s))}
    BY <1>1, ElementsOf
<1>3. ASSUME NEW x PROVE x \in ToSet(s) <=> x \in ToSet(Tail(s)) \/ x = Head(s)
    <2>1. ASSUME NEW i \in 1 .. Len(s) PROVE i = 1 \/ (i - 1 \in 1 .. Len(Tail(s)) /\ Tail(s)[i - 1] = s[i])
        BY <1>1
    <2>2. ASSUME NEW i \in 1 .. Len(Tail(s)) PROVE i + 1 \in 1 .. Len(s) /\ Tail(s)[i] = s[i + 1]
        BY <1>1
    <2>3. 1 \in 1 .. Len(s)
        BY <1>1
    <2>4. ASSUME x \in ToSet(s) PROVE x \in ToSet(Tail(s)) \/ x = Head(s)
        <3>1. PICK i \in 1 .. Len(s) : x = s[i]
            BY <1>2, <2>4
        <3> QED
            BY <1>1, <1>2, <2>1, <3>1
    <2>5. ASSUME x \in ToSet(Tail(s)) PROVE x \in ToSet(s)
        <3>1. PICK i \in 1 .. Len(Tail(s)) : x = Tail(s)[i]
            BY <1>2, <2>5
        <3> QED
            BY <1>2, <2>2, <3>1
    <2>6. Head(s) \in ToSet(s)
        BY <1>1, <1>2, <2>3
    <2> QED
        BY <2>4, <2>5, <2>6
<1>4. \A i \in 1 .. Len(Tail(s)) : i + 1 \in 1 .. Len(s)
    BY <1>1
<1>5. 1 \in 1 .. Len(s)
    BY <1>1
<1>6. ToSet(s) = ToSet(Tail(s)) \cup {Head(s)}
    BY <1>3
<1> QED
    BY <1>1, <1>4, <1>5, <1>6

LEMMA LargerOfTwo ==
    ASSUME NEW m \in Nat, NEW n \in Nat
    PROVE  /\ Max({m, n}) \in {m, n} /\ Max({m, n}) >= m /\ Max({m, n}) >= n
           /\ Min({m, n}) \in {m, n} /\ Min({m, n}) <= m /\ Min({m, n}) <= n
<1>1. \E x \in {m, n} : \A y \in {m, n} : x >= y
    OBVIOUS
<1>2. \E x \in {m, n} : \A y \in {m, n} : x <= y
    OBVIOUS
<1> QED
    BY <1>1, <1>2 DEF Max, Min

\* What a page holds, and where the cursor stands after it.
LEMMA PageOf ==
    ASSUME NEW S, NEW s \in Seq(S), NEW k \in Nat, NEW n \in Nat,
           n = Max({k, Min({k + PageLimit, Len(s)})})
    PROVE  /\ SubSeq(s, k + 1, n) \in Seq(S)
           /\ k <= Len(s) => n <= Len(s)
           /\ n <= Len(s) => \A i \in k + 1 .. n : s[i] \in ToSet(SubSeq(s, k + 1, n))
           /\ ToSet(SubSeq(s, k + 1, n)) \subseteq ToSet(s)
           /\ \A i \in 1 .. Len(SubSeq(s, k + 1, n)) : SubSeq(s, k + 1, n)[i] \in ToSet(s)
<1>1. Len(s) \in Nat /\ k + PageLimit \in Nat
    BY NetworkAssumption
<1>2. Min({k + PageLimit, Len(s)}) \in Nat /\ Min({k + PageLimit, Len(s)}) <= Len(s)
    BY <1>1, LargerOfTwo
<1>3. k <= n /\ (n = k \/ n <= Len(s))
    BY <1>1, <1>2, LargerOfTwo
<1> DEFINE t == SubSeq(s, k + 1, n)
<1>a. \A i \in k + 1 .. n : i \in 1 .. Len(s) /\ s[i] \in S
    BY <1>1, <1>3
<1>b. t \in Seq(S) /\ Len(t) = (IF k + 1 <= n THEN n - (k + 1) + 1 ELSE 0)
      /\ \A i \in 1 .. n - (k + 1) + 1 : t[i] = s[k + 1 + i - 1]
    <2>1. ASSUME NEW lo \in Int, NEW hi \in Int, \A i \in lo .. hi : s[i] \in S
          PROVE  /\ SubSeq(s, lo, hi) \in Seq(S)
                 /\ Len(SubSeq(s, lo, hi)) = IF lo <= hi THEN hi - lo + 1 ELSE 0
                 /\ \A i \in 1 .. hi - lo + 1 : SubSeq(s, lo, hi)[i] = s[lo + i - 1]
        BY <2>1, SubSeqProperties
    <2>2. \A i \in k + 1 .. n : s[i] \in S
        BY <1>a
    <2>3. k + 1 \in Int /\ n \in Int
        OBVIOUS
    <2> QED
        BY <2>1, <2>2, <2>3, Zenon
<1>4. t \in Seq(S) /\ Len(t) = n - k /\ \A i \in 1 .. Len(t) : t[i] = s[k + i] /\ k + i \in 1 .. Len(s)
    <2>1. Len(t) = n - k /\ n - (k + 1) + 1 = n - k
        BY <1>3, <1>b
    <2>2. ASSUME NEW i \in 1 .. Len(t) PROVE t[i] = s[k + i] /\ k + i \in 1 .. Len(s)
        <3>1. i \in 1 .. n - (k + 1) + 1 /\ k + 1 + i - 1 = k + i /\ k + i \in k + 1 .. n
            BY <1>3, <2>1
        <3> QED
            BY <1>a, <1>b, <3>1
    <2> QED
        BY <1>b, <2>1, <2>2
<1>5. ToSet(t) = {t[i] : i \in 1 .. Len(t)} /\ ToSet(s) = {s[i] : i \in 1 .. Len(s)}
    <2>1. t \in Seq(S)
        BY <1>4
    <2> HIDE DEF t
    <2> QED
        BY <2>1, ElementsOf
<1>6. ASSUME n <= Len(s), NEW i \in k + 1 .. n PROVE s[i] \in ToSet(t)
    <2>1. i - k \in 1 .. Len(t) /\ t[i - k] = s[i]
        BY <1>3, <1>4
    <2> QED
        BY <1>5, <2>1
<1>7. \A i \in 1 .. Len(t) : t[i] \in ToSet(s)
    BY <1>4, <1>5
<1> QED
    BY <1>1, <1>3, <1>4, <1>5, <1>6, <1>7


----------------------------------------------------------------------------
(* What no step takes back *)

Later ==
    /\ control'.version \in Nat /\ control'.version >= control.version
    /\ control'.members \subseteq control.members
    /\ \A a \in Address : control'.epoch[a] \in Nat /\ control'.epoch[a] >= control.epoch[a]
    /\ control'.version = control.version => control'.epoch = control.epoch
    /\ \A a \in Address :
        /\ node'[a].epoch \in Nat /\ node'[a].epoch >= node[a].epoch
        /\ node'[a].epoch = node[a].epoch =>
            /\ Len(node[a].messages) <= Len(node'[a].messages)
            /\ \A i \in 1 .. Len(node[a].messages) : node'[a].messages[i] = node[a].messages[i]
    /\ \A a \in Address : node'[a].messages \in Seq(Envelope)
    /\ inbox \subseteq inbox' /\ rejected \subseteq rejected'
    /\ \A m \in Message : outbox[m].envelope # {} => outbox'[m].envelope = outbox[m].envelope

LEMMA GenuineKept ==
    ASSUME Later, NEW e, Genuine(e)
    PROVE  Genuine(e)'
<1>1. e \in Envelope /\ e.message \in Message /\ outbox[e.message].envelope = {e}
    BY DEF Genuine, Envelope
<1>2. outbox'[e.message].envelope = {e}
    BY <1>1 DEF Later
<1> QED
    BY <1>1, <1>2 DEF Genuine, Envelope

LEMMA SettledKept ==
    ASSUME Later, NEW a \in Address, NodeInv(a), node'[a].epoch = node[a].epoch,
           NEW k, NEW S, NEW T, Settled(a, k, S), S \subseteq Saved' \cup T
    PROVE  Settled(a, k, T)'
<1>1. /\ k \in Nat /\ k <= Len(node[a].messages) /\ Len(node[a].messages) \in Nat
      /\ Len(node'[a].messages) \in Nat
    BY DEF Settled, NodeInv, Later
<1>2. /\ Len(node[a].messages) <= Len(node'[a].messages)
      /\ \A i \in 1 .. Len(node[a].messages) : node'[a].messages[i] = node[a].messages[i]
    BY DEF Later
<1>3. Saved \subseteq Saved'
    BY DEF Later, Saved
<1>4. ASSUME "sender" \in control'.members, NEW i \in 1 .. k
      PROVE  node'[a].messages[i] \in Saved' \cup T
    <2>1. "sender" \in control.members
        BY <1>4 DEF Later
    <2>2. node[a].messages[i] \in Saved \cup S
        BY <2>1 DEF Settled
    <2>3. i \in 1 .. Len(node[a].messages)
        BY <1>1
    <2> QED
        BY <1>2, <1>3, <2>2, <2>3
<1> QED
    BY <1>1, <1>2, <1>4 DEF Settled, Saved

LEMMA HoldsKept ==
    ASSUME Later, NEW a \in Address, NodeInv(a), node'[a].epoch = node[a].epoch,
           NEW m \in Message, Holds(a, m)
    PROVE  Holds(a, m)'
<1>1. /\ Len(node[a].messages) <= Len(node'[a].messages)
      /\ \A i \in 1 .. Len(node[a].messages) : node'[a].messages[i] = node[a].messages[i]
    BY DEF Later
<1>2. node[a].messages \in Seq(Envelope) /\ node'[a].messages \in Seq(Envelope)
    BY DEF Later, NodeInv
<1>3. /\ ToSet(node[a].messages) = {node[a].messages[i] : i \in 1 .. Len(node[a].messages)}
      /\ ToSet(node'[a].messages) = {node'[a].messages[i] : i \in 1 .. Len(node'[a].messages)}
    BY <1>2, ElementsOf
<1>4. Len(node[a].messages) \in Nat /\ Len(node'[a].messages) \in Nat
    BY <1>2
<1>5. ToSet(node[a].messages) \subseteq ToSet(node'[a].messages)
    BY <1>1, <1>3, <1>4
<1>6. outbox'[m].envelope = outbox[m].envelope /\ outbox[m].envelope # {}
    BY DEF Later, Holds
<1> QED
    BY <1>5, <1>6 DEF Holds

LEMMA StatusKept ==
    ASSUME ControlInv, Later, NEW s, StatusInv(s)
    PROVE  StatusInv(s)'
<1>1. control.version \in Nat /\ s.version \in Nat /\ s.version <= control.version
    BY DEF ControlInv, StatusInv
<1>2. control'.version \in Nat /\ control'.version >= control.version
    BY DEF Later
<1>3. control'.members \subseteq s.members
    BY DEF StatusInv, Later
<1>4. ASSUME NEW a \in Address PROVE s.epoch[a] \in Nat /\ s.epoch[a] <= control'.epoch[a]
    BY DEF StatusInv, Later, ControlInv
<1>5. ASSUME s.version = control'.version PROVE s.epoch = control'.epoch
    BY <1>1, <1>2, <1>5 DEF StatusInv, Later
<1> QED
    BY <1>1, <1>2, <1>3, <1>4, <1>5 DEF StatusInv

----------------------------------------------------------------------------
(* What a step leaves alone stays right *)

LEMMA NodeKept ==
    ASSUME Later, NEW a \in Address, NodeInv(a), node'[a] = node[a]
    PROVE  NodeInv(a)'
<1> DEFINE n == node[a]
<1>1. \A i \in 1 .. Len(n.messages) :
        n.messages[i] \in Envelope /\ outbox'[n.messages[i].message].envelope = {n.messages[i]}
    BY GenuineKept DEF NodeInv, Genuine
<1>2. \A i \in 1 .. Len(n.receipts) : n.receipts[i] \in inbox'
    BY DEF NodeInv, Later
<1>3. n.members = {} \/ control'.members \subseteq n.members
    BY DEF NodeInv, Later
<1>4. /\ n = [epoch |-> n.epoch, version |-> n.version, members |-> n.members,
               messages |-> n.messages, receipts |-> n.receipts]
      /\ n.epoch \in Nat /\ n.messages \in Seq(Envelope) /\ n.receipts \in Seq(Envelope)
    BY DEF NodeInv
<1> QED
    BY <1>1, <1>2, <1>3, <1>4 DEF NodeInv, Genuine, Envelope

\* A binding never names an incarnation that does not exist yet.
LEMMA CurrentKept ==
    ASSUME Later, NEW a \in Address, NEW g \in Agent, NodeInv(a), EndpointInv(g), ControlInv,
           endpoint'[g].bound[a] = endpoint[g].bound[a], Current(g, a)'
    PROVE  Current(g, a) /\ node'[a].epoch = node[a].epoch
<1>1. /\ endpoint[g].bound[a] \in Nat /\ endpoint[g].bound[a] <= control.epoch[a]
      /\ control.epoch[a] \in Nat /\ control.epoch[a] <= node[a].epoch
    BY DEF EndpointInv, ControlInv
<1>2. node[a].epoch \in Nat /\ node'[a].epoch \in Nat /\ node'[a].epoch >= node[a].epoch
    BY DEF NodeInv, Later
<1>3. endpoint[g].bound[a] = node'[a].epoch
    BY DEF Current
<1> QED
    BY <1>1, <1>2, <1>3 DEF Current

LEMMA EndpointKept ==
    ASSUME Later, ControlInv, \A a \in Address : NodeInv(a), NEW g \in Agent, EndpointInv(g),
           endpoint'[g] = endpoint[g]
    PROVE  EndpointInv(g)'
<1>1. endpoint[g].version \in Nat /\ endpoint[g].version <= control'.version
    BY DEF EndpointInv, Later, ControlInv
<1>2. ASSUME NEW a \in Address
      PROVE  /\ endpoint[g].bound[a] \in Nat /\ endpoint[g].bound[a] <= control'.epoch[a]
             /\ endpoint[g].cursor[a] \in Nat
             /\ g = "recipient" /\ Current(g, a)' => Settled(a, endpoint[g].cursor[a], {})'
    <2>1. endpoint[g].bound[a] \in Nat /\ endpoint[g].bound[a] <= control'.epoch[a]
        BY DEF EndpointInv, Later, ControlInv
    <2>2. endpoint[g].cursor[a] \in Nat
        BY DEF EndpointInv
    <2>3. ASSUME g = "recipient", Current(g, a)' PROVE Settled(a, endpoint[g].cursor[a], {})'
        <3>1. Current(g, a) /\ node'[a].epoch = node[a].epoch
            BY <2>3, CurrentKept
        <3>2. Settled(a, endpoint[g].cursor[a], {})
            BY <2>3, <3>1 DEF EndpointInv
        <3>3. endpoint'[g].cursor[a] = endpoint[g].cursor[a]
            OBVIOUS
        <3> DEFINE k == endpoint[g].cursor[a]
        <3>4. ASSUME NEW k0, k0 = endpoint[g].cursor[a] PROVE Settled(a, k0, {})'
            BY <3>1, <3>2, <3>4, SettledKept
        <3> QED
            BY <3>3, <3>4 DEF Settled, Saved
    <2> QED
        BY <2>1, <2>2, <2>3
<1> QED
    BY <1>1, <1>2 DEF EndpointInv

\* A storage receipt stays true while the sender stays bound.
LEMMA ReceiptKept ==
    ASSUME Later, ControlInv, NEW a \in Address, NodeInv(a), EndpointInv("sender"),
           endpoint'["sender"].bound[a] = endpoint["sender"].bound[a],
           NEW m \in Message, OutboxInv(m), a \in outbox[m].receipts, Current("sender", a)'
    PROVE  Holds(a, m)'
<1>1. Current("sender", a) /\ node'[a].epoch = node[a].epoch
    BY CurrentKept DEF Agent
<1>2. Holds(a, m)
    BY <1>1 DEF OutboxInv
<1> QED
    BY <1>1, <1>2, HoldsKept

LEMMA RowKept ==
    ASSUME Later, ControlInv, \A a \in Address : NodeInv(a), EndpointInv("sender"),
           NEW m \in Message, OutboxInv(m),
           outbox'[m] = [queued |-> outbox'[m].queued, envelope |-> outbox[m].envelope,
                         receipts |-> outbox'[m].receipts],
           outbox'[m].receipts \subseteq outbox[m].receipts,
           \A a \in outbox'[m].receipts : endpoint'["sender"].bound[a] = endpoint["sender"].bound[a]
    PROVE  OutboxInv(m)'
<1> DEFINE o == outbox[m]  r == outbox'[m]
<1>1. /\ o.receipts \subseteq Address
      /\ \A e \in o.envelope : e.message = m /\ e \in Envelope /\ outbox[e.message].envelope = {e}
    BY DEF OutboxInv, Genuine
<1>2. outbox'[m].envelope = outbox[m].envelope
    OBVIOUS
<1>3. \A e \in outbox'[m].envelope : e.message = m /\ e \in Envelope /\ outbox'[e.message].envelope = {e}
    BY <1>1, <1>2
<1>4. ASSUME NEW a \in outbox'[m].receipts, Current("sender", a)' PROVE Holds(a, m)'
    <2>1. a \in Address /\ a \in o.receipts
        BY <1>1
    <2> QED
        BY <1>4, <2>1, ReceiptKept
<1>5. outbox'[m].receipts \subseteq Address
    BY <1>1
<1>6. outbox'[m] = [queued |-> outbox'[m].queued, envelope |-> outbox'[m].envelope,
                    receipts |-> outbox'[m].receipts]
    BY <1>2
<1> QED
    BY <1>3, <1>4, <1>5, <1>6 DEF OutboxInv, Genuine, Envelope

LEMMA OutboxKept ==
    ASSUME Later, ControlInv, \A a \in Address : NodeInv(a), EndpointInv("sender"),
           endpoint'["sender"].bound = endpoint["sender"].bound,
           NEW m \in Message, OutboxInv(m), outbox'[m] = outbox[m]
    PROVE  OutboxInv(m)'
<1>1. outbox'[m] = [queued |-> outbox'[m].queued, envelope |-> outbox[m].envelope,
                    receipts |-> outbox'[m].receipts]
    BY DEF OutboxInv
<1> QED
    BY <1>1, RowKept

LEMMA SavedKept ==
    ASSUME Later, SavedInv, inbox' = inbox, rejected' = rejected, acked' = acked
    PROVE  SavedInv'
<1>1. inbox \subseteq Envelope /\ rejected \subseteq Envelope /\ acked \subseteq Message
    BY DEF SavedInv
<1>2. \A e \in inbox \cup rejected : e \in Envelope /\ outbox'[e.message].envelope = {e}
    BY GenuineKept DEF SavedInv, Genuine, Saved
<1>3. ASSUME NEW m \in acked
      PROVE  outbox'[m].envelope # {} /\ outbox'[m].envelope \subseteq inbox
    <2>1. outbox[m].envelope # {} /\ outbox[m].envelope \subseteq inbox
        BY DEF SavedInv, AckedIsSaved
    <2>2. outbox'[m].envelope = outbox[m].envelope
        BY <1>1, <2>1 DEF Later
    <2> QED
        BY <2>1, <2>2
<1> QED
    BY <1>1, <1>2, <1>3 DEF SavedInv, AckedIsSaved, Saved, Genuine, Envelope

\* What a process has read holds for as long as it did before.
LEMMA CallKept ==
    ASSUME NetDomains, Later, ControlInv, \A a \in Address : NodeInv(a),
           NEW p \in Process, CallInv(p), call'[p] = call[p]
    PROVE  CallInv(p)'
<1> DEFINE c == call[p]
<1>1. c.pc \in {"idle", "status", "bound", "fresh", "sealed", "posted", "asked", "page"}
    BY DEF CallInv
<1>2. ASSUME c.pc # "idle"
      PROVE  /\ c.address \in Address /\ c.epoch \in Nat
             /\ c.epoch <= node[c.address].epoch /\ c.epoch <= node'[c.address].epoch
             /\ node[c.address].epoch \in Nat /\ node'[c.address].epoch \in Nat
             /\ node'[c.address].epoch >= node[c.address].epoch
    <2>1. c.address \in Address /\ c.epoch \in Nat /\ c.epoch <= node[c.address].epoch
        BY <1>2 DEF CallInv
    <2>2. /\ node[c.address].epoch \in Nat /\ node'[c.address].epoch \in Nat
          /\ node'[c.address].epoch >= node[c.address].epoch
        BY <2>1 DEF Later, NodeInv
    <2> QED
        BY <2>1, <2>2
<1>3. ASSUME c.pc \in WithStatus PROVE StatusInv(c.status)'
    <2>1. StatusInv(c.status)
        BY <1>3 DEF CallInv
    <2>2. ASSUME NEW s, s = call[p].status PROVE StatusInv(s)'
        BY <2>1, <2>2, StatusKept
    <2> QED
        BY <2>2 DEF StatusInv
<1>4. ASSUME c.pc = "sealed"
      PROVE  \E m \in Message :
                c.message = {m} /\ outbox'[m].envelope # {} /\ c.envelope = outbox'[m].envelope
    <2>1. PICK m \in Message :
            c.message = {m} /\ outbox[m].envelope # {} /\ c.envelope = outbox[m].envelope
        BY <1>4 DEF CallInv
    <2>2. outbox'[m].envelope = outbox[m].envelope
        BY <2>1 DEF Later
    <2> QED
        BY <2>1, <2>2
<1>5. ASSUME c.pc = "posted"
      PROVE  /\ c.storedBy \in Nat /\ c.storedBy <= node'[c.address].epoch
             /\ \E m \in Message :
                    /\ c.message = {m}
                    /\ c.storedBy = node'[c.address].epoch => Holds(c.address, m)'
    <2>0. c.pc # "idle"
        BY <1>5
    <2>1. PICK m \in Message :
            /\ c.message = {m}
            /\ c.storedBy = node[c.address].epoch => Holds(c.address, m)
        BY <1>5 DEF CallInv
    <2>2. c.storedBy \in Nat /\ c.storedBy <= node[c.address].epoch
        BY <1>5 DEF CallInv
    <2>3. c.storedBy <= node'[c.address].epoch
        BY <1>2, <2>0, <2>2
    <2>4. ASSUME c.storedBy = node'[c.address].epoch, NEW a, a = call[p].address PROVE Holds(a, m)'
        <3>1. node'[c.address].epoch = node[c.address].epoch /\ c.address \in Address
            BY <1>2, <2>0, <2>2, <2>4
        <3> QED
            BY <2>1, <2>4, <3>1, HoldsKept
    <2>5. c.storedBy = node'[c.address].epoch => Holds(c.address, m)'
        BY <2>4 DEF Holds
    <2> QED
        BY <2>1, <2>2, <2>3, <2>5
<1>6. ASSUME c.pc = "asked"
      PROVE  /\ c.cursor \in Nat
             /\ p \in Receiving /\ c.epoch = node'[c.address].epoch => Settled(c.address, c.cursor, {})'
    <2>0. c.pc # "idle"
        BY <1>6
    <2>1. /\ c.cursor \in Nat
          /\ p \in Receiving /\ c.epoch = node[c.address].epoch => Settled(c.address, c.cursor, {})
        BY <1>6 DEF CallInv
    <2>2. ASSUME p \in Receiving, c.epoch = node'[c.address].epoch,
                 NEW a, a = call[p].address, NEW k, k = call[p].cursor
          PROVE  Settled(a, k, {})'
        <3>1. node'[a].epoch = node[a].epoch /\ a \in Address /\ c.epoch = node[a].epoch
            BY <1>2, <2>0, <2>2
        <3>2. Settled(a, k, {})
            BY <2>1, <2>2, <3>1
        <3>3. {} \subseteq Saved' \cup {}
            OBVIOUS
        <3> QED
            BY <3>1, <3>2, <3>3, SettledKept
    <2> QED
        BY <2>1, <2>2 DEF Settled, Saved
<1>7. ASSUME c.pc = "page"
      PROVE  /\ c = [pc |-> c.pc, address |-> c.address, epoch |-> c.epoch, status |-> c.status,
                     rows |-> c.rows, cursor |-> c.cursor, unacked |-> c.unacked]
             /\ c.cursor \in Nat /\ c.rows \in Seq(Envelope)
             /\ \A i \in 1 .. Len(c.rows) :
                    c.rows[i] \in Envelope /\ outbox'[c.rows[i].message].envelope = {c.rows[i]}
             /\ c.unacked \subseteq inbox'
             /\ p \in Receiving /\ c.epoch = node'[c.address].epoch =>
                    Settled(c.address, c.cursor, ToSet(c.rows))'
             /\ p \in Sending => ToSet(c.rows) \subseteq inbox'
    <2>0. c.pc # "idle"
        BY <1>7
    <2>1. /\ c = [pc |-> c.pc, address |-> c.address, epoch |-> c.epoch, status |-> c.status,
                  rows |-> c.rows, cursor |-> c.cursor, unacked |-> c.unacked]
          /\ c.cursor \in Nat /\ c.rows \in Seq(Envelope)
        BY <1>7 DEF CallInv
    <2>2. \A i \in 1 .. Len(c.rows) : Genuine(c.rows[i])
        BY <1>7 DEF CallInv
    <2>3. \A i \in 1 .. Len(c.rows) :
            c.rows[i] \in Envelope /\ outbox'[c.rows[i].message].envelope = {c.rows[i]}
        BY <2>2, GenuineKept DEF Genuine
    <2>4. c.unacked \subseteq inbox /\ (p \in Sending => ToSet(c.rows) \subseteq inbox)
        BY <1>7 DEF CallInv
    <2>5. c.unacked \subseteq inbox' /\ (p \in Sending => ToSet(c.rows) \subseteq inbox')
        BY <2>4 DEF Later
    <2>6. p \in Receiving /\ c.epoch = node[c.address].epoch =>
            Settled(c.address, c.cursor, ToSet(c.rows))
        BY <1>7 DEF CallInv
    <2>7. ASSUME p \in Receiving, c.epoch = node'[c.address].epoch,
                 NEW a, a = call[p].address, NEW k, k = call[p].cursor, NEW S, S = ToSet(call[p].rows)
          PROVE  Settled(a, k, S)'
        <3>1. node'[a].epoch = node[a].epoch /\ a \in Address /\ c.epoch = node[a].epoch
            BY <1>2, <2>0, <2>7
        <3>2. Settled(a, k, S)
            BY <2>6, <2>7, <3>1
        <3>3. S \subseteq Saved' \cup S
            OBVIOUS
        <3> QED
            BY <3>1, <3>2, <3>3, SettledKept
    <2>8. ASSUME p \in Receiving, c.epoch = node'[c.address].epoch
          PROVE  Settled(c.address, c.cursor, ToSet(c.rows))'
        <3>1. PICK S : S = ToSet(call[p].rows) /\ S = ToSet(call'[p].rows)
            OBVIOUS
        <3>2. Settled(call[p].address, call[p].cursor, S)'
            BY <2>7, <2>8, <3>1 DEF Settled, Saved
        <3> QED
            BY <3>1, <3>2 DEF Settled, Saved
    <2> QED
        BY <2>1, <2>3, <2>5, <2>8
<1>8. ASSUME c.pc \in {"status", "bound", "fresh"}
      PROVE  /\ c = [pc |-> c.pc, address |-> c.address, epoch |-> c.epoch,
                     status |-> c.status, message |-> c.message]
             /\ c.message = {} \/ (p \in Sending /\ \E m \in Message : c.message = {m})
    BY <1>8 DEF CallInv
<1>s. c.pc \in {"sealed", "posted"} => p \in Sending
    BY DEF CallInv
<1>9. /\ c.pc = "idle" => CallInv(p)'
      /\ c.pc = "sealed" => CallInv(p)'
    BY <1>2, <1>4, <1>s DEF CallInv, WithStatus
<1>10. c.pc = "posted" => CallInv(p)'
    BY <1>2, <1>5, <1>s DEF CallInv, WithStatus
<1>11. c.pc = "asked" => CallInv(p)'
    BY <1>2, <1>3, <1>6 DEF CallInv, WithStatus
<1>12. c.pc = "page" => CallInv(p)'
    BY <1>2, <1>3, <1>7 DEF CallInv, WithStatus, Genuine, Envelope
<1>13. c.pc \in {"status", "bound", "fresh"} => CallInv(p)'
    BY <1>2, <1>3, <1>8 DEF CallInv, WithStatus
<1> QED
    BY <1>1, <1>9, <1>10, <1>11, <1>12, <1>13

\* No process is told of a document it was not told of before.
NoNews ==
    \A q \in Process : call'[q].pc \in WithStatus =>
        call[q].pc \in WithStatus /\ call'[q].status = call[q].status

LEMMA AnswersKept ==
    ASSUME AnswersInv, NoNews,
           \A g \in Agent : endpoint'[g].version = endpoint[g].version /\ endpoint'[g].bound = endpoint[g].bound
    PROVE  AnswersInv'
<1>1. ASSUME NEW p \in Process, NEW q \in Process,
             call'[p].pc \in WithStatus, call'[q].pc \in WithStatus,
             call'[p].status.version <= call'[q].status.version, NEW a \in Address
      PROVE  call'[p].status.epoch[a] <= call'[q].status.epoch[a]
    <2>1. /\ call[p].pc \in WithStatus /\ call[q].pc \in WithStatus
          /\ call'[p].status = call[p].status /\ call'[q].status = call[q].status
        BY <1>1 DEF NoNews
    <2> QED
        BY <1>1, <2>1 DEF AnswersInv
<1>2. ASSUME NEW p \in Process, NEW g \in Agent, call'[p].pc \in WithStatus,
             call'[p].status.version >= endpoint'[g].version, NEW a \in Address
      PROVE  endpoint'[g].bound[a] <= call'[p].status.epoch[a]
    <2>1. call[p].pc \in WithStatus /\ call'[p].status = call[p].status
        BY <1>2 DEF NoNews
    <2> QED
        BY <1>2, <2>1 DEF AnswersInv
<1> QED
    BY <1>1, <1>2 DEF AnswersInv, WithStatus

----------------------------------------------------------------------------
(* The steps *)

LEMMA InitHolds == NetInit => NetInv
<1> SUFFICES ASSUME NetInit PROVE NetInv
    OBVIOUS
<1> USE DEF NetInit
<1>1. NetDomains
    BY DEF NetDomains
<1>2. ControlInv
    BY DEF ControlInv, Agent, Fresh
<1>3. SavedInv
    BY DEF SavedInv, AckedIsSaved, Saved
<1>4. \A p \in Process : call[p] = Idle /\ call[p].pc = "idle"
    BY DEF Idle
<1>5. AnswersInv
    BY <1>4 DEF AnswersInv, WithStatus
<1>6. ASSUME NEW a \in Address PROVE NodeInv(a)
    <2>1. node[a] = [epoch |-> 1, version |-> 0, members |-> {}, messages |-> <<>>, receipts |-> <<>>]
        BY DEF Fresh
    <2>2. /\ node[a].epoch = 1 /\ node[a].version = 0 /\ node[a].members = {}
          /\ node[a].messages = <<>> /\ node[a].receipts = <<>>
        BY <2>1
    <2>3. <<>> \in Seq(Envelope) /\ 1 .. Len(<<>>) = {}
        OBVIOUS
    <2>4. node[a] = [epoch |-> node[a].epoch, version |-> node[a].version, members |-> node[a].members,
                     messages |-> node[a].messages, receipts |-> node[a].receipts]
        BY <2>1, <2>2
    <2> HIDE DEF NetInit
    <2> QED
        BY <2>2, <2>3, <2>4 DEF NodeInv
<1>7. ASSUME NEW g \in Agent PROVE EndpointInv(g)
    <2>1. endpoint[g] = [version |-> 0, bound |-> [a \in Address |-> 0], cursor |-> [a \in Address |-> 0]]
        OBVIOUS
    <2>2. \A a \in Address : node[a].epoch = 1
        BY DEF Fresh
    <2> QED
        BY <2>1, <2>2 DEF EndpointInv, Current
<1>8. ASSUME NEW m \in Message PROVE OutboxInv(m)
    BY DEF OutboxInv
<1>9. ASSUME NEW p \in Process PROVE CallInv(p)
    BY <1>4 DEF CallInv, WithStatus
<1> QED
    BY <1>1, <1>2, <1>3, <1>5, <1>6, <1>7, <1>8, <1>9 DEF NetInv

\* A step that takes back nothing of what the documents, nodes and databases hold.
LEMMA LaterWhen ==
    ASSUME NetInv, UNCHANGED control,
           \A a \in Address : node'[a].epoch = node[a].epoch /\ node'[a].messages = node[a].messages,
           inbox \subseteq inbox', rejected \subseteq rejected',
           \A m \in Message : outbox[m].envelope # {} => outbox'[m].envelope = outbox[m].envelope
    PROVE  Later
<1>1. /\ control.version \in Nat
      /\ \A a \in Address : control.epoch[a] \in Nat
    BY DEF NetInv, ControlInv
<1>2. ASSUME NEW a \in Address
      PROVE  /\ node'[a].epoch \in Nat /\ node'[a].epoch >= node[a].epoch
             /\ Len(node[a].messages) <= Len(node'[a].messages)
             /\ \A i \in 1 .. Len(node[a].messages) : node'[a].messages[i] = node[a].messages[i]
             /\ node'[a].messages \in Seq(Envelope)
    <2>1. node[a].epoch \in Nat /\ node[a].messages \in Seq(Envelope)
        BY DEF NetInv, NodeInv
    <2>2. Len(node[a].messages) \in Nat
        BY <2>1
    <2> QED
        BY <2>1, <2>2
<1> QED
    BY <1>1, <1>2 DEF Later

LEMMA ControlKept ==
    ASSUME NetInv, UNCHANGED control, \A a \in Address : node'[a].epoch = node[a].epoch
    PROVE  ControlInv'
BY DEF NetInv, ControlInv

LEMMA CallsKept ==
    ASSUME NetInv, Later, NEW p \in Process, CallInv(p)',
           \A q \in Process : q # p => call'[q] = call[q]
    PROVE  \A q \in Process : CallInv(q)'
<1>1. ASSUME NEW q \in Process, q # p PROVE CallInv(q)'
    <2>1. call'[q] = call[q]
        BY <1>1
    <2>2. NetDomains /\ ControlInv /\ (\A a \in Address : NodeInv(a)) /\ CallInv(q)
        BY DEF NetInv
    <2> QED
        BY <2>1, <2>2, CallKept
<1> QED
    BY <1>1

\* A step in which a process only reads.
LEMMA ReadingKeeps ==
    ASSUME NetInv, UNCHANGED <<control, node, endpoint, saved>>, NEW p \in Process,
           DOMAIN call' = Process, \A q \in Process : q # p => call'[q] = call[q],
           CallInv(p)',
           call'[p].pc \in WithStatus => call[p].pc \in WithStatus /\ call'[p].status = call[p].status
    PROVE  NetInv'
<1>0. inbox' = inbox /\ rejected' = rejected /\ acked' = acked /\ outbox' = outbox
    BY DEF saved
<1>1. Later
    BY <1>0, LaterWhen
<1>2. NetDomains' /\ ControlInv'
    BY <1>0, ControlKept DEF NetInv, NetDomains
<1>3. SavedInv'
    BY <1>0, <1>1, SavedKept DEF NetInv
<1>4. AnswersInv'
    <2>1. NoNews
        BY DEF NoNews
    <2> QED
        BY <2>1, AnswersKept DEF NetInv
<1>5. ASSUME NEW a \in Address PROVE NodeInv(a)'
    BY <1>1, NodeKept DEF NetInv
<1>6. ASSUME NEW g \in Agent PROVE EndpointInv(g)'
    BY <1>1, EndpointKept DEF NetInv
<1>7. ASSUME NEW m \in Message PROVE OutboxInv(m)'
    BY <1>0, <1>1, OutboxKept DEF NetInv, Agent
<1>8. \A q \in Process : CallInv(q)'
    BY <1>1, CallsKept
<1> QED
    BY <1>2, <1>3, <1>4, <1>5, <1>6, <1>7, <1>8 DEF NetInv

LEMMA StopKeeps ==
    ASSUME NetInv, NEW p \in Process, Stop(p)
    PROVE  NetInv'
<1>1. /\ UNCHANGED <<control, node, endpoint, saved>>
      /\ DOMAIN call' = Process /\ call'[p] = Idle /\ \A q \in Process : q # p => call'[q] = call[q]
    BY DEF Stop, Return, NetInv, NetDomains
<1>2. call'[p].pc = "idle"
    BY <1>1 DEF Idle
<1>3. CallInv(p)'
    BY <1>2 DEF CallInv, WithStatus
<1> QED
    BY <1>1, <1>2, <1>3, ReadingKeeps DEF WithStatus

LEMMA ReadCursorKeeps ==
    ASSUME NetInv, NEW p \in Process, ReadCursor(p)
    PROVE  NetInv'
<1> DEFINE c == call[p]  g == AgentOf(p)
<1>1. /\ UNCHANGED <<control, node, endpoint, saved>>
      /\ c.pc = "fresh"
      /\ DOMAIN call' = Process /\ \A q \in Process : q # p => call'[q] = call[q]
      /\ call'[p] = [pc |-> "asked", address |-> c.address, epoch |-> c.epoch,
                     status |-> c.status, cursor |-> endpoint[g].cursor[c.address]]
    BY DEF ReadCursor, NetInv, NetDomains
<1>2. /\ call'[p].pc = "asked" /\ call'[p].address = c.address /\ call'[p].epoch = c.epoch
      /\ call'[p].status = c.status /\ call'[p].cursor = endpoint[g].cursor[c.address]
    BY <1>1
<1>3. /\ c.address \in Address /\ c.epoch \in Nat /\ c.epoch <= node[c.address].epoch
      /\ StatusInv(c.status) /\ g \in Agent
    BY <1>1 DEF NetInv, CallInv, WithStatus, AgentOf, Agent
<1>4. /\ endpoint[g].cursor[c.address] \in Nat
      /\ p \in Receiving /\ c.epoch = node[c.address].epoch =>
            Settled(c.address, endpoint[g].cursor[c.address], {})
    <2>1. EndpointInv(g)
        BY <1>3 DEF NetInv
    <2>2. endpoint[g].bound[c.address] = c.epoch
        BY DEF ReadCursor, AssertNode
    <2>3. p \in Receiving => g = "recipient"
        BY NetworkAssumption DEF AgentOf
    <2> QED
        BY <1>3, <2>1, <2>2, <2>3 DEF EndpointInv, Current
<1>5. CallInv(p)'
    <2>1. /\ StatusInv(c.status)'
          /\ p \in Receiving /\ c.epoch = node[c.address].epoch =>
                Settled(c.address, endpoint[g].cursor[c.address], {})'
        BY <1>1, <1>2, <1>3, <1>4 DEF StatusInv, Settled, Saved, saved
    <2> QED
        BY <1>1, <1>2, <1>3, <1>4, <2>1 DEF CallInv, WithStatus
<1> QED
    BY <1>1, <1>2, <1>5, ReadingKeeps DEF WithStatus

LEMMA PollKeeps ==
    ASSUME NetInv, NEW p \in Process, Poll(p)
    PROVE  NetInv'
<1> DEFINE c == call[p]  n == node[c.address]  g == AgentOf(p)
           s == Rows(n, g)  end == PageEnd(n, g, c.cursor)
           rows == IF "sender" \in n.members THEN SubSeq(s, c.cursor + 1, end) ELSE <<>>
<1>1. /\ UNCHANGED <<control, node, endpoint, saved>>
      /\ c.pc = "asked" /\ g \in n.members
      /\ DOMAIN call' = Process /\ \A q \in Process : q # p => call'[q] = call[q]
      /\ call'[p] = [pc |-> "page", address |-> c.address, epoch |-> c.epoch, status |-> c.status,
                     rows |-> rows, cursor |-> end, unacked |-> {}]
    BY DEF Poll, NetInv, NetDomains
<1>2. /\ call'[p].pc = "page" /\ call'[p].address = c.address /\ call'[p].epoch = c.epoch
      /\ call'[p].status = c.status /\ call'[p].rows = rows /\ call'[p].cursor = end
      /\ call'[p].unacked = {}
    BY <1>1
<1>3. /\ c.address \in Address /\ c.epoch \in Nat /\ c.epoch <= node[c.address].epoch
      /\ StatusInv(c.status) /\ g \in Agent /\ c.cursor \in Nat
      /\ p \in Receiving /\ c.epoch = node[c.address].epoch => Settled(c.address, c.cursor, {})
    BY <1>1 DEF NetInv, CallInv, WithStatus, AgentOf, Agent
<1>4. NodeInv(c.address)
    BY <1>3 DEF NetInv
<1>5. s \in Seq(Envelope) /\ \A i \in 1 .. Len(s) : Genuine(s[i])
    <2>1. n.messages \in Seq(Envelope) /\ \A i \in 1 .. Len(n.messages) : Genuine(n.messages[i])
        BY <1>4 DEF NodeInv
    <2>2. n.receipts \in Seq(Envelope) /\ \A i \in 1 .. Len(n.receipts) : n.receipts[i] \in inbox
        BY <1>4 DEF NodeInv
    <2>3. \A e \in inbox : Genuine(e)
        BY DEF NetInv, SavedInv, Saved
    <2> QED
        BY <2>1, <2>2, <2>3 DEF Rows
<1>6. Len(s) \in Nat
    BY <1>5
<1>7. end = Max({c.cursor, Min({c.cursor + PageLimit, Len(s)})}) /\ end \in Nat /\ end >= c.cursor
    <2>1. c.cursor + PageLimit \in Nat
        BY <1>3, NetworkAssumption
    <2>2. Min({c.cursor + PageLimit, Len(s)}) \in Nat
        BY <1>6, <2>1, LargerOfTwo
    <2> QED
        BY <1>3, <2>2, LargerOfTwo DEF PageEnd
<1> HIDE DEF s, end
<1>8. /\ SubSeq(s, c.cursor + 1, end) \in Seq(Envelope)
      /\ c.cursor <= Len(s) => end <= Len(s)
      /\ end <= Len(s) => \A i \in c.cursor + 1 .. end : s[i] \in ToSet(SubSeq(s, c.cursor + 1, end))
      /\ ToSet(SubSeq(s, c.cursor + 1, end)) \subseteq ToSet(s)
      /\ \A i \in 1 .. Len(SubSeq(s, c.cursor + 1, end)) : SubSeq(s, c.cursor + 1, end)[i] \in ToSet(s)
    BY <1>3, <1>5, <1>7, PageOf
<1>9. ToSet(s) = {s[i] : i \in 1 .. Len(s)}
    BY <1>5, ElementsOf
<1>10. rows \in Seq(Envelope) /\ \A i \in 1 .. Len(rows) : Genuine(rows[i])
    <2>1. \A e \in ToSet(s) : Genuine(e)
        BY <1>5, <1>9
    <2>2. <<>> \in Seq(Envelope) /\ 1 .. Len(<<>>) = {}
        OBVIOUS
    <2> QED
        BY <1>8, <2>1, <2>2
<1>11. ASSUME p \in Sending PROVE ToSet(rows) \subseteq inbox
    <2>1. s = n.receipts
        BY <1>11 DEF s, Rows, AgentOf
    <2>2. ToSet(s) \subseteq inbox
        BY <1>4, <1>9, <2>1 DEF NodeInv
    <2>3. ToSet(<<>>) = {}
        BY EmptyHasNone
    <2> QED
        BY <1>8, <2>2, <2>3
<1>12. ASSUME p \in Receiving, c.epoch = node[c.address].epoch
       PROVE  Settled(c.address, end, ToSet(rows))
    <2>1. g = "recipient" /\ s = n.messages
        BY <1>12, NetworkAssumption DEF s, Rows, AgentOf
    <2>2. /\ c.cursor <= Len(s)
          /\ "sender" \in control.members => \A i \in 1 .. c.cursor : s[i] \in Saved
        BY <1>3, <1>12, <2>1 DEF Settled
    <2>3. end <= Len(s)
        BY <1>8, <2>2
    <2>4. ASSUME "sender" \in control.members, NEW i \in 1 .. end PROVE s[i] \in Saved \cup ToSet(rows)
        <3>1. rows = SubSeq(s, c.cursor + 1, end)
            <4>1. n.members = {} \/ control.members \subseteq n.members
                BY <1>4 DEF NodeInv
            <4> QED
                BY <1>1, <2>4, <4>1
        <3>2. i \in 1 .. c.cursor \/ i \in c.cursor + 1 .. end
            BY <1>3, <1>7
        <3> QED
            BY <1>8, <2>2, <2>3, <2>4, <3>1, <3>2
    <2> QED
        BY <1>7, <2>1, <2>3, <2>4 DEF Settled
<1> HIDE DEF rows
<1>13. CallInv(p)'
    <2>1. /\ StatusInv(c.status)'
          /\ p \in Receiving /\ c.epoch = node[c.address].epoch => Settled(c.address, end, ToSet(rows))
          /\ p \in Sending => ToSet(rows) \subseteq inbox
          /\ \A i \in 1 .. Len(rows) : rows[i] \in Envelope /\ outbox[rows[i].message].envelope = {rows[i]}
        BY <1>1, <1>2, <1>3, <1>10, <1>11, <1>12 DEF StatusInv, Genuine
    <2>2. /\ p \in Receiving /\ call'[p].epoch = node'[call'[p].address].epoch =>
                Settled(call[p].address, call[p].cursor, ToSet(call[p].rows))'
          /\ p \in Sending => ToSet(call'[p].rows) \subseteq inbox'
          /\ \A i \in 1 .. Len(call'[p].rows) : Genuine(call[p].rows[i])'
        BY <1>1, <1>2, <2>1 DEF Settled, Saved, saved, Genuine, Envelope
    <2>3. /\ call'[p] = [pc |-> call'[p].pc, address |-> call'[p].address, epoch |-> call'[p].epoch,
                         status |-> call'[p].status, rows |-> call'[p].rows, cursor |-> call'[p].cursor,
                         unacked |-> call'[p].unacked]
          /\ call'[p].cursor \in Nat /\ call'[p].rows \in Seq(Envelope') /\ call'[p].unacked \subseteq inbox'
        BY <1>1, <1>2, <1>7, <1>10 DEF Envelope
    <2>4. /\ call'[p].address \in Address /\ call'[p].epoch \in Nat
          /\ call'[p].epoch <= node'[call'[p].address].epoch
        BY <1>1, <1>2, <1>3
    <2>5. StatusInv(call[p].status)'
        BY <1>2, <2>1 DEF StatusInv
    <2> QED
        BY <1>2, <2>2, <2>3, <2>4, <2>5 DEF CallInv, WithStatus
<1> QED
    BY <1>1, <1>2, <1>13, ReadingKeeps DEF WithStatus

LEMMA EnqueueKeeps ==
    ASSUME NetInv, NEW m \in Message, Enqueue(m)
    PROVE  NetInv'
<1>1. /\ UNCHANGED <<control, node, endpoint, inbox, rejected, acked, call>>
      /\ DOMAIN outbox' = Message
      /\ outbox' = [outbox EXCEPT ![m].queued = TRUE]
    BY DEF Enqueue, NetInv, NetDomains
<1>a. outbox' = [outbox EXCEPT ![m].queued = TRUE]
    BY <1>1
<1>b. DOMAIN outbox = Message
    BY DEF NetInv, NetDomains
<1>c. \A k \in Message : k # m => outbox'[k] = outbox[k]
    BY <1>a, <1>b
<1>d. PICK t : outbox' = [outbox EXCEPT ![m].queued = t]
    BY <1>a, Zenon
<1>e. outbox'[m] = [queued |-> t, envelope |-> outbox[m].envelope, receipts |-> outbox[m].receipts]
    <2>1. outbox[m] = [queued |-> outbox[m].queued, envelope |-> outbox[m].envelope,
                       receipts |-> outbox[m].receipts]
        BY DEF NetInv, OutboxInv
    <2>2. outbox'[m] = [outbox[m] EXCEPT !.queued = t]
        BY <1>b, <1>d
    <2> HIDE <1>1, <1>a
    <2> QED
        BY <2>1, <2>2
<1>2. \A k \in Message : outbox'[k].envelope = outbox[k].envelope /\ outbox'[k].receipts = outbox[k].receipts
    BY <1>c, <1>e
<1>3. \A k \in Message :
        outbox'[k] = [queued |-> outbox'[k].queued, envelope |-> outbox[k].envelope,
                      receipts |-> outbox'[k].receipts]
    BY <1>c, <1>e DEF NetInv, OutboxInv
<1>4. Later
    BY <1>1, <1>2, LaterWhen
<1>5. NetDomains' /\ ControlInv'
    BY <1>1, ControlKept DEF NetInv, NetDomains
<1>6. SavedInv'
    BY <1>1, <1>4, SavedKept DEF NetInv
<1>7. AnswersInv'
    BY <1>1, AnswersKept DEF NetInv, NoNews
<1>8. ASSUME NEW a \in Address PROVE NodeInv(a)'
    BY <1>1, <1>4, NodeKept DEF NetInv
<1>9. ASSUME NEW g \in Agent PROVE EndpointInv(g)'
    BY <1>1, <1>4, EndpointKept DEF NetInv
<1>10. ASSUME NEW k \in Message PROVE OutboxInv(k)'
    BY <1>1, <1>2, <1>3, <1>4, RowKept DEF NetInv, Agent
<1>11. ASSUME NEW q \in Process PROVE CallInv(q)'
    BY <1>1, <1>4, CallKept DEF NetInv
<1> QED
    BY <1>5, <1>6, <1>7, <1>8, <1>9, <1>10, <1>11 DEF NetInv

LEMMA FetchStatusKeeps ==
    ASSUME NetInv, NEW p \in Process, NEW a \in Address, NEW M,
           M = {} \/ (p \in Sending /\ \E m \in Message : M = {m}), FetchStatus(p, a, M)
    PROVE  NetInv'
<1> DEFINE g == AgentOf(p)
<1>1. /\ UNCHANGED <<control, node, outbox, inbox, rejected, acked>> /\ g \in Agent
      /\ DOMAIN call' = Process /\ \A q \in Process : q # p => call'[q] = call[q]
      /\ call'[p] = [pc |-> "status", address |-> a, epoch |-> node[a].epoch, status |-> control, message |-> M]
      /\ DOMAIN endpoint' = Agent /\ endpoint' = [endpoint EXCEPT ![g].version = control.version]
    BY DEF FetchStatus, NetInv, NetDomains, saved, AgentOf, Agent
<1>2. /\ call'[p].pc = "status" /\ call'[p].address = a /\ call'[p].epoch = node[a].epoch
      /\ call'[p].status = control /\ call'[p].message = M
    BY <1>1
<1>3. endpoint'[g] = [version |-> control.version, bound |-> endpoint[g].bound, cursor |-> endpoint[g].cursor]
    BY <1>1 DEF NetInv, NetDomains, EndpointInv
<1>4. /\ endpoint'[g].version = control.version /\ endpoint'[g].bound = endpoint[g].bound
      /\ endpoint'[g].cursor = endpoint[g].cursor
    BY <1>3
<1>5. \A h \in Agent : h # g => endpoint'[h] = endpoint[h]
    BY <1>1 DEF NetInv, NetDomains
<1>6. \A h \in Agent : endpoint'[h].bound = endpoint[h].bound /\ endpoint'[h].cursor = endpoint[h].cursor
    BY <1>4, <1>5
<1>7. Later
    BY <1>1, LaterWhen
<1>8. NetDomains' /\ ControlInv'
    BY <1>1, ControlKept DEF NetInv, NetDomains
<1>9. SavedInv'
    BY <1>1, <1>7, SavedKept DEF NetInv
<1>10. ASSUME NEW b \in Address PROVE NodeInv(b)'
    BY <1>1, <1>7, NodeKept DEF NetInv
<1>11. EndpointInv(g)'
    <2>1. control.version \in Nat
        BY DEF NetInv, ControlInv
    <2>2. EndpointInv(g)
        BY <1>1 DEF NetInv
    <2>3. ASSUME NEW b \in Address, g = "recipient", Current(g, b)' PROVE Settled(b, endpoint[g].cursor[b], {})'
        <3>1. Current(g, b)
            BY <1>1, <1>4, <2>3 DEF Current
        <3>2. Settled(b, endpoint[g].cursor[b], {})
            BY <2>2, <2>3, <3>1 DEF EndpointInv
        <3> QED
            BY <1>1, <1>4, <3>2 DEF Settled, Saved
    <2> QED
        BY <1>1, <1>3, <1>4, <2>1, <2>2, <2>3 DEF EndpointInv
<1>12. ASSUME NEW h \in Agent, h # g PROVE EndpointInv(h)'
    BY <1>5, <1>7, <1>12, EndpointKept DEF NetInv
<1>13. ASSUME NEW k \in Message PROVE OutboxInv(k)'
    BY <1>1, <1>6, <1>7, OutboxKept DEF NetInv, Agent
<1>14. CallInv(p)'
    <2>1. StatusInv(control)
        BY DEF StatusInv, NetInv, ControlInv
    <2>2. StatusInv(call[p].status)'
        BY <1>1, <1>2, <2>1 DEF StatusInv
    <2>3. node[a].epoch \in Nat
        BY DEF NetInv, NodeInv
    <2>4. call'[p] = [pc |-> call'[p].pc, address |-> call'[p].address, epoch |-> call'[p].epoch,
                      status |-> call'[p].status, message |-> call'[p].message]
        BY <1>1, <1>2
    <2> QED
        BY <1>1, <1>2, <2>2, <2>3, <2>4 DEF CallInv
<1>15. \A q \in Process : CallInv(q)'
    BY <1>1, <1>7, <1>14, CallsKept
<1>16. AnswersInv'
    <2>1. ASSUME NEW q \in Process, q # p, call'[q].pc \in WithStatus
          PROVE  /\ call[q].pc \in WithStatus /\ call'[q].status = call[q].status
                 /\ call[q].status.version \in Nat /\ call[q].status.version <= control.version
                 /\ \A b \in Address : call[q].status.epoch[b] \in Nat /\ call[q].status.epoch[b] <= control.epoch[b]
                 /\ call[q].status.version = control.version => call[q].status.epoch = control.epoch
        BY <1>1, <2>1 DEF NetInv, CallInv, StatusInv
    <2>2. control.version \in Nat /\ \A b \in Address : control.epoch[b] \in Nat
        BY DEF NetInv, ControlInv
    <2>3. ASSUME NEW q \in Process, NEW r \in Process, call'[q].pc \in WithStatus, call'[r].pc \in WithStatus,
                 call'[q].status.version <= call'[r].status.version, NEW b \in Address
          PROVE  call'[q].status.epoch[b] <= call'[r].status.epoch[b]
        <3>1. CASE q = p /\ r = p
            BY <1>2, <2>2, <3>1
        <3>2. CASE q = p /\ r # p
            BY <1>2, <2>1, <2>2, <2>3, <3>2
        <3>3. CASE q # p /\ r = p
            BY <1>2, <2>1, <2>2, <2>3, <3>3
        <3>4. CASE q # p /\ r # p
            BY <2>1, <2>3, <3>4 DEF NetInv, AnswersInv
        <3> QED
            BY <3>1, <3>2, <3>3, <3>4
    <2>4. ASSUME NEW q \in Process, NEW h \in Agent, call'[q].pc \in WithStatus,
                 call'[q].status.version >= endpoint'[h].version, NEW b \in Address
          PROVE  endpoint'[h].bound[b] <= call'[q].status.epoch[b]
        <3>1. endpoint[h].bound[b] <= control.epoch[b] /\ endpoint'[h].bound[b] = endpoint[h].bound[b]
            BY <1>6 DEF NetInv, EndpointInv
        <3>2. CASE q = p
            BY <1>2, <3>1, <3>2
        <3>3. CASE q # p /\ h = g
            BY <1>4, <2>1, <2>2, <2>4, <3>1, <3>3
        <3>4. CASE q # p /\ h # g
            BY <1>5, <2>1, <2>4, <3>4 DEF NetInv, AnswersInv
        <3> QED
            BY <3>2, <3>3, <3>4
    <2> QED
        BY <2>3, <2>4 DEF AnswersInv, WithStatus
<1> QED
    BY <1>8, <1>9, <1>10, <1>11, <1>12, <1>13, <1>15, <1>16 DEF NetInv

\* Bind and Refresh only move a process on.
LEMMA StepsOn ==
    ASSUME NetInv, Later, NEW p \in Process, call[p].pc \in {"status", "bound"},
           NEW pc \in {"bound", "fresh"}, Step(p, pc)
    PROVE  /\ CallInv(p)' /\ NoNews
           /\ DOMAIN call' = Process /\ \A q \in Process : q # p => call'[q] = call[q]
<1> DEFINE c == call[p]
<1>1. /\ DOMAIN call' = Process /\ \A q \in Process : q # p => call'[q] = call[q]
      /\ call'[p] = [c EXCEPT !.pc = pc]
    BY DEF Step, NetInv, NetDomains
<1>2. /\ c = [pc |-> c.pc, address |-> c.address, epoch |-> c.epoch, status |-> c.status, message |-> c.message]
      /\ c.message = {} \/ (p \in Sending /\ \E m \in Message : c.message = {m})
      /\ c.address \in Address /\ c.epoch \in Nat /\ c.epoch <= node[c.address].epoch
      /\ StatusInv(c.status)
    BY DEF NetInv, CallInv, WithStatus
<1>3. call'[p] = [pc |-> pc, address |-> c.address, epoch |-> c.epoch, status |-> c.status, message |-> c.message]
    BY <1>1, <1>2
<1>4. /\ call'[p].pc = pc /\ call'[p].address = c.address /\ call'[p].epoch = c.epoch
      /\ call'[p].status = c.status /\ call'[p].message = c.message
    BY <1>3
<1>5. StatusInv(call[p].status)'
    <2>1. ASSUME NEW s, s = call[p].status PROVE StatusInv(s)'
        BY <1>2, <2>1, StatusKept DEF NetInv
    <2>2. PICK s : s = call[p].status /\ s = call'[p].status
        BY <1>4
    <2> QED
        BY <2>1, <2>2 DEF StatusInv
<1>6. c.epoch <= node'[c.address].epoch
    <2>1. node[c.address].epoch \in Nat /\ node'[c.address].epoch \in Nat
          /\ node'[c.address].epoch >= node[c.address].epoch
        BY <1>2 DEF Later, NetInv, NodeInv
    <2> QED
        BY <1>2, <2>1
<1>7. CallInv(p)'
    BY <1>2, <1>3, <1>4, <1>5, <1>6 DEF CallInv
<1>8. NoNews
    BY <1>1, <1>4 DEF NoNews, WithStatus
<1> QED
    BY <1>1, <1>7, <1>8

LEMMA RefreshKeeps ==
    ASSUME NetInv, NEW p \in Process, NEW a, a = call[p].address, Refresh(p)
    PROVE  NetInv'
<1> DEFINE c == call[p]
<1>1. /\ UNCHANGED <<control, endpoint, outbox, inbox, rejected, acked>> /\ c.pc = "bound"
      /\ Step(p, "fresh")
      /\ node' = [node EXCEPT ![a].version = c.status.version, ![a].members = c.status.members]
    BY DEF Refresh, saved
<1>2. a \in Address /\ StatusInv(c.status)
    BY <1>1 DEF NetInv, CallInv, WithStatus
<1>3. NodeInv(a)
    BY <1>2 DEF NetInv
<1>4. node'[a] = [epoch |-> node[a].epoch, version |-> c.status.version, members |-> c.status.members,
                  messages |-> node[a].messages, receipts |-> node[a].receipts]
    <2>1. node'[a] = [node[a] EXCEPT !.version = c.status.version, !.members = c.status.members]
        BY <1>1, <1>2 DEF NetInv, NetDomains
    <2>2. node[a] = [epoch |-> node[a].epoch, version |-> node[a].version, members |-> node[a].members,
                     messages |-> node[a].messages, receipts |-> node[a].receipts]
        BY <1>3 DEF NodeInv
    <2> QED
        BY <2>1, <2>2
<1>5. /\ node'[a].epoch = node[a].epoch /\ node'[a].messages = node[a].messages
      /\ node'[a].receipts = node[a].receipts /\ node'[a].members = c.status.members
    BY <1>4
<1>6. DOMAIN node' = Address /\ \A b \in Address : b # a => node'[b] = node[b]
    BY <1>1 DEF NetInv, NetDomains
<1>7. \A b \in Address : node'[b].epoch = node[b].epoch /\ node'[b].messages = node[b].messages
    BY <1>5, <1>6
<1>8. Later
    BY <1>1, <1>7, LaterWhen
<1>9. NodeInv(a)'
    <2>1. c.status.members = {} \/ control'.members \subseteq c.status.members
        BY <1>1, <1>2 DEF StatusInv
    <2>2. \A i \in 1 .. Len(node[a].messages) : Genuine(node[a].messages[i])
        BY <1>3 DEF NodeInv
    <2>3. \A i \in 1 .. Len(node'[a].messages) :
            node'[a].messages[i] \in Envelope /\ outbox'[node'[a].messages[i].message].envelope = {node'[a].messages[i]}
        BY <1>1, <1>5, <2>2 DEF Genuine
    <2>4. \A i \in 1 .. Len(node'[a].receipts) : node'[a].receipts[i] \in inbox'
        BY <1>1, <1>3, <1>5 DEF NodeInv
    <2>5. /\ node'[a].epoch \in Nat /\ node'[a].messages \in Seq(Envelope) /\ node'[a].receipts \in Seq(Envelope)
        BY <1>3, <1>5 DEF NodeInv
    <2>6. node'[a] = [epoch |-> node'[a].epoch, version |-> node'[a].version, members |-> node'[a].members,
                     messages |-> node'[a].messages, receipts |-> node'[a].receipts]
        BY <1>4
    <2>7. node'[a].members = {} \/ control'.members \subseteq node'[a].members
        BY <1>5, <2>1
    <2> QED
        BY <2>3, <2>4, <2>5, <2>6, <2>7 DEF NodeInv, Genuine, Envelope
<1>10. ASSUME NEW b \in Address, b # a PROVE NodeInv(b)'
    BY <1>6, <1>8, <1>10, NodeKept DEF NetInv
<1>11. /\ CallInv(p)' /\ NoNews
       /\ DOMAIN call' = Process /\ \A q \in Process : q # p => call'[q] = call[q]
    BY <1>1, <1>8, StepsOn
<1>12. \A q \in Process : CallInv(q)'
    BY <1>8, <1>11, CallsKept
<1>13. NetDomains' /\ ControlInv'
    BY <1>1, <1>6, <1>7, <1>11, ControlKept DEF NetInv, NetDomains
<1>14. SavedInv'
    BY <1>1, <1>8, SavedKept DEF NetInv
<1>15. AnswersInv'
    BY <1>1, <1>11, AnswersKept DEF NetInv
<1>16. ASSUME NEW g \in Agent PROVE EndpointInv(g)'
    BY <1>1, <1>8, EndpointKept DEF NetInv
<1>17. ASSUME NEW m \in Message PROVE OutboxInv(m)'
    BY <1>1, <1>8, OutboxKept DEF NetInv, Agent
<1> QED
    BY <1>9, <1>10, <1>12, <1>13, <1>14, <1>15, <1>16, <1>17 DEF NetInv

LEMMA BindKeeps ==
    ASSUME NetInv, NEW p \in Process, NEW a, a = call[p].address, NEW g, g = AgentOf(p), Bind(p)
    PROVE  NetInv'
<1> DEFINE c == call[p]  same == endpoint[g].bound[a] = c.epoch
<1>1. /\ UNCHANGED <<control, node, inbox, rejected, acked>> /\ c.pc = "status" /\ Step(p, "bound")
      /\ c.status.version >= endpoint[g].version /\ c.status.epoch[a] = c.epoch
      /\ same => UNCHANGED outbox /\ endpoint' = [endpoint EXCEPT ![g].version = c.status.version]
      /\ ~same => /\ endpoint' = [endpoint EXCEPT ![g].version = c.status.version,
                                                  ![g].bound[a] = c.epoch, ![g].cursor[a] = 0]
                  /\ ForgetReceipts(g, a)
    BY DEF Bind, MayBind
<1>2. a \in Address /\ StatusInv(c.status) /\ c.epoch \in Nat /\ g \in Agent
    BY <1>1 DEF NetInv, CallInv, WithStatus, AgentOf, Agent
<1>3. EndpointInv(g)
    BY <1>2 DEF NetInv
<1>4. /\ endpoint'[g] = [version |-> endpoint'[g].version, bound |-> endpoint'[g].bound,
                         cursor |-> endpoint'[g].cursor]
      /\ endpoint'[g].version = c.status.version
      /\ DOMAIN endpoint'[g].bound = Address /\ DOMAIN endpoint'[g].cursor = Address
      /\ endpoint'[g].bound[a] = c.epoch
      /\ \A b \in Address : b # a =>
            endpoint'[g].bound[b] = endpoint[g].bound[b] /\ endpoint'[g].cursor[b] = endpoint[g].cursor[b]
      /\ same => endpoint'[g].bound = endpoint[g].bound /\ endpoint'[g].cursor = endpoint[g].cursor
      /\ ~same => endpoint'[g].cursor[a] = 0
    <2>1. /\ endpoint[g] = [version |-> endpoint[g].version, bound |-> endpoint[g].bound,
                            cursor |-> endpoint[g].cursor]
          /\ DOMAIN endpoint[g].bound = Address /\ DOMAIN endpoint[g].cursor = Address
          /\ DOMAIN endpoint = Agent
        BY <1>3 DEF EndpointInv, NetInv, NetDomains
    <2>2. CASE same
        <3>1. endpoint'[g] = [version |-> c.status.version, bound |-> endpoint[g].bound,
                              cursor |-> endpoint[g].cursor]
            BY <1>1, <1>2, <2>1, <2>2
        <3>2. /\ endpoint'[g].version = c.status.version /\ endpoint'[g].bound = endpoint[g].bound
              /\ endpoint'[g].cursor = endpoint[g].cursor
            BY <3>1
        <3> QED
            BY <2>1, <2>2, <3>1, <3>2
    <2>3. CASE ~same
        <3>1. endpoint'[g] = [version |-> c.status.version,
                              bound |-> [endpoint[g].bound EXCEPT ![a] = c.epoch],
                              cursor |-> [endpoint[g].cursor EXCEPT ![a] = 0]]
            BY <1>1, <1>2, <2>1, <2>3
        <3>2. /\ endpoint'[g].version = c.status.version
              /\ endpoint'[g].bound = [endpoint[g].bound EXCEPT ![a] = c.epoch]
              /\ endpoint'[g].cursor = [endpoint[g].cursor EXCEPT ![a] = 0]
            BY <3>1
        <3>3. /\ DOMAIN endpoint'[g].bound = Address /\ DOMAIN endpoint'[g].cursor = Address
              /\ endpoint'[g].bound[a] = c.epoch /\ endpoint'[g].cursor[a] = 0
              /\ \A b \in Address : b # a =>
                    endpoint'[g].bound[b] = endpoint[g].bound[b] /\ endpoint'[g].cursor[b] = endpoint[g].cursor[b]
            BY <1>2, <2>1, <3>2
        <3> QED
            BY <2>3, <3>1, <3>2, <3>3
    <2> QED
        BY <2>2, <2>3
<1>5. DOMAIN endpoint' = Agent /\ \A h \in Agent : h # g => endpoint'[h] = endpoint[h]
    BY <1>1, <1>2 DEF NetInv, NetDomains
<1>6. /\ DOMAIN outbox' = Message
      /\ \A m \in Message :
            /\ outbox'[m] = [queued |-> outbox'[m].queued, envelope |-> outbox[m].envelope,
                             receipts |-> outbox'[m].receipts]
            /\ outbox'[m].envelope = outbox[m].envelope
            /\ outbox'[m].receipts \subseteq outbox[m].receipts
            /\ g = "sender" /\ ~same => a \notin outbox'[m].receipts
    <2>1. \A m \in Message : outbox[m] = [queued |-> outbox[m].queued, envelope |-> outbox[m].envelope,
                                          receipts |-> outbox[m].receipts]
        BY DEF NetInv, OutboxInv
    <2>2. DOMAIN outbox = Message
        BY DEF NetInv, NetDomains
    <2>3. CASE same \/ g # "sender"
        <3>1. outbox' = outbox
            BY <1>1, <2>3 DEF ForgetReceipts
        <3> QED
            BY <2>1, <2>2, <2>3, <3>1
    <2>4. CASE ~same /\ g = "sender"
        <3>1. outbox' = [m \in Message |-> [outbox[m] EXCEPT !.receipts = @ \ {a}]]
            BY <1>1, <2>4 DEF ForgetReceipts
        <3>2. ASSUME NEW m \in Message
              PROVE  /\ outbox'[m] = [queued |-> outbox'[m].queued, envelope |-> outbox[m].envelope,
                                      receipts |-> outbox'[m].receipts]
                     /\ outbox'[m].envelope = outbox[m].envelope
                     /\ outbox'[m].receipts \subseteq outbox[m].receipts
                     /\ a \notin outbox'[m].receipts
            <4> DEFINE R == outbox[m].receipts \ {a}
            <4>1. outbox'[m] = [outbox[m] EXCEPT !.receipts = R]
                BY <3>1
            <4>2. outbox[m] = [queued |-> outbox[m].queued, envelope |-> outbox[m].envelope,
                               receipts |-> outbox[m].receipts]
                BY <2>1
            <4>3. R \subseteq outbox[m].receipts /\ a \notin R
                OBVIOUS
            <4> HIDE <1>1, <3>1, <2>1 DEF R
            <4>4. outbox'[m] = [queued |-> outbox[m].queued, envelope |-> outbox[m].envelope, receipts |-> R]
                BY <4>1, <4>2
            <4>5. outbox'[m].queued = outbox[m].queued /\ outbox'[m].envelope = outbox[m].envelope
                  /\ outbox'[m].receipts = R
                BY <4>4
            <4> QED
                BY <4>3, <4>4, <4>5
        <3>3. DOMAIN outbox' = Message
            BY <3>1
        <3> HIDE DEF same
        <3> QED
            BY <3>2, <3>3
    <2> QED
        BY <2>3, <2>4
<1>7. Later
    BY <1>1, <1>6, LaterWhen
<1>8. \A m \in Message : \A b \in outbox'[m].receipts :
        b \in Address /\ endpoint'["sender"].bound[b] = endpoint["sender"].bound[b]
    <2>1. \A m \in Message : outbox'[m].receipts \subseteq Address
        BY <1>6 DEF NetInv, OutboxInv
    <2>2. CASE g # "sender"
        BY <1>5, <2>1, <2>2 DEF Agent
    <2>3. CASE g = "sender"
        BY <1>4, <1>6, <2>1, <2>3
    <2> QED
        BY <2>2, <2>3
<1>9. ASSUME NEW m \in Message PROVE OutboxInv(m)'
    BY <1>6, <1>7, <1>8, RowKept DEF NetInv, Agent
<1>10. EndpointInv(g)'
    <2>1. /\ c.status.version \in Nat /\ c.status.version <= control.version
          /\ \A b \in Address : c.status.epoch[b] \in Nat /\ c.status.epoch[b] <= control.epoch[b]
        BY <1>2 DEF StatusInv
    <2>2. ASSUME NEW b \in Address
          PROVE  /\ endpoint'[g].bound[b] \in Nat /\ endpoint'[g].bound[b] <= control'.epoch[b]
                 /\ endpoint'[g].cursor[b] \in Nat
        BY <1>1, <1>2, <1>3, <1>4, <2>1 DEF EndpointInv
    <2>3. ASSUME NEW b \in Address, g = "recipient", Current(g, b)'
          PROVE  Settled(b, endpoint[g].cursor[b], {})'
        <3>1. CASE endpoint'[g].bound[b] = endpoint[g].bound[b] /\ endpoint'[g].cursor[b] = endpoint[g].cursor[b]
            <4>1. Settled(b, endpoint[g].cursor[b], {})
                BY <1>1, <1>3, <2>3, <3>1 DEF EndpointInv, Current
            <4> QED
                BY <1>1, <3>1, <4>1 DEF Settled, Saved
        <3>2. CASE endpoint'[g].cursor[b] = 0
            <4>1. Len(node'[b].messages) \in Nat
                BY <1>7 DEF Later
            <4> QED
                BY <3>2, <4>1 DEF Settled
        <3> QED
            BY <1>4, <3>1, <3>2
    <2> QED
        BY <1>1, <1>4, <2>1, <2>2, <2>3 DEF EndpointInv
<1>11. ASSUME NEW h \in Agent, h # g PROVE EndpointInv(h)'
    BY <1>5, <1>7, <1>11, EndpointKept DEF NetInv
<1>12. /\ CallInv(p)' /\ NoNews
       /\ DOMAIN call' = Process /\ \A q \in Process : q # p => call'[q] = call[q]
    BY <1>1, <1>7, StepsOn
<1>13. \A q \in Process : CallInv(q)'
    BY <1>7, <1>12, CallsKept
<1>14. NetDomains' /\ ControlInv'
    BY <1>1, <1>5, <1>6, <1>12, ControlKept DEF NetInv, NetDomains
<1>15. SavedInv'
    BY <1>1, <1>7, SavedKept DEF NetInv
<1>16. ASSUME NEW b \in Address PROVE NodeInv(b)'
    BY <1>1, <1>7, NodeKept DEF NetInv
<1>17. AnswersInv'
    <2>1. ASSUME NEW q \in Process, NEW r \in Process, call'[q].pc \in WithStatus, call'[r].pc \in WithStatus,
                 call'[q].status.version <= call'[r].status.version, NEW b \in Address
          PROVE  call'[q].status.epoch[b] <= call'[r].status.epoch[b]
        BY <1>12, <2>1 DEF NoNews, NetInv, AnswersInv
    <2>2. ASSUME NEW q \in Process, NEW h \in Agent, call'[q].pc \in WithStatus,
                 call'[q].status.version >= endpoint'[h].version, NEW b \in Address
          PROVE  endpoint'[h].bound[b] <= call'[q].status.epoch[b]
        <3>1. call[q].pc \in WithStatus /\ call'[q].status = call[q].status
            BY <1>12, <2>2 DEF NoNews
        <3>2. CASE h # g
            BY <1>5, <2>2, <3>1, <3>2 DEF NetInv, AnswersInv
        <3>3. CASE h = g
            <4>1. c.status.version <= call[q].status.version
                <5>1. StatusInv(call[q].status)
                    BY <3>1 DEF NetInv, CallInv
                <5>2. call[q].status.version \in Nat /\ c.status.version \in Nat
                    BY <1>2, <5>1 DEF StatusInv
                <5> QED
                    BY <1>4, <2>2, <3>1, <3>3, <5>2
            <4>2. c.status.epoch[b] <= call[q].status.epoch[b]
                BY <1>1, <3>1, <4>1 DEF NetInv, AnswersInv, WithStatus
            <4>3. endpoint[g].bound[b] <= c.status.epoch[b]
                BY <1>1, <1>2 DEF NetInv, AnswersInv, WithStatus
            <4>4. endpoint'[g].bound[b] <= c.status.epoch[b]
                <5>1. c.status.epoch[b] \in Nat
                    BY <1>2 DEF StatusInv
                <5> QED
                    BY <1>1, <1>4, <4>3, <5>1
            <4>5. /\ endpoint'[g].bound[b] \in Nat /\ c.status.epoch[b] \in Nat
                  /\ call[q].status.epoch[b] \in Nat
                <5>1. StatusInv(call[q].status)
                    BY <3>1 DEF NetInv, CallInv
                <5> QED
                    BY <1>2, <1>10, <5>1 DEF StatusInv, EndpointInv
            <4> QED
                BY <3>1, <3>3, <4>2, <4>4, <4>5
        <3> QED
            BY <3>2, <3>3
    <2> QED
        BY <2>1, <2>2 DEF AnswersInv, WithStatus
<1> QED
    BY <1>9, <1>10, <1>11, <1>13, <1>14, <1>15, <1>16, <1>17 DEF NetInv

LEMMA FreezeKeeps ==
    ASSUME NetInv, NEW p \in Process, Freeze(p)
    PROVE  NetInv'
<1> DEFINE c == call[p]
<1>1. /\ UNCHANGED <<control, node, endpoint, inbox, rejected, acked>> /\ c.pc = "fresh" /\ c.message # {}
    BY DEF Freeze
<1>2. /\ c.address \in Address /\ c.epoch \in Nat /\ c.epoch <= node[c.address].epoch
      /\ StatusInv(c.status)
      /\ c.message = {} \/ (p \in Sending /\ \E m \in Message : c.message = {m})
    BY <1>1 DEF NetInv, CallInv, WithStatus
<1>3. PICK m \in Message : c.message = {m}
    BY <1>1, <1>2
<1> DEFINE candidate == [message |-> m, version |-> c.status.version, by |-> p]
           e == Sealed(m, {candidate})
<1>4. /\ outbox' = [outbox EXCEPT ![m].envelope = e]
      /\ call' = [call EXCEPT ![p] = [pc |-> "sealed", address |-> c.address, epoch |-> c.epoch,
                                      message |-> c.message, envelope |-> e]]
    BY <1>3 DEF Freeze
<1>5. /\ candidate \in Envelope /\ candidate.message = m
    BY <1>2 DEF Envelope, StatusInv
<1> HIDE DEF candidate
<1>6. /\ e # {} /\ (outbox[m].envelope # {} => e = outbox[m].envelope)
      /\ (outbox[m].envelope = {} => e = {candidate})
    BY DEF Sealed
<1> HIDE DEF e
<1>7. /\ DOMAIN outbox' = Message /\ \A k \in Message : k # m => outbox'[k] = outbox[k]
      /\ outbox'[m] = [queued |-> outbox[m].queued, envelope |-> e, receipts |-> outbox[m].receipts]
    <2>1. outbox[m] = [queued |-> outbox[m].queued, envelope |-> outbox[m].envelope,
                       receipts |-> outbox[m].receipts]
        BY DEF NetInv, OutboxInv
    <2>2. DOMAIN outbox = Message
        BY DEF NetInv, NetDomains
    <2>3. /\ DOMAIN outbox' = Message /\ \A k \in Message : k # m => outbox'[k] = outbox[k]
          /\ outbox'[m] = [outbox[m] EXCEPT !.envelope = e]
        BY <1>4, <2>2
    <2> HIDE <1>4
    <2> QED
        BY <2>1, <2>3
<1>8. /\ outbox'[m].queued = outbox[m].queued /\ outbox'[m].envelope = e
      /\ outbox'[m].receipts = outbox[m].receipts
    BY <1>7
<1>9. Later
    <2>1. \A k \in Message : outbox[k].envelope # {} => outbox'[k].envelope = outbox[k].envelope
        BY <1>6, <1>7, <1>8
    <2> QED
        BY <1>1, <2>1, LaterWhen
<1>10. OutboxInv(m)'
    <2>1. CASE outbox[m].envelope # {}
        <3>1. outbox'[m] = [queued |-> outbox'[m].queued, envelope |-> outbox[m].envelope,
                            receipts |-> outbox'[m].receipts]
            BY <1>6, <1>7, <1>8, <2>1
        <3> QED
            BY <1>1, <1>8, <1>9, <3>1, RowKept DEF NetInv, Agent
    <2>2. CASE outbox[m].envelope = {}
        <3>1. \A f \in e : f.message = m /\ f \in Envelope /\ outbox'[f.message].envelope = {f}
            BY <1>5, <1>6, <1>8, <2>2
        <3>2. \A f \in outbox'[m].envelope : f.message = m /\ Genuine(f)'
            BY <1>8, <3>1 DEF Genuine, Envelope
        <3>3. \A b \in outbox'[m].receipts : b \in Address /\ ~Current("sender", b)'
            BY <1>1, <1>8, <2>2 DEF NetInv, OutboxInv, Holds, Current
        <3>4. outbox'[m] = [queued |-> outbox'[m].queued, envelope |-> outbox'[m].envelope,
                            receipts |-> outbox'[m].receipts]
            BY <1>7, <1>8
        <3> QED
            BY <3>2, <3>3, <3>4 DEF OutboxInv
    <2> QED
        BY <2>1, <2>2
<1>11. ASSUME NEW k \in Message, k # m PROVE OutboxInv(k)'
    BY <1>1, <1>7, <1>9, <1>11, OutboxKept DEF NetInv, Agent
<1>12. /\ DOMAIN call' = Process /\ \A q \in Process : q # p => call'[q] = call[q]
       /\ call'[p] = [pc |-> "sealed", address |-> c.address, epoch |-> c.epoch,
                      message |-> c.message, envelope |-> e]
    BY <1>4 DEF NetInv, NetDomains
<1>13. /\ call'[p].pc = "sealed" /\ call'[p].address = c.address /\ call'[p].epoch = c.epoch
       /\ call'[p].message = c.message /\ call'[p].envelope = e
    BY <1>12
<1>14. CallInv(p)'
    <2>1. \E k \in Message : /\ call'[p].message = {k} /\ outbox'[k].envelope # {}
                             /\ call'[p].envelope = outbox'[k].envelope
        BY <1>3, <1>6, <1>8, <1>13
    <2>2. p \in Sending
        BY <1>1, <1>2
    <2> QED
        BY <1>1, <1>2, <1>13, <2>1, <2>2 DEF CallInv, WithStatus
<1>15. \A q \in Process : CallInv(q)'
    BY <1>9, <1>12, <1>14, CallsKept
<1>16. NetDomains' /\ ControlInv'
    BY <1>1, <1>7, <1>12, ControlKept DEF NetInv, NetDomains
<1>17. SavedInv'
    BY <1>1, <1>9, SavedKept DEF NetInv
<1>18. AnswersInv'
    <2>1. NoNews
        BY <1>12, <1>13 DEF NoNews, WithStatus
    <2> QED
        BY <1>1, <2>1, AnswersKept DEF NetInv
<1>19. ASSUME NEW a \in Address PROVE NodeInv(a)'
    BY <1>1, <1>9, NodeKept DEF NetInv
<1>20. ASSUME NEW g \in Agent PROVE EndpointInv(g)'
    BY <1>1, <1>9, EndpointKept DEF NetInv
<1> QED
    BY <1>10, <1>11, <1>15, <1>16, <1>17, <1>18, <1>19, <1>20 DEF NetInv

\* Return: the process has done its work.
LEMMA Returned ==
    ASSUME NetInv, NEW p \in Process, Return(p)
    PROVE  /\ CallInv(p)' /\ NoNews
           /\ DOMAIN call' = Process /\ \A q \in Process : q # p => call'[q] = call[q]
<1>1. /\ DOMAIN call' = Process /\ call'[p] = Idle /\ \A q \in Process : q # p => call'[q] = call[q]
    BY DEF Return, NetInv, NetDomains
<1>2. call'[p].pc = "idle"
    BY <1>1 DEF Idle
<1> QED
    BY <1>1, <1>2 DEF CallInv, NoNews, WithStatus

LEMMA SaveReceiptKeeps ==
    ASSUME NetInv, NEW p \in Process, SaveReceipt(p)
    PROVE  NetInv'
<1> DEFINE c == call[p]
<1>1. /\ UNCHANGED <<control, node, endpoint, inbox, rejected, acked>> /\ c.pc = "posted"
      /\ Return(p) /\ AssertNode(p) /\ c.storedBy = c.epoch
      /\ outbox' = [k \in Message |-> IF k \in c.message
                        THEN [outbox[k] EXCEPT !.receipts = @ \cup {c.address}] ELSE outbox[k]]
    BY DEF SaveReceipt
<1>2. /\ c.address \in Address /\ c.storedBy \in Nat
      /\ \E m \in Message : /\ c.message = {m}
                            /\ c.storedBy = node[c.address].epoch => Holds(c.address, m)
    BY <1>1 DEF NetInv, CallInv, WithStatus
<1>3. PICK m \in Message : /\ c.message = {m}
                           /\ c.storedBy = node[c.address].epoch => Holds(c.address, m)
    BY <1>2
<1> DEFINE R == outbox[m].receipts \cup {c.address}
<1>4. R \subseteq Address /\ \A b \in R : b = c.address \/ b \in outbox[m].receipts
    BY <1>2 DEF NetInv, OutboxInv
<1>5. /\ DOMAIN outbox' = Message /\ \A k \in Message : k # m => outbox'[k] = outbox[k]
      /\ outbox'[m] = [outbox[m] EXCEPT !.receipts = R]
    BY <1>1, <1>3
<1> HIDE DEF R
<1>6. outbox'[m] = [queued |-> outbox[m].queued, envelope |-> outbox[m].envelope, receipts |-> R]
    <2>1. outbox[m] = [queued |-> outbox[m].queued, envelope |-> outbox[m].envelope,
                       receipts |-> outbox[m].receipts]
        BY DEF NetInv, OutboxInv
    <2>2. outbox'[m] = [outbox[m] EXCEPT !.receipts = R]
        BY <1>5
    <2> HIDE <1>1, <1>5
    <2> QED
        BY <2>1, <2>2
<1>7. /\ outbox'[m].queued = outbox[m].queued /\ outbox'[m].envelope = outbox[m].envelope
      /\ outbox'[m].receipts = R
    BY <1>6
<1>8. Later
    <2>1. \A k \in Message : outbox'[k].envelope = outbox[k].envelope
        BY <1>5, <1>7
    <2> QED
        BY <1>1, <2>1, LaterWhen
<1>9. OutboxInv(m)'
    <2>1. ASSUME NEW b \in R, Current("sender", b)' PROVE Holds(b, m)'
        <3>0. Current("sender", b)
            BY <1>1, <2>1 DEF Current
        <3>1. CASE b = c.address
            <4>1. endpoint["sender"].bound[b] = c.epoch
                <5>1. p \in Sending
                    BY <1>1 DEF NetInv, CallInv
                <5> QED
                    BY <1>1, <3>1, <5>1 DEF AssertNode, AgentOf
            <4>2. Holds(b, m)
                BY <1>1, <1>3, <3>0, <3>1, <4>1 DEF Current
            <4> QED
                BY <1>1, <1>7, <4>2 DEF Holds
        <3>2. CASE b \in outbox[m].receipts
            <4>1. Holds(b, m)
                BY <3>0, <3>2 DEF NetInv, OutboxInv
            <4> QED
                BY <1>1, <1>7, <4>1 DEF Holds
        <3> QED
            BY <1>4, <3>1, <3>2
    <2>2. \A f \in outbox[m].envelope : f.message = m /\ f \in Envelope /\ outbox[f.message].envelope = {f}
        BY DEF NetInv, OutboxInv, Genuine
    <2>3. \A f \in outbox'[m].envelope : f.message = m /\ Genuine(f)'
        BY <1>7, <2>2 DEF Genuine, Envelope
    <2>4. outbox'[m] = [queued |-> outbox'[m].queued, envelope |-> outbox'[m].envelope,
                        receipts |-> outbox'[m].receipts]
        BY <1>6, <1>7
    <2> QED
        BY <1>4, <1>7, <2>1, <2>3, <2>4 DEF OutboxInv
<1>10. ASSUME NEW k \in Message, k # m PROVE OutboxInv(k)'
    BY <1>1, <1>5, <1>8, <1>10, OutboxKept DEF NetInv, Agent
<1>11. /\ CallInv(p)' /\ NoNews
       /\ DOMAIN call' = Process /\ \A q \in Process : q # p => call'[q] = call[q]
    BY <1>1, Returned
<1>12. \A q \in Process : CallInv(q)'
    BY <1>8, <1>11, CallsKept
<1>13. NetDomains' /\ ControlInv'
    BY <1>1, <1>5, <1>11, ControlKept DEF NetInv, NetDomains
<1>14. SavedInv'
    BY <1>1, <1>8, SavedKept DEF NetInv
<1>15. AnswersInv'
    BY <1>1, <1>11, AnswersKept DEF NetInv
<1>16. ASSUME NEW a \in Address PROVE NodeInv(a)'
    BY <1>1, <1>8, NodeKept DEF NetInv
<1>17. ASSUME NEW g \in Agent PROVE EndpointInv(g)'
    BY <1>1, <1>8, EndpointKept DEF NetInv
<1> QED
    BY <1>9, <1>10, <1>12, <1>13, <1>14, <1>15, <1>16, <1>17 DEF NetInv

LEMMA PostKeeps ==
    ASSUME NetInv, NEW p \in Process, NEW a, a = call[p].address, Post(p)
    PROVE  NetInv'
<1> DEFINE c == call[p]  n == node[a]
<1>1. /\ UNCHANGED <<control, endpoint, outbox, inbox, rejected, acked>> /\ c.pc = "sealed"
      /\ call' = [call EXCEPT ![p] = [pc |-> "posted", address |-> a, epoch |-> c.epoch,
                                      message |-> c.message, storedBy |-> n.epoch]]
    BY DEF Post, saved
<1>2. PICK e \in c.envelope :
        /\ Copies(n, e) \subseteq {e}
        /\ node' = [node EXCEPT ![a].messages = IF Copies(n, e) = {} THEN Append(@, e) ELSE @]
    BY DEF Post
<1> DEFINE t == IF Copies(n, e) = {} THEN Append(n.messages, e) ELSE n.messages
<1>3. a \in Address /\ c.epoch \in Nat /\ c.epoch <= n.epoch /\ p \in Sending
    BY <1>1 DEF NetInv, CallInv
<1>4. NodeInv(a)
    BY <1>3 DEF NetInv
<1>5. PICK m \in Message : c.message = {m} /\ outbox[m].envelope # {} /\ c.envelope = outbox[m].envelope
    BY <1>1 DEF NetInv, CallInv
<1>6. e.message = m /\ Genuine(e) /\ e \in Envelope /\ outbox[m].envelope = {e}
    <2>1. OutboxInv(m)
        BY <1>5 DEF NetInv
    <2>2. e \in outbox[m].envelope
        BY <1>2, <1>5
    <2>3. e.message = m /\ Genuine(e)
        BY <2>1, <2>2 DEF OutboxInv
    <2> QED
        BY <2>3 DEF Genuine
<1>7. /\ n.messages \in Seq(Envelope) /\ Len(n.messages) \in Nat
      /\ \A i \in 1 .. Len(n.messages) : Genuine(n.messages[i])
    BY <1>4 DEF NodeInv
<1>8. /\ t \in Seq(Envelope) /\ Len(t) \in Nat /\ Len(n.messages) <= Len(t)
      /\ \A i \in 1 .. Len(n.messages) : t[i] = n.messages[i]
      /\ \A i \in 1 .. Len(t) : Genuine(t[i])
      /\ e \in ToSet(t)
    <2>1. CASE Copies(n, e) = {}
        <3>1. t = Append(n.messages, e)
            BY <2>1
        <3>2. \A i \in 1 .. Len(t) : i \in 1 .. Len(n.messages) \/ i = Len(n.messages) + 1
            BY <1>6, <1>7, <3>1
        <3> QED
            BY <1>6, <1>7, <3>1, <3>2, Appended
    <2>2. CASE Copies(n, e) # {}
        <3>1. t = n.messages
            BY <2>2
        <3>2. e \in ToSet(n.messages)
            <4>1. PICK f : f \in Copies(n, e)
                BY <2>2
            <4>2. f = e
                BY <1>2, <4>1
            <4>3. f \in ToSet(n.messages)
                BY <4>1 DEF Copies
            <4> QED
                BY <4>2, <4>3
        <3> HIDE <2>2 DEF t
        <3> QED
            BY <1>7, <3>1, <3>2
    <2> QED
        BY <2>1, <2>2
<1>9. /\ DOMAIN node' = Address /\ \A b \in Address : b # a => node'[b] = node[b]
      /\ node'[a] = [epoch |-> n.epoch, version |-> n.version, members |-> n.members,
                     messages |-> t, receipts |-> n.receipts]
    <2>1. /\ DOMAIN node' = Address /\ \A b \in Address : b # a => node'[b] = node[b]
          /\ node'[a] = [n EXCEPT !.messages = t]
        BY <1>2, <1>3 DEF NetInv, NetDomains
    <2>2. n = [epoch |-> n.epoch, version |-> n.version, members |-> n.members,
               messages |-> n.messages, receipts |-> n.receipts]
        BY <1>4 DEF NodeInv
    <2> HIDE <1>2 DEF t
    <2> QED
        BY <2>1, <2>2
<1> HIDE DEF t
<1>10. /\ node'[a].epoch = n.epoch /\ node'[a].version = n.version /\ node'[a].members = n.members
       /\ node'[a].messages = t /\ node'[a].receipts = n.receipts
    BY <1>9
<1>11. \A b \in Address : node'[b].epoch = node[b].epoch
    BY <1>9, <1>10
<1>12. Later
    <2>1. /\ control.version \in Nat /\ \A b \in Address : control.epoch[b] \in Nat
        BY DEF NetInv, ControlInv
    <2>2. ASSUME NEW b \in Address
          PROVE  /\ node'[b].epoch \in Nat /\ node'[b].epoch >= node[b].epoch
                 /\ Len(node[b].messages) <= Len(node'[b].messages)
                 /\ \A i \in 1 .. Len(node[b].messages) : node'[b].messages[i] = node[b].messages[i]
                 /\ node'[b].messages \in Seq(Envelope)
        <3>0. node[b].epoch \in Nat /\ node[b].messages \in Seq(Envelope)
            BY DEF NetInv, NodeInv
        <3>1. node[b].epoch \in Nat /\ node[b].messages \in Seq(Envelope) /\ Len(node[b].messages) \in Nat
            BY <3>0
        <3>2. CASE b = a
            BY <1>8, <1>10, <3>1, <3>2
        <3>3. CASE b # a
            BY <1>9, <3>1, <3>3
        <3> QED
            BY <3>2, <3>3
    <2> QED
        BY <1>1, <2>1, <2>2 DEF Later
<1>13. NodeInv(a)'
    <2>1. \A i \in 1 .. Len(t) : t[i] \in Envelope /\ outbox[t[i].message].envelope = {t[i]}
        BY <1>8 DEF Genuine
    <2>2. \A i \in 1 .. Len(node'[a].messages) : Genuine(node[a].messages[i])'
        BY <1>1, <1>10, <2>1 DEF Genuine, Envelope
    <2>3. \A i \in 1 .. Len(node'[a].receipts) : node'[a].receipts[i] \in inbox'
        BY <1>1, <1>4, <1>10 DEF NodeInv
    <2>4. node'[a].members = {} \/ control'.members \subseteq node'[a].members
        BY <1>1, <1>4, <1>10 DEF NodeInv
    <2>5. /\ node'[a].epoch \in Nat /\ node'[a].messages \in Seq(Envelope) /\ node'[a].receipts \in Seq(Envelope)
        BY <1>4, <1>8, <1>10 DEF NodeInv
    <2>6. node'[a] = [epoch |-> node'[a].epoch, version |-> node'[a].version, members |-> node'[a].members,
                      messages |-> node'[a].messages, receipts |-> node'[a].receipts]
        BY <1>9, <1>10
    <2> QED
        BY <2>2, <2>3, <2>4, <2>5, <2>6 DEF NodeInv, Envelope, Genuine
<1>14. ASSUME NEW b \in Address, b # a PROVE NodeInv(b)'
    BY <1>9, <1>12, <1>14, NodeKept DEF NetInv
<1>15. /\ DOMAIN call' = Process /\ \A q \in Process : q # p => call'[q] = call[q]
       /\ call'[p] = [pc |-> "posted", address |-> a, epoch |-> c.epoch, message |-> c.message, storedBy |-> n.epoch]
    BY <1>1 DEF NetInv, NetDomains
<1>16. /\ call'[p].pc = "posted" /\ call'[p].address = a /\ call'[p].epoch = c.epoch
       /\ call'[p].message = {m} /\ call'[p].storedBy = n.epoch
    BY <1>5, <1>15
<1>17. CallInv(p)'
    <2>1. n.epoch \in Nat
        BY <1>4 DEF NodeInv
    <2>2. Holds(call[p].address, m)'
        BY <1>1, <1>6, <1>8, <1>10, <1>16 DEF Holds
    <2> QED
        BY <1>3, <1>10, <1>16, <2>1, <2>2 DEF CallInv, WithStatus
<1>18. \A q \in Process : CallInv(q)'
    BY <1>12, <1>15, <1>17, CallsKept
<1>19. NetDomains' /\ ControlInv'
    BY <1>1, <1>9, <1>11, <1>15, ControlKept DEF NetInv, NetDomains
<1>20. SavedInv'
    BY <1>1, <1>12, SavedKept DEF NetInv
<1>21. AnswersInv'
    <2>1. NoNews
        BY <1>15, <1>16 DEF NoNews, WithStatus
    <2> QED
        BY <1>1, <2>1, AnswersKept DEF NetInv
<1>22. ASSUME NEW g \in Agent PROVE EndpointInv(g)'
    BY <1>1, <1>12, EndpointKept DEF NetInv
<1>23. ASSUME NEW k \in Message PROVE OutboxInv(k)'
    BY <1>1, <1>12, OutboxKept DEF NetInv, Agent
<1> QED
    BY <1>13, <1>14, <1>18, <1>19, <1>20, <1>21, <1>22, <1>23 DEF NetInv

LEMMA AcceptKeeps ==
    ASSUME NetInv, NEW p \in Process, Accept(p)
    PROVE  NetInv'
<1> DEFINE c == call[p]  e == Head(c.rows)
<1>1. /\ UNCHANGED <<control, node, endpoint, outbox, acked>>
      /\ c.pc = "page" /\ p \in Receiving /\ c.rows # <<>>
      /\ call' = [call EXCEPT ![p].rows = Tail(@), ![p].unacked = Claim(e)]
      /\ inbox \subseteq inbox' /\ rejected \subseteq rejected'
      /\ inbox' \subseteq inbox \cup {e} /\ rejected' \subseteq rejected \cup {e}
      /\ e \in inbox' \cup rejected'
    BY DEF Accept
<1>2. /\ c = [pc |-> c.pc, address |-> c.address, epoch |-> c.epoch, status |-> c.status,
              rows |-> c.rows, cursor |-> c.cursor, unacked |-> c.unacked]
      /\ c.cursor \in Nat /\ c.rows \in Seq(Envelope)
      /\ \A i \in 1 .. Len(c.rows) : Genuine(c.rows[i])
      /\ c.epoch = node[c.address].epoch => Settled(c.address, c.cursor, ToSet(c.rows))
      /\ c.address \in Address /\ c.epoch \in Nat /\ c.epoch <= node[c.address].epoch
      /\ StatusInv(c.status)
    BY <1>1 DEF NetInv, CallInv, WithStatus
<1> DEFINE t == Tail(c.rows)
<1>3. /\ t \in Seq(Envelope) /\ e \in Envelope /\ Genuine(e)
      /\ ToSet(c.rows) = ToSet(t) \cup {e}
      /\ \A i \in 1 .. Len(t) : Genuine(t[i])
    <2>1. /\ t \in Seq(Envelope) /\ e \in Envelope
          /\ \A i \in 1 .. Len(t) : t[i] = c.rows[i + 1] /\ i + 1 \in 1 .. Len(c.rows)
          /\ 1 \in 1 .. Len(c.rows) /\ e = c.rows[1]
          /\ ToSet(c.rows) = ToSet(t) \cup {e}
        BY <1>1, <1>2, HeadAndTail
    <2>2. Genuine(e)
        BY <1>2, <2>1
    <2>3. \A i \in 1 .. Len(t) : Genuine(t[i])
        BY <1>2, <2>1
    <2> QED
        BY <2>1, <2>2, <2>3
<1>4. Later
    BY <1>1, LaterWhen
<1>5. Claim(e) \subseteq inbox'
    BY <1>1 DEF Claim
<1> DEFINE u == Claim(e)
<1>6. /\ DOMAIN call' = Process /\ \A q \in Process : q # p => call'[q] = call[q]
      /\ call'[p] = [c EXCEPT !.rows = t, !.unacked = u]
    BY <1>1 DEF NetInv, NetDomains
<1> HIDE DEF t, u
<1>7. call'[p] = [pc |-> "page", address |-> c.address, epoch |-> c.epoch, status |-> c.status,
                  rows |-> t, cursor |-> c.cursor, unacked |-> u]
    <2>1. call'[p] = [c EXCEPT !.rows = t, !.unacked = u] /\ c.pc = "page"
        BY <1>1, <1>6
    <2>2. c = [pc |-> c.pc, address |-> c.address, epoch |-> c.epoch, status |-> c.status,
               rows |-> c.rows, cursor |-> c.cursor, unacked |-> c.unacked]
        BY <1>2
    <2> HIDE <1>1, <1>2, <1>6
    <2> QED
        BY <2>1, <2>2
<1>8. /\ call'[p].pc = "page" /\ call'[p].address = c.address /\ call'[p].epoch = c.epoch
      /\ call'[p].status = c.status /\ call'[p].rows = t /\ call'[p].cursor = c.cursor
      /\ call'[p].unacked = u
    BY <1>7
<1>9. CallInv(p)'
    <2>1. call'[p] = [pc |-> call'[p].pc, address |-> call'[p].address, epoch |-> call'[p].epoch,
                      status |-> call'[p].status, rows |-> call'[p].rows, cursor |-> call'[p].cursor,
                      unacked |-> call'[p].unacked]
        BY <1>7, <1>8
    <2>2. StatusInv(call[p].status)'
        BY <1>1, <1>2, <1>8 DEF StatusInv
    <2>3. \A i \in 1 .. Len(call'[p].rows) : Genuine(call[p].rows[i])'
        BY <1>1, <1>3, <1>8 DEF Genuine, Envelope
    <2>4. ASSUME call'[p].epoch = node'[call'[p].address].epoch
          PROVE  Settled(call[p].address, call[p].cursor, ToSet(call[p].rows))'
        <3>1. c.epoch = node[c.address].epoch
            BY <1>1, <1>8, <2>4
        <3>2. Settled(c.address, c.cursor, ToSet(t) \cup {e})
            BY <1>2, <1>3, <3>1
        <3>3. \A f : f \in Saved \cup (ToSet(t) \cup {e}) => f \in Saved' \cup ToSet(t)
            BY <1>1 DEF Saved
        <3> QED
            BY <1>1, <1>8, <3>2, <3>3 DEF Settled
    <2>5. p \notin Sending
        BY <1>1, NetworkAssumption
    <2>6. /\ call'[p].cursor \in Nat /\ call'[p].rows \in Seq(Envelope) /\ call'[p].unacked \subseteq inbox'
          /\ call'[p].address \in Address /\ call'[p].epoch \in Nat
          /\ call'[p].epoch <= node'[call'[p].address].epoch
        BY <1>1, <1>2, <1>3, <1>5, <1>8 DEF u
    <2> QED
        BY <1>8, <2>1, <2>2, <2>3, <2>4, <2>5, <2>6 DEF CallInv, WithStatus, Envelope
<1>10. \A q \in Process : CallInv(q)'
    BY <1>4, <1>6, <1>9, CallsKept
<1>11. NetDomains' /\ ControlInv'
    BY <1>1, <1>6, ControlKept DEF NetInv, NetDomains
<1>12. SavedInv'
    <2>1. /\ inbox \subseteq Envelope /\ rejected \subseteq Envelope /\ acked \subseteq Message
          /\ \A f \in Saved : Genuine(f)
          /\ \A m \in acked : outbox[m].envelope # {} /\ outbox[m].envelope \subseteq inbox
        BY DEF NetInv, SavedInv, AckedIsSaved
    <2>2. inbox' \subseteq Envelope /\ rejected' \subseteq Envelope
        BY <1>1, <1>3, <2>1
    <2>3. ASSUME NEW f \in Saved' PROVE Genuine(f)'
        <3>1. Genuine(f)
            BY <1>1, <1>3, <2>1 DEF Saved
        <3> QED
            BY <1>1, <3>1 DEF Genuine, Envelope
    <2>4. \A m \in acked' : outbox'[m].envelope # {} /\ outbox'[m].envelope \subseteq inbox'
        BY <1>1, <2>1
    <2> QED
        BY <1>1, <2>1, <2>2, <2>3, <2>4 DEF SavedInv, AckedIsSaved, Envelope
<1>13. AnswersInv'
    <2>1. NoNews
        BY <1>1, <1>6, <1>8 DEF NoNews, WithStatus
    <2> QED
        BY <1>1, <2>1, AnswersKept DEF NetInv
<1>14. ASSUME NEW a \in Address PROVE NodeInv(a)'
    BY <1>1, <1>4, NodeKept DEF NetInv
<1>15. ASSUME NEW g \in Agent PROVE EndpointInv(g)'
    BY <1>1, <1>4, EndpointKept DEF NetInv
<1>16. ASSUME NEW m \in Message PROVE OutboxInv(m)'
    BY <1>1, <1>4, OutboxKept DEF NetInv, Agent
<1> QED
    BY <1>10, <1>11, <1>12, <1>13, <1>14, <1>15, <1>16 DEF NetInv

\* The claim of a page is done with.
LEMMA Acked ==
    ASSUME NetInv, Later, NEW p \in Process, call[p].pc = "page", call' = [call EXCEPT ![p].unacked = {}]
    PROVE  /\ CallInv(p)' /\ NoNews
           /\ DOMAIN call' = Process /\ \A q \in Process : q # p => call'[q] = call[q]
<1> DEFINE c == call[p]
<1>1. /\ c = [pc |-> c.pc, address |-> c.address, epoch |-> c.epoch, status |-> c.status,
              rows |-> c.rows, cursor |-> c.cursor, unacked |-> c.unacked]
      /\ c.cursor \in Nat /\ c.rows \in Seq(Envelope)
      /\ \A i \in 1 .. Len(c.rows) : Genuine(c.rows[i])
      /\ p \in Receiving /\ c.epoch = node[c.address].epoch => Settled(c.address, c.cursor, ToSet(c.rows))
      /\ p \in Sending => ToSet(c.rows) \subseteq inbox
      /\ c.address \in Address /\ c.epoch \in Nat /\ c.epoch <= node[c.address].epoch
      /\ StatusInv(c.status)
    BY DEF NetInv, CallInv, WithStatus
<1>2. /\ DOMAIN call' = Process /\ \A q \in Process : q # p => call'[q] = call[q]
      /\ call'[p] = [c EXCEPT !.unacked = {}]
    BY DEF NetInv, NetDomains
<1>3. call'[p] = [pc |-> "page", address |-> c.address, epoch |-> c.epoch, status |-> c.status,
                  rows |-> c.rows, cursor |-> c.cursor, unacked |-> {}]
    BY <1>1, <1>2
<1>4. /\ call'[p].pc = "page" /\ call'[p].address = c.address /\ call'[p].epoch = c.epoch
      /\ call'[p].status = c.status /\ call'[p].rows = c.rows /\ call'[p].cursor = c.cursor
      /\ call'[p].unacked = {}
    BY <1>3
<1>5. CallInv(p)'
    <2>1. call'[p] = [pc |-> call'[p].pc, address |-> call'[p].address, epoch |-> call'[p].epoch,
                      status |-> call'[p].status, rows |-> call'[p].rows, cursor |-> call'[p].cursor,
                      unacked |-> call'[p].unacked]
        BY <1>3, <1>4
    <2>2. StatusInv(call[p].status)'
        <3>1. ASSUME NEW s, s = call[p].status PROVE StatusInv(s)'
            BY <1>1, <3>1, StatusKept DEF NetInv
        <3>2. PICK s : s = call[p].status /\ s = call'[p].status
            BY <1>4
        <3> QED
            BY <3>1, <3>2 DEF StatusInv
    <2>3. \A i \in 1 .. Len(call'[p].rows) : Genuine(call[p].rows[i])'
        <3>1. \A i \in 1 .. Len(c.rows) : c.rows[i] \in Envelope /\ outbox'[c.rows[i].message].envelope = {c.rows[i]}
            BY <1>1, GenuineKept DEF Genuine
        <3> QED
            BY <1>4, <3>1 DEF Genuine, Envelope
    <2>4. node[c.address].epoch \in Nat /\ node'[c.address].epoch \in Nat
          /\ node'[c.address].epoch >= node[c.address].epoch
        BY <1>1 DEF Later, NetInv, NodeInv
    <2>5. ASSUME p \in Receiving, call'[p].epoch = node'[call'[p].address].epoch
          PROVE  Settled(call[p].address, call[p].cursor, ToSet(call[p].rows))'
        <3>1. PICK a, k, S : /\ a = call[p].address /\ k = call[p].cursor /\ S = ToSet(call[p].rows)
                             /\ a = call'[p].address /\ k = call'[p].cursor /\ S = ToSet(call'[p].rows)
            BY <1>4
        <3>2. c.epoch = node[a].epoch /\ node'[a].epoch = node[a].epoch /\ a \in Address
            BY <1>1, <1>4, <2>4, <2>5, <3>1
        <3>3. Settled(a, k, S)
            BY <1>1, <2>5, <3>1, <3>2
        <3>4. S \subseteq Saved' \cup S
            OBVIOUS
        <3>5. Settled(a, k, S)'
            BY <3>2, <3>3, <3>4, SettledKept DEF NetInv
        <3> QED
            BY <3>1, <3>5 DEF Settled, Saved
    <2>6. /\ call'[p].cursor \in Nat /\ call'[p].rows \in Seq(Envelope) /\ call'[p].unacked \subseteq inbox'
          /\ call'[p].address \in Address /\ call'[p].epoch \in Nat
          /\ call'[p].epoch <= node'[call'[p].address].epoch
        BY <1>1, <1>4, <2>4
    <2>7. p \in Sending => ToSet(call'[p].rows) \subseteq inbox'
        BY <1>1, <1>4 DEF Later
    <2> QED
        BY <1>4, <2>1, <2>2, <2>3, <2>5, <2>6, <2>7 DEF CallInv, WithStatus, Envelope
<1>6. NoNews
    BY <1>2, <1>4 DEF NoNews, WithStatus
<1> QED
    BY <1>2, <1>5, <1>6

LEMMA AckKeeps ==
    ASSUME NetInv, NEW p \in Process, NEW a, a = call[p].address, Ack(p)
    PROVE  NetInv'
<1> DEFINE c == call[p]  n == node[a]
<1>1. /\ UNCHANGED <<control, endpoint, outbox, inbox, rejected, acked>> /\ c.pc = "page"
      /\ call' = [call EXCEPT ![p].unacked = {}]
    BY DEF Ack, saved
<1>2. PICK e \in c.unacked :
        node' = [node EXCEPT ![a].receipts = IF e \in ToSet(@) THEN @ ELSE Append(@, e)]
    BY DEF Ack
<1> DEFINE t == IF e \in ToSet(n.receipts) THEN n.receipts ELSE Append(n.receipts, e)
<1>3. /\ a \in Address /\ c.epoch \in Nat /\ c.epoch <= n.epoch
      /\ c = [pc |-> c.pc, address |-> c.address, epoch |-> c.epoch, status |-> c.status,
              rows |-> c.rows, cursor |-> c.cursor, unacked |-> c.unacked]
      /\ c.unacked \subseteq inbox
    BY <1>1 DEF NetInv, CallInv
<1>4. NodeInv(a)
    BY <1>3 DEF NetInv
<1>5. e \in Envelope /\ e \in inbox
    BY <1>3 DEF NetInv, SavedInv
<1>6. /\ n.receipts \in Seq(Envelope) /\ Len(n.receipts) \in Nat
      /\ \A i \in 1 .. Len(n.receipts) : n.receipts[i] \in inbox
    BY <1>4 DEF NodeInv
<1>7. t \in Seq(Envelope) /\ \A i \in 1 .. Len(t) : t[i] \in inbox
    <2>1. CASE e \in ToSet(n.receipts)
        BY <1>6, <2>1
    <2>2. CASE e \notin ToSet(n.receipts)
        <3>1. t = Append(n.receipts, e)
            BY <2>2
        <3>2. \A i \in 1 .. Len(t) : i \in 1 .. Len(n.receipts) \/ i = Len(n.receipts) + 1
            BY <1>5, <1>6, <3>1
        <3> QED
            BY <1>5, <1>6, <3>1, <3>2, Appended
    <2> QED
        BY <2>1, <2>2
<1>8. /\ DOMAIN node' = Address /\ \A b \in Address : b # a => node'[b] = node[b]
      /\ node'[a] = [epoch |-> n.epoch, version |-> n.version, members |-> n.members,
                     messages |-> n.messages, receipts |-> t]
    <2>1. /\ DOMAIN node' = Address /\ \A b \in Address : b # a => node'[b] = node[b]
          /\ node'[a] = [n EXCEPT !.receipts = t]
        BY <1>2, <1>3 DEF NetInv, NetDomains
    <2>2. n = [epoch |-> n.epoch, version |-> n.version, members |-> n.members,
               messages |-> n.messages, receipts |-> n.receipts]
        BY <1>4 DEF NodeInv
    <2> HIDE <1>2 DEF t
    <2> QED
        BY <2>1, <2>2
<1> HIDE DEF t
<1>9. /\ node'[a].epoch = n.epoch /\ node'[a].version = n.version /\ node'[a].members = n.members
      /\ node'[a].messages = n.messages /\ node'[a].receipts = t
    BY <1>8
<1>10. \A b \in Address : node'[b].epoch = node[b].epoch /\ node'[b].messages = node[b].messages
    BY <1>8, <1>9
<1>11. Later
    BY <1>1, <1>10, LaterWhen
<1>12. NodeInv(a)'
    <2>1. \A i \in 1 .. Len(n.messages) : n.messages[i] \in Envelope /\ outbox[n.messages[i].message].envelope = {n.messages[i]}
        BY <1>4 DEF NodeInv, Genuine
    <2>2. \A i \in 1 .. Len(node'[a].messages) : Genuine(node[a].messages[i])'
        BY <1>1, <1>9, <2>1 DEF Genuine, Envelope
    <2>3. \A i \in 1 .. Len(node'[a].receipts) : node'[a].receipts[i] \in inbox'
        BY <1>1, <1>7, <1>9
    <2>4. node'[a].members = {} \/ control'.members \subseteq node'[a].members
        BY <1>1, <1>4, <1>9 DEF NodeInv
    <2>5. /\ node'[a].epoch \in Nat /\ node'[a].messages \in Seq(Envelope) /\ node'[a].receipts \in Seq(Envelope)
        BY <1>4, <1>7, <1>9 DEF NodeInv
    <2>6. node'[a] = [epoch |-> node'[a].epoch, version |-> node'[a].version, members |-> node'[a].members,
                      messages |-> node'[a].messages, receipts |-> node'[a].receipts]
        BY <1>8, <1>9
    <2> QED
        BY <2>2, <2>3, <2>4, <2>5, <2>6 DEF NodeInv, Envelope, Genuine
<1>13. ASSUME NEW b \in Address, b # a PROVE NodeInv(b)'
    BY <1>8, <1>11, <1>13, NodeKept DEF NetInv
<1>14. CallInv(p)' /\ NoNews /\ DOMAIN call' = Process /\ \A q \in Process : q # p => call'[q] = call[q]
    BY <1>1, <1>11, Acked
<1>15. \A q \in Process : CallInv(q)'
    BY <1>11, <1>14, CallsKept
<1>16. NetDomains' /\ ControlInv'
    BY <1>1, <1>8, <1>10, <1>14, ControlKept DEF NetInv, NetDomains
<1>17. SavedInv'
    BY <1>1, <1>11, SavedKept DEF NetInv
<1>18. AnswersInv'
    BY <1>1, <1>14, AnswersKept DEF NetInv
<1>19. ASSUME NEW g \in Agent PROVE EndpointInv(g)'
    BY <1>1, <1>11, EndpointKept DEF NetInv
<1>20. ASSUME NEW m \in Message PROVE OutboxInv(m)'
    BY <1>1, <1>11, OutboxKept DEF NetInv, Agent
<1> QED
    BY <1>12, <1>13, <1>15, <1>16, <1>17, <1>18, <1>19, <1>20 DEF NetInv

LEMMA CommitPageKeeps ==
    ASSUME NetInv, NEW p \in Process, NEW a, a = call[p].address, NEW g, g = AgentOf(p), CommitPage(p)
    PROVE  NetInv'
<1> DEFINE c == call[p]  k == Advanced(endpoint[g].cursor[a], c.cursor)
           read == {e.message : e \in ToSet(c.rows)}
<1>1. /\ UNCHANGED <<control, node, outbox, inbox, rejected>> /\ c.pc = "page" /\ Return(p)
      /\ p \in Receiving => c.rows = <<>>
      /\ endpoint[g].bound[a] = c.epoch
      /\ endpoint' = [endpoint EXCEPT ![g].cursor[a] = k]
      /\ acked' = acked
            \/ (/\ p \in Sending /\ acked' = acked \cup read
                /\ \A e \in ToSet(c.rows) : outbox[e.message].envelope = {e})
    BY DEF CommitPage, AssertNode
<1>2. /\ a \in Address /\ c.cursor \in Nat /\ g \in Agent
      /\ c.rows \in Seq(Envelope)
      /\ p \in Receiving /\ c.epoch = node[a].epoch => Settled(a, c.cursor, ToSet(c.rows))
      /\ p \in Sending => ToSet(c.rows) \subseteq inbox
    BY <1>1 DEF NetInv, CallInv, AgentOf, Agent
<1>3. EndpointInv(g)
    BY <1>2 DEF NetInv
<1>4. k \in {endpoint[g].cursor[a], c.cursor} /\ k \in Nat
    <2>1. endpoint[g].cursor[a] \in Nat
        BY <1>2, <1>3 DEF EndpointInv
    <2> QED
        BY <1>2, <2>1, LargerOfTwo DEF Advanced
<1> HIDE DEF k
<1>5. /\ DOMAIN endpoint' = Agent /\ \A h \in Agent : h # g => endpoint'[h] = endpoint[h]
      /\ endpoint'[g] = [version |-> endpoint[g].version, bound |-> endpoint[g].bound,
                         cursor |-> [endpoint[g].cursor EXCEPT ![a] = k]]
    <2>1. endpoint[g] = [version |-> endpoint[g].version, bound |-> endpoint[g].bound,
                         cursor |-> endpoint[g].cursor]
        BY <1>3 DEF EndpointInv
    <2>2. /\ DOMAIN endpoint' = Agent /\ \A h \in Agent : h # g => endpoint'[h] = endpoint[h]
          /\ endpoint'[g] = [endpoint[g] EXCEPT !.cursor[a] = k]
        BY <1>1, <1>2 DEF NetInv, NetDomains
    <2> QED
        BY <2>1, <2>2
<1>6. /\ endpoint'[g].version = endpoint[g].version /\ endpoint'[g].bound = endpoint[g].bound
      /\ endpoint'[g].cursor = [endpoint[g].cursor EXCEPT ![a] = k]
    BY <1>5
<1>7. /\ DOMAIN endpoint'[g].cursor = Address /\ endpoint'[g].cursor[a] = k
      /\ \A b \in Address : b # a => endpoint'[g].cursor[b] = endpoint[g].cursor[b]
    BY <1>2, <1>3, <1>6 DEF EndpointInv
<1>8. Later
    BY <1>1, LaterWhen
<1>9. EndpointInv(g)'
    <2>1. ASSUME NEW b \in Address, g = "recipient", Current(g, b)'
          PROVE  Settled(b, endpoint[g].cursor[b], {})'
        <3>1. Current(g, b)
            BY <1>1, <1>6, <2>1 DEF Current
        <3>2. Settled(b, endpoint[g].cursor[b], {})
            BY <1>3, <2>1, <3>1 DEF EndpointInv
        <3>3. CASE endpoint'[g].cursor[b] = endpoint[g].cursor[b]
            BY <1>1, <3>2, <3>3 DEF Settled, Saved
        <3>4. CASE endpoint'[g].cursor[b] # endpoint[g].cursor[b]
            <4>1. b = a /\ endpoint'[g].cursor[b] = c.cursor
                BY <1>4, <1>7, <3>4
            <4>2. p \in Receiving
                BY <2>1, <1>2 DEF AgentOf, Process
            <4>3. Settled(a, c.cursor, {})
                BY <1>1, <1>2, <3>1, <4>1, <4>2, EmptyHasNone DEF Current
            <4> QED
                BY <1>1, <4>1, <4>3 DEF Settled, Saved
        <3> QED
            BY <3>3, <3>4
    <2>2. ASSUME NEW b \in Address PROVE endpoint'[g].cursor[b] \in Nat
        BY <1>3, <1>4, <1>7 DEF EndpointInv
    <2>3. endpoint'[g] = [version |-> endpoint'[g].version, bound |-> endpoint'[g].bound,
                          cursor |-> endpoint'[g].cursor]
        BY <1>5, <1>6
    <2> QED
        BY <1>1, <1>3, <1>6, <1>7, <2>1, <2>2, <2>3 DEF EndpointInv
<1>10. ASSUME NEW h \in Agent, h # g PROVE EndpointInv(h)'
    BY <1>5, <1>8, <1>10, EndpointKept DEF NetInv
<1>11. SavedInv'
    <2>1. /\ inbox \subseteq Envelope /\ rejected \subseteq Envelope /\ acked \subseteq Message
          /\ \A f \in Saved : Genuine(f)
          /\ \A m \in acked : outbox[m].envelope # {} /\ outbox[m].envelope \subseteq inbox
        BY DEF NetInv, SavedInv, AckedIsSaved
    <2>2. ASSUME NEW m \in acked'
          PROVE  m \in Message /\ outbox[m].envelope # {} /\ outbox[m].envelope \subseteq inbox
        <3>1. CASE m \in acked
            BY <2>1, <3>1
        <3>2. CASE m \notin acked
            <4>1. /\ p \in Sending /\ m \in read
                  /\ \A e \in ToSet(c.rows) : outbox[e.message].envelope = {e}
                BY <1>1, <2>2, <3>2
            <4>2. PICK e \in ToSet(c.rows) : m = e.message
                BY <4>1
            <4>3. e \in inbox /\ outbox[m].envelope = {e}
                BY <1>2, <4>1, <4>2
            <4>4. m \in Message
                BY <2>1, <4>2, <4>3 DEF Envelope
            <4> QED
                BY <4>3, <4>4
        <3> QED
            BY <3>1, <3>2
    <2> QED
        BY <1>1, <2>1, <2>2 DEF SavedInv, AckedIsSaved, Saved, Genuine, Envelope
<1>12. /\ CallInv(p)' /\ NoNews
       /\ DOMAIN call' = Process /\ \A q \in Process : q # p => call'[q] = call[q]
    BY <1>1, Returned
<1>13. \A q \in Process : CallInv(q)'
    BY <1>8, <1>12, CallsKept
<1>14. NetDomains' /\ ControlInv'
    BY <1>1, <1>5, <1>12, ControlKept DEF NetInv, NetDomains
<1>15. AnswersInv'
    <2>1. \A h \in Agent : endpoint'[h].version = endpoint[h].version /\ endpoint'[h].bound = endpoint[h].bound
        BY <1>5, <1>6
    <2> QED
        BY <1>12, <2>1, AnswersKept DEF NetInv
<1>16. ASSUME NEW b \in Address PROVE NodeInv(b)'
    BY <1>1, <1>8, NodeKept DEF NetInv
<1>17. ASSUME NEW m \in Message PROVE OutboxInv(m)'
    <2>1. endpoint'["sender"].bound = endpoint["sender"].bound
        BY <1>5, <1>6 DEF Agent
    <2> QED
        BY <1>1, <1>8, <2>1, OutboxKept DEF NetInv, Agent
<1> QED
    BY <1>9, <1>10, <1>11, <1>13, <1>14, <1>15, <1>16, <1>17 DEF NetInv

----------------------------------------------------------------------------
(* The authority and the operators of nodes *)

\* What processes and endpoints have holds whatever the authority and the
\* operators of nodes do.
LEMMA OutsideKeeps ==
    ASSUME NetInv, Later, UNCHANGED <<endpoint, saved, call>>,
           DOMAIN node' = Address, ControlInv', \A a \in Address : NodeInv(a)'
    PROVE  NetInv'
<1>1. outbox' = outbox /\ inbox' = inbox /\ rejected' = rejected /\ acked' = acked
    BY DEF saved
<1>2. NetDomains'
    BY <1>1 DEF NetInv, NetDomains
<1>3. SavedInv'
    BY <1>1, SavedKept DEF NetInv
<1>4. AnswersInv'
    BY AnswersKept DEF NetInv, NoNews
<1>5. ASSUME NEW g \in Agent PROVE EndpointInv(g)'
    BY EndpointKept DEF NetInv
<1>6. ASSUME NEW m \in Message PROVE OutboxInv(m)'
    BY <1>1, OutboxKept DEF NetInv, Agent
<1>7. ASSUME NEW q \in Process PROVE CallInv(q)'
    BY CallKept DEF NetInv
<1> QED
    BY <1>2, <1>3, <1>4, <1>5, <1>6, <1>7 DEF NetInv

LEMMA ReplaceKeeps ==
    ASSUME NetInv, NEW a \in Address, Replace(a)
    PROVE  NetInv'
<1>1. /\ UNCHANGED <<control, endpoint, saved, call>> /\ inbox' = inbox /\ rejected' = rejected
      /\ outbox' = outbox
      /\ DOMAIN node' = Address /\ \A b \in Address : b # a => node'[b] = node[b]
      /\ node'[a] = [epoch |-> node[a].epoch + 1, version |-> 0, members |-> {},
                     messages |-> <<>>, receipts |-> <<>>]
    BY DEF Replace, Fresh, NetInv, NetDomains, saved
<1>2. /\ node'[a].epoch = node[a].epoch + 1 /\ node'[a].version = 0 /\ node'[a].members = {}
      /\ node'[a].messages = <<>> /\ node'[a].receipts = <<>>
    BY <1>1
<1>3. \A b \in Address : node[b].epoch \in Nat /\ node[b].messages \in Seq(Envelope)
    BY DEF NetInv, NodeInv
<1>4. <<>> \in Seq(Envelope) /\ 1 .. Len(<<>>) = {}
    OBVIOUS
<1>5. Later
    <2>1. control.version \in Nat /\ \A b \in Address : control.epoch[b] \in Nat
        BY DEF NetInv, ControlInv
    <2>2. ASSUME NEW b \in Address
          PROVE  /\ node'[b].epoch \in Nat /\ node'[b].epoch >= node[b].epoch
                 /\ node'[b].messages \in Seq(Envelope)
                 /\ node'[b].epoch = node[b].epoch =>
                        /\ Len(node[b].messages) <= Len(node'[b].messages)
                        /\ \A i \in 1 .. Len(node[b].messages) : node'[b].messages[i] = node[b].messages[i]
        <3>1. Len(node[b].messages) \in Nat
            BY <1>3
        <3>2. CASE b = a
            <4>1. node'[b].epoch = node[b].epoch + 1 /\ node[b].epoch \in Nat /\ node'[b].messages = <<>>
                BY <1>2, <1>3, <3>2
            <4>2. node'[b].epoch \in Nat /\ node'[b].epoch >= node[b].epoch /\ node'[b].epoch # node[b].epoch
                BY <4>1
            <4> QED
                BY <1>4, <4>1, <4>2
        <3>3. CASE b # a
            BY <1>1, <1>3, <3>1, <3>3
        <3> QED
            BY <3>2, <3>3
    <2> QED
        BY <1>1, <2>1, <2>2 DEF Later
<1>6. NodeInv(a)'
    <2>1. node'[a] = [epoch |-> node'[a].epoch, version |-> node'[a].version, members |-> node'[a].members,
                      messages |-> node'[a].messages, receipts |-> node'[a].receipts]
        BY <1>1, <1>2
    <2>2. node'[a].epoch \in Nat
        BY <1>2, <1>3
    <2> QED
        BY <1>2, <1>4, <2>1, <2>2 DEF NodeInv, Envelope
<1>7. ASSUME NEW b \in Address, b # a PROVE NodeInv(b)'
    BY <1>1, <1>5, <1>7, NodeKept DEF NetInv
<1>8. ControlInv'
    <2>1. \A b \in Address : node'[b].epoch \in Nat /\ node'[b].epoch >= node[b].epoch
        BY <1>5 DEF Later
    <2> QED
        BY <1>1, <1>3, <2>1 DEF NetInv, ControlInv
<1> QED
    BY <1>1, <1>5, <1>6, <1>7, <1>8, OutsideKeeps

\* A new document of the authority.
LEMMA DocumentKeeps ==
    ASSUME NetInv, UNCHANGED <<node, endpoint, saved, call>>,
           control' = [version |-> control'.version, members |-> control'.members, epoch |-> control'.epoch],
           control'.version = control.version + 1, control'.members \subseteq control.members,
           DOMAIN control'.epoch = Address,
           \A a \in Address : /\ control'.epoch[a] \in Nat /\ control'.epoch[a] >= control.epoch[a]
                              /\ control'.epoch[a] <= node[a].epoch
    PROVE  NetInv'
<1>1. outbox' = outbox /\ inbox' = inbox /\ rejected' = rejected
    BY DEF saved
<1>2. control.version \in Nat /\ control.members \subseteq Agent
    BY DEF NetInv, ControlInv
<1>3. \A a \in Address : node[a].epoch \in Nat /\ node[a].messages \in Seq(Envelope)
    BY DEF NetInv, NodeInv
<1>4. \A a \in Address : Len(node[a].messages) \in Nat
    BY <1>3
<1>5. Later
    BY <1>1, <1>2, <1>3, <1>4 DEF Later
<1>6. ControlInv'
    BY <1>2 DEF ControlInv, Agent
<1>7. ASSUME NEW a \in Address PROVE NodeInv(a)'
    BY <1>5, NodeKept DEF NetInv
<1> QED
    BY <1>5, <1>6, <1>7, OutsideKeeps DEF NetInv, NetDomains

LEMMA AuthorizeKeeps ==
    ASSUME NetInv, NEW a \in Address, Authorize(a)
    PROVE  NetInv'
<1>1. /\ UNCHANGED <<node, endpoint, saved, call>>
      /\ control' = [control EXCEPT !.version = @ + 1, !.epoch[a] = node[a].epoch]
    BY DEF Authorize
<1>2. /\ control = [version |-> control.version, members |-> control.members, epoch |-> control.epoch]
      /\ DOMAIN control.epoch = Address
      /\ \A b \in Address : control.epoch[b] \in Nat /\ control.epoch[b] <= node[b].epoch
    BY DEF NetInv, ControlInv
<1>3. control' = [version |-> control.version + 1, members |-> control.members,
                  epoch |-> [control.epoch EXCEPT ![a] = node[a].epoch]]
    BY <1>1, <1>2
<1>4. /\ control'.version = control.version + 1 /\ control'.members = control.members
      /\ control'.epoch = [control.epoch EXCEPT ![a] = node[a].epoch]
    BY <1>3
<1>5. node[a].epoch \in Nat
    BY DEF NetInv, NodeInv
<1>6. /\ DOMAIN control'.epoch = Address
      /\ \A b \in Address : /\ control'.epoch[b] \in Nat /\ control'.epoch[b] >= control.epoch[b]
                            /\ control'.epoch[b] <= node[b].epoch
    BY <1>2, <1>4, <1>5
<1> QED
    BY <1>1, <1>3, <1>4, <1>6, DocumentKeeps

LEMMA RevokeKeeps ==
    ASSUME NetInv, NEW g \in Agent, Revoke(g)
    PROVE  NetInv'
<1>1. /\ UNCHANGED <<node, endpoint, saved, call>>
      /\ control' = [control EXCEPT !.version = @ + 1, !.members = @ \ {g}]
    BY DEF Revoke
<1>2. /\ control = [version |-> control.version, members |-> control.members, epoch |-> control.epoch]
      /\ DOMAIN control.epoch = Address
      /\ \A b \in Address : control.epoch[b] \in Nat /\ control.epoch[b] <= node[b].epoch
    BY DEF NetInv, ControlInv
<1>3. control' = [version |-> control.version + 1, members |-> control.members \ {g}, epoch |-> control.epoch]
    BY <1>1, <1>2
<1>4. /\ control'.version = control.version + 1 /\ control'.members = control.members \ {g}
      /\ control'.epoch = control.epoch
    BY <1>3
<1>5. /\ control' = [version |-> control'.version, members |-> control'.members, epoch |-> control'.epoch]
      /\ control'.members \subseteq control.members
    BY <1>3, <1>4
<1>6. \A b \in Address : control.epoch[b] >= control.epoch[b]
    BY <1>2
<1> QED
    BY <1>1, <1>2, <1>4, <1>5, <1>6, DocumentKeeps

----------------------------------------------------------------------------
(* Every step *)

LEMMA ContinueKeeps ==
    ASSUME NetInv, NEW p \in Process, Continue(p)
    PROVE  NetInv'
<1>0. \E a, g : a = call[p].address /\ g = AgentOf(p)
    OBVIOUS
<1>1. CASE Bind(p)
    BY <1>0, <1>1, BindKeeps
<1>2. CASE Refresh(p)
    BY <1>0, <1>2, RefreshKeeps
<1>3. CASE Freeze(p)
    BY <1>3, FreezeKeeps
<1>4. CASE Post(p)
    BY <1>0, <1>4, PostKeeps
<1>5. CASE SaveReceipt(p)
    BY <1>5, SaveReceiptKeeps
<1>6. CASE ReadCursor(p)
    BY <1>6, ReadCursorKeeps
<1>7. CASE Poll(p)
    BY <1>7, PollKeeps
<1>8. CASE Accept(p)
    BY <1>8, AcceptKeeps
<1>9. CASE Ack(p)
    BY <1>0, <1>9, AckKeeps
<1>10. CASE CommitPage(p)
    BY <1>0, <1>10, CommitPageKeeps
<1> QED
    BY <1>1, <1>2, <1>3, <1>4, <1>5, <1>6, <1>7, <1>8, <1>9, <1>10 DEF Continue

LEMMA StepHolds == NetInv /\ [NetNext]_netVars => NetInv'
<1> SUFFICES ASSUME NetInv, [NetNext]_netVars PROVE NetInv'
    OBVIOUS
<1>1. ASSUME NEW m \in Message, Enqueue(m) PROVE NetInv'
    BY <1>1, EnqueueKeeps
<1>2. ASSUME NEW p \in Process, Continue(p) PROVE NetInv'
    BY <1>2, ContinueKeeps
<1>3. ASSUME NEW p \in Process, Stop(p) PROVE NetInv'
    BY <1>3, StopKeeps
<1>4. ASSUME NEW p \in Process, NEW a \in Address, BeginDeliver(p, a) PROVE NetInv'
    <2>1. PICK m \in Message : FetchStatus(p, a, {m})
        BY <1>4 DEF BeginDeliver
    <2>2. p \in Sending /\ \E k \in Message : {m} = {k}
        BY <1>4 DEF BeginDeliver
    <2> QED
        BY <2>1, <2>2, FetchStatusKeeps
<1>5. ASSUME NEW p \in Process, NEW a \in Address, BeginReceiving(p, a) PROVE NetInv'
    BY <1>5, FetchStatusKeeps DEF BeginReceiving
<1>6. ASSUME NEW a \in Address, Replace(a) PROVE NetInv'
    BY <1>6, ReplaceKeeps
<1>7. ASSUME NEW a \in Address, Authorize(a) PROVE NetInv'
    BY <1>7, AuthorizeKeeps
<1>8. ASSUME NEW g \in Agent, Revoke(g) PROVE NetInv'
    BY <1>8, RevokeKeeps
<1>9. CASE UNCHANGED netVars
    <2>1. UNCHANGED <<control, node, endpoint, saved>> /\ call' = call
        BY <1>9 DEF netVars
    <2>2. outbox' = outbox /\ inbox' = inbox /\ rejected' = rejected
        BY <2>1 DEF saved
    <2>3. Later
        BY <2>1, <2>2, LaterWhen
    <2>4. \A a \in Address : NodeInv(a)'
        BY <2>1, <2>3, NodeKept DEF NetInv
    <2>5. ControlInv' /\ DOMAIN node' = Address
        BY <2>1, ControlKept DEF NetInv, NetDomains
    <2> QED
        BY <2>1, <2>3, <2>4, <2>5, OutsideKeeps
<1> QED
    BY <1>1, <1>2, <1>3, <1>4, <1>5, <1>6, <1>7, <1>8, <1>9 DEF NetNext

\* The inductive invariant: what every document, node, endpoint, message and
\* process may be at any time.
THEOREM NetworkInvariant == NetSpec => []NetInv
<1> QED
    BY InitHolds, StepHolds, PTL DEF NetSpec

----------------------------------------------------------------------------
(* Theorems *)

LEMMA PrefixElements ==
    ASSUME NEW S, NEW s \in Seq(S), NEW k \in Nat, k <= Len(s)
    PROVE  ToSet(SubSeq(s, 1, k)) \subseteq {s[i] : i \in 1 .. k}
<1>1. Len(s) \in Nat /\ \A i \in 1 .. k : s[i] \in S
    OBVIOUS
<1>2. /\ SubSeq(s, 1, k) \in Seq(S) /\ Len(SubSeq(s, 1, k)) = k
      /\ \A i \in 1 .. k : SubSeq(s, 1, k)[i] = s[i]
    BY <1>1
<1>3. ToSet(SubSeq(s, 1, k)) = {SubSeq(s, 1, k)[i] : i \in 1 .. k}
    BY <1>2, ElementsOf
<1> QED
    BY <1>2, <1>3

\* A message has one envelope, at every node and at the recipient, whichever
\* processes raced to seal it (NetworkClient._deliver_impl).
THEOREM EnvelopeStaysOne == NetSpec => []OneEnvelope
<1>1. NetInv => OneEnvelope
    <2> SUFFICES ASSUME NetInv,
                        NEW e \in inbox \cup rejected \cup UNION {ToSet(node[a].messages) : a \in Address}
                 PROVE  outbox[e.message].envelope = {e}
        BY DEF OneEnvelope
    <2>1. CASE e \in inbox \cup rejected
        BY <2>1 DEF NetInv, SavedInv, Saved, Genuine
    <2>2. CASE e \notin inbox \cup rejected
        <3>1. PICK a \in Address : e \in ToSet(node[a].messages)
            BY <2>2
        <3>2. node[a].messages \in Seq(Envelope) /\ \A i \in 1 .. Len(node[a].messages) : Genuine(node[a].messages[i])
            BY DEF NetInv, NodeInv
        <3>3. PICK i \in 1 .. Len(node[a].messages) : e = node[a].messages[i]
            BY <3>1, <3>2, ElementsOf
        <3> QED
            BY <3>2, <3>3 DEF Genuine
    <2> QED
        BY <2>1, <2>2
<1> QED
    BY <1>1, NetworkInvariant, PTL

\* While the incarnation that signed it serves the address, the node has what a
\* storage receipt is about: receipts are forgotten with the incarnation
\* (NetworkClient._bind_node, _assert_node).
THEOREM ReceiptsStayTrue == NetSpec => []ReceiptIsTrue
<1>1. NetInv => ReceiptIsTrue
    BY DEF NetInv, OutboxInv, Holds, ReceiptIsTrue
<1> QED
    BY <1>1, NetworkInvariant, PTL

\* No replacement of a node, no process that answers late and no interruption
\* makes the recipient skip a message, and a confirmed message is in the inbox
\* (NetworkClient.receive, _accept).
THEOREM NothingGetsLost == NetSpec => []NothingIsLost
<1>1. NetInv => NothingIsLost
    <2> SUFFICES ASSUME NetInv PROVE PassedIsSettled /\ AckedIsSaved
        BY DEF NothingIsLost
    <2>1. AckedIsSaved
        BY DEF NetInv, SavedInv
    <2>2. ASSUME NEW a \in Address, Current("recipient", a)
          PROVE  /\ endpoint["recipient"].cursor[a] <= Len(node[a].messages)
                 /\ "sender" \in control.members =>
                        ToSet(SubSeq(node[a].messages, 1, endpoint["recipient"].cursor[a])) \subseteq inbox \cup rejected
        <3>1. Settled(a, endpoint["recipient"].cursor[a], {})
            BY <2>2 DEF NetInv, EndpointInv, Agent
        <3>2. node[a].messages \in Seq(Envelope)
            BY DEF NetInv, NodeInv
        <3>3. endpoint["recipient"].cursor[a] \in Nat
              /\ endpoint["recipient"].cursor[a] <= Len(node[a].messages)
            BY <3>1 DEF Settled
        <3>4. ToSet(SubSeq(node[a].messages, 1, endpoint["recipient"].cursor[a]))
                \subseteq {node[a].messages[i] : i \in 1 .. endpoint["recipient"].cursor[a]}
            BY <3>2, <3>3, PrefixElements
        <3> QED
            BY <3>1, <3>3, <3>4 DEF Settled, Saved
    <2> QED
        BY <2>1, <2>2 DEF PassedIsSettled
<1> QED
    BY <1>1, NetworkInvariant, PTL

MovesOn(g, a) ==
    /\ endpoint'[g].version >= endpoint[g].version
    /\ endpoint'[g].bound[a] >= endpoint[g].bound[a]
    /\ endpoint'[g].bound[a] = endpoint[g].bound[a] => endpoint'[g].cursor[a] >= endpoint[g].cursor[a]

\* Neither a process with an old answer of the authority nor an old incarnation
\* takes an endpoint back (NetworkClient._bind_node, receive).
THEOREM EndpointsMoveOn == NetSpec => BindingsMoveOn
<1>1. ASSUME NetInv, [NetNext]_netVars, NEW h \in Agent, NEW b \in Address PROVE MovesOn(h, b)
    <2>0. /\ endpoint[h].version \in Nat /\ endpoint[h].version <= control.version
          /\ endpoint[h].bound[b] \in Nat /\ endpoint[h].cursor[b] \in Nat
          /\ endpoint[h] = [version |-> endpoint[h].version, bound |-> endpoint[h].bound,
                            cursor |-> endpoint[h].cursor]
          /\ DOMAIN endpoint[h].bound = Address /\ DOMAIN endpoint[h].cursor = Address
        BY <1>1 DEF NetInv, EndpointInv
    <2>d. DOMAIN endpoint = Agent /\ control.version \in Nat
        BY <1>1 DEF NetInv, NetDomains, ControlInv
    <2>1. ASSUME endpoint' = endpoint PROVE MovesOn(h, b)
        BY <2>0, <2>1 DEF MovesOn
    <2>2. ASSUME NEW p \in Process, NEW a \in Address, NEW M, FetchStatus(p, a, M) PROVE MovesOn(h, b)
        <3>1. endpoint' = [endpoint EXCEPT ![AgentOf(p)].version = control.version]
            BY <2>2 DEF FetchStatus
        <3>2. CASE h = AgentOf(p)
            <4>1. endpoint'[h] = [version |-> control.version, bound |-> endpoint[h].bound,
                                  cursor |-> endpoint[h].cursor]
                BY <2>0, <2>d, <3>1, <3>2
            <4>2. /\ endpoint'[h].version = control.version /\ endpoint'[h].bound = endpoint[h].bound
                  /\ endpoint'[h].cursor = endpoint[h].cursor
                BY <4>1
            <4> QED
                BY <2>0, <2>d, <4>2 DEF MovesOn
        <3>3. CASE h # AgentOf(p)
            <4>1. endpoint'[h] = endpoint[h]
                BY <2>d, <3>1, <3>3
            <4> QED
                BY <2>0, <4>1 DEF MovesOn
        <3> QED
            BY <3>2, <3>3
    <2>3. ASSUME NEW p \in Process, Bind(p), NEW a, a = call[p].address, NEW g, g = AgentOf(p)
          PROVE  MovesOn(h, b)
        <3> DEFINE c == call[p]
        <3>1. /\ c.pc = "status" /\ c.status.version >= endpoint[g].version /\ c.status.epoch[a] = c.epoch
              /\ \/ endpoint' = [endpoint EXCEPT ![g].version = c.status.version]
                 \/ endpoint' = [endpoint EXCEPT ![g].version = c.status.version,
                                                 ![g].bound[a] = c.epoch, ![g].cursor[a] = 0]
                    /\ endpoint[g].bound[a] # c.epoch
            BY <2>3 DEF Bind, MayBind
        <3>2. /\ a \in Address /\ g \in Agent /\ c.status.version \in Nat /\ c.epoch \in Nat
              /\ endpoint[g].bound[a] <= c.epoch
            <4>1. a \in Address /\ g \in Agent /\ StatusInv(c.status) /\ c.epoch \in Nat
                BY <1>1, <2>3, <3>1 DEF NetInv, CallInv, WithStatus, AgentOf, Agent
            <4>2. endpoint[g].bound[a] <= c.status.epoch[a]
                BY <1>1, <3>1, <4>1 DEF NetInv, AnswersInv, WithStatus
            <4> QED
                BY <3>1, <4>1, <4>2 DEF StatusInv
        <3>3. CASE h # g
            <4>1. endpoint'[h] = endpoint[h]
                BY <2>d, <3>1, <3>3
            <4> QED
                BY <2>0, <4>1 DEF MovesOn
        <3>4. CASE h = g /\ endpoint' = [endpoint EXCEPT ![g].version = c.status.version]
            <4>1. endpoint'[h] = [version |-> c.status.version, bound |-> endpoint[h].bound,
                                  cursor |-> endpoint[h].cursor]
                BY <2>0, <2>d, <3>4
            <4>2. /\ endpoint'[h].version = c.status.version /\ endpoint'[h].bound = endpoint[h].bound
                  /\ endpoint'[h].cursor = endpoint[h].cursor
                BY <4>1
            <4> QED
                BY <2>0, <3>1, <3>2, <3>4, <4>2 DEF MovesOn
        <3>5. CASE /\ h = g /\ endpoint[g].bound[a] # c.epoch
                   /\ endpoint' = [endpoint EXCEPT ![g].version = c.status.version,
                                                   ![g].bound[a] = c.epoch, ![g].cursor[a] = 0]
            <4>1. endpoint'[h] = [version |-> c.status.version,
                                  bound |-> [endpoint[h].bound EXCEPT ![a] = c.epoch],
                                  cursor |-> [endpoint[h].cursor EXCEPT ![a] = 0]]
                BY <2>0, <2>d, <3>5
            <4>2. /\ endpoint'[h].version = c.status.version
                  /\ endpoint'[h].bound = [endpoint[h].bound EXCEPT ![a] = c.epoch]
                  /\ endpoint'[h].cursor = [endpoint[h].cursor EXCEPT ![a] = 0]
                BY <4>1
            <4>3. CASE b = a
                <5>1. endpoint'[h].bound[b] = c.epoch /\ c.epoch >= endpoint[h].bound[b]
                      /\ c.epoch # endpoint[h].bound[b]
                    BY <2>0, <3>2, <3>5, <4>2, <4>3
                <5> QED
                    BY <2>0, <3>1, <3>2, <3>5, <4>2, <5>1 DEF MovesOn
            <4>4. CASE b # a
                <5>1. endpoint'[h].bound[b] = endpoint[h].bound[b] /\ endpoint'[h].cursor[b] = endpoint[h].cursor[b]
                    BY <2>0, <4>2, <4>4
                <5> QED
                    BY <2>0, <3>1, <3>2, <3>5, <4>2, <5>1 DEF MovesOn
            <4> QED
                BY <4>3, <4>4
        <3> QED
            BY <3>1, <3>3, <3>4, <3>5
    <2>4. ASSUME NEW p \in Process, CommitPage(p), NEW a, a = call[p].address, NEW g, g = AgentOf(p)
          PROVE  MovesOn(h, b)
        <3> DEFINE k == Advanced(endpoint[g].cursor[a], call[p].cursor)
        <3>1. call[p].pc = "page" /\ endpoint' = [endpoint EXCEPT ![g].cursor[a] = k]
            BY <2>4 DEF CommitPage
        <3>2. a \in Address /\ g \in Agent /\ call[p].cursor \in Nat
            BY <1>1, <2>4, <3>1 DEF NetInv, CallInv, AgentOf, Agent
        <3>3. k >= endpoint[g].cursor[a] /\ endpoint[g].cursor[a] \in Nat
            <4>1. endpoint[g].cursor[a] \in Nat
                BY <1>1, <3>2 DEF NetInv, EndpointInv
            <4> QED
                BY <3>2, <4>1, LargerOfTwo DEF Advanced
        <3> HIDE DEF k
        <3>4. CASE h # g
            <4>1. endpoint'[h] = endpoint[h]
                BY <2>d, <3>1, <3>4
            <4> QED
                BY <2>0, <4>1 DEF MovesOn
        <3>5. CASE h = g
            <4>1. endpoint'[h] = [version |-> endpoint[h].version, bound |-> endpoint[h].bound,
                                  cursor |-> [endpoint[h].cursor EXCEPT ![a] = k]]
                BY <2>0, <2>d, <3>1, <3>5
            <4>2. /\ endpoint'[h].version = endpoint[h].version /\ endpoint'[h].bound = endpoint[h].bound
                  /\ endpoint'[h].cursor = [endpoint[h].cursor EXCEPT ![a] = k]
                BY <4>1
            <4>3. endpoint'[h].cursor[b] >= endpoint[h].cursor[b]
                BY <2>0, <3>2, <3>3, <3>5, <4>2
            <4> QED
                BY <2>0, <4>2, <4>3 DEF MovesOn
        <3> QED
            BY <3>4, <3>5
    <2>5. ASSUME NEW p \in Process, Continue(p) PROVE MovesOn(h, b)
        <3>1. CASE Bind(p)
            BY <2>3, <3>1
        <3>2. CASE CommitPage(p)
            BY <2>4, <3>2
        <3>3. CASE ~Bind(p) /\ ~CommitPage(p)
            <4>1. endpoint' = endpoint
                BY <2>5, <3>3 DEF Continue, Refresh, Freeze, Post, SaveReceipt, ReadCursor, Poll, Accept, Ack
            <4> QED
                BY <2>1, <4>1
        <3> QED
            BY <3>1, <3>2, <3>3
    <2>6. ASSUME NEW p \in Process, NEW a \in Address, BeginDeliver(p, a) \/ BeginReceiving(p, a) PROVE MovesOn(h, b)
        BY <2>2, <2>6 DEF BeginDeliver, BeginReceiving
    <2>7. ASSUME \/ \E m \in Message : Enqueue(m)
                 \/ \E p \in Process : Stop(p)
                 \/ \E a \in Address : Replace(a) \/ Authorize(a)
                 \/ \E g \in Agent : Revoke(g)
                 \/ UNCHANGED netVars
          PROVE  MovesOn(h, b)
        <3>1. endpoint' = endpoint
            BY <2>7 DEF Enqueue, Stop, Replace, Authorize, Revoke, netVars
        <3> QED
            BY <2>1, <3>1
    <2> QED
        BY <1>1, <2>5, <2>6, <2>7 DEF NetNext
<1>2. NetInv /\ [NetNext]_netVars =>
        [\A g \in Agent, a \in Address :
            /\ endpoint'[g].version >= endpoint[g].version
            /\ endpoint'[g].bound[a] >= endpoint[g].bound[a]
            /\ endpoint'[g].bound[a] = endpoint[g].bound[a] => endpoint'[g].cursor[a] >= endpoint[g].cursor[a]]_netVars
    BY <1>1 DEF MovesOn
<1> QED
    BY <1>2, NetworkInvariant, PTL DEF NetSpec, BindingsMoveOn

----------------------------------------------------------------------------
(* RelayNetwork implements Mail. *)

Letter == UNION {outbox[m].envelope : m \in Message}

mailVars == <<Letter, inbox, rejected, acked>>

\* The recipient decides by the content: no letter is both saved and refused.
SortedInv ==
    /\ \A e \in inbox : e.message \notin Invalid
    /\ \A e \in rejected : e.message \in Invalid

LEMMA LettersAreGenuine ==
    ASSUME NetInv
    PROVE  /\ \A l \in Letter : Genuine(l) /\ l.message \in Message
           /\ inbox \cup rejected \subseteq Letter
           /\ \A e : Genuine(e) => e \in Letter
<1>1. ASSUME NEW l \in Letter PROVE Genuine(l) /\ l.message \in Message
    <2>1. PICK m \in Message : l \in outbox[m].envelope
        BY DEF Letter
    <2>2. l.message = m /\ Genuine(l)
        BY <2>1 DEF NetInv, OutboxInv
    <2> QED
        BY <2>2
<1>2. ASSUME NEW e, Genuine(e) PROVE e \in Letter
    <2>1. e.message \in Message /\ e \in outbox[e.message].envelope
        BY <1>2 DEF Genuine, Envelope
    <2> QED
        BY <2>1 DEF Letter
<1> QED
    BY <1>1, <1>2 DEF NetInv, SavedInv, Saved

\* What changes no envelope changes no letter.
LEMMA LettersStay ==
    ASSUME \A m \in Message : outbox'[m].envelope = outbox[m].envelope
    PROVE  Letter' = Letter
BY DEF Letter

\* Who freezes a message seals it, unless another process was faster.
LEMMA FreezeSeals ==
    ASSUME NetInv, NEW p \in Process, Freeze(p)
    PROVE  Letters!Seal \/ UNCHANGED mailVars
<1>1. UNCHANGED <<inbox, rejected, acked>>
    BY DEF Freeze
<1>2. PICK m \in call[p].message :
        LET e == Sealed(m, {[message |-> m, version |-> call[p].status.version, by |-> p]})
        IN  outbox' = [outbox EXCEPT ![m].envelope = e]
    BY DEF Freeze
<1>3. m \in Message /\ DOMAIN outbox = Message
    BY DEF Freeze, NetInv, NetDomains, CallInv
<1> DEFINE l == [message |-> m, version |-> call[p].status.version, by |-> p]
<1>4. /\ outbox'[m].envelope = Sealed(m, {l})
      /\ \A n \in Message : n # m => outbox'[n] = outbox[n]
    <2>1. outbox[m] = [queued |-> outbox[m].queued, envelope |-> outbox[m].envelope, receipts |-> outbox[m].receipts]
        BY <1>3 DEF NetInv, OutboxInv
    <2> QED
        BY <1>2, <1>3, <2>1
<1> HIDE DEF l
<1>5. l.message = m
    BY DEF l
<1>6. CASE outbox[m].envelope # {}
    <2>1. \A n \in Message : outbox'[n].envelope = outbox[n].envelope
        BY <1>4, <1>6 DEF Sealed
    <2> QED
        BY <1>1, <2>1, LettersStay DEF mailVars
<1>7. CASE outbox[m].envelope = {}
    <2>1. outbox'[m].envelope = {l}
        BY <1>4, <1>7 DEF Sealed
    <2>2. Letter' = Letter \cup {l}
        <3>1. ASSUME NEW k \in Letter' PROVE k \in Letter \cup {l}
            BY <1>4, <2>1 DEF Letter
        <3>2. ASSUME NEW k \in Letter PROVE k \in Letter'
            BY <1>4, <1>7 DEF Letter
        <3>3. l \in Letter'
            BY <1>3, <2>1 DEF Letter
        <3> QED
            BY <3>1, <3>2, <3>3
    <2>3. \A k \in Letter : k.message # l.message
        BY <1>5, <1>7, LettersAreGenuine DEF Genuine
    <2>4. l \in Letter' \ Letter
        BY <2>2, <2>3
    <2>5. Letters!Seal
        BY <1>1, <2>2, <2>3, <2>4 DEF Letters!Seal, Letter
    <2> QED
        BY <2>5
<1> QED
    BY <1>6, <1>7

\* Who accepts a row settles its letter, unless it is settled.
LEMMA AcceptSettles ==
    ASSUME NetInv, SortedInv, NEW p \in Process, Accept(p)
    PROVE  SortedInv' /\ (Letters!Accept \/ Letters!Refuse \/ UNCHANGED mailVars)
<1> DEFINE e == Head(call[p].rows)
<1>1. /\ UNCHANGED <<outbox, acked>> /\ Known(e.message) \subseteq {e}
      /\ IF e.message \in Invalid
         THEN rejected' = rejected \cup {e} /\ UNCHANGED inbox
         ELSE inbox' = inbox \cup {e} /\ UNCHANGED rejected
    BY DEF Accept
<1>2. Genuine(e)
    <2>1. call[p].rows \in Seq(Envelope) /\ call[p].rows # <<>>
          /\ \A i \in 1 .. Len(call[p].rows) : Genuine(call[p].rows[i])
        BY DEF Accept, NetInv, CallInv
    <2>2. e = call[p].rows[1] /\ 1 \in 1 .. Len(call[p].rows)
        BY <2>1
    <2> QED
        BY <2>1, <2>2
<1> HIDE DEF e
<1>3. SortedInv'
    BY <1>1 DEF SortedInv
<1>4. e \in Letter /\ Letter' = Letter
    BY <1>1, <1>2, LettersAreGenuine DEF Letter
<1>5. CASE e \in inbox \cup rejected
    <2>1. UNCHANGED <<inbox, rejected>>
        BY <1>1, <1>5 DEF SortedInv
    <2> QED
        BY <1>1, <1>3, <1>4, <2>1 DEF mailVars
<1>6. CASE e \notin inbox \cup rejected
    <2>1. Letters!Accept \/ Letters!Refuse
        BY <1>1, <1>4, <1>6 DEF Letters!Accept, Letters!Refuse, Letter
    <2> QED
        BY <1>3, <2>1
<1> QED
    BY <1>5, <1>6

\* Who commits a page of receipts confirms what is in the inbox.
LEMMA CommitPageConfirms ==
    ASSUME NetInv, NEW p \in Process, CommitPage(p)
    PROVE  Letters!Confirm
<1>1. UNCHANGED <<outbox, inbox, rejected>>
    BY DEF CommitPage
<1>2. acked \subseteq {l.message : l \in inbox}
    <2>1. ASSUME NEW m \in acked PROVE \E l \in inbox : m = l.message
        <3>1. m \in Message /\ outbox[m].envelope # {} /\ outbox[m].envelope \subseteq inbox
            BY DEF NetInv, SavedInv, AckedIsSaved
        <3>2. \A l \in outbox[m].envelope : l.message = m
            BY <3>1 DEF NetInv, OutboxInv
        <3> QED
            BY <3>1, <3>2
    <2> QED
        BY <2>1
<1>3. acked \subseteq acked' /\ acked' \subseteq {l.message : l \in inbox}
    <2>1. CASE p \in Sending /\ "recipient" \in call[p].status.members
        <3>1. acked' = acked \cup {e.message : e \in ToSet(call[p].rows)}
            BY <2>1 DEF CommitPage
        <3>2. ToSet(call[p].rows) \subseteq inbox
            BY <2>1 DEF CommitPage, NetInv, CallInv
        <3> QED
            BY <1>2, <3>1, <3>2
    <2>2. CASE ~(p \in Sending /\ "recipient" \in call[p].status.members)
        BY <1>2, <2>2 DEF CommitPage
    <2> QED
        BY <2>1, <2>2
<1>4. Letter' = Letter
    BY <1>1 DEF Letter
<1> QED
    BY <1>1, <1>3, <1>4 DEF Letters!Confirm, Letter

\* The other steps change no envelope, no inbox and no acknowledgement.
LEMMA OthersKeepMail ==
    ASSUME NetInv, [NetNext]_netVars,
           ~\E p \in Process : Freeze(p) \/ Accept(p) \/ CommitPage(p)
    PROVE  UNCHANGED mailVars
<1> USE DEF saved
<1>0. /\ DOMAIN outbox = Message
      /\ \A m \in Message : outbox[m] =
            [queued |-> outbox[m].queued, envelope |-> outbox[m].envelope, receipts |-> outbox[m].receipts]
    BY DEF NetInv, NetDomains, OutboxInv
<1>1. ASSUME UNCHANGED saved PROVE UNCHANGED mailVars
    BY <1>1 DEF mailVars, Letter
<1>2. ASSUME UNCHANGED <<inbox, rejected, acked>>,
             \A m \in Message : outbox'[m].envelope = outbox[m].envelope
      PROVE  UNCHANGED mailVars
    BY <1>2, LettersStay DEF mailVars
<1>3. ASSUME NEW m \in Message, Enqueue(m) PROVE UNCHANGED mailVars
    <2>1. \A n \in Message : outbox'[n].envelope = outbox[n].envelope
        BY <1>0, <1>3 DEF Enqueue
    <2> QED
        BY <1>2, <1>3, <2>1 DEF Enqueue
<1>4. ASSUME NEW p \in Process, Bind(p) PROVE UNCHANGED mailVars
    <2>1. \A n \in Message : outbox'[n].envelope = outbox[n].envelope
        BY <1>0, <1>4 DEF Bind, ForgetReceipts
    <2> QED
        BY <1>2, <1>4, <2>1 DEF Bind
<1>5. ASSUME NEW p \in Process, SaveReceipt(p) PROVE UNCHANGED mailVars
    <2>1. \A n \in Message : outbox'[n].envelope = outbox[n].envelope
        BY <1>0, <1>5 DEF SaveReceipt
    <2> QED
        BY <1>2, <1>5, <2>1 DEF SaveReceipt
<1>6. ASSUME NEW p \in Process,
             Refresh(p) \/ Post(p) \/ ReadCursor(p) \/ Poll(p) \/ Ack(p) \/ Stop(p)
      PROVE  UNCHANGED mailVars
    BY <1>1, <1>6 DEF Refresh, Post, ReadCursor, Poll, Ack, Stop
<1>7. ASSUME NEW p \in Process, NEW a \in Address, BeginDeliver(p, a) \/ BeginReceiving(p, a)
      PROVE  UNCHANGED mailVars
    BY <1>1, <1>7 DEF BeginDeliver, BeginReceiving, FetchStatus
<1>8. ASSUME NEW a \in Address, Replace(a) \/ Authorize(a) PROVE UNCHANGED mailVars
    BY <1>1, <1>8 DEF Replace, Authorize
<1>9. ASSUME NEW g \in Agent, Revoke(g) PROVE UNCHANGED mailVars
    BY <1>1, <1>9 DEF Revoke
<1>10. CASE UNCHANGED netVars
    BY <1>1, <1>10 DEF netVars
<1> QED
    BY <1>3, <1>4, <1>5, <1>6, <1>7, <1>8, <1>9, <1>10 DEF NetNext, Continue

\* Two endpoints, the nodes between them and an authority that replaces and
\* revokes them promise what Mail says: one letter for a message, settled once,
\* and confirmed only when it was accepted (NetworkClient._deliver_impl, _accept,
\* receive).
THEOREM NetworkImplementsMail == NetSpec => ImplementsMail
<1>1. NetInit => SortedInv /\ Letters!Init
    <2> SUFFICES ASSUME NetInit PROVE SortedInv /\ Letters!Init
        OBVIOUS
    <2>1. \A m \in Message : outbox[m].envelope = {}
        BY DEF NetInit
    <2>2. Letter = {}
        BY <2>1 DEF Letter
    <2> QED
        BY <2>2 DEF NetInit, SortedInv, Letters!Init, Letter
<1>2. NetInv /\ SortedInv /\ [NetNext]_netVars => SortedInv' /\ [Letters!Next]_mailVars
    <2> SUFFICES ASSUME NetInv, SortedInv, [NetNext]_netVars PROVE SortedInv' /\ (Letters!Next \/ UNCHANGED mailVars)
        OBVIOUS
    <2>1. CASE \E p \in Process : Accept(p)
        BY <2>1, AcceptSettles DEF Letters!Next
    <2>2. ASSUME UNCHANGED <<inbox, rejected>> PROVE SortedInv'
        BY <2>2 DEF SortedInv
    <2>3. CASE \E p \in Process : Freeze(p)
        <3>1. UNCHANGED <<inbox, rejected>>
            BY <2>3 DEF Freeze
        <3> QED
            BY <2>2, <2>3, <3>1, FreezeSeals DEF Letters!Next
    <2>4. CASE \E p \in Process : CommitPage(p)
        <3>1. UNCHANGED <<inbox, rejected>>
            BY <2>4 DEF CommitPage
        <3> QED
            BY <2>2, <2>4, <3>1, CommitPageConfirms DEF Letters!Next
    <2>5. CASE ~\E p \in Process : Freeze(p) \/ Accept(p) \/ CommitPage(p)
        <3>1. UNCHANGED mailVars
            BY <2>5, OthersKeepMail
        <3> QED
            BY <2>2, <3>1 DEF mailVars
    <2> QED
        BY <2>1, <2>3, <2>4, <2>5
<1>3. [Letters!Next]_mailVars <=> [Letters!Next]_<<UNION {outbox[m].envelope : m \in Message}, inbox, rejected, acked>>
    BY DEF mailVars, Letter
<1> QED
    BY <1>1, <1>2, <1>3, NetworkInvariant, PTL DEF NetSpec, ImplementsMail, Letters!Spec

----------------------------------------------------------------------------
(* Acknowledgement slots (AckSlot), for any resources, callers, requests    *)
(* and statuses and any capacity of the ledger.  Between its two checks a   *)
(* request holds no lock.  What makes its second transaction safe is that   *)
(* the resource is still the one it was prepared for (Unmoved): the         *)
(* invariant says what is known of that snapshot.  What a check records of  *)
(* the statuses it was shown (Observe) does not matter until the ledger of  *)
(* the root is proved about, at the end, which needs nothing of the slots   *)
(* but AckInv.                                                              *)

Bound == {"empty", "occupied"}

SlotInv(s) ==
    /\ s = [phase |-> s.phase, bind |-> s.bind, put |-> s.put]
    /\ s.phase \in Bound => s.bind # {}

RequestInv(p) ==
    request[p].pc \in {"gate", "publish"} =>
        /\ request[p] = [pc |-> request[p].pc, op |-> request[p].op, at |-> request[p].at, q |-> request[p].q,
                         statuses |-> request[p].statuses, stamp |-> request[p].stamp]
        /\ request[p].at \in Resource /\ request[p].op \in {"bind", "put", "read"}
        /\ request[p].stamp.phase \in Phases(request[p].op)
        /\ request[p].pc = "publish" /\ request[p].op = "bind" => request[p].stamp.bind \subseteq {request[p].q}
        /\ request[p].pc = "publish" /\ request[p].op = "put" => request[p].stamp.put \subseteq {request[p].q}

\* A confirmed binding or receipt.
Kept(x) ==
    /\ x.at \in Resource
    /\ x.op \in {"bind", "put"}
    /\ x.op = "bind" => slot[x.at].bind = {x.q}
    /\ x.op = "put" => /\ slot[x.at].put = {x.q} /\ slot[x.at].bind # {}
                       /\ slot[x.at].phase \in {"occupied", "conflicted"}

AckInv ==
    /\ DOMAIN slot = Resource /\ DOMAIN request = Caller
    /\ \A r \in Resource : SlotInv(slot[r])
    /\ \A p \in Caller : RequestInv(p)
    /\ \A x \in replies : Kept(x)

LEMMA AckInitHolds == AckInit => AckInv
<1> SUFFICES ASSUME AckInit PROVE AckInv
    OBVIOUS
<1> USE DEF AckInit
<1>1. ASSUME NEW r \in Resource PROVE SlotInv(slot[r])
    <2>1. slot[r] = [phase |-> "none", bind |-> {}, put |-> {}]
        OBVIOUS
    <2> QED
        BY <2>1 DEF SlotInv, Bound
<1>2. ASSUME NEW p \in Caller PROVE RequestInv(p)
    <2>1. request[p].pc = "idle"
        BY DEF NoRequest
    <2> QED
        BY <2>1 DEF RequestInv
<1> QED
    BY <1>1, <1>2 DEF AckInv

\* A step that moves no resource and confirms nothing.
LEMMA RequestMoves ==
    ASSUME AckInv, UNCHANGED <<slot, replies>>, NEW p \in Caller,
           DOMAIN request' = Caller, \A o \in Caller : o # p => request'[o] = request[o], RequestInv(p)'
    PROVE  AckInv'
<1>1. ASSUME NEW o \in Caller PROVE RequestInv(o)'
    <2>1. CASE o = p
        BY <2>1
    <2>2. CASE o # p
        <3>1. RequestInv(o) /\ request'[o] = request[o]
            BY <2>2 DEF AckInv
        <3> QED
            BY <3>1 DEF RequestInv, Phases
    <2> QED
        BY <2>1, <2>2
<1>2. \A x \in replies' : Kept(x)'
    BY DEF AckInv, Kept
<1>3. \A r \in Resource : SlotInv(slot[r])'
    BY DEF AckInv, SlotInv, Bound
<1> QED
    BY <1>1, <1>2, <1>3 DEF AckInv

LEMMA Answered ==
    ASSUME AckInv, NEW p \in Caller, Answer(p)
    PROVE  DOMAIN request' = Caller /\ (\A o \in Caller : o # p => request'[o] = request[o]) /\ RequestInv(p)'
<1>1. /\ DOMAIN request' = Caller /\ \A o \in Caller : o # p => request'[o] = request[o]
      /\ request'[p] = NoRequest
    BY DEF Answer, AckInv
<1>2. request'[p].pc = "idle"
    BY <1>1 DEF NoRequest
<1> QED
    BY <1>1, <1>2 DEF RequestInv

LEMMA PrepareKeeps ==
    ASSUME AckInv, NEW p \in Caller, NEW op \in {"bind", "put", "read"}, NEW r \in Resource, NEW q, NEW D,
           Prepare(p, op, r, q, D)
    PROVE  AckInv'
<1>1. /\ DOMAIN request' = Caller /\ \A o \in Caller : o # p => request'[o] = request[o]
      /\ request'[p] = [pc |-> "gate", op |-> op, at |-> r, q |-> q, statuses |-> D, stamp |-> slot[r]]
      /\ UNCHANGED <<slot, replies>> /\ slot[r].phase \in Phases(op)
    BY DEF Prepare, AckInv
<1>2. /\ request'[p].pc = "gate" /\ request'[p].op = op /\ request'[p].at = r /\ request'[p].q = q
      /\ request'[p].statuses = D /\ request'[p].stamp = slot[r]
    BY <1>1
<1>3. RequestInv(p)'
    BY <1>1, <1>2 DEF RequestInv, Phases
<1> QED
    BY <1>1, <1>3, RequestMoves

LEMMA AbandonKeeps ==
    ASSUME AckInv, NEW p \in Caller, Abandon(p)
    PROVE  AckInv'
BY Answered, RequestMoves DEF Abandon

LEMMA RefuseKeeps ==
    ASSUME AckInv, NEW p \in Caller, NEW pc, NEW fresh, Refuse(p, pc, fresh)
    PROVE  AckInv'
BY Answered, RequestMoves DEF Refuse

LEMMA PassKeeps ==
    ASSUME AckInv, NEW p \in Caller, NEW fresh, Pass(p, fresh)
    PROVE  AckInv'
<1> DEFINE c == request[p]
<1>1. /\ UNCHANGED <<slot, replies>> /\ c.pc = "gate" /\ slot[c.at] = c.stamp
      /\ request' = [request EXCEPT ![p] = IF Existing(p) \subseteq {@.q} THEN [@ EXCEPT !.pc = "publish"] ELSE NoRequest]
    BY DEF Pass, Checks, Unmoved
<1>2. /\ DOMAIN request' = Caller /\ \A o \in Caller : o # p => request'[o] = request[o]
      /\ Existing(p) \subseteq {c.q} => request'[p] = [c EXCEPT !.pc = "publish"]
      /\ ~(Existing(p) \subseteq {c.q}) => request'[p] = NoRequest
    BY <1>1 DEF AckInv
<1>3. /\ c = [pc |-> c.pc, op |-> c.op, at |-> c.at, q |-> c.q, statuses |-> c.statuses, stamp |-> c.stamp]
      /\ c.at \in Resource /\ c.op \in {"bind", "put", "read"} /\ c.stamp.phase \in Phases(c.op)
    BY <1>1 DEF AckInv, RequestInv
<1>4. CASE Existing(p) \subseteq {c.q}
    <2>1. request'[p] = [pc |-> "publish", op |-> c.op, at |-> c.at, q |-> c.q,
                         statuses |-> c.statuses, stamp |-> c.stamp]
        BY <1>2, <1>3, <1>4
    <2>2. /\ request'[p].pc = "publish" /\ request'[p].op = c.op /\ request'[p].at = c.at
          /\ request'[p].q = c.q /\ request'[p].statuses = c.statuses /\ request'[p].stamp = c.stamp
        BY <2>1
    <2>3. /\ c.op = "bind" => c.stamp.bind \subseteq {c.q}
          /\ c.op = "put" => c.stamp.put \subseteq {c.q}
        BY <1>1, <1>4 DEF Existing
    <2>4. RequestInv(p)'
        BY <1>3, <2>1, <2>2, <2>3 DEF RequestInv, Phases
    <2> QED
        BY <1>1, <1>2, <2>4, RequestMoves
<1>5. CASE ~(Existing(p) \subseteq {c.q})
    <2>1. RequestInv(p)'
        BY <1>2, <1>5 DEF RequestInv, NoRequest
    <2> QED
        BY <1>1, <1>2, <2>1, RequestMoves
<1> QED
    BY <1>4, <1>5

\* A step that moves one resource, which nobody's snapshot is changed by.
LEMMA SlotMoves ==
    ASSUME AckInv, NEW r \in Resource, DOMAIN slot' = Resource,
           \A s \in Resource : s # r => slot'[s] = slot[s], SlotInv(slot[r])',
           DOMAIN request' = Caller, \A p \in Caller : RequestInv(p)',
           \A x \in replies' : x \in replies \/ Kept(x)',
           \A x \in replies : x.at = r => Kept(x)'
    PROVE  AckInv'
<1>1. ASSUME NEW x \in replies' PROVE Kept(x)'
    <2>1. CASE x \in replies /\ x.at # r
        <3>1. Kept(x)
            BY <2>1 DEF AckInv
        <3>2. slot'[x.at] = slot[x.at]
            BY <2>1, <3>1 DEF Kept
        <3> QED
            BY <3>1, <3>2 DEF Kept
    <2> QED
        BY <2>1
<1>2. ASSUME NEW s \in Resource PROVE SlotInv(slot[s])'
    <2>1. CASE s = r
        BY <2>1
    <2>2. CASE s # r
        <3>1. SlotInv(slot[s]) /\ slot'[s] = slot[s]
            BY <2>2 DEF AckInv
        <3> QED
            BY <3>1 DEF SlotInv, Bound
    <2> QED
        BY <2>1, <2>2
<1> QED
    BY <1>1, <1>2 DEF AckInv

LEMMA AdvanceKeeps ==
    ASSUME AckInv, NEW r \in Resource, NEW from \in {"none", "pending", "active"},
           NEW to \in {"pending", "active", "unbound"}, Advance(r, from, to)
    PROVE  AckInv'
<1>1. /\ slot[r].phase = from /\ slot' = [slot EXCEPT ![r].phase = to]
      /\ UNCHANGED <<request, replies>>
    BY DEF Advance
<1>2. slot[r] = [phase |-> slot[r].phase, bind |-> slot[r].bind, put |-> slot[r].put]
    BY DEF AckInv, SlotInv
<1>3. /\ DOMAIN slot' = Resource /\ \A s \in Resource : s # r => slot'[s] = slot[s]
      /\ slot'[r] = [phase |-> to, bind |-> slot[r].bind, put |-> slot[r].put]
    BY <1>1, <1>2 DEF AckInv
<1>4. slot'[r].phase = to /\ slot'[r].bind = slot[r].bind /\ slot'[r].put = slot[r].put
    BY <1>3
<1>5. SlotInv(slot[r])'
    BY <1>3, <1>4 DEF SlotInv, Bound
<1>6. ASSUME NEW x \in replies, x.at = r PROVE Kept(x)'
    <2>1. Kept(x)
        BY DEF AckInv
    <2>2. x.op = "bind" /\ slot[r].bind = {x.q}
        BY <1>1, <1>6, <2>1 DEF Kept
    <2> QED
        BY <1>4, <1>6, <2>2 DEF Kept
<1>7. \A p \in Caller : RequestInv(p)'
    BY <1>1 DEF AckInv, RequestInv, Phases
<1> QED
    BY <1>1, <1>3, <1>5, <1>6, <1>7, SlotMoves DEF AckInv

LEMMA ConflictKeeps ==
    ASSUME AckInv, NEW p \in Caller, NEW fresh, NEW r, r = request[p].at, Conflict(p, fresh)
    PROVE  AckInv'
<1>1. /\ request[p].pc = "gate" /\ slot[r] = request[p].stamp /\ Competes(p)
      /\ slot' = [slot EXCEPT ![r].phase = "conflicted"]
      /\ Answer(p) /\ UNCHANGED replies
    BY DEF Conflict, Checks, Unmoved
<1>2. r \in Resource /\ request[p].op \in {"bind", "put", "read"} /\ slot[r].phase \in Phases(request[p].op)
    BY <1>1 DEF AckInv, RequestInv
<1>3. slot[r] = [phase |-> slot[r].phase, bind |-> slot[r].bind, put |-> slot[r].put]
    BY <1>2 DEF AckInv, SlotInv
<1>4. /\ DOMAIN slot' = Resource /\ \A s \in Resource : s # r => slot'[s] = slot[s]
      /\ slot'[r] = [phase |-> "conflicted", bind |-> slot[r].bind, put |-> slot[r].put]
    BY <1>1, <1>2, <1>3 DEF AckInv
<1>5. slot'[r].phase = "conflicted" /\ slot'[r].bind = slot[r].bind /\ slot'[r].put = slot[r].put
    BY <1>4
<1>6. SlotInv(slot[r])'
    <2>1. slot'[r] = [phase |-> slot'[r].phase, bind |-> slot'[r].bind, put |-> slot'[r].put]
        BY <1>4, <1>5
    <2> QED
        BY <1>5, <2>1 DEF SlotInv, Bound
<1>7. ASSUME NEW x \in replies, x.at = r PROVE Kept(x)'
    <2>1. Kept(x)
        BY DEF AckInv
    <2> QED
        BY <1>2, <1>5, <1>7, <2>1 DEF Kept
<1>8. DOMAIN request' = Caller /\ (\A o \in Caller : o # p => request'[o] = request[o]) /\ RequestInv(p)'
    BY <1>1, Answered
<1>9. ASSUME NEW o \in Caller PROVE RequestInv(o)'
    <2>1. CASE o = p
        BY <1>8, <2>1
    <2>2. CASE o # p
        <3>1. RequestInv(o) /\ request'[o] = request[o]
            BY <1>8, <2>2 DEF AckInv
        <3> QED
            BY <3>1 DEF RequestInv, Phases
    <2> QED
        BY <2>1, <2>2
<1> QED
    BY <1>1, <1>2, <1>4, <1>6, <1>7, <1>8, <1>9, SlotMoves

\* The second transaction: nothing has happened to the resource since the first.
LEMMA PublishKeeps ==
    ASSUME AckInv, NEW p \in Caller, NEW fresh, NEW r, r = request[p].at, Publish(p, fresh)
    PROVE  AckInv'
<1> DEFINE c == request[p]
<1>1. /\ c.pc = "publish" /\ slot[r] = c.stamp /\ c.stamp.phase # "conflicted"
      /\ request' = [request EXCEPT ![p] = [pc |-> "granted"]]
    BY DEF Publish, Checks, Unmoved, Permitted
<1>2. /\ r \in Resource /\ c.op \in {"bind", "put", "read"} /\ slot[r].phase \in Phases(c.op)
      /\ c.op = "bind" => slot[r].bind \subseteq {c.q}
      /\ c.op = "put" => slot[r].put \subseteq {c.q}
    BY <1>1 DEF AckInv, RequestInv
<1>3. /\ DOMAIN request' = Caller /\ \A o \in Caller : o # p => request'[o] = request[o]
      /\ request'[p] = [pc |-> "granted"]
    BY <1>1 DEF AckInv
<1>4. request'[p].pc = "granted"
    BY <1>3
<1>5. ASSUME NEW o \in Caller PROVE RequestInv(o)'
    <2>1. CASE o = p
        BY <1>4, <2>1 DEF RequestInv
    <2>2. CASE o # p
        <3>1. RequestInv(o) /\ request'[o] = request[o]
            BY <1>3, <2>2 DEF AckInv
        <3> QED
            BY <3>1 DEF RequestInv, Phases
    <2> QED
        BY <2>1, <2>2
<1>6. /\ slot[r] = [phase |-> slot[r].phase, bind |-> slot[r].bind, put |-> slot[r].put]
      /\ slot[r].phase \in Bound => slot[r].bind # {}
      /\ DOMAIN slot = Resource
    BY <1>2 DEF AckInv, SlotInv
<1>7. CASE c.op = "read"
    <2>1. UNCHANGED <<slot, replies>>
        BY <1>7 DEF Publish
    <2> QED
        BY <1>3, <1>5, <2>1, RequestMoves
<1>8. CASE c.op = "bind"
    <2>1. /\ slot' = [slot EXCEPT ![r]["bind"] = {c.q}, ![r].phase = "empty"]
          /\ replies' = replies \cup {[at |-> r, op |-> "bind", q |-> c.q]}
        BY <1>8 DEF Publish
    <2>2. /\ DOMAIN slot' = Resource /\ \A s \in Resource : s # r => slot'[s] = slot[s]
          /\ slot'[r] = [phase |-> "empty", bind |-> {c.q}, put |-> slot[r].put]
        BY <1>2, <1>6, <2>1
    <2>3. slot'[r].phase = "empty" /\ slot'[r].bind = {c.q} /\ slot'[r].put = slot[r].put
        BY <2>2
    <2>4. SlotInv(slot[r])'
        BY <2>2, <2>3 DEF SlotInv, Bound
    <2>5. ASSUME NEW x \in replies, x.at = r PROVE Kept(x)'
        <3>1. Kept(x)
            BY DEF AckInv
        <3>2. slot[r].phase \in {"unbound", "empty"}
            BY <1>1, <1>2, <1>8 DEF Phases
        <3>3. x.op = "bind" /\ slot[r].bind = {x.q}
            BY <2>5, <3>1, <3>2 DEF Kept
        <3>4. x.q = c.q
            BY <1>2, <1>8, <3>3
        <3> QED
            BY <1>2, <2>3, <2>5, <3>3, <3>4 DEF Kept
    <2>6. ASSUME NEW x \in replies', x \notin replies PROVE Kept(x)'
        <3>1. x = [at |-> r, op |-> "bind", q |-> c.q]
            BY <2>1, <2>6
        <3>2. x.at = r /\ x.op = "bind" /\ x.q = c.q
            BY <3>1
        <3> QED
            BY <1>2, <2>3, <3>2 DEF Kept
    <2> QED
        BY <1>2, <1>3, <1>5, <2>2, <2>4, <2>5, <2>6, SlotMoves
<1>9. CASE c.op = "put"
    <2>1. /\ slot' = [slot EXCEPT ![r]["put"] = {c.q}, ![r].phase = "occupied"]
          /\ replies' = replies \cup {[at |-> r, op |-> "put", q |-> c.q]}
        BY <1>9 DEF Publish
    <2>2. /\ DOMAIN slot' = Resource /\ \A s \in Resource : s # r => slot'[s] = slot[s]
          /\ slot'[r] = [phase |-> "occupied", bind |-> slot[r].bind, put |-> {c.q}]
        BY <1>2, <1>6, <2>1
    <2>3. slot'[r].phase = "occupied" /\ slot'[r].bind = slot[r].bind /\ slot'[r].put = {c.q}
        BY <2>2
    <2>b. slot[r].bind # {}
        BY <1>2, <1>6, <1>9 DEF Phases, Bound
    <2>4. SlotInv(slot[r])'
        BY <2>2, <2>3, <2>b DEF SlotInv, Bound
    <2>5. ASSUME NEW x \in replies, x.at = r PROVE Kept(x)'
        <3>1. Kept(x)
            BY DEF AckInv
        <3>2. x.op = "put" => x.q = c.q
            BY <1>2, <1>9, <2>5, <3>1 DEF Kept
        <3> QED
            BY <1>2, <2>3, <2>5, <2>b, <3>1, <3>2 DEF Kept
    <2>6. ASSUME NEW x \in replies', x \notin replies PROVE Kept(x)'
        <3>1. x = [at |-> r, op |-> "put", q |-> c.q]
            BY <2>1, <2>6
        <3>2. x.at = r /\ x.op = "put" /\ x.q = c.q
            BY <3>1
        <3> QED
            BY <1>2, <2>3, <2>b, <3>2 DEF Kept
    <2> QED
        BY <1>2, <1>3, <1>5, <2>2, <2>4, <2>5, <2>6, SlotMoves
<1> QED
    BY <1>2, <1>7, <1>8, <1>9

LEMMA AckStep == AckInv /\ [AckNext]_ackVars => AckInv'
<1> SUFFICES ASSUME AckInv, [AckNext]_ackVars PROVE AckInv'
    OBVIOUS
<1>1. ASSUME NEW r \in Resource, Allocate(r) \/ Activate(r) \/ FinalizeUnbound(r) PROVE AckInv'
    BY <1>1, AdvanceKeeps DEF Allocate, Activate, FinalizeUnbound
<1>2. ASSUME NEW p \in Caller, NEW op \in {"bind", "put", "read"}, NEW r \in Resource, NEW D, NEW q,
             Prepare(p, op, r, q, D)
      PROVE  AckInv'
    BY <1>2, PrepareKeeps
<1>3. ASSUME NEW p \in Caller, NEW pc, NEW fresh, Refuse(p, pc, fresh) PROVE AckInv'
    BY <1>3, RefuseKeeps
<1>4. ASSUME NEW p \in Caller, NEW fresh, Conflict(p, fresh) PROVE AckInv'
    <2>1. \E r : r = request[p].at
        OBVIOUS
    <2> QED
        BY <1>4, <2>1, ConflictKeeps
<1>5. ASSUME NEW p \in Caller, NEW fresh, Pass(p, fresh) PROVE AckInv'
    BY <1>5, PassKeeps
<1>6. ASSUME NEW p \in Caller, NEW fresh, Publish(p, fresh) PROVE AckInv'
    <2>1. \E r : r = request[p].at
        OBVIOUS
    <2> QED
        BY <1>6, <2>1, PublishKeeps
<1>7. ASSUME NEW p \in Caller, Abandon(p) PROVE AckInv'
    BY <1>7, AbandonKeeps
<1>8. CASE UNCHANGED ackVars
    <2>1. UNCHANGED <<slot, replies, request>>
        BY <1>8 DEF ackVars
    <2> QED
        BY <2>1 DEF AckInv, SlotInv, RequestInv, Kept, Bound, Phases
<1> QED
    BY <1>1, <1>2, <1>3, <1>4, <1>5, <1>6, <1>7, <1>8 DEF AckNext

\* The inductive invariant: a request that passed the first check knows what
\* its resource held, and what was confirmed is still there.
THEOREM SlotInvariant == AckSpec => []AckInv
<1> QED
    BY AckInitHolds, AckStep, PTL DEF AckSpec

\* However the two transactions of requests that bind, fill and read a slot
\* interleave, whatever statuses they bring: whoever was confirmed a binding or
\* a receipt was confirmed the only one (RepairAckEmptyState.bind,
\* RepairAckOccupiedState.put).
THEOREM ConfirmedStaysUnique == AckSpec => []ConfirmedIsUnique
<1>1. AckInv => ConfirmedIsUnique
    <2> SUFFICES ASSUME AckInv, NEW x \in replies
                 PROVE  /\ slot[x.at][x.op] = {x.q}
                        /\ x.op = "put" => slot[x.at].bind # {} /\ slot[x.at].phase \in {"occupied", "conflicted"}
        BY DEF ConfirmedIsUnique
    <2>1. Kept(x)
        BY DEF AckInv
    <2>2. CASE x.op = "bind"
        <3>1. slot[x.at]["bind"] = {x.q}
            BY <2>1, <2>2 DEF Kept
        <3> QED
            BY <2>2, <3>1
    <2>3. CASE x.op = "put"
        <3>1. slot[x.at]["put"] = {x.q}
            BY <2>1, <2>3 DEF Kept
        <3> QED
            BY <2>1, <2>3, <3>1 DEF Kept
    <2> QED
        BY <2>1, <2>2, <2>3 DEF Kept
<1> QED
    BY <1>1, SlotInvariant, PTL

----------------------------------------------------------------------------
(* The ledger of a root (AckSlot).  A grant must see what any earlier check *)
(* of the root was shown, also one that refused.  What a check was shown is *)
(* recorded, unless a resource is blocked; and a resource is blocked only   *)
(* when there was no room, which latches the root, or when what is recorded *)
(* contradicts itself (LedgerInv).  A check records its documents in order  *)
(* and stops at the first that blocks, so what a check leaves is known from *)
(* the document that comes before all others that block (FirstDocument).    *)

\* Every set of numbers has a smallest one.
LEMMA SmallestNumber ==
    ASSUME NEW S, S \subseteq Nat, S # {}
    PROVE  \E m \in S : \A n \in S : m <= n
<1> DEFINE Less == {x \in Nat \X Nat : x[1] < x[2]}
<1>1. IsWellFoundedOn(Less, Nat)
    BY NatLessThanWellFounded DEF OpToRel
<1> HIDE DEF Less
<1>2. PICK m \in S : \A n \in S : <<n, m>> \notin Less
    BY <1>1, WFMin
<1>3. ASSUME NEW n \in S PROVE m <= n
    <2>1. m \in Nat /\ n \in Nat
        OBVIOUS
    <2>2. n < m => <<n, m>> \in Less
        BY <2>1 DEF Less
    <2> QED
        BY <1>2, <2>1, <2>2
<1> QED
    BY <1>3

Documents == UNION Statuses

\* Of any documents one comes before all others.
LEMMA FirstDocument ==
    ASSUME NEW H, H \subseteq Documents, H # {}
    PROVE  \E h \in H : Before(H, h) = {}
<1>1. \A d \in Documents : d.revision \in Nat /\ d.digest \in Nat
    BY StatusesAssumption DEF Documents
<1> DEFINE R == {d.revision : d \in H}
<1>2. R \subseteq Nat /\ R # {}
    BY <1>1
<1>3. PICK v \in R : \A n \in R : v <= n
    BY <1>2, SmallestNumber
<1> DEFINE G == {d.digest : d \in {e \in H : e.revision = v}}
<1>4. G \subseteq Nat /\ G # {}
    BY <1>1
<1> HIDE DEF G
<1>5. PICK g \in G : \A n \in G : g <= n
    BY <1>4, SmallestNumber
<1>6. PICK h \in H : h.revision = v /\ h.digest = g
    BY <1>5 DEF G
<1>7. ASSUME NEW e \in H PROVE ~(e.revision < h.revision) /\ ~(e.revision = h.revision /\ e.digest < h.digest)
    <2>1. e.revision \in Nat /\ e.digest \in Nat /\ v \in Nat /\ g \in Nat
        BY <1>1, <1>2, <1>4
    <2>2. v <= e.revision
        BY <1>3
    <2>3. e.revision = v => g <= e.digest
        BY <1>5 DEF G
    <2> QED
        BY <1>6, <2>1, <2>2, <2>3
<1> QED
    BY <1>7 DEF Before

\* What comes before an earlier document comes before a later one.
LEMMA EarlierStill ==
    ASSUME NEW D, D \subseteq Documents, NEW d \in D, NEW e \in Before(D, d)
    PROVE  e \in D /\ Before(D, e) \subseteq Before(D, d)
<1>1. \A x \in D : x.revision \in Nat /\ x.digest \in Nat
    BY StatusesAssumption DEF Documents
<1>2. e \in D /\ (e.revision < d.revision \/ (e.revision = d.revision /\ e.digest < d.digest))
    BY DEF Before
<1>3. ASSUME NEW x \in Before(D, e) PROVE x \in Before(D, d)
    <2>1. x \in D /\ (x.revision < e.revision \/ (x.revision = e.revision /\ x.digest < e.digest))
        BY DEF Before
    <2>2. x.revision < d.revision \/ (x.revision = d.revision /\ x.digest < d.digest)
        BY <1>1, <1>2, <2>1
    <2> QED
        BY <2>1, <2>2 DEF Before
<1> QED
    BY <1>2, <1>3

LedgerTypes ==
    /\ ledger \in [Resource -> [documents : SUBSET Documents, blocked : {"none", "capacity", "conflict"}]]
    /\ latched \in BOOLEAN
    /\ presented \subseteq Documents

\* What was shown to a check is recorded, or a resource is blocked; and one is
\* blocked because the root is latched or because of what is recorded.
LedgerInv ==
    /\ LedgerTypes
    /\ Recorded(ledger) \subseteq presented
    /\ \A r \in Resource : ledger[r].blocked = "capacity" => latched
    /\ (\E r \in Resource : ledger[r].blocked = "conflict") => ~Consistent(Recorded(ledger))
    /\ (\A r \in Resource : ledger[r].blocked = "none") => presented \subseteq Recorded(ledger)

Asked(p) == request[p].pc \in {"gate", "publish"} => request[p].statuses \subseteq Documents

RootInv == LedgerInv /\ \A p \in Caller : Asked(p)

\* A check that records what it was shown keeps the ledger true, however many
\* documents it comes to before one of them blocks the resource.
LEMMA ObservedKeeps ==
    ASSUME LedgerInv, NEW r \in Resource, NEW D, D \subseteq Documents,
           ledger' = Observe(r, D).ledger, latched' = Observe(r, D).latched, presented' = presented \cup D
    PROVE  LedgerInv'
<1> DEFINE unpaid == {d \in Reached(r, D) : Full(r, D, d)}
           taken == Reached(r, D) \ unpaid
           reason == IF unpaid # {} THEN "capacity"
                     ELSE IF \E d \in taken : Contradicted(D, d) THEN "conflict"
                     ELSE ledger[r].blocked
           own == [documents |-> ledger[r].documents \cup taken, blocked |-> reason]
<1>1. ledger' = [ledger EXCEPT ![r] = own] /\ latched' = (latched \/ unpaid # {})
    BY DEF Observe
<1>2. LedgerTypes
    BY DEF LedgerInv
<1>3. taken \subseteq D /\ unpaid \subseteq D
    BY DEF Reached
<1>4. /\ ledger[r].documents \subseteq Documents /\ ledger[r].blocked \in {"none", "capacity", "conflict"}
    BY <1>2 DEF LedgerTypes
<1>5. reason \in {"none", "capacity", "conflict"}
    BY <1>4
<1>6. own \in [documents : SUBSET Documents, blocked : {"none", "capacity", "conflict"}]
    BY <1>3, <1>4, <1>5
<1>7. own.documents = ledger[r].documents \cup taken /\ own.blocked = reason
    OBVIOUS
<1> HIDE DEF own
<1>8. LedgerTypes'
    BY <1>1, <1>2, <1>6 DEF LedgerTypes
<1>9. /\ ledger'[r].documents = ledger[r].documents \cup taken /\ ledger'[r].blocked = reason
      /\ \A s \in Resource : s # r => ledger'[s] = ledger[s]
    BY <1>1, <1>2, <1>7 DEF LedgerTypes
<1>10. Recorded(ledger') = Recorded(ledger) \cup taken
    BY <1>9 DEF Recorded
<1>11. Recorded(ledger') \subseteq presented'
    BY <1>3, <1>10 DEF LedgerInv
<1>12. ASSUME NEW s \in Resource, ledger'[s].blocked = "capacity" PROVE latched'
    <2>1. CASE s # r
        BY <1>1, <1>9, <1>12, <2>1 DEF LedgerInv
    <2>2. CASE s = r
        BY <1>1, <1>9, <1>12, <2>2 DEF LedgerInv
    <2> QED
        BY <2>1, <2>2
<1>13. ASSUME NEW s \in Resource, ledger'[s].blocked = "conflict" PROVE ~Consistent(Recorded(ledger'))
    <2>1. CASE ledger[s].blocked = "conflict"
        BY <1>10, <2>1 DEF LedgerInv, Consistent
    <2>2. CASE ledger[s].blocked # "conflict"
        <3>1. s = r /\ unpaid = {} /\ \E d \in taken : Contradicted(D, d)
            BY <1>9, <1>13, <2>2
        <3>2. PICK d \in taken : Contradicted(D, d)
            BY <3>1
        <3>a. PICK e \in Recorded(ledger) \cup Before(D, d) : Contradicts(d, e)
            BY <3>2 DEF Contradicted
        <3>3. ASSUME e \in Before(D, d) PROVE e \in taken
            <4>1. d \in D /\ d \in Reached(r, D)
                BY <1>3
            <4>2. e \in D /\ Before(D, e) \subseteq Before(D, d)
                BY <3>3, <4>1, EarlierStill
            <4>3. e \in Reached(r, D) /\ ~Full(r, D, e)
                BY <3>3, <4>1, <4>2 DEF Reached
            <4> QED
                BY <4>3
        <3>4. d \in Recorded(ledger') /\ e \in Recorded(ledger')
            BY <1>10, <3>a, <3>3
        <3> QED
            BY <3>a, <3>4 DEF Consistent
    <2> QED
        BY <2>1, <2>2
<1>14. ASSUME \A s \in Resource : ledger'[s].blocked = "none" PROVE presented' \subseteq Recorded(ledger')
    <2>1. reason = "none"
        BY <1>9, <1>14
    <2>2. unpaid = {} /\ ledger[r].blocked = "none" /\ \A d \in taken : ~Contradicted(D, d)
        BY <2>1
    <2> DEFINE H == {d \in D : Full(r, D, d) \/ Contradicted(D, d)}
    <2>3. H = {}
        <3> SUFFICES ASSUME H # {} PROVE FALSE
            OBVIOUS
        <3>1. H \subseteq Documents
            OBVIOUS
        <3>2. PICK h \in H : Before(H, h) = {}
            BY <3>1, FirstDocument
        <3>3. \A e \in Before(D, h) : e \notin H
            BY <3>2 DEF Before
        <3>4. \A e \in Before(D, h) : ~Full(r, D, e) /\ ~Contradicted(D, e)
            BY <3>3 DEF Before
        <3>5. h \in Reached(r, D)
            BY <2>2, <3>4 DEF Reached
        <3> QED
            BY <2>2, <3>2, <3>5
    <2>4. D \subseteq taken
        BY <2>2, <2>3 DEF Reached, Before
    <2>5. \A s \in Resource : ledger[s].blocked = "none"
        BY <1>9, <1>14, <2>2
    <2> QED
        BY <1>10, <2>4, <2>5 DEF LedgerInv
<1> QED
    BY <1>8, <1>11, <1>12, <1>13, <1>14 DEF LedgerInv

\* A check of a request, and what becomes of the request.
LEMMA CheckKeepsRoot ==
    ASSUME AckInv, RootInv, NEW p \in Caller, NEW pc \in {"gate", "publish"}, NEW fresh, Checks(p, pc, fresh),
           DOMAIN request' = Caller, \A o \in Caller : o # p => request'[o] = request[o],
           request'[p].pc \in {"gate", "publish"} => request'[p].statuses = request[p].statuses
    PROVE  RootInv'
<1> DEFINE r == request[p].at
<1>1. request[p].pc = pc /\ fresh \subseteq request[p].statuses /\ Commit(p, fresh)
    BY DEF Checks
<1>2. r \in Resource
    BY <1>1 DEF AckInv, RequestInv
<1>3. request[p].statuses \subseteq Documents
    BY <1>1 DEF RootInv, Asked
<1>4. /\ ledger' = Observe(r, fresh).ledger /\ latched' = Observe(r, fresh).latched
      /\ presented' = presented \cup fresh /\ fresh \subseteq Documents
    BY <1>1, <1>3 DEF Commit
<1> HIDE DEF r
<1>5. LedgerInv'
    BY <1>2, <1>4, ObservedKeeps DEF RootInv
<1>6. ASSUME NEW o \in Caller PROVE Asked(o)'
    <2>1. CASE o = p
        BY <1>3, <2>1 DEF Asked, Documents
    <2>2. CASE o # p
        BY <2>2 DEF RootInv, Asked, Documents
    <2> QED
        BY <2>1, <2>2
<1> QED
    BY <1>5, <1>6 DEF RootInv

\* A step that shows nothing to a check.
LEMMA QuietKeepsRoot ==
    ASSUME RootInv, UNCHANGED <<ledger, latched, presented>>, \A p \in Caller : Asked(p)'
    PROVE  RootInv'
BY DEF RootInv, LedgerInv, LedgerTypes, Recorded, Consistent, Documents

LEMMA RootInvInit == AckInit => RootInv
<1> SUFFICES ASSUME AckInit PROVE RootInv
    OBVIOUS
<1>1. /\ ledger = [r \in Resource |-> [documents |-> {}, blocked |-> "none"]]
      /\ latched = FALSE /\ presented = {} /\ \A p \in Caller : request[p] = NoRequest
    BY DEF AckInit
<1>2. \A r \in Resource : ledger[r].documents = {} /\ ledger[r].blocked = "none"
    BY <1>1
<1>3. LedgerInv
    BY <1>1, <1>2 DEF LedgerInv, LedgerTypes, Recorded
<1> QED
    BY <1>1, <1>3 DEF RootInv, Asked, NoRequest

\* What a request becomes, whatever it is that was decided of it.
LEMMA RequestBecomes ==
    ASSUME AckInv, NEW p \in Caller, NEW fresh,
           \/ \E pc \in {"gate", "publish"} : Refuse(p, pc, fresh)
           \/ Conflict(p, fresh) \/ Pass(p, fresh) \/ Publish(p, fresh)
    PROVE  /\ DOMAIN request' = Caller /\ \A o \in Caller : o # p => request'[o] = request[o]
           /\ request'[p].pc \in {"gate", "publish"} => request'[p].statuses = request[p].statuses
           /\ \E pc \in {"gate", "publish"} : Checks(p, pc, fresh)
           /\ request'[p].pc = "granted" => Publish(p, fresh)
<1>1. ASSUME NEW pc \in {"gate", "publish"}, Answer(p), Checks(p, pc, fresh)
      PROVE  /\ DOMAIN request' = Caller /\ \A o \in Caller : o # p => request'[o] = request[o]
             /\ request'[p].pc = "idle"
    BY <1>1 DEF Answer, AckInv, NoRequest
<1>2. CASE \E pc \in {"gate", "publish"} : Refuse(p, pc, fresh)
    BY <1>1, <1>2 DEF Refuse
<1>3. CASE Conflict(p, fresh)
    BY <1>1, <1>3 DEF Conflict
<1>4. CASE Pass(p, fresh)
    <2>1. /\ Checks(p, "gate", fresh) /\ DOMAIN request = Caller
          /\ request' = [request EXCEPT ![p] = IF Existing(p) \subseteq {@.q} THEN [@ EXCEPT !.pc = "publish"] ELSE NoRequest]
        BY <1>4 DEF Pass, AckInv
    <2>2. /\ request[p] = [pc |-> request[p].pc, op |-> request[p].op, at |-> request[p].at, q |-> request[p].q,
                           statuses |-> request[p].statuses, stamp |-> request[p].stamp]
        BY <2>1 DEF Checks, AckInv, RequestInv
    <2>3. \/ request'[p] = [pc |-> "publish", op |-> request[p].op, at |-> request[p].at, q |-> request[p].q,
                            statuses |-> request[p].statuses, stamp |-> request[p].stamp]
          \/ request'[p] = NoRequest
        BY <2>1, <2>2
    <2>4. \/ request'[p].pc = "publish" /\ request'[p].statuses = request[p].statuses
          \/ request'[p].pc = "idle"
        BY <2>3 DEF NoRequest
    <2> QED
        BY <2>1, <2>4
<1>5. CASE Publish(p, fresh)
    <2>1. Checks(p, "publish", fresh) /\ request' = [request EXCEPT ![p] = [pc |-> "granted"]] /\ DOMAIN request = Caller
        BY <1>5 DEF Publish, AckInv
    <2>2. request'[p] = [pc |-> "granted"]
        BY <2>1
    <2>3. request'[p].pc = "granted"
        BY <2>2
    <2> QED
        BY <1>5, <2>1, <2>3
<1> QED
    BY <1>2, <1>3, <1>4, <1>5

LEMMA RootStep == AckInv /\ RootInv /\ [AckNext]_ackVars => RootInv'
<1> SUFFICES ASSUME AckInv, RootInv, [AckNext]_ackVars PROVE RootInv'
    OBVIOUS
<1>1. ASSUME NEW r \in Resource, Allocate(r) \/ Activate(r) \/ FinalizeUnbound(r) PROVE RootInv'
    <2>1. UNCHANGED <<ledger, latched, presented, request>>
        BY <1>1 DEF Allocate, Activate, FinalizeUnbound, Advance
    <2> QED
        BY <2>1, QuietKeepsRoot DEF RootInv, Asked, Documents
<1>2. ASSUME NEW p \in Caller, NEW op, NEW r, NEW D \in Statuses, NEW q, Prepare(p, op, r, q, D) PROVE RootInv'
    <2>1. /\ UNCHANGED <<ledger, latched, presented>> /\ D \subseteq Documents
          /\ request' = [request EXCEPT ![p] =
                [pc |-> "gate", op |-> op, at |-> r, q |-> q, statuses |-> D, stamp |-> slot[r]]]
        BY <1>2 DEF Prepare, Documents
    <2>2. request'[p].statuses = D /\ \A o \in Caller : o # p => request'[o] = request[o]
        BY <2>1 DEF AckInv
    <2>3. ASSUME NEW o \in Caller PROVE Asked(o)'
        <3>1. CASE o = p
            BY <2>1, <2>2, <3>1 DEF Asked, Documents
        <3>2. CASE o # p
            BY <2>2, <3>2 DEF RootInv, Asked, Documents
        <3> QED
            BY <3>1, <3>2
    <2> QED
        BY <2>1, <2>3, QuietKeepsRoot
<1>3. ASSUME NEW p \in Caller, NEW fresh,
             \/ \E pc \in {"gate", "publish"} : Refuse(p, pc, fresh)
             \/ Conflict(p, fresh) \/ Pass(p, fresh) \/ Publish(p, fresh)
      PROVE  RootInv'
    BY <1>3, RequestBecomes, CheckKeepsRoot
<1>4. ASSUME NEW p \in Caller, Abandon(p) PROVE RootInv'
    <2>1. UNCHANGED <<ledger, latched, presented>> /\ request' = [request EXCEPT ![p] = NoRequest]
        BY <1>4 DEF Abandon, Answer
    <2>2. request'[p] = NoRequest /\ \A o \in Caller : o # p => request'[o] = request[o]
        BY <2>1 DEF AckInv
    <2>3. ASSUME NEW o \in Caller PROVE Asked(o)'
        <3>1. CASE o = p
            BY <2>2, <3>1 DEF Asked, NoRequest
        <3>2. CASE o # p
            BY <2>2, <3>2 DEF RootInv, Asked, Documents
        <3> QED
            BY <3>1, <3>2
    <2> QED
        BY <2>1, <2>3, QuietKeepsRoot
<1>5. CASE UNCHANGED ackVars
    <2>1. UNCHANGED <<ledger, latched, presented, request>>
        BY <1>5 DEF ackVars
    <2> QED
        BY <2>1, QuietKeepsRoot DEF RootInv, Asked, Documents
<1> QED
    BY <1>1, <1>2, <1>3, <1>4, <1>5 DEF AckNext

LEMMA RootInvariant == AckSpec => [](AckInv /\ RootInv)
<1>1. AckInit => AckInv /\ RootInv
    BY AckInitHolds, RootInvInit
<1>2. AckInv /\ RootInv /\ [AckNext]_ackVars => (AckInv /\ RootInv)'
    BY AckStep, RootStep
<1> QED
    BY <1>1, <1>2, PTL DEF AckSpec

\* Who is granted anything shows the second check that its authorities stand.
LEMMA OnlyPublishGrants ==
    ASSUME AckInv, AckNext, NEW p \in Caller, Granted(p)
    PROVE  \E fresh : Publish(p, fresh)
<1>0. request[p].pc = "publish" /\ request'[p].pc = "granted" /\ DOMAIN request = Caller
    BY DEF Granted, AckInv
<1>1. request' # request
    BY <1>0
<1>2. ASSUME NEW o \in Caller, NEW op, NEW r, NEW q, NEW D, Prepare(o, op, r, q, D) PROVE FALSE
    <2>1. request' = [request EXCEPT ![o] =
            [pc |-> "gate", op |-> op, at |-> r, q |-> q, statuses |-> D, stamp |-> slot[r]]]
        BY <1>2 DEF Prepare
    <2>2. request'[o].pc = "gate" /\ (p # o => request'[p] = request[p])
        BY <1>0, <2>1
    <2> QED
        BY <1>0, <2>2
<1>3. ASSUME NEW o \in Caller, Abandon(o) PROVE FALSE
    <2>1. request'[o].pc = "idle" /\ (p # o => request'[p] = request[p])
        BY <1>0, <1>3 DEF Abandon, Answer, NoRequest
    <2> QED
        BY <1>0, <2>1
<1>4. ASSUME NEW o \in Caller, NEW fresh,
             \/ \E pc \in {"gate", "publish"} : Refuse(o, pc, fresh)
             \/ Conflict(o, fresh) \/ Pass(o, fresh) \/ Publish(o, fresh)
      PROVE  Publish(p, fresh)
    <2>1. o = p
        BY <1>0, <1>4, RequestBecomes
    <2> QED
        BY <1>0, <1>4, <2>1, RequestBecomes
<1>5. ASSUME NEW r \in Resource, Allocate(r) \/ Activate(r) \/ FinalizeUnbound(r) PROVE FALSE
    BY <1>1, <1>5 DEF Allocate, Activate, FinalizeUnbound, Advance
<1> QED
    BY <1>2, <1>3, <1>4, <1>5 DEF AckNext

\* Whatever statuses any resource of the root was shown, in whatever order, by
\* requests that were refused, interrupted or overtaken: nothing is stored or
\* read on a status that was revoked, contradicted or superseded before
\* (RepairAckAccess.check_locked).
THEOREM RevocationsHold == AckSpec => ObservedRevocationHolds
<1>1. ASSUME AckInv, RootInv', AckNext, NEW p \in Caller, Granted(p),
             NEW i \in Issuers(request[p].op, request[p].stamp.phase),
             Consistent(presented' \ Of(i, presented'))
      PROVE  /\ Undisputed(i, presented')
             /\ \E d \in Of(i, request[p].statuses) : \A e \in Of(i, presented') : e.revision <= d.revision
    <2>1. PICK fresh : Publish(p, fresh)
        BY <1>1, OnlyPublishGrants
    <2> DEFINE r == request[p].at
    <2>2. /\ fresh = request[p].statuses /\ Stands(i, r, fresh, ledger') /\ latched' = FALSE
          /\ ledger'[r].blocked = "none"
        BY <1>1, <2>1 DEF Publish, Checks, Commit, Permitted, RootInv, LedgerInv, LedgerTypes
    <2> HIDE DEF r
    <2>3. /\ \A d, e \in Of(i, Recorded(ledger')) : ~d.revoked /\ ~Contradicts(d, e)
          /\ \E d \in fresh : d \in Of(i, Recorded(ledger')) /\ \A e \in Of(i, Recorded(ledger')) : e.revision <= d.revision
        BY <2>2 DEF Stands
    <2>4. LedgerInv' /\ Recorded(ledger') \subseteq presented'
        BY <1>1 DEF RootInv, LedgerInv
    <2>5. Consistent(Recorded(ledger'))
        <3> SUFFICES ASSUME NEW d \in Recorded(ledger'), NEW e \in Recorded(ledger'), Contradicts(d, e)
                     PROVE  FALSE
            BY DEF Consistent
        <3>1. d.issuer = e.issuer
            BY DEF Contradicts
        <3>2. CASE d.issuer = i
            BY <2>3, <3>1, <3>2 DEF Of
        <3>3. CASE d.issuer # i
            BY <1>1, <2>4, <3>1, <3>3 DEF Of, Consistent
        <3> QED
            BY <3>2, <3>3
    <2>6. \A s \in Resource : ledger'[s].blocked = "none"
        BY <2>2, <2>4, <2>5 DEF LedgerInv, LedgerTypes
    <2>7. presented' = Recorded(ledger')
        BY <2>4, <2>6 DEF LedgerInv
    <2>8. Undisputed(i, presented')
        BY <2>3, <2>7 DEF Undisputed, Consistent
    <2>9. \E d \in Of(i, fresh) : \A e \in Of(i, presented') : e.revision <= d.revision
        BY <2>3, <2>7 DEF Of
    <2> QED
        BY <2>2, <2>8, <2>9
<1> DEFINE GrantsHold == \A p \in Caller : Granted(p) =>
        \A i \in Issuers(request[p].op, request[p].stamp.phase) :
            Consistent(presented' \ Of(i, presented')) =>
                /\ Undisputed(i, presented')
                /\ \E d \in Of(i, request[p].statuses) : \A e \in Of(i, presented') : e.revision <= d.revision
<1>2. AckInv /\ RootInv' /\ [AckNext]_ackVars => [GrantsHold]_ackVars
    BY <1>1
<1>3. AckSpec => [][GrantsHold]_ackVars
    BY <1>2, RootInvariant, PTL DEF AckSpec
<1> QED
    BY <1>3, PTL DEF ObservedRevocationHolds
==============================================================================
