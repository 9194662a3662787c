----------------------------- MODULE NodeProofs -----------------------------
(***************************************************************************)
(* Proofs about NodeTransfer, for any nodes, messages, members and passes: *)
(* what a node serves no power loss takes away, and what a source has been *)
(* told it may give up is completely at its target.                        *)
(*                                                                         *)
(* No pass holds anything locked: its requests arrive after it has ended,  *)
(* with grants that were renewed meanwhile.  The argument rests on what is *)
(* never taken back (Goes): a frozen snapshot is of the rows the source    *)
(* keeps, an import stays one of its snapshot, and once it is committed    *)
(* the rows of the target only grow.                                       *)
(***************************************************************************)
EXTENDS NodeTransfer, TLAPS

----------------------------------------------------------------------------
(* The inductive invariant. *)

Directories == [version : Nat, standing : [Node -> {"active", "draining", "revoked"}]]
Snapshots == [source : Node, version : Nat, messages : Seq(Message), receipts : Seq(Message),
              joined : SUBSET Newcomer]
Grants == [snapshot : Snapshots, target : Node, version : Nat]
Exports == [state : {"frozen"}, snapshot : Snapshots, receipt : SUBSET Node]
Imports == [state : {"receiving", "committed"}, grant : Grants, next : Nat]
Relays == [known : Directories, draining : BOOLEAN, messages : Seq(Message), receipts : Seq(Message),
           challenges : SUBSET Newcomer, joined : SUBSET Newcomer,
           export : {None} \cup Exports, import : {None} \cup Imports]
Requests == [grant : Grants, phase : {"begin", "object", "commit"}, index : Nat]
Waiting == [pc : {"greet", "save"}, grant : Grants]
Asking == [pc : {"sent"}, grant : Grants, request : Requests]

NodeTypeOK ==
    /\ directory \in Directories
    /\ relay \in [Node -> Relays]
    /\ objects \in [Node -> [Message -> {"none", "volatile", "durable"}]]
    /\ pass \in [Pass -> {Idle} \cup Waiting \cup Asking]
    /\ late \subseteq Requests

\* The grant is of the snapshot its source is frozen with.
Of(g) ==
    LET export == relay[g.snapshot.source].export
    IN  export # None /\ export.snapshot = g.snapshot

\* The node has all of the snapshot and says so.
Holds(t, snapshot) == Committed(t) /\ relay[t].import.grant.snapshot = snapshot

\* A frozen node keeps the rows of its snapshot, and none was told to give them
\* up that has them nowhere else.
FrozenInv(n) ==
    relay[n].export # None =>
        LET s == relay[n].export.snapshot
        IN  /\ relay[n].draining /\ s.source = n
            /\ s.messages = relay[n].messages /\ s.receipts = relay[n].receipts /\ s.joined = relay[n].joined
            /\ \A t \in relay[n].export.receipt : Holds(t, s)

ImportInv(n) ==
    /\ relay[n].import # None => Of(relay[n].import.grant)
    /\ Committed(n) => Whole(relay[n], relay[n].import.grant.snapshot)

PassInv(p) ==
    /\ pass[p] \in Waiting \cup Asking => Of(pass[p].grant)
    /\ pass[p] \in Asking => Of(pass[p].request.grant)
    /\ pass[p].pc = "save" => Holds(pass[p].grant.target, pass[p].grant.snapshot)

StoreInv ==
    /\ \A n \in Node : FrozenInv(n) /\ ImportInv(n)
    /\ \A p \in Pass : PassInv(p)
    /\ \A q \in late : Of(q.grant)
    /\ ServedIsDurable

NodeInv == NodeTypeOK /\ StoreInv

----------------------------------------------------------------------------
(* Lemmas about sequences. *)

LEMMA Appended ==
    ASSUME NEW S, NEW s \in Seq(S), NEW e \in S
    PROVE  /\ Append(s, e) \in Seq(S)
           /\ ToSet(Append(s, e)) = ToSet(s) \cup {e}
<1>1. /\ Append(s, e) \in Seq(S) /\ Len(Append(s, e)) = Len(s) + 1 /\ Len(s) \in Nat
      /\ DOMAIN s = 1 .. Len(s) /\ DOMAIN Append(s, e) = 1 .. Len(s) + 1
      /\ Append(s, e)[Len(s) + 1] = e
      /\ \A i \in 1 .. Len(s) : Append(s, e)[i] = s[i]
    OBVIOUS
<1>2. ASSUME NEW x PROVE x \in ToSet(Append(s, e)) <=> x \in ToSet(s) \/ x = e
    <2>1. ASSUME NEW i \in 1 .. Len(s) + 1 PROVE Append(s, e)[i] \in ToSet(s) \/ Append(s, e)[i] = e
        <3>1. i \in 1 .. Len(s) \/ i = Len(s) + 1
            BY <1>1
        <3> QED
            BY <1>1, <3>1 DEF ToSet
    <2>2. Len(s) + 1 \in 1 .. Len(s) + 1 /\ \A i \in 1 .. Len(s) : i \in 1 .. Len(s) + 1
        BY <1>1
    <2> QED
        BY <1>1, <2>1, <2>2 DEF ToSet
<1> QED
    BY <1>1, <1>2

LEMMA PrefixOfItself == ASSUME NEW S, NEW s \in Seq(S) PROVE IsPrefix(s, s)
BY DEF IsPrefix

LEMMA PrefixByElements ==
    ASSUME NEW S, NEW s \in Seq(S), NEW t \in Seq(S)
    PROVE  IsPrefix(s, t) <=> Len(s) <= Len(t) /\ \A i \in 1 .. Len(s) : s[i] = t[i]
<1>1. Len(s) \in Nat /\ Len(t) \in Nat
    OBVIOUS
<1>2. ASSUME Len(s) <= Len(t)
      PROVE  /\ SubSeq(s, 1, Len(s)) \in Seq(S) /\ SubSeq(t, 1, Len(s)) \in Seq(S)
             /\ Len(SubSeq(s, 1, Len(s))) = Len(s) /\ Len(SubSeq(t, 1, Len(s))) = Len(s)
             /\ \A i \in 1 .. Len(s) : SubSeq(s, 1, Len(s))[i] = s[i] /\ SubSeq(t, 1, Len(s))[i] = t[i]
    BY <1>1, <1>2
<1> DEFINE a == SubSeq(s, 1, Len(s))
           b == SubSeq(t, 1, Len(s))
<1>3. ASSUME Len(s) <= Len(t), \A i \in 1 .. Len(s) : s[i] = t[i] PROVE a = b
    <2>1. a \in Seq(S) /\ b \in Seq(S) /\ Len(a) = Len(b) /\ \A i \in 1 .. Len(a) : a[i] = b[i]
        BY <1>2, <1>3
    <2> HIDE DEF a, b
    <2> QED
        BY <2>1
<1>4. ASSUME Len(s) <= Len(t), a = b PROVE \A i \in 1 .. Len(s) : s[i] = t[i]
    BY <1>2, <1>4
<1> QED
    BY <1>3, <1>4 DEF IsPrefix

LEMMA PrefixGrows ==
    ASSUME NEW S, NEW s \in Seq(S), NEW e \in S
    PROVE  IsPrefix(s, Append(s, e))
<1> DEFINE t == Append(s, e)
<1>1. t \in Seq(S) /\ Len(t) = Len(s) + 1 /\ Len(s) \in Nat /\ \A i \in 1 .. Len(s) : t[i] = s[i]
    OBVIOUS
<1> HIDE DEF t
<1>2. Len(s) <= Len(t)
    BY <1>1
<1>3. IsPrefix(s, t)
    BY <1>1, <1>2, PrefixByElements
<1> QED
    BY <1>3 DEF t

LEMMA PrefixOfPrefix ==
    ASSUME NEW S, NEW s \in Seq(S), NEW t \in Seq(S), NEW u \in Seq(S), IsPrefix(s, t), IsPrefix(t, u)
    PROVE  IsPrefix(s, u)
<1>1. Len(s) \in Nat /\ Len(t) \in Nat /\ Len(u) \in Nat
    OBVIOUS
<1>2. Len(s) <= Len(t) /\ \A i \in 1 .. Len(s) : s[i] = t[i]
    BY PrefixByElements
<1>3. Len(t) <= Len(u) /\ \A i \in 1 .. Len(t) : t[i] = u[i]
    BY PrefixByElements
<1>4. Len(s) <= Len(u) /\ \A i \in 1 .. Len(s) : s[i] = u[i]
    BY <1>1, <1>2, <1>3
<1> QED
    BY <1>4, PrefixByElements

----------------------------------------------------------------------------
(* What is never taken back. *)

Rows(r) == [messages |-> r.messages, receipts |-> r.receipts, joined |-> r.joined]

\* What a step makes of the database of a node.
Goes(n) ==
    LET r == relay[n]  s == relay'[n]
    IN  /\ r.export # None =>
            /\ s.export # None /\ s.export.snapshot = r.export.snapshot
            /\ s.draining = r.draining /\ Rows(s) = Rows(r)
            /\ \A t \in s.export.receipt : t \in r.export.receipt \/ Holds(t, r.export.snapshot)
        /\ r.export = None /\ s.export # None =>
            /\ s.export = [state |-> "frozen", snapshot |-> Snapshot(n), receipt |-> {}]
            /\ s.draining /\ Rows(s) = Rows(r)
        /\ r.import # None => s.import # None /\ s.import.grant.snapshot = r.import.grant.snapshot
        /\ r.import = None /\ s.import # None => Of(s.import.grant) /\ s.import.state # "committed"
        /\ r.import.state = "committed" => s.import.state = "committed" /\ Whole(s, r)
        /\ r.import.state # "committed" /\ s.import.state = "committed" =>
            r.import # None /\ Whole(s, r.import.grant.snapshot)
        /\ \A m \in ToSet(s.messages) : m \in ToSet(r.messages) \/ objects'[n][m] = "durable"

\* What a pass and a late request go on with.
PassGoes(p) ==
    \/ pass'[p] = Idle \/ pass'[p] = pass[p]
    \/ pass'[p] \in Waiting \cup Asking /\ Of(pass'[p].grant)
        /\ (pass'[p] \in Asking => Of(pass'[p].request.grant))
        /\ (pass'[p].pc = "save" =>
            /\ relay'[pass'[p].grant.target].import.state = "committed"
            /\ relay'[pass'[p].grant.target].import.grant.snapshot = pass'[p].grant.snapshot)

StoreGoes ==
    /\ \A n \in Node : Goes(n)
    /\ \A n \in Node, m \in Message : objects[n][m] = "durable" => objects'[n][m] = "durable"
    /\ \A p \in Pass : PassGoes(p)
    /\ \A q \in late' : q \in late \/ \E p \in Pass : pass[p] \in Asking /\ q = pass[p].request

LEMMA NoneIsNone ==
    /\ None.state = "none" /\ None \notin Exports /\ None \notin Imports
    /\ Idle.pc = "idle" /\ Idle \notin Waiting /\ Idle \notin Asking
    /\ Waiting \cap Asking = {}
BY DEF None, Exports, Imports, Idle, Waiting, Asking

LEMMA WholeOfItself == ASSUME NEW r \in Relays PROVE Whole(r, r)
BY PrefixOfItself DEF Relays, Whole

\* A node whose database a step leaves alone goes on.
LEMMA SameGoes ==
    ASSUME NodeTypeOK, NEW n \in Node, relay'[n] = relay[n]
    PROVE  Goes(n)
<1>1. relay[n] \in Relays
    BY DEF NodeTypeOK
<1>2. Whole(relay[n], relay[n])
    BY <1>1, WholeOfItself
<1> QED
    BY <1>2 DEF Goes

\* With what goes on, the invariant does.
LEMMA GoesKeeps ==
    ASSUME NodeInv, NodeTypeOK', StoreGoes
    PROVE  StoreInv'
<1>0. /\ relay \in [Node -> Relays] /\ relay' \in [Node -> Relays] /\ NodeTypeOK
      /\ late \subseteq Requests /\ late' \subseteq Requests
      /\ pass \in [Pass -> {Idle} \cup Waiting \cup Asking]
    BY DEF NodeInv, NodeTypeOK
<1>1. ASSUME NEW g \in Grants, Of(g) PROVE Of(g)'
    <2>1. g.snapshot.source \in Node
        BY DEF Grants, Snapshots
    <2> QED
        BY <1>1, <2>1 DEF Of, StoreGoes, Goes
<1>2. ASSUME NEW t \in Node, NEW s, Holds(t, s) PROVE Holds(t, s)'
    <2>1. relay[t].import # None
        BY <1>2, NoneIsNone DEF Holds, Committed
    <2> QED
        BY <1>2, <2>1 DEF Holds, Committed, StoreGoes, Goes
<1>3. ASSUME NEW n \in Node PROVE FrozenInv(n)'
    <2>0. Goes(n) /\ FrozenInv(n) /\ relay[n] \in Relays /\ relay'[n] \in Relays
        BY <1>0 DEF StoreGoes, NodeInv, StoreInv
    <2>1. CASE relay[n].export # None
        <3>1. /\ relay[n].draining /\ relay[n].export.snapshot.source = n
              /\ relay[n].export.snapshot.messages = relay[n].messages
              /\ relay[n].export.snapshot.receipts = relay[n].receipts
              /\ relay[n].export.snapshot.joined = relay[n].joined
              /\ \A t \in relay[n].export.receipt : Holds(t, relay[n].export.snapshot)
            BY <2>0, <2>1 DEF FrozenInv
        <3>2. /\ relay'[n].export.snapshot = relay[n].export.snapshot
              /\ relay'[n].draining = relay[n].draining
              /\ relay'[n].messages = relay[n].messages /\ relay'[n].receipts = relay[n].receipts
              /\ relay'[n].joined = relay[n].joined
              /\ \A t \in relay'[n].export.receipt : Holds(t, relay[n].export.snapshot)
            BY <2>0, <2>1, <3>1 DEF Goes, Rows
        <3>3. relay'[n].export # None => relay'[n].export.receipt \subseteq Node
            BY <2>0 DEF Relays, Exports
        <3>4. relay'[n].export # None =>
                \A t \in relay'[n].export.receipt : Holds(t, relay[n].export.snapshot)'
            <4>1. PICK s : s = relay[n].export.snapshot /\ s = relay'[n].export.snapshot
                BY <3>2
            <4>2. relay'[n].export # None => \A t \in relay'[n].export.receipt : Holds(t, s)'
                BY <1>2, <3>2, <3>3, <4>1
            <4> QED
                BY <4>1, <4>2
        <3> QED
            BY <3>1, <3>2, <3>4 DEF FrozenInv
    <2>2. CASE relay[n].export = None
        BY <2>0, <2>2 DEF FrozenInv, Goes, Snapshot, Rows
    <2> QED
        BY <2>1, <2>2
<1>4. ASSUME NEW n \in Node PROVE ImportInv(n)'
    <2>0. Goes(n) /\ ImportInv(n) /\ relay[n] \in Relays /\ relay'[n] \in Relays
        BY <1>0 DEF StoreGoes, NodeInv, StoreInv
    <2>1. relay'[n].import # None => Of(relay[n].import.grant)'
        <3>1. relay'[n].import # None => relay'[n].import.grant \in Grants
            BY <2>0 DEF Relays, Imports
        <3>2. relay'[n].import # None => Of(relay'[n].import.grant)
            BY <2>0 DEF Goes, ImportInv, Of
        <3>3. PICK g : g = relay'[n].import.grant
            OBVIOUS
        <3>4. relay'[n].import # None => Of(g)'
            BY <1>1, <3>1, <3>2, <3>3
        <3> QED
            BY <3>3, <3>4
    <2>2. relay'[n].import.state = "committed" => Whole(relay'[n], relay'[n].import.grant.snapshot)
        <3> SUFFICES ASSUME relay'[n].import.state = "committed"
                     PROVE  Whole(relay'[n], relay'[n].import.grant.snapshot)
            OBVIOUS
        <3>1. relay[n].import # None
            BY <2>0, NoneIsNone DEF Goes
        <3>2. /\ relay'[n].import.grant.snapshot = relay[n].import.grant.snapshot
              /\ relay[n].import.grant.snapshot \in Snapshots
            BY <2>0, <3>1 DEF Goes, Relays, Imports, Grants
        <3>3. CASE relay[n].import.state # "committed"
            BY <2>0, <3>2, <3>3 DEF Goes
        <3>4. CASE relay[n].import.state = "committed"
            <4> DEFINE s == relay[n].import.grant.snapshot
            <4>1. Whole(relay[n], s) /\ Whole(relay'[n], relay[n])
                BY <2>0, <3>4 DEF ImportInv, Goes, Committed
            <4>2. s \in Snapshots
                BY <3>2
            <4> HIDE DEF s
            <4>3. Whole(relay'[n], s)
                BY <2>0, <4>1, <4>2, PrefixOfPrefix DEF Whole, Relays, Snapshots
            <4> QED
                BY <3>2, <4>3 DEF s
        <3> QED
            BY <3>3, <3>4
    <2> QED
        BY <2>1, <2>2 DEF ImportInv, Committed
<1>5. ASSUME NEW p \in Pass PROVE PassInv(p)'
    <2>0. PassGoes(p) /\ PassInv(p)
        BY DEF StoreGoes, NodeInv, StoreInv
    <2>1. CASE pass'[p] = Idle
        BY <2>1, NoneIsNone DEF PassInv
    <2>2. CASE pass'[p] = pass[p]
        <3>1. pass[p] \in Waiting \cup Asking => pass[p].grant \in Grants /\ pass[p].grant.target \in Node
            BY DEF Waiting, Asking, Grants
        <3>2. pass[p] \in Asking => pass[p].request.grant \in Grants
            BY DEF Asking, Requests
        <3>3. pass[p].pc = "save" => pass[p] \in Waiting \cup Asking
            BY <1>0, NoneIsNone
        <3> QED
            BY <1>1, <1>2, <2>0, <2>2, <3>1, <3>2, <3>3 DEF PassInv
    <2>3. CASE /\ pass'[p] \in Waiting \cup Asking /\ Of(pass'[p].grant)
               /\ pass'[p] \in Asking => Of(pass'[p].request.grant)
               /\ pass'[p].pc = "save" =>
                    /\ relay'[pass'[p].grant.target].import.state = "committed"
                    /\ relay'[pass'[p].grant.target].import.grant.snapshot = pass'[p].grant.snapshot
        <3>1. pass'[p].grant \in Grants
            BY <2>3 DEF Waiting, Asking
        <3>2. pass'[p] \in Asking => pass'[p].request.grant \in Grants
            BY DEF Asking, Requests
        <3> QED
            BY <1>1, <2>3, <3>1, <3>2 DEF PassInv, Holds, Committed
    <2> QED
        BY <2>0, <2>1, <2>2, <2>3 DEF PassGoes
<1>6. ASSUME NEW q \in late' PROVE Of(q.grant)'
    <2>1. q.grant \in Grants
        BY <1>0 DEF Requests
    <2>2. Of(q.grant)
        BY DEF StoreGoes, NodeInv, StoreInv, PassInv
    <2> QED
        BY <1>1, <2>1, <2>2
<1>7. ServedIsDurable'
    <2> SUFFICES ASSUME NEW n \in Node, NEW m \in ToSet(relay'[n].messages) PROVE objects'[n][m] = "durable"
        BY DEF ServedIsDurable
    <2>1. relay[n].messages \in Seq(Message)
        BY <1>0 DEF Relays
    <2>2. \A x \in ToSet(relay[n].messages) : x \in Message
        BY <2>1 DEF ToSet
    <2> QED
        BY <2>2 DEF StoreGoes, Goes, NodeInv, StoreInv, ServedIsDurable
<1> QED
    BY <1>3, <1>4, <1>5, <1>6, <1>7 DEF StoreInv

----------------------------------------------------------------------------
(* Every step goes on. *)

\* One node moves, the others stay.
LEMMA OthersGo ==
    ASSUME NodeTypeOK, NEW n \in Node, NEW r \in Relays, relay' = [relay EXCEPT ![n] = r], Goes(n)
    PROVE  relay' \in [Node -> Relays] /\ \A x \in Node : Goes(x)
<1>1. relay' \in [Node -> Relays] /\ \A x \in Node : x # n => relay'[x] = relay[x]
    BY DEF NodeTypeOK
<1> QED
    BY <1>1, SameGoes

\* What the node knows and who waits at it is no part of its store.
LEMMA AsideGoes ==
    ASSUME NodeInv, NEW n \in Node, NEW r \in Relays, relay' = [relay EXCEPT ![n] = r],
           r.export = relay[n].export, r.import = relay[n].import, Rows(r) = Rows(relay[n]),
           relay[n].export # None => r.draining = relay[n].draining
    PROVE  relay' \in [Node -> Relays] /\ \A x \in Node : Goes(x)
<1>1. relay \in [Node -> Relays] /\ NodeTypeOK /\ relay'[n] = r
    BY DEF NodeInv, NodeTypeOK
<1>2. /\ r.messages = relay[n].messages /\ r.receipts = relay[n].receipts /\ r.joined = relay[n].joined
    BY DEF Rows
<1>3. Whole(r, relay[n])
    BY <1>1, <1>2, WholeOfItself DEF Whole
<1>4. Goes(n)
    BY <1>1, <1>2, <1>3 DEF Goes
<1> QED
    BY <1>1, <1>4, OthersGo

LEMMA RefreshedGoes ==
    ASSUME NodeInv, NEW n \in Node, Refreshed(n)
    PROVE  /\ relay' \in [Node -> Relays] /\ \A x \in Node : Goes(x) /\ relay'[x].import = relay[x].import
<1>1. relay \in [Node -> Relays] /\ directory \in Directories
    BY DEF NodeInv, NodeTypeOK
<1> DEFINE r == [relay[n] EXCEPT !.known = directory]
<1>2. /\ r \in Relays /\ r.export = relay[n].export /\ r.import = relay[n].import /\ Rows(r) = Rows(relay[n])
      /\ r.draining = relay[n].draining
    BY <1>1 DEF Relays, Rows
<1>3. relay' = [relay EXCEPT ![n] = r]
    BY <1>1 DEF Refreshed
<1> HIDE DEF r
<1>4. relay' \in [Node -> Relays] /\ \A x \in Node : Goes(x)
    BY <1>2, <1>3, AsideGoes
<1>5. \A x \in Node : relay'[x].import = relay[x].import
    BY <1>1, <1>2, <1>3
<1> QED
    BY <1>4, <1>5

\* A node that takes anything from members is not frozen: its rows may grow.
LEMMA WritableGoes ==
    ASSUME NodeInv, NEW n \in Node, Writable(n), NEW r \in Relays, relay' = [relay EXCEPT ![n] = r],
           r.export = relay[n].export, r.import = relay[n].import, Whole(r, relay[n]),
           \A m \in ToSet(r.messages) : m \in ToSet(relay[n].messages) \/ objects'[n][m] = "durable"
    PROVE  relay' \in [Node -> Relays] /\ \A x \in Node : Goes(x)
<1>1. relay \in [Node -> Relays] /\ NodeTypeOK /\ relay'[n] = r
    BY DEF NodeInv, NodeTypeOK
<1>2. relay[n].export = None
    BY DEF Writable, NodeInv, StoreInv, FrozenInv
<1>3. Goes(n)
    BY <1>1, <1>2 DEF Goes
<1> QED
    BY <1>1, <1>3, OthersGo

LEMMA PublishTypes ==
    ASSUME NodeTypeOK, NEW n, NEW m, Publish(n, m) \/ PublishFails(n, m)
    PROVE  /\ objects' \in [Node -> [Message -> {"none", "volatile", "durable"}]]
           /\ \A x \in Node, y \in Message : objects[x][y] = "durable" => objects'[x][y] = "durable"
<1>0. objects \in [Node -> [Message -> {"none", "volatile", "durable"}]]
    BY DEF NodeTypeOK
<1>1. CASE Publish(n, m)
    BY <1>0, <1>1 DEF Publish
<1>2. CASE PublishFails(n, m)
    <2>1. PICK outcome \in {"volatile", "durable"} : objects' = [objects EXCEPT ![n][m] = outcome]
        BY <1>2 DEF PublishFails
    <2>2. objects[n][m] # "durable"
        BY <1>2 DEF PublishFails
    <2>3. objects' \in [Node -> [Message -> {"none", "volatile", "durable"}]]
        BY <1>0, <2>1
    <2>4. ASSUME NEW x \in Node, NEW y \in Message, objects[x][y] = "durable" PROVE objects'[x][y] = "durable"
        <3>1. CASE x = n /\ y = m
            BY <2>2, <2>4, <3>1
        <3>2. CASE ~(x = n /\ y = m)
            BY <1>0, <2>1, <2>4, <3>2
        <3> QED
            BY <3>1, <3>2
    <2> QED
        BY <2>3, <2>4
<1> QED
    BY <1>1, <1>2

\* What members ask of a node.
LEMMA PostGoes ==
    ASSUME NodeInv, NEW n \in Node, NEW m \in Message, Post(n, m)
    PROVE  NodeTypeOK' /\ StoreGoes
<1>0. /\ relay \in [Node -> Relays] /\ NodeTypeOK /\ relay[n] \in Relays
      /\ relay[n].messages \in Seq(Message) /\ relay[n].receipts \in Seq(Message)
      /\ relay[n].joined \subseteq Newcomer /\ relay[n].challenges \subseteq Newcomer
    BY DEF NodeInv, NodeTypeOK, Relays
<1>1. UNCHANGED <<directory, pass, late>> /\ Writable(n)
    BY DEF Post
<1>2. ASSUME relay' \in [Node -> Relays], \A x \in Node : Goes(x),
             objects' \in [Node -> [Message -> {"none", "volatile", "durable"}]],
             \A x \in Node, y \in Message : objects[x][y] = "durable" => objects'[x][y] = "durable"
      PROVE  NodeTypeOK' /\ StoreGoes
    BY <1>0, <1>1, <1>2 DEF NodeTypeOK, StoreGoes, PassGoes
<1>3. ASSUME UNCHANGED objects
      PROVE  /\ objects' \in [Node -> [Message -> {"none", "volatile", "durable"}]]
             /\ \A x \in Node, y \in Message : objects[x][y] = "durable" => objects'[x][y] = "durable"
    BY <1>0, <1>3 DEF NodeTypeOK
<1>4. CASE PublishFails(n, m) /\ UNCHANGED relay
    BY <1>0, <1>2, <1>4, PublishTypes, SameGoes
<1>5. CASE Publish(n, m) /\ relay' = [relay EXCEPT ![n].messages = Append(@, m)]
    <2> DEFINE r == [relay[n] EXCEPT !.messages = Append(relay[n].messages, m)]
    <2>1. relay' = [relay EXCEPT ![n] = r]
        BY <1>0, <1>5
    <2>2. Append(relay[n].messages, m) \in Seq(Message)
          /\ ToSet(Append(relay[n].messages, m)) = ToSet(relay[n].messages) \cup {m}
        BY <1>0, Appended
    <2>3. /\ r \in Relays /\ r.export = relay[n].export /\ r.import = relay[n].import
          /\ r.messages = Append(relay[n].messages, m) /\ r.receipts = relay[n].receipts
          /\ r.joined = relay[n].joined
        BY <1>0, <2>2 DEF Relays
    <2>4. objects'[n][m] = "durable"
        BY <1>0, <1>5 DEF Publish, NodeTypeOK
    <2> HIDE DEF r
    <2>5. Whole(r, relay[n])
        BY <1>0, <2>3, PrefixGrows, PrefixOfItself DEF Whole
    <2>6. relay' \in [Node -> Relays] /\ \A x \in Node : Goes(x)
        BY <1>1, <2>1, <2>2, <2>3, <2>4, <2>5, WritableGoes
    <2> QED
        BY <1>0, <1>2, <1>5, <2>6, PublishTypes
<1> QED
    BY <1>4, <1>5 DEF Post

LEMMA AckGoes ==
    ASSUME NodeInv, NEW n \in Node, NEW m \in Message, Ack(n, m)
    PROVE  NodeTypeOK' /\ StoreGoes
<1>0. /\ relay \in [Node -> Relays] /\ NodeTypeOK /\ relay[n] \in Relays
      /\ relay[n].messages \in Seq(Message) /\ relay[n].receipts \in Seq(Message)
      /\ relay[n].joined \subseteq Newcomer /\ relay[n].challenges \subseteq Newcomer
    BY DEF NodeInv, NodeTypeOK, Relays
<1>1. UNCHANGED <<directory, pass, late>> /\ Writable(n)
    BY DEF Ack
<1>2. ASSUME relay' \in [Node -> Relays], \A x \in Node : Goes(x),
             objects' \in [Node -> [Message -> {"none", "volatile", "durable"}]],
             \A x \in Node, y \in Message : objects[x][y] = "durable" => objects'[x][y] = "durable"
      PROVE  NodeTypeOK' /\ StoreGoes
    BY <1>0, <1>1, <1>2 DEF NodeTypeOK, StoreGoes, PassGoes
<1>3. ASSUME UNCHANGED objects
      PROVE  /\ objects' \in [Node -> [Message -> {"none", "volatile", "durable"}]]
             /\ \A x \in Node, y \in Message : objects[x][y] = "durable" => objects'[x][y] = "durable"
    BY <1>0, <1>3 DEF NodeTypeOK
<1> DEFINE r == [relay[n] EXCEPT !.receipts = Append(relay[n].receipts, m)]
<1>4. relay' = [relay EXCEPT ![n] = r] /\ UNCHANGED objects
    BY <1>0 DEF Ack
<1>5. Append(relay[n].receipts, m) \in Seq(Message)
    BY <1>0
<1>6. /\ r \in Relays /\ r.export = relay[n].export /\ r.import = relay[n].import
      /\ r.receipts = Append(relay[n].receipts, m) /\ r.messages = relay[n].messages
      /\ r.joined = relay[n].joined
    BY <1>0, <1>5 DEF Relays
<1> HIDE DEF r
<1>7. Whole(r, relay[n])
    BY <1>0, <1>6, PrefixGrows, PrefixOfItself DEF Whole
<1>8. relay' \in [Node -> Relays] /\ \A x \in Node : Goes(x)
    BY <1>1, <1>4, <1>6, <1>7, WritableGoes
<1> QED
    BY <1>2, <1>3, <1>4, <1>8

LEMMA JoinGoes ==
    ASSUME NodeInv, NEW n \in Node, NEW v \in Newcomer, JoinChallenge(n, v) \/ Join(n, v)
    PROVE  NodeTypeOK' /\ StoreGoes
<1>0. /\ relay \in [Node -> Relays] /\ NodeTypeOK /\ relay[n] \in Relays
      /\ relay[n].messages \in Seq(Message) /\ relay[n].receipts \in Seq(Message)
      /\ relay[n].joined \subseteq Newcomer /\ relay[n].challenges \subseteq Newcomer
    BY DEF NodeInv, NodeTypeOK, Relays
<1>1. UNCHANGED <<directory, pass, late>> /\ Writable(n)
    BY DEF JoinChallenge, Join
<1>2. ASSUME relay' \in [Node -> Relays], \A x \in Node : Goes(x),
             objects' \in [Node -> [Message -> {"none", "volatile", "durable"}]],
             \A x \in Node, y \in Message : objects[x][y] = "durable" => objects'[x][y] = "durable"
      PROVE  NodeTypeOK' /\ StoreGoes
    BY <1>0, <1>1, <1>2 DEF NodeTypeOK, StoreGoes, PassGoes
<1>3. ASSUME UNCHANGED objects
      PROVE  /\ objects' \in [Node -> [Message -> {"none", "volatile", "durable"}]]
             /\ \A x \in Node, y \in Message : objects[x][y] = "durable" => objects'[x][y] = "durable"
    BY <1>0, <1>3 DEF NodeTypeOK
<1>4. PICK C \in SUBSET Newcomer, J \in SUBSET Newcomer :
        relay[n].joined \subseteq J /\ relay' = [relay EXCEPT ![n].challenges = C, ![n].joined = J]
    <2>1. CASE JoinChallenge(n, v)
        <3>1. PICK kept \in SUBSET relay[n].challenges :
                relay' = [relay EXCEPT ![n].challenges = kept \cup {v}]
            BY <2>1 DEF JoinChallenge
        <3>2. [relay EXCEPT ![n].challenges = kept \cup {v}] =
                [relay EXCEPT ![n].challenges = kept \cup {v}, ![n].joined = relay[n].joined]
            BY <1>0 DEF Relays
        <3>3. kept \cup {v} \in SUBSET Newcomer /\ relay[n].joined \in SUBSET Newcomer
            BY <1>0
        <3> QED
            BY <3>1, <3>2, <3>3
    <2>2. CASE Join(n, v)
        <3>1. relay' = [relay EXCEPT ![n].challenges = relay[n].challenges \ {v},
                                     ![n].joined = relay[n].joined \cup {v}]
            BY <1>0, <2>2 DEF Join
        <3>2. /\ relay[n].challenges \ {v} \in SUBSET Newcomer /\ relay[n].joined \cup {v} \in SUBSET Newcomer
              /\ relay[n].joined \subseteq relay[n].joined \cup {v}
            BY <1>0
        <3> QED
            BY <3>1, <3>2
    <2> QED
        BY <2>1, <2>2
<1> DEFINE r == [relay[n] EXCEPT !.challenges = C, !.joined = J]
<1>5. relay' = [relay EXCEPT ![n] = r] /\ UNCHANGED objects
    BY <1>0, <1>4 DEF JoinChallenge, Join
<1>6. /\ r \in Relays /\ r.export = relay[n].export /\ r.import = relay[n].import
      /\ r.receipts = relay[n].receipts /\ r.messages = relay[n].messages /\ r.joined = J
    BY <1>0, <1>4 DEF Relays
<1> HIDE DEF r
<1>7. Whole(r, relay[n])
    BY <1>0, <1>4, <1>6, PrefixOfItself DEF Whole
<1>8. relay' \in [Node -> Relays] /\ \A x \in Node : Goes(x)
    BY <1>1, <1>5, <1>6, <1>7, WritableGoes
<1> QED
    BY <1>2, <1>3, <1>5, <1>8

LEMMA ControlGoes ==
    ASSUME NodeInv, NEW n \in Node, Refresh(n) \/ Drain(n) \/ PrepareExport(n)
    PROVE  NodeTypeOK' /\ StoreGoes
<1>0. /\ relay \in [Node -> Relays] /\ NodeTypeOK /\ relay[n] \in Relays
      /\ FrozenInv(n)
    BY DEF NodeInv, NodeTypeOK, StoreInv
<1>1. UNCHANGED <<directory, objects, pass, late>>
    BY DEF Refresh, Drain, PrepareExport
<1>2. ASSUME relay' \in [Node -> Relays], \A x \in Node : Goes(x)
      PROVE  NodeTypeOK' /\ StoreGoes
    BY <1>0, <1>1, <1>2 DEF NodeTypeOK, StoreGoes, PassGoes
<1>3. CASE Refresh(n)
    BY <1>2, <1>3, RefreshedGoes DEF Refresh
<1>4. CASE Drain(n)
    <2> DEFINE r == [relay[n] EXCEPT !.draining = TRUE]
    <2>1. /\ r \in Relays /\ r.export = relay[n].export /\ r.import = relay[n].import /\ Rows(r) = Rows(relay[n])
          /\ r.draining = TRUE
        BY <1>0 DEF Relays, Rows
    <2>2. relay' = [relay EXCEPT ![n] = r]
        BY <1>0, <1>4 DEF Drain
    <2>3. relay[n].export # None => relay[n].draining = TRUE
        BY <1>0 DEF FrozenInv, Relays
    <2> HIDE DEF r
    <2>4. relay' \in [Node -> Relays] /\ \A x \in Node : Goes(x)
        BY <2>1, <2>2, <2>3, AsideGoes
    <2> QED
        BY <1>2, <2>4
<1>5. CASE PrepareExport(n)
    <2> DEFINE x == [state |-> "frozen", snapshot |-> Snapshot(n), receipt |-> {}]
               r == [relay[n] EXCEPT !.draining = TRUE, !.export = x]
    <2>1. Snapshot(n) \in Snapshots
        BY <1>0 DEF Snapshot, Snapshots, Relays, Directories
    <2>2. x \in Exports
        BY <2>1 DEF Exports
    <2>3. relay' = [relay EXCEPT ![n] = r] /\ relay[n].export = None
        BY <1>0, <1>5 DEF PrepareExport, Frozen
    <2> HIDE DEF x
    <2>4. /\ r \in Relays /\ r.export = x /\ r.import = relay[n].import /\ r.draining
          /\ r.messages = relay[n].messages /\ r.receipts = relay[n].receipts /\ r.joined = relay[n].joined
        BY <1>0, <2>2 DEF Relays
    <2> HIDE DEF r
    <2>5. Whole(r, relay[n])
        BY <1>0, <2>4, WholeOfItself DEF Whole
    <2>6. relay'[n] = r
        BY <1>0, <2>3
    <2>7. Goes(n)
        BY <2>3, <2>4, <2>5, <2>6 DEF Goes, Rows, x
    <2>8. relay' \in [Node -> Relays] /\ \A y \in Node : Goes(y)
        BY <1>0, <2>3, <2>4, <2>7, OthersGo
    <2> QED
        BY <1>2, <2>8
<1> QED
    BY <1>3, <1>4, <1>5

\* The authority, power losses, and requests that are lost.
LEMMA WorldGoes ==
    ASSUME NodeInv,
           \/ ChangeDirectory \/ (\E n \in Node : PowerLoss(n)) \/ (\E q \in late : Drop(q))
           \/ UNCHANGED nodeVars
    PROVE  NodeTypeOK' /\ StoreGoes
<1>0. NodeTypeOK
    BY DEF NodeInv
<1>1. UNCHANGED <<relay, pass>>
    BY DEF ChangeDirectory, PowerLoss, Drop, nodeVars
<1>2. directory' \in Directories
    <2>1. CASE ChangeDirectory
        BY <1>0, <2>1 DEF ChangeDirectory, NodeTypeOK, Directories
    <2>2. CASE UNCHANGED directory
        BY <1>0, <2>2 DEF NodeTypeOK
    <2> QED
        BY <2>1, <2>2 DEF PowerLoss, Drop, nodeVars
<1>3. /\ objects' \in [Node -> [Message -> {"none", "volatile", "durable"}]]
      /\ \A n \in Node, m \in Message : objects[n][m] = "durable" => objects'[n][m] = "durable"
    <2>1. ASSUME NEW n \in Node, PowerLoss(n)
          PROVE  /\ objects' \in [Node -> [Message -> {"none", "volatile", "durable"}]]
                 /\ \A x \in Node, m \in Message : objects[x][m] = "durable" => objects'[x][m] = "durable"
        BY <1>0, <2>1 DEF PowerLoss, NodeTypeOK
    <2>2. CASE UNCHANGED objects
        BY <1>0, <2>2 DEF NodeTypeOK
    <2> QED
        BY <2>1, <2>2 DEF ChangeDirectory, Drop, nodeVars
<1>4. late' \subseteq late
    BY DEF ChangeDirectory, PowerLoss, Drop, nodeVars
<1> QED
    BY <1>0, <1>1, <1>2, <1>3, <1>4, SameGoes DEF NodeTypeOK, StoreGoes, PassGoes

\* A request of a pass, also one that comes late: an import takes nothing up
\* that is not of its snapshot.
LEMMA HandleGoes ==
    ASSUME NodeInv, NEW q \in Requests, Of(q.grant), Handle(q)
    PROVE  /\ relay' \in [Node -> Relays] /\ \A n \in Node : Goes(n)
           /\ objects' \in [Node -> [Message -> {"none", "volatile", "durable"}]]
           /\ \A n \in Node, m \in Message : objects[n][m] = "durable" => objects'[n][m] = "durable"
           /\ relay'[q.grant.target].import # None
           /\ relay'[q.grant.target].import.grant.snapshot = q.grant.snapshot
<1> DEFINE t == q.grant.target
           i == relay[t].import
<1>0. /\ relay \in [Node -> Relays] /\ NodeTypeOK /\ t \in Node /\ relay[t] \in Relays
      /\ q.grant \in Grants /\ i \in {None} \cup Imports /\ q.index \in Nat
      /\ objects \in [Node -> [Message -> {"none", "volatile", "durable"}]]
      /\ q.grant.snapshot \in Snapshots
    BY DEF NodeInv, NodeTypeOK, Requests, Grants, Relays
<1>1. ASSUME UNCHANGED objects
      PROVE  /\ objects' \in [Node -> [Message -> {"none", "volatile", "durable"}]]
             /\ \A n \in Node, m \in Message : objects[n][m] = "durable" => objects'[n][m] = "durable"
    BY <1>0, <1>1
\* Only the import changes.
<1>2. ASSUME NEW j \in Imports, relay' = [relay EXCEPT ![t] = [relay[t] EXCEPT !.import = j]],
             j.grant.snapshot = q.grant.snapshot,
             \/ i = None /\ j.state # "committed"
             \/ i # None /\ j.grant.snapshot = i.grant.snapshot /\ j.state = i.state
      PROVE  /\ relay' \in [Node -> Relays] /\ \A n \in Node : Goes(n)
             /\ relay'[t].import # None /\ relay'[t].import.grant.snapshot = q.grant.snapshot
    <2> DEFINE r == [relay[t] EXCEPT !.import = j]
    <2>1. /\ r \in Relays /\ r.import = j /\ r.export = relay[t].export /\ r.draining = relay[t].draining
          /\ r.messages = relay[t].messages /\ r.receipts = relay[t].receipts /\ r.joined = relay[t].joined
        BY <1>0 DEF Relays
    <2> HIDE DEF r
    <2>2. relay' = [relay EXCEPT ![t] = r] /\ relay'[t] = r
        BY <1>0, <1>2 DEF r
    <2>3. Whole(r, relay[t])
        BY <1>0, <2>1, WholeOfItself DEF Whole
    <2>4. i = None => i.state # "committed"
        BY NoneIsNone
    <2>5. j # None
        BY NoneIsNone
    <2>6. i = None => Of(j.grant)
        BY <1>2 DEF Of
    <2>7. Goes(t)
        BY <1>2, <2>1, <2>2, <2>3, <2>4, <2>5, <2>6 DEF Goes, Rows
    <2>8. relay' \in [Node -> Relays] /\ \A n \in Node : Goes(n)
        BY <1>0, <2>1, <2>2, <2>7, OthersGo
    <2> QED
        BY <1>2, <2>1, <2>2, <2>5, <2>8
<1>3. CASE HandleBegin(q)
    <2>1. CASE i = None
        <3> DEFINE j == [state |-> "receiving", grant |-> q.grant, next |-> 0]
        <3>1. j \in Imports
            BY <1>0 DEF Imports
        <3>2. relay' = [relay EXCEPT ![t] = [relay[t] EXCEPT !.import = j]] /\ UNCHANGED objects
            BY <1>0, <1>3, <2>1 DEF HandleBegin
        <3>3. j.grant = q.grant /\ j.state # "committed"
            OBVIOUS
        <3> HIDE DEF j
        <3> QED
            BY <1>1, <1>2, <2>1, <3>1, <3>2, <3>3
    <2>2. CASE i # None
        <3> DEFINE j == [i EXCEPT !.grant = q.grant]
        <3>1. i \in Imports /\ i.grant.snapshot = q.grant.snapshot
            BY <1>0, <1>3, <2>2 DEF HandleBegin, SameImport
        <3>2. j \in Imports /\ j.grant = q.grant /\ j.state = i.state
            BY <1>0, <3>1 DEF Imports
        <3>3. relay' = [relay EXCEPT ![t] = [relay[t] EXCEPT !.import = j]] /\ UNCHANGED objects
            BY <1>0, <1>3, <2>2 DEF HandleBegin
        <3> HIDE DEF j
        <3> QED
            BY <1>1, <1>2, <2>2, <3>1, <3>2, <3>3
    <2> QED
        BY <2>1, <2>2
<1>4. ASSUME UNCHANGED relay, SameImport(t, q.grant)
      PROVE  /\ relay' \in [Node -> Relays] /\ \A n \in Node : Goes(n)
             /\ relay'[t].import # None /\ relay'[t].import.grant.snapshot = q.grant.snapshot
    BY <1>0, <1>4, SameGoes DEF SameImport
<1>5. CASE HandleObject(q)
    <2>1. SameImport(t, q.grant)
        BY <1>5 DEF HandleObject
    <2>2. CASE UNCHANGED <<relay, objects>>
        BY <1>1, <1>4, <2>1, <2>2
    <2>3. CASE Publish(t, Carried(q)) /\ relay' = [relay EXCEPT ![t].import.next = q.index + 1]
        <3> DEFINE j == [i EXCEPT !.next = q.index + 1]
        <3>1. i \in Imports /\ i # None /\ i.grant.snapshot = q.grant.snapshot
            BY <1>0, <2>1 DEF SameImport
        <3>2. j \in Imports /\ j.grant = i.grant /\ j.state = i.state
            BY <1>0, <3>1 DEF Imports
        <3>3. relay' = [relay EXCEPT ![t] = [relay[t] EXCEPT !.import = j]]
            BY <1>0, <2>3
        <3> HIDE DEF j
        <3> QED
            BY <1>0, <1>2, <2>3, <3>1, <3>2, <3>3, PublishTypes
    <2> QED
        BY <1>5, <2>2, <2>3 DEF HandleObject
<1>6. CASE HandleCommit(q)
    <2>1. SameImport(t, q.grant) /\ i \in Imports /\ i.grant.snapshot = q.grant.snapshot
        BY <1>0, <1>6 DEF HandleCommit, SameImport
    <2>2. CASE UNCHANGED <<relay, objects>>
        BY <1>1, <1>4, <2>1, <2>2
    <2>3. CASE ~Committed(t)
        <3> DEFINE s == q.grant.snapshot
                   j == [i EXCEPT !.state = "committed"]
                   r == [relay[t] EXCEPT !.messages = s.messages, !.receipts = s.receipts, !.joined = s.joined,
                                         !.import = j]
        <3>1. /\ EmptyTarget(t) /\ relay' = [relay EXCEPT ![t] = r]
              /\ objects' = [objects EXCEPT ![t] =
                    [m \in Message |-> IF m \in ToSet(s.messages) THEN "durable" ELSE objects[t][m]]]
            <4>1. EmptyTarget(t)
                BY <1>6, <2>3 DEF HandleCommit
            <4>2. objects' = [objects EXCEPT ![t] =
                    [m \in Message |-> IF m \in ToSet(s.messages) THEN "durable" ELSE @[m]]]
                BY <1>6, <2>3 DEF HandleCommit
            <4>3. relay' = [relay EXCEPT
                    ![t].messages = s.messages, ![t].receipts = s.receipts, ![t].joined = s.joined,
                    ![t].import.state = "committed"]
                BY <1>6, <2>3 DEF HandleCommit
            <4>4. relay' = [relay EXCEPT ![t] = r]
                BY <1>0, <2>1, <4>3 DEF Relays
            <4> QED
                BY <4>1, <4>2, <4>4
        <3>2. j \in Imports /\ j.grant = i.grant /\ j.state = "committed" /\ j # None
            BY <2>1, NoneIsNone DEF Imports
        <3> HIDE DEF j
        <3>3. /\ s.messages \in Seq(Message) /\ s.receipts \in Seq(Message) /\ s.joined \in SUBSET Newcomer
            BY <1>0 DEF Snapshots
        <3>4. /\ r \in Relays /\ r.import = j /\ r.export = relay[t].export
              /\ r.messages = s.messages /\ r.receipts = s.receipts /\ r.joined = s.joined
            BY <1>0, <3>2, <3>3 DEF Relays
        <3> HIDE DEF r, s
        <3>5. relay'[t] = r
            BY <1>0, <3>1
        <3>6. Whole(r, s)
            BY <3>3, <3>4, PrefixOfItself DEF Whole
        <3>7. relay[t].export = None
            BY <3>1 DEF EmptyTarget
        <3>8. s = i.grant.snapshot
            BY <2>1 DEF s
        <3>9. \A m \in ToSet(r.messages) : m \in Message
            BY <3>3, <3>4 DEF ToSet
        <3>10. \A m \in ToSet(r.messages) : objects'[t][m] = "durable"
            BY <1>0, <3>1, <3>4, <3>9
        <3>11. i # None /\ i.state # "committed"
            BY <2>1, <2>3 DEF SameImport, Committed
        <3>12. Goes(t)
            BY <3>2, <3>4, <3>5, <3>6, <3>7, <3>8, <3>10, <3>11 DEF Goes
        <3>13. relay' \in [Node -> Relays] /\ \A n \in Node : Goes(n)
            BY <1>0, <3>1, <3>4, <3>12, OthersGo
        <3>14. /\ objects' \in [Node -> [Message -> {"none", "volatile", "durable"}]]
               /\ \A n \in Node, m \in Message : objects[n][m] = "durable" => objects'[n][m] = "durable"
            BY <1>0, <3>1
        <3>15. relay'[t].import # None /\ relay'[t].import.grant.snapshot = q.grant.snapshot
            BY <2>1, <3>2, <3>4, <3>5
        <3> QED
            BY <3>13, <3>14, <3>15
    <2> QED
        BY <1>6, <2>2, <2>3 DEF HandleCommit
<1> QED
    BY <1>3, <1>5, <1>6 DEF Handle

\* What a pass goes on with after an answer is still about its grant, and a
\* pass that has its receipt was told by a target that holds everything.
LEMMA PassesGo ==
    ASSUME NodeInv, NEW p \in Pass, Proceed(p) \/ ServeFails(p) \/ StopPass(p)
    PROVE  NodeTypeOK' /\ StoreGoes
<1>0. /\ relay \in [Node -> Relays] /\ NodeTypeOK /\ PassInv(p)
      /\ pass \in [Pass -> {Idle} \cup Waiting \cup Asking] /\ late \subseteq Requests
      /\ directory \in Directories
      /\ objects \in [Node -> [Message -> {"none", "volatile", "durable"}]]
    BY DEF NodeInv, NodeTypeOK, StoreInv
<1>1. /\ pass[p].pc \in {"greet", "save"} => pass[p] \in Waiting
      /\ pass[p].pc = "sent" => pass[p] \in Asking
    BY <1>0, NoneIsNone DEF Waiting, Asking
<1>2. /\ pass[p] \in Waiting \cup Asking => pass[p].grant \in Grants /\ Of(pass[p].grant)
      /\ pass[p] \in Asking => pass[p].request \in Requests /\ Of(pass[p].request.grant)
    BY <1>0 DEF PassInv, Waiting, Asking
<1>3. ASSUME NEW c \in {Idle} \cup Waiting \cup Asking, pass' = [pass EXCEPT ![p] = c],
             c \in Waiting \cup Asking => Of(c.grant),
             c \in Asking => Of(c.request.grant),
             c.pc = "save" => /\ relay'[c.grant.target].import.state = "committed"
                              /\ relay'[c.grant.target].import.grant.snapshot = c.grant.snapshot,
             UNCHANGED directory,
             late' \subseteq late \/ (pass[p] \in Asking /\ late' \subseteq late \cup {pass[p].request}),
             relay' \in [Node -> Relays], \A x \in Node : Goes(x),
             objects' \in [Node -> [Message -> {"none", "volatile", "durable"}]],
             \A x \in Node, y \in Message : objects[x][y] = "durable" => objects'[x][y] = "durable"
      PROVE  NodeTypeOK' /\ StoreGoes
    <2>1. pass' \in [Pass -> {Idle} \cup Waiting \cup Asking] /\ late' \subseteq Requests
        BY <1>0, <1>2, <1>3
    <2>2. PassGoes(p)
        BY <1>0, <1>3 DEF PassGoes
    <2>3. \A r \in Pass : PassGoes(r)
        BY <1>0, <1>3, <2>2 DEF PassGoes
    <2>4. \A q \in late' : q \in late \/ \E r \in Pass : pass[r] \in Asking /\ q = pass[r].request
        BY <1>3
    <2> QED
        BY <1>0, <1>3, <2>1, <2>3, <2>4 DEF NodeTypeOK, StoreGoes
<1>4. \A x \in Node : relay'[x] = relay[x] => Goes(x)
    BY <1>0, SameGoes
<1>5. Idle.pc # "save" /\ Idle \notin Waiting \cup Asking
    BY NoneIsNone
<1>6. ASSUME NEW g \in Grants, NEW phase \in {"begin", "object", "commit"}, NEW k \in Nat
      PROVE  /\ Sent(g, phase, k) \in Asking /\ Sent(g, phase, k).grant = g
             /\ Sent(g, phase, k).request.grant = g /\ Sent(g, phase, k).pc # "save"
    BY <1>6 DEF Sent, Request, Asking, Requests
<1>7. CASE Greet(p)
    <2> DEFINE g == pass[p].grant
    <2>1. g \in Grants /\ Of(g) /\ g.target \in Node
        BY <1>1, <1>2, <1>7 DEF Greet, Grants
    <2>2. Refreshed(g.target) /\ pass' = [pass EXCEPT ![p] = Sent(g, "begin", 0)]
          /\ UNCHANGED <<directory, objects, late>>
        BY <1>7 DEF Greet
    <2> HIDE DEF g
    <2>3. relay' \in [Node -> Relays] /\ \A x \in Node : Goes(x)
        BY <2>1, <2>2, RefreshedGoes
    <2> DEFINE c == Sent(g, "begin", 0)
    <2>4. c \in Asking /\ c.grant = g /\ c.request.grant = g /\ c.pc # "save"
        BY <1>6, <2>1
    <2>5. pass' = [pass EXCEPT ![p] = c]
        BY <2>2
    <2> HIDE DEF c
    <2> QED
        BY <1>0, <1>3, <2>1, <2>2, <2>3, <2>4, <2>5
<1>8. CASE Serve(p)
    <2> DEFINE q == pass[p].request
               import == relay'[q.grant.target].import
               c == AfterAnswer(q.grant, import)
    <2>1. q \in Requests /\ Of(q.grant) /\ q.grant \in Grants /\ q.grant.target \in Node
        BY <1>1, <1>2, <1>8 DEF Serve, Requests, Grants
    <2>2. Handle(q) /\ pass' = [pass EXCEPT ![p] = c] /\ UNCHANGED <<directory, late>>
        BY <1>8 DEF Serve, Handle
    <2>3. /\ relay' \in [Node -> Relays] /\ \A x \in Node : Goes(x)
          /\ objects' \in [Node -> [Message -> {"none", "volatile", "durable"}]]
          /\ \A x \in Node, y \in Message : objects[x][y] = "durable" => objects'[x][y] = "durable"
          /\ import # None /\ import.grant.snapshot = q.grant.snapshot
        BY <2>1, <2>2, HandleGoes
    <2>4. import \in Imports /\ import.next \in Nat
        BY <2>1, <2>3 DEF Relays, Imports
    <2>5. /\ c \in Waiting \cup Asking /\ c.grant = q.grant /\ (c \in Asking => c.request.grant = q.grant)
          /\ c.pc = "save" => import.state = "committed"
        <3> HIDE DEF q, import
        <3>1. CASE import.state = "committed"
            BY <2>1, <3>1, NoneIsNone DEF AfterAnswer, Waiting
        <3>2. CASE import.state # "committed"
            <4>1. c = Sent(q.grant, "object", import.next) \/ c = Sent(q.grant, "commit", 0)
                BY <3>2 DEF AfterAnswer
            <4>2. 0 \in Nat
                OBVIOUS
            <4> HIDE DEF c
            <4> QED
                BY <1>6, <2>1, <2>4, <4>1, <4>2
        <3> QED
            BY <3>1, <3>2
    <2> HIDE DEF q, c
    <2> QED
        BY <1>3, <2>1, <2>2, <2>3, <2>5
<1>9. CASE ServeFails(p)
    <2> DEFINE q == pass[p].request
    <2>1. /\ PublishFails(q.grant.target, Carried(q)) /\ UNCHANGED <<relay, directory, late>>
          /\ pass' = [pass EXCEPT ![p] = Idle]
        BY <1>9 DEF ServeFails, HandleFails
    <2> HIDE DEF q
    <2>2. /\ objects' \in [Node -> [Message -> {"none", "volatile", "durable"}]]
          /\ \A x \in Node, y \in Message : objects[x][y] = "durable" => objects'[x][y] = "durable"
        BY <1>0, <2>1, PublishTypes
    <2> QED
        BY <1>0, <1>3, <1>4, <1>5, <2>1, <2>2
<1>10. CASE SaveReceipt(p)
    <2> DEFINE g == pass[p].grant
               s == g.snapshot.source
               x == [relay[s].export EXCEPT !.receipt = {g.target}]
               r == [relay[s] EXCEPT !.export = x]
    <2>1. g \in Grants /\ Of(g) /\ g.target \in Node /\ s \in Node /\ Holds(g.target, g.snapshot)
        BY <1>0, <1>1, <1>2, <1>10 DEF SaveReceipt, Grants, Snapshots, PassInv
    <2>2. relay[s] \in Relays /\ relay[s].export # None /\ relay[s].export.snapshot = g.snapshot
        BY <1>0, <2>1 DEF Of
    <2>3. relay[s].export \in Exports
        BY <2>2 DEF Relays
    <2>4. x \in Exports /\ x.snapshot = relay[s].export.snapshot /\ x.receipt = {g.target} /\ x # None
        BY <2>1, <2>3, NoneIsNone DEF Exports
    <2>5. /\ pass' = [pass EXCEPT ![p] = Idle] /\ UNCHANGED <<directory, objects, late>>
          /\ relay' = [relay EXCEPT ![s] = r]
        BY <1>0, <1>10 DEF SaveReceipt
    <2> HIDE DEF x
    <2>6. /\ r \in Relays /\ r.export = x /\ r.import = relay[s].import /\ r.draining = relay[s].draining
          /\ r.messages = relay[s].messages /\ r.receipts = relay[s].receipts /\ r.joined = relay[s].joined
        BY <2>2, <2>4 DEF Relays
    <2> HIDE DEF r, s, g
    <2>7. Whole(r, relay[s])
        BY <2>2, <2>6, WholeOfItself DEF Whole
    <2>8. relay'[s] = r
        BY <1>0, <2>1, <2>5
    <2>9. Goes(s)
        BY <2>1, <2>2, <2>4, <2>6, <2>7, <2>8 DEF Goes, Rows
    <2>10. relay' \in [Node -> Relays] /\ \A y \in Node : Goes(y)
        BY <1>0, <2>1, <2>5, <2>6, <2>9, OthersGo
    <2> QED
        BY <1>0, <1>3, <1>5, <2>5, <2>10
<1>11. CASE StopPass(p)
    <2>1. /\ UNCHANGED <<directory, relay, objects>> /\ pass' = [pass EXCEPT ![p] = Idle]
          /\ late' = late \/ (pass[p].pc = "sent" /\ late' = late \cup {pass[p].request})
        BY <1>11 DEF StopPass
    <2> QED
        BY <1>0, <1>1, <1>3, <1>4, <1>5, <2>1
<1> QED
    BY <1>7, <1>8, <1>9, <1>10, <1>11 DEF Proceed

LEMMA BeginGoes ==
    ASSUME NodeInv, NEW p \in Pass, NEW s \in Node, NEW t \in Node, BeginPass(p, s, t)
    PROVE  NodeTypeOK' /\ StoreGoes
<1>0. /\ relay \in [Node -> Relays] /\ NodeTypeOK /\ FrozenInv(s) /\ relay[s] \in Relays
      /\ pass \in [Pass -> {Idle} \cup Waiting \cup Asking] /\ directory \in Directories
    BY DEF NodeInv, NodeTypeOK, StoreInv
<1> DEFINE g == GrantFor(s, t)
           c == [pc |-> IF relay[s].export.receipt = {} THEN "greet" ELSE "save", grant |-> g]
<1>1. /\ relay[s].export # None /\ relay[s].export.receipt \subseteq {t} /\ Refreshed(s)
      /\ pass' = [pass EXCEPT ![p] = c] /\ UNCHANGED <<directory, objects, late>>
    BY DEF BeginPass, Grantable, Frozen
<1>2. relay[s].export \in Exports
    BY <1>0, <1>1 DEF Relays
<1>3. g \in Grants /\ g.snapshot = relay[s].export.snapshot /\ g.target = t
    BY <1>0, <1>2 DEF GrantFor, Grants, Exports, Directories
<1>4. Of(g)
    BY <1>0, <1>1, <1>3 DEF Of, FrozenInv
<1> HIDE DEF g
<1>5. c \in Waiting /\ c.grant = g /\ (c.pc = "save" => relay[s].export.receipt = {t})
    BY <1>1, <1>3 DEF Waiting
<1> HIDE DEF c
<1>6. c.pc = "save" => Holds(t, g.snapshot)
    BY <1>0, <1>1, <1>3, <1>5 DEF FrozenInv
<1>7. relay' \in [Node -> Relays] /\ \A x \in Node : Goes(x) /\ relay'[x].import = relay[x].import
    BY <1>1, RefreshedGoes
<1>8. pass' \in [Pass -> {Idle} \cup Waiting \cup Asking]
    BY <1>0, <1>1, <1>5
<1>9. PassGoes(p)
    BY <1>0, <1>1, <1>3, <1>4, <1>5, <1>6, <1>7, NoneIsNone DEF PassGoes, Holds, Committed
<1>10. \A r \in Pass : PassGoes(r)
    BY <1>0, <1>1, <1>9 DEF PassGoes
<1> QED
    BY <1>0, <1>1, <1>7, <1>8, <1>10 DEF NodeTypeOK, StoreGoes

\* A request that comes after its pass has ended.
LEMMA LateGoes ==
    ASSUME NodeInv, NEW q \in late, ServeLate(q)
    PROVE  NodeTypeOK' /\ StoreGoes
<1>0. NodeTypeOK /\ q \in Requests /\ Of(q.grant) /\ relay \in [Node -> Relays]
    BY DEF NodeInv, NodeTypeOK, StoreInv
<1>1. UNCHANGED <<pass, directory>> /\ late' = late \ {q}
    BY DEF ServeLate, Handle
<1>2. /\ relay' \in [Node -> Relays] /\ \A x \in Node : Goes(x)
      /\ objects' \in [Node -> [Message -> {"none", "volatile", "durable"}]]
      /\ \A x \in Node, y \in Message : objects[x][y] = "durable" => objects'[x][y] = "durable"
    <2>1. CASE Handle(q)
        BY <1>0, <2>1, HandleGoes
    <2>2. CASE HandleFails(q)
        BY <1>0, <2>2, PublishTypes, SameGoes DEF HandleFails
    <2> QED
        BY <2>1, <2>2 DEF ServeLate
<1> QED
    BY <1>0, <1>1, <1>2 DEF NodeTypeOK, StoreGoes, PassGoes

----------------------------------------------------------------------------
(* The theorems. *)

LEMMA NodeInvInit == NodeInit => NodeInv
<1> SUFFICES ASSUME NodeInit PROVE NodeInv
    OBVIOUS
<1>1. directory \in Directories /\ [directory EXCEPT !.version = 0] \in Directories
    BY DEF NodeInit, Directories
<1>2. <<>> \in Seq(Message)
    OBVIOUS
<1>3. NodeTypeOK
    BY <1>1, <1>2 DEF NodeInit, NodeTypeOK, Relays
<1>4. /\ \A n \in Node : relay[n].export = None /\ relay[n].import = None /\ relay[n].messages = <<>>
      /\ \A p \in Pass : pass[p] = Idle
      /\ late = {}
    BY DEF NodeInit
<1>5. ToSet(<<>>) = {}
    BY DEF ToSet
<1>6. StoreInv
    BY <1>4, <1>5, NoneIsNone DEF StoreInv, FrozenInv, ImportInv, PassInv, ServedIsDurable, Committed
<1> QED
    BY <1>3, <1>6 DEF NodeInv

LEMMA NodeInvariant == NodeSpec => []NodeInv
<1>1. NodeInv /\ [NodeNext]_nodeVars => NodeInv'
    <2> SUFFICES ASSUME NodeInv, [NodeNext]_nodeVars PROVE NodeInv'
        OBVIOUS
    <2>1. ASSUME NEW n \in Node, NEW m \in Message, Post(n, m) PROVE NodeTypeOK' /\ StoreGoes
        BY <2>1, PostGoes
    <2>2. ASSUME NEW n \in Node, NEW m \in Message, Ack(n, m) PROVE NodeTypeOK' /\ StoreGoes
        BY <2>2, AckGoes
    <2>3. ASSUME NEW n \in Node, NEW v \in Newcomer, JoinChallenge(n, v) \/ Join(n, v)
          PROVE  NodeTypeOK' /\ StoreGoes
        BY <2>3, JoinGoes
    <2>4. ASSUME NEW n \in Node, Refresh(n) \/ Drain(n) \/ PrepareExport(n) PROVE NodeTypeOK' /\ StoreGoes
        BY <2>4, ControlGoes
    <2>5. ASSUME NEW p \in Pass, Proceed(p) \/ ServeFails(p) \/ StopPass(p) PROVE NodeTypeOK' /\ StoreGoes
        BY <2>5, PassesGo
    <2>6. ASSUME NEW p \in Pass, NEW s \in Node, NEW t \in Node, BeginPass(p, s, t)
          PROVE  NodeTypeOK' /\ StoreGoes
        BY <2>6, BeginGoes
    <2>7. ASSUME NEW q \in late, ServeLate(q) PROVE NodeTypeOK' /\ StoreGoes
        BY <2>7, LateGoes
    <2>8. ASSUME \/ ChangeDirectory \/ (\E n \in Node : PowerLoss(n)) \/ (\E q \in late : Drop(q))
                 \/ UNCHANGED nodeVars
          PROVE  NodeTypeOK' /\ StoreGoes
        BY <2>8, WorldGoes
    <2>9. NodeTypeOK' /\ StoreGoes
        BY <2>1, <2>2, <2>3, <2>4, <2>5, <2>6, <2>7, <2>8 DEF NodeNext
    <2> QED
        BY <2>9, GoesKeeps DEF NodeInv
<1> QED
    BY <1>1, NodeInvInit, PTL DEF NodeSpec

\* However a post or an import is interrupted between the file and the row, and
\* whoever takes up what it left, what a node serves no power loss takes away
\* (Relay.post_message, _receive_transfer).
THEOREM ServedStaysDurable == NodeSpec => []ServedIsDurable
<1>1. NodeInv => ServedIsDurable
    BY DEF NodeInv, StoreInv
<1> QED
    BY <1>1, NodeInvariant, PTL

\* Whatever passes, renewed grants and late requests did, in whatever order: a
\* source that was told it may exit has all it ever confirmed at its target,
\* each row at its sequence, and what the target took later is behind it; and
\* it is durable there (transfer, receive_transfer, Relay._writable).
THEOREM NodeStoreStays == NodeSpec => []NodeStoreIsKept
<1>1. ASSUME NodeInv PROVE HandedOverIsComplete
    <2> SUFFICES ASSUME NEW s \in Node, relay[s].export # None, NEW t \in relay[s].export.receipt
                 PROVE  /\ Committed(t) /\ relay[t].import.grant.snapshot.source = s
                        /\ Whole(relay[t], relay[s])
        BY DEF HandedOverIsComplete, Frozen
    <2>1. relay[s] \in Relays /\ FrozenInv(s)
        BY <1>1 DEF NodeInv, NodeTypeOK, StoreInv
    <2>2. t \in Node
        BY <2>1 DEF Relays, Exports
    <2> DEFINE x == relay[s].export.snapshot
    <2>3. /\ Committed(t) /\ relay[t].import.grant.snapshot = x /\ x.source = s
          /\ x.messages = relay[s].messages /\ x.receipts = relay[s].receipts /\ x.joined = relay[s].joined
        BY <2>1 DEF FrozenInv, Holds
    <2>4. Whole(relay[t], relay[t].import.grant.snapshot)
        BY <1>1, <2>2, <2>3 DEF NodeInv, StoreInv, ImportInv
    <2> HIDE DEF x
    <2>5. Whole(relay[t], relay[s])
        BY <2>3, <2>4 DEF Whole
    <2> QED
        BY <2>3, <2>5
<1>2. NodeInv => NodeStoreIsKept
    BY <1>1 DEF NodeStoreIsKept, NodeInv, StoreInv
<1> QED
    BY <1>2, NodeInvariant, PTL

=============================================================================
