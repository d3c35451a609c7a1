------------------------------ MODULE Node_proofs ------------------------------
(***************************************************************************)
(* Proofs about Node, for any number of egresses and of connections, any   *)
(* certificates and any pools.                                             *)
(***************************************************************************)
EXTENDS Node, FiniteSetTheorems, TLAPS

(* Pre-shared keys.                                                        *)

\* The CA that issued the certificate of a node.
CAOf(n) == CHOOSE ca \in IssuersOf(Cert[n], Pool[n]) : TRUE

\* A node has a pre-shared key for every CA of its pool, at least one, and all
\* of them come from the CA that issued its own certificate.
LEMMA KeysOfOwnCA ==
    ASSUME NEW n \in Nodes
    PROVE  /\ PresharedKeys(n) \in Seq({CAOf(n).signature})
           /\ Len(PresharedKeys(n)) > 0
           /\ \A i \in 1..Len(PresharedKeys(n)) : PresharedKeys(n)[i] = CAOf(n).signature
<1> DEFINE k == Cardinality(Pool[n])
<1>1. Pool[n] # {} /\ IsFiniteSet(Pool[n])
  BY NodeAssumption DEF IssuersOf
<1>2. k \in Nat /\ k # 0
  BY <1>1, FS_CardinalityType, FS_EmptySet
<1>3. PresharedKeys(n) = [i \in 1..k |-> CAOf(n).signature]
  BY DEF PresharedKeys, CAOf
<1> HIDE DEF k
<1>4. QED
  BY <1>2, <1>3

\* The CA of a node is one whose sum is the issuer of the node's certificate.
LEMMA IssuerIsSum ==
    ASSUME NEW n \in Nodes
    PROVE  Cert[n].details.issuer = Sha256Sum(CAOf(n))
<1>1. CAOf(n) \in IssuersOf(Cert[n], Pool[n])
  BY NodeAssumption DEF CAOf
<1>2. QED
  BY <1>1 DEF IssuersOf

\* An egress can open the first message of the handshake exactly if its CA and
\* that of the ingress bear the same signature, however many CAs the two pools
\* have in common.
THEOREM OpensWithinOneCA ==
    ASSUME NEW e \in Egresses
    PROVE  Opens[e] <=> CAOf(e).signature = CAOf(Ingress).signature
<1> DEFINE psk  == PresharedKeys(Ingress)[1]
           keys == PresharedKeys(e)
<1>1. psk = CAOf(Ingress).signature
  <2>1. Ingress \in Nodes
    BY DEF Nodes
  <2> DEFINE own == PresharedKeys(Ingress)
  <2>2. /\ own \in Seq({CAOf(Ingress).signature})
        /\ Len(own) > 0
        /\ \A i \in 1..Len(own) : own[i] = CAOf(Ingress).signature
    BY <2>1, KeysOfOwnCA
  <2> HIDE DEF own
  <2>3. own[1] = CAOf(Ingress).signature
    BY <2>2
  <2>4. QED
    BY <2>3 DEF own
<1>2. /\ keys \in Seq({CAOf(e).signature})
      /\ Len(keys) > 0
      /\ \A i \in 1..Len(keys) : keys[i] = CAOf(e).signature
  <2>1. e \in Nodes
    BY DEF Nodes
  <2>2. QED
    BY <2>1, KeysOfOwnCA
<1>3. Opens[e] <=> (\E i \in DOMAIN keys : keys[i] = psk) /\ keys[Len(keys)] = psk
  BY DEF Opens
<1> HIDE DEF psk, keys
<1>4. DOMAIN keys = 1..Len(keys) /\ Len(keys) \in 1..Len(keys)
  BY <1>2
<1>5. QED
  BY <1>1, <1>2, <1>3, <1>4

\* Nodes of one CA can always open each other's messages.
LEMMA OpensForSameIssuer ==
    ASSUME NEW e \in Egresses,
           Cert[e].details.issuer = Cert[Ingress].details.issuer
    PROVE  Opens[e]
<1>1. Sha256Sum(CAOf(e)) = Sha256Sum(CAOf(Ingress))
  BY IssuerIsSum DEF Nodes
<1>2. CAOf(e).signature = CAOf(Ingress).signature
  BY <1>1 DEF Sha256Sum, Marshal
<1>3. QED
  BY <1>2, OpensWithinOneCA

-----------------------------------------------------------------------------
(* The inductive invariant.                                                *)

\* A stream in the backlog has been opened, and its connection is not taken
\* for an unused one.
BacklogIsLinked == \A i \in DOMAIN backlog : conn[backlog[i]].link # "none"

\* An egress past its handshake, or one that has written its second message,
\* has opened the first one and verified its sender.
EgressHasVerified ==
    \A c \in Conns :
        conn[c].ew >= 1 \/ conn[c].eg \in {"start", "nego", "ice", "up"} =>
            Opens[Owner[c]] /\ Trusted(Owner[c], Ingress)

\* So has the ingress its side, and only after the egress has.
IngressHasVerified ==
    \A c \in Conns :
        conn[c].ing \in {"nego", "ice", "up"} =>
            /\ Opens[Owner[c]]
            /\ Trusted(Owner[c], Ingress) /\ Trusted(Ingress, Owner[c])

\* The inductive invariant.
IInv ==
    /\ TypeOK
    /\ BacklogIsLinked
    /\ EgressHasVerified
    /\ IngressHasVerified
    /\ RefusedOnlyAcrossCAs

-----------------------------------------------------------------------------
(* What becomes of the connections when one of them, or all, end.          *)

Record == [link : {"none", "queued", "open", "closed"},
           ing  : {"none", "hs", "nego", "failing", "ice", "up"},
           eg   : {"none", "hs", "start", "nego", "ice", "up"},
           iw   : 0..2, ew : 0..2]

\* Neither side of d gets any further.
Fades(d) ==
    /\ conn'[d].ing \in {conn[d].ing, "none", "failing"}
    /\ conn'[d].eg \in {conn[d].eg, "none"}
    /\ conn'[d].ew \in {conn[d].ew, 0}

\* Forgetting connections leaves records of the same shape, and touches
\* neither those in use nor those in the backlog.
LEMMA ForgetIs ==
    ASSUME NEW f \in [Conns -> Record], NEW q
    PROVE  /\ Forget(f, q) \in [Conns -> Record]
           /\ \A d \in Conns :
                 \/ Forget(f, q)[d] = f[d]
                 \/ /\ Forget(f, q)[d] = Unused
                    /\ f[d].ing = "none" /\ \A i \in DOMAIN q : q[i] # d
<1>1. Unused \in Record
  BY DEF Unused, Record
<1>2. QED
  BY <1>1 DEF Forget

\* When runAetherlightIngress returns, or its process ends, no connection is
\* left in a handshake of the ingress and none gets any further.
LEMMA AllFade ==
    ASSUME TypeOK, Return \/ IngressExit
    PROVE  /\ conn' \in [Conns -> Record]
           /\ \A d \in Conns : Fades(d) /\ conn'[d].ing \in {"none", "failing"}
<1> DEFINE ends(r) == IF r \in {"nego", "failing"} THEN "failing" ELSE "none"
           returned == [d \in Conns |-> [conn[d] EXCEPT !.link = Closed(@),
                                                        !.ing = ends(@)]]
           exited   == [d \in Conns |-> [conn[d] EXCEPT !.link = Closed(@),
                                                        !.ing = "none"]]
<1>0. conn \in [Conns -> Record]
  BY DEF TypeOK, Record
<1>1. returned \in [Conns -> Record] /\ exited \in [Conns -> Record]
  BY <1>0 DEF Record, Closed
<1>2. PICK g \in {returned, exited} : conn' = Forget(g, <<>>)
  BY DEF Return, IngressExit
<1>3. g \in [Conns -> Record]
  BY <1>1, <1>2
<1>4. \A d \in Conns : /\ g[d].ing \in {"none", "failing"}
                       /\ g[d].eg = conn[d].eg /\ g[d].ew = conn[d].ew
  <2>1. CASE g = returned
    <3>1. \A x : ends(x) \in {"none", "failing"}
      OBVIOUS
    <3> HIDE DEF ends
    <3> SUFFICES ASSUME NEW d \in Conns
                 PROVE  /\ g[d].ing \in {"none", "failing"}
                        /\ g[d].eg = conn[d].eg /\ g[d].ew = conn[d].ew
      OBVIOUS
    <3>2. g[d] = [conn[d] EXCEPT !.link = Closed(@), !.ing = ends(@)]
      BY <2>1
    <3>3. conn[d] \in Record
      BY <1>0
    <3>4. g[d].ing = ends(conn[d].ing) /\ g[d].eg = conn[d].eg /\ g[d].ew = conn[d].ew
      BY <3>2, <3>3 DEF Record
    <3>5. QED
      BY <3>1, <3>4
  <2>2. CASE g = exited
    BY <1>0, <2>2 DEF Record
  <2>3. QED
    BY <1>2, <2>1, <2>2
<1> HIDE DEF returned, exited
<1>5. QED
  BY <1>2, <1>3, <1>4, ForgetIs DEF Unused, Fades

\* No connection gets any further, none enters or leaves a handshake of the
\* ingress, and the backlog keeps its streams.
LeftOne ==
    /\ conn' \in [Conns -> Record]
    /\ \A d \in Conns :
          /\ Fades(d)
          /\ conn'[d].ing \in {conn[d].ing, "none"}
          /\ conn'[d].ing = "hs" <=> conn[d].ing = "hs"
    /\ \A i \in DOMAIN backlog : conn'[backlog[i]].link # "none"

\* When one connection changes and neither side of it gets any further, no
\* other is in it for more, and the backlog keeps its streams.
LEMMA OneFades ==
    ASSUME TypeOK, BacklogIsLinked, NEW c \in Conns, NEW r \in Record, Set(c, r),
           r.ing \in {conn[c].ing, "none"}, conn[c].ing # "hs" \/ r.ing = "hs",
           r.eg \in {conn[c].eg, "none"}, r.ew = conn[c].ew,
           r.link = "none" => conn[c].link = "none"
    PROVE  LeftOne
<1> DEFINE g == [conn EXCEPT ![c] = r]
<1>1. conn \in [Conns -> Record] /\ \A i \in DOMAIN backlog : backlog[i] \in Conns
  BY DEF TypeOK, Record
<1>2. g \in [Conns -> Record] /\ conn' = Forget(g, backlog)
  BY <1>1 DEF Set
<1>3. \A d \in Conns : /\ g[d].ing \in {conn[d].ing, "none"}
                       /\ g[d].ing = "hs" <=> conn[d].ing = "hs"
                       /\ g[d].eg \in {conn[d].eg, "none"}
                       /\ g[d].ew = conn[d].ew
                       /\ g[d].link = "none" => conn[d].link = "none"
  BY <1>1
<1> HIDE DEF g
<1>4. \A d \in Conns :
         \/ conn'[d] = g[d]
         \/ /\ conn'[d] = Unused
            /\ g[d].ing = "none" /\ \A i \in DOMAIN backlog : backlog[i] # d
  BY <1>2, ForgetIs
<1>5. QED
  BY <1>1, <1>2, <1>3, <1>4, ForgetIs DEF Unused, Fades, BacklogIsLinked, LeftOne

\* Return, or the end of the process, of an egress.
LEMMA EgressLeaves ==
    ASSUME TypeOK, BacklogIsLinked, NEW c \in Conns, EgressReturn(c) \/ EgressExit(c)
    PROVE  LeftOne
<1> DEFINE r == [conn[c] EXCEPT !.link = Closed(@), !.eg = "none"]
<1>1. r \in Record /\ Set(c, r)
  BY DEF TypeOK, Record, Closed, EgressReturn, EgressExit
<1>2. /\ r.ing = conn[c].ing /\ r.eg = "none" /\ r.ew = conn[c].ew
      /\ r.link = "none" => conn[c].link = "none"
  BY DEF TypeOK, Closed
<1> HIDE DEF r
<1>3. QED
  BY <1>1, <1>2, OneFades

\* The end of a tunnel, as the ingress sees it.
LEMMA IngressLeaves ==
    ASSUME TypeOK, BacklogIsLinked, NEW c \in Conns, IngressDown(c)
    PROVE  LeftOne
<1> DEFINE r == [conn[c] EXCEPT !.ing = "none"]
<1>1. r \in Record /\ Set(c, r)
  BY DEF TypeOK, Record, IngressDown
<1>2. /\ r.ing = "none" /\ r.eg = conn[c].eg /\ r.ew = conn[c].ew
      /\ r.link = conn[c].link /\ conn[c].ing # "hs"
  BY DEF TypeOK, IngressDown
<1> HIDE DEF r
<1>3. QED
  BY <1>1, <1>2, OneFades

-----------------------------------------------------------------------------
(* Types, the accept loop and the backlog.                                 *)

Scalars ==
    /\ entry \in {"none", "pending", "live", "stale"}
    /\ loop \in {"idle", "accept"} \cup Conns
    /\ backlog \in Seq(Conns)
    /\ dead \subseteq Nodes
    /\ clock \in 1..MaxClock
    /\ refused \subseteq Egresses

Loops ==
    /\ backlog # <<>> => loop # "idle"
    /\ \A c \in Conns : conn[c].ing = "hs" <=> loop = c
    /\ \A i, j \in DOMAIN backlog : backlog[i] = backlog[j] => i = j
    /\ \A i \in DOMAIN backlog :
          conn[backlog[i]].ing = "none" /\ conn[backlog[i]].link # "none"

Linked == Scalars /\ conn \in [Conns -> Record] /\ Loops

\* The type invariant and BacklogIsLinked, taken apart.
LEMMA Parts == TypeOK /\ BacklogIsLinked <=> Linked
  BY DEF TypeOK, BacklogIsLinked, Linked, Scalars, Loops, Record

\* What is written to a connection is a message of the handshake or after it.
LEMMA WrittenType ==
    \A c \in Conns : \A m, n \in 0..2 : Written(c, m, n) \in 0..2
  BY DEF Written

\* A step that touches neither the loop nor the backlog, starts or ends no
\* handshake of the ingress and forgets no stream of the backlog, keeps them in
\* order.
LEMMA Steady ==
    ASSUME Loops, Scalars, UNCHANGED <<loop, backlog>>,
           Scalars', conn' \in [Conns -> Record],
           \A d \in Conns : conn'[d].ing = "hs" <=> conn[d].ing = "hs",
           \A d \in Conns : conn[d].ing = "none" => conn'[d].ing = "none",
           \A i \in DOMAIN backlog : conn'[backlog[i]].link # "none"
    PROVE  Linked'
  BY DEF Linked, Loops, Scalars

\* The loop shakes hands with the connection it has taken off the backlog, and
\* no connection is in the backlog twice.
LEMMA LinkedNext == Linked /\ [Next]_vars => Linked'
<1> SUFFICES ASSUME Scalars, conn \in [Conns -> Record], Loops, [Next]_vars
             PROVE  Linked'
  BY DEF Linked
<1> USE DEF Linked
<1>1. ASSUME Connect PROVE Linked'
  BY <1>1, NodeAssumption DEF Scalars, Loops, Connect
<1>2. ASSUME Accept PROVE Linked'
  <2> DEFINE h == Head(backlog)
  <2>1. /\ h \in Conns /\ h = backlog[1] /\ 1 \in DOMAIN backlog
        /\ Tail(backlog) \in Seq(Conns)
        /\ \A i \in DOMAIN Tail(backlog) :
              i + 1 \in DOMAIN backlog /\ Tail(backlog)[i] = backlog[i + 1]
        /\ \A i, j \in DOMAIN Tail(backlog) : i + 1 = j + 1 => i = j
        /\ \A i \in DOMAIN Tail(backlog) : i + 1 # 1
    BY <1>2 DEF Scalars, Accept
  <2> HIDE DEF h
  <2>2. /\ conn' = [conn EXCEPT ![h].ing = "hs", ![h].iw = Written(h, @, 1),
                                ![h].link = IF @ = "queued" THEN "open" ELSE @]
        /\ loop = "accept" /\ loop' = h /\ backlog' = Tail(backlog)
        /\ UNCHANGED <<entry, dead, clock, refused>>
    BY <1>2 DEF Accept, h
  <2>3. /\ conn' \in [Conns -> Record]
        /\ conn'[h].ing = "hs" /\ (conn[h].link # "none" => conn'[h].link # "none")
        /\ \A d \in Conns \ {h} : conn'[d] = conn[d]
    <3>1. Written(h, conn[h].iw, 1) \in 0..2
      BY <2>1, WrittenType DEF Record
    <3>2. PICK w \in 0..2, l \in {"open", conn[h].link} :
             conn' = [conn EXCEPT ![h].ing = "hs", ![h].iw = w, ![h].link = l]
      BY <2>1, <2>2, <3>1 DEF Record
    <3>3. l \in {"none", "queued", "open", "closed"}
      BY <2>1, <3>2 DEF Record
    <3>4. conn' \in [Conns -> Record]
      <4> DEFINE r == [conn[h] EXCEPT !.ing = "hs", !.iw = w, !.link = l]
      <4>1. r \in Record
        <5>1. conn[h] \in Record
          BY <2>1
        <5>2. QED
          BY <3>2, <3>3, <5>1 DEF Record
      <4>2. conn' = [conn EXCEPT ![h] = r]
        BY <2>1, <3>2 DEF Record
      <4> HIDE DEF r
      <4>3. QED
        BY <2>1, <4>1, <4>2
    <3>5. conn'[h].ing = "hs" /\ conn'[h].link = l
      BY <2>1, <3>2 DEF Record
    <3>6. \A d \in Conns \ {h} : conn'[d] = conn[d]
      BY <2>1, <3>2
    <3>7. QED
      BY <3>2, <3>4, <3>5, <3>6
  <2>4. Scalars'
    BY <2>1, <2>2 DEF Scalars
  <2>5. \A i \in DOMAIN backlog' : backlog'[i] \in Conns \ {h}
    BY <2>1, <2>2 DEF Loops, Scalars
  <2>6. QED
    BY <2>1, <2>2, <2>3, <2>4, <2>5, NodeAssumption DEF Scalars, Loops
<1>3. ASSUME SessionLost PROVE Linked'
  <2>1. /\ conn' \in [Conns -> Record]
        /\ \A d \in Conns : conn'[d].ing # "hs"
    <3>1. Return
      BY <1>3 DEF SessionLost
    <3>2. QED
      BY <3>1, AllFade, Parts
  <2>2. loop' = "idle" /\ entry' = entry /\ backlog' = <<>>
    BY <1>3 DEF Scalars, Loops, SessionLost, Return
  <2>3. /\ dead' \subseteq Nodes /\ clock' \in 1..MaxClock
        /\ refused' \subseteq Egresses
    BY <1>3, NodeAssumption DEF Scalars, Nodes, Refuse, SessionLost, Return
  <2>4. QED
    BY <2>1, <2>2, <2>3, NodeAssumption DEF Scalars, Loops
<1>4. ASSUME Deregister PROVE Linked'
  BY <1>4 DEF Scalars, Loops, Deregister
<1>5. ASSUME Tick PROVE Linked'
  BY <1>5, NodeAssumption DEF Scalars, Loops, Tick
<1>6. ASSUME NEW c \in Conns, HandshakeDone(c) PROVE Linked'
  <2>1. /\ conn' \in [Conns -> Record]
        /\ conn'[c].ing = "nego" /\ conn'[c].link = conn[c].link
        /\ \A d \in Conns \ {c} : conn'[d] = conn[d]
    BY <1>6 DEF Record, HandshakeDone
  <2>2. \A i \in DOMAIN backlog : backlog[i] # c
    BY <1>6 DEF Loops, HandshakeDone
  <2>3. Scalars' /\ loop = c /\ loop' = "accept" /\ UNCHANGED <<entry, backlog>>
    BY <1>6 DEF Scalars, HandshakeDone
  <2>4. \A d \in Conns : conn'[d].ing # "hs" /\ loop' # d
    BY <2>1, <2>3, NodeAssumption DEF Loops
  <2>5. \A i \in DOMAIN backlog : conn'[backlog[i]] = conn[backlog[i]]
    BY <2>1, <2>2 DEF Scalars
  <2>6. loop # "idle" /\ loop' # "idle"
    BY <2>3, NodeAssumption
  <2>7. Loops'
    BY <2>3, <2>4, <2>5, <2>6 DEF Loops
  <2>8. QED
    BY <2>1, <2>3, <2>7
<1>7. ASSUME NEW c \in Conns, HandshakeFails(c) PROVE Linked'
  <2>1. /\ conn' \in [Conns -> Record]
        /\ \A d \in Conns : conn'[d].ing # "hs"
    <3>1. Return
      BY <1>7 DEF HandshakeFails
    <3>2. QED
      BY <3>1, AllFade, Parts
  <2>2. loop' = "idle" /\ entry' = entry /\ backlog' = <<>>
    BY <1>7 DEF Scalars, Loops, HandshakeFails, Return
  <2>3. /\ dead' \subseteq Nodes /\ clock' \in 1..MaxClock
        /\ refused' \subseteq Egresses
    BY <1>7, NodeAssumption DEF Scalars, Nodes, Refuse, HandshakeFails, Return
  <2>4. QED
    BY <2>1, <2>2, <2>3, NodeAssumption DEF Scalars, Loops
<1>8. ASSUME NEW c \in Conns, Answer(c) PROVE Linked'
  <2>1. PICK w \in 0..2 : conn' = [conn EXCEPT ![c].ing = "ice", ![c].iw = w]
    <3>1. Written(c, conn[c].iw, 2) \in 0..2
      BY WrittenType DEF Record
    <3>2. QED
      BY <1>8, <3>1 DEF Record, Answer
  <2>2. conn' \in [Conns -> Record]
    BY <2>1 DEF Record
  <2>3. /\ \A d \in Conns : conn'[d].ing = "hs" <=> conn[d].ing = "hs"
        /\ \A d \in Conns : conn[d].ing = "none" => conn'[d].ing = "none"
        /\ \A d \in Conns : conn[d].link # "none" => conn'[d].link # "none"
    BY <1>8, <2>1 DEF Record, Answer
  <2>4. Scalars' /\ UNCHANGED <<entry, loop, backlog>>
    BY <1>8 DEF Scalars, Answer
  <2>5. QED
    BY <2>2, <2>3, <2>4, Steady DEF Scalars, Loops
<1>9. ASSUME NEW c \in Conns, IngressFatal(c) PROVE Linked'
  <2>1. /\ conn' \in [Conns -> Record]
        /\ \A d \in Conns : conn'[d].ing # "hs"
    <3>1. IngressExit
      BY <1>9 DEF IngressFatal
    <3>2. QED
      BY <3>1, AllFade, Parts
  <2>2. loop' = "idle" /\ entry' = entry /\ backlog' = <<>>
    BY <1>9 DEF Scalars, Loops, IngressFatal, IngressExit
  <2>3. /\ dead' \subseteq Nodes /\ clock' \in 1..MaxClock
        /\ refused' \subseteq Egresses
    BY <1>9, NodeAssumption
    DEF Scalars, Nodes, Refuse, IngressFatal, IngressExit
  <2>4. QED
    BY <2>1, <2>2, <2>3, NodeAssumption DEF Scalars, Loops
<1>10. ASSUME NEW c \in Conns, IngressUp(c) PROVE Linked'
  <2>1. /\ conn' \in [Conns -> Record]
        /\ \A d \in Conns : conn'[d].ing = "hs" <=> conn[d].ing = "hs"
        /\ \A d \in Conns : conn[d].ing = "none" => conn'[d].ing = "none"
        /\ \A d \in Conns : conn[d].link # "none" => conn'[d].link # "none"
    BY <1>10 DEF Record, IngressUp
  <2>2. Scalars' /\ UNCHANGED <<entry, loop, backlog>>
    BY <1>10 DEF Scalars, IngressUp
  <2>3. QED
    BY <2>1, <2>2, Steady DEF Scalars, Loops
<1>11. ASSUME NEW c \in Conns, IngressDown(c) PROVE Linked'
  <2>1. LeftOne
    BY <1>11, IngressLeaves, Parts
  <2>2. Scalars' /\ UNCHANGED <<entry, loop, backlog>>
    BY <1>11, NodeAssumption DEF Scalars, Refuse, Nodes, IngressDown, Set
  <2>3. QED
    BY <2>1, <2>2, Steady DEF LeftOne
<1>12. ASSUME NEW c \in Conns, Dial(c) PROVE Linked'
  <2>1. /\ conn' \in [Conns -> Record]
        /\ conn'[c].ing = "none" /\ conn'[c].link = "queued"
        /\ \A d \in Conns \ {c} : conn'[d] = conn[d]
        /\ conn[c].ing = "none" /\ conn[c].link = "none"
    BY <1>12 DEF Record, Dial, Unused
  <2>2. /\ backlog' = backlog \/ (loop # "idle" /\ backlog' = Append(backlog, c))
        /\ \A i \in DOMAIN backlog : backlog[i] # c
        /\ UNCHANGED <<entry, loop, dead, clock, refused>>
    BY <1>12, <2>1 DEF Loops, Dial
  <2>3. /\ backlog' \in Seq(Conns)
        /\ \A i \in DOMAIN backlog' :
              \/ i \in DOMAIN backlog /\ backlog'[i] = backlog[i]
              \/ i = Len(backlog) + 1 /\ backlog'[i] = c
    BY <2>2 DEF Scalars
  <2>4. Scalars'
    BY <2>2, <2>3 DEF Scalars
  <2>5. QED
    BY <2>1, <2>2, <2>3, <2>4 DEF Scalars, Loops
<1>13. ASSUME NEW c \in Conns, EgressHandshake(c) PROVE Linked'
  <2>1. PICK w \in 0..2 : conn' = [conn EXCEPT ![c].eg = "start", ![c].ew = w]
    <3>1. Written(c, conn[c].ew, 1) \in 0..2
      BY WrittenType DEF Record
    <3>2. QED
      BY <1>13, <3>1 DEF Record, EgressHandshake
  <2>2. conn' \in [Conns -> Record]
    BY <2>1 DEF Record
  <2>3. /\ \A d \in Conns : conn'[d].ing = "hs" <=> conn[d].ing = "hs"
        /\ \A d \in Conns : conn[d].ing = "none" => conn'[d].ing = "none"
        /\ \A d \in Conns : conn[d].link # "none" => conn'[d].link # "none"
    BY <1>13, <2>1 DEF Record, EgressHandshake
  <2>4. Scalars' /\ UNCHANGED <<entry, loop, backlog>>
    BY <1>13 DEF Scalars, EgressHandshake
  <2>5. QED
    BY <2>2, <2>3, <2>4, Steady DEF Scalars, Loops
<1>14. ASSUME NEW c \in Conns, EgressHandshakeFails(c) PROVE Linked'
  <2>1. LeftOne
    BY <1>14, EgressLeaves, Parts DEF EgressHandshakeFails
  <2>2. Scalars' /\ UNCHANGED <<entry, loop, backlog>>
    BY <1>14, NodeAssumption
    DEF Scalars, Refuse, Nodes, EgressHandshakeFails, EgressReturn, Set
  <2>3. QED
    BY <2>1, <2>2, Steady DEF LeftOne
<1>15. ASSUME NEW c \in Conns, Offer(c) PROVE Linked'
  <2>1. PICK w \in 0..2 : conn' = [conn EXCEPT ![c].eg = "nego", ![c].ew = w]
    <3>1. Written(c, conn[c].ew, 2) \in 0..2
      BY WrittenType DEF Record
    <3>2. QED
      BY <1>15, <3>1 DEF Record, Offer
  <2>2. conn' \in [Conns -> Record]
    BY <2>1 DEF Record
  <2>3. /\ \A d \in Conns : conn'[d].ing = "hs" <=> conn[d].ing = "hs"
        /\ \A d \in Conns : conn[d].ing = "none" => conn'[d].ing = "none"
        /\ \A d \in Conns : conn[d].link # "none" => conn'[d].link # "none"
    BY <1>15, <2>1 DEF Record, Offer
  <2>4. Scalars' /\ UNCHANGED <<entry, loop, backlog>>
    BY <1>15 DEF Scalars, Offer
  <2>5. QED
    BY <2>2, <2>3, <2>4, Steady DEF Scalars, Loops
<1>16. ASSUME NEW c \in Conns, Answered(c) PROVE Linked'
  <2>1. /\ conn' \in [Conns -> Record]
        /\ \A d \in Conns : conn'[d].ing = "hs" <=> conn[d].ing = "hs"
        /\ \A d \in Conns : conn[d].ing = "none" => conn'[d].ing = "none"
        /\ \A d \in Conns : conn[d].link # "none" => conn'[d].link # "none"
    BY <1>16 DEF Record, Answered
  <2>2. Scalars' /\ UNCHANGED <<entry, loop, backlog>>
    BY <1>16 DEF Scalars, Answered
  <2>3. QED
    BY <2>1, <2>2, Steady DEF Scalars, Loops
<1>17. ASSUME NEW c \in Conns, EgressFatal(c) PROVE Linked'
  <2>1. LeftOne
    BY <1>17, EgressLeaves, Parts DEF EgressFatal
  <2>2. Scalars' /\ UNCHANGED <<entry, loop, backlog>>
    BY <1>17, NodeAssumption
    DEF Scalars, Refuse, Nodes, EgressFatal, EgressExit, Set
  <2>3. QED
    BY <2>1, <2>2, Steady DEF LeftOne
<1>18. ASSUME NEW c \in Conns, EgressUp(c) PROVE Linked'
  <2>1. /\ conn' \in [Conns -> Record]
        /\ \A d \in Conns : conn'[d].ing = "hs" <=> conn[d].ing = "hs"
        /\ \A d \in Conns : conn[d].ing = "none" => conn'[d].ing = "none"
        /\ \A d \in Conns : conn[d].link # "none" => conn'[d].link # "none"
    BY <1>18 DEF Record, EgressUp
  <2>2. Scalars' /\ UNCHANGED <<entry, loop, backlog>>
    BY <1>18 DEF Scalars, EgressUp
  <2>3. QED
    BY <2>1, <2>2, Steady DEF Scalars, Loops
<1>19. ASSUME NEW c \in Conns, EgressDown(c) PROVE Linked'
  <2>1. LeftOne
    BY <1>19, EgressLeaves, Parts DEF EgressDown
  <2>2. Scalars' /\ UNCHANGED <<entry, loop, backlog>>
    BY <1>19, NodeAssumption
    DEF Scalars, Refuse, Nodes, EgressDown, EgressReturn, Set
  <2>3. QED
    BY <2>1, <2>2, Steady DEF LeftOne
<1>20. ASSUME NEW c \in Conns, Stop(c) PROVE Linked'
  <2>1. LeftOne
    BY <1>20, EgressLeaves, Parts DEF Stop
  <2>2. Scalars' /\ UNCHANGED <<entry, loop, backlog>>
    BY <1>20, NodeAssumption DEF Scalars, Refuse, Nodes, Stop, EgressExit, Set
  <2>3. QED
    BY <2>1, <2>2, Steady DEF LeftOne
<1>21. ASSUME NEW c \in Conns, RelayTimeout(c) PROVE Linked'
  <2>1. /\ conn' \in [Conns -> Record]
        /\ \A d \in Conns : conn'[d].ing = "hs" <=> conn[d].ing = "hs"
        /\ \A d \in Conns : conn[d].ing = "none" => conn'[d].ing = "none"
        /\ \A d \in Conns : conn[d].link # "none" => conn'[d].link # "none"
    BY <1>21 DEF Record, RelayTimeout
  <2>2. Scalars' /\ UNCHANGED <<entry, loop, backlog>>
    BY <1>21 DEF Scalars, RelayTimeout
  <2>3. QED
    BY <2>1, <2>2, Steady DEF Scalars, Loops
<1>22. CASE UNCHANGED vars
  BY <1>22 DEF Scalars, Loops, vars
<1>23. ASSUME Register PROVE Linked'
  BY <1>23 DEF Scalars, Loops, Register
<1>24. ASSUME SessionCloses PROVE Linked'
  <2>1. /\ conn' \in [Conns -> Record]
        /\ \A d \in Conns : conn'[d].ing = "hs" <=> conn[d].ing = "hs"
        /\ \A d \in Conns : conn[d].ing = "none" => conn'[d].ing = "none"
        /\ \A d \in Conns : conn[d].link # "none" => conn'[d].link # "none"
    BY <1>24 DEF Record, SessionCloses, Closed
  <2>2. Scalars' /\ UNCHANGED <<loop, backlog>>
    BY <1>24 DEF Scalars, SessionCloses
  <2>3. QED
    BY <2>1, <2>2, Steady DEF Scalars, Loops
<1>25. QED
  BY <1>1, <1>2, <1>3, <1>4, <1>5, <1>6, <1>7, <1>8, <1>9, <1>10, <1>11,
      <1>12, <1>13, <1>14, <1>15, <1>16, <1>17, <1>18, <1>19, <1>20, <1>21,
      <1>22, <1>23, <1>24 DEF Next, Handshake
-----------------------------------------------------------------------------
(* Who has verified whom.                                                  *)

EgressPast(d)  == conn[d].ew >= 1 \/ conn[d].eg \in {"start", "nego", "ice", "up"}
IngressPast(d) == conn[d].ing \in {"nego", "ice", "up"}

EgressVerifies(d)  == Opens[Owner[d]] /\ ValidatePeer(Owner[d], Ingress)
IngressVerifies(d) == EgressPast(d) /\ ValidatePeer(Ingress, Owner[d])

Verifying == EgressHasVerified /\ IngressHasVerified

\* What was verified once has been verified, whatever the clock does: only a
\* side that gets past its handshake has anything to show.
LEMMA TrustKept ==
    ASSUME Linked, Verifying, clock' \in {clock, clock + 1},
           \A d \in Conns : EgressPast(d)' => EgressPast(d) \/ EgressVerifies(d),
           \A d \in Conns : IngressPast(d)' => IngressPast(d) \/ IngressVerifies(d)
    PROVE  Verifying'
<1>1. clock \in Nat /\ clock \in 1..clock /\ 1..clock \subseteq 1..clock'
  BY NodeAssumption DEF Linked, Scalars
<1>2. \A n, m : ValidatePeer(n, m) => Trusted(n, m)
  BY <1>1 DEF ValidatePeer, Trusted
<1>3. \A n, m : Trusted(n, m) => Trusted(n, m)'
  BY <1>1 DEF Trusted
<1>4. \A d \in Conns : EgressPast(d) => Opens[Owner[d]] /\ Trusted(Owner[d], Ingress)
  BY DEF Verifying, EgressHasVerified, EgressPast
<1>5. \A d \in Conns : IngressPast(d) =>
         /\ Opens[Owner[d]]
         /\ Trusted(Owner[d], Ingress) /\ Trusted(Ingress, Owner[d])
  BY DEF Verifying, IngressHasVerified, IngressPast
<1>6. \A d \in Conns :
         EgressPast(d)' => Opens[Owner[d]] /\ Trusted(Owner[d], Ingress)'
  BY <1>2, <1>3, <1>4 DEF EgressVerifies
<1>7. \A d \in Conns : IngressPast(d)' =>
         /\ Opens[Owner[d]]
         /\ Trusted(Owner[d], Ingress)' /\ Trusted(Ingress, Owner[d])'
  BY <1>2, <1>3, <1>4, <1>5 DEF IngressVerifies
<1>8. QED
  BY <1>6, <1>7
  DEF Verifying, EgressHasVerified, IngressHasVerified, EgressPast, IngressPast

\* Every step that takes a side past its handshake verifies the other, and the
\* ingress waits for the second message, which only an egress past its own
\* handshake writes.
LEMMA VerifyingNext == Linked /\ Verifying /\ [Next]_vars => Verifying'
<1> SUFFICES ASSUME Linked, Verifying, [Next]_vars PROVE Verifying'
  OBVIOUS
<1>0. Scalars /\ conn \in [Conns -> Record] /\ Loops
  BY DEF Linked
<1> USE <1>0
<1>1. ASSUME Connect PROVE Verifying'
  BY <1>1, TrustKept DEF EgressPast, IngressPast, Connect
<1>2. ASSUME Accept PROVE Verifying'
  <2>1. \A d \in Conns : /\ EgressPast(d)' => EgressPast(d) \/ EgressVerifies(d)
                         /\ IngressPast(d)' => IngressPast(d) \/ IngressVerifies(d)
    BY <1>2
    DEF Record, EgressPast, IngressPast, EgressVerifies, IngressVerifies,
        Accept, Written
  <2>2. QED
    BY <1>2, <2>1, TrustKept DEF Accept
<1>3. ASSUME SessionLost PROVE Verifying'
  <2>1. \A d \in Conns : Fades(d)
    BY <1>3, AllFade, Parts DEF SessionLost
  <2>2. \A d \in Conns : /\ EgressPast(d)' => EgressPast(d)
                         /\ IngressPast(d)' => IngressPast(d)
    BY <2>1 DEF Fades, EgressPast, IngressPast
  <2>3. QED
    BY <1>3, <2>2, TrustKept DEF SessionLost, Return
<1>4. ASSUME Deregister PROVE Verifying'
  BY <1>4, TrustKept DEF EgressPast, IngressPast, Deregister
<1>5. ASSUME Tick PROVE Verifying'
  BY <1>5, TrustKept DEF EgressPast, IngressPast, Tick
<1>6. ASSUME NEW c \in Conns, HandshakeDone(c) PROVE Verifying'
  <2>1. \A d \in Conns : /\ EgressPast(d)' => EgressPast(d) \/ EgressVerifies(d)
                         /\ IngressPast(d)' => IngressPast(d) \/ IngressVerifies(d)
    BY <1>6
    DEF Record, EgressPast, IngressPast, EgressVerifies, IngressVerifies,
        HandshakeDone
  <2>2. QED
    BY <1>6, <2>1, TrustKept DEF HandshakeDone
<1>7. ASSUME NEW c \in Conns, HandshakeFails(c) PROVE Verifying'
  <2>1. \A d \in Conns : Fades(d)
    BY <1>7, AllFade, Parts DEF HandshakeFails
  <2>2. \A d \in Conns : /\ EgressPast(d)' => EgressPast(d)
                         /\ IngressPast(d)' => IngressPast(d)
    BY <2>1 DEF Fades, EgressPast, IngressPast
  <2>3. QED
    BY <1>7, <2>2, TrustKept DEF HandshakeFails, Return
<1>8. ASSUME NEW c \in Conns, Answer(c) PROVE Verifying'
  <2>1. \A d \in Conns : /\ EgressPast(d)' => EgressPast(d) \/ EgressVerifies(d)
                         /\ IngressPast(d)' => IngressPast(d) \/ IngressVerifies(d)
    BY <1>8
    DEF Record, EgressPast, IngressPast, EgressVerifies, IngressVerifies,
        Answer, Written
  <2>2. QED
    BY <1>8, <2>1, TrustKept DEF Answer
<1>9. ASSUME NEW c \in Conns, IngressFatal(c) PROVE Verifying'
  <2>1. \A d \in Conns : Fades(d)
    BY <1>9, AllFade, Parts DEF IngressFatal
  <2>2. \A d \in Conns : /\ EgressPast(d)' => EgressPast(d)
                         /\ IngressPast(d)' => IngressPast(d)
    BY <2>1 DEF Fades, EgressPast, IngressPast
  <2>3. QED
    BY <1>9, <2>2, TrustKept DEF IngressFatal, IngressExit
<1>10. ASSUME NEW c \in Conns, IngressUp(c) PROVE Verifying'
  <2>1. \A d \in Conns : /\ EgressPast(d)' => EgressPast(d) \/ EgressVerifies(d)
                         /\ IngressPast(d)' => IngressPast(d) \/ IngressVerifies(d)
    BY <1>10
    DEF Record, EgressPast, IngressPast, EgressVerifies, IngressVerifies,
        IngressUp
  <2>2. QED
    BY <1>10, <2>1, TrustKept DEF IngressUp
<1>11. ASSUME NEW c \in Conns, IngressDown(c) PROVE Verifying'
  <2>1. \A d \in Conns : Fades(d)
    BY <1>11, IngressLeaves, Parts DEF LeftOne
  <2>2. \A d \in Conns : /\ EgressPast(d)' => EgressPast(d)
                         /\ IngressPast(d)' => IngressPast(d)
    BY <2>1 DEF Fades, EgressPast, IngressPast
  <2>3. QED
    BY <1>11, <2>2, TrustKept DEF IngressDown, Set
<1>12. ASSUME NEW c \in Conns, Dial(c) PROVE Verifying'
  <2>1. \A d \in Conns : /\ EgressPast(d)' => EgressPast(d) \/ EgressVerifies(d)
                         /\ IngressPast(d)' => IngressPast(d) \/ IngressVerifies(d)
    BY <1>12
    DEF Record, EgressPast, IngressPast, EgressVerifies, IngressVerifies,
        Dial
  <2>2. QED
    BY <1>12, <2>1, TrustKept DEF Dial
<1>13. ASSUME NEW c \in Conns, EgressHandshake(c) PROVE Verifying'
  <2>1. \A d \in Conns : /\ EgressPast(d)' => EgressPast(d) \/ EgressVerifies(d)
                         /\ IngressPast(d)' => IngressPast(d) \/ IngressVerifies(d)
    BY <1>13
    DEF Record, EgressPast, IngressPast, EgressVerifies, IngressVerifies,
        EgressHandshake, Written
  <2>2. QED
    BY <1>13, <2>1, TrustKept DEF EgressHandshake
<1>14. ASSUME NEW c \in Conns, EgressHandshakeFails(c) PROVE Verifying'
  <2>1. \A d \in Conns : Fades(d)
    BY <1>14, EgressLeaves, Parts DEF LeftOne, EgressHandshakeFails
  <2>2. \A d \in Conns : /\ EgressPast(d)' => EgressPast(d)
                         /\ IngressPast(d)' => IngressPast(d)
    BY <2>1 DEF Fades, EgressPast, IngressPast
  <2>3. QED
    BY <1>14, <2>2, TrustKept DEF EgressHandshakeFails, EgressReturn, Set
<1>15. ASSUME NEW c \in Conns, Offer(c) PROVE Verifying'
  <2>1. \A d \in Conns : /\ EgressPast(d)' => EgressPast(d) \/ EgressVerifies(d)
                         /\ IngressPast(d)' => IngressPast(d) \/ IngressVerifies(d)
    BY <1>15
    DEF Record, EgressPast, IngressPast, EgressVerifies, IngressVerifies,
        Offer, Written
  <2>2. QED
    BY <1>15, <2>1, TrustKept DEF Offer
<1>16. ASSUME NEW c \in Conns, Answered(c) PROVE Verifying'
  <2>1. \A d \in Conns : /\ EgressPast(d)' => EgressPast(d) \/ EgressVerifies(d)
                         /\ IngressPast(d)' => IngressPast(d) \/ IngressVerifies(d)
    BY <1>16
    DEF Record, EgressPast, IngressPast, EgressVerifies, IngressVerifies,
        Answered
  <2>2. QED
    BY <1>16, <2>1, TrustKept DEF Answered
<1>17. ASSUME NEW c \in Conns, EgressFatal(c) PROVE Verifying'
  <2>1. \A d \in Conns : Fades(d)
    BY <1>17, EgressLeaves, Parts DEF LeftOne, EgressFatal
  <2>2. \A d \in Conns : /\ EgressPast(d)' => EgressPast(d)
                         /\ IngressPast(d)' => IngressPast(d)
    BY <2>1 DEF Fades, EgressPast, IngressPast
  <2>3. QED
    BY <1>17, <2>2, TrustKept DEF EgressFatal, EgressExit, Set
<1>18. ASSUME NEW c \in Conns, EgressUp(c) PROVE Verifying'
  <2>1. \A d \in Conns : /\ EgressPast(d)' => EgressPast(d) \/ EgressVerifies(d)
                         /\ IngressPast(d)' => IngressPast(d) \/ IngressVerifies(d)
    BY <1>18
    DEF Record, EgressPast, IngressPast, EgressVerifies, IngressVerifies,
        EgressUp
  <2>2. QED
    BY <1>18, <2>1, TrustKept DEF EgressUp
<1>19. ASSUME NEW c \in Conns, EgressDown(c) PROVE Verifying'
  <2>1. \A d \in Conns : Fades(d)
    BY <1>19, EgressLeaves, Parts DEF LeftOne, EgressDown
  <2>2. \A d \in Conns : /\ EgressPast(d)' => EgressPast(d)
                         /\ IngressPast(d)' => IngressPast(d)
    BY <2>1 DEF Fades, EgressPast, IngressPast
  <2>3. QED
    BY <1>19, <2>2, TrustKept DEF EgressDown, EgressReturn, Set
<1>20. ASSUME NEW c \in Conns, Stop(c) PROVE Verifying'
  <2>1. \A d \in Conns : Fades(d)
    BY <1>20, EgressLeaves, Parts DEF LeftOne, Stop
  <2>2. \A d \in Conns : /\ EgressPast(d)' => EgressPast(d)
                         /\ IngressPast(d)' => IngressPast(d)
    BY <2>1 DEF Fades, EgressPast, IngressPast
  <2>3. QED
    BY <1>20, <2>2, TrustKept DEF Stop, EgressExit, Set
<1>21. ASSUME NEW c \in Conns, RelayTimeout(c) PROVE Verifying'
  <2>1. \A d \in Conns : /\ EgressPast(d)' => EgressPast(d) \/ EgressVerifies(d)
                         /\ IngressPast(d)' => IngressPast(d) \/ IngressVerifies(d)
    BY <1>21
    DEF Record, EgressPast, IngressPast, EgressVerifies, IngressVerifies,
        RelayTimeout
  <2>2. QED
    BY <1>21, <2>1, TrustKept DEF RelayTimeout
<1>22. CASE UNCHANGED vars
  BY <1>22 DEF Verifying, EgressHasVerified, IngressHasVerified, Trusted, vars
<1>23. ASSUME Register PROVE Verifying'
  BY <1>23, TrustKept DEF EgressPast, IngressPast, Register
<1>24. ASSUME SessionCloses PROVE Verifying'
  <2>1. \A d \in Conns : /\ EgressPast(d)' => EgressPast(d) \/ EgressVerifies(d)
                         /\ IngressPast(d)' => IngressPast(d) \/ IngressVerifies(d)
    BY <1>24
    DEF Record, EgressPast, IngressPast, EgressVerifies, IngressVerifies,
        SessionCloses
  <2>2. QED
    BY <1>24, <2>1, TrustKept DEF SessionCloses
<1>25. QED
  BY <1>1, <1>2, <1>3, <1>4, <1>5, <1>6, <1>7, <1>8, <1>9, <1>10, <1>11,
      <1>12, <1>13, <1>14, <1>15, <1>16, <1>17, <1>18, <1>19, <1>20, <1>21,
      <1>22, <1>23, <1>24 DEF Next, Handshake

\* A handshake that turns a trusted egress away does so because its message did
\* not open, which happens across CAs only.
LEMMA RefusedNext == RefusedOnlyAcrossCAs /\ [Next]_vars => RefusedOnlyAcrossCAs'
<1> SUFFICES ASSUME RefusedOnlyAcrossCAs, [Next]_vars PROVE RefusedOnlyAcrossCAs'
  OBVIOUS
<1>1. ASSUME Connect PROVE RefusedOnlyAcrossCAs'
  BY <1>1 DEF RefusedOnlyAcrossCAs, Connect
<1>2. ASSUME Accept PROVE RefusedOnlyAcrossCAs'
  BY <1>2 DEF RefusedOnlyAcrossCAs, Accept, Written
<1>3. ASSUME SessionLost PROVE RefusedOnlyAcrossCAs'
  BY <1>3 DEF RefusedOnlyAcrossCAs, SessionLost, Return
<1>4. ASSUME Deregister PROVE RefusedOnlyAcrossCAs'
  BY <1>4 DEF RefusedOnlyAcrossCAs, Deregister
<1>5. ASSUME Tick PROVE RefusedOnlyAcrossCAs'
  BY <1>5 DEF RefusedOnlyAcrossCAs, Tick
<1>6. ASSUME NEW c \in Conns, HandshakeDone(c) PROVE RefusedOnlyAcrossCAs'
  BY <1>6 DEF RefusedOnlyAcrossCAs, HandshakeDone
<1>7. ASSUME NEW c \in Conns, HandshakeFails(c) PROVE RefusedOnlyAcrossCAs'
  <2>1. refused' = refused
    BY <1>7 DEF HandshakeFails, Refuse, Trusting
  <2>2. QED
    BY <2>1 DEF RefusedOnlyAcrossCAs
<1>8. ASSUME NEW c \in Conns, Answer(c) PROVE RefusedOnlyAcrossCAs'
  BY <1>8 DEF RefusedOnlyAcrossCAs, Answer, Written
<1>9. ASSUME NEW c \in Conns, IngressFatal(c) PROVE RefusedOnlyAcrossCAs'
  BY <1>9 DEF RefusedOnlyAcrossCAs, IngressFatal, IngressExit
<1>10. ASSUME NEW c \in Conns, IngressUp(c) PROVE RefusedOnlyAcrossCAs'
  BY <1>10 DEF RefusedOnlyAcrossCAs, IngressUp
<1>11. ASSUME NEW c \in Conns, IngressDown(c) PROVE RefusedOnlyAcrossCAs'
  BY <1>11 DEF RefusedOnlyAcrossCAs, IngressDown, Set
<1>12. ASSUME NEW c \in Conns, Dial(c) PROVE RefusedOnlyAcrossCAs'
  BY <1>12 DEF RefusedOnlyAcrossCAs, Dial
<1>13. ASSUME NEW c \in Conns, EgressHandshake(c) PROVE RefusedOnlyAcrossCAs'
  BY <1>13 DEF RefusedOnlyAcrossCAs, EgressHandshake, Written
<1>14. ASSUME NEW c \in Conns, EgressHandshakeFails(c) PROVE RefusedOnlyAcrossCAs'
  <2>1. \/ refused' = refused
        \/ refused' = refused \cup {Owner[c]} /\ ~Opens[Owner[c]]
    <3>1. CASE UNCHANGED refused
      BY <3>1
    <3>2. CASE ~(Opens[Owner[c]] /\ ValidatePeer(Owner[c], Ingress)) /\ Refuse(Owner[c])
      <4>1. CASE ~Trusting(Owner[c])
        BY <3>2, <4>1 DEF Refuse
      <4>2. CASE Trusting(Owner[c])
        <5>1. ValidatePeer(Owner[c], Ingress) /\ refused' = refused \cup {Owner[c]}
          BY <3>2, <4>2 DEF Refuse, Trusting
        <5>2. QED
          BY <3>2, <5>1
      <4>3. QED
        BY <4>1, <4>2
    <3>3. QED
      BY <1>14, <3>1, <3>2 DEF EgressHandshakeFails
  <2>2. CASE refused' = refused
    BY <2>2 DEF RefusedOnlyAcrossCAs
  <2>3. CASE refused' = refused \cup {Owner[c]} /\ ~Opens[Owner[c]]
    <3>1. Owner[c] \in Egresses
      BY NodeAssumption
    <3>2. Cert[Owner[c]].details.issuer # Cert[Ingress].details.issuer
      BY <2>3, <3>1, OpensForSameIssuer
    <3>3. QED
      BY <2>3, <3>2 DEF RefusedOnlyAcrossCAs
  <2>4. QED
    BY <2>1, <2>2, <2>3
<1>15. ASSUME NEW c \in Conns, Offer(c) PROVE RefusedOnlyAcrossCAs'
  BY <1>15 DEF RefusedOnlyAcrossCAs, Offer, Written
<1>16. ASSUME NEW c \in Conns, Answered(c) PROVE RefusedOnlyAcrossCAs'
  BY <1>16 DEF RefusedOnlyAcrossCAs, Answered
<1>17. ASSUME NEW c \in Conns, EgressFatal(c) PROVE RefusedOnlyAcrossCAs'
  BY <1>17 DEF RefusedOnlyAcrossCAs, EgressFatal, EgressExit, Set
<1>18. ASSUME NEW c \in Conns, EgressUp(c) PROVE RefusedOnlyAcrossCAs'
  BY <1>18 DEF RefusedOnlyAcrossCAs, EgressUp
<1>19. ASSUME NEW c \in Conns, EgressDown(c) PROVE RefusedOnlyAcrossCAs'
  BY <1>19 DEF RefusedOnlyAcrossCAs, EgressDown, EgressReturn, Set
<1>20. ASSUME NEW c \in Conns, Stop(c) PROVE RefusedOnlyAcrossCAs'
  BY <1>20 DEF RefusedOnlyAcrossCAs, Stop, EgressExit, Set
<1>21. ASSUME NEW c \in Conns, RelayTimeout(c) PROVE RefusedOnlyAcrossCAs'
  BY <1>21 DEF RefusedOnlyAcrossCAs, RelayTimeout
<1>22. CASE UNCHANGED vars
  BY <1>22 DEF RefusedOnlyAcrossCAs, vars
<1>23. ASSUME Register PROVE RefusedOnlyAcrossCAs'
  BY <1>23 DEF RefusedOnlyAcrossCAs, Register
<1>24. ASSUME SessionCloses PROVE RefusedOnlyAcrossCAs'
  BY <1>24 DEF RefusedOnlyAcrossCAs, SessionCloses
<1>25. QED
  BY <1>1, <1>2, <1>3, <1>4, <1>5, <1>6, <1>7, <1>8, <1>9, <1>10, <1>11,
      <1>12, <1>13, <1>14, <1>15, <1>16, <1>17, <1>18, <1>19, <1>20, <1>21,
      <1>22, <1>23, <1>24 DEF Next, Handshake

-----------------------------------------------------------------------------
\* The inductive invariant of a node and its peers holds for any certificates
\* and pools and any number of connections.
THEOREM Inductive == Spec => []IInv
<1>1. Init => IInv
  <2> SUFFICES ASSUME Init PROVE IInv
    OBVIOUS
  <2>1. TypeOK /\ BacklogIsLinked
    <3>1. Unused \in Record
      BY DEF Unused, Record
    <3>2. Linked
      BY <3>1, NodeAssumption DEF Init, Linked, Scalars, Loops, Unused
    <3>3. QED
      BY <3>2, Parts
  <2>2. EgressHasVerified /\ IngressHasVerified /\ RefusedOnlyAcrossCAs
    BY DEF Init, Unused, EgressHasVerified, IngressHasVerified, RefusedOnlyAcrossCAs
  <2>3. QED
    BY <2>1, <2>2 DEF IInv
<1>2. IInv /\ [Next]_vars => IInv'
  <2> SUFFICES ASSUME IInv, [Next]_vars PROVE IInv'
    OBVIOUS
  <2>1. Linked /\ Verifying /\ RefusedOnlyAcrossCAs
    BY Parts DEF IInv, Verifying
  <2>2. Linked'
    BY <2>1, LinkedNext
  <2>3. TypeOK' /\ BacklogIsLinked'
    BY <2>2, Parts, PTL
  <2>4. Verifying' /\ RefusedOnlyAcrossCAs'
    BY <2>1, VerifyingNext, RefusedNext
  <2>5. QED
    BY <2>3, <2>4 DEF IInv, Verifying
<1>3. QED
  BY <1>1, <1>2, PTL DEF Spec

\* Every variable stays within its domain, no stream waits for a loop that has
\* left its session, whichever side of it notices first, the loop shakes hands
\* with the connection it holds, and no stream is in the backlog twice, or there
\* and accepted.
THEOREM TypeCorrect == Spec => []TypeOK
<1>1. IInv => TypeOK
  BY DEF IInv
<1>2. QED
  BY Inductive, <1>1, PTL

\* The ingress begins no negotiation, and has no tunnel, with an egress unless
\* each of the two has verified the other's certificate.
THEOREM Trust == Spec => []MutuallyTrusted
<1>1. IInv => MutuallyTrusted
  BY DEF IInv, IngressHasVerified, MutuallyTrusted
<1>2. QED
  BY Inductive, <1>1, PTL

\* Two nodes whose certificates are of one CA are never kept apart by the
\* pre-shared keys.
THEOREM OnlyAcrossCAs == Spec => []RefusedOnlyAcrossCAs
<1>1. IInv => RefusedOnlyAcrossCAs
  BY DEF IInv
<1>2. QED
  BY Inductive, <1>1, PTL

\* No negotiation is begun with a node of another CA, although the pools of both
\* may hold both CAs and each may trust the certificate of the other.
THEOREM WithinOneCA ==
    Spec => [](\A c \in Conns :
                  conn[c].ing \in {"nego", "ice", "up"} =>
                     CAOf(Owner[c]).signature = CAOf(Ingress).signature)
<1>1. IInv => \A c \in Conns :
                 conn[c].ing \in {"nego", "ice", "up"} =>
                    CAOf(Owner[c]).signature = CAOf(Ingress).signature
  BY OpensWithinOneCA, NodeAssumption DEF IInv, IngressHasVerified
<1>2. QED
  BY Inductive, <1>1, PTL
================================================================================
