----------------------------- MODULE Tunnel_proofs -----------------------------
(***************************************************************************)
(* Proofs about Tunnel, for any endpoints, any whitelist and any number of *)
(* client connections.                                                     *)
(***************************************************************************)
EXTENDS Tunnel, SequenceTheorems, TLAPS

(* Endpoints. *)

Addresses == {a \in Seq(STRING) : Address(a)}

\* Two addresses put together can be taken apart again.
LEMMA TwoAndTwo ==
    ASSUME NEW S, NEW l \in Seq(S), NEW r \in Seq(S), Len(l) = 2, Len(r) = 2
    PROVE  Len(l \o r) = 4 /\ SubSeq(l \o r, 1, 2) = l /\ SubSeq(l \o r, 3, 4) = r
<1>1. l \o r \in Seq(S) /\ Len(l \o r) = 4
  <2>1. l \o r \in Seq(S) /\ Len(l \o r) = Len(l) + Len(r)
    BY ConcatProperties
  <2>2. QED
    BY <2>1
<1>2. SubSeq(l \o r, 1, 2) = l
  BY <1>1
<1>3. SubSeq(l \o r, 3, 4) = r
  BY <1>1
<1>4. QED
  BY <1>1, <1>2, <1>3

\* The label of a tunnel is four parts, the last two of which are the remote
\* address.
LEMMA LabelParts ==
    ASSUME NEW t \in Tunnels
    PROVE  /\ Len(Label(t)) = 4
           /\ EndpointFromString(Label(t)).local = endpoints[t].local
           /\ EndpointFromString(Label(t)).remote = endpoints[t].remote
<1> DEFINE l == endpoints[t].local
           r == endpoints[t].remote
<1>1. l \in Addresses /\ r \in Addresses
  <2> DEFINE E == [local : Addresses, remote : Addresses]
  <2>1. endpoints \in Seq(E)
    BY TunnelAssumption DEF Addresses
  <2> HIDE DEF E
  <2>2. endpoints[t] \in E
    BY <2>1 DEF Tunnels
  <2>3. QED
    BY <2>2 DEF E
<1> HIDE DEF l, r
<1>2. l \in Seq(STRING) /\ r \in Seq(STRING) /\ Len(l) = 2 /\ Len(r) = 2
  BY <1>1 DEF Addresses, Address
<1>3. Label(t) = l \o r
  BY DEF Label, String, l, r
<1>4. Len(l \o r) = 4 /\ SubSeq(l \o r, 1, 2) = l /\ SubSeq(l \o r, 3, 4) = r
  BY <1>2, TwoAndTwo
<1>5. QED
  BY <1>3, <1>4 DEF EndpointFromString, l, r

\* What the whitelist looks at is the remote address of the endpoint, although
\* it is given the whole label; and what createTunnel dials, the label itself,
\* is nothing net.Dial takes, whatever the endpoint.
THEOREM LabelRoundTrip ==
    ASSUME NEW t \in Tunnels
    PROVE  /\ Authorized(Label(t)) <=> Wildcard \/ endpoints[t].remote \in Allows
           /\ ~Dialable(Label(t))
  BY LabelParts DEF Authorized, IsEndpoint, Dialable

-----------------------------------------------------------------------------
(* The inductive invariant. *)

\* The watcher has cancelled the context before it closes the listener.
WatcherCancelled ==
    \A t \in Tunnels : watcher[t] \in {"cancelled", "done"} => ectx[t]

\* Only authorized data channels get past OnDataChannel.
ServedIsAuthorized ==
    \A t \in Tunnels :
        itun[t] \in {"detach", "head", "accept", "dial", "ended"} => Authorized(Label(t))

\* A connection an accept loop of the egress holds came in by its tunnel and has
\* no stream yet; one an accept loop of the ingress works on came in by the same
\* tunnel; a connection that nobody has made has no stream.
StreamsBound ==
    /\ \A t \in Tunnels :
          held[t] # None =>
            stream[held[t]] = "none" /\ conn[held[t]] = "held" /\ via[held[t]] = t
    /\ \A t \in Tunnels :
          istream[t] # None => stream[istream[t]] = "held" /\ via[istream[t]] = t
    /\ \A c \in Conns : conn[c] = "none" => stream[c] = "none"

\* Where startTunnel has ended, or not begun, nothing is open.
EndedIsQuiet ==
    /\ \A t \in Tunnels :
          etun[t] \in {"none", "ended"} =>
            listener[t] # "open" /\ dc[t] \notin {"connecting", "open"}
    /\ main = "returned" => \A t \in Tunnels : etun[t] \in {"none", "ended"}

\* startTunnel runs for no endpoint that startTunnels has not come to.
NotBegun == \A t \in Tunnels : t >= next => etun[t] = "none"

\* The inductive invariant.
IInv ==
    /\ TypeOK
    /\ ClosedListenerIsCancelled
    /\ WatcherCancelled
    /\ OnlyAuthorizedServed
    /\ ServedIsAuthorized
    /\ StreamsBound
    /\ EndedIsQuiet
    /\ NotBegun

-----------------------------------------------------------------------------
\* Nothing is open at the start.
LEMMA InitIInv == Init => IInv
<1> SUFFICES ASSUME Init PROVE IInv
  OBVIOUS
<1>1. TypeOK
  <2>1. Len(endpoints) \in Nat
    BY TunnelAssumption
  <2>2. next \in 1..(Len(endpoints) + 1)
    BY <2>1 DEF Init
  <2>3. {sctxE, sctxI, ctx} \subseteq BOOLEAN
    BY DEF Init
  <2>4. QED
    BY <2>2, <2>3 DEF Init, TypeOK
<1>2. QED
  BY <1>1, TunnelAssumption
  DEF Init, IInv, ClosedListenerIsCancelled, WatcherCancelled, OnlyAuthorizedServed,
      ServedIsAuthorized, StreamsBound, EndedIsQuiet, NotBegun

\* A step keeps every variable in its domain.
LEMMA TypeNext == TypeOK /\ NotBegun /\ [Next]_vars => TypeOK'
<1> SUFFICES ASSUME TypeOK, NotBegun, [Next]_vars PROVE TypeOK'
  OBVIOUS
<1> USE TunnelAssumption
<1>1. ASSUME CreateTunnel PROVE TypeOK'
  <2>1. Len(endpoints) \in Nat
    OBVIOUS
  <2>2. next' \in 1..(Len(endpoints) + 1)
    BY <1>1, <2>1 DEF CreateTunnel, Tunnels
  <2>3. /\ dc' \in [Tunnels -> {"none", "connecting", "open", "closed"}]
        /\ etun' \in [Tunnels -> {"none", "detach", "listen", "head", "accept",
                                  "open", "ended"}]
    BY <1>1 DEF TypeOK, CreateTunnel
  <2>4. \A u \in Tunnels : held'[u] # None <=> etun'[u] = "open"
    <3>1. held[next] = None
      BY <1>1 DEF TypeOK, CreateTunnel, NotBegun, Tunnels
    <3>2. QED
      BY <1>1, <3>1 DEF TypeOK, CreateTunnel
  <2>5. QED
    BY <1>1, <2>2, <2>3, <2>4
    DEF TypeOK, CreateTunnel, mainVars, egressVars, connVars, ingressVars
<1>2. ASSUME CreateTunnelFails PROVE TypeOK'
  BY <1>2
  DEF TypeOK, CreateTunnelFails, mainVars, egressVars, connVars, ingressVars
<1>3. ASSUME CreateDone PROVE TypeOK'
  BY <1>3 DEF TypeOK, CreateDone, mainVars, egressVars, connVars, ingressVars
<1>4. ASSUME Return PROVE TypeOK'
  BY <1>4 DEF TypeOK, Return, mainVars, egressVars, connVars, ingressVars
<1>5. ASSUME SctxDone PROVE TypeOK'
  BY <1>5 DEF TypeOK, SctxDone, mainVars, egressVars, connVars, ingressVars
<1>6. ASSUME NEW t \in Tunnels, DetachE(t) PROVE TypeOK'
  BY <1>6
  DEF TypeOK, DetachE, GotoE, mainVars, egressVars, connVars, ingressVars
<1>7. ASSUME NEW t \in Tunnels, DetachFailsE(t) PROVE TypeOK'
  BY <1>7
  DEF TypeOK, DetachFailsE, GotoE, Unwind, CtxDone, mainVars, egressVars,
      connVars, ingressVars
<1>8. ASSUME NEW t \in Tunnels, Listen(t) PROVE TypeOK'
  BY <1>8 DEF TypeOK, Listen, GotoE, mainVars, egressVars, connVars, ingressVars
<1>9. ASSUME NEW t \in Tunnels, ListenFails(t) PROVE TypeOK'
  BY <1>9
  DEF TypeOK, ListenFails, GotoE, Unwind, mainVars, egressVars, connVars,
      ingressVars
<1>10. ASSUME NEW t \in Tunnels, LoopE(t) PROVE TypeOK'
  <2>1. /\ dc' \in [Tunnels -> {"none", "connecting", "open", "closed"}]
        /\ etun' \in [Tunnels -> {"none", "detach", "listen", "head", "accept",
                                  "open", "ended"}]
        /\ ectx' \in [Tunnels -> BOOLEAN]
        /\ esession' \in [Tunnels -> {"none", "open", "closed"}]
        /\ listener' \in [Tunnels -> {"none", "open", "closed"}]
    <3>1. CASE CtxDone(t)
      <4>1. GotoE(t, "head", "ended") /\ Unwind(t)
        BY <1>10, <3>1 DEF LoopE
      <4>2. QED
        BY <4>1 DEF TypeOK, GotoE, Unwind
    <3>2. CASE ~CtxDone(t)
      <4>1. GotoE(t, "head", "accept") /\ UNCHANGED <<dc, ectx, esession, listener>>
        BY <1>10, <3>2 DEF LoopE
      <4>2. QED
        BY <4>1 DEF TypeOK, GotoE
    <3>3. QED
      BY <3>1, <3>2
  <2>2. \A u \in Tunnels : held'[u] # None <=> etun'[u] = "open"
    BY <1>10 DEF TypeOK, LoopE, GotoE
  <2>3. QED
    BY <1>10, <2>1, <2>2 DEF TypeOK, LoopE, mainVars, connVars, ingressVars
<1>11. ASSUME NEW t \in Tunnels, AcceptFails(t) PROVE TypeOK'
  BY <1>11
  DEF TypeOK, AcceptFails, GotoE, mainVars, egressVars, connVars, ingressVars
<1>12. ASSUME NEW t \in Tunnels, OpenStream(t) PROVE TypeOK'
  <2>1. held[t] \in Conns
    BY <1>12 DEF TypeOK, OpenStream, GotoE
  <2>2. /\ etun' \in [Tunnels -> {"none", "detach", "listen", "head", "accept",
                                  "open", "ended"}]
        /\ held' \in [Tunnels -> Conns \cup {None}]
        /\ conn' \in [Conns -> {"none", "held", "relay", "leaked", "closed"}]
        /\ stream' \in [Conns -> {"none", "queued", "held", "relay", "leaked"}]
    <3>1. CASE esession[t] = "open"
      <4>1. /\ etun' = [etun EXCEPT ![t] = "head"]
            /\ held' = [held EXCEPT ![t] = None]
            /\ conn' = [conn EXCEPT ![held[t]] = "relay"]
            /\ stream' = [stream EXCEPT ![held[t]] = "queued"]
        BY <1>12, <3>1 DEF OpenStream, GotoE
      <4>2. QED
        BY <2>1, <4>1 DEF TypeOK
    <3>2. CASE ~(esession[t] = "open")
      <4>1. /\ etun' = [etun EXCEPT ![t] = "head"]
            /\ held' = [held EXCEPT ![t] = None]
            /\ conn' = [conn EXCEPT ![held[t]] = "leaked"]
            /\ UNCHANGED stream
        BY <1>12, <3>2 DEF OpenStream, GotoE
      <4>2. QED
        BY <2>1, <4>1 DEF TypeOK
    <3>3. QED
      BY <3>1, <3>2
  <2>3. \A u \in Tunnels : held'[u] # None <=> etun'[u] = "open"
    BY <1>12 DEF TypeOK, OpenStream, GotoE
  <2>4. QED
    BY <1>12, <2>2, <2>3 DEF TypeOK, OpenStream, mainVars, ingressVars
<1>13. ASSUME NEW t \in Tunnels, WatchCancels(t) PROVE TypeOK'
  BY <1>13 DEF TypeOK, WatchCancels, mainVars, egressVars, connVars, ingressVars
<1>14. ASSUME NEW t \in Tunnels, WatchClosesListener(t) PROVE TypeOK'
  BY <1>14
  DEF TypeOK, WatchClosesListener, mainVars, egressVars, connVars, ingressVars
<1>15. ASSUME NEW t \in Tunnels, OnDataChannel(t) PROVE TypeOK'
  <2>1. /\ dc' \in [Tunnels -> {"none", "connecting", "open", "closed"}]
        /\ itun' \in [Tunnels -> {"none", "ignored", "refused", "detach", "head",
                                  "accept", "dial", "ended"}]
    BY <1>15 DEF TypeOK, OnDataChannel, GotoI
  <2>2. \A u \in Tunnels : istream'[u] # None <=> itun'[u] = "dial"
    BY <1>15 DEF TypeOK, OnDataChannel, GotoI
  <2>3. QED
    BY <1>15, <2>1, <2>2
    DEF TypeOK, OnDataChannel, mainVars, egressVars, connVars
<1>16. ASSUME NEW t \in Tunnels, DetachI(t) PROVE TypeOK'
  BY <1>16
  DEF TypeOK, DetachI, GotoI, mainVars, egressVars, connVars, ingressVars
<1>17. ASSUME NEW t \in Tunnels, DetachFailsI(t) PROVE TypeOK'
  BY <1>17
  DEF TypeOK, DetachFailsI, GotoI, mainVars, egressVars, connVars, ingressVars
<1>18. ASSUME NEW t \in Tunnels, LoopI(t) PROVE TypeOK'
  <2>1. /\ dc' \in [Tunnels -> {"none", "connecting", "open", "closed"}]
        /\ itun' \in [Tunnels -> {"none", "ignored", "refused", "detach", "head",
                                  "accept", "dial", "ended"}]
        /\ isession' \in [Tunnels -> {"none", "open", "closed"}]
    <3>1. CASE sctxI
      <4>1. /\ itun' = [itun EXCEPT ![t] = "ended"]
            /\ isession' = [isession EXCEPT ![t] = "closed"]
            /\ dc' = [dc EXCEPT ![t] = "closed"]
        BY <1>18, <3>1 DEF LoopI, GotoI
      <4>2. QED
        BY <4>1 DEF TypeOK
    <3>2. CASE ~sctxI
      <4>1. itun' = [itun EXCEPT ![t] = "accept"] /\ UNCHANGED <<isession, dc>>
        BY <1>18, <3>2 DEF LoopI, GotoI
      <4>2. QED
        BY <4>1 DEF TypeOK
    <3>3. QED
      BY <3>1, <3>2
  <2>2. \A u \in Tunnels : istream'[u] # None <=> itun'[u] = "dial"
    BY <1>18 DEF TypeOK, LoopI, GotoI
  <2>3. QED
    BY <1>18, <2>1, <2>2 DEF TypeOK, LoopI, mainVars, egressVars, connVars
<1>19. ASSUME NEW t \in Tunnels, AcceptStreamFails(t) PROVE TypeOK'
  BY <1>19
  DEF TypeOK, AcceptStreamFails, GotoI, mainVars, egressVars, connVars,
      ingressVars
<1>20. ASSUME NEW t \in Tunnels, Dial(t) PROVE TypeOK'
  BY <1>20 DEF TypeOK, Dial, GotoI, mainVars, egressVars, connVars, ingressVars
<1>21. ASSUME NEW t \in Tunnels, ChannelOpens(t) PROVE TypeOK'
  BY <1>21 DEF TypeOK, ChannelOpens, mainVars, egressVars, connVars, ingressVars
<1>22. ASSUME NEW t \in Tunnels, ChannelFails(t) PROVE TypeOK'
  BY <1>22 DEF TypeOK, ChannelFails, mainVars, egressVars, connVars, ingressVars
<1>23. ASSUME NEW t \in Tunnels, SessionEndsE(t) PROVE TypeOK'
  BY <1>23 DEF TypeOK, SessionEndsE, mainVars, egressVars, connVars, ingressVars
<1>24. ASSUME NEW t \in Tunnels, SessionEndsI(t) PROVE TypeOK'
  BY <1>24 DEF TypeOK, SessionEndsI, mainVars, egressVars, connVars, ingressVars
<1>25. ASSUME NEW t \in Tunnels, NEW c \in Conns, Accept(t, c) PROVE TypeOK'
  BY <1>25
  DEF TypeOK, Accept, GotoE, mainVars, egressVars, connVars, ingressVars
<1>26. ASSUME NEW t \in Tunnels, NEW c \in Conns, AcceptStream(t, c) PROVE TypeOK'
  BY <1>26
  DEF TypeOK, AcceptStream, GotoI, mainVars, egressVars, connVars, ingressVars
<1>27. ASSUME NEW c \in Conns, RelayEnds(c) PROVE TypeOK'
  BY <1>27 DEF TypeOK, RelayEnds, mainVars, egressVars, connVars, ingressVars
<1>28. CASE UNCHANGED vars
  BY <1>28 DEF TypeOK, vars, mainVars, egressVars, connVars, ingressVars
<1>29. QED
    BY <1>1, <1>2, <1>3, <1>4, <1>5, <1>6, <1>7, <1>8, <1>9, <1>10, <1>11,
     <1>12, <1>13, <1>14, <1>15, <1>16, <1>17, <1>18, <1>19, <1>20, <1>21,
     <1>22, <1>23, <1>24, <1>25, <1>26, <1>27, <1>28
  DEF Next, MainStep, EgressStep, WatcherStep, IngressStep, SessionEnds

\* What concerns the egress: contexts, listeners and data channels.
EgressInv == ClosedListenerIsCancelled /\ WatcherCancelled /\ EndedIsQuiet /\ NotBegun

\* The watcher cancels before it closes, and the deferred calls of startTunnel
\* close all it has opened.
LEMMA EgressNext == TypeOK /\ EgressInv /\ [Next]_vars => EgressInv'
<1> SUFFICES ASSUME TypeOK, EgressInv, [Next]_vars PROVE EgressInv'
  OBVIOUS
<1> USE DEF EgressInv, ClosedListenerIsCancelled, WatcherCancelled, EndedIsQuiet,
            NotBegun
<1>1. ASSUME CreateTunnel PROVE EgressInv'
  BY <1>1 DEF TypeOK, CreateTunnel, mainVars, egressVars, connVars, ingressVars
<1>2. ASSUME CreateTunnelFails PROVE EgressInv'
  BY <1>2
  DEF TypeOK, CreateTunnelFails, mainVars, egressVars, connVars, ingressVars
<1>3. ASSUME CreateDone PROVE EgressInv'
  BY <1>3 DEF TypeOK, CreateDone, mainVars, egressVars, connVars, ingressVars
<1>4. ASSUME Return PROVE EgressInv'
  BY <1>4 DEF TypeOK, Return, mainVars, egressVars, connVars, ingressVars
<1>5. ASSUME SctxDone PROVE EgressInv'
  BY <1>5 DEF TypeOK, SctxDone, mainVars, egressVars, connVars, ingressVars
<1>6. ASSUME NEW t \in Tunnels, DetachE(t) PROVE EgressInv'
  BY <1>6
  DEF TypeOK, DetachE, GotoE, mainVars, egressVars, connVars, ingressVars
<1>7. ASSUME NEW t \in Tunnels, DetachFailsE(t) PROVE EgressInv'
  BY <1>7
  DEF TypeOK, DetachFailsE, GotoE, Unwind, CtxDone, mainVars, egressVars,
      connVars, ingressVars
<1>8. ASSUME NEW t \in Tunnels, Listen(t) PROVE EgressInv'
  BY <1>8 DEF TypeOK, Listen, GotoE, mainVars, egressVars, connVars, ingressVars
<1>9. ASSUME NEW t \in Tunnels, ListenFails(t) PROVE EgressInv'
  BY <1>9
  DEF TypeOK, ListenFails, GotoE, Unwind, mainVars, egressVars, connVars,
      ingressVars
<1>10. ASSUME NEW t \in Tunnels, LoopE(t) PROVE EgressInv'
  BY <1>10
  DEF TypeOK, LoopE, GotoE, Unwind, mainVars, egressVars, connVars,
      ingressVars
<1>11. ASSUME NEW t \in Tunnels, AcceptFails(t) PROVE EgressInv'
  BY <1>11
  DEF TypeOK, AcceptFails, GotoE, mainVars, egressVars, connVars, ingressVars
<1>12. ASSUME NEW t \in Tunnels, OpenStream(t) PROVE EgressInv'
  BY <1>12
  DEF TypeOK, OpenStream, GotoE, mainVars, egressVars, connVars, ingressVars
<1>13. ASSUME NEW t \in Tunnels, WatchCancels(t) PROVE EgressInv'
  BY <1>13 DEF TypeOK, WatchCancels, mainVars, egressVars, connVars, ingressVars
<1>14. ASSUME NEW t \in Tunnels, WatchClosesListener(t) PROVE EgressInv'
  BY <1>14
  DEF TypeOK, WatchClosesListener, mainVars, egressVars, connVars, ingressVars
<1>15. ASSUME NEW t \in Tunnels, OnDataChannel(t) PROVE EgressInv'
  BY <1>15
  DEF TypeOK, OnDataChannel, GotoI, mainVars, egressVars, connVars,
      ingressVars
<1>16. ASSUME NEW t \in Tunnels, DetachI(t) PROVE EgressInv'
  BY <1>16
  DEF TypeOK, DetachI, GotoI, mainVars, egressVars, connVars, ingressVars
<1>17. ASSUME NEW t \in Tunnels, DetachFailsI(t) PROVE EgressInv'
  BY <1>17
  DEF TypeOK, DetachFailsI, GotoI, mainVars, egressVars, connVars, ingressVars
<1>18. ASSUME NEW t \in Tunnels, LoopI(t) PROVE EgressInv'
  BY <1>18 DEF TypeOK, LoopI, GotoI, mainVars, egressVars, connVars, ingressVars
<1>19. ASSUME NEW t \in Tunnels, AcceptStreamFails(t) PROVE EgressInv'
  BY <1>19
  DEF TypeOK, AcceptStreamFails, GotoI, mainVars, egressVars, connVars,
      ingressVars
<1>20. ASSUME NEW t \in Tunnels, Dial(t) PROVE EgressInv'
  BY <1>20 DEF TypeOK, Dial, GotoI, mainVars, egressVars, connVars, ingressVars
<1>21. ASSUME NEW t \in Tunnels, ChannelOpens(t) PROVE EgressInv'
  BY <1>21 DEF TypeOK, ChannelOpens, mainVars, egressVars, connVars, ingressVars
<1>22. ASSUME NEW t \in Tunnels, ChannelFails(t) PROVE EgressInv'
  BY <1>22 DEF TypeOK, ChannelFails, mainVars, egressVars, connVars, ingressVars
<1>23. ASSUME NEW t \in Tunnels, SessionEndsE(t) PROVE EgressInv'
  BY <1>23 DEF TypeOK, SessionEndsE, mainVars, egressVars, connVars, ingressVars
<1>24. ASSUME NEW t \in Tunnels, SessionEndsI(t) PROVE EgressInv'
  BY <1>24 DEF TypeOK, SessionEndsI, mainVars, egressVars, connVars, ingressVars
<1>25. ASSUME NEW t \in Tunnels, NEW c \in Conns, Accept(t, c) PROVE EgressInv'
  BY <1>25
  DEF TypeOK, Accept, GotoE, mainVars, egressVars, connVars, ingressVars
<1>26. ASSUME NEW t \in Tunnels, NEW c \in Conns, AcceptStream(t, c) PROVE EgressInv'
  BY <1>26
  DEF TypeOK, AcceptStream, GotoI, mainVars, egressVars, connVars, ingressVars
<1>27. ASSUME NEW c \in Conns, RelayEnds(c) PROVE EgressInv'
  BY <1>27 DEF TypeOK, RelayEnds, mainVars, egressVars, connVars, ingressVars
<1>28. CASE UNCHANGED vars
  BY <1>28 DEF TypeOK, vars, mainVars, egressVars, connVars, ingressVars
<1>29. QED
    BY <1>1, <1>2, <1>3, <1>4, <1>5, <1>6, <1>7, <1>8, <1>9, <1>10, <1>11,
     <1>12, <1>13, <1>14, <1>15, <1>16, <1>17, <1>18, <1>19, <1>20, <1>21,
     <1>22, <1>23, <1>24, <1>25, <1>26, <1>27, <1>28
  DEF Next, MainStep, EgressStep, WatcherStep, IngressStep, SessionEnds

\* What concerns the connections: which tunnel each came by.
IngressInv == OnlyAuthorizedServed /\ ServedIsAuthorized /\ StreamsBound

\* A stream is accepted by the tunnel its connection came by, which the
\* callback has authorized.
LEMMA IngressNext == TypeOK /\ IngressInv /\ [Next]_vars => IngressInv'
<1> SUFFICES ASSUME TypeOK, IngressInv, [Next]_vars PROVE IngressInv'
  OBVIOUS
<1> USE TunnelAssumption DEF IngressInv, OnlyAuthorizedServed, ServedIsAuthorized, StreamsBound
<1>1. ASSUME CreateTunnel PROVE IngressInv'
  BY <1>1 DEF TypeOK, CreateTunnel, mainVars, egressVars, connVars, ingressVars
<1>2. ASSUME CreateTunnelFails PROVE IngressInv'
  BY <1>2
  DEF TypeOK, CreateTunnelFails, mainVars, egressVars, connVars, ingressVars
<1>3. ASSUME CreateDone PROVE IngressInv'
  BY <1>3 DEF TypeOK, CreateDone, mainVars, egressVars, connVars, ingressVars
<1>4. ASSUME Return PROVE IngressInv'
  BY <1>4 DEF TypeOK, Return, mainVars, egressVars, connVars, ingressVars
<1>5. ASSUME SctxDone PROVE IngressInv'
  BY <1>5 DEF TypeOK, SctxDone, mainVars, egressVars, connVars, ingressVars
<1>6. ASSUME NEW t \in Tunnels, DetachE(t) PROVE IngressInv'
  BY <1>6
  DEF TypeOK, DetachE, GotoE, mainVars, egressVars, connVars, ingressVars
<1>7. ASSUME NEW t \in Tunnels, DetachFailsE(t) PROVE IngressInv'
  BY <1>7
  DEF TypeOK, DetachFailsE, GotoE, Unwind, CtxDone, mainVars, egressVars,
      connVars, ingressVars
<1>8. ASSUME NEW t \in Tunnels, Listen(t) PROVE IngressInv'
  BY <1>8 DEF TypeOK, Listen, GotoE, mainVars, egressVars, connVars, ingressVars
<1>9. ASSUME NEW t \in Tunnels, ListenFails(t) PROVE IngressInv'
  BY <1>9
  DEF TypeOK, ListenFails, GotoE, Unwind, mainVars, egressVars, connVars,
      ingressVars
<1>10. ASSUME NEW t \in Tunnels, LoopE(t) PROVE IngressInv'
  BY <1>10
  DEF TypeOK, LoopE, GotoE, Unwind, mainVars, egressVars, connVars,
      ingressVars
<1>11. ASSUME NEW t \in Tunnels, AcceptFails(t) PROVE IngressInv'
  BY <1>11
  DEF TypeOK, AcceptFails, GotoE, mainVars, egressVars, connVars, ingressVars
<1>12. ASSUME NEW t \in Tunnels, OpenStream(t) PROVE IngressInv'
  BY <1>12
  DEF TypeOK, OpenStream, GotoE, mainVars, egressVars, connVars, ingressVars
<1>13. ASSUME NEW t \in Tunnels, WatchCancels(t) PROVE IngressInv'
  BY <1>13 DEF TypeOK, WatchCancels, mainVars, egressVars, connVars, ingressVars
<1>14. ASSUME NEW t \in Tunnels, WatchClosesListener(t) PROVE IngressInv'
  BY <1>14
  DEF TypeOK, WatchClosesListener, mainVars, egressVars, connVars, ingressVars
<1>15. ASSUME NEW t \in Tunnels, OnDataChannel(t) PROVE IngressInv'
  BY <1>15
  DEF TypeOK, OnDataChannel, GotoI, mainVars, egressVars, connVars,
      ingressVars
<1>16. ASSUME NEW t \in Tunnels, DetachI(t) PROVE IngressInv'
  BY <1>16
  DEF TypeOK, DetachI, GotoI, mainVars, egressVars, connVars, ingressVars
<1>17. ASSUME NEW t \in Tunnels, DetachFailsI(t) PROVE IngressInv'
  BY <1>17
  DEF TypeOK, DetachFailsI, GotoI, mainVars, egressVars, connVars, ingressVars
<1>18. ASSUME NEW t \in Tunnels, LoopI(t) PROVE IngressInv'
  BY <1>18 DEF TypeOK, LoopI, GotoI, mainVars, egressVars, connVars, ingressVars
<1>19. ASSUME NEW t \in Tunnels, AcceptStreamFails(t) PROVE IngressInv'
  BY <1>19
  DEF TypeOK, AcceptStreamFails, GotoI, mainVars, egressVars, connVars,
      ingressVars
<1>20. ASSUME NEW t \in Tunnels, Dial(t) PROVE IngressInv'
  BY <1>20 DEF TypeOK, Dial, GotoI, mainVars, egressVars, connVars, ingressVars
<1>21. ASSUME NEW t \in Tunnels, ChannelOpens(t) PROVE IngressInv'
  BY <1>21 DEF TypeOK, ChannelOpens, mainVars, egressVars, connVars, ingressVars
<1>22. ASSUME NEW t \in Tunnels, ChannelFails(t) PROVE IngressInv'
  BY <1>22 DEF TypeOK, ChannelFails, mainVars, egressVars, connVars, ingressVars
<1>23. ASSUME NEW t \in Tunnels, SessionEndsE(t) PROVE IngressInv'
  BY <1>23 DEF TypeOK, SessionEndsE, mainVars, egressVars, connVars, ingressVars
<1>24. ASSUME NEW t \in Tunnels, SessionEndsI(t) PROVE IngressInv'
  BY <1>24 DEF TypeOK, SessionEndsI, mainVars, egressVars, connVars, ingressVars
<1>25. ASSUME NEW t \in Tunnels, NEW c \in Conns, Accept(t, c) PROVE IngressInv'
  BY <1>25
  DEF TypeOK, Accept, GotoE, mainVars, egressVars, connVars, ingressVars
<1>26. ASSUME NEW t \in Tunnels, NEW c \in Conns, AcceptStream(t, c) PROVE IngressInv'
  BY <1>26
  DEF TypeOK, AcceptStream, GotoI, mainVars, egressVars, connVars, ingressVars
<1>27. ASSUME NEW c \in Conns, RelayEnds(c) PROVE IngressInv'
  BY <1>27 DEF TypeOK, RelayEnds, mainVars, egressVars, connVars, ingressVars
<1>28. CASE UNCHANGED vars
  BY <1>28 DEF TypeOK, vars, mainVars, egressVars, connVars, ingressVars
<1>29. QED
    BY <1>1, <1>2, <1>3, <1>4, <1>5, <1>6, <1>7, <1>8, <1>9, <1>10, <1>11,
     <1>12, <1>13, <1>14, <1>15, <1>16, <1>17, <1>18, <1>19, <1>20, <1>21,
     <1>22, <1>23, <1>24, <1>25, <1>26, <1>27, <1>28
  DEF Next, MainStep, EgressStep, WatcherStep, IngressStep, SessionEnds

-----------------------------------------------------------------------------
\* The inductive invariant of the tunnels holds for any endpoints, any
\* whitelist and any client connections.
THEOREM Inductive == Spec => []IInv
<1>1. IInv /\ [Next]_vars => IInv'
  BY TypeNext, EgressNext, IngressNext DEF IInv, EgressInv, IngressInv
<1>2. QED
  BY InitIInv, <1>1, PTL DEF Spec

\* Every variable stays within its domain, and each accept loop holds a
\* connection exactly while it works on one.
THEOREM TypeCorrect == Spec => []TypeOK
<1>1. IInv => TypeOK
  BY DEF IInv
<1>2. QED
  BY Inductive, <1>1, PTL

\* The accept loop of startTunnel never spins on a listener that was closed
\* under it: its context was cancelled before.
THEOREM ListenerCancelled == Spec => []ClosedListenerIsCancelled
<1>1. IInv => ClosedListenerIsCancelled
  BY DEF IInv
<1>2. QED
  BY Inductive, <1>1, PTL

\* Whatever createTunnel takes off a data channel belongs to an endpoint the
\* whitelist of the ingress allows.
THEOREM AuthorizedServed == Spec => []OnlyAuthorizedServed
<1>1. IInv => OnlyAuthorizedServed
  BY DEF IInv
<1>2. QED
  BY Inductive, <1>1, PTL

\* When startTunnels has returned, none of its listeners and none of its data
\* channels is open.
THEOREM Quiet == Spec => []ReturnedIsQuiet
<1>1. IInv => ReturnedIsQuiet
  BY DEF IInv, EndedIsQuiet, ReturnedIsQuiet
<1>2. QED
  BY Inductive, <1>1, PTL
================================================================================
