--------------------------------- MODULE Tunnel ---------------------------------
(***************************************************************************)
(* The tunnels of one peer connection: EgressProxy.startTunnels and        *)
(* startTunnel, IngressProxy.createTunnelsListener and createTunnel, and   *)
(* the endpoints they name (proxy-egress.go, proxy-ingress.go,             *)
(* proxy-endpoint.go, detach of datachannel-conn.go).                      *)
(*                                                                         *)
(* The egress opens one data channel per endpoint, labelled with it, runs  *)
(* an smux session over it, listens on the local address and opens one     *)
(* stream per accepted connection.  The ingress authorizes the label and   *)
(* dials for every stream it accepts.  Both run under the context of the   *)
(* signalling (sctx).                                                      *)
(***************************************************************************)
EXTENDS Integers, Sequences

CONSTANTS
    endpoints,  \* the endpoints of the egress, in order: each a local and a remote address
    Allows,     \* the remote addresses the ingress allows
    Wildcard,   \* --allow '*'
    Conns,      \* connections that clients make to the listeners
    None

\* An address is a host and a port.
Address(a) == DOMAIN a = 1..2

ASSUME TunnelAssumption ==
    /\ endpoints \in Seq([local : {a \in Seq(STRING) : Address(a)},
                          remote : {a \in Seq(STRING) : Address(a)}])
    /\ Wildcard \in BOOLEAN
    /\ None \notin Conns

Tunnels == 1..Len(endpoints)

-----------------------------------------------------------------------------
(* Endpoints.  A string is the sequence of its parts between colons. *)

\* Endpoint.String, the label of the data channel.
String(ep) == ep.local \o ep.remote

Label(t) == String(endpoints[t])

\* EndpointFromString, which refuses anything but four parts.
IsEndpoint(s) == Len(s) = 4
EndpointFromString(s) == [local |-> SubSeq(s, 1, 2), remote |-> SubSeq(s, 3, 4)]

\* NewBasicEndpointAuthorizer: the whitelist looks at the remote address.
Authorized(s) == IsEndpoint(s) /\ (Wildcard \/ EndpointFromString(s).remote \in Allows)

\* net.Dial refuses what is not a host and a port.
Dialable(s) == Len(s) = 2

-----------------------------------------------------------------------------
VARIABLES
    sctxE, sctxI,   \* the signalling context of each side is done
    main,           \* startTunnels: creating the next tunnel, waiting, returned
    next,           \* the endpoint startTunnels is at
    ctx,            \* the context of startTunnels has been cancelled
    dc,             \* the data channel of each tunnel
    etun,           \* where startTunnel is
    ectx,           \* its context has been cancelled
    esession,       \* its smux session
    listener,       \* its listening socket
    watcher,        \* the goroutine that waits for the end of the session
    held,           \* the connection it has accepted
    conn,           \* what became of each client connection
    itun,           \* where the ingress is with each data channel
    isession,       \* its smux session
    istream,        \* the connection whose stream it has accepted
    stream,         \* what became of the stream of each connection
    via,            \* the tunnel each connection came in by
    dialled         \* history: the address dialled for each connection

mainVars    == <<sctxE, sctxI, main, next, ctx>>
egressVars  == <<etun, ectx, esession, listener, watcher, held>>
connVars    == <<conn, stream, via, dialled>>
ingressVars == <<itun, isession, istream>>
vars == <<mainVars, dc, egressVars, connVars, ingressVars>>

Init ==
    /\ sctxE = FALSE /\ sctxI = FALSE
    /\ main = "create" /\ next = 1 /\ ctx = FALSE
    /\ dc = [t \in Tunnels |-> "none"]
    /\ etun = [t \in Tunnels |-> "none"]
    /\ ectx = [t \in Tunnels |-> FALSE]
    /\ esession = [t \in Tunnels |-> "none"]
    /\ listener = [t \in Tunnels |-> "none"]
    /\ watcher = [t \in Tunnels |-> "none"]
    /\ held = [t \in Tunnels |-> None]
    /\ conn = [c \in Conns |-> "none"]
    /\ itun = [t \in Tunnels |-> "none"]
    /\ isession = [t \in Tunnels |-> "none"]
    /\ istream = [t \in Tunnels |-> None]
    /\ stream = [c \in Conns |-> "none"]
    /\ via = [c \in Conns |-> 0]
    /\ dialled = [c \in Conns |-> <<>>]

CtxDone(t) == sctxE \/ ctx \/ ectx[t]

-----------------------------------------------------------------------------
(* startTunnels. *)

\* The next endpoint gets its data channel and its goroutine.
CreateTunnel ==
    /\ main = "create" /\ next \in Tunnels /\ ~(sctxE \/ ctx)
    /\ next' = next + 1
    /\ dc' = [dc EXCEPT ![next] = "connecting"]
    /\ etun' = [etun EXCEPT ![next] = "detach"]
    /\ UNCHANGED <<sctxE, sctxI, main, ctx, ectx, esession, listener, watcher, held, connVars, ingressVars>>

\* CreateDataChannel fails: the tunnels made so far are cancelled.
CreateTunnelFails ==
    /\ main = "create" /\ next \in Tunnels /\ ~(sctxE \/ ctx)
    /\ main' = "wait" /\ ctx' = TRUE
    /\ UNCHANGED <<sctxE, sctxI, next, dc, egressVars, connVars, ingressVars>>

\* No endpoint is left, or the context is done.
CreateDone ==
    /\ main = "create"
    /\ next \notin Tunnels \/ sctxE \/ ctx
    /\ main' = "wait"
    /\ UNCHANGED <<sctxE, sctxI, next, ctx, dc, egressVars, connVars, ingressVars>>

\* MUTANT: startTunnels returns without wg.Wait.
ReturnEarly ==
    /\ main = "wait"
    /\ main' = "returned" /\ ctx' = TRUE
    /\ UNCHANGED <<sctxE, sctxI, next, dc, egressVars, connVars, ingressVars>>

\* wg.Wait, then the deferred cancel.
Return ==
    /\ main = "wait"
    /\ \A t \in Tunnels : etun[t] \in {"none", "ended"}
    /\ main' = "returned" /\ ctx' = TRUE
    /\ UNCHANGED <<sctxE, sctxI, next, dc, egressVars, connVars, ingressVars>>

-----------------------------------------------------------------------------
(* startTunnel. *)

GotoE(t, from, to) ==
    /\ etun[t] = from
    /\ etun' = [etun EXCEPT ![t] = to]

\* What startTunnel has deferred: the listener, the session, the data channel
\* connection, its context and the data channel, as far as it got.
Unwind(t) ==
    /\ listener' = [listener EXCEPT ![t] = IF @ = "open" THEN "closed" ELSE @]
    /\ esession' = [esession EXCEPT ![t] = IF @ = "open" THEN "closed" ELSE @]
    /\ ectx' = [ectx EXCEPT ![t] = TRUE]
    /\ dc' = [dc EXCEPT ![t] = "closed"]

\* detach returned the open data channel; the session is created over it.
DetachE(t) ==
    /\ dc[t] = "open"
    /\ GotoE(t, "detach", "listen")
    /\ esession' = [esession EXCEPT ![t] = "open"]
    /\ UNCHANGED <<mainVars, dc, ectx, listener, watcher, held, connVars, ingressVars>>

\* The data channel was closed before it opened, or the context is done.
DetachFailsE(t) ==
    /\ dc[t] = "closed" \/ CtxDone(t)
    /\ GotoE(t, "detach", "ended")
    /\ Unwind(t)
    /\ UNCHANGED <<mainVars, watcher, held, connVars, ingressVars>>

\* net.Listen on the local address; the watcher goroutine is started.
Listen(t) ==
    /\ GotoE(t, "listen", "head")
    /\ listener' = [listener EXCEPT ![t] = "open"]
    /\ watcher' = [watcher EXCEPT ![t] = "wait"]
    /\ UNCHANGED <<mainVars, dc, ectx, esession, held, connVars, ingressVars>>

ListenFails(t) ==
    /\ GotoE(t, "listen", "ended")
    /\ Unwind(t)
    /\ UNCHANGED <<mainVars, watcher, held, connVars, ingressVars>>

\* The head of the accept loop.
LoopE(t) ==
    /\ IF CtxDone(t)
       THEN GotoE(t, "head", "ended") /\ Unwind(t)
       ELSE GotoE(t, "head", "accept") /\ UNCHANGED <<dc, ectx, esession, listener>>
    /\ UNCHANGED <<mainVars, watcher, held, connVars, ingressVars>>

\* A client connects.
Accept(t, c) ==
    /\ listener[t] = "open" /\ conn[c] = "none"
    /\ GotoE(t, "accept", "open")
    /\ held' = [held EXCEPT ![t] = c]
    /\ conn' = [conn EXCEPT ![c] = "held"]
    /\ via' = [via EXCEPT ![c] = t]
    /\ UNCHANGED <<mainVars, dc, ectx, esession, listener, watcher, stream, dialled, ingressVars>>

\* Accept on a closed listener fails, and the loop goes on to its head.
AcceptFails(t) ==
    /\ listener[t] = "closed"
    /\ GotoE(t, "accept", "head")
    /\ UNCHANGED <<mainVars, dc, ectx, esession, listener, watcher, held, connVars, ingressVars>>

\* MUTANT: the connection is kept for the next round when no stream is opened.
OpenStreamKeeps(t) ==
    /\ GotoE(t, "open", "head")
    /\ IF esession[t] = "open"
       THEN /\ conn' = [conn EXCEPT ![held[t]] = "relay"]
            /\ stream' = [stream EXCEPT ![held[t]] = "queued"]
            /\ held' = [held EXCEPT ![t] = None]
       ELSE UNCHANGED <<conn, stream, held>>
    /\ UNCHANGED <<mainVars, dc, ectx, esession, listener, watcher, via, dialled, ingressVars>>

\* OpenStream and relay; without a session the accepted connection is left
\* open and nobody holds it any more.
OpenStream(t) ==
    /\ GotoE(t, "open", "head")
    /\ held' = [held EXCEPT ![t] = None]
    /\ IF esession[t] = "open"
       THEN /\ conn' = [conn EXCEPT ![held[t]] = "relay"]
            /\ stream' = [stream EXCEPT ![held[t]] = "queued"]
       ELSE /\ conn' = [conn EXCEPT ![held[t]] = "leaked"]
            /\ UNCHANGED stream
    /\ UNCHANGED <<mainVars, dc, ectx, esession, listener, watcher, via, dialled, ingressVars>>

\* MUTANT: the listener is closed before the context is cancelled.
WatchCloses(t) ==
    /\ watcher[t] = "wait"
    /\ esession[t] = "closed" \/ CtxDone(t)
    /\ watcher' = [watcher EXCEPT ![t] = "cancelled"]
    /\ listener' = [listener EXCEPT ![t] = "closed"]
    /\ UNCHANGED <<mainVars, dc, etun, ectx, esession, held, connVars, ingressVars>>

\* MUTANT: the watcher waits for the context alone.
WatchContext(t) ==
    /\ watcher[t] = "wait"
    /\ CtxDone(t)
    /\ watcher' = [watcher EXCEPT ![t] = "cancelled"]
    /\ ectx' = [ectx EXCEPT ![t] = TRUE]
    /\ UNCHANGED <<mainVars, dc, etun, esession, listener, held, connVars, ingressVars>>

\* The watcher sees the end of the session or of the context, and cancels.
WatchCancels(t) ==
    /\ watcher[t] = "wait"
    /\ esession[t] = "closed" \/ CtxDone(t)
    /\ watcher' = [watcher EXCEPT ![t] = "cancelled"]
    /\ ectx' = [ectx EXCEPT ![t] = TRUE]
    /\ UNCHANGED <<mainVars, dc, etun, esession, listener, held, connVars, ingressVars>>

\* MUTANT: the listener is left to the deferred close.
WatchLeavesListener(t) ==
    /\ watcher[t] = "cancelled"
    /\ watcher' = [watcher EXCEPT ![t] = "done"]
    /\ UNCHANGED <<mainVars, dc, etun, ectx, esession, listener, held, connVars, ingressVars>>

\* It then closes the listener, which wakes Accept.
WatchClosesListener(t) ==
    /\ watcher[t] = "cancelled"
    /\ watcher' = [watcher EXCEPT ![t] = "done"]
    /\ listener' = [listener EXCEPT ![t] = "closed"]
    /\ UNCHANGED <<mainVars, dc, etun, ectx, esession, held, connVars, ingressVars>>

-----------------------------------------------------------------------------
(* The ingress. *)

GotoI(t, from, to) ==
    /\ itun[t] = from
    /\ itun' = [itun EXCEPT ![t] = to]

\* MUTANT: every endpoint is served.
OnDataChannelUnchecked(t) ==
    /\ dc[t] \in {"connecting", "open"}
    /\ ~sctxI
    /\ GotoI(t, "none", "detach")
    /\ UNCHANGED <<mainVars, dc, egressVars, connVars, isession, istream>>

\* The OnDataChannel callback: nothing once sctx is done, a close for a label
\* that is no endpoint or not an allowed one, else a goroutine.  The dummy
\* channel with the empty label, which it ignores, is not among the tunnels;
\* both commands set epAuth.
OnDataChannel(t) ==
    /\ dc[t] \in {"connecting", "open"}
    /\ \/ /\ sctxI
          /\ GotoI(t, "none", "ignored")
          /\ UNCHANGED dc
       \/ /\ ~sctxI /\ ~Authorized(Label(t))
          /\ GotoI(t, "none", "refused")
          /\ dc' = [dc EXCEPT ![t] = "closed"]
       \/ /\ ~sctxI /\ Authorized(Label(t))
          /\ GotoI(t, "none", "detach")
          /\ UNCHANGED dc
    /\ UNCHANGED <<mainVars, egressVars, connVars, isession, istream>>

\* createTunnel has the open data channel and makes its session.
DetachI(t) ==
    /\ dc[t] = "open"
    /\ GotoI(t, "detach", "head")
    /\ isession' = [isession EXCEPT ![t] = "open"]
    /\ UNCHANGED <<mainVars, dc, egressVars, connVars, istream>>

DetachFailsI(t) ==
    /\ dc[t] = "closed" \/ sctxI
    /\ GotoI(t, "detach", "ended")
    /\ dc' = [dc EXCEPT ![t] = "closed"]
    /\ UNCHANGED <<mainVars, egressVars, connVars, isession, istream>>

\* MUTANT: the loop does not look at its context.
LoopIForever(t) ==
    /\ GotoI(t, "head", "accept")
    /\ UNCHANGED <<isession, dc>>
    /\ UNCHANGED <<mainVars, egressVars, connVars, istream>>

\* The head of the loop: the only place where createTunnel looks at its context.
LoopI(t) ==
    /\ IF sctxI
       THEN /\ GotoI(t, "head", "ended")
            /\ isession' = [isession EXCEPT ![t] = "closed"]
            /\ dc' = [dc EXCEPT ![t] = "closed"]
       ELSE /\ GotoI(t, "head", "accept")
            /\ UNCHANGED <<isession, dc>>
    /\ UNCHANGED <<mainVars, egressVars, connVars, istream>>

\* AcceptStream
AcceptStream(t, c) ==
    /\ isession[t] = "open"
    /\ stream[c] = "queued" /\ via[c] = t
    /\ GotoI(t, "accept", "dial")
    /\ istream' = [istream EXCEPT ![t] = c]
    /\ stream' = [stream EXCEPT ![c] = "held"]
    /\ UNCHANGED <<mainVars, dc, egressVars, conn, via, dialled, isession>>

\* AcceptStream on a dead session fails, and the loop goes round.
AcceptStreamFails(t) ==
    /\ isession[t] = "closed"
    /\ GotoI(t, "accept", "head")
    /\ UNCHANGED <<mainVars, dc, egressVars, connVars, isession, istream>>

\* net.Dial("tcp", dc.Label()): after an error nobody holds the stream.
Dial(t) ==
    /\ GotoI(t, "dial", "head")
    /\ istream' = [istream EXCEPT ![t] = None]
    /\ dialled' = [dialled EXCEPT ![istream[t]] = Label(t)]
    /\ stream' = [stream EXCEPT ![istream[t]] = IF Dialable(Label(t)) THEN "relay" ELSE "leaked"]
    /\ UNCHANGED <<mainVars, dc, egressVars, conn, via, isession>>

-----------------------------------------------------------------------------
(* The peer connection and the clients. *)

\* The data channel opens on both sides.
ChannelOpens(t) ==
    /\ dc[t] = "connecting"
    /\ dc' = [dc EXCEPT ![t] = "open"]
    /\ UNCHANGED <<mainVars, egressVars, connVars, ingressVars>>

\* The peer connection is lost.
ChannelFails(t) ==
    /\ dc[t] \in {"connecting", "open"}
    /\ dc' = [dc EXCEPT ![t] = "closed"]
    /\ UNCHANGED <<mainVars, egressVars, connVars, ingressVars>>

\* A session whose data channel is closed ends, and its streams with it.
SessionEndsE(t) ==
    /\ esession[t] = "open" /\ dc[t] = "closed"
    /\ esession' = [esession EXCEPT ![t] = "closed"]
    /\ UNCHANGED <<mainVars, dc, etun, ectx, listener, watcher, held, connVars, ingressVars>>

SessionEndsI(t) ==
    /\ isession[t] = "open" /\ dc[t] = "closed"
    /\ isession' = [isession EXCEPT ![t] = "closed"]
    /\ UNCHANGED <<mainVars, dc, egressVars, connVars, itun, istream>>

\* relay at the egress ends with the client or with the session: the connection
\* and the egress's end of the stream are closed.
RelayEnds(c) ==
    /\ conn[c] = "relay"
    /\ conn' = [conn EXCEPT ![c] = "closed"]
    /\ UNCHANGED <<mainVars, dc, egressVars, stream, via, dialled, ingressVars>>

\* signalTimeout passes at one side, or its context is cancelled.
SctxDone ==
    /\ \/ ~sctxE /\ sctxE' = TRUE /\ UNCHANGED sctxI
       \/ ~sctxI /\ sctxI' = TRUE /\ UNCHANGED sctxE
    /\ UNCHANGED <<main, next, ctx, dc, egressVars, connVars, ingressVars>>

-----------------------------------------------------------------------------
MainStep == CreateTunnel \/ CreateTunnelFails \/ CreateDone \/ Return

EgressStep(t) ==
    \/ DetachE(t) \/ DetachFailsE(t) \/ Listen(t) \/ ListenFails(t) \/ LoopE(t)
    \/ AcceptFails(t) \/ OpenStream(t)

WatcherStep(t) == WatchCancels(t) \/ WatchClosesListener(t)

IngressStep(t) ==
    \/ DetachI(t) \/ DetachFailsI(t) \/ LoopI(t) \/ AcceptStreamFails(t) \/ Dial(t)
    \/ \E c \in Conns : AcceptStream(t, c)

SessionEnds(t) == SessionEndsE(t) \/ SessionEndsI(t)

Next ==
    \/ MainStep \/ SctxDone
    \/ \E t \in Tunnels :
          \/ EgressStep(t) \/ WatcherStep(t) \/ IngressStep(t) \/ SessionEnds(t)
          \/ OnDataChannel(t) \/ ChannelOpens(t) \/ ChannelFails(t)
          \/ \E c \in Conns : Accept(t, c)
    \/ \E c \in Conns : RelayEnds(c)

\* What goes on by itself at the egress, with the sessions of both sides.
Running ==
    \/ MainStep
    \/ \E t \in Tunnels : EgressStep(t) \/ WatcherStep(t) \/ SessionEnds(t)

\* Goroutines that can run are run, and a session notices that its data
\* channel is gone (its read fails, or its keep-alive does).  The steps in
\* Running are finitely many in every behaviour, so that weak fairness of all
\* of them together is enough; the loop of an ingress may go round for ever.
Fairness ==
    /\ WF_vars(Running)
    /\ \A t \in Tunnels : WF_vars(IngressStep(t))

Spec == Init /\ [][Next]_vars /\ Fairness

-----------------------------------------------------------------------------
(* Properties. *)

\* Every variable stays within its domain, and each loop holds a connection
\* exactly while it works on one.
TypeOK ==
    /\ {sctxE, sctxI, ctx} \subseteq BOOLEAN
    /\ main \in {"create", "wait", "returned"}
    /\ next \in 1..(Len(endpoints) + 1)
    /\ dc \in [Tunnels -> {"none", "connecting", "open", "closed"}]
    /\ etun \in [Tunnels -> {"none", "detach", "listen", "head", "accept", "open", "ended"}]
    /\ ectx \in [Tunnels -> BOOLEAN]
    /\ esession \in [Tunnels -> {"none", "open", "closed"}]
    /\ listener \in [Tunnels -> {"none", "open", "closed"}]
    /\ watcher \in [Tunnels -> {"none", "wait", "cancelled", "done"}]
    /\ held \in [Tunnels -> Conns \cup {None}]
    /\ conn \in [Conns -> {"none", "held", "relay", "leaked", "closed"}]
    /\ itun \in [Tunnels -> {"none", "ignored", "refused", "detach", "head", "accept", "dial", "ended"}]
    /\ isession \in [Tunnels -> {"none", "open", "closed"}]
    /\ istream \in [Tunnels -> Conns \cup {None}]
    /\ stream \in [Conns -> {"none", "queued", "held", "relay", "leaked"}]
    /\ via \in [Conns -> Tunnels \cup {0}]
    /\ \A t \in Tunnels : held[t] # None <=> etun[t] = "open"
    /\ \A t \in Tunnels : istream[t] # None <=> itun[t] = "dial"

\* While startTunnel is in its loop, a closed listener means that its context
\* was cancelled before: the loop never spins on a dead listener.
ClosedListenerIsCancelled ==
    \A t \in Tunnels :
        etun[t] \in {"head", "accept", "open"} /\ listener[t] = "closed" => ectx[t]

\* Whatever the ingress takes off a data channel belongs to an endpoint whose
\* remote address is allowed.
OnlyAuthorizedServed ==
    \A c \in Conns :
        stream[c] \in {"held", "relay", "leaked"} => Authorized(Label(via[c]))

\* When startTunnels has returned, no listener of any endpoint is open and no
\* data channel it made is.
ReturnedIsQuiet ==
    main = "returned" =>
        \A t \in Tunnels : listener[t] # "open" /\ dc[t] \notin {"connecting", "open"}

\* The end of the signalling context, or the failure to create one of the data
\* channels, brings every tunnel of the egress down.
EgressComesDown == (sctxE \/ ctx) ~> (main = "returned")

\* An endpoint that the ingress refuses does not keep a listening socket.
RefusedIsNotListening ==
    \A t \in Tunnels :
        (itun[t] = "refused") ~> (listener[t] # "open" /\ etun[t] = "ended")

\* Once its context is done and its data channel closed, createTunnel returns,
\* however long its loop has been going round on a dead session.
IngressComesDown ==
    \A t \in Tunnels :
        (sctxI /\ dc[t] = "closed" /\ itun[t] \notin {"none", "ignored", "refused"})
            ~> (itun[t] = "ended")

\* The ingress dials the remote address of the endpoint.
DialsRemote ==
    \A c \in Conns :
        dialled[c] # <<>> => dialled[c] = EndpointFromString(Label(via[c])).remote
================================================================================
