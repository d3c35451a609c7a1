------------------------------- MODULE Node --------------------------------
(***************************************************************************)
(* A node that runs as ingress, the egresses that reach it through the     *)
(* aetherlight server, and the handshake between them: runAetherlight and  *)
(* its two loops (cli-proxy-aetherlight.go), NewNoisedMessengerI and -R    *)
(* (messenger-noised.go) and Identity (identity.go).                       *)
(*                                                                         *)
(* The parts that other modules detail appear in outline: the registry     *)
(* (Aetherlight) as the entry of this ingress, the negotiation (Signaling) *)
(* as an offer and an answer, and the tunnels (Tunnel) as one state.       *)
(***************************************************************************)
EXTENDS Certificate, FiniteSets

CONSTANTS
    Ingress,    \* the node that registers
    Egresses,   \* the nodes that connect to it
    Conns,      \* connections: a bound on how many of an egress overlap
    Owner,      \* the egress each connection belongs to
    Cert,       \* the certificate each node has loaded
    Pool,       \* the CA pool each node has loaded
    MaxClock    \* bound on the clock

Nodes == Egresses \cup {Ingress}

\* NewIdentity refuses a node whose pool lacks the CA of its certificate.
ASSUME NodeAssumption ==
    /\ Ingress \notin Egresses
    /\ Conns \cap {"idle", "accept"} = {}
    /\ Owner \in [Conns -> Egresses]
    /\ \A n \in Nodes : IsFiniteSet(Pool[n]) /\ IssuersOf(Cert[n], Pool[n]) # {}
    /\ MaxClock \in Nat \ {0}

VARIABLES
    entry,      \* of the ingress in the registry: "none"; "pending" while the
                \* server has taken the websocket but not registered it;
                \* "live"; "stale" once the server has closed the session
    loop,       \* runAetherlightIngress: "idle", "accept", or the connection
                \* it shakes hands with
    backlog,    \* streams the session has not accepted yet, oldest first
    conn,       \* every connection: link, ing, eg, and messages written
    dead,       \* nodes whose process has ended
    clock,
    refused     \* history: egresses a handshake turned away although both
                \* sides would have accepted the other's certificate

vars == <<entry, loop, backlog, conn, dead, clock, refused>>

Unused == [link |-> "none", ing |-> "none", eg |-> "none", iw |-> 0, ew |-> 0]

Init == /\ entry = "none"
        /\ loop = "idle"
        /\ backlog = <<>>
        /\ conn = [c \in Conns |-> Unused]
        /\ dead = {}
        /\ clock = 1
        /\ refused = {}

-----------------------------------------------------------------------------
(* Identity and handshake.                                                 *)

\* MUTANT: the keys of the other CAs come first.
PresharedKeysOthersFirst(n) ==
    LET ica    == CHOOSE ca \in IssuersOf(Cert[n], Pool[n]) : TRUE
        others == {ca.signature : ca \in Pool[n] \ {ica}}
    IN  [i \in 1..Cardinality(Pool[n]) |->
            IF others # {} /\ i = 1 THEN CHOOSE s \in others : TRUE ELSE ica.signature]

\* computePresharedKeys: one key for each CA of the pool, every one of them
\* derived from the signature of the node's own CA.
PresharedKeys(n) ==
    LET ica == CHOOSE ca \in IssuersOf(Cert[n], Pool[n]) : TRUE
    IN  [i \in 1..Cardinality(Pool[n]) |-> ica.signature]

\* ValidatePeer: n verifies, at time t, the certificate m sends as payload, which
\* is its own: nothing compares its public key with the static key of the
\* handshake, so this is a model of honest peers only.
Verified == [n \in Nodes, m \in Nodes, t \in 1..MaxClock |->
                Verify(Unmarshal(Marshal(Cert[m])), t, Pool[n])]

ValidatePeer(n, m) == Verified[n, m, clock]

\* NewNoisedMessengerI takes the first key, NewNoisedMessengerR tries all of
\* its own: the message must open under some key, and the payload that is
\* validated is the one of the last attempt.
Opens == [e \in Egresses |->
    LET psk  == PresharedKeys(Ingress)[1]
        keys == PresharedKeys(e)
    IN  (\E i \in DOMAIN keys : keys[i] = psk) /\ keys[Len(keys)] = psk]

\* Each of the two trusts the other's certificate.
Trusting(e) == ValidatePeer(e, Ingress) /\ ValidatePeer(Ingress, e)

Refuse(e) == refused' = IF Trusting(e) THEN refused \cup {e} ELSE refused

-----------------------------------------------------------------------------
(* The end of connections and processes.                                   *)

\* A connection neither side knows any more can stand for the next one.
Forget(f, q) ==
    [c \in Conns |-> IF f[c].ing = "none" /\ f[c].eg = "none" /\ \A i \in DOMAIN q : q[i] # c
                     THEN Unused ELSE f[c]]

Closed(link) == IF link = "none" THEN "none" ELSE "closed"

\* What has been written to the other side of c after message n: nothing new
\* if the stream is closed.
Written(c, before, n) == IF conn[c].link = "closed" THEN before ELSE n

Set(c, rec) == conn' = Forget([conn EXCEPT ![c] = rec], backlog)

\* runAetherlightIngress returns, and its deferred calls close the session,
\* every stream and every peer connection: Start fails where the answer is
\* not sent yet, and returns in silence where it is.  The server has still to
\* notice.
Return ==
    LET closed(r) == [r EXCEPT !.link = Closed(@),
                               !.ing = IF @ \in {"nego", "failing"} THEN "failing"
                                                                    ELSE "none"]
    IN  /\ loop' = "idle"
        /\ backlog' = <<>>
        /\ conn' = Forget([c \in Conns |-> closed(conn[c])], <<>>)
        /\ UNCHANGED entry

\* log.Fatalln of the ingress: the process ends, whatever else it does.
IngressExit ==
    /\ dead' = dead \cup {Ingress}
    /\ loop' = "idle"
    /\ backlog' = <<>>
    /\ conn' = Forget([c \in Conns |-> [conn[c] EXCEPT !.link = Closed(@), !.ing = "none"]], <<>>)
    /\ UNCHANGED <<entry, clock, refused>>

\* The process of the egress of c ends; its websocket closes.
EgressExit(c) ==
    /\ dead' = dead \cup {Owner[c]}
    /\ Set(c, [conn[c] EXCEPT !.link = Closed(@), !.eg = "none"])
    /\ UNCHANGED <<entry, loop, backlog, clock, refused>>

\* runAetherlightEgress returns, to be called again a second later.
EgressReturn(c) ==
    /\ Set(c, [conn[c] EXCEPT !.link = Closed(@), !.eg = "none"])
    /\ UNCHANGED <<entry, loop, backlog, dead, clock>>

-----------------------------------------------------------------------------
(* The loop of the ingress.                                                *)

\* The websocket for a registration: refused with 409 while an entry is left.
\* The loop may accept before the server has registered it.  The second between
\* two attempts is longer than the server takes for that: what happens when two
\* registrations overlap is in Aetherlight.
Connect ==
    /\ Ingress \notin dead /\ loop = "idle" /\ entry = "none"
    /\ loop' = "accept"
    /\ entry' = "pending"
    /\ UNCHANGED <<backlog, conn, dead, clock, refused>>

\* MUTANT: the stream is not taken off the backlog.
AcceptKeeps ==
    /\ loop = "accept" /\ backlog # <<>>
    /\ loop' = Head(backlog)
    /\ conn' = [conn EXCEPT ![Head(backlog)].ing = "hs", ![Head(backlog)].link = "open"]
    /\ UNCHANGED <<entry, backlog, dead, clock, refused>>

\* session.Accept and the first message of the handshake; a stream that was
\* closed in the meantime is accepted too.
Accept ==
    /\ loop = "accept" /\ backlog # <<>>
    /\ LET c == Head(backlog)
       IN  /\ loop' = c
           /\ conn' = [conn EXCEPT ![c].ing = "hs", ![c].iw = Written(c, @, 1),
                                   ![c].link = IF @ = "queued" THEN "open" ELSE @]
    /\ backlog' = Tail(backlog)
    /\ UNCHANGED <<entry, dead, clock, refused>>

\* MUTANT: the certificate of the egress is not verified.
HandshakeUnverified(c) ==
    /\ loop = c /\ conn[c].ew >= 1
    /\ loop' = "accept"
    /\ conn' = [conn EXCEPT ![c].ing = "nego"]
    /\ UNCHANGED <<entry, backlog, dead, clock, refused>>

\* The second message: the peer is validated and ip.Start begins.
HandshakeDone(c) ==
    /\ loop = c /\ conn[c].ew >= 1 /\ ValidatePeer(Ingress, Owner[c])
    /\ loop' = "accept"
    /\ conn' = [conn EXCEPT ![c].ing = "nego"]
    /\ UNCHANGED <<entry, backlog, dead, clock, refused>>

\* The second message does not pass, or the stream ends before it.
HandshakeFails(c) ==
    /\ loop = c
    /\ \/ /\ conn[c].ew >= 1 /\ ~ValidatePeer(Ingress, Owner[c])
          /\ Refuse(Owner[c])
       \/ /\ conn[c].link = "closed"
          /\ UNCHANGED refused
    /\ Return
    /\ UNCHANGED <<dead, clock>>

\* The websocket to the server breaks, or no keep-alive of the server comes for
\* thirty seconds: Accept, or the handshake, fails.
SessionLost ==
    /\ loop # "idle"
    /\ Return
    /\ UNCHANGED <<dead, clock, refused>>

\* IngressProxy.Start: the offer has arrived and the answer is sent.
Answer(c) ==
    /\ conn[c].ing = "nego" /\ conn[c].ew = 2
    /\ conn' = [conn EXCEPT ![c].ing = "ice", ![c].iw = Written(c, @, 2)]
    /\ UNCHANGED <<entry, loop, backlog, dead, clock, refused>>

\* Start returns an error: no offer within a minute, a connection that was
\* closed under it, or ICE that fails.
IngressFatal(c) == conn[c].ing \in {"nego", "failing", "ice"} /\ IngressExit

\* The peers are connected, as far as the ingress can tell.
IngressUp(c) ==
    /\ conn[c].ing = "ice" /\ conn[c].eg \in {"ice", "up"}
    /\ conn' = [conn EXCEPT ![c].ing = "up"]
    /\ UNCHANGED <<entry, loop, backlog, dead, clock, refused>>

\* The peer connection is disconnected or closed: Start returns.
IngressDown(c) ==
    /\ conn[c].ing = "up" /\ conn[c].eg # "up"
    /\ Set(c, [conn[c] EXCEPT !.ing = "none"])
    /\ UNCHANGED <<entry, loop, backlog, dead, clock, refused>>

-----------------------------------------------------------------------------
(* The loop of an egress.                                                  *)

\* A request without a token: 404 without an entry, a broken stream when the
\* entry is stale; otherwise the server opens a stream of the session, which
\* nobody accepts if the ingress has left it and the server does not know.
Dial(c) ==
    /\ Owner[c] \notin dead /\ entry = "live" /\ conn[c] = Unused
    /\ \A d \in Conns : Owner[d] = Owner[c] => conn[d].eg = "none"
    /\ conn' = [conn EXCEPT ![c].link = "queued", ![c].eg = "hs"]
    /\ backlog' = IF loop = "idle" THEN backlog ELSE Append(backlog, c)
    /\ UNCHANGED <<entry, loop, dead, clock, refused>>

\* The first message opens and its sender is trusted: the second is written.
EgressHandshake(c) ==
    /\ conn[c].eg = "hs" /\ conn[c].iw >= 1
    /\ Opens[Owner[c]] /\ ValidatePeer(Owner[c], Ingress)
    /\ conn' = [conn EXCEPT ![c].eg = "start", ![c].ew = Written(c, @, 1)]
    /\ UNCHANGED <<entry, loop, backlog, dead, clock, refused>>

EgressHandshakeFails(c) ==
    /\ conn[c].eg = "hs"
    /\ \/ /\ conn[c].iw >= 1
          /\ ~(Opens[Owner[c]] /\ ValidatePeer(Owner[c], Ingress))
          /\ Refuse(Owner[c])
       \/ /\ conn[c].link = "closed"
          /\ UNCHANGED refused
    /\ EgressReturn(c)

\* EgressProxy.Start: the offer is sent.
Offer(c) ==
    /\ conn[c].eg = "start"
    /\ conn' = [conn EXCEPT ![c].eg = "nego", ![c].ew = Written(c, @, 2)]
    /\ UNCHANGED <<entry, loop, backlog, dead, clock, refused>>

Answered(c) ==
    /\ conn[c].eg = "nego" /\ conn[c].iw = 2
    /\ conn' = [conn EXCEPT ![c].eg = "ice"]
    /\ UNCHANGED <<entry, loop, backlog, dead, clock, refused>>

\* Start returns an error: the offer cannot be written, no answer within a
\* minute, or ICE that fails.
EgressFatal(c) ==
    /\ \/ conn[c].eg = "start" /\ conn[c].link = "closed"
       \/ conn[c].eg \in {"nego", "ice"}
    /\ EgressExit(c)

EgressUp(c) ==
    /\ conn[c].eg = "ice" /\ conn[c].ing \in {"ice", "up"}
    /\ conn' = [conn EXCEPT ![c].eg = "up"]
    /\ UNCHANGED <<entry, loop, backlog, dead, clock, refused>>

\* The tunnels end, at the latest with the minute of their context.
EgressDown(c) ==
    /\ conn[c].eg \in {"ice", "up"}
    /\ EgressReturn(c)
    /\ UNCHANGED refused

\* The user stops an egress in the middle of anything.
Stop(c) == conn[c].eg # "none" /\ EgressExit(c)

-----------------------------------------------------------------------------
(* The server and the time.                                                *)

\* MUTANT: the minute is only one for the stream to be accepted.
RelayTimeoutQueued(c) ==
    /\ conn[c].link = "queued"
    /\ conn' = [conn EXCEPT ![c].link = "closed"]
    /\ UNCHANGED <<entry, loop, backlog, dead, clock, refused>>

\* The relay ends: its context lasts a minute.
RelayTimeout(c) ==
    /\ conn[c].link \in {"queued", "open"}
    /\ conn' = [conn EXCEPT ![c].link = "closed"]
    /\ UNCHANGED <<entry, loop, backlog, dead, clock, refused>>

\* The entry gets into the map.
Register ==
    /\ entry = "pending"
    /\ entry' = "live"
    /\ UNCHANGED <<loop, backlog, conn, dead, clock, refused>>

\* The server closes the session, as the websocket is closed or no keep-alive
\* came for three seconds: perhaps long before the ingress notices.
SessionCloses ==
    /\ entry = "live"
    /\ entry' = "stale"
    /\ conn' = [c \in Conns |-> [conn[c] EXCEPT !.link = Closed(@)]]
    /\ UNCHANGED <<loop, backlog, dead, clock, refused>>

\* MUTANT: the handler takes its entry for that of another and leaves it.
DeregisterOther == entry = "stale" /\ UNCHANGED vars

\* The handler of the session ends and deletes its entry.
Deregister ==
    /\ entry = "stale"
    /\ entry' = "none"
    /\ UNCHANGED <<loop, backlog, conn, dead, clock, refused>>

Tick ==
    /\ clock < MaxClock
    /\ clock' = clock + 1
    /\ UNCHANGED <<entry, loop, backlog, conn, dead, refused>>

Handshake(c) == HandshakeDone(c) \/ HandshakeFails(c)

Next ==
    \/ Connect \/ Accept \/ SessionLost \/ Tick
    \/ Register \/ SessionCloses \/ Deregister
    \/ \E c \in Conns :
         \/ Handshake(c) \/ Answer(c) \/ IngressFatal(c) \/ IngressUp(c)
         \/ IngressDown(c) \/ Dial(c) \/ EgressHandshake(c)
         \/ EgressHandshakeFails(c) \/ Offer(c) \/ Answered(c) \/ EgressFatal(c)
         \/ EgressUp(c) \/ EgressDown(c) \/ Stop(c) \/ RelayTimeout(c)

\* The goroutines of the ingress and of the server run, the server's minute
\* passes, and each side of a session notices, by its keep-alive, that the other
\* has left it.  Nothing is assumed of an egress: its host may be suspended at
\* any point.
Fairness ==
    /\ WF_vars(Connect) /\ WF_vars(Accept) /\ WF_vars(Register) /\ WF_vars(Deregister)
    /\ WF_vars(loop = "idle" /\ SessionCloses)
    /\ WF_vars(entry \in {"none", "stale"} /\ SessionLost)
    /\ \A c \in Conns : WF_vars(Handshake(c)) /\ WF_vars(RelayTimeout(c))

Spec == Init /\ [][Next]_vars /\ Fairness

-----------------------------------------------------------------------------
(* Properties.                                                             *)

\* Every variable stays within its domain; no stream waits for a loop that has
\* left its session, whatever the server still relays, the loop shakes hands with
\* the connection it holds, and no stream is in the backlog twice, or there and
\* accepted.
TypeOK ==
    /\ entry \in {"none", "pending", "live", "stale"}
    /\ loop \in {"idle", "accept"} \cup Conns
    /\ backlog \in Seq(Conns)
    /\ conn \in [Conns -> [link : {"none", "queued", "open", "closed"},
                          ing  : {"none", "hs", "nego", "failing", "ice", "up"},
                          eg   : {"none", "hs", "start", "nego", "ice", "up"},
                          iw   : 0..2, ew : 0..2]]
    /\ dead \subseteq Nodes
    /\ clock \in 1..MaxClock
    /\ refused \subseteq Egresses
    /\ backlog # <<>> => loop # "idle"
    /\ \A c \in Conns : conn[c].ing = "hs" <=> loop = c
    /\ \A i, j \in DOMAIN backlog :
          (backlog[i] = backlog[j] => i = j) /\ conn[backlog[i]].ing = "none"

Trusted(n, m) == \E t \in 1..clock : Verified[n, m, t]

\* Past its handshake, each side has verified the other: the ingress begins
\* no negotiation with an egress that would refuse it, and no tunnel is up
\* between nodes of which one does not trust the other.
MutuallyTrusted ==
    \A c \in Conns : conn[c].ing \in {"nego", "ice", "up"} =>
        Trusted(Ingress, Owner[c]) /\ Trusted(Owner[c], Ingress)

\* The accept loop serves one handshake at a time; an egress that says
\* nothing in it does not keep the others out for good.
AcceptLoopIsFreed == \A c \in Conns : (loop = c) ~> (loop # c)

\* Whatever ends a session (a failed handshake, a lost connection, a fatal
\* negotiation) and whichever side notices first, the ingress gets another one
\* that is registered or about to be, or its process has ended and it has left
\* the registry.
RegistersAgain ==
    []<>(\/ loop # "idle" /\ entry \in {"pending", "live"}
         \/ Ingress \in dead /\ entry = "none")

\* A handshake between two nodes that trust each other's certificate fails only
\* if these are of different CAs, however many the pools hold: no pre-shared key
\* is derived from the CA of the other, and it cannot succeed.
RefusedOnlyAcrossCAs ==
    \A e \in refused : Cert[e].details.issuer # Cert[Ingress].details.issuer
=============================================================================
