------------------------------ MODULE Aetherlight ------------------------------
(***************************************************************************)
(* The aetherlight signalling server (signal-server-aetherlight.go).       *)
(*                                                                         *)
(* Every GET /ingresses/{id} is one goroutine that runs the whole handler. *)
(* A request with a token registers an ingress under the id, which is its  *)
(* public key, and keeps it until its session closes.  A request without   *)
(* one is relayed through the session registered at the time of its        *)
(* look-up.  All handlers share the Go map `ingresses' without a lock, so  *)
(* every access to it is a step of its own.                                *)
(***************************************************************************)
EXTENDS Integers

CONSTANTS
    Ids,        \* ingress ids: public keys, in base58
    Requests,   \* the requests the server ever handles, one goroutine each
    Skews,      \* seconds between the date header and the server's clock
    None        \* an absent map entry, or an absent token

ASSUME AetherlightAssumption ==
    /\ None \notin Ids \cup Requests
    /\ Skews \subseteq Int

MaxSkew == 5    \* seconds, the default of parseDate

VARIABLES
    pc,         \* where the handler of each request is
    req,        \* each request: id, the key its token was sealed with, skew
    ingresses,  \* the shared map: the request that registered each id
    session,    \* the smux session opened by each registering request
    ing,        \* the map entry each handler looked up
    crashed,    \* the Go runtime stopped the process: concurrent map access
    contested   \* history: ids two registering requests looked up together

vars == <<pc, req, ingresses, session, ing, crashed, contested>>

PC == {"idle", "lookup", "accept", "register", "serve", "recheck", "delete",
       "open", "relay", "done"}

Request == [id : Ids, token : Ids \cup {None}, skew : Skews]

IsMaster(r) == req[r].token # None

\* box.Open succeeds iff the token was sealed by the owner of the key that the
\* id spells, with the date as nonce, and the date is recent.
Authentic(q) ==
    /\ q.token = q.id
    /\ -MaxSkew <= q.skew /\ q.skew <= MaxSkew

Init ==
    /\ pc = [r \in Requests |-> "idle"]
    /\ req \in [Requests -> Request]
    /\ ingresses = [i \in Ids |-> None]
    /\ session = [r \in Requests |-> "none"]
    /\ ing = [r \in Requests |-> None]
    /\ crashed = FALSE
    /\ contested = {}

Goto(r, from, to) ==
    /\ ~crashed
    /\ pc[r] = from
    /\ pc' = [pc EXCEPT ![r] = to]

-----------------------------------------------------------------------------
(* The handler. *)

\* MUTANT: any token that can be read makes its bearer the master.
ArriveUnchecked(r) ==
    /\ Goto(r, "idle", "lookup")
    /\ UNCHANGED <<req, ingresses, session, ing, crashed, contested>>

\* The request arrives; a token, when there is one, is verified first.
Arrive(r) ==
    /\ Goto(r, "idle", IF IsMaster(r) /\ ~Authentic(req[r]) THEN "done" ELSE "lookup")
    /\ UNCHANGED <<req, ingresses, session, ing, crashed, contested>>

\* Another registration of the same id has passed its look-up and is not yet
\* in the map.
Racing(r) ==
    \E s \in Requests \ {r} :
        IsMaster(s) /\ req[s].id = req[r].id /\ pc[s] \in {"accept", "register"}

\* MUTANT: an egress is not turned away when the id is unknown.
LookupNoNotFound(r) ==
    LET entry == ingresses[req[r].id] IN
    /\ Goto(r, "lookup", IF IsMaster(r) /\ entry # None THEN "done" ELSE "accept")
    /\ ing' = [ing EXCEPT ![r] = entry]
    /\ contested' = contested \cup (IF IsMaster(r) /\ entry = None /\ Racing(r)
                                    THEN {req[r].id} ELSE {})
    /\ UNCHANGED <<req, ingresses, session, crashed>>

\* MUTANT: a second registration of an id is not refused.
LookupNoConflict(r) ==
    LET entry == ingresses[req[r].id] IN
    /\ Goto(r, "lookup", IF ~IsMaster(r) /\ entry = None THEN "done" ELSE "accept")
    /\ ing' = [ing EXCEPT ![r] = entry]
    /\ contested' = contested \cup (IF IsMaster(r) /\ entry = None /\ Racing(r)
                                    THEN {req[r].id} ELSE {})
    /\ UNCHANGED <<req, ingresses, session, crashed>>

\* ing, ok := ingresses[ingressID]: an egress needs an entry (else 404), a
\* registration needs its absence (else 409).
Lookup(r) ==
    LET entry == ingresses[req[r].id]
        refused == IsMaster(r) <=> entry # None
    IN
    /\ Goto(r, "lookup", IF refused THEN "done" ELSE "accept")
    /\ ing' = [ing EXCEPT ![r] = entry]
    /\ contested' = contested \cup (IF IsMaster(r) /\ entry = None /\ Racing(r)
                                    THEN {req[r].id} ELSE {})
    /\ UNCHANGED <<req, ingresses, session, crashed>>

\* MUTANT: an egress is registered as if it had come with a token.
AcceptAnyone(r) ==
    /\ \/ /\ Goto(r, "accept", "done")
          /\ UNCHANGED session
       \/ /\ Goto(r, "accept", "register")
          /\ session' = [session EXCEPT ![r] = "open"]
    /\ UNCHANGED <<req, ingresses, ing, crashed, contested>>

\* websocket.Accept fails, or upgrades; a registration then opens its session.
Accept(r) ==
    /\ \/ /\ Goto(r, "accept", "done")
          /\ UNCHANGED session
       \/ /\ IsMaster(r)
          /\ Goto(r, "accept", "register")
          /\ session' = [session EXCEPT ![r] = "open"]
       \/ /\ ~IsMaster(r)
          /\ Goto(r, "accept", "open")
          /\ UNCHANGED session
    /\ UNCHANGED <<req, ingresses, ing, crashed, contested>>

\* ingresses[ingressID] = ing, whatever the map holds by now.
Register(r) ==
    /\ Goto(r, "register", "serve")
    /\ ingresses' = [ingresses EXCEPT ![req[r].id] = r]
    /\ UNCHANGED <<req, session, ing, crashed, contested>>

\* MUTANT: the handler ends without running the deferred removal.
DisconnectedForgets(r) ==
    /\ session[r] = "closed"
    /\ Goto(r, "serve", "done")
    /\ UNCHANGED <<req, ingresses, session, ing, crashed, contested>>

\* CloseChan is closed: the handler returns and runs its deferred function.
Disconnected(r) ==
    /\ session[r] = "closed"
    /\ Goto(r, "serve", "recheck")
    /\ UNCHANGED <<req, ingresses, session, ing, crashed, contested>>

\* ingd != ing: the entry now belongs to another session, and stays.
Recheck(r) ==
    /\ Goto(r, "recheck", IF ingresses[req[r].id] # r THEN "done" ELSE "delete")
    /\ UNCHANGED <<req, ingresses, session, ing, crashed, contested>>

\* delete(ingresses, ingressID)
Delete(r) ==
    /\ Goto(r, "delete", "done")
    /\ ingresses' = [ingresses EXCEPT ![req[r].id] = None]
    /\ UNCHANGED <<req, session, ing, crashed, contested>>

\* ing.relay: a stream of the looked-up session, which may be closed by now.
Open(r) ==
    /\ Goto(r, "open", IF session[ing[r]] = "open" THEN "relay" ELSE "done")
    /\ UNCHANGED <<req, ingresses, session, ing, crashed, contested>>

\* The relay ends: either side closed, or the minute of its context is over.
EndRelay(r) ==
    /\ Goto(r, "relay", "done")
    /\ UNCHANGED <<req, ingresses, session, ing, crashed, contested>>

-----------------------------------------------------------------------------
(* The environment. *)

\* The ingress disconnects, or misses its keep-alive for three seconds.
SessionClose(r) ==
    /\ ~crashed
    /\ session[r] = "open"
    /\ session' = [session EXCEPT ![r] = "closed"]
    /\ UNCHANGED <<pc, req, ingresses, ing, crashed, contested>>

MapReads  == {"lookup", "recheck"}
MapWrites == {"register", "delete"}

\* Two handlers are at the map together and one of them writes: the runtime
\* may detect it, and then no handler recovers from the fatal error.
ConcurrentMapFatal ==
    /\ ~crashed
    /\ \E r \in Requests : \E s \in Requests \ {r} :
         pc[r] \in MapWrites /\ pc[s] \in MapReads \cup MapWrites
    /\ crashed' = TRUE
    /\ UNCHANGED <<pc, req, ingresses, session, ing, contested>>

-----------------------------------------------------------------------------
HandlerStep(r) ==
    \/ Lookup(r) \/ Accept(r) \/ Register(r) \/ Disconnected(r)
    \/ Recheck(r) \/ Delete(r) \/ Open(r) \/ EndRelay(r)

Next ==
    \/ \E r \in Requests : Arrive(r) \/ HandlerStep(r) \/ SessionClose(r)
    \/ ConcurrentMapFatal

\* Every handler goroutine that can run is run.  EndRelay is among its steps
\* because the relay's context expires after a minute.
Fairness == \A r \in Requests : WF_vars(HandlerStep(r))

Spec == Init /\ [][Next]_vars /\ Fairness

-----------------------------------------------------------------------------
(* Properties. *)

\* Every variable stays within its domain, and a handler that relays has a
\* session to relay through: ing.session is never the nil of a missing entry.
TypeOK ==
    /\ pc \in [Requests -> PC]
    /\ req \in [Requests -> Request]
    /\ ingresses \in [Ids -> Requests \cup {None}]
    /\ session \in [Requests -> {"none", "open", "closed"}]
    /\ ing \in [Requests -> Requests \cup {None}]
    /\ crashed \in BOOLEAN
    /\ contested \subseteq Ids
    /\ \A e \in Requests : pc[e] \in {"open", "relay"} => ing[e] # None

\* An entry belongs to a handler that is still there to remove it, and that
\* handler proved that it holds the private key of the id.
EntryHasLiveOwner ==
    \A i \in Ids :
        ingresses[i] # None =>
            /\ pc[ingresses[i]] \in {"serve", "recheck", "delete"}
            /\ session[ingresses[i]] # "none"
            /\ req[ingresses[i]].id = i
            /\ Authentic(req[ingresses[i]])

\* The bytes of an egress only ever reach a session that the holder of the
\* private key named in its url has opened, even when that session has left
\* the registry or has been replaced in the meantime.
RelayedToOwner ==
    \A e \in Requests :
        pc[e] = "relay" =>
            /\ req[ing[e]].id = req[e].id
            /\ Authentic(req[ing[e]])
            /\ session[ing[e]] # "none"

\* Unless two registrations of one id were past their look-ups together, a
\* connected ingress is the one its url leads to.
UncontestedIsReachable ==
    \A r \in Requests :
        pc[r] = "serve" /\ req[r].id \notin contested => ingresses[req[r].id] = r

\* A registration never pushes out another one that was not racing with it.
NoTakeover ==
    [][\A i \in Ids :
         ingresses[i] # None /\ ingresses'[i] # None /\ ingresses'[i] # ingresses[i]
            => i \in contested]_vars

\* A session that closed leaves the registry, and its id becomes free again,
\* unless the process is stopped first.
DisconnectedIsDeregistered ==
    \A r \in Requests :
        (session[r] = "closed") ~>
            (crashed \/ (pc[r] = "done" /\ \A i \in Ids : ingresses[i] # r))
================================================================================
