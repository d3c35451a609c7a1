------------------------------- MODULE Signaling -------------------------------
(***************************************************************************)
(* One negotiation between an egress and an ingress proxy over a           *)
(* SignalMessenger: EgressProxy.Start, IngressProxy.Start, trickleICE, the *)
(* readLoop of the messenger and the Noise transport below it              *)
(* (proxy-egress.go, proxy-ingress.go, ice.go, signal-messenger.go,        *)
(* messenger-noised.go).                                                   *)
(*                                                                         *)
(* Each peer runs five goroutines: Start, the trickleICE registration, the *)
(* receiver of remote candidates, the ICE gatherer that calls back with    *)
(* local candidates, and the readLoop.  The readLoop hands every message   *)
(* to its receiver over an unbuffered channel and reads no further until   *)
(* it is taken.  Start and the gatherer both write to the transport.       *)
(*                                                                         *)
(* The byte stream is reliable and ordered.  It does not fail while the    *)
(* peers signal, so that trickleICE is not restarted; what is written to a *)
(* peer that has closed its end is lost.                                   *)
(***************************************************************************)
EXTENDS Integers, Sequences, FiniteSets, SequencesExt

CONSTANTS
    Cands,      \* candidates each peer gathers
    Deadlined   \* peers with signalTimeout > 0

Peers == {"egress", "ingress"}

Other(p) == IF p = "egress" THEN "ingress" ELSE "egress"

ASSUME SignalingAssumption ==
    /\ Cands \in [Peers -> Nat]
    /\ Deadlined \subseteq Peers

VARIABLES
    start,      \* where Start is
    expired,    \* sctx has reached its deadline, signalTimeout after Start
    cancelled,  \* the context of Start has been cancelled
    remote,     \* the remote description is set
    gathered,   \* local candidates found so far
    gather,     \* the ICE gathering state
    trickle,    \* the goroutine of gatherICE
    rx,         \* the receiver of remote candidates
    rxCand,     \* the candidate it has just received
    deffered,   \* candidates that wait for the remote description
    applied,    \* candidates given to AddICECandidate, in order
    enc,        \* nonce of the sending CipherState
    writer,     \* the two goroutines that write: Start and the gatherer
    sent,       \* everything written to the stream so far
    nread,      \* messages read from the other peer's stream
    dec,        \* nonce of the receiving CipherState
    reader,     \* the readLoop
    rmsg,       \* the message it holds
    closed,     \* Close was called on the SignalMessenger
    overlap     \* history: a message was encrypted before the last was written

startVars  == <<start, cancelled, remote, closed>>
iceVars    == <<gathered, gather, trickle>>
rxVars     == <<rx, rxCand, deffered, applied>>
noiseVars  == <<enc, writer, sent, overlap>>
readerVars == <<nread, dec, reader, rmsg>>
vars == <<startVars, iceVars, rxVars, noiseVars, readerVars, expired>>

StartPC   == {"recv", "setRemote", "setLocal", "send", "sending", "wait", "run", "ended"}
TricklePC == {"none", "spawned", "on", "done"}
Writers   == {"start", "gatherer"}

\* The descriptions carry the candidates known when they are read.
Description(n) == [kind |-> "desc", n |-> n]
Candidate(n)   == [kind |-> "cand", n |-> n]
NoMessage      == [kind |-> "none", n |-> 0]

Messages(p) == {Description(n) : n \in 0..Cands[p]} \cup {Candidate(n) : n \in 1..Cands[p]}

Idle == [at |-> "idle", msg |-> NoMessage, nonce |-> 0]

Init ==
    /\ start = [egress |-> "setLocal", ingress |-> "recv"]
    /\ expired = [p \in Peers |-> FALSE]
    /\ cancelled = [p \in Peers |-> FALSE]
    /\ remote = [p \in Peers |-> FALSE]
    /\ gathered = [p \in Peers |-> 0]
    /\ gather = [p \in Peers |-> "new"]
    /\ trickle = [p \in Peers |-> "none"]
    /\ rx = [p \in Peers |-> "none"]
    /\ rxCand = [p \in Peers |-> 0]
    /\ deffered = [p \in Peers |-> <<>>]
    /\ applied = [p \in Peers |-> <<>>]
    /\ enc = [p \in Peers |-> 0]
    /\ writer = [p \in Peers |-> [w \in Writers |-> Idle]]
    /\ sent = [p \in Peers |-> <<>>]
    /\ nread = [p \in Peers |-> 0]
    /\ dec = [p \in Peers |-> 0]
    /\ reader = [p \in Peers |-> "read"]
    /\ rmsg = [p \in Peers |-> NoMessage]
    /\ closed = [p \in Peers |-> FALSE]
    /\ overlap = [p \in Peers |-> FALSE]

\* Start has not returned.  When it has, its caller closes everything and goes
\* on to a new negotiation, or log.Fatalln ends the process.
Alive(p) == start[p] # "ended"

SctxDone(p) == expired[p] \/ cancelled[p]

\* The context of trickleICE is a child of sctx; the end of gathering cancels it.
TrickleDone(p) == SctxDone(p) \/ trickle[p] = "done"

Goto(p, from, to) ==
    /\ start[p] = from
    /\ start' = [start EXCEPT ![p] = to]

-----------------------------------------------------------------------------
(* NoisedMessenger.Write, called by two goroutines without a lock. *)

\* MUTANT: the nonce of the message is taken after the increment.
EncryptNext(p, w, msg) ==
    /\ writer' = [writer EXCEPT ![p][w] = [at |-> "inc", msg |-> msg, nonce |-> enc[p] + 1]]
    /\ overlap' = [overlap EXCEPT ![p] = @ \/ \E v \in Writers \ {w} : writer[p][v].at # "idle"]

\* Encrypt seals the message under the present nonce.
Encrypt(p, w, msg) ==
    /\ writer' = [writer EXCEPT ![p][w] = [at |-> "inc", msg |-> msg, nonce |-> enc[p]]]
    /\ overlap' = [overlap EXCEPT ![p] = @ \/ \E v \in Writers \ {w} : writer[p][v].at # "idle"]

\* The increment of the nonce: a race with the other writer may lose one.
Increment(p, w) ==
    /\ Alive(p)
    /\ writer[p][w].at = "inc"
    /\ writer' = [writer EXCEPT ![p][w].at = "wire"]
    /\ \E n \in {enc[p], writer[p][w].nonce} : enc' = [enc EXCEPT ![p] = n + 1]
    /\ UNCHANGED <<startVars, iceVars, rxVars, sent, overlap, readerVars, expired>>

\* The stream once the sealed message of w is on it.
Written(p, w) ==
    [sent EXCEPT ![p] = Append(@, [msg |-> writer[p][w].msg, nonce |-> writer[p][w].nonce])]

\* chunkedIOMessenger.Write puts the sealed message on the stream.
Transmit(p, w) ==
    /\ Alive(p)
    /\ writer[p][w].at = "wire"
    /\ writer' = [writer EXCEPT ![p][w] = Idle]
    /\ sent' = Written(p, w)
    /\ IF w = "start"
       THEN Goto(p, "sending", IF p = "egress" THEN "recv" ELSE "wait")
       ELSE UNCHANGED start
    /\ UNCHANGED <<cancelled, remote, closed, iceVars, rxVars, enc, overlap, readerVars, expired>>

-----------------------------------------------------------------------------
(* Start. *)

\* SetLocalDescription, which makes the ICE agent gather; gatherICE then
\* starts its goroutine and returns at once.
SetLocalDescription(p) ==
    /\ Goto(p, "setLocal", "send")
    /\ gather' = [gather EXCEPT ![p] = "gathering"]
    /\ trickle' = [trickle EXCEPT ![p] = "spawned"]
    /\ UNCHANGED <<cancelled, remote, closed, gathered, rxVars, noiseVars, readerVars, expired>>

\* SendOffer, SendAnswer: LocalDescription() holds what is gathered by now.
SendDescription(p) ==
    /\ Goto(p, "send", "sending")
    /\ Encrypt(p, "start", Description(gathered[p]))
    /\ UNCHANGED <<cancelled, remote, closed, iceVars, rxVars, enc, sent, readerVars, expired>>

\* RecvOffer, RecvAnswer: the rendezvous with the readLoop.
RecvDescription(p) ==
    /\ reader[p] = "hold" /\ rmsg[p].kind = "desc"
    /\ Goto(p, "recv", "setRemote")
    /\ reader' = [reader EXCEPT ![p] = "read"]
    /\ rmsg' = [rmsg EXCEPT ![p] = NoMessage]
    /\ UNCHANGED <<cancelled, remote, closed, iceVars, rxVars, noiseVars, nread, dec, expired>>

\* MUTANT: the description that was received is not set.
SetRemoteDescriptionForgotten(p) ==
    /\ Goto(p, "setRemote", IF p = "egress" THEN "wait" ELSE "setLocal")
    /\ UNCHANGED <<cancelled, remote, closed, iceVars, rxVars, noiseVars, readerVars, expired>>

\* SetRemoteDescription; the egress then starts its tunnels.
SetRemoteDescription(p) ==
    /\ Goto(p, "setRemote", IF p = "egress" THEN "wait" ELSE "setLocal")
    /\ remote' = [remote EXCEPT ![p] = TRUE]
    /\ UNCHANGED <<cancelled, closed, iceVars, rxVars, noiseVars, readerVars, expired>>

\* Everything the goroutines of p hold is gone.
Gone(p) ==
    /\ rx' = [rx EXCEPT ![p] = "stopped"]
    /\ rxCand' = [rxCand EXCEPT ![p] = 0]
    /\ writer' = [writer EXCEPT ![p] = [w \in Writers |-> Idle]]
    /\ reader' = [reader EXCEPT ![p] = "stopped"]
    /\ rmsg' = [rmsg EXCEPT ![p] = NoMessage]
    /\ gather' = [gather EXCEPT ![p] = "closed"]
    /\ trickle' = [trickle EXCEPT ![p] = "done"]
    /\ gathered' = [gathered EXCEPT ![p] = 0]
    /\ deffered' = [deffered EXCEPT ![p] = <<>>]
    /\ enc' = [enc EXCEPT ![p] = 0]
    /\ nread' = [nread EXCEPT ![p] = 0]
    /\ dec' = [dec EXCEPT ![p] = 0]

\* MUTANT: a receive whose deadline has passed is tried again.
GiveUpNever(p) ==
    /\ SctxDone(p)
    /\ Goto(p, "sending", "ended")
    /\ Gone(p)
    /\ UNCHANGED <<cancelled, remote, closed, applied, sent, overlap, expired>>

\* A receive or a send ends with the error of sctx: Start returns it, and the
\* command ends the process.  The goroutine of the send may have written by then.
GiveUp(p) ==
    /\ SctxDone(p)
    /\ \E from \in {"recv", "sending"} : Goto(p, from, "ended")
    /\ Gone(p)
    /\ \/ UNCHANGED sent
       \/ writer[p]["start"].at = "wire" /\ sent' = Written(p, "start")
    /\ UNCHANGED <<cancelled, remote, closed, applied, overlap, expired>>

\* MUTANT: Start does not wait for the end of trickling or of sctx.
CloseSignalEarly(p) ==
    /\ Goto(p, "wait", "run")
    /\ closed' = [closed EXCEPT ![p] = TRUE]
    /\ reader' = [reader EXCEPT ![p] = "stopped"]
    /\ rmsg' = [rmsg EXCEPT ![p] = NoMessage]
    /\ UNCHANGED <<cancelled, remote, iceVars, rxVars, noiseVars, nread, dec, expired>>

\* chanRecv(sctx, iceDone), then signal.Close: it closes the channels, so that
\* a blocked chanSend panics and recovers, and the stream, so that the next
\* Read fails and the readLoop ends.
CloseSignal(p) ==
    /\ trickle[p] = "done" \/ SctxDone(p)
    /\ Goto(p, "wait", "run")
    /\ closed' = [closed EXCEPT ![p] = TRUE]
    /\ reader' = [reader EXCEPT ![p] = "stopped"]
    /\ rmsg' = [rmsg EXCEPT ![p] = NoMessage]
    /\ UNCHANGED <<cancelled, remote, iceVars, rxVars, noiseVars, nread, dec, expired>>

\* <-ctx.Done() and Stop.  Start returns the error that a failed connection or
\* startTunnels may have left, and the command ends the process on it.
Finish(p) ==
    /\ cancelled[p]
    /\ Goto(p, "run", "ended")
    /\ Gone(p)
    /\ UNCHANGED <<cancelled, remote, closed, applied, sent, overlap, expired>>

-----------------------------------------------------------------------------
(* trickleICE. *)

\* trickleICE registers its two handlers and starts the receiver.
RegisterHandlers(p) ==
    /\ Alive(p)
    /\ trickle[p] = "spawned"
    /\ IF SctxDone(p)
       THEN /\ trickle' = [trickle EXCEPT ![p] = "done"]
            /\ UNCHANGED rx
       ELSE /\ trickle' = [trickle EXCEPT ![p] = "on"]
            /\ rx' = [rx EXCEPT ![p] = "loop"]
    /\ UNCHANGED <<startVars, gathered, gather, rxCand, deffered, applied, noiseVars, readerVars, expired>>

\* The gatherer finds a candidate and calls the handler, if there is one yet.
Gathered(p) ==
    /\ Alive(p)
    /\ gather[p] = "gathering"
    /\ gathered[p] < Cands[p]
    /\ writer[p]["gatherer"].at = "idle"
    /\ gathered' = [gathered EXCEPT ![p] = @ + 1]
    /\ IF trickle[p] = "on" /\ ~TrickleDone(p)
       THEN Encrypt(p, "gatherer", Candidate(gathered[p] + 1))
       ELSE UNCHANGED <<writer, overlap>>
    /\ UNCHANGED <<startVars, gather, trickle, rxVars, enc, sent, readerVars, expired>>

\* Gathering is complete: the state handler, if registered, cancels the
\* context of trickleICE and closes errc, which ends gatherICE.
GatheringComplete(p) ==
    /\ Alive(p)
    /\ gather[p] = "gathering"
    /\ gathered[p] = Cands[p]
    /\ writer[p]["gatherer"].at = "idle"
    /\ gather' = [gather EXCEPT ![p] = "complete"]
    /\ trickle' = [trickle EXCEPT ![p] = IF @ = "on" THEN "done" ELSE @]
    /\ UNCHANGED <<startVars, gathered, rxVars, noiseVars, readerVars, expired>>

\* MUTANT: deffered is not emptied after its candidates were added.
ReceiverLoopKeeps(p) ==
    /\ Alive(p)
    /\ rx[p] = "loop"
    /\ IF TrickleDone(p)
       THEN /\ rx' = [rx EXCEPT ![p] = "stopped"]
            /\ UNCHANGED <<applied, deffered>>
       ELSE /\ rx' = [rx EXCEPT ![p] = "recv"]
            /\ applied' = [applied EXCEPT ![p] = IF remote[p] THEN @ \o deffered[p] ELSE @]
            /\ UNCHANGED deffered
    /\ UNCHANGED <<startVars, iceVars, rxCand, noiseVars, readerVars, expired>>

\* The head of the receiver's loop: deffered candidates are added once the
\* remote description is there, then the next one is awaited.
ReceiverLoop(p) ==
    /\ Alive(p)
    /\ rx[p] = "loop"
    /\ IF TrickleDone(p)
       THEN /\ rx' = [rx EXCEPT ![p] = "stopped"]
            /\ UNCHANGED <<applied, deffered>>
       ELSE /\ rx' = [rx EXCEPT ![p] = "recv"]
            /\ applied' = [applied EXCEPT ![p] = IF remote[p] THEN @ \o deffered[p] ELSE @]
            /\ deffered' = [deffered EXCEPT ![p] = IF remote[p] THEN <<>> ELSE @]
    /\ UNCHANGED <<startVars, iceVars, rxCand, noiseVars, readerVars, expired>>

\* RecvICECandidate: the rendezvous with the readLoop.
RecvICECandidate(p) ==
    /\ Alive(p)
    /\ rx[p] = "recv" /\ reader[p] = "hold" /\ rmsg[p].kind = "cand"
    /\ rx' = [rx EXCEPT ![p] = "got"]
    /\ rxCand' = [rxCand EXCEPT ![p] = rmsg[p].n]
    /\ reader' = [reader EXCEPT ![p] = "read"]
    /\ rmsg' = [rmsg EXCEPT ![p] = NoMessage]
    /\ UNCHANGED <<startVars, iceVars, deffered, applied, noiseVars, nread, dec, expired>>

\* RecvICECandidate fails: the context of trickleICE is done.
RecvICECandidateFails(p) ==
    /\ Alive(p)
    /\ rx[p] = "recv"
    /\ TrickleDone(p)
    /\ rx' = [rx EXCEPT ![p] = "stopped"]
    /\ UNCHANGED <<startVars, iceVars, rxCand, deffered, applied, noiseVars, readerVars, expired>>

\* A candidate is deffered before the remote description, and added after it.
AddICECandidate(p) ==
    /\ Alive(p)
    /\ rx[p] = "got"
    /\ rx' = [rx EXCEPT ![p] = "loop"]
    /\ rxCand' = [rxCand EXCEPT ![p] = 0]
    /\ IF remote[p]
       THEN /\ applied' = [applied EXCEPT ![p] = Append(@, rxCand[p])]
            /\ UNCHANGED deffered
       ELSE /\ deffered' = [deffered EXCEPT ![p] = Append(@, rxCand[p])]
            /\ UNCHANGED applied
    /\ UNCHANGED <<startVars, iceVars, noiseVars, readerVars, expired>>

-----------------------------------------------------------------------------
(* The readLoop of the SignalMessenger, over NoisedMessenger.Read. *)

Unread(p) == Len(sent[Other(p)]) > nread[p]

\* The next message decrypts only under the next nonce; an error ends the loop.
ReadMessage(p) ==
    /\ Alive(p)
    /\ reader[p] = "read" /\ Unread(p)
    /\ LET m == sent[Other(p)][nread[p] + 1] IN
       IF m.nonce = dec[p]
       THEN /\ reader' = [reader EXCEPT ![p] = "hold"]
            /\ rmsg' = [rmsg EXCEPT ![p] = m.msg]
            /\ dec' = [dec EXCEPT ![p] = @ + 1]
       ELSE /\ reader' = [reader EXCEPT ![p] = "broken"]
            /\ UNCHANGED <<rmsg, dec>>
    /\ nread' = [nread EXCEPT ![p] = @ + 1]
    /\ UNCHANGED <<startVars, iceVars, rxVars, noiseVars, expired>>

-----------------------------------------------------------------------------
(* The environment. *)

\* The deadline of sctx, one minute after Start began.
SignalTimeout(p) ==
    /\ p \in Deadlined
    /\ Alive(p)
    /\ ~expired[p]
    /\ expired' = [expired EXCEPT ![p] = TRUE]
    /\ UNCHANGED <<startVars, iceVars, rxVars, noiseVars, readerVars>>

\* The context of Start is cancelled once both descriptions are set: the peer
\* connection fails or is disconnected, and its callback stops it; or, at the
\* egress, startTunnels returns, which it does when sctx is done.
ConnectionEnds(p) ==
    /\ start[p] \in {"wait", "run"}
    /\ ~cancelled[p]
    /\ cancelled' = [cancelled EXCEPT ![p] = TRUE]
    /\ UNCHANGED <<start, remote, closed, iceVars, rxVars, noiseVars, readerVars, expired>>

-----------------------------------------------------------------------------
StartStep(p) ==
    \/ SetLocalDescription(p) \/ SendDescription(p) \/ RecvDescription(p)
    \/ SetRemoteDescription(p) \/ GiveUp(p) \/ CloseSignal(p) \/ Finish(p)

WriterStep(p, w) == Increment(p, w) \/ Transmit(p, w)

GathererStep(p) == Gathered(p) \/ GatheringComplete(p)

ReceiverStep(p) ==
    ReceiverLoop(p) \/ RecvICECandidate(p) \/ RecvICECandidateFails(p) \/ AddICECandidate(p)

\* What the goroutines of p do by themselves.
PeerStep(p) ==
    \/ StartStep(p) \/ (\E w \in Writers : WriterStep(p, w))
    \/ RegisterHandlers(p) \/ GathererStep(p) \/ ReceiverStep(p) \/ ReadMessage(p)

Next == \E p \in Peers : PeerStep(p) \/ SignalTimeout(p) \/ ConnectionEnds(p)

\* Every goroutine that can run is run: each takes finitely many steps in one
\* negotiation, so that weak fairness of all of them together is enough.  The
\* egress ends its tunnels with sctx.  Nothing else is assumed of the peer
\* connection, nor of the deadline.
Fairness ==
    WF_vars(\/ \E p \in Peers : PeerStep(p)
            \/ expired["egress"] /\ ConnectionEnds("egress"))

Spec == Init /\ [][Next]_vars /\ Fairness

-----------------------------------------------------------------------------
(* Properties. *)

WriterStates(p) ==
    [at : {"idle", "inc", "wire"}, msg : Messages(p) \cup {NoMessage}, nonce : 0..Cands[p]]

\* Every variable stays within its domain: no peer seals more than its
\* description and its candidates, and none is sealed under a nonce beyond.
TypeOK ==
    \A p \in Peers :
        /\ start[p] \in StartPC
        /\ {expired[p], cancelled[p], remote[p], closed[p], overlap[p]} \subseteq BOOLEAN
        /\ gathered[p] \in 0..Cands[p]
        /\ gather[p] \in {"new", "gathering", "complete", "closed"}
        /\ trickle[p] \in TricklePC
        /\ rx[p] \in {"none", "loop", "recv", "got", "stopped"}
        /\ rxCand[p] \in 0..Cands[Other(p)]
        /\ ToSet(deffered[p]) \cup ToSet(applied[p]) \subseteq 1..Cands[Other(p)]
        /\ enc[p] \in 0..(Cands[p] + 1)
        /\ \A w \in Writers : writer[p][w] \in WriterStates(p)
        /\ \A m \in ToSet(sent[p]) : m.msg \in Messages(p) /\ m.nonce \in 0..Cands[p]
        /\ dec[p] \in 0..nread[p] /\ nread[p] \in 0..Len(sent[Other(p)])
        /\ reader[p] \in {"read", "hold", "broken", "stopped"}
        /\ rmsg[p] \in Messages(Other(p)) \cup {NoMessage}

\* AddICECandidate is only called with a remote description, without which it
\* fails; no remote candidate is added twice, whether it was deffered or not,
\* and each one was sent by the other peer.
AppliedOnce ==
    \A p \in Peers :
        LET taken == applied[p] \o deffered[p] IN
        /\ applied[p] # <<>> => remote[p]
        /\ IsInjective(taken)
        /\ \A c \in ToSet(taken) : \E m \in ToSet(sent[Other(p)]) : m.msg = Candidate(c)

\* The readLoop stops on a message it cannot decrypt only when Start and the
\* gatherer of the other peer were inside NoisedMessenger.Write together.
BrokenOnlyByOverlap ==
    \A p \in Peers : reader[p] = "broken" => overlap[Other(p)]

\* Before its deadline a peer closes the messenger only when it has written
\* all it had to say: its description and every candidate it trickles.
ClosedWhenTrickled ==
    \A p \in Peers :
        closed[p] /\ ~SctxDone(p) =>
            /\ gathered[p] = Cands[p]
            /\ \A w \in Writers : writer[p][w].at = "idle"
            /\ \E m \in ToSet(sent[p]) : m.msg.kind = "desc"

\* A description that is written first, under the first nonce, is set by the
\* other peer, unless the deadline of that peer passes.
InOrderDescriptionArrives ==
    \A p \in Peers :
        (sent[Other(p)] # <<>> /\ sent[Other(p)][1].msg.kind = "desc"
            /\ sent[Other(p)][1].nonce = 0)
        ~> (remote[p] \/ SctxDone(p))

\* Whatever blocks it, Start leaves the exchange once its deadline passes; at
\* the egress it returns, for the tunnels end with the same deadline.
SettlesAfterDeadline ==
    \A p \in Peers :
        expired[p] ~> (~Alive(p) \/ (p = "ingress" /\ start[p] = "run"))

\* An offer that the egress sends reaches the ingress.
OfferReachesIngress ==
    (\E m \in ToSet(sent["egress"]) : m.msg.kind = "desc")
        ~> (remote["ingress"] \/ SctxDone("ingress"))
================================================================================
