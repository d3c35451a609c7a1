---------------------------- MODULE Signaling_proofs ----------------------------
(***************************************************************************)
(* Proofs about Signaling, for any number of candidates and any deadlines. *)
(***************************************************************************)
EXTENDS Signaling, SequenceTheorems, TLAPS

(* The inductive invariant. *)

Msg     == [kind : {"desc", "cand", "none"}, n : Nat]
Box     == [msg : Msg, nonce : Nat]
Writing == [at : {"idle", "inc", "wire"}, msg : Msg, nonce : Nat]

\* Every variable is a function of the peers.
Shaped ==
    /\ start \in [Peers -> StartPC]
    /\ expired \in [Peers -> BOOLEAN] /\ cancelled \in [Peers -> BOOLEAN]
    /\ remote \in [Peers -> BOOLEAN] /\ closed \in [Peers -> BOOLEAN]
    /\ overlap \in [Peers -> BOOLEAN]
    /\ gathered \in [Peers -> Nat]
    /\ gather \in [Peers -> {"new", "gathering", "complete", "closed"}]
    /\ trickle \in [Peers -> TricklePC]
    /\ rx \in [Peers -> {"none", "loop", "recv", "got", "stopped"}]
    /\ rxCand \in [Peers -> Nat]
    /\ deffered \in [Peers -> Seq(Nat)] /\ applied \in [Peers -> Seq(Nat)]
    /\ enc \in [Peers -> Nat]
    /\ writer \in [Peers -> [Writers -> Writing]]
    /\ sent \in [Peers -> Seq(Box)]
    /\ nread \in [Peers -> Nat] /\ dec \in [Peers -> Nat]
    /\ reader \in [Peers -> {"read", "hold", "broken", "stopped"}]
    /\ rmsg \in [Peers -> Msg]

\* Without a deadline, Start closes the messenger after the end of gathering,
\* and gathering ends when nothing is being written.
Winds(p) ==
    /\ closed[p] => start[p] \in {"run", "ended"}
    /\ start[p] = "ended" => SctxDone(p)
    /\ start[p] = "run" => SctxDone(p) \/ trickle[p] = "done"
    /\ trickle[p] = "done" => SctxDone(p) \/ gather[p] = "complete"
    /\ gather[p] = "complete" => gathered[p] = Cands[p] /\ writer[p]["gatherer"].at = "idle"
    /\ gathered[p] <= Cands[p]

\* Start has sealed its description; it has written it.
Sealed(p) ==
    start[p] \in {"sending", "wait", "run", "ended"}
    \/ (p = "egress" /\ start[p] \in {"recv", "setRemote"})
Told(p) ==
    start[p] \in {"wait", "run"} \/ (p = "egress" /\ start[p] \in {"recv", "setRemote"})

\* What each of the two writers writes, and when.
Writes(p) ==
    /\ writer[p]["start"].at # "idle" =>
          start[p] = "sending" /\ \E n \in 0..Cands[p] : writer[p]["start"].msg = Description(n)
    /\ writer[p]["gatherer"].at # "idle" =>
          gathered[p] > 0 /\ writer[p]["gatherer"].msg = Candidate(gathered[p])
    /\ Told(p) => \E i \in 1..Len(sent[p]) : sent[p][i].msg.kind = "desc"
    /\ \A i \in 1..Len(sent[p]) : sent[p][i].msg \in Messages(p)

\* There is a nonce for the description and for each candidate found, less
\* the ones that the writers are about to take.
Incs(p, w) == IF writer[p][w].at = "inc" THEN 1 ELSE 0
Room(p) ==
    (IF Sealed(p) THEN 1 ELSE 0) + gathered[p] - Incs(p, "start") - Incs(p, "gatherer")
Nonces(p) ==
    /\ enc[p] <= Room(p)
    /\ \A w \in Writers : /\ writer[p][w].at = "inc" => writer[p][w].nonce <= Room(p)
                          /\ writer[p][w].nonce <= Cands[p]
    /\ \A i \in 1..Len(sent[p]) : sent[p][i].nonce <= Cands[p]

\* Where the writers never met, the messages are sealed in the order they are
\* written, each under its place in it.
Ready(p) == /\ writer[p]["start"].at = "idle" /\ writer[p]["gatherer"].at = "idle"
            /\ enc[p] = Len(sent[p])
Busy(p, w, v) ==
    /\ writer[p][w].at # "idle" /\ writer[p][v].at = "idle"
    /\ writer[p][w].nonce = Len(sent[p])
    /\ enc[p] = IF writer[p][w].at = "inc" THEN Len(sent[p]) ELSE Len(sent[p]) + 1
InSequence(p) ==
    ~overlap[p] =>
        /\ \A i \in 1..Len(sent[p]) : sent[p][i].nonce = i - 1
        /\ Alive(p) => Ready(p) \/ Busy(p, "start", "gatherer") \/ Busy(p, "gatherer", "start")

\* No candidate is written twice.
Distinct(p) ==
    /\ \A i, j \in 1..Len(sent[p]) :
          (i < j /\ sent[p][i].msg.kind = "cand" /\ sent[p][j].msg.kind = "cand") =>
              sent[p][i].msg.n # sent[p][j].msg.n
    /\ Alive(p) =>
          \A i \in 1..Len(sent[p]) : sent[p][i].msg.kind = "cand" =>
              /\ sent[p][i].msg.n <= gathered[p]
              /\ writer[p]["gatherer"].at # "idle" => sent[p][i].msg.n < gathered[p]

\* The readLoop of p is at a place in what the other peer has written.
Reads(p) ==
    LET q == Other(p) IN
    /\ nread[p] <= Len(sent[q]) /\ dec[p] <= nread[p]
    /\ ~overlap[q] => dec[p] = nread[p] /\ reader[p] # "broken"
    /\ reader[p] = "hold" => nread[p] > 0 /\ rmsg[p] = sent[q][nread[p]].msg
    /\ reader[p] # "hold" => rmsg[p] = NoMessage

\* The messages that have left the readLoop; the candidates among them.
Handled(p) == IF reader[p] = "hold" THEN nread[p] - 1 ELSE nread[p]
Came(p, c, k) == \E i \in 1..k : sent[Other(p)][i].msg = Candidate(c)
Takes(p) ==
    /\ applied[p] # <<>> => remote[p]
    /\ IsInjective(applied[p]) /\ IsInjective(deffered[p])
    /\ ToSet(applied[p]) \cap ToSet(deffered[p]) = {}
    /\ \A c \in ToSet(applied[p]) \cup ToSet(deffered[p]) : Came(p, c, Len(sent[Other(p)]))
    /\ Alive(p) => \A c \in ToSet(applied[p]) \cup ToSet(deffered[p]) : Came(p, c, Handled(p))
    /\ rx[p] = "got" => /\ Alive(p) /\ Came(p, rxCand[p], Handled(p))
                        /\ rxCand[p] \notin ToSet(applied[p]) \cup ToSet(deffered[p])
    /\ rx[p] # "got" => rxCand[p] = 0

\* A writer that is idle holds nothing.
Clean(p) == \A w \in Writers : writer[p][w].at = "idle" => writer[p][w] = Idle

\* The receiver is started by trickleICE, and trickleICE once, when the local
\* description is set.
Unstarted(p) ==
    start[p] = "setLocal" \/ (p = "ingress" /\ start[p] \in {"recv", "setRemote"})
Fresh(p) ==
    /\ Unstarted(p) => trickle[p] = "none"
    /\ trickle[p] \in {"none", "spawned"} => rx[p] = "none"

Sends(p) == Winds(p) /\ Writes(p) /\ Nonces(p) /\ InSequence(p) /\ Distinct(p)
Receives(p) == Fresh(p) /\ Reads(p) /\ Takes(p)

IInv == Shaped /\ \A p \in Peers : Sends(p) /\ Clean(p) /\ Receives(p)
-----------------------------------------------------------------------------
(* What each step changes. *)

SameStart(q) ==
    /\ start'[q] = start[q] /\ cancelled'[q] = cancelled[q]
    /\ remote'[q] = remote[q] /\ closed'[q] = closed[q]
SameIce(q) == gathered'[q] = gathered[q] /\ gather'[q] = gather[q] /\ trickle'[q] = trickle[q]
SameRx(q) ==
    /\ rx'[q] = rx[q] /\ rxCand'[q] = rxCand[q]
    /\ deffered'[q] = deffered[q] /\ applied'[q] = applied[q]
SameNoise(q) ==
    /\ enc'[q] = enc[q] /\ writer'[q] = writer[q]
    /\ sent'[q] = sent[q] /\ overlap'[q] = overlap[q]
SameReader(q) ==
    /\ nread'[q] = nread[q] /\ dec'[q] = dec[q]
    /\ reader'[q] = reader[q] /\ rmsg'[q] = rmsg[q]
Same(q) ==
    /\ SameStart(q) /\ SameIce(q) /\ SameRx(q) /\ SameNoise(q) /\ SameReader(q)
    /\ expired'[q] = expired[q]
OthersSame(p) == \A q \in Peers \ {p} : Same(q)

\* One of the writers of p is at x.
LEMMA WriterPut ==
    ASSUME Shaped, NEW p \in Peers, NEW w \in Writers, NEW x \in Writing,
           writer' = [writer EXCEPT ![p][w] = x]
    PROVE  /\ writer' \in [Peers -> [Writers -> Writing]]
           /\ writer'[p][w] = x
           /\ \A v \in Writers \ {w} : writer'[p][v] = writer[p][v]
           /\ \A q \in Peers \ {p} : writer'[q] = writer[q]
<1>1. writer \in [Peers -> [Writers -> Writing]]
  BY DEF Shaped
<1>2. QED
  BY <1>1

\* A message is sealed.
LEMMA EncryptIs ==
    ASSUME Shaped, NEW p \in Peers, NEW w \in Writers, NEW v \in Writers, v # w,
           NEW m \in Msg, Encrypt(p, w, m)
    PROVE  /\ writer' \in [Peers -> [Writers -> Writing]]
           /\ writer'[p][w] = [at |-> "inc", msg |-> m, nonce |-> enc[p]]
           /\ writer'[p][v] = writer[p][v]
           /\ \A q \in Peers \ {p} : writer'[q] = writer[q] /\ overlap'[q] = overlap[q]
           /\ overlap' \in [Peers -> BOOLEAN]
           /\ overlap'[p] = (overlap[p] \/ writer[p][v].at # "idle")
<1> DEFINE x == [at |-> "inc", msg |-> m, nonce |-> enc[p]]
           o == \E u \in Writers \ {w} : writer[p][u].at # "idle"
<1>1. x \in Writing
  BY DEF Writing, Shaped
<1>2. writer' = [writer EXCEPT ![p][w] = x]
  BY DEF Encrypt
<1> HIDE DEF x
<1>3. /\ writer' \in [Peers -> [Writers -> Writing]]
      /\ writer'[p][w] = x /\ writer'[p][v] = writer[p][v]
      /\ \A q \in Peers \ {p} : writer'[q] = writer[q]
  BY <1>1, <1>2, WriterPut
<1>4. o <=> writer[p][v].at # "idle"
  BY DEF Writers
<1>5. overlap' = [overlap EXCEPT ![p] = @ \/ o] /\ overlap \in [Peers -> BOOLEAN]
  BY DEF Encrypt, Shaped
<1>6. overlap' = [overlap EXCEPT ![p] = overlap[p] \/ writer[p][v].at # "idle"]
  BY <1>4, <1>5, Zenon
<1>7. QED
  BY <1>3, <1>5, <1>6 DEF x

\* SetLocalDescription starts the gathering.
LEMMA SetLocalDescriptionIs ==
    ASSUME Shaped, NEW p \in Peers, SetLocalDescription(p)
    PROVE  /\ Shaped' /\ OthersSame(p)
           /\ start[p] = "setLocal" /\ start'[p] = "send"
           /\ gather'[p] = "gathering" /\ trickle'[p] = "spawned"
           /\ cancelled'[p] = cancelled[p] /\ remote'[p] = remote[p]
           /\ closed'[p] = closed[p] /\ gathered'[p] = gathered[p] /\ expired'[p] = expired[p]
           /\ SameRx(p) /\ SameNoise(p) /\ SameReader(p)
  BY DEF SetLocalDescription, Goto, StartPC, TricklePC, rxVars, noiseVars, readerVars,
     Shaped, OthersSame, Same, SameStart, SameIce, SameRx,
     SameNoise, SameReader

\* Start seals its description.
LEMMA SendDescriptionIs ==
    ASSUME Shaped, NEW p \in Peers, SendDescription(p)
    PROVE  /\ Shaped' /\ OthersSame(p)
           /\ start[p] = "send" /\ start'[p] = "sending"
           /\ writer'[p]["start"] = [at |-> "inc", msg |-> Description(gathered[p]), nonce |-> enc[p]]
           /\ writer'[p]["gatherer"] = writer[p]["gatherer"]
           /\ overlap'[p] = (overlap[p] \/ writer[p]["gatherer"].at # "idle")
           /\ enc'[p] = enc[p] /\ sent'[p] = sent[p]
           /\ cancelled'[p] = cancelled[p] /\ remote'[p] = remote[p]
           /\ closed'[p] = closed[p] /\ expired'[p] = expired[p]
           /\ SameIce(p) /\ SameRx(p) /\ SameReader(p)
<1>1. /\ start' = [start EXCEPT ![p] = "sending"] /\ start[p] = "send"
      /\ UNCHANGED <<cancelled, remote, closed, expired, enc, sent>>
      /\ UNCHANGED <<gathered, gather, trickle, rx, rxCand, deffered, applied>>
      /\ UNCHANGED <<nread, dec, reader, rmsg>>
      /\ Encrypt(p, "start", Description(gathered[p]))
  BY DEF SendDescription, Goto, iceVars, rxVars, readerVars
<1>2. Description(gathered[p]) \in Msg /\ "start" \in Writers /\ "gatherer" \in Writers
  BY DEF Shaped, Description, Msg, Writers
<1>3. /\ writer' \in [Peers -> [Writers -> Writing]] /\ overlap' \in [Peers -> BOOLEAN]
      /\ writer'[p]["start"] =
            [at |-> "inc", msg |-> Description(gathered[p]), nonce |-> enc[p]]
      /\ writer'[p]["gatherer"] = writer[p]["gatherer"]
      /\ \A q \in Peers \ {p} : writer'[q] = writer[q] /\ overlap'[q] = overlap[q]
      /\ overlap'[p] = (overlap[p] \/ writer[p]["gatherer"].at # "idle")
  BY <1>1, <1>2, EncryptIs
<1>4. /\ start' \in [Peers -> StartPC] /\ start'[p] = "sending"
      /\ \A q \in Peers \ {p} : start'[q] = start[q]
  BY <1>1 DEF Shaped, StartPC
<1>5. Shaped'
  BY <1>1, <1>3, <1>4 DEF Shaped
<1>6. OthersSame(p)
  BY <1>1, <1>3, <1>4 DEF OthersSame, Same, SameStart, SameIce, SameRx, SameNoise, SameReader
<1>7. QED
  BY <1>1, <1>3, <1>4, <1>5, <1>6 DEF SameIce, SameRx, SameReader

\* Start takes a description from the readLoop.
LEMMA RecvDescriptionIs ==
    ASSUME Shaped, NEW p \in Peers, RecvDescription(p)
    PROVE  /\ Shaped' /\ OthersSame(p)
           /\ start[p] = "recv" /\ start'[p] = "setRemote"
           /\ reader[p] = "hold" /\ reader'[p] = "read" /\ rmsg'[p] = NoMessage
           /\ nread'[p] = nread[p] /\ dec'[p] = dec[p]
           /\ cancelled'[p] = cancelled[p] /\ remote'[p] = remote[p]
           /\ closed'[p] = closed[p] /\ expired'[p] = expired[p]
           /\ SameIce(p) /\ SameRx(p) /\ SameNoise(p)
  BY DEF RecvDescription, Goto, StartPC, NoMessage, Msg, iceVars, rxVars, noiseVars,
     Shaped, OthersSame, Same, SameStart, SameIce, SameRx,
     SameNoise, SameReader

\* The remote description is set.
LEMMA SetRemoteDescriptionIs ==
    ASSUME Shaped, NEW p \in Peers, SetRemoteDescription(p)
    PROVE  /\ Shaped' /\ OthersSame(p)
           /\ start[p] = "setRemote" /\ start'[p] = (IF p = "egress" THEN "wait" ELSE "setLocal")
           /\ remote'[p] = TRUE
           /\ cancelled'[p] = cancelled[p] /\ closed'[p] = closed[p] /\ expired'[p] = expired[p]
           /\ SameIce(p) /\ SameRx(p) /\ SameNoise(p) /\ SameReader(p)
  BY DEF SetRemoteDescription, Goto, StartPC, iceVars, rxVars, noiseVars, readerVars,
     Shaped, OthersSame, Same, SameStart, SameIce, SameRx,
     SameNoise, SameReader

\* The messenger is closed.
LEMMA CloseSignalIs ==
    ASSUME Shaped, NEW p \in Peers, CloseSignal(p)
    PROVE  /\ Shaped' /\ OthersSame(p)
           /\ start[p] = "wait" /\ start'[p] = "run"
           /\ trickle[p] = "done" \/ SctxDone(p)
           /\ closed'[p] = TRUE /\ reader'[p] = "stopped" /\ rmsg'[p] = NoMessage
           /\ nread'[p] = nread[p] /\ dec'[p] = dec[p]
           /\ cancelled'[p] = cancelled[p] /\ remote'[p] = remote[p] /\ expired'[p] = expired[p]
           /\ SameIce(p) /\ SameRx(p) /\ SameNoise(p)
  BY DEF CloseSignal, Goto, StartPC, NoMessage, Msg, iceVars, rxVars, noiseVars,
     Shaped, OthersSame, Same, SameStart, SameIce, SameRx,
     SameNoise, SameReader

\* A writer takes its nonce.
LEMMA IncrementIs ==
    ASSUME Shaped, NEW p \in Peers, NEW w \in Writers, Increment(p, w)
    PROVE  /\ Shaped' /\ OthersSame(p)
           /\ Alive(p) /\ writer[p][w].at = "inc"
           /\ writer'[p][w] = [writer[p][w] EXCEPT !.at = "wire"]
           /\ \A v \in Writers \ {w} : writer'[p][v] = writer[p][v]
           /\ enc'[p] = enc[p] + 1 \/ enc'[p] = writer[p][w].nonce + 1
           /\ sent'[p] = sent[p] /\ overlap'[p] = overlap[p]
           /\ expired'[p] = expired[p]
           /\ SameStart(p) /\ SameIce(p) /\ SameRx(p) /\ SameReader(p)
<1> DEFINE x == [writer[p][w] EXCEPT !.at = "wire"]
<1>1. /\ Alive(p) /\ writer[p][w].at = "inc"
      /\ writer' = [writer EXCEPT ![p][w].at = "wire"]
      /\ UNCHANGED <<start, cancelled, remote, closed, expired, sent, overlap>>
      /\ UNCHANGED <<gathered, gather, trickle, rx, rxCand, deffered, applied>>
      /\ UNCHANGED <<nread, dec, reader, rmsg>>
  BY DEF Increment, startVars, iceVars, rxVars, readerVars
<1>2. x \in Writing /\ writer[p][w].nonce \in Nat
  <2>1. writer[p][w] \in Writing
    BY DEF Shaped
  <2>2. QED
    BY <2>1 DEF Writing
<1>3. writer' = [writer EXCEPT ![p][w] = x]
  BY <1>1
<1> HIDE DEF x
<1>4. /\ writer' \in [Peers -> [Writers -> Writing]]
      /\ writer'[p][w] = x
      /\ \A v \in Writers \ {w} : writer'[p][v] = writer[p][v]
      /\ \A q \in Peers \ {p} : writer'[q] = writer[q]
  BY <1>2, <1>3, WriterPut
<1>5. /\ enc' \in [Peers -> Nat]
      /\ enc'[p] = enc[p] + 1 \/ enc'[p] = writer[p][w].nonce + 1
      /\ \A q \in Peers \ {p} : enc'[q] = enc[q]
  <2>1. PICK n \in {enc[p], writer[p][w].nonce} : enc' = [enc EXCEPT ![p] = n + 1]
    BY DEF Increment
  <2>2. n \in Nat /\ enc \in [Peers -> Nat]
    BY <1>2, <2>1 DEF Shaped
  <2>3. QED
    BY <2>1, <2>2
<1>6. Shaped'
  BY <1>1, <1>4, <1>5 DEF Shaped
<1>7. OthersSame(p)
  BY <1>1, <1>4, <1>5 DEF OthersSame, Same, SameStart, SameIce, SameRx, SameNoise, SameReader
<1>8. QED
  BY <1>1, <1>4, <1>5, <1>6, <1>7 DEF SameStart, SameIce, SameRx, SameReader, x

\* trickleICE registers its handlers, or finds that it is too late.
LEMMA RegisterHandlersIs ==
    ASSUME Shaped, NEW p \in Peers, RegisterHandlers(p)
    PROVE  /\ Shaped' /\ OthersSame(p)
           /\ Alive(p) /\ trickle[p] = "spawned"
           /\ \/ SctxDone(p) /\ trickle'[p] = "done" /\ rx'[p] = rx[p]
              \/ ~SctxDone(p) /\ trickle'[p] = "on" /\ rx'[p] = "loop"
           /\ gathered'[p] = gathered[p] /\ gather'[p] = gather[p]
           /\ rxCand'[p] = rxCand[p] /\ deffered'[p] = deffered[p] /\ applied'[p] = applied[p]
           /\ expired'[p] = expired[p]
           /\ SameStart(p) /\ SameNoise(p) /\ SameReader(p)
<1>1. /\ Alive(p) /\ trickle[p] = "spawned"
      /\ UNCHANGED <<start, cancelled, remote, closed, expired, gathered, gather>>
      /\ UNCHANGED <<rxCand, deffered, applied, enc, writer, sent, overlap>>
      /\ UNCHANGED <<nread, dec, reader, rmsg>>
  BY DEF RegisterHandlers, startVars, noiseVars, readerVars
<1>2. /\ trickle' \in [Peers -> TricklePC]
      /\ rx' \in [Peers -> {"none", "loop", "recv", "got", "stopped"}]
      /\ \A q \in Peers \ {p} : trickle'[q] = trickle[q] /\ rx'[q] = rx[q]
      /\ \/ SctxDone(p) /\ trickle'[p] = "done" /\ rx'[p] = rx[p]
         \/ ~SctxDone(p) /\ trickle'[p] = "on" /\ rx'[p] = "loop"
  <2>1. /\ trickle \in [Peers -> TricklePC]
        /\ rx \in [Peers -> {"none", "loop", "recv", "got", "stopped"}]
    BY DEF Shaped
  <2>2. \/ SctxDone(p) /\ trickle' = [trickle EXCEPT ![p] = "done"] /\ rx' = rx
        \/ /\ ~SctxDone(p) /\ trickle' = [trickle EXCEPT ![p] = "on"]
           /\ rx' = [rx EXCEPT ![p] = "loop"]
    BY DEF RegisterHandlers
  <2>3. CASE SctxDone(p)
    BY <2>1, <2>2, <2>3 DEF TricklePC
  <2>4. CASE ~SctxDone(p)
    BY <2>1, <2>2, <2>4 DEF TricklePC
  <2>5. QED
    BY <2>3, <2>4
<1>3. Shaped'
  BY <1>1, <1>2 DEF Shaped
<1>4. OthersSame(p)
  BY <1>1, <1>2 DEF OthersSame, Same, SameStart, SameIce, SameRx, SameNoise, SameReader
<1>5. QED
  BY <1>1, <1>2, <1>3, <1>4 DEF SameStart, SameNoise, SameReader

\* A local candidate is found, and sealed if there is a handler.
LEMMA GatheredIs ==
    ASSUME Shaped, NEW p \in Peers, Gathered(p)
    PROVE  /\ Shaped' /\ OthersSame(p)
           /\ Alive(p) /\ gather[p] = "gathering" /\ gathered[p] < Cands[p]
           /\ writer[p]["gatherer"].at = "idle"
           /\ gathered'[p] = gathered[p] + 1
           /\ \/ writer'[p] = writer[p] /\ overlap'[p] = overlap[p]
              \/ /\ writer'[p]["gatherer"] =
                      [at |-> "inc", msg |-> Candidate(gathered[p] + 1), nonce |-> enc[p]]
                 /\ writer'[p]["start"] = writer[p]["start"]
                 /\ overlap'[p] = (overlap[p] \/ writer[p]["start"].at # "idle")
           /\ gather'[p] = gather[p] /\ trickle'[p] = trickle[p]
           /\ enc'[p] = enc[p] /\ sent'[p] = sent[p]
           /\ expired'[p] = expired[p]
           /\ SameStart(p) /\ SameRx(p) /\ SameReader(p)
<1>1. /\ Alive(p) /\ gather[p] = "gathering" /\ gathered[p] < Cands[p]
      /\ writer[p]["gatherer"].at = "idle"
      /\ gathered' = [gathered EXCEPT ![p] = @ + 1]
      /\ Encrypt(p, "gatherer", Candidate(gathered[p] + 1)) \/ UNCHANGED <<writer, overlap>>
      /\ UNCHANGED <<start, cancelled, remote, closed, expired, gather, trickle, enc, sent>>
      /\ UNCHANGED <<rx, rxCand, deffered, applied>>
      /\ UNCHANGED <<nread, dec, reader, rmsg>>
  BY DEF Gathered, startVars, rxVars, readerVars
<1>2. /\ gathered' \in [Peers -> Nat] /\ gathered'[p] = gathered[p] + 1
      /\ \A q \in Peers \ {p} : gathered'[q] = gathered[q]
  BY <1>1 DEF Shaped
<1>3. /\ writer' \in [Peers -> [Writers -> Writing]] /\ overlap' \in [Peers -> BOOLEAN]
      /\ \A q \in Peers \ {p} : writer'[q] = writer[q] /\ overlap'[q] = overlap[q]
      /\ \/ writer'[p] = writer[p] /\ overlap'[p] = overlap[p]
         \/ /\ writer'[p]["gatherer"] =
                 [at |-> "inc", msg |-> Candidate(gathered[p] + 1), nonce |-> enc[p]]
            /\ writer'[p]["start"] = writer[p]["start"]
            /\ overlap'[p] = (overlap[p] \/ writer[p]["start"].at # "idle")
  <2>1. CASE UNCHANGED <<writer, overlap>>
    BY <2>1 DEF Shaped
  <2>2. CASE Encrypt(p, "gatherer", Candidate(gathered[p] + 1))
    <3>1. /\ Candidate(gathered[p] + 1) \in Msg
          /\ "start" \in Writers /\ "gatherer" \in Writers
      BY DEF Shaped, Candidate, Msg, Writers
    <3>2. QED
      BY <2>2, <3>1, EncryptIs
  <2>3. QED
    BY <1>1, <2>1, <2>2
<1>4. Shaped'
  BY <1>1, <1>2, <1>3 DEF Shaped
<1>5. OthersSame(p)
  BY <1>1, <1>2, <1>3 DEF OthersSame, Same, SameStart, SameIce, SameRx, SameNoise, SameReader
<1>6. QED
  BY <1>1, <1>2, <1>3, <1>4, <1>5 DEF SameStart, SameRx, SameReader

\* Gathering is complete.
LEMMA GatheringCompleteIs ==
    ASSUME Shaped, NEW p \in Peers, GatheringComplete(p)
    PROVE  /\ Shaped' /\ OthersSame(p)
           /\ Alive(p) /\ gathered[p] = Cands[p] /\ writer[p]["gatherer"].at = "idle"
           /\ gather[p] = "gathering" /\ gather'[p] = "complete"
           /\ trickle'[p] = trickle[p] \/ (trickle[p] = "on" /\ trickle'[p] = "done")
           /\ gathered'[p] = gathered[p]
           /\ expired'[p] = expired[p]
           /\ SameStart(p) /\ SameRx(p) /\ SameNoise(p) /\ SameReader(p)
  BY DEF GatheringComplete, TricklePC, startVars, rxVars, noiseVars, readerVars,
     Shaped, OthersSame, Same, SameStart, SameIce, SameRx,
     SameNoise, SameReader

\* The head of the loop of the receiver.
LEMMA ReceiverLoopIs ==
    ASSUME Shaped, NEW p \in Peers, ReceiverLoop(p)
    PROVE  /\ Shaped' /\ OthersSame(p)
           /\ Alive(p) /\ rx[p] = "loop" /\ rxCand'[p] = rxCand[p]
           /\ \/ rx'[p] = "stopped" /\ applied'[p] = applied[p] /\ deffered'[p] = deffered[p]
              \/ /\ rx'[p] = "recv" /\ ~remote[p]
                 /\ applied'[p] = applied[p] /\ deffered'[p] = deffered[p]
              \/ /\ rx'[p] = "recv" /\ remote[p]
                 /\ applied'[p] = applied[p] \o deffered[p] /\ deffered'[p] = <<>>
           /\ expired'[p] = expired[p]
           /\ SameStart(p) /\ SameIce(p) /\ SameNoise(p) /\ SameReader(p)
<1>1. /\ Alive(p) /\ rx[p] = "loop" /\ rxCand' = rxCand
      /\ UNCHANGED <<start, cancelled, remote, closed, expired, gathered, gather, trickle>>
      /\ UNCHANGED <<enc, writer, sent, overlap, nread, dec, reader, rmsg>>
  BY DEF ReceiverLoop, startVars, iceVars, noiseVars, readerVars
<1> DEFINE a == applied[p] \o deffered[p]
<1>2. a \in Seq(Nat)
  BY ConcatProperties DEF Shaped
<1>3. \/ /\ rx' = [rx EXCEPT ![p] = "stopped"] /\ UNCHANGED <<applied, deffered>>
      \/ /\ ~remote[p] /\ rx' = [rx EXCEPT ![p] = "recv"]
         /\ applied' = [applied EXCEPT ![p] = applied[p]]
         /\ deffered' = [deffered EXCEPT ![p] = deffered[p]]
      \/ /\ remote[p] /\ rx' = [rx EXCEPT ![p] = "recv"]
         /\ applied' = [applied EXCEPT ![p] = a]
         /\ deffered' = [deffered EXCEPT ![p] = <<>>]
  BY DEF ReceiverLoop
<1> HIDE DEF a
<1>4. /\ rx' \in [Peers -> {"none", "loop", "recv", "got", "stopped"}]
      /\ applied' \in [Peers -> Seq(Nat)] /\ deffered' \in [Peers -> Seq(Nat)]
      /\ \A q \in Peers \ {p} :
            rx'[q] = rx[q] /\ applied'[q] = applied[q] /\ deffered'[q] = deffered[q]
      /\ \/ rx'[p] = "stopped" /\ applied'[p] = applied[p] /\ deffered'[p] = deffered[p]
         \/ /\ rx'[p] = "recv" /\ ~remote[p]
            /\ applied'[p] = applied[p] /\ deffered'[p] = deffered[p]
         \/ rx'[p] = "recv" /\ remote[p] /\ applied'[p] = a /\ deffered'[p] = <<>>
  <2>1. /\ applied \in [Peers -> Seq(Nat)] /\ deffered \in [Peers -> Seq(Nat)]
        /\ rx \in [Peers -> {"none", "loop", "recv", "got", "stopped"}]
        /\ applied[p] \in Seq(Nat) /\ deffered[p] \in Seq(Nat) /\ <<>> \in Seq(Nat)
    BY DEF Shaped
  <2>2. CASE rx' = [rx EXCEPT ![p] = "stopped"] /\ UNCHANGED <<applied, deffered>>
    BY <2>1, <2>2
  <2>3. CASE /\ ~remote[p] /\ rx' = [rx EXCEPT ![p] = "recv"]
             /\ applied' = [applied EXCEPT ![p] = applied[p]]
             /\ deffered' = [deffered EXCEPT ![p] = deffered[p]]
    BY <2>1, <2>3
  <2>4. CASE /\ remote[p] /\ rx' = [rx EXCEPT ![p] = "recv"]
             /\ applied' = [applied EXCEPT ![p] = a]
             /\ deffered' = [deffered EXCEPT ![p] = <<>>]
    BY <1>2, <2>1, <2>4
  <2>5. QED
    BY <1>3, <2>2, <2>3, <2>4
<1>5. Shaped'
  BY <1>1, <1>4 DEF Shaped
<1>6. OthersSame(p)
  BY <1>1, <1>4 DEF OthersSame, Same, SameStart, SameIce, SameRx, SameNoise, SameReader
<1>7. QED
  BY <1>1, <1>4, <1>5, <1>6 DEF SameStart, SameIce, SameNoise, SameReader, a

\* The receiver takes a candidate from the readLoop.
LEMMA RecvICECandidateIs ==
    ASSUME Shaped, NEW p \in Peers, RecvICECandidate(p)
    PROVE  /\ Shaped' /\ OthersSame(p)
           /\ Alive(p) /\ rx[p] = "recv" /\ rx'[p] = "got"
           /\ reader[p] = "hold" /\ rmsg[p].kind = "cand" /\ rxCand'[p] = rmsg[p].n
           /\ reader'[p] = "read" /\ rmsg'[p] = NoMessage
           /\ nread'[p] = nread[p] /\ dec'[p] = dec[p]
           /\ deffered'[p] = deffered[p] /\ applied'[p] = applied[p]
           /\ expired'[p] = expired[p]
           /\ SameStart(p) /\ SameIce(p) /\ SameNoise(p)
  BY DEF RecvICECandidate, NoMessage, Msg, startVars, iceVars, noiseVars,
     Shaped, OthersSame, Same, SameStart, SameIce, SameRx,
     SameNoise, SameReader

\* The receiver ends.
LEMMA RecvICECandidateFailsIs ==
    ASSUME Shaped, NEW p \in Peers, RecvICECandidateFails(p)
    PROVE  /\ Shaped' /\ OthersSame(p)
           /\ Alive(p) /\ rx[p] = "recv" /\ rx'[p] = "stopped"
           /\ rxCand'[p] = rxCand[p] /\ deffered'[p] = deffered[p] /\ applied'[p] = applied[p]
           /\ expired'[p] = expired[p]
           /\ SameStart(p) /\ SameIce(p) /\ SameNoise(p) /\ SameReader(p)
  BY DEF RecvICECandidateFails, startVars, iceVars, noiseVars, readerVars,
     Shaped, OthersSame, Same, SameStart, SameIce, SameRx,
     SameNoise, SameReader

\* A candidate is added, or deffered.
LEMMA AddICECandidateIs ==
    ASSUME Shaped, NEW p \in Peers, AddICECandidate(p)
    PROVE  /\ Shaped' /\ OthersSame(p)
           /\ Alive(p) /\ rx[p] = "got" /\ rx'[p] = "loop" /\ rxCand'[p] = 0
           /\ \/ /\ remote[p] /\ deffered'[p] = deffered[p]
                 /\ applied'[p] = Append(applied[p], rxCand[p])
              \/ /\ ~remote[p] /\ applied'[p] = applied[p]
                 /\ deffered'[p] = Append(deffered[p], rxCand[p])
           /\ expired'[p] = expired[p]
           /\ SameStart(p) /\ SameIce(p) /\ SameNoise(p) /\ SameReader(p)
<1>1. /\ Alive(p) /\ rx[p] = "got" /\ rx' = [rx EXCEPT ![p] = "loop"]
      /\ rxCand' = [rxCand EXCEPT ![p] = 0]
      /\ UNCHANGED <<start, cancelled, remote, closed, expired, gathered, gather, trickle>>
      /\ UNCHANGED <<enc, writer, sent, overlap, nread, dec, reader, rmsg>>
  BY DEF AddICECandidate, startVars, iceVars, noiseVars, readerVars
<1> DEFINE a == Append(applied[p], rxCand[p])
           d == Append(deffered[p], rxCand[p])
<1>2. a \in Seq(Nat) /\ d \in Seq(Nat)
  BY AppendProperties DEF Shaped
<1>3. \/ remote[p] /\ applied' = [applied EXCEPT ![p] = a] /\ deffered' = deffered
      \/ ~remote[p] /\ deffered' = [deffered EXCEPT ![p] = d] /\ applied' = applied
  BY DEF AddICECandidate
<1> HIDE DEF a, d
<1>4. /\ rx' \in [Peers -> {"none", "loop", "recv", "got", "stopped"}]
      /\ rxCand' \in [Peers -> Nat] /\ rx'[p] = "loop" /\ rxCand'[p] = 0
      /\ \A q \in Peers \ {p} : rx'[q] = rx[q] /\ rxCand'[q] = rxCand[q]
  BY <1>1 DEF Shaped
<1>5. /\ applied' \in [Peers -> Seq(Nat)] /\ deffered' \in [Peers -> Seq(Nat)]
      /\ \A q \in Peers \ {p} : applied'[q] = applied[q] /\ deffered'[q] = deffered[q]
      /\ \/ remote[p] /\ applied'[p] = a /\ deffered'[p] = deffered[p]
         \/ ~remote[p] /\ deffered'[p] = d /\ applied'[p] = applied[p]
  <2>1. applied \in [Peers -> Seq(Nat)] /\ deffered \in [Peers -> Seq(Nat)]
    BY DEF Shaped
  <2>2. CASE remote[p] /\ applied' = [applied EXCEPT ![p] = a] /\ deffered' = deffered
    BY <1>2, <2>1, <2>2
  <2>3. CASE ~remote[p] /\ deffered' = [deffered EXCEPT ![p] = d] /\ applied' = applied
    BY <1>2, <2>1, <2>3
  <2>4. QED
    BY <1>3, <2>2, <2>3
<1>6. Shaped'
  BY <1>1, <1>4, <1>5 DEF Shaped
<1>7. OthersSame(p)
  BY <1>1, <1>4, <1>5 DEF OthersSame, Same, SameStart, SameIce, SameRx, SameNoise, SameReader
<1>8. QED
  BY <1>1, <1>4, <1>5, <1>6, <1>7 DEF SameStart, SameIce, SameNoise, SameReader, a, d

\* The deadline passes.
LEMMA SignalTimeoutIs ==
    ASSUME Shaped, NEW p \in Peers, SignalTimeout(p)
    PROVE  /\ Shaped' /\ OthersSame(p)
           /\ Alive(p) /\ expired'[p] = TRUE
           /\ SameStart(p) /\ SameIce(p) /\ SameRx(p) /\ SameNoise(p) /\ SameReader(p)
  BY DEF SignalTimeout, startVars, iceVars, rxVars, noiseVars, readerVars,
     Shaped, OthersSame, Same, SameStart, SameIce, SameRx,
     SameNoise, SameReader

\* The context of Start is cancelled.
LEMMA ConnectionEndsIs ==
    ASSUME Shaped, NEW p \in Peers, ConnectionEnds(p)
    PROVE  /\ Shaped' /\ OthersSame(p)
           /\ start[p] \in {"wait", "run"} /\ cancelled'[p] = TRUE
           /\ start'[p] = start[p] /\ remote'[p] = remote[p]
           /\ closed'[p] = closed[p] /\ expired'[p] = expired[p]
           /\ SameIce(p) /\ SameRx(p) /\ SameNoise(p) /\ SameReader(p)
  BY DEF ConnectionEnds, iceVars, rxVars, noiseVars, readerVars, Shaped, OthersSame, Same, SameStart, SameIce, SameRx,
     SameNoise, SameReader

\* The two peers.
LEMMA OtherIs ==
    ASSUME NEW p \in Peers
    PROVE  Other(p) \in Peers /\ Other(p) # p /\ Other(Other(p)) = p
           /\ \A q \in Peers : q = p \/ q = Other(p)
  BY DEF Other, Peers

\* The readLoop reads a message, and decrypts it or not.
LEMMA ReadMessageIs ==
    ASSUME Shaped, NEW p \in Peers, ReadMessage(p)
    PROVE  /\ Shaped' /\ OthersSame(p)
           /\ Alive(p) /\ reader[p] = "read" /\ nread[p] + 1 \in 1..Len(sent[Other(p)])
           /\ nread'[p] = nread[p] + 1
           /\ \/ /\ sent[Other(p)][nread[p] + 1].nonce = dec[p] /\ dec'[p] = dec[p] + 1
                 /\ reader'[p] = "hold" /\ rmsg'[p] = sent[Other(p)][nread[p] + 1].msg
              \/ /\ sent[Other(p)][nread[p] + 1].nonce # dec[p] /\ dec'[p] = dec[p]
                 /\ reader'[p] = "broken" /\ rmsg'[p] = rmsg[p]
           /\ expired'[p] = expired[p]
           /\ SameStart(p) /\ SameIce(p) /\ SameRx(p) /\ SameNoise(p)
<1> DEFINE m == sent[Other(p)][nread[p] + 1]
<1>1. /\ Alive(p) /\ reader[p] = "read" /\ Unread(p)
      /\ nread' = [nread EXCEPT ![p] = @ + 1]
      /\ UNCHANGED <<start, cancelled, remote, closed, expired, gathered, gather, trickle>>
      /\ UNCHANGED <<rx, rxCand, deffered, applied, enc, writer, sent, overlap>>
  BY DEF ReadMessage, startVars, iceVars, rxVars, noiseVars
<1>2. \/ /\ m.nonce = dec[p] /\ dec' = [dec EXCEPT ![p] = @ + 1]
         /\ reader' = [reader EXCEPT ![p] = "hold"] /\ rmsg' = [rmsg EXCEPT ![p] = m.msg]
      \/ /\ m.nonce # dec[p] /\ UNCHANGED <<rmsg, dec>>
         /\ reader' = [reader EXCEPT ![p] = "broken"]
  BY DEF ReadMessage
<1>3. nread[p] + 1 \in 1..Len(sent[Other(p)]) /\ m.msg \in Msg
  <2>1. sent[Other(p)] \in Seq(Box) /\ nread[p] \in Nat
    BY OtherIs DEF Shaped
  <2>2. nread[p] + 1 \in 1..Len(sent[Other(p)])
    BY <1>1, <2>1, LenProperties DEF Unread
  <2>3. m \in Box
    BY <2>1, <2>2, ElementOfSeq
  <2>4. QED
    BY <2>2, <2>3 DEF Box
<1> HIDE DEF m
<1>4. /\ nread' \in [Peers -> Nat] /\ nread'[p] = nread[p] + 1
      /\ \A q \in Peers \ {p} : nread'[q] = nread[q]
  BY <1>1 DEF Shaped
<1>5. /\ dec' \in [Peers -> Nat] /\ rmsg' \in [Peers -> Msg]
      /\ reader' \in [Peers -> {"read", "hold", "broken", "stopped"}]
      /\ \A q \in Peers \ {p} :
            dec'[q] = dec[q] /\ rmsg'[q] = rmsg[q] /\ reader'[q] = reader[q]
      /\ \/ /\ m.nonce = dec[p] /\ dec'[p] = dec[p] + 1
            /\ reader'[p] = "hold" /\ rmsg'[p] = m.msg
         \/ /\ m.nonce # dec[p] /\ dec'[p] = dec[p]
            /\ reader'[p] = "broken" /\ rmsg'[p] = rmsg[p]
  <2>1. /\ dec \in [Peers -> Nat] /\ rmsg \in [Peers -> Msg]
        /\ reader \in [Peers -> {"read", "hold", "broken", "stopped"}]
    BY DEF Shaped
  <2>2. CASE m.nonce = dec[p]
    BY <1>2, <1>3, <2>1, <2>2
  <2>3. CASE m.nonce # dec[p]
    BY <1>2, <2>1, <2>3
  <2>4. QED
    BY <2>2, <2>3
<1>6. Shaped'
  BY <1>1, <1>4, <1>5 DEF Shaped
<1>7. OthersSame(p)
  BY <1>1, <1>4, <1>5 DEF OthersSame, Same, SameStart, SameIce, SameRx, SameNoise, SameReader
<1>8. QED
  BY <1>1, <1>3, <1>4, <1>5, <1>6, <1>7 DEF SameStart, SameIce, SameRx, SameNoise, m

\* The stream with the message of w.
LEMMA WrittenIs ==
    ASSUME Shaped, NEW p \in Peers, NEW w \in Writers, sent' = Written(p, w)
    PROVE  /\ sent' \in [Peers -> Seq(Box)]
           /\ sent'[p] = Append(sent[p], [msg |-> writer[p][w].msg, nonce |-> writer[p][w].nonce])
           /\ \A q \in Peers \ {p} : sent'[q] = sent[q]
<1> DEFINE b == [msg |-> writer[p][w].msg, nonce |-> writer[p][w].nonce]
           s == Append(sent[p], b)
<1>1. writer[p][w] \in Writing
  BY DEF Shaped
<1>2. b \in Box
  BY <1>1 DEF Writing, Box
<1>3. sent' = [sent EXCEPT ![p] = s] /\ sent \in [Peers -> Seq(Box)]
  BY DEF Written, Shaped
<1> HIDE DEF b
<1>4. s \in Seq(Box)
  BY <1>2, <1>3, AppendProperties
<1> HIDE DEF s
<1>5. sent' \in [Peers -> Seq(Box)] /\ sent'[p] = s /\ \A q \in Peers \ {p} : sent'[q] = sent[q]
  BY <1>3, <1>4
<1>6. QED
  BY <1>5 DEF s, b

\* A message is on the stream.
LEMMA TransmitIs ==
    ASSUME Shaped, NEW p \in Peers, NEW w \in Writers, Transmit(p, w)
    PROVE  /\ Shaped' /\ OthersSame(p)
           /\ Alive(p) /\ writer[p][w].at = "wire" /\ writer'[p][w] = Idle
           /\ \A v \in Writers \ {w} : writer'[p][v] = writer[p][v]
           /\ sent'[p] = Append(sent[p], [msg |-> writer[p][w].msg, nonce |-> writer[p][w].nonce])
           /\ \/ /\ w = "start" /\ start[p] = "sending"
                 /\ start'[p] = (IF p = "egress" THEN "recv" ELSE "wait")
              \/ w = "gatherer" /\ start'[p] = start[p]
           /\ enc'[p] = enc[p] /\ overlap'[p] = overlap[p]
           /\ cancelled'[p] = cancelled[p] /\ remote'[p] = remote[p]
           /\ closed'[p] = closed[p] /\ expired'[p] = expired[p]
           /\ SameIce(p) /\ SameRx(p) /\ SameReader(p)
<1>1. /\ Alive(p) /\ writer[p][w].at = "wire"
      /\ writer' = [writer EXCEPT ![p][w] = Idle]
      /\ sent' = Written(p, w)
      /\ UNCHANGED <<cancelled, remote, closed, expired, gathered, gather, trickle>>
      /\ UNCHANGED <<rx, rxCand, deffered, applied, enc, overlap, nread, dec, reader, rmsg>>
  BY DEF Transmit, iceVars, rxVars, readerVars
<1>2. Idle \in Writing
  BY DEF Idle, NoMessage, Msg, Writing
<1>3. /\ writer' \in [Peers -> [Writers -> Writing]] /\ writer'[p][w] = Idle
      /\ \A v \in Writers \ {w} : writer'[p][v] = writer[p][v]
      /\ \A q \in Peers \ {p} : writer'[q] = writer[q]
  BY <1>1, <1>2, WriterPut
<1>4. /\ sent' \in [Peers -> Seq(Box)]
      /\ sent'[p] = Append(sent[p], [msg |-> writer[p][w].msg, nonce |-> writer[p][w].nonce])
      /\ \A q \in Peers \ {p} : sent'[q] = sent[q]
  BY <1>1, WrittenIs
<1>5. /\ start' \in [Peers -> StartPC] /\ \A q \in Peers \ {p} : start'[q] = start[q]
      /\ \/ /\ w = "start" /\ start[p] = "sending"
            /\ start'[p] = (IF p = "egress" THEN "recv" ELSE "wait")
         \/ w = "gatherer" /\ start'[p] = start[p]
  <2>1. start \in [Peers -> StartPC]
    BY DEF Shaped
  <2>2. CASE w = "start"
    <3>1. /\ start[p] = "sending"
          /\ start' = [start EXCEPT ![p] = IF p = "egress" THEN "recv" ELSE "wait"]
      BY <2>2 DEF Transmit, Goto
    <3>2. QED
      BY <2>1, <2>2, <3>1 DEF StartPC
  <2>3. CASE w = "gatherer"
    BY <2>1, <2>3 DEF Transmit
  <2>4. QED
    BY <2>2, <2>3 DEF Writers
<1>6. Shaped'
  BY <1>1, <1>3, <1>4, <1>5 DEF Shaped
<1>7. OthersSame(p)
  BY <1>1, <1>3, <1>4, <1>5
     DEF OthersSame, Same, SameStart, SameIce, SameRx, SameNoise, SameReader
<1>8. QED
  BY <1>1, <1>3, <1>4, <1>5, <1>6, <1>7 DEF SameIce, SameRx, SameReader

\* The state of a peer that is gone.
Left(p) ==
    /\ rx'[p] = "stopped" /\ rxCand'[p] = 0 /\ deffered'[p] = <<>>
    /\ writer'[p]["start"] = Idle /\ writer'[p]["gatherer"] = Idle
    /\ reader'[p] = "stopped" /\ rmsg'[p] = NoMessage
    /\ gather'[p] = "closed" /\ trickle'[p] = "done" /\ gathered'[p] = 0
    /\ enc'[p] = 0 /\ nread'[p] = 0 /\ dec'[p] = 0
    /\ applied'[p] = applied[p] /\ overlap'[p] = overlap[p]
    /\ cancelled'[p] = cancelled[p] /\ remote'[p] = remote[p]
    /\ closed'[p] = closed[p] /\ expired'[p] = expired[p]

\* Start returns: it has given up, or its connection has ended.
LEMMA ReturnIs ==
    ASSUME Shaped, NEW p \in Peers, GiveUp(p) \/ Finish(p)
    PROVE  /\ Shaped' /\ OthersSame(p) /\ Left(p) /\ SctxDone(p)
           /\ start'[p] = "ended"
           /\ \/ sent'[p] = sent[p]
              \/ /\ writer[p]["start"].at = "wire" /\ Alive(p)
                 /\ sent'[p] = Append(sent[p], [msg |-> writer[p]["start"].msg,
                                                nonce |-> writer[p]["start"].nonce])
<1>1. /\ Gone(p) /\ SctxDone(p) /\ start' = [start EXCEPT ![p] = "ended"] /\ Alive(p)
      /\ sent' = sent \/ (writer[p]["start"].at = "wire" /\ sent' = Written(p, "start"))
      /\ UNCHANGED <<cancelled, remote, closed, applied, overlap, expired>>
  BY DEF GiveUp, Finish, Goto, SctxDone, Alive
<1>2. /\ start' \in [Peers -> StartPC] /\ start'[p] = "ended"
      /\ \A q \in Peers \ {p} : start'[q] = start[q]
  BY <1>1 DEF Shaped, StartPC
<1>3. /\ sent' \in [Peers -> Seq(Box)] /\ \A q \in Peers \ {p} : sent'[q] = sent[q]
      /\ \/ sent'[p] = sent[p]
         \/ /\ writer[p]["start"].at = "wire"
            /\ sent'[p] = Append(sent[p], [msg |-> writer[p]["start"].msg,
                                           nonce |-> writer[p]["start"].nonce])
  <2>1. CASE sent' = sent
    BY <2>1 DEF Shaped
  <2>2. CASE writer[p]["start"].at = "wire" /\ sent' = Written(p, "start")
    <3>1. "start" \in Writers
      BY DEF Writers
    <3>2. QED
      BY <2>2, <3>1, WrittenIs
  <2>3. QED
    BY <1>1, <2>1, <2>2
<1>4. /\ rx' \in [Peers -> {"none", "loop", "recv", "got", "stopped"}]
      /\ rxCand' \in [Peers -> Nat] /\ deffered' \in [Peers -> Seq(Nat)]
      /\ rx'[p] = "stopped" /\ rxCand'[p] = 0 /\ deffered'[p] = <<>>
      /\ \A q \in Peers \ {p} :
            rx'[q] = rx[q] /\ rxCand'[q] = rxCand[q] /\ deffered'[q] = deffered[q]
  BY <1>1 DEF Gone, Shaped
<1>5. /\ reader' \in [Peers -> {"read", "hold", "broken", "stopped"}]
      /\ rmsg' \in [Peers -> Msg] /\ nread' \in [Peers -> Nat] /\ dec' \in [Peers -> Nat]
      /\ reader'[p] = "stopped" /\ rmsg'[p] = NoMessage /\ nread'[p] = 0 /\ dec'[p] = 0
      /\ \A q \in Peers \ {p} : SameReader(q)
  BY <1>1 DEF Gone, Shaped, NoMessage, Msg, SameReader
<1>6. /\ gather' \in [Peers -> {"new", "gathering", "complete", "closed"}]
      /\ trickle' \in [Peers -> TricklePC] /\ gathered' \in [Peers -> Nat]
      /\ gather'[p] = "closed" /\ trickle'[p] = "done" /\ gathered'[p] = 0
      /\ \A q \in Peers \ {p} : SameIce(q)
  BY <1>1 DEF Gone, Shaped, TricklePC, SameIce
<1>7. /\ writer' \in [Peers -> [Writers -> Writing]] /\ enc' \in [Peers -> Nat]
      /\ writer'[p]["start"] = Idle /\ writer'[p]["gatherer"] = Idle /\ enc'[p] = 0
      /\ \A q \in Peers \ {p} : writer'[q] = writer[q] /\ enc'[q] = enc[q]
  <2>1. Idle \in Writing
    BY DEF Idle, NoMessage, Msg, Writing
  <2>2. /\ writer' = [writer EXCEPT ![p] = [w \in Writers |-> Idle]]
        /\ enc' = [enc EXCEPT ![p] = 0]
        /\ writer \in [Peers -> [Writers -> Writing]] /\ enc \in [Peers -> Nat]
    BY <1>1 DEF Gone, Shaped
  <2>3. QED
    BY <2>1, <2>2 DEF Writers
<1>8. Shaped'
  BY <1>1, <1>2, <1>3, <1>4, <1>5, <1>6, <1>7 DEF Shaped
<1>9. OthersSame(p)
  BY <1>1, <1>2, <1>3, <1>4, <1>5, <1>6, <1>7
     DEF OthersSame, Same, SameStart, SameRx, SameNoise
<1>10. Left(p)
  BY <1>1, <1>4, <1>5, <1>6, <1>7 DEF Left
<1>11. QED
  BY <1>1, <1>2, <1>3, <1>8, <1>9, <1>10
-----------------------------------------------------------------------------
(* The sender. *)

Step(p) == PeerStep(p) \/ SignalTimeout(p) \/ ConnectionEnds(p)

\* The end of the negotiation, in each step.
LEMMA WindsKept ==
    ASSUME Shaped, NEW p \in Peers, Winds(p), Step(p)
    PROVE  Winds(p)'
<1> USE DEF Winds, SctxDone
<1>0. Cands[p] \in Nat /\ gathered[p] \in Nat
  BY SignalingAssumption DEF Shaped
<1>1. CASE SetLocalDescription(p)
  BY <1>1, SetLocalDescriptionIs DEF SameNoise
<1>2. CASE SendDescription(p)
  BY <1>2, SendDescriptionIs DEF SameIce
<1>3. CASE RecvDescription(p)
  BY <1>3, RecvDescriptionIs DEF SameIce, SameNoise
<1>4. CASE SetRemoteDescription(p)
  BY <1>4, SetRemoteDescriptionIs DEF SameIce, SameNoise
<1>5. CASE GiveUp(p) \/ Finish(p)
  <2>1. /\ start'[p] = "ended" /\ gather'[p] = "closed" /\ gathered'[p] = 0
        /\ expired'[p] = expired[p] /\ cancelled'[p] = cancelled[p]
        /\ expired[p] \/ cancelled[p]
    BY <1>5, ReturnIs DEF Left
  <2>2. expired'[p] \/ cancelled'[p]
    BY <2>1
  <2>3. 0 <= Cands[p]
    BY <1>0
  <2>4. QED
    BY <2>1, <2>2, <2>3
<1>6. CASE CloseSignal(p)
  BY <1>6, CloseSignalIs DEF SameIce, SameNoise
<1>7. ASSUME NEW w \in Writers, Increment(p, w) PROVE Winds(p)'
  <2>1. /\ SameStart(p) /\ SameIce(p) /\ expired'[p] = expired[p]
        /\ writer[p][w].at = "inc"
        /\ \A v \in Writers \ {w} : writer'[p][v] = writer[p][v]
    BY <1>7, IncrementIs
  <2>2. writer[p]["gatherer"].at = "idle" => writer'[p]["gatherer"].at = "idle"
    BY <2>1 DEF Writers
  <2>3. QED
    BY <2>1, <2>2 DEF SameStart, SameIce
<1>8. ASSUME NEW w \in Writers, Transmit(p, w) PROVE Winds(p)'
  <2>1. /\ SameIce(p) /\ cancelled'[p] = cancelled[p] /\ closed'[p] = closed[p]
        /\ expired'[p] = expired[p] /\ writer[p][w].at = "wire"
        /\ \A v \in Writers \ {w} : writer'[p][v] = writer[p][v]
        /\ \/ start[p] = "sending" /\ start'[p] \in {"recv", "wait"}
           \/ start'[p] = start[p]
    BY <1>8, TransmitIs
  <2>2. writer[p]["gatherer"].at = "idle" => writer'[p]["gatherer"].at = "idle"
    BY <2>1 DEF Writers
  <2>3. QED
    BY <2>1, <2>2 DEF SameIce
<1>9. CASE RegisterHandlers(p)
  BY <1>9, RegisterHandlersIs DEF SameStart, SameNoise
<1>10. CASE Gathered(p)
  <2>1. /\ SameStart(p) /\ expired'[p] = expired[p]
        /\ gather[p] = "gathering" /\ gather'[p] = gather[p] /\ trickle'[p] = trickle[p]
        /\ gathered[p] < Cands[p] /\ gathered'[p] = gathered[p] + 1
    BY <1>10, GatheredIs
  <2>2. gathered'[p] <= Cands[p]
    BY <1>0, <2>1
  <2>3. QED
    BY <2>1, <2>2 DEF SameStart
<1>11. CASE GatheringComplete(p)
  BY <1>11, GatheringCompleteIs DEF SameStart, SameNoise
<1>12. CASE ReceiverLoop(p)
  BY <1>12, ReceiverLoopIs DEF SameStart, SameIce, SameNoise
<1>13. CASE RecvICECandidate(p)
  BY <1>13, RecvICECandidateIs DEF SameStart, SameIce, SameNoise
<1>14. CASE RecvICECandidateFails(p)
  BY <1>14, RecvICECandidateFailsIs DEF SameStart, SameIce, SameNoise
<1>15. CASE AddICECandidate(p)
  BY <1>15, AddICECandidateIs DEF SameStart, SameIce, SameNoise
<1>16. CASE ReadMessage(p)
  BY <1>16, ReadMessageIs DEF SameStart, SameIce, SameNoise
<1>17. CASE SignalTimeout(p)
  BY <1>17, SignalTimeoutIs DEF SameStart, SameIce, SameNoise
<1>18. CASE ConnectionEnds(p)
  BY <1>18, ConnectionEndsIs DEF SameIce, SameNoise
<1>19. QED
  BY <1>1, <1>2, <1>3, <1>4, <1>5, <1>6, <1>7, <1>8, <1>9, <1>10, <1>11, <1>12, <1>13,
     <1>14, <1>15, <1>16, <1>17, <1>18
     DEF Step, PeerStep, StartStep, WriterStep, GathererStep, ReceiverStep

\* The sender rests: nothing is sealed, written or found.
Rests(p) ==
    /\ SameNoise(p) /\ gathered'[p] = gathered[p]
    /\ start'[p] = start[p] \/ (start[p] # "sending" /\ start'[p] \notin {"sending", "ended"})
    /\ (Told(p)' => Told(p)) /\ (Sealed(p)' <=> Sealed(p)) /\ (Alive(p)' => Alive(p))

\* The steps in which the sender rests.
LEMMA RestingSteps ==
    ASSUME Shaped, NEW p \in Peers,
           \/ SetLocalDescription(p) \/ RecvDescription(p) \/ SetRemoteDescription(p)
           \/ CloseSignal(p) \/ RegisterHandlers(p) \/ GatheringComplete(p)
           \/ ReceiverStep(p) \/ ReadMessage(p) \/ SignalTimeout(p) \/ ConnectionEnds(p)
    PROVE  Rests(p)
<1> USE DEF Rests, Told, Sealed, Alive
<1>1. CASE SetLocalDescription(p)
  BY <1>1, SetLocalDescriptionIs
<1>2. CASE RecvDescription(p)
  BY <1>2, RecvDescriptionIs DEF SameIce
<1>3. CASE SetRemoteDescription(p)
  BY <1>3, SetRemoteDescriptionIs DEF SameIce
<1>4. CASE CloseSignal(p)
  BY <1>4, CloseSignalIs DEF SameIce
<1>5. ASSUME start'[p] = start[p], SameNoise(p), gathered'[p] = gathered[p] PROVE Rests(p)
  BY <1>5
<1> HIDE DEF Rests
<1>6. CASE RegisterHandlers(p)
  BY <1>5, <1>6, RegisterHandlersIs DEF SameStart
<1>7. CASE GatheringComplete(p)
  BY <1>5, <1>7, GatheringCompleteIs DEF SameStart
<1>8. CASE ReceiverLoop(p)
  BY <1>5, <1>8, ReceiverLoopIs DEF SameStart, SameIce
<1>9. CASE RecvICECandidate(p)
  BY <1>5, <1>9, RecvICECandidateIs DEF SameStart, SameIce
<1>10. CASE RecvICECandidateFails(p)
  BY <1>5, <1>10, RecvICECandidateFailsIs DEF SameStart, SameIce
<1>11. CASE AddICECandidate(p)
  BY <1>5, <1>11, AddICECandidateIs DEF SameStart, SameIce
<1>12. CASE ReadMessage(p)
  BY <1>5, <1>12, ReadMessageIs DEF SameStart, SameIce
<1>13. CASE SignalTimeout(p)
  BY <1>5, <1>13, SignalTimeoutIs DEF SameStart, SameIce
<1>14. CASE ConnectionEnds(p)
  BY <1>5, <1>14, ConnectionEndsIs DEF SameIce
<1>15. QED
  BY <1>1, <1>2, <1>3, <1>4, <1>6, <1>7, <1>8, <1>9, <1>10, <1>11, <1>12, <1>13, <1>14
     DEF ReceiverStep

\* A sender that rests.
LEMMA RestKeeps ==
    ASSUME Shaped, NEW p \in Peers, Rests(p),
           Writes(p), Nonces(p), InSequence(p), Distinct(p)
    PROVE  Writes(p)' /\ Nonces(p)' /\ InSequence(p)' /\ Distinct(p)'
<1>1. /\ enc'[p] = enc[p] /\ writer'[p] = writer[p] /\ sent'[p] = sent[p]
      /\ overlap'[p] = overlap[p] /\ gathered'[p] = gathered[p]
      /\ start'[p] = start[p] \/ (start[p] # "sending" /\ start'[p] \notin {"sending", "ended"})
      /\ (Told(p)' => Told(p)) /\ (Sealed(p)' <=> Sealed(p)) /\ (Alive(p)' => Alive(p))
  BY DEF Rests, SameNoise
<1>2. Writes(p)'
  <2>1. (start[p] = "sending") => (start'[p] = "sending")
    BY <1>1
  <2>2. QED
    BY <1>1, <2>1 DEF Writes
<1>3. Nonces(p)'
  <2>1. Incs(p, "start")' = Incs(p, "start") /\ Incs(p, "gatherer")' = Incs(p, "gatherer")
    BY <1>1 DEF Incs
  <2>2. Room(p)' = Room(p)
    BY <1>1, <2>1 DEF Room
  <2>3. QED
    BY <1>1, <2>2 DEF Nonces
<1>4. InSequence(p)'
  BY <1>1 DEF InSequence, Ready, Busy
<1>5. Distinct(p)'
  BY <1>1 DEF Distinct
<1>6. QED
  BY <1>2, <1>3, <1>4, <1>5

\* A peer of which nothing changes.
LEMMA SameKeeps ==
    ASSUME Shaped, NEW p \in Peers, Same(p), Sends(p)
    PROVE  Sends(p)'
<1>1. Winds(p)'
  BY DEF Same, SameStart, SameIce, SameNoise, Winds, SctxDone, Sends
<1>2. Rests(p)
  BY DEF Same, SameStart, SameIce, Rests, Told, Sealed, Alive
<1>3. QED
  BY <1>1, <1>2, RestKeeps DEF Sends

\* The numbers that the sender counts with.
LEMMA Numbers ==
    ASSUME Shaped, NEW p \in Peers
    PROVE  /\ Cands[p] \in Nat /\ gathered[p] \in Nat /\ enc[p] \in Nat
           /\ \A w \in Writers : writer[p][w] \in Writing /\ writer[p][w].nonce \in Nat
           /\ sent[p] \in Seq(Box) /\ Len(sent[p]) \in Nat
           /\ \A w \in Writers : Incs(p, w) \in {0, 1}
           /\ "start" \in Writers /\ "gatherer" \in Writers
           /\ \A i \in 1..Len(sent[p]) : /\ sent[p][i] \in Box
                                         /\ sent[p][i].msg.n \in Nat
                                         /\ sent[p][i].nonce \in Nat
<1>1. /\ gathered[p] \in Nat /\ enc[p] \in Nat /\ sent[p] \in Seq(Box)
      /\ \A w \in Writers : writer[p][w] \in Writing
  BY DEF Shaped
<1>2. Cands[p] \in Nat
  BY SignalingAssumption
<1>3. \A w \in Writers : writer[p][w].nonce \in Nat
  BY <1>1 DEF Writing
<1>4. Len(sent[p]) \in Nat /\ \A i \in 1..Len(sent[p]) : sent[p][i] \in Box
  BY <1>1, LenProperties, ElementOfSeq
<1>5. \A b \in Box : b.msg.n \in Nat /\ b.nonce \in Nat
  BY DEF Box, Msg
<1>6. \A w \in Writers : Incs(p, w) \in {0, 1}
  BY DEF Incs
<1>7. QED
  BY <1>1, <1>2, <1>3, <1>4, <1>5, <1>6 DEF Writers

\* Start seals its description.
LEMMA SendDescriptionKeeps ==
    ASSUME Shaped, NEW p \in Peers, Sends(p), SendDescription(p)
    PROVE  Writes(p)' /\ Nonces(p)' /\ InSequence(p)' /\ Distinct(p)'
<1> DEFINE x == [at |-> "inc", msg |-> Description(gathered[p]), nonce |-> enc[p]]
<1>1. /\ start[p] = "send" /\ start'[p] = "sending"
      /\ writer'[p]["start"] = x
      /\ writer'[p]["gatherer"] = writer[p]["gatherer"]
      /\ overlap'[p] = (overlap[p] \/ writer[p]["gatherer"].at # "idle")
      /\ enc'[p] = enc[p] /\ sent'[p] = sent[p] /\ gathered'[p] = gathered[p]
  BY SendDescriptionIs DEF SameIce
<1>2. x.at = "inc" /\ x.msg = Description(gathered[p]) /\ x.nonce = enc[p]
  OBVIOUS
<1> HIDE DEF x
<1>3. /\ writer[p]["start"].at = "idle" /\ gathered[p] \in 0..Cands[p]
      /\ Cands[p] \in Nat /\ gathered[p] \in Nat /\ enc[p] \in Nat
  BY <1>1, Numbers DEF Sends, Writes, Winds
<1>4. Writes(p)'
  <2>1. ~Told(p)'
    BY <1>1 DEF Told
  <2>2. \E n \in 0..Cands[p] : writer'[p]["start"].msg = Description(n)
    BY <1>1, <1>2, <1>3
  <2>3. QED
    BY <1>1, <2>1, <2>2 DEF Sends, Writes
<1>5. Nonces(p)'
  <2>1. ~Sealed(p) /\ Sealed(p)'
    BY <1>1 DEF Sealed
  <2>2. /\ Incs(p, "start") = 0 /\ Incs(p, "start")' = 1
        /\ Incs(p, "gatherer")' = Incs(p, "gatherer") /\ Incs(p, "gatherer") \in {0, 1}
    BY <1>1, <1>2, <1>3 DEF Incs
  <2>3. Room(p)' = Room(p) /\ Room(p) \in Int /\ Room(p) <= Cands[p]
    BY <1>1, <1>3, <2>1, <2>2 DEF Room
  <2>4. enc[p] <= Room(p) /\ enc[p] <= Cands[p]
    BY <1>3, <2>3 DEF Sends, Nonces
  <2>5. QED
    BY <1>1, <1>2, <2>3, <2>4 DEF Sends, Nonces, Writers
<1>6. InSequence(p)'
  <2>1. SUFFICES ASSUME ~overlap'[p]
                 PROVE  /\ \A i \in 1..Len(sent[p]) : sent[p][i].nonce = i - 1
                        /\ Busy(p, "start", "gatherer")'
    BY <1>1 DEF InSequence
  <2>2. ~overlap[p] /\ writer[p]["gatherer"].at = "idle"
    BY <1>1, <2>1
  <2>3. Alive(p)
    BY <1>1 DEF Alive
  <2>4. enc[p] = Len(sent[p]) /\ \A i \in 1..Len(sent[p]) : sent[p][i].nonce = i - 1
    BY <1>3, <2>2, <2>3 DEF Sends, InSequence, Ready, Busy
  <2>5. QED
    BY <1>1, <1>2, <2>2, <2>4 DEF Busy
<1>7. Distinct(p)'
  <2>1. Alive(p)
    BY <1>1 DEF Alive
  <2>2. QED
    BY <1>1, <2>1 DEF Sends, Distinct
<1>8. QED
  BY <1>4, <1>5, <1>6, <1>7

\* A candidate is found, and perhaps sealed.
LEMMA GatheredKeeps ==
    ASSUME Shaped, NEW p \in Peers, Sends(p), Gathered(p)
    PROVE  Writes(p)' /\ Nonces(p)' /\ InSequence(p)' /\ Distinct(p)'
<1> DEFINE x == [at |-> "inc", msg |-> Candidate(gathered[p] + 1), nonce |-> enc[p]]
<1>1. /\ Alive(p) /\ gathered[p] < Cands[p] /\ writer[p]["gatherer"].at = "idle"
      /\ gathered'[p] = gathered[p] + 1
      /\ \/ writer'[p] = writer[p] /\ overlap'[p] = overlap[p]
         \/ /\ writer'[p]["gatherer"] = x
            /\ writer'[p]["start"] = writer[p]["start"]
            /\ overlap'[p] = (overlap[p] \/ writer[p]["start"].at # "idle")
      /\ enc'[p] = enc[p] /\ sent'[p] = sent[p] /\ start'[p] = start[p]
  BY GatheredIs DEF SameStart
<1>2. x.at = "inc" /\ x.msg = Candidate(gathered[p] + 1) /\ x.nonce = enc[p]
  OBVIOUS
<1> HIDE DEF x
<1>3. Cands[p] \in Nat /\ gathered[p] \in Nat /\ enc[p] \in Nat /\ Len(sent[p]) \in Nat
  BY Numbers
<1>4. (Told(p)' <=> Told(p)) /\ (Sealed(p)' <=> Sealed(p)) /\ (Alive(p)' <=> Alive(p))
  BY <1>1 DEF Told, Sealed, Alive
<1>5. \A i \in 1..Len(sent[p]) : sent[p][i].msg.kind = "cand" =>
          sent[p][i].msg.n <= gathered[p] /\ sent[p][i].msg.n < gathered'[p]
                                          /\ sent[p][i].msg.n <= gathered'[p]
  <2>1. \A i \in 1..Len(sent[p]) : sent[p][i].msg.n \in Nat
    BY Numbers
  <2>2. \A i \in 1..Len(sent[p]) : sent[p][i].msg.kind = "cand" =>
            sent[p][i].msg.n <= gathered[p]
    BY <1>1 DEF Sends, Distinct
  <2>3. QED
    BY <1>1, <1>3, <2>1, <2>2
<1>6. Distinct(p)'
  BY <1>1, <1>4, <1>5 DEF Sends, Distinct
<1>7. Writes(p)'
  <2>1. gathered'[p] > 0
    BY <1>1, <1>3
  <2>2. QED
    BY <1>1, <1>2, <1>4, <2>1 DEF Sends, Writes
<1>8. Nonces(p)'
  <2>1. Incs(p, "gatherer") = 0 /\ Incs(p, "start") \in {0, 1}
    BY <1>1 DEF Incs
  <2>2. /\ Incs(p, "start")' = Incs(p, "start")
        /\ Incs(p, "gatherer")' \in {0, 1}
        /\ writer'[p] # writer[p] => Incs(p, "gatherer")' = 1
    BY <1>1, <1>2 DEF Incs
  <2>3. /\ Room(p) \in Int /\ Room(p)' \in Int /\ Room(p) <= Room(p)'
        /\ Room(p) <= Cands[p]
    <3>1. Room(p) = (IF Sealed(p) THEN 1 ELSE 0) + gathered[p] - Incs(p, "start") - 0
      BY <2>1 DEF Room
    <3>2. Room(p)' = (IF Sealed(p) THEN 1 ELSE 0) + (gathered[p] + 1) - Incs(p, "start")
                        - Incs(p, "gatherer")'
      BY <1>1, <1>4, <2>2 DEF Room
    <3>3. QED
      BY <1>1, <1>3, <2>1, <2>2, <3>1, <3>2
  <2>4. enc[p] <= Room(p) /\ enc[p] <= Room(p)' /\ enc[p] <= Cands[p]
    <3>1. enc[p] <= Room(p)
      BY DEF Sends, Nonces
    <3>2. QED
      BY <1>3, <2>3, <3>1
  <2>5. \A w \in Writers : /\ writer[p][w].at = "inc" => writer[p][w].nonce <= Room(p)'
                           /\ writer[p][w].nonce <= Cands[p]
    <3>1. \A w \in Writers : writer[p][w].nonce \in Nat
      BY Numbers
    <3>2. QED
      BY <2>3, <3>1 DEF Sends, Nonces
  <2>6. \A w \in Writers : /\ writer'[p][w].at = "inc" => writer'[p][w].nonce <= Room(p)'
                           /\ writer'[p][w].nonce <= Cands[p]
    BY <1>1, <1>2, <2>4, <2>5 DEF Writers
  <2>7. QED
    BY <1>1, <2>4, <2>6 DEF Sends, Nonces
<1>9. InSequence(p)'
  <2>1. SUFFICES ASSUME ~overlap'[p]
                 PROVE  /\ \A i \in 1..Len(sent[p]) : sent[p][i].nonce = i - 1
                        /\ \/ Ready(p)' \/ Busy(p, "start", "gatherer")'
                           \/ Busy(p, "gatherer", "start")'
    BY <1>1 DEF InSequence
  <2>2. /\ ~overlap[p] /\ \A i \in 1..Len(sent[p]) : sent[p][i].nonce = i - 1
        /\ Ready(p) \/ Busy(p, "start", "gatherer")
    BY <1>1, <2>1 DEF Sends, InSequence, Busy
  <2>3. CASE writer'[p] = writer[p]
    <3>1. (Ready(p) => Ready(p)') /\ (Busy(p, "start", "gatherer") => Busy(p, "start", "gatherer")')
      BY <1>1, <2>3 DEF Ready, Busy
    <3>2. QED
      BY <2>2, <3>1
  <2>4. CASE writer'[p] # writer[p]
    <3>1. /\ writer'[p]["gatherer"] = x /\ writer'[p]["start"] = writer[p]["start"]
          /\ writer[p]["start"].at = "idle"
      BY <1>1, <2>1, <2>4
    <3>2. enc[p] = Len(sent[p])
      BY <2>2, <3>1 DEF Ready, Busy
    <3>3. Busy(p, "gatherer", "start")'
      BY <1>1, <1>2, <3>1, <3>2 DEF Busy
    <3>4. QED
      BY <2>2, <3>3
  <2>5. QED
    BY <2>3, <2>4
<1>10. QED
  BY <1>6, <1>7, <1>8, <1>9

\* A writer takes its nonce.
LEMMA IncrementKeeps ==
    ASSUME Shaped, NEW p \in Peers, Sends(p), NEW w \in Writers, Increment(p, w)
    PROVE  Writes(p)' /\ Nonces(p)' /\ InSequence(p)' /\ Distinct(p)'
<1>1. PICK v \in Writers : v # w /\ {w, v} = {"start", "gatherer"}
  BY DEF Writers
<1>2. /\ writer[p][w].at = "inc" /\ writer'[p][w].at = "wire"
      /\ writer'[p][w].msg = writer[p][w].msg /\ writer'[p][w].nonce = writer[p][w].nonce
      /\ writer'[p][v] = writer[p][v]
      /\ enc'[p] = enc[p] + 1 \/ enc'[p] = writer[p][w].nonce + 1
      /\ sent'[p] = sent[p] /\ overlap'[p] = overlap[p]
      /\ start'[p] = start[p] /\ gathered'[p] = gathered[p]
  <2>1. /\ writer[p][w].at = "inc" /\ writer'[p][w] = [writer[p][w] EXCEPT !.at = "wire"]
        /\ writer'[p][v] = writer[p][v]
        /\ enc'[p] = enc[p] + 1 \/ enc'[p] = writer[p][w].nonce + 1
        /\ sent'[p] = sent[p] /\ overlap'[p] = overlap[p]
        /\ start'[p] = start[p] /\ gathered'[p] = gathered[p]
    BY <1>1, IncrementIs DEF SameStart, SameIce
  <2>2. writer[p][w] \in Writing
    BY Numbers
  <2>3. QED
    BY <2>1, <2>2 DEF Writing
<1>3. /\ Cands[p] \in Nat /\ gathered[p] \in Nat /\ enc[p] \in Nat /\ Len(sent[p]) \in Nat
      /\ writer[p][w].nonce \in Nat /\ writer[p][v].nonce \in Nat /\ Incs(p, v) \in {0, 1}
  BY Numbers
<1>4. (Told(p)' <=> Told(p)) /\ (Sealed(p)' <=> Sealed(p)) /\ (Alive(p)' <=> Alive(p))
  BY <1>2 DEF Told, Sealed, Alive
<1>5. /\ writer'[p]["start"].at = "idle" <=> writer[p]["start"].at = "idle"
      /\ writer'[p]["gatherer"].at = "idle" <=> writer[p]["gatherer"].at = "idle"
      /\ writer'[p]["start"].msg = writer[p]["start"].msg
      /\ writer'[p]["gatherer"].msg = writer[p]["gatherer"].msg
  BY <1>1, <1>2
<1>6. Writes(p)'
  BY <1>2, <1>4, <1>5 DEF Sends, Writes
<1>7. Distinct(p)'
  BY <1>2, <1>4, <1>5 DEF Sends, Distinct
<1>8. Nonces(p)'
  <2>1. Incs(p, w) = 1 /\ Incs(p, w)' = 0 /\ Incs(p, v)' = Incs(p, v)
    BY <1>2 DEF Incs
  <2>2. PICK r \in Int : r = Room(p) /\ Room(p)' = r + 1
    <3> DEFINE base == (IF Sealed(p) THEN 1 ELSE 0) + gathered[p]
    <3>1. base \in Nat
      BY <1>3
    <3>2. /\ Room(p) = base - Incs(p, "start") - Incs(p, "gatherer")
          /\ Room(p)' = base - Incs(p, "start")' - Incs(p, "gatherer")'
      <4>1. Room(p)' = (IF Sealed(p) THEN 1 ELSE 0) + gathered[p] - Incs(p, "start")'
                          - Incs(p, "gatherer")'
        BY <1>2, <1>4 DEF Room
      <4>2. Room(p) = (IF Sealed(p) THEN 1 ELSE 0) + gathered[p] - Incs(p, "start")
                          - Incs(p, "gatherer")
        BY DEF Room
      <4>3. \A u \in Writers : Incs(p, u) \in Int /\ Incs(p, u)' \in Int
        BY DEF Incs
      <4>4. "start" \in Writers /\ "gatherer" \in Writers
        BY DEF Writers
      <4>5. PICK a \in Int, b \in Int, c \in Int, d \in Int :
                /\ a = Incs(p, "start") /\ b = Incs(p, "gatherer")
                /\ c = Incs(p, "start")' /\ d = Incs(p, "gatherer")'
        BY <4>3, <4>4
      <4>6. PICK e \in {0, 1} : e = IF Sealed(p) THEN 1 ELSE 0
        OBVIOUS
      <4>7. PICK g \in Nat : g = gathered[p]
        BY <1>3
      <4>8. base = e + g
        BY <4>6, <4>7
      <4>9. Room(p) = e + g - a - b /\ Room(p)' = e + g - c - d
        BY <4>1, <4>2, <4>5, <4>6, <4>7
      <4> HIDE DEF base
      <4>10. Room(p) = base - a - b /\ Room(p)' = base - c - d
        BY <4>8, <4>9
      <4>11. QED
        BY <4>5, <4>10
    <3> HIDE DEF base
    <3>3. CASE w = "start"
      BY <1>1, <1>3, <2>1, <3>1, <3>2, <3>3
    <3>4. CASE w = "gatherer"
      BY <1>1, <1>3, <2>1, <3>1, <3>2, <3>4
    <3>5. QED
      BY <3>3, <3>4 DEF Writers
  <2>3. /\ enc[p] <= r /\ writer[p][w].nonce <= r /\ writer[p][w].nonce <= Cands[p]
        /\ writer[p][v].at = "inc" => writer[p][v].nonce <= r
        /\ writer[p][v].nonce <= Cands[p]
    BY <1>2, <2>2 DEF Sends, Nonces
  <2>4. enc'[p] <= r + 1
    BY <1>2, <1>3, <2>3
  <2>5. writer[p][v].at = "inc" => writer[p][v].nonce <= r + 1
    BY <1>3, <2>3
  <2>6. \A u \in Writers : /\ writer'[p][u].at = "inc" => writer'[p][u].nonce <= Room(p)'
                           /\ writer'[p][u].nonce <= Cands[p]
    <3>1. \A u \in Writers : u = w \/ u = v
      BY <1>1 DEF Writers
    <3>2. QED
      BY <1>2, <2>2, <2>3, <2>5, <3>1
  <2>7. QED
    BY <1>2, <2>2, <2>4, <2>6 DEF Sends, Nonces
<1>9. InSequence(p)'
  <2>1. SUFFICES ASSUME ~overlap[p], Alive(p)
                 PROVE  Busy(p, w, v)'
    BY <1>1, <1>2, <1>4 DEF Sends, InSequence
  <2>2. Ready(p) \/ Busy(p, "start", "gatherer") \/ Busy(p, "gatherer", "start")
    BY <2>1 DEF Sends, InSequence
  <2>3. Busy(p, w, v)
    BY <1>1, <1>2, <2>2 DEF Ready, Busy
  <2>4. /\ writer[p][v].at = "idle" /\ writer[p][w].nonce = Len(sent[p])
        /\ enc[p] = Len(sent[p])
    BY <1>2, <2>3 DEF Busy
  <2>5. enc'[p] = Len(sent[p]) + 1
    BY <1>2, <2>4
  <2>6. QED
    BY <1>2, <2>4, <2>5 DEF Busy
<1>10. QED
  BY <1>6, <1>7, <1>8, <1>9

\* A message is put behind those on the stream.
LEMMA Longer ==
    ASSUME Shaped, NEW p \in Peers, NEW w \in Writers,
           sent'[p] = Append(sent[p], [msg |-> writer[p][w].msg, nonce |-> writer[p][w].nonce])
    PROVE  /\ Len(sent'[p]) = Len(sent[p]) + 1 /\ Len(sent[p]) \in Nat
           /\ \A i \in 1..Len(sent[p]) : i \in 1..Len(sent'[p]) /\ sent'[p][i] = sent[p][i]
           /\ sent'[p][Len(sent[p]) + 1].msg = writer[p][w].msg
           /\ sent'[p][Len(sent[p]) + 1].nonce = writer[p][w].nonce
           /\ Len(sent[p]) + 1 \in 1..Len(sent'[p])
           /\ \A i \in 1..Len(sent'[p]) : i \in 1..Len(sent[p]) \/ i = Len(sent[p]) + 1
<1> DEFINE b == [msg |-> writer[p][w].msg, nonce |-> writer[p][w].nonce]
<1>1. b \in Box /\ b.msg = writer[p][w].msg /\ b.nonce = writer[p][w].nonce
  <2>1. writer[p][w] \in Writing
    BY Numbers
  <2>2. QED
    BY <2>1 DEF Writing, Box
<1>2. sent'[p] = Append(sent[p], b) /\ sent[p] \in Seq(Box) /\ Len(sent[p]) \in Nat
  BY Numbers
<1> HIDE DEF b
<1>3. /\ Len(sent'[p]) = Len(sent[p]) + 1 /\ sent'[p][Len(sent[p]) + 1] = b
      /\ \A i \in 1..Len(sent[p]) : sent'[p][i] = sent[p][i]
  BY <1>1, <1>2, AppendProperties
<1>4. QED
  BY <1>1, <1>2, <1>3

\* A message of a writer is one of its peer, whatever the writer.
LEMMA MessageOf ==
    ASSUME Shaped, NEW p \in Peers, Sends(p), NEW w \in Writers, writer[p][w].at # "idle"
    PROVE  /\ writer[p][w].msg \in Messages(p)
           /\ w = "start" => writer[p][w].msg.kind = "desc"
           /\ w = "gatherer" => writer[p][w].msg.n = gathered[p]
<1>1. Cands[p] \in Nat /\ gathered[p] \in Nat /\ gathered[p] <= Cands[p]
  BY Numbers DEF Sends, Winds
<1>2. CASE w = "start"
  <2>1. PICK n \in 0..Cands[p] : writer[p][w].msg = Description(n)
    BY <1>2 DEF Sends, Writes
  <2>2. QED
    BY <1>2, <2>1 DEF Messages, Description
<1>3. CASE w = "gatherer"
  <2>1. gathered[p] \in 1..Cands[p] /\ writer[p][w].msg = Candidate(gathered[p])
    BY <1>1, <1>3 DEF Sends, Writes
  <2>2. QED
    BY <1>3, <2>1 DEF Messages, Candidate
<1>4. QED
  BY <1>2, <1>3 DEF Writers

\* A stream with one message more.
LEMMA LongerKeeps ==
    ASSUME Shaped, NEW p \in Peers, Sends(p), NEW w \in Writers, Alive(p),
           writer[p][w].at # "idle",
           sent'[p] = Append(sent[p], [msg |-> writer[p][w].msg, nonce |-> writer[p][w].nonce])
    PROVE  /\ \A i \in 1..Len(sent'[p]) : sent'[p][i].msg \in Messages(p)
           /\ \A i \in 1..Len(sent'[p]) : sent'[p][i].nonce <= Cands[p]
           /\ (Told(p) \/ w = "start") =>
                 \E i \in 1..Len(sent'[p]) : sent'[p][i].msg.kind = "desc"
           /\ (~overlap[p] /\ \E v \in Writers : Busy(p, w, v)) =>
                 \A i \in 1..Len(sent'[p]) : sent'[p][i].nonce = i - 1
           /\ \A i \in 1..Len(sent'[p]) : sent'[p][i].msg.kind = "cand" =>
                 sent'[p][i].msg.n <= gathered[p]
           /\ \A i, j \in 1..Len(sent'[p]) :
                 (i < j /\ sent'[p][i].msg.kind = "cand" /\ sent'[p][j].msg.kind = "cand") =>
                     sent'[p][i].msg.n # sent'[p][j].msg.n
<1> DEFINE l == Len(sent[p]) + 1
           m == writer[p][w].msg
           k == writer[p][w].nonce
<1>1. /\ Len(sent'[p]) = l /\ l \in Nat /\ l = Len(sent[p]) + 1 /\ Len(sent[p]) \in Nat
      /\ \A i \in 1..Len(sent[p]) : i \in 1..Len(sent'[p]) /\ sent'[p][i] = sent[p][i]
      /\ sent'[p][l].msg = m /\ sent'[p][l].nonce = k /\ l \in 1..Len(sent'[p])
      /\ \A i \in 1..Len(sent'[p]) : i \in 1..Len(sent[p]) \/ i = l
  BY Longer
<1>2. /\ m \in Messages(p) /\ (w = "start" => m.kind = "desc")
      /\ (w = "gatherer" => m.n = gathered[p])
  BY MessageOf
<1>3. k <= Cands[p]
  BY DEF Sends, Nonces
<1>4. (~overlap[p] /\ \E v \in Writers : Busy(p, w, v)) => k = l - 1
  BY <1>1 DEF Busy
<1>5. \A i \in 1..Len(sent[p]) : sent[p][i].msg.n \in Nat
  BY Numbers
<1>6. gathered[p] \in Nat
  BY Numbers
<1> HIDE DEF l, m, k
<1>7. \A i \in 1..Len(sent'[p]) : sent'[p][i].msg \in Messages(p)
  BY <1>1, <1>2 DEF Sends, Writes
<1>8. \A i \in 1..Len(sent'[p]) : sent'[p][i].nonce <= Cands[p]
  BY <1>1, <1>3 DEF Sends, Nonces
<1>9. (Told(p) \/ w = "start") => \E i \in 1..Len(sent'[p]) : sent'[p][i].msg.kind = "desc"
  BY <1>1, <1>2 DEF Sends, Writes
<1>10. (~overlap[p] /\ \E v \in Writers : Busy(p, w, v)) =>
          \A i \in 1..Len(sent'[p]) : sent'[p][i].nonce = i - 1
  BY <1>1, <1>4 DEF Sends, InSequence
<1>11. \A i \in 1..Len(sent[p]) : sent[p][i].msg.kind = "cand" =>
          /\ sent[p][i].msg.n <= gathered[p]
          /\ w = "gatherer" => sent[p][i].msg.n < gathered[p]
  BY DEF Sends, Distinct
<1>12. m.kind = "cand" => w = "gatherer" /\ m.n = gathered[p]
  BY <1>2 DEF Writers
<1>13. \A i \in 1..Len(sent'[p]) : sent'[p][i].msg.kind = "cand" =>
          sent'[p][i].msg.n <= gathered[p]
  BY <1>1, <1>6, <1>11, <1>12
<1>14. ASSUME NEW i \in 1..Len(sent'[p]), NEW j \in 1..Len(sent'[p]), i < j,
              sent'[p][i].msg.kind = "cand", sent'[p][j].msg.kind = "cand"
       PROVE  sent'[p][i].msg.n # sent'[p][j].msg.n
  <2>1. i \in 1..Len(sent[p]) /\ sent'[p][i] = sent[p][i]
    BY <1>1, <1>14
  <2>2. CASE j \in 1..Len(sent[p])
    BY <1>1, <1>14, <2>1, <2>2 DEF Sends, Distinct
  <2>3. CASE j = l
    <3>1. sent[p][i].msg.n < gathered[p] /\ sent[p][i].msg.n \in Nat
      BY <1>1, <1>5, <1>11, <1>12, <1>14, <2>1, <2>3
    <3>2. sent'[p][j].msg.n = gathered[p]
      BY <1>1, <1>12, <1>14, <2>3
    <3>3. QED
      BY <1>6, <2>1, <3>1, <3>2
  <2>4. QED
    BY <1>1, <2>2, <2>3
<1>15. QED
  BY <1>7, <1>8, <1>9, <1>10, <1>13, <1>14

\* A message is on the stream.
LEMMA TransmitKeeps ==
    ASSUME Shaped, NEW p \in Peers, Sends(p), NEW w \in Writers, Transmit(p, w)
    PROVE  Writes(p)' /\ Nonces(p)' /\ InSequence(p)' /\ Distinct(p)'
<1>1. PICK v \in Writers : v # w /\ {w, v} = {"start", "gatherer"}
  BY DEF Writers
<1>2. /\ Alive(p) /\ writer[p][w].at = "wire" /\ writer'[p][w] = Idle
      /\ writer'[p][v] = writer[p][v]
      /\ sent'[p] = Append(sent[p], [msg |-> writer[p][w].msg, nonce |-> writer[p][w].nonce])
      /\ \/ /\ w = "start" /\ start[p] = "sending"
            /\ start'[p] = (IF p = "egress" THEN "recv" ELSE "wait")
         \/ w = "gatherer" /\ start'[p] = start[p]
      /\ enc'[p] = enc[p] /\ overlap'[p] = overlap[p] /\ gathered'[p] = gathered[p]
  BY <1>1, TransmitIs DEF SameIce
<1>3. Idle.at = "idle" /\ Idle.nonce = 0
  BY DEF Idle
<1>4. Cands[p] \in Nat /\ enc[p] \in Nat /\ Len(sent[p]) \in Nat
  BY Numbers
<1>5. /\ \A i \in 1..Len(sent'[p]) : sent'[p][i].msg \in Messages(p)
      /\ \A i \in 1..Len(sent'[p]) : sent'[p][i].nonce <= Cands[p]
      /\ (Told(p) \/ w = "start") =>
            \E i \in 1..Len(sent'[p]) : sent'[p][i].msg.kind = "desc"
      /\ (~overlap[p] /\ \E u \in Writers : Busy(p, w, u)) =>
            \A i \in 1..Len(sent'[p]) : sent'[p][i].nonce = i - 1
      /\ \A i \in 1..Len(sent'[p]) : sent'[p][i].msg.kind = "cand" =>
            sent'[p][i].msg.n <= gathered[p]
      /\ \A i, j \in 1..Len(sent'[p]) :
            (i < j /\ sent'[p][i].msg.kind = "cand" /\ sent'[p][j].msg.kind = "cand") =>
                sent'[p][i].msg.n # sent'[p][j].msg.n
  <2>1. writer[p][w].at # "idle"
    BY <1>2
  <2>2. QED
    BY <1>2, <2>1, LongerKeeps
<1>6. (Told(p)' => Told(p) \/ w = "start") /\ (Sealed(p)' <=> Sealed(p))
  BY <1>2 DEF Told, Sealed, Peers
<1>7. Writes(p)'
  <2>1. writer'[p]["start"].at # "idle" =>
          start'[p] = "sending" /\ \E n \in 0..Cands[p] : writer'[p]["start"].msg = Description(n)
    <3>1. CASE w = "start"
      BY <1>2, <1>3, <3>1
    <3>2. CASE w = "gatherer"
      BY <1>1, <1>2, <3>2 DEF Sends, Writes
    <3>3. QED
      BY <3>1, <3>2 DEF Writers
  <2>2. writer'[p]["gatherer"].at # "idle" =>
          gathered'[p] > 0 /\ writer'[p]["gatherer"].msg = Candidate(gathered'[p])
    <3>1. CASE w = "start"
      BY <1>1, <1>2, <3>1 DEF Sends, Writes
    <3>2. CASE w = "gatherer"
      BY <1>2, <1>3, <3>2
    <3>3. QED
      BY <3>1, <3>2 DEF Writers
  <2>3. QED
    BY <1>5, <1>6, <2>1, <2>2 DEF Writes
<1>8. Nonces(p)'
  <2>1. Incs(p, w) = 0 /\ Incs(p, w)' = 0 /\ Incs(p, v)' = Incs(p, v)
    BY <1>2, <1>3 DEF Incs
  <2>2. Incs(p, "start")' = Incs(p, "start") /\ Incs(p, "gatherer")' = Incs(p, "gatherer")
    BY <1>1, <2>1 DEF Writers
  <2>3. Room(p)' = Room(p)
    BY <1>2, <1>6, <2>2 DEF Room
  <2>4. \A u \in Writers : /\ writer'[p][u].at = "inc" => writer'[p][u].nonce <= Room(p)
                           /\ writer'[p][u].nonce <= Cands[p]
    <3>1. \A u \in Writers : u = w \/ u = v
      BY <1>1 DEF Writers
    <3>2. 0 <= Cands[p]
      BY <1>4
    <3>3. QED
      BY <1>2, <1>3, <3>1, <3>2 DEF Sends, Nonces
  <2>5. enc'[p] <= Room(p)
    BY <1>2 DEF Sends, Nonces
  <2>6. QED
    BY <1>5, <2>3, <2>4, <2>5 DEF Nonces
<1>9. InSequence(p)'
  <2>1. SUFFICES ASSUME ~overlap[p]
                 PROVE  /\ \A i \in 1..Len(sent'[p]) : sent'[p][i].nonce = i - 1
                        /\ Ready(p)'
    BY <1>2 DEF InSequence
  <2>2. Ready(p) \/ Busy(p, "start", "gatherer") \/ Busy(p, "gatherer", "start")
    BY <1>2, <2>1 DEF Sends, InSequence
  <2>3. Busy(p, w, v)
    BY <1>1, <1>2, <2>2 DEF Ready, Busy
  <2>4. enc[p] = Len(sent[p]) + 1 /\ writer[p][v].at = "idle"
    BY <1>2, <2>3 DEF Busy
  <2>5. Len(sent'[p]) = Len(sent[p]) + 1
    BY <1>2, Longer
  <2>6. writer'[p][w].at = "idle" /\ writer'[p][v].at = "idle"
    BY <1>2, <1>3, <2>4
  <2>7. Ready(p)'
    BY <1>1, <1>2, <2>4, <2>5, <2>6 DEF Ready
  <2>8. QED
    BY <1>5, <2>1, <2>3, <2>7
<1>10. Distinct(p)'
  <2>1. ASSUME NEW i \in 1..Len(sent'[p]), sent'[p][i].msg.kind = "cand",
               writer'[p]["gatherer"].at # "idle"
        PROVE  sent'[p][i].msg.n < gathered[p]
    <3>1. w = "start" /\ writer[p]["gatherer"].at # "idle"
      BY <1>1, <1>2, <1>3, <2>1 DEF Writers
    <3>2. /\ \A k \in 1..Len(sent[p]) : sent'[p][k] = sent[p][k]
          /\ i \in 1..Len(sent[p]) \/ i = Len(sent[p]) + 1
          /\ sent'[p][Len(sent[p]) + 1].msg = writer[p][w].msg
      BY <1>2, Longer
    <3>3. writer[p][w].msg.kind = "desc"
      BY <1>2, <3>1, MessageOf
    <3>4. i \in 1..Len(sent[p]) /\ sent'[p][i] = sent[p][i]
      BY <2>1, <3>2, <3>3
    <3>5. QED
      BY <1>2, <2>1, <3>1, <3>4 DEF Sends, Distinct
  <2>2. QED
    BY <1>2, <1>5, <2>1 DEF Distinct
<1>11. QED
  BY <1>7, <1>8, <1>9, <1>10

\* Start returns.
LEMMA ReturnKeeps ==
    ASSUME Shaped, NEW p \in Peers, Sends(p), GiveUp(p) \/ Finish(p)
    PROVE  Writes(p)' /\ Nonces(p)' /\ InSequence(p)' /\ Distinct(p)'
<1>1. /\ writer'[p]["start"] = Idle /\ writer'[p]["gatherer"] = Idle
      /\ gathered'[p] = 0 /\ enc'[p] = 0 /\ overlap'[p] = overlap[p] /\ start'[p] = "ended"
      /\ \/ sent'[p] = sent[p]
         \/ /\ writer[p]["start"].at = "wire" /\ Alive(p)
            /\ sent'[p] = Append(sent[p], [msg |-> writer[p]["start"].msg,
                                           nonce |-> writer[p]["start"].nonce])
  BY ReturnIs DEF Left
<1>2. Idle.at = "idle" /\ Idle.nonce = 0
  BY DEF Idle
<1>3. Cands[p] \in Nat /\ "start" \in Writers /\ "gatherer" \in Writers
  BY Numbers
<1>4. /\ \A i \in 1..Len(sent'[p]) : sent'[p][i].msg \in Messages(p)
      /\ \A i \in 1..Len(sent'[p]) : sent'[p][i].nonce <= Cands[p]
      /\ ~overlap[p] => \A i \in 1..Len(sent'[p]) : sent'[p][i].nonce = i - 1
      /\ \A i, j \in 1..Len(sent'[p]) :
            (i < j /\ sent'[p][i].msg.kind = "cand" /\ sent'[p][j].msg.kind = "cand") =>
                sent'[p][i].msg.n # sent'[p][j].msg.n
  <2>1. CASE sent'[p] = sent[p]
    BY <2>1 DEF Sends, Writes, Nonces, InSequence, Distinct
  <2>2. CASE sent'[p] # sent[p]
    <3>1. /\ writer[p]["start"].at = "wire" /\ Alive(p)
          /\ sent'[p] = Append(sent[p], [msg |-> writer[p]["start"].msg,
                                         nonce |-> writer[p]["start"].nonce])
      BY <1>1, <2>2
    <3>2. ~overlap[p] => \E v \in Writers : Busy(p, "start", v)
      BY <1>3, <3>1 DEF Sends, InSequence, Ready, Busy
    <3>3. writer[p]["start"].at # "idle"
      BY <3>1
    <3>4. /\ \A i \in 1..Len(sent'[p]) : sent'[p][i].msg \in Messages(p)
          /\ \A i \in 1..Len(sent'[p]) : sent'[p][i].nonce <= Cands[p]
          /\ (~overlap[p] /\ \E v \in Writers : Busy(p, "start", v)) =>
                \A i \in 1..Len(sent'[p]) : sent'[p][i].nonce = i - 1
          /\ \A i, j \in 1..Len(sent'[p]) :
                (i < j /\ sent'[p][i].msg.kind = "cand" /\ sent'[p][j].msg.kind = "cand") =>
                    sent'[p][i].msg.n # sent'[p][j].msg.n
      BY <1>3, <3>1, <3>3, LongerKeeps
    <3>5. QED
      BY <3>2, <3>4
  <2>3. QED
    BY <2>1, <2>2
<1>5. ~Told(p)' /\ ~Alive(p)' /\ Sealed(p)'
  BY <1>1 DEF Told, Alive, Sealed
<1>6. Writes(p)'
  BY <1>1, <1>2, <1>4, <1>5 DEF Writes
<1>7. Nonces(p)'
  <2>1. Incs(p, "start")' = 0 /\ Incs(p, "gatherer")' = 0
    BY <1>1, <1>2 DEF Incs
  <2>2. Room(p)' = 1 + 0 - 0 - 0
    BY <1>1, <1>5, <2>1 DEF Room
  <2>3. enc'[p] <= Room(p)' /\ 0 <= Cands[p]
    BY <1>1, <1>3, <2>2
  <2>4. \A w \in Writers : writer'[p][w].at # "inc" /\ writer'[p][w].nonce <= Cands[p]
    BY <1>1, <1>2, <2>3 DEF Writers
  <2>5. QED
    BY <1>4, <2>3, <2>4 DEF Nonces
<1>8. InSequence(p)'
  BY <1>1, <1>4, <1>5 DEF InSequence
<1>9. Distinct(p)'
  BY <1>4, <1>5 DEF Distinct
<1>10. QED
  BY <1>6, <1>7, <1>8, <1>9

\* Every step of a peer keeps what is known of both senders.
LEMMA SendsKept ==
    ASSUME Shaped, NEW p \in Peers, \A q \in Peers : Sends(q), Step(p)
    PROVE  Shaped' /\ OthersSame(p) /\ \A q \in Peers : Sends(q)'
<1>1. Winds(p)'
  BY WindsKept DEF Sends
<1>2. Shaped' /\ OthersSame(p)
  <2>1. CASE SetLocalDescription(p)
    BY <2>1, SetLocalDescriptionIs
  <2>2. CASE SendDescription(p)
    BY <2>2, SendDescriptionIs
  <2>3. CASE RecvDescription(p)
    BY <2>3, RecvDescriptionIs
  <2>4. CASE SetRemoteDescription(p)
    BY <2>4, SetRemoteDescriptionIs
  <2>5. CASE CloseSignal(p)
    BY <2>5, CloseSignalIs
  <2>6. CASE RegisterHandlers(p)
    BY <2>6, RegisterHandlersIs
  <2>7. CASE Gathered(p)
    BY <2>7, GatheredIs
  <2>8. CASE GatheringComplete(p)
    BY <2>8, GatheringCompleteIs
  <2>9. CASE ReceiverLoop(p)
    BY <2>9, ReceiverLoopIs
  <2>10. CASE RecvICECandidate(p)
    BY <2>10, RecvICECandidateIs
  <2>11. CASE RecvICECandidateFails(p)
    BY <2>11, RecvICECandidateFailsIs
  <2>12. CASE AddICECandidate(p)
    BY <2>12, AddICECandidateIs
  <2>13. CASE ReadMessage(p)
    BY <2>13, ReadMessageIs
  <2>14. CASE SignalTimeout(p)
    BY <2>14, SignalTimeoutIs
  <2>15. CASE ConnectionEnds(p)
    BY <2>15, ConnectionEndsIs
  <2>16. CASE GiveUp(p) \/ Finish(p)
    BY <2>16, ReturnIs
  <2>17. ASSUME NEW w \in Writers, Increment(p, w) PROVE Shaped' /\ OthersSame(p)
    BY <2>17, IncrementIs
  <2>18. ASSUME NEW w \in Writers, Transmit(p, w) PROVE Shaped' /\ OthersSame(p)
    BY <2>18, TransmitIs
  <2>19. QED
    BY <2>1, <2>2, <2>3, <2>4, <2>5, <2>6, <2>7, <2>8, <2>9, <2>10, <2>11, <2>12, <2>13,
       <2>14, <2>15, <2>16, <2>17, <2>18
       DEF Step, PeerStep, StartStep, WriterStep, GathererStep, ReceiverStep
<1>3. Writes(p)' /\ Nonces(p)' /\ InSequence(p)' /\ Distinct(p)'
  <2>1. CASE Rests(p)
    BY <2>1, RestKeeps DEF Sends
  <2>2. Sends(p)
    OBVIOUS
  <2>3. QED
    BY <2>1, <2>2, RestingSteps, SendDescriptionKeeps, GatheredKeeps, IncrementKeeps,
       TransmitKeeps, ReturnKeeps
       DEF Step, PeerStep, StartStep, WriterStep, GathererStep
<1>4. \A q \in Peers \ {p} : Sends(q)'
  BY <1>2, SameKeeps DEF OthersSame
<1>5. QED
  BY <1>1, <1>2, <1>3, <1>4 DEF Sends

\* An idle writer holds nothing, after every step.
LEMMA CleanKept ==
    ASSUME Shaped, NEW p \in Peers, Clean(p), Step(p)
    PROVE  Clean(p)'
<1>1. \A w \in Writers : w = "start" \/ w = "gatherer"
  BY DEF Writers
<1>2. CASE writer'[p] = writer[p]
  BY <1>2 DEF Clean
<1>3. CASE SendDescription(p)
  <2>0. /\ writer'[p]["start"] =
              [at |-> "inc", msg |-> Description(gathered[p]), nonce |-> enc[p]]
        /\ writer'[p]["gatherer"] = writer[p]["gatherer"]
    BY <1>3, SendDescriptionIs
  <2>1. writer'[p]["start"].at = "inc" /\ writer'[p]["gatherer"] = writer[p]["gatherer"]
    BY <2>0
  <2>2. QED
    BY <1>1, <2>1 DEF Clean
<1>4. CASE Gathered(p)
  <2>0. \/ writer'[p] = writer[p]
        \/ /\ writer'[p]["gatherer"] =
                 [at |-> "inc", msg |-> Candidate(gathered[p] + 1), nonce |-> enc[p]]
           /\ writer'[p]["start"] = writer[p]["start"]
    BY <1>4, GatheredIs
  <2>1. \/ writer'[p] = writer[p]
        \/ writer'[p]["gatherer"].at = "inc" /\ writer'[p]["start"] = writer[p]["start"]
    BY <2>0
  <2>2. QED
    BY <1>1, <1>2, <2>1 DEF Clean
<1>5. ASSUME NEW w \in Writers, Increment(p, w) PROVE Clean(p)'
  <2>1. /\ writer'[p][w] = [writer[p][w] EXCEPT !.at = "wire"]
        /\ \A v \in Writers \ {w} : writer'[p][v] = writer[p][v]
    BY <1>5, IncrementIs
  <2>2. writer[p][w] \in Writing
    BY Numbers
  <2>3. writer'[p][w].at = "wire"
    BY <2>1, <2>2 DEF Writing
  <2>4. QED
    BY <2>1, <2>3 DEF Clean
<1>6. ASSUME NEW w \in Writers, Transmit(p, w) PROVE Clean(p)'
  <2>1. writer' = [writer EXCEPT ![p][w] = Idle]
    BY <1>6 DEF Transmit
  <2>2. Idle \in Writing
    BY DEF Idle, NoMessage, Msg, Writing
  <2>3. writer'[p][w] = Idle /\ \A v \in Writers \ {w} : writer'[p][v] = writer[p][v]
    BY <2>1, <2>2, WriterPut
  <2>4. QED
    BY <2>3 DEF Clean
<1>7. CASE GiveUp(p) \/ Finish(p)
  <2>1. writer'[p]["start"] = Idle /\ writer'[p]["gatherer"] = Idle
    BY <1>7, ReturnIs DEF Left
  <2>2. QED
    BY <1>1, <2>1 DEF Clean
<1>8. Rests(p) => writer'[p] = writer[p]
  BY DEF Rests, SameNoise
<1>9. QED
  BY <1>2, <1>3, <1>4, <1>5, <1>6, <1>7, <1>8, RestingSteps
     DEF Step, PeerStep, StartStep, WriterStep, GathererStep
-----------------------------------------------------------------------------
(* The receiver. *)

\* What q has written stays; an overlap is not forgotten.
Extended(q) ==
    /\ Len(sent[q]) <= Len(sent'[q])
    /\ \A i \in 1..Len(sent[q]) : sent'[q][i] = sent[q][i]
    /\ overlap[q] => overlap'[q]

\* A stream only grows.
LEMMA StreamGrows ==
    ASSUME Shaped, NEW p \in Peers, Step(p)
    PROVE  Extended(p)
<1>1. Len(sent[p]) \in Nat
  BY Numbers
<1>2. ASSUME sent'[p] = sent[p], overlap[p] => overlap'[p] PROVE Extended(p)
  BY <1>1, <1>2 DEF Extended
<1>3. ASSUME NEW w \in Writers, overlap'[p] = overlap[p],
             sent'[p] = Append(sent[p], [msg |-> writer[p][w].msg, nonce |-> writer[p][w].nonce])
      PROVE  Extended(p)
  <2>1. /\ Len(sent'[p]) = Len(sent[p]) + 1
        /\ \A i \in 1..Len(sent[p]) : sent'[p][i] = sent[p][i]
    BY <1>3, Longer
  <2>2. QED
    BY <1>1, <1>3, <2>1 DEF Extended
<1>4. CASE Rests(p)
  BY <1>2, <1>4 DEF Rests, SameNoise
<1>5. CASE SendDescription(p)
  <2>1. /\ sent'[p] = sent[p]
        /\ overlap'[p] = (overlap[p] \/ writer[p]["gatherer"].at # "idle")
    BY <1>5, SendDescriptionIs
  <2>2. QED
    BY <1>2, <2>1
<1>6. CASE Gathered(p)
  <2>1. /\ sent'[p] = sent[p]
        /\ \/ overlap'[p] = overlap[p]
           \/ overlap'[p] = (overlap[p] \/ writer[p]["start"].at # "idle")
    BY <1>6, GatheredIs
  <2>2. QED
    BY <1>2, <2>1
<1>7. ASSUME NEW w \in Writers, Increment(p, w) PROVE Extended(p)
  BY <1>2, <1>7, IncrementIs
<1>8. ASSUME NEW w \in Writers, Transmit(p, w) PROVE Extended(p)
  <2>1. /\ sent'[p] = Append(sent[p], [msg |-> writer[p][w].msg, nonce |-> writer[p][w].nonce])
        /\ overlap'[p] = overlap[p]
    BY <1>8, TransmitIs, Zenon
  <2>2. QED
    BY <1>3, <2>1, Zenon
<1>9. CASE GiveUp(p) \/ Finish(p)
  <2>1. /\ overlap'[p] = overlap[p] /\ "start" \in Writers
        /\ \/ sent'[p] = sent[p]
           \/ sent'[p] = Append(sent[p], [msg |-> writer[p]["start"].msg,
                                          nonce |-> writer[p]["start"].nonce])
    BY <1>9, ReturnIs DEF Left, Writers
  <2>2. QED
    BY <1>2, <1>3, <2>1
<1>10. QED
  BY <1>4, <1>5, <1>6, <1>7, <1>8, <1>9, RestingSteps
     DEF Step, PeerStep, StartStep, WriterStep, GathererStep

\* The readLoop keeps its place, or it is stopped and forgets it.
ReaderRests(p) ==
    /\ \/ nread'[p] = nread[p] /\ dec'[p] = dec[p]
       \/ nread'[p] = 0 /\ dec'[p] = 0
    /\ \/ SameReader(p)
       \/ reader'[p] \in {"read", "stopped"} /\ rmsg'[p] = NoMessage

\* A place in a stream stays one when the stream grows.
LEMMA ReadsRest ==
    ASSUME Shaped, NEW p \in Peers, Reads(p), ReaderRests(p), Extended(Other(p)), Shaped'
    PROVE  Reads(p)'
<1>1. PICK q \in Peers : q = Other(p)
  BY OtherIs
<1>2. /\ nread[p] \in Nat /\ dec[p] \in Nat /\ nread'[p] \in Nat /\ dec'[p] \in Nat
      /\ Len(sent[q]) \in Nat /\ Len(sent'[q]) \in Nat
      /\ overlap[q] \in BOOLEAN /\ overlap'[q] \in BOOLEAN
  BY LenProperties DEF Shaped
<1>3. /\ nread[p] <= Len(sent[q]) /\ dec[p] <= nread[p]
      /\ ~overlap[q] => dec[p] = nread[p] /\ reader[p] # "broken"
      /\ reader[p] = "hold" => nread[p] > 0 /\ rmsg[p] = sent[q][nread[p]].msg
      /\ reader[p] # "hold" => rmsg[p] = NoMessage
  BY <1>1 DEF Reads
<1>4. /\ Len(sent[q]) <= Len(sent'[q])
      /\ \A i \in 1..Len(sent[q]) : sent'[q][i] = sent[q][i]
      /\ ~overlap'[q] => ~overlap[q]
  BY <1>1 DEF Extended
<1>5. nread'[p] <= Len(sent'[q]) /\ dec'[p] <= nread'[p]
  BY <1>2, <1>3, <1>4 DEF ReaderRests
<1>6. ~overlap'[q] => dec'[p] = nread'[p] /\ reader'[p] # "broken"
  BY <1>3, <1>4 DEF ReaderRests, SameReader
<1>7. ASSUME reader'[p] = "hold" PROVE nread'[p] > 0 /\ rmsg'[p] = sent'[q][nread'[p]].msg
  <2>1. reader[p] = "hold" /\ nread'[p] = nread[p] /\ rmsg'[p] = rmsg[p]
    BY <1>7 DEF ReaderRests, SameReader
  <2>2. nread[p] \in 1..Len(sent[q])
    BY <1>2, <1>3, <2>1
  <2>3. QED
    BY <1>3, <1>4, <2>1, <2>2
<1>8. reader'[p] # "hold" => rmsg'[p] = NoMessage
  BY <1>3 DEF ReaderRests, SameReader
<1>9. QED
  BY <1>1, <1>5, <1>6, <1>7, <1>8 DEF Reads

\* A message that is read: under its nonce, unless the writers of the other
\* peer overlapped.
LEMMA ReadMessageReads ==
    ASSUME Shaped, NEW p \in Peers, Reads(p), Sends(Other(p)), ReadMessage(p)
    PROVE  Reads(p)'
<1>1. PICK q \in Peers : q = Other(p) /\ q # p
  BY OtherIs
<1>2. PICK k \in Nat : k = nread[p]
  BY DEF Shaped
<1>3. dec[p] \in Nat /\ Len(sent[q]) \in Nat
  BY LenProperties DEF Shaped
<1>4. /\ reader[p] = "read" /\ k + 1 \in 1..Len(sent[q]) /\ nread'[p] = k + 1
      /\ \/ /\ sent[q][k + 1].nonce = dec[p] /\ dec'[p] = dec[p] + 1
            /\ reader'[p] = "hold" /\ rmsg'[p] = sent[q][k + 1].msg
         \/ /\ sent[q][k + 1].nonce # dec[p] /\ dec'[p] = dec[p]
            /\ reader'[p] = "broken" /\ rmsg'[p] = rmsg[p]
  BY <1>1, <1>2, ReadMessageIs
<1>5. sent'[q] = sent[q] /\ overlap'[q] = overlap[q]
  BY <1>1, ReadMessageIs DEF OthersSame, Same, SameNoise
<1>6. /\ dec[p] <= k /\ rmsg[p] = NoMessage
      /\ ~overlap[q] => dec[p] = k
  BY <1>1, <1>2, <1>4 DEF Reads
<1>7. ~overlap[q] => sent[q][k + 1].nonce = k
  <2>1. SUFFICES ASSUME ~overlap[q] PROVE sent[q][k + 1].nonce = k
    OBVIOUS
  <2>2. \A i \in 1..Len(sent[q]) : sent[q][i].nonce = i - 1
    BY <1>1, <2>1 DEF Sends, InSequence
  <2>3. sent[q][k + 1].nonce = (k + 1) - 1
    BY <1>4, <2>2
  <2>4. QED
    BY <1>2, <2>3
<1>8. nread'[p] <= Len(sent'[q]) /\ dec'[p] <= nread'[p] /\ nread'[p] > 0
  BY <1>2, <1>3, <1>4, <1>5, <1>6
<1>9. ~overlap'[q] => dec'[p] = nread'[p] /\ reader'[p] # "broken"
  BY <1>4, <1>5, <1>6, <1>7
<1>10. QED
  BY <1>1, <1>4, <1>5, <1>6, <1>8, <1>9 DEF Reads

\* The receiver is started once, after every step.
LEMMA FreshKept ==
    ASSUME Shaped, NEW p \in Peers, Fresh(p), Step(p)
    PROVE  Fresh(p)'
<1> USE DEF Fresh, Unstarted
<1>1. CASE SetLocalDescription(p)
  BY <1>1, SetLocalDescriptionIs DEF SameRx
<1>2. CASE SendDescription(p)
  BY <1>2, SendDescriptionIs DEF SameIce, SameRx
<1>3. CASE RecvDescription(p)
  BY <1>3, RecvDescriptionIs DEF SameIce, SameRx
<1>4. CASE SetRemoteDescription(p)
  BY <1>4, SetRemoteDescriptionIs DEF SameIce, SameRx, Peers
<1>5. CASE GiveUp(p) \/ Finish(p)
  BY <1>5, ReturnIs DEF Left
<1>6. CASE CloseSignal(p)
  BY <1>6, CloseSignalIs DEF SameIce, SameRx
<1>7. ASSUME NEW w \in Writers, Increment(p, w) PROVE Fresh(p)'
  BY <1>7, IncrementIs DEF SameStart, SameIce, SameRx
<1>8. ASSUME NEW w \in Writers, Transmit(p, w) PROVE Fresh(p)'
  <2>1. /\ trickle' = trickle /\ rx' = rx
        /\ start'[p] = start[p] \/ start'[p] = (IF p = "egress" THEN "recv" ELSE "wait")
    BY <1>8, TransmitIs DEF Transmit, iceVars, rxVars
  <2>2. QED
    BY <2>1
<1>9. CASE RegisterHandlers(p)
  BY <1>9, RegisterHandlersIs DEF SameStart
<1>10. CASE Gathered(p)
  BY <1>10, GatheredIs DEF SameStart, SameRx
<1>11. CASE GatheringComplete(p)
  BY <1>11, GatheringCompleteIs DEF SameStart, SameRx
<1>12. CASE ReceiverLoop(p)
  BY <1>12, ReceiverLoopIs DEF SameStart, SameIce
<1>13. CASE RecvICECandidate(p)
  BY <1>13, RecvICECandidateIs DEF SameStart, SameIce
<1>14. CASE RecvICECandidateFails(p)
  BY <1>14, RecvICECandidateFailsIs DEF SameStart, SameIce
<1>15. CASE AddICECandidate(p)
  BY <1>15, AddICECandidateIs DEF SameStart, SameIce
<1>16. CASE ReadMessage(p)
  BY <1>16, ReadMessageIs DEF SameStart, SameIce, SameRx
<1>17. CASE SignalTimeout(p)
  BY <1>17, SignalTimeoutIs DEF SameStart, SameIce, SameRx
<1>18. CASE ConnectionEnds(p)
  BY <1>18, ConnectionEndsIs DEF SameIce, SameRx
<1>19. QED
  BY <1>1, <1>2, <1>3, <1>4, <1>5, <1>6, <1>7, <1>8, <1>9, <1>10, <1>11, <1>12, <1>13,
     <1>14, <1>15, <1>16, <1>17, <1>18
     DEF Step, PeerStep, StartStep, WriterStep, GathererStep, ReceiverStep

\* The elements of an empty sequence and of an appended one.
LEMMA OneMore ==
    ASSUME NEW s \in Seq(Nat), NEW c \in Nat, IsInjective(s), c \notin ToSet(s)
    PROVE  /\ IsInjective(Append(s, c)) /\ ToSet(Append(s, c)) = ToSet(s) \cup {c}
           /\ Append(s, c) # <<>>
<1> DEFINE t == Append(s, c)
<1>1. /\ Len(t) = Len(s) + 1 /\ t[Len(s) + 1] = c /\ Len(s) \in Nat
      /\ \A i \in 1..Len(s) : t[i] = s[i]
      /\ t \in Seq(Nat)
  BY AppendProperties, LenProperties
<1>2. DOMAIN s = 1..Len(s) /\ DOMAIN t = 1..Len(t)
  BY <1>1, LenProperties
<1> HIDE DEF t
<1>3. \A i \in DOMAIN t : i \in DOMAIN s \/ i = Len(s) + 1
  BY <1>1, <1>2
<1>4. (\A i \in DOMAIN s : i \in DOMAIN t) /\ Len(s) + 1 \in DOMAIN t
  BY <1>1, <1>2
<1>5. \A i \in DOMAIN s : s[i] # c
  BY DEF ToSet
<1>6. IsInjective(t)
  <2>1. SUFFICES ASSUME NEW a \in DOMAIN t, NEW b \in DOMAIN t, t[a] = t[b] PROVE a = b
    BY DEF IsInjective
  <2>2. CASE a \in DOMAIN s /\ b \in DOMAIN s
    BY <1>1, <1>2, <2>1, <2>2 DEF IsInjective
  <2>3. CASE a \in DOMAIN s /\ b = Len(s) + 1
    BY <1>1, <1>2, <1>5, <2>1, <2>3
  <2>4. CASE b \in DOMAIN s /\ a = Len(s) + 1
    BY <1>1, <1>2, <1>5, <2>1, <2>4
  <2>5. QED
    BY <1>3, <2>2, <2>3, <2>4
<1>7. ToSet(t) = ToSet(s) \cup {c}
  <2>1. ASSUME NEW x \in ToSet(t) PROVE x \in ToSet(s) \cup {c}
    <3>1. PICK i \in DOMAIN t : x = t[i]
      BY <2>1 DEF ToSet
    <3>2. QED
      BY <1>1, <1>2, <1>3, <3>1 DEF ToSet
  <2>2. ASSUME NEW x \in ToSet(s) PROVE x \in ToSet(t)
    <3>1. PICK i \in DOMAIN s : x = s[i]
      BY <2>2 DEF ToSet
    <3>2. i \in DOMAIN t /\ x = t[i]
      BY <1>1, <1>2, <1>4, <3>1
    <3>3. QED
      BY <3>2 DEF ToSet
  <2>3. c \in ToSet(t)
    BY <1>1, <1>4 DEF ToSet
  <2>4. QED
    BY <2>1, <2>2, <2>3
<1>8. t # <<>>
  BY <1>1
<1>9. QED
  BY <1>6, <1>7, <1>8 DEF t

\* Two sequences without a common element, one behind the other.
LEMMA OneBehind ==
    ASSUME NEW s \in Seq(Nat), NEW u \in Seq(Nat), IsInjective(s), IsInjective(u),
           ToSet(s) \cap ToSet(u) = {}
    PROVE  IsInjective(s \o u) /\ ToSet(s \o u) = ToSet(s) \cup ToSet(u)
<1> DEFINE t == s \o u
<1>1. /\ t \in Seq(Nat) /\ Len(t) = Len(s) + Len(u) /\ Len(s) \in Nat /\ Len(u) \in Nat
      /\ \A i \in 1..Len(t) : t[i] = IF i <= Len(s) THEN s[i] ELSE u[i - Len(s)]
  BY ConcatProperties, LenProperties
<1>2. DOMAIN s = 1..Len(s) /\ DOMAIN u = 1..Len(u) /\ DOMAIN t = 1..Len(t)
  BY <1>1, LenProperties
<1> HIDE DEF t
<1>3. \A i \in DOMAIN t : \/ i \in DOMAIN s /\ t[i] = s[i]
                          \/ /\ i > Len(s) /\ i \in Int /\ i - Len(s) \in DOMAIN u
                             /\ t[i] = u[i - Len(s)]
  BY <1>1, <1>2
<1>4. \A i \in DOMAIN s, j \in DOMAIN u : s[i] # u[j]
  BY DEF ToSet
<1>5. IsInjective(t)
  <2>1. SUFFICES ASSUME NEW a \in DOMAIN t, NEW b \in DOMAIN t, t[a] = t[b] PROVE a = b
    BY DEF IsInjective
  <2>2. CASE a \in DOMAIN s /\ t[a] = s[a] /\ b \in DOMAIN s /\ t[b] = s[b]
    BY <2>1, <2>2 DEF IsInjective
  <2>3. CASE /\ a - Len(s) \in DOMAIN u /\ t[a] = u[a - Len(s)] /\ a \in Int
             /\ b - Len(s) \in DOMAIN u /\ t[b] = u[b - Len(s)] /\ b \in Int
    <3>1. a - Len(s) = b - Len(s)
      BY <2>1, <2>3 DEF IsInjective
    <3>2. QED
      BY <1>1, <2>3, <3>1
  <2>4. QED
    BY <1>3, <1>4, <2>1, <2>2, <2>3
<1>6. ASSUME NEW x \in ToSet(t) PROVE x \in ToSet(s) \cup ToSet(u)
  <2>1. PICK i \in DOMAIN t : x = t[i]
    BY <1>6 DEF ToSet
  <2>2. QED
    BY <1>3, <2>1 DEF ToSet
<1>7. ASSUME NEW x \in ToSet(s) PROVE x \in ToSet(t)
  <2>1. PICK i \in DOMAIN s : x = s[i]
    BY <1>7 DEF ToSet
  <2>2. i \in DOMAIN t /\ t[i] = s[i]
    BY <1>1, <1>2
  <2>3. QED
    BY <2>1, <2>2 DEF ToSet
<1>8. ASSUME NEW x \in ToSet(u) PROVE x \in ToSet(t)
  <2>1. PICK i \in DOMAIN u : x = u[i]
    BY <1>8 DEF ToSet
  <2>2. PICK j \in Int : j = i + Len(s)
    BY <1>1, <1>2
  <2>3. j \in DOMAIN t /\ ~(j <= Len(s)) /\ j - Len(s) = i
    BY <1>1, <1>2, <2>2
  <2>4. t[j] = u[i]
    BY <1>1, <1>2, <2>3
  <2>5. QED
    BY <2>1, <2>3, <2>4 DEF ToSet
<1>9. ToSet(t) = ToSet(s) \cup ToSet(u)
  BY <1>6, <1>7, <1>8
<1>10. QED
  BY <1>5, <1>9 DEF t

\* The empty sequence.
LEMMA NoneTaken ==
    ToSet(<<>>) = {} /\ IsInjective(<<>>)
  BY DEF ToSet, IsInjective

\* A candidate that came stays one that came.
LEMMA CameStays ==
    ASSUME Shaped, NEW p \in Peers, Extended(Other(p)), NEW c, NEW k \in Nat, NEW l \in Nat,
           k <= l, k <= Len(sent[Other(p)]), Came(p, c, k)
    PROVE  Came(p, c, l)'
<1>1. PICK q \in Peers : q = Other(p)
  BY OtherIs
<1>2. PICK i \in 1..k : sent[q][i].msg = Candidate(c)
  BY <1>1 DEF Came
<1>3. Len(sent[q]) \in Nat
  BY Numbers
<1>4. i \in 1..Len(sent[q]) /\ i \in 1..l
  BY <1>1, <1>2, <1>3
<1>5. sent'[q][i] = sent[q][i]
  BY <1>1, <1>4 DEF Extended
<1>6. QED
  BY <1>1, <1>2, <1>4, <1>5 DEF Came

\* What has left the readLoop is on the stream.
LEMMA HandledIs ==
    ASSUME Shaped, NEW p \in Peers, Reads(p)
    PROVE  /\ Handled(p) \in Nat /\ Handled(p) <= Len(sent[Other(p)])
           /\ Len(sent[Other(p)]) \in Nat
<1>1. PICK q \in Peers : q = Other(p)
  BY OtherIs
<1>2. nread[p] \in Nat /\ Len(sent[q]) \in Nat
  BY Numbers DEF Shaped
<1>3. nread[p] <= Len(sent[q]) /\ (reader[p] = "hold" => nread[p] > 0)
  BY <1>1 DEF Reads
<1>4. QED
  BY <1>1, <1>2, <1>3 DEF Handled

\* A receiver to which nothing new comes.
LEMMA TakesRest ==
    ASSUME Shaped, NEW p \in Peers, Reads(p), Takes(p), Extended(Other(p)),
           NEW h \in Nat, NEW l \in Nat, h = Handled(p)', l = Len(sent'[Other(p)]),
           applied'[p] = applied[p], deffered'[p] = deffered[p] \/ deffered'[p] = <<>>,
           remote[p] => remote'[p],
           Alive(p)' => Alive(p) /\ Handled(p) <= h,
           \/ /\ rx'[p] = rx[p] /\ rxCand'[p] = rxCand[p] /\ (rx[p] = "got" => Alive(p)')
           \/ rx'[p] # "got" /\ rxCand'[p] = 0
    PROVE  Takes(p)'
<1>1. /\ Handled(p) \in Nat /\ Handled(p) <= Len(sent[Other(p)])
      /\ Len(sent[Other(p)]) \in Nat /\ Len(sent[Other(p)]) <= l
  BY HandledIs DEF Extended
<1>2. \A c : Came(p, c, Len(sent[Other(p)])) => Came(p, c, l)'
  BY <1>1, CameStays
<1>3. Alive(p)' => \A c : Came(p, c, Handled(p)) => Came(p, c, h)'
  BY <1>1, CameStays
<1>4. (\A c : Came(p, c, l)' <=> Came(p, c, Len(sent[Other(p)]))')
      /\ (\A c : Came(p, c, h)' <=> Came(p, c, Handled(p))')
  BY DEF Came
<1>5. /\ ToSet(deffered'[p]) \subseteq ToSet(deffered[p])
      /\ IsInjective(deffered[p]) => IsInjective(deffered'[p])
  BY NoneTaken
<1>6. /\ applied'[p] # <<>> => remote'[p]
      /\ IsInjective(applied'[p]) /\ IsInjective(deffered'[p])
      /\ ToSet(applied'[p]) \cap ToSet(deffered'[p]) = {}
  BY <1>5 DEF Takes
<1>7. \A c \in ToSet(applied'[p]) \cup ToSet(deffered'[p]) : Came(p, c, Len(sent[Other(p)]))'
  BY <1>2, <1>4, <1>5 DEF Takes
<1>8. Alive(p)' => \A c \in ToSet(applied'[p]) \cup ToSet(deffered'[p]) : Came(p, c, Handled(p))'
  BY <1>3, <1>4, <1>5 DEF Takes
<1>9. rx'[p] = "got" => /\ Alive(p)' /\ Came(p, rxCand[p], Handled(p))'
                        /\ rxCand'[p] \notin ToSet(applied'[p]) \cup ToSet(deffered'[p])
  <2>1. SUFFICES ASSUME rx'[p] = "got"
                 PROVE  /\ Alive(p)' /\ Came(p, rxCand[p], Handled(p))'
                        /\ rxCand'[p] \notin ToSet(applied'[p]) \cup ToSet(deffered'[p])
    OBVIOUS
  <2>2. rx[p] = "got" /\ rxCand'[p] = rxCand[p] /\ Alive(p)'
    BY <2>1
  <2>3. PICK c : c = rxCand[p]
    OBVIOUS
  <2>4. Came(p, c, Handled(p)) /\ c \notin ToSet(applied[p]) \cup ToSet(deffered[p])
    BY <2>2, <2>3 DEF Takes
  <2>5. Came(p, c, Handled(p))'
    BY <1>3, <1>4, <2>2, <2>4
  <2>6. Came(p, rxCand[p], Handled(p))'
    BY <2>2, <2>3, <2>5 DEF Came
  <2>7. QED
    BY <1>5, <2>2, <2>3, <2>4, <2>6
<1>10. rx'[p] # "got" => rxCand'[p] = 0
  BY DEF Takes
<1>11. QED
  BY <1>6, <1>7, <1>8, <1>9, <1>10 DEF Takes

\* A step of p leaves the stream it reads alone.
LEMMA StreamKept ==
    ASSUME Shaped, NEW p \in Peers, OthersSame(p)
    PROVE  sent'[Other(p)] = sent[Other(p)] /\ Extended(Other(p))
<1>1. PICK q \in Peers : q = Other(p) /\ q # p
  BY OtherIs
<1>2. sent'[q] = sent[q] /\ overlap'[q] = overlap[q] /\ Len(sent[q]) \in Nat
  BY <1>1, Numbers DEF OthersSame, Same, SameNoise
<1>3. QED
  BY <1>1, <1>2 DEF Extended

\* A step that takes the candidate out of the receiver's hand, or moves those
\* that are deffered, without another coming.
LEMMA TakesMoved ==
    ASSUME Shaped, NEW p \in Peers, Reads(p), Takes(p), OthersSame(p), SameReader(p),
           Alive(p), start'[p] = start[p],
           applied'[p] # <<>> => remote'[p],
           IsInjective(applied'[p]), IsInjective(deffered'[p]),
           ToSet(applied'[p]) \cap ToSet(deffered'[p]) = {},
           \A c \in ToSet(applied'[p]) \cup ToSet(deffered'[p]) : Came(p, c, Handled(p)),
           rx'[p] # "got", rxCand'[p] = 0
    PROVE  Takes(p)'
<1>1. sent'[Other(p)] = sent[Other(p)] /\ Extended(Other(p))
  BY StreamKept
<1>2. PICK h \in Nat : h = Handled(p)
  BY HandledIs
<1>3. PICK l \in Nat : l = Len(sent[Other(p)]) /\ h <= l
  BY <1>2, HandledIs
<1>4. Handled(p)' = h /\ Len(sent[Other(p)])' = l
  BY <1>1, <1>2, <1>3 DEF Handled, SameReader
<1>5. \A c : Came(p, c, h) => Came(p, c, l)' /\ Came(p, c, h)'
  BY <1>1, <1>3, CameStays
<1>6. \A c : Came(p, c, Handled(p)) => Came(p, c, Len(sent[Other(p)]))' /\ Came(p, c, Handled(p))'
  BY <1>2, <1>4, <1>5 DEF Came
<1>7. QED
  BY <1>6 DEF Takes

\* A candidate is added or deffered once.
LEMMA AddICECandidateTakes ==
    ASSUME Shaped, NEW p \in Peers, Reads(p), Takes(p), AddICECandidate(p)
    PROVE  Takes(p)'
<1>1. /\ OthersSame(p) /\ SameReader(p) /\ Alive(p) /\ start'[p] = start[p]
      /\ remote'[p] = remote[p]
      /\ rx[p] = "got" /\ rx'[p] = "loop" /\ rxCand'[p] = 0
      /\ \/ /\ remote[p] /\ deffered'[p] = deffered[p]
            /\ applied'[p] = Append(applied[p], rxCand[p])
         \/ /\ ~remote[p] /\ applied'[p] = applied[p]
            /\ deffered'[p] = Append(deffered[p], rxCand[p])
  BY AddICECandidateIs DEF SameStart
<1>2. /\ applied[p] \in Seq(Nat) /\ deffered[p] \in Seq(Nat) /\ rxCand[p] \in Nat
  BY DEF Shaped
<1>3. /\ applied[p] # <<>> => remote[p]
      /\ IsInjective(applied[p]) /\ IsInjective(deffered[p])
      /\ ToSet(applied[p]) \cap ToSet(deffered[p]) = {}
      /\ \A c \in ToSet(applied[p]) \cup ToSet(deffered[p]) : Came(p, c, Handled(p))
      /\ Came(p, rxCand[p], Handled(p))
      /\ rxCand[p] \notin ToSet(applied[p]) \cup ToSet(deffered[p])
  BY <1>1 DEF Takes
<1>4. /\ IsInjective(Append(applied[p], rxCand[p]))
      /\ ToSet(Append(applied[p], rxCand[p])) = ToSet(applied[p]) \cup {rxCand[p]}
      /\ IsInjective(Append(deffered[p], rxCand[p]))
      /\ ToSet(Append(deffered[p], rxCand[p])) = ToSet(deffered[p]) \cup {rxCand[p]}
  BY <1>2, <1>3, OneMore
<1>5. /\ applied'[p] # <<>> => remote'[p]
      /\ IsInjective(applied'[p]) /\ IsInjective(deffered'[p])
      /\ ToSet(applied'[p]) \cap ToSet(deffered'[p]) = {}
      /\ ToSet(applied'[p]) \cup ToSet(deffered'[p])
            = ToSet(applied[p]) \cup ToSet(deffered[p]) \cup {rxCand[p]}
  <2>1. CASE /\ remote[p] /\ deffered'[p] = deffered[p]
             /\ applied'[p] = Append(applied[p], rxCand[p])
    BY <1>1, <1>3, <1>4, <2>1
  <2>2. CASE /\ ~remote[p] /\ applied'[p] = applied[p]
             /\ deffered'[p] = Append(deffered[p], rxCand[p])
    BY <1>1, <1>3, <1>4, <2>2
  <2>3. QED
    BY <1>1, <2>1, <2>2
<1>6. \A c \in ToSet(applied'[p]) \cup ToSet(deffered'[p]) : Came(p, c, Handled(p))
  BY <1>3, <1>5
<1>7. QED
  BY <1>1, <1>5, <1>6, TakesMoved

\* The deffered candidates are added, each once.
LEMMA ReceiverLoopTakes ==
    ASSUME Shaped, NEW p \in Peers, Reads(p), Takes(p), ReceiverLoop(p)
    PROVE  Takes(p)'
<1>1. /\ OthersSame(p) /\ SameReader(p) /\ Alive(p) /\ start'[p] = start[p]
      /\ remote'[p] = remote[p]
      /\ rx[p] = "loop" /\ rx'[p] # "got" /\ rxCand'[p] = rxCand[p]
      /\ \/ applied'[p] = applied[p] /\ deffered'[p] = deffered[p]
         \/ /\ remote[p] /\ applied'[p] = applied[p] \o deffered[p]
            /\ deffered'[p] = <<>>
  BY ReceiverLoopIs DEF SameStart
<1>2. applied[p] \in Seq(Nat) /\ deffered[p] \in Seq(Nat)
  BY DEF Shaped
<1>3. /\ applied[p] # <<>> => remote[p]
      /\ IsInjective(applied[p]) /\ IsInjective(deffered[p])
      /\ ToSet(applied[p]) \cap ToSet(deffered[p]) = {}
      /\ \A c \in ToSet(applied[p]) \cup ToSet(deffered[p]) : Came(p, c, Handled(p))
      /\ rxCand[p] = 0
  BY <1>1 DEF Takes
<1>4. /\ IsInjective(applied[p] \o deffered[p])
      /\ ToSet(applied[p] \o deffered[p]) = ToSet(applied[p]) \cup ToSet(deffered[p])
  BY <1>2, <1>3, OneBehind
<1>5. /\ applied'[p] # <<>> => remote'[p]
      /\ IsInjective(applied'[p]) /\ IsInjective(deffered'[p])
      /\ ToSet(applied'[p]) \cap ToSet(deffered'[p]) = {}
      /\ ToSet(applied'[p]) \cup ToSet(deffered'[p]) = ToSet(applied[p]) \cup ToSet(deffered[p])
  <2>1. CASE applied'[p] = applied[p] /\ deffered'[p] = deffered[p]
    BY <1>1, <1>3, <2>1
  <2>2. CASE /\ remote[p] /\ applied'[p] = applied[p] \o deffered[p]
             /\ deffered'[p] = <<>>
    BY <1>1, <1>4, <2>2, NoneTaken
  <2>3. QED
    BY <1>1, <2>1, <2>2
<1>6. \A c \in ToSet(applied'[p]) \cup ToSet(deffered'[p]) : Came(p, c, Handled(p))
  BY <1>3, <1>5
<1>7. QED
  BY <1>1, <1>3, <1>5, <1>6, TakesMoved

\* The candidate that is received is none of those taken before: the other
\* peer writes each once, and they were read at earlier places.
LEMMA RecvICECandidateTakes ==
    ASSUME Shaped, NEW p \in Peers, Reads(p), Takes(p), Sends(Other(p)), RecvICECandidate(p)
    PROVE  Takes(p)'
<1>1. PICK q \in Peers : q = Other(p) /\ q # p
  BY OtherIs
<1>2. /\ OthersSame(p) /\ Alive(p) /\ start'[p] = start[p] /\ remote'[p] = remote[p]
      /\ rx'[p] = "got" /\ reader[p] = "hold" /\ rmsg[p].kind = "cand"
      /\ rxCand'[p] = rmsg[p].n /\ reader'[p] = "read" /\ nread'[p] = nread[p]
      /\ deffered'[p] = deffered[p] /\ applied'[p] = applied[p]
  BY RecvICECandidateIs DEF SameStart
<1>3. sent'[Other(p)] = sent[Other(p)] /\ Extended(Other(p))
  BY <1>2, StreamKept
<1>4. PICK k \in Nat : k = nread[p]
  BY DEF Shaped
<1>5. PICK l \in Nat : l = Len(sent[q])
  BY Numbers
<1>6. k > 0 /\ k <= l /\ rmsg[p] = sent[q][k].msg
  BY <1>1, <1>2, <1>4, <1>5 DEF Reads
<1>7. Handled(p) = k - 1 /\ Handled(p)' = k /\ Len(sent[Other(p)])' = l
  BY <1>1, <1>2, <1>3, <1>4, <1>5 DEF Handled
<1>8. PICK n \in Nat : n = rmsg[p].n
  BY DEF Shaped, Msg
<1>9. rmsg[p] = Candidate(n)
  BY <1>2, <1>8 DEF Shaped, Msg, Candidate
<1>10. n \notin ToSet(applied[p]) \cup ToSet(deffered[p])
  <2>1. SUFFICES ASSUME n \in ToSet(applied[p]) \cup ToSet(deffered[p]) PROVE FALSE
    OBVIOUS
  <2>2. Came(p, n, k - 1)
    BY <1>2, <1>7, <2>1 DEF Takes
  <2>3. PICK i \in 1..(k - 1) : sent[q][i].msg = Candidate(n)
    BY <1>1, <2>2 DEF Came
  <2>4. i \in 1..Len(sent[q]) /\ k \in 1..Len(sent[q]) /\ i < k
    BY <1>5, <1>6, <2>3
  <2>5. sent[q][k].msg = Candidate(n)
    BY <1>6, <1>9
  <2>6. sent[q][i].msg.kind = "cand" /\ sent[q][k].msg.kind = "cand"
        /\ sent[q][i].msg.n = sent[q][k].msg.n
    BY <2>3, <2>5 DEF Candidate
  <2>7. QED
    BY <1>1, <2>4, <2>6 DEF Sends, Distinct
<1>11. Came(p, n, k) /\ Came(p, n, k)'
  <2>1. k \in 1..k
    BY <1>6
  <2>2. QED
    BY <1>1, <1>3, <1>6, <1>9, <2>1 DEF Came
<1>12. k - 1 \in Nat /\ k - 1 <= k /\ k - 1 <= l
  BY <1>4, <1>5, <1>6
<1>13. \A c : /\ Came(p, c, k - 1) => Came(p, c, k)'
              /\ Came(p, c, l) => Came(p, c, l)'
  BY <1>1, <1>3, <1>5, <1>12, CameStays
<1>14. \A c \in ToSet(applied'[p]) \cup ToSet(deffered'[p]) :
          Came(p, c, Len(sent[Other(p)]))' /\ Came(p, c, Handled(p))'
  <2>1. \A c \in ToSet(applied[p]) \cup ToSet(deffered[p]) :
            Came(p, c, l) /\ Came(p, c, k - 1)
    BY <1>1, <1>2, <1>5, <1>7 DEF Takes
  <2>2. \A c \in ToSet(applied[p]) \cup ToSet(deffered[p]) :
            Came(p, c, l)' /\ Came(p, c, k)'
    BY <1>13, <2>1
  <2>3. QED
    BY <1>2, <1>7, <2>2 DEF Came
<1>15. Came(p, rxCand[p], Handled(p))'
  BY <1>2, <1>7, <1>8, <1>11 DEF Came
<1>16. Alive(p)' /\ rxCand'[p] \notin ToSet(applied'[p]) \cup ToSet(deffered'[p])
  BY <1>2, <1>8, <1>10 DEF Alive
<1>17. QED
  BY <1>2, <1>14, <1>15, <1>16 DEF Takes

\* The receiving goroutines of p do nothing.
Listens(p) ==
    /\ SameRx(p) /\ SameReader(p)
    /\ remote[p] => remote'[p]
    /\ Alive(p)' <=> Alive(p)

\* What is known of them stays while the other peer writes.
LEMMA ListensKeeps ==
    ASSUME Shaped, Shaped', NEW p \in Peers, Reads(p), Takes(p), Listens(p), Extended(Other(p))
    PROVE  Reads(p)' /\ Takes(p)'
<1>1. ReaderRests(p)
  BY DEF Listens, ReaderRests, SameReader
<1>2. Reads(p)'
  BY <1>1, ReadsRest
<1>3. PICK h \in Nat : h = Handled(p) /\ h = Handled(p)'
  BY HandledIs DEF Listens, SameReader, Handled
<1>4. PICK l \in Nat : l = Len(sent'[Other(p)])
  BY OtherIs, LenProperties DEF Shaped
<1>5. Handled(p) <= h
  BY <1>3
<1>6. Takes(p)'
  <2>1. /\ applied'[p] = applied[p] /\ deffered'[p] = deffered[p]
        /\ remote[p] => remote'[p]
        /\ rx'[p] = rx[p] /\ rxCand'[p] = rxCand[p] /\ (Alive(p)' <=> Alive(p))
    BY DEF Listens, SameRx
  <2>2. rx[p] = "got" => Alive(p)'
    BY <2>1 DEF Takes
  <2>3. QED
    BY <1>3, <1>4, <1>5, <2>1, <2>2, TakesRest
<1>7. QED
  BY <1>2, <1>6

\* The steps of a peer in which they do nothing.
LEMMA ListeningSteps ==
    ASSUME Shaped, NEW p \in Peers,
           \/ SetLocalDescription(p) \/ SendDescription(p) \/ SetRemoteDescription(p)
           \/ (\E w \in Writers : WriterStep(p, w)) \/ GathererStep(p)
           \/ SignalTimeout(p) \/ ConnectionEnds(p)
    PROVE  Listens(p)
<1> USE DEF Listens, Alive
<1>1. CASE SetLocalDescription(p)
  BY <1>1, SetLocalDescriptionIs
<1>2. CASE SendDescription(p)
  BY <1>2, SendDescriptionIs
<1>3. CASE SetRemoteDescription(p)
  BY <1>3, SetRemoteDescriptionIs
<1>4. ASSUME NEW w \in Writers, Increment(p, w) PROVE Listens(p)
  BY <1>4, IncrementIs DEF SameStart
<1>5. ASSUME NEW w \in Writers, Transmit(p, w) PROVE Listens(p)
  <2>1. /\ UNCHANGED <<remote, rx, rxCand, deffered, applied, nread, dec, reader, rmsg>>
        /\ start[p] # "ended"
    BY <1>5 DEF Transmit, rxVars, readerVars
  <2>2. start'[p] = start[p] \/ start'[p] = (IF p = "egress" THEN "recv" ELSE "wait")
    BY <1>5, TransmitIs, Zenon
  <2>3. QED
    BY <2>1, <2>2 DEF SameRx, SameReader
<1>6. CASE Gathered(p)
  BY <1>6, GatheredIs DEF SameStart
<1>7. CASE GatheringComplete(p)
  BY <1>7, GatheringCompleteIs DEF SameStart
<1>8. CASE SignalTimeout(p)
  BY <1>8, SignalTimeoutIs DEF SameStart
<1>9. CASE ConnectionEnds(p)
  BY <1>9, ConnectionEndsIs
<1>10. QED
  BY <1>1, <1>2, <1>3, <1>4, <1>5, <1>6, <1>7, <1>8, <1>9 DEF WriterStep, GathererStep

\* Every step of a peer keeps what is known of its receiver.
LEMMA ReceivesKept ==
    ASSUME Shaped, Shaped', NEW p \in Peers, OthersSame(p), Sends(Other(p)), Receives(p), Step(p)
    PROVE  Receives(p)'
<1>1. Fresh(p) /\ Reads(p) /\ Takes(p)
  BY DEF Receives
<1>2. Fresh(p)'
  BY <1>1, FreshKept
<1>3. Extended(Other(p)) /\ sent'[Other(p)] = sent[Other(p)]
  BY StreamKept
<1>4. /\ Handled(p) \in Nat /\ nread[p] \in Nat
      /\ nread'[p] \in Nat
  BY <1>1, HandledIs DEF Shaped
<1>5. PICK l \in Nat : l = Len(sent'[Other(p)])
  BY OtherIs, LenProperties DEF Shaped
<1>6. reader[p] = "hold" => nread[p] > 0
  BY <1>1 DEF Reads
<1>7. CASE Listens(p)
  BY <1>1, <1>2, <1>3, <1>7, ListensKeeps DEF Receives
<1>8. ASSUME ReaderRests(p), Takes(p)' PROVE Receives(p)'
  BY <1>1, <1>2, <1>3, <1>8, ReadsRest DEF Receives
<1>9. ASSUME SameReader(p), Takes(p)' PROVE Receives(p)'
  BY <1>8, <1>9 DEF ReaderRests, SameReader
<1>10. ASSUME SameReader(p) PROVE Handled(p)' = Handled(p)
  BY <1>10 DEF SameReader, Handled
<1>11. CASE RegisterHandlers(p)
  <2>1. /\ SameReader(p) /\ start'[p] = start[p] /\ remote'[p] = remote[p]
        /\ trickle[p] = "spawned" /\ rxCand'[p] = rxCand[p]
        /\ rx'[p] = rx[p] \/ rx'[p] = "loop"
        /\ deffered'[p] = deffered[p] /\ applied'[p] = applied[p]
    BY <1>11, RegisterHandlersIs DEF SameStart
  <2>2. rx'[p] # "got" /\ rxCand'[p] = 0
    BY <1>1, <2>1 DEF Fresh, Takes
  <2>3. PICK h \in Nat : h = Handled(p) /\ h = Handled(p)' /\ Handled(p) <= h
    BY <1>4, <1>10, <2>1
  <2>4. Alive(p)' => Alive(p)
    BY <2>1 DEF Alive
  <2>5. Takes(p)'
    BY <1>1, <1>3, <1>5, <2>1, <2>2, <2>3, <2>4, TakesRest
  <2>6. QED
    BY <1>9, <2>1, <2>5
<1>12. CASE RecvICECandidateFails(p)
  <2>1. /\ SameReader(p) /\ start'[p] = start[p] /\ remote'[p] = remote[p]
        /\ rx[p] = "recv" /\ rx'[p] = "stopped" /\ rxCand'[p] = rxCand[p]
        /\ deffered'[p] = deffered[p] /\ applied'[p] = applied[p]
    BY <1>12, RecvICECandidateFailsIs DEF SameStart
  <2>2. rx'[p] # "got" /\ rxCand'[p] = 0
    BY <1>1, <2>1 DEF Takes
  <2>3. PICK h \in Nat : h = Handled(p) /\ h = Handled(p)' /\ Handled(p) <= h
    BY <1>4, <1>10, <2>1
  <2>4. Alive(p)' => Alive(p)
    BY <2>1 DEF Alive
  <2>5. Takes(p)'
    BY <1>1, <1>3, <1>5, <2>1, <2>2, <2>3, <2>4, TakesRest
  <2>6. QED
    BY <1>9, <2>1, <2>5
<1>13. ASSUME reader[p] = "hold", reader'[p] \in {"read", "stopped"}, rmsg'[p] = NoMessage,
              nread'[p] = nread[p], dec'[p] = dec[p], SameRx(p), remote'[p] = remote[p],
              Alive(p), Alive(p)'
       PROVE  Receives(p)'
  <2>1. ReaderRests(p)
    BY <1>13 DEF ReaderRests
  <2>2. PICK h \in Nat : h = Handled(p)' /\ Handled(p) <= h
    BY <1>4, <1>6, <1>13 DEF Handled
  <2>3. Takes(p)'
    BY <1>1, <1>3, <1>5, <1>13, <2>2, TakesRest DEF SameRx
  <2>4. QED
    BY <1>8, <2>1, <2>3
<1>14. CASE RecvDescription(p)
  BY <1>13, <1>14, RecvDescriptionIs DEF Alive
<1>15. CASE CloseSignal(p)
  <2>1. /\ reader'[p] = "stopped" /\ rmsg'[p] = NoMessage
        /\ nread'[p] = nread[p] /\ dec'[p] = dec[p] /\ remote'[p] = remote[p]
        /\ rx'[p] = rx[p] /\ rxCand'[p] = rxCand[p]
        /\ deffered'[p] = deffered[p] /\ applied'[p] = applied[p]
        /\ start[p] = "wait" /\ start'[p] = "run"
    BY <1>15, CloseSignalIs DEF SameRx
  <2>2. ReaderRests(p)
    BY <2>1 DEF ReaderRests
  <2>3. PICK h \in Nat : h = Handled(p)' /\ Handled(p) <= h
    BY <1>4, <1>6, <2>1 DEF Handled
  <2>4. Alive(p) /\ Alive(p)'
    BY <2>1 DEF Alive
  <2>5. Takes(p)'
    BY <1>1, <1>3, <1>5, <2>1, <2>3, <2>4, TakesRest
  <2>6. QED
    BY <1>8, <2>2, <2>5
<1>16. CASE ReadMessage(p)
  <2>1. /\ reader[p] = "read" /\ nread'[p] = nread[p] + 1 /\ reader'[p] \in {"hold", "broken"}
        /\ SameRx(p) /\ start'[p] = start[p] /\ remote'[p] = remote[p]
    BY <1>16, ReadMessageIs DEF SameStart
  <2>2. Reads(p)'
    BY <1>1, <1>16, ReadMessageReads
  <2>3. PICK h \in Nat : h = Handled(p)' /\ Handled(p) <= h
    BY <1>4, <2>1 DEF Handled
  <2>4. (Alive(p)' <=> Alive(p)) /\ (rx[p] = "got" => Alive(p))
    BY <1>1, <2>1 DEF Alive, Takes
  <2>5. Takes(p)'
    BY <1>1, <1>3, <1>5, <2>1, <2>3, <2>4, TakesRest DEF SameRx
  <2>6. QED
    BY <1>2, <2>2, <2>5 DEF Receives
<1>17. CASE GiveUp(p) \/ Finish(p)
  <2>1. /\ reader'[p] = "stopped" /\ rmsg'[p] = NoMessage /\ nread'[p] = 0 /\ dec'[p] = 0
        /\ rx'[p] = "stopped" /\ rxCand'[p] = 0 /\ deffered'[p] = <<>>
        /\ applied'[p] = applied[p] /\ remote'[p] = remote[p] /\ start'[p] = "ended"
    BY <1>17, ReturnIs DEF Left
  <2>2. ReaderRests(p)
    BY <2>1 DEF ReaderRests
  <2>3. PICK h \in Nat : h = Handled(p)'
    BY <2>1 DEF Handled
  <2>4. ~Alive(p)'
    BY <2>1 DEF Alive
  <2>5. rx'[p] # "got"
    BY <2>1
  <2>6. Takes(p)'
    BY <1>1, <1>3, <1>5, <2>1, <2>3, <2>4, <2>5, TakesRest
  <2>7. QED
    BY <1>8, <2>2, <2>6
<1>18. CASE ReceiverLoop(p)
  BY <1>1, <1>9, <1>18, ReceiverLoopTakes, ReceiverLoopIs
<1>19. CASE AddICECandidate(p)
  BY <1>1, <1>9, <1>19, AddICECandidateTakes, AddICECandidateIs
<1>20. CASE RecvICECandidate(p)
  <2>1. /\ reader'[p] = "read" /\ rmsg'[p] = NoMessage
        /\ nread'[p] = nread[p] /\ dec'[p] = dec[p]
    BY <1>20, RecvICECandidateIs
  <2>2. ReaderRests(p)
    BY <2>1 DEF ReaderRests
  <2>3. Takes(p)'
    BY <1>1, <1>20, RecvICECandidateTakes
  <2>4. QED
    BY <1>8, <2>2, <2>3
<1>21. QED
  BY <1>7, <1>11, <1>12, <1>14, <1>15, <1>16, <1>17, <1>18, <1>19, <1>20, ListeningSteps
     DEF Step, PeerStep, StartStep, ReceiverStep
-----------------------------------------------------------------------------
(* The theorems. *)

\* The invariant holds at the start.
LEMMA Begins ==
    Init => IInv
<1> SUFFICES ASSUME Init PROVE IInv
  OBVIOUS
<1>1. Idle \in Writing /\ NoMessage \in Msg /\ Idle.at = "idle" /\ Idle.nonce = 0
  BY DEF Idle, NoMessage, Msg, Writing
<1>2. <<>> \in Seq(Nat) /\ <<>> \in Seq(Box) /\ Len(<<>>) = 0
  OBVIOUS
<1>3. start \in [Peers -> StartPC]
  BY DEF Init, Peers, StartPC
<1>4. writer \in [Peers -> [Writers -> Writing]]
  BY <1>1 DEF Init
<1>5. Shaped
  BY <1>1, <1>2, <1>3, <1>4 DEF Init, Shaped, TricklePC
<1>6. SUFFICES ASSUME NEW p \in Peers PROVE Sends(p) /\ Clean(p) /\ Receives(p)
  BY <1>5 DEF IInv
<1>7. /\ start[p] \in {"setLocal", "recv"} /\ (start[p] = "recv" => p = "ingress")
      /\ ~closed[p] /\ ~remote[p] /\ ~overlap[p] /\ gathered[p] = 0 /\ gather[p] = "new"
      /\ trickle[p] = "none" /\ rx[p] = "none" /\ rxCand[p] = 0
      /\ deffered[p] = <<>> /\ applied[p] = <<>> /\ enc[p] = 0 /\ sent[p] = <<>>
      /\ nread[p] = 0 /\ dec[p] = 0 /\ reader[p] = "read" /\ rmsg[p] = NoMessage
  BY DEF Init, Peers
<1>8. \A w \in Writers : writer[p][w] = Idle
  BY DEF Init
<1>9. writer[p]["start"] = Idle /\ writer[p]["gatherer"] = Idle /\ Cands[p] \in Nat
  BY <1>5, <1>8, Numbers
<1>10. Len(sent[p]) = 0 /\ Len(sent[Other(p)]) = 0
  BY <1>2, OtherIs DEF Init
<1>11. Winds(p)
  BY <1>7, <1>9 DEF Winds
<1>12. Writes(p)
  BY <1>1, <1>7, <1>9, <1>10 DEF Writes, Told
<1>13. Nonces(p)
  <2>1. Room(p) = 0 + 0 - 0 - 0
    BY <1>1, <1>7, <1>9 DEF Room, Sealed, Incs
  <2>2. enc[p] <= Room(p) /\ 0 <= Cands[p]
    BY <1>7, <1>9, <2>1
  <2>3. QED
    BY <1>1, <1>8, <1>10, <2>2 DEF Nonces
<1>14. InSequence(p)
  BY <1>1, <1>7, <1>9, <1>10 DEF InSequence, Ready
<1>15. Distinct(p)
  BY <1>10 DEF Distinct
<1>16. Clean(p)
  BY <1>8 DEF Clean
<1>17. Fresh(p)
  BY <1>7 DEF Fresh
<1>18. Reads(p)
  <2>1. ~overlap[Other(p)]
    BY OtherIs DEF Init
  <2>2. QED
    BY <1>7, <1>10, <2>1 DEF Reads
<1>19. Takes(p)
  BY <1>7, NoneTaken DEF Takes
<1>20. QED
  BY <1>11, <1>12, <1>13, <1>14, <1>15, <1>16, <1>17, <1>18, <1>19 DEF Sends, Receives

\* Every step keeps it.
LEMMA Keeps ==
    IInv /\ [Next]_vars => IInv'
<1> SUFFICES ASSUME IInv, [Next]_vars PROVE IInv'
  OBVIOUS
<1>1. Shaped /\ \A q \in Peers : Sends(q) /\ Clean(q) /\ Receives(q)
  BY DEF IInv
<1>2. CASE UNCHANGED vars
  <2>1. Shaped'
    BY <1>1, <1>2 DEF Shaped, vars, startVars, iceVars, rxVars, noiseVars, readerVars
  <2>2. ASSUME NEW q \in Peers PROVE Sends(q)' /\ Clean(q)' /\ Receives(q)'
    <3>1. \A r \in Peers : Same(r)
      BY <1>2 DEF vars, startVars, iceVars, rxVars, noiseVars, readerVars, Same, SameStart,
         SameIce, SameRx, SameNoise, SameReader
    <3>2. Sends(q)'
      BY <1>1, <3>1, SameKeeps
    <3>3. Clean(q)'
      BY <1>1, <3>1 DEF Same, SameNoise, Clean
    <3>4. Listens(q)
      BY <3>1 DEF Same, SameStart, Listens, Alive
    <3>5. Extended(Other(q))
      <4>1. Other(q) \in Peers
        BY OtherIs
      <4>2. sent'[Other(q)] = sent[Other(q)] /\ overlap'[Other(q)] = overlap[Other(q)]
        BY <3>1, <4>1 DEF Same, SameNoise
      <4>3. Len(sent[Other(q)]) \in Nat
        BY <1>1, <4>1, Numbers
      <4>4. QED
        BY <4>2, <4>3 DEF Extended
    <3>6. Reads(q)' /\ Takes(q)'
      BY <1>1, <2>1, <3>4, <3>5, ListensKeeps DEF Receives
    <3>7. Fresh(q)'
      BY <1>1, <3>1 DEF Same, SameStart, SameIce, SameRx, Receives, Fresh, Unstarted
    <3>8. QED
      BY <3>2, <3>3, <3>6, <3>7 DEF Receives
  <2>3. QED
    BY <2>1, <2>2 DEF IInv
<1>3. ASSUME NEW p \in Peers, Step(p) PROVE IInv'
  <2>1. Shaped' /\ OthersSame(p) /\ \A q \in Peers : Sends(q)'
    BY <1>1, <1>3, SendsKept
  <2>2. Clean(p)'
    BY <1>1, <1>3, CleanKept
  <2>3. Receives(p)'
    <3>1. Sends(Other(p))
      BY <1>1, OtherIs
    <3>2. QED
      BY <1>1, <1>3, <2>1, <3>1, ReceivesKept
  <2>4. PICK q \in Peers : q = Other(p) /\ q # p /\ Other(q) = p /\ \A r \in Peers : r = p \/ r = q
    BY OtherIs
  <2>5. Same(q)
    BY <2>1, <2>4 DEF OthersSame
  <2>6. Clean(q)'
    BY <1>1, <2>5 DEF Same, SameNoise, Clean
  <2>7. Receives(q)'
    <3>1. Extended(Other(q))
      BY <1>1, <1>3, <2>4, StreamGrows
    <3>2. Listens(q)
      BY <2>5 DEF Same, SameStart, Listens, Alive
    <3>3. Reads(q)' /\ Takes(q)'
      BY <1>1, <2>1, <3>1, <3>2, ListensKeeps DEF Receives
    <3>4. Fresh(q)'
      BY <1>1, <2>5 DEF Same, SameStart, SameIce, SameRx, Receives, Fresh, Unstarted
    <3>5. QED
      BY <3>3, <3>4 DEF Receives
  <2>8. QED
    BY <2>1, <2>2, <2>3, <2>4, <2>6, <2>7 DEF IInv
<1>4. QED
  BY <1>2, <1>3 DEF Next, Step

\* What is known of a negotiation holds in every state it reaches, for any
\* number of candidates: NoisedMessenger.Write by Start and the gatherer,
\* the readLoop, and the receiver of trickleICE.
THEOREM Inductive ==
    Spec => []IInv
<1>1. QED
  BY Begins, Keeps, PTL DEF Spec

\* Every variable of the negotiation stays within its domain: no peer seals
\* more than its description and its candidates, nor under a nonce beyond.
THEOREM TypeCorrect ==
    Spec => []TypeOK
<1>1. IInv => TypeOK
  <2> SUFFICES ASSUME IInv, NEW p \in Peers PROVE TypeOK!(p)
    BY DEF TypeOK
  <2>1. PICK q \in Peers : q = Other(p)
    BY OtherIs
  <2>2. Shaped /\ Sends(p) /\ Clean(p) /\ Receives(p) /\ Sends(q)
    BY DEF IInv
  <2>3. /\ start[p] \in StartPC
        /\ {expired[p], cancelled[p], remote[p], closed[p], overlap[p]} \subseteq BOOLEAN
        /\ gather[p] \in {"new", "gathering", "complete", "closed"}
        /\ trickle[p] \in TricklePC
        /\ rx[p] \in {"none", "loop", "recv", "got", "stopped"}
        /\ reader[p] \in {"read", "hold", "broken", "stopped"}
    BY <2>2 DEF Shaped
  <2>4. gathered[p] \in 0..Cands[p]
    BY <2>2, Numbers DEF Sends, Winds
  <2>5. \A c : Came(p, c, Len(sent[q])) => c \in 1..Cands[q]
    <3>1. SUFFICES ASSUME NEW c, Came(p, c, Len(sent[q])) PROVE c \in 1..Cands[q]
      OBVIOUS
    <3>2. PICK i \in 1..Len(sent[q]) : sent[q][i].msg = Candidate(c)
      BY <2>1, <3>1 DEF Came
    <3>3. Candidate(c) \in Messages(q)
      BY <2>2, <3>2 DEF Sends, Writes
    <3>4. QED
      BY <3>3 DEF Messages, Candidate, Description
  <2>6. ToSet(deffered[p]) \cup ToSet(applied[p]) \subseteq 1..Cands[q]
    BY <2>1, <2>2, <2>5 DEF Receives, Takes
  <2>7. rxCand[p] \in 0..Cands[q]
    <3>1. CASE rx[p] = "got"
      <4>1. Came(p, rxCand[p], Handled(p))
        BY <2>2, <3>1 DEF Receives, Takes
      <4>2. Handled(p) \in Nat /\ Handled(p) <= Len(sent[q]) /\ Len(sent[q]) \in Nat
        BY <2>1, <2>2, HandledIs DEF Receives
      <4>3. Came(p, rxCand[p], Len(sent[q]))
        BY <4>1, <4>2 DEF Came
      <4>4. rxCand[p] \in 1..Cands[q]
        BY <2>5, <4>3
      <4>5. QED
        BY <4>4
    <3>2. CASE rx[p] # "got"
      <4>1. rxCand[p] = 0 /\ Cands[q] \in Nat
        BY <2>2, <3>2, Numbers DEF Receives, Takes
      <4>2. QED
        BY <4>1
    <3>3. QED
      BY <3>1, <3>2
  <2>8. enc[p] \in 0..(Cands[p] + 1)
    <3>1. PICK a \in {0, 1}, b \in {0, 1}, e \in {0, 1} :
              /\ a = Incs(p, "start") /\ b = Incs(p, "gatherer")
              /\ e = IF Sealed(p) THEN 1 ELSE 0
      BY <2>2, Numbers
    <3>2. PICK g \in Nat, n \in Nat, k \in Nat : g = gathered[p] /\ n = Cands[p] /\ k = enc[p]
      BY <2>2, Numbers
    <3>3. k <= e + g - a - b
      BY <2>2, <3>1, <3>2 DEF Sends, Nonces, Room
    <3>4. g <= n
      BY <2>2, <3>2 DEF Sends, Winds
    <3>5. QED
      BY <3>1, <3>2, <3>3, <3>4
  <2>9. ASSUME NEW w \in Writers PROVE writer[p][w] \in WriterStates(p)
    <3>1. /\ writer[p][w] \in Writing /\ Cands[p] \in Nat
          /\ writer[p][w].nonce \in Nat /\ writer[p][w].nonce <= Cands[p]
      BY <2>2, Numbers DEF Sends, Nonces
    <3>2. writer[p][w].msg \in Messages(p) \cup {NoMessage}
      <4>1. CASE writer[p][w].at = "idle"
        <5>1. writer[p][w] = Idle
          BY <2>2, <4>1 DEF Clean
        <5>2. QED
          BY <5>1 DEF Idle
      <4>2. CASE writer[p][w].at # "idle"
        BY <2>2, <4>2, MessageOf
      <4>3. QED
        BY <4>1, <4>2
    <3>3. writer[p][w].nonce \in 0..Cands[p]
      BY <3>1
    <3>4. QED
      BY <3>1, <3>2, <3>3 DEF Writing, WriterStates
  <2>10. \A m \in ToSet(sent[p]) : m.msg \in Messages(p) /\ m.nonce \in 0..Cands[p]
    <3>1. SUFFICES ASSUME NEW m \in ToSet(sent[p])
                   PROVE  m.msg \in Messages(p) /\ m.nonce \in 0..Cands[p]
      OBVIOUS
    <3>2. sent[p] \in Seq(Box) /\ Cands[p] \in Nat
      BY <2>2, Numbers
    <3>3. PICK i \in 1..Len(sent[p]) : m = sent[p][i]
      BY <3>1, <3>2, LenProperties DEF ToSet
    <3>4. m.msg \in Messages(p) /\ m.nonce \in Nat /\ m.nonce <= Cands[p]
      BY <2>2, <3>3, Numbers DEF Sends, Writes, Nonces
    <3>5. QED
      BY <3>2, <3>4
  <2>11. dec[p] \in 0..nread[p] /\ nread[p] \in 0..Len(sent[q])
    <3>1. dec[p] \in Nat /\ nread[p] \in Nat /\ Len(sent[q]) \in Nat
      BY <2>2, Numbers DEF Shaped
    <3>2. nread[p] <= Len(sent[q]) /\ dec[p] <= nread[p]
      BY <2>1, <2>2 DEF Receives, Reads
    <3>3. QED
      BY <3>1, <3>2
  <2>12. rmsg[p] \in Messages(q) \cup {NoMessage}
    <3>1. CASE reader[p] = "hold"
      <4>1. nread[p] > 0 /\ rmsg[p] = sent[q][nread[p]].msg
        BY <2>1, <2>2, <3>1 DEF Receives, Reads
      <4>2. nread[p] \in 1..Len(sent[q])
        <5>1. Len(sent[q]) \in Nat
          BY <2>2, Numbers
        <5>2. QED
          BY <2>11, <4>1, <5>1
      <4>3. QED
        BY <2>2, <4>1, <4>2 DEF Sends, Writes
    <3>2. CASE reader[p] # "hold"
      BY <2>2, <3>2 DEF Receives, Reads
    <3>3. QED
      BY <3>1, <3>2
  <2>13. QED
    BY <2>1, <2>3, <2>4, <2>6, <2>7, <2>8, <2>9, <2>10, <2>11, <2>12
<1>2. QED
  BY <1>1, Inductive, PTL

\* trickleICE gives each remote candidate to AddICECandidate at most once,
\* deffered or not, after the remote description, and none that the other
\* peer did not send.
THEOREM Once ==
    Spec => []AppliedOnce
<1>1. IInv => AppliedOnce
  <2> SUFFICES ASSUME IInv, NEW p \in Peers
               PROVE  LET taken == applied[p] \o deffered[p] IN
                      /\ applied[p] # <<>> => remote[p]
                      /\ IsInjective(taken)
                      /\ \A c \in ToSet(taken) :
                            \E m \in ToSet(sent[Other(p)]) : m.msg = Candidate(c)
    BY DEF AppliedOnce
  <2>1. PICK q \in Peers : q = Other(p)
    BY OtherIs
  <2>2. Shaped /\ Takes(p)
    BY DEF IInv, Receives
  <2>3. applied[p] \in Seq(Nat) /\ deffered[p] \in Seq(Nat) /\ sent[q] \in Seq(Box)
    BY <2>2 DEF Shaped
  <2>4. /\ IsInjective(applied[p] \o deffered[p])
        /\ ToSet(applied[p] \o deffered[p]) = ToSet(applied[p]) \cup ToSet(deffered[p])
    BY <2>2, <2>3, OneBehind DEF Takes
  <2>5. ASSUME NEW c \in ToSet(applied[p]) \cup ToSet(deffered[p])
        PROVE  \E m \in ToSet(sent[q]) : m.msg = Candidate(c)
    <3>1. Came(p, c, Len(sent[q]))
      BY <2>1, <2>2 DEF Takes
    <3>2. PICK i \in 1..Len(sent[q]) : sent[q][i].msg = Candidate(c)
      BY <2>1, <3>1 DEF Came
    <3>3. sent[q][i] \in ToSet(sent[q])
      BY <2>3, LenProperties DEF ToSet
    <3>4. QED
      BY <3>2, <3>3
  <2>6. applied[p] # <<>> => remote[p]
    BY <2>2 DEF Takes
  <2>7. QED
    BY <2>1, <2>4, <2>5, <2>6
<1>2. QED
  BY <1>1, Inductive, PTL

\* The readLoop fails to decrypt a message only where Start and the gatherer
\* of the other peer were inside NoisedMessenger.Write together.
THEOREM Broken ==
    Spec => []BrokenOnlyByOverlap
<1>1. IInv => BrokenOnlyByOverlap
  BY DEF IInv, Receives, Reads, BrokenOnlyByOverlap
<1>2. QED
  BY <1>1, Inductive, PTL

\* Before its deadline Start closes the messenger only when its description
\* and every candidate that is trickled have been written.
THEOREM Trickled ==
    Spec => []ClosedWhenTrickled
<1>1. IInv => ClosedWhenTrickled
  <2> SUFFICES ASSUME IInv, NEW p \in Peers, closed[p], ~SctxDone(p)
               PROVE  /\ gathered[p] = Cands[p]
                      /\ \A w \in Writers : writer[p][w].at = "idle"
                      /\ \E m \in ToSet(sent[p]) : m.msg.kind = "desc"
    BY DEF ClosedWhenTrickled
  <2>1. Shaped /\ Winds(p) /\ Writes(p)
    BY DEF IInv, Sends
  <2>2. start[p] = "run" /\ gathered[p] = Cands[p] /\ writer[p]["gatherer"].at = "idle"
    BY <2>1 DEF Winds
  <2>3. writer[p]["start"].at = "idle"
    BY <2>1, <2>2 DEF Writes
  <2>4. PICK i \in 1..Len(sent[p]) : sent[p][i].msg.kind = "desc"
    BY <2>1, <2>2 DEF Writes, Told
  <2>5. sent[p][i] \in ToSet(sent[p])
    BY <2>1, Numbers, LenProperties DEF ToSet
  <2>6. QED
    BY <2>2, <2>3, <2>4, <2>5 DEF Writers
<1>2. QED
  BY <1>1, Inductive, PTL
================================================================================
