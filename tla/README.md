# Verification of aetherport

TLA+ specifications of aetherport (`src/`), the TLC runs that check them on
small instances, and TLAPS proofs for every size. Aetherport forwards TCP
connections over WebRTC data channels: an *egress* listens locally, an
*ingress* dials the remote address, and both negotiate through a signalling
channel, typed by hand (tty) or through the *aetherlight* server.

## The system

| Component | State | Operations | Talks to |
| --- | --- | --- | --- |
| Back-pressure (`datachannel-conn.go`) | `wBuffWaiter`, `wBuffWaiterChan`, buffered amount of the SCTP stream | `Write`, the `OnBufferedAmountLow` callback, `Close` | pion's SCTP association (read loop, acknowledgements), smux above it |
| Aetherlight server (`signal-server-aetherlight.go`) | the map `ingresses`, one smux session per ingress, one goroutine per request | register, relay, disconnect | ingresses and egresses over websockets |
| Negotiation (`proxy-egress.go`, `proxy-ingress.go`: `Start`; `ice.go`; `signal-messenger.go`; `messenger-noised.go`) | descriptions, ICE gathering, deferred candidates, Noise nonces, channels of the messenger | send and receive offer, answer, candidates; time-out; close | the other peer over a byte stream, pion's ICE gatherer by callbacks |
| Tunnels (`startTunnels`, `startTunnel`, `createTunnelsListener`, `createTunnel`, `detach`) | per endpoint: data channel, session, listener, watcher; contexts | create, accept, open stream, accept stream, dial, come down | clients, services, the peer connection |
| Endpoints (`proxy-endpoint.go`) | whitelist | parse, print, authorize | tunnels |
| Framing (`messenger-chunked-io.go`) | the read buffer | write, read | negotiation above, websocket or smux below |
| Noise handshake, identity (`messenger-noised.go`, `identity.go`) | pre-shared keys, own certificate | handshake as initiator and responder, validate the peer | CA pool, framing |
| Certificates (`certificate*.go`) | certificates, CA pool, block list | sign, verify, marshal, parse | files |
| Certificate commands (`cli-certificate.go`) | files of keys and certificates | generate, generate-ca, re-sign | certificates; other commands through the files |
| Node commands (`cli-proxy-aetherlight.go`) | reconnect loops, accept loop | register, accept, shake hands, start a proxy, end the process | all of the above |
| Terminal signalling (`signal-tty.go`, `cli-proxy-tty.go`) | none | print and read a description | negotiation |

What is hard in it: goroutines that share a map, a counter and a cipher state
without locks; callbacks on goroutines of pion; rendezvous channels on which one
side may never arrive; contexts that must bring down whatever is blocked;
descriptions, candidates and data channels that arrive in any order; an accept
loop that one peer can hold up or bring down for all; and commands that change
several files and may overlap or be killed. The
properties of each component are aimed at these; `PROJECT.json` lists every
hazard at its line with the properties that cover it, or says why none does.

## Modules

### DataChannelConn: write back-pressure

`pc[w]` is the line of `Write` at which goroutine `w` is; `cb` the line of the
low-water callback; `buffered` and `wBuffWaiter` are the two numbers read and
written without a common lock, so that the test (line 114), the increment (115)
and the receive (116) are three steps, and so are the loop test, the send and the
decrement of the callback. `Ack` is the SCTP stream releasing bytes: a crossing
of the low mark starts the callback on the read loop, which handles no other
acknowledgement until the callback returns. A stale or a fresh `wBuffWaiter`
(line 60 reads it without an atomic load) makes no difference at the granularity
of one step per access; a build in which the load is hoisted is not considered.

### Aetherlight: the registry

`pc[r]` is where the handler of request `r` is; `req[r]` what it carries: the id,
the key that sealed its token (or none), and the skew of its date. `Authentic` is
`authenticate`: the cryptographic box opens iff the owner of the id sealed it.
Every access to the map is a step: `Lookup`, `Register`, `Recheck`, `Delete`. Go's
runtime may stop the process when it sees two of them together of which one
writes (`ConcurrentMapFatal`). A session may close at any time. `contested` is a
history variable: the ids which two registrations looked up together.

### Signaling: one negotiation

Two peers with five goroutines each: `Start`, the registration by `trickleICE`,
its receiver, the gatherer's callbacks, and the `readLoop` of the messenger.
`writer[p][w]` splits `NoisedMessenger.Write` into sealing under the present
nonce, the increment (which a race may lose), and the write to the stream;
`overlap` remembers that two goroutines were inside together. The reader decrypts
only under the nonce it expects. Messages are handed over by rendezvous
(`RecvDescription`, `RecvICECandidate`); until then the `readLoop` reads no
further. The deadline of `sctx` is a step of its own (`SignalTimeout`), and what
waits for it leaves through `GiveUp`, `RecvICECandidateFails` or `CloseSignal`.
When `Start` has returned, its process or its negotiation is over (`Gone`).

The stream is assumed reliable, ordered and made of whole messages (what
ChunkedIO shows of framable ones), and does not
fail before a peer closes it; SDP and ICE are reduced to "a description with the
candidates known so far" and numbered candidates.

### Tunnel: data channels, sessions, listeners

One record of state per endpoint on each side. At the egress `etun[t]` is the
place in `startTunnel`, `watcher[t]` the goroutine that waits for the end of the
session, cancels the context and closes the listener, in this order; `Unwind` is
the deferred closes. At the ingress `OnDataChannel` authorizes the label and
`itun[t]` is the place in `createTunnel`. Endpoints are the sequences of their
parts between colons, so that `String`, `EndpointFromString`, the whitelist and
what `net.Dial` accepts are computed and not assumed. Left out: the bytes that
`relay` copies, the dummy data channel, an ingress without an authorizer.

### ChunkedIO: framing

A message is its length, since `read` never looks at the rest. `Header`,
`FrameLen` are the prefix and the frame that `write` builds, `NblRead` and
`LenRead` what `read` makes of the peeked bytes. `wire` is the stream: frames of
which some bytes are read and the last may be cut off; one `Read` of it returns
bytes of one `Write` only, as smux and the websocket do, in pieces that begin and
end at a few offsets (`Cuts`). `read` is the steps of its calls: fill the buffer
until eight bytes can be peeked, take the length, fill `b` through the buffer or
past it. The buffer is empty at each call, because the receiver is a value and
its `bufio.Reader` a copy. Nobody reads again after an error, nor after a message
that does not decrypt. Left out: lengths of four bytes and more, and the
goroutine and the rendezvous of `Read` and `Write` (Signaling has them).

A length is *framable* when none of its bytes behind the first is a newline.
Others, 2560 to 2815 for example, are read as a shorter message: the properties
exclude them and everything behind them, and the instance contains them to show
that what was read before stays right.

### MessageStream: what the framing promises

The stream of whole messages, in order and without loss before the close, that
`Signaling` and `Node` take for granted. `ChunkedIO` implements it
(`ImplementsMessageStream`, safety and liveness): `sent` maps to itself, `whole`
to the number of frames of which no byte is missing, and `received` to what `read` returned,
without a message that was misread (`Garbled`), after which the receiver counts
as stopped. `Carried` is the set of framable lengths.

### Certificate: certificates and the CA pool

Operators only. A certificate is its details and its signature; keys are ideal,
and a checksum is the marshalled certificate. Labels are kept as the lengths of their keys,
because that is what the code changes: `getDetailsRaw` and
`UnmarshalAetherportCertificate` append to slices that already have that many
empty elements (`Blank`), and `UnmarshalText` drops the last byte of a key. Each
marshalling and each parsing therefore doubles the labels, and the signature is
computed over the doubled ones. Left out: names, the block list (nothing fills
it), `VerifyPrivateKey` (nothing calls it).

### CliCertificate: the certificate commands

`file` is the directory, `shell[s]` the command that shell `s` runs, with its
local variables. Every stat, read, create and write of a file is a step, because
that is where another command, the clock or a kill may come in between. `O_EXCL` is
`OpenExcl`; `os.WriteFile` of re-sign is `Truncate` and then `WriteCert`. A write
that fails is a kill at the same place. `default` is a history variable: the
certificates to which only commands without labels and durations contributed.

Any command may name the files of the CA for those of a node (`RequestAssumption`).
For generate this fails, since `O_EXCL` finds them there. Nothing in the code stops
`re-sign --cert cacert.pem`: it signs the CA certificate as if it were that of a
node and writes it back, with another sum, so that no certificate issued before is
accepted any more. The model does the same, and `default` is empty from then on.

There is one CA pair, which all commands find under the same `--cakey` and
`--cacert`; the directory is empty at first; and a name that is not of the CA
serves for keys or for certificates, not for both. Outside the model are therefore
several CAs in one directory, pairs of which one half is brought in by hand (with
a lone CA certificate, generate-ca leaves a key that does not match it), and files
written by other programs.

### Node: an ingress, its egresses, the server between them

The composition: the entry of the registry (Aetherlight in outline: `pending` from
the upgrade of the websocket to `Register`, then `live`, and `stale` from the close of
the session to `Deregister`), the session and its `backlog` of streams, the accept loop
of `runAetherlightIngress` (`loop`,
one handshake at a time), and for every connection the stream through the server
(`link`), the place of each side (`ing`, `eg`) and how many messages each has
written (`iw`, `ew`). The handshake is two messages: the ingress writes first,
under its first pre-shared key; the egress tries all of its own (`Opens`),
validates the certificate and answers; the ingress validates it. `PresharedKeys` are computed from the certificates and
pools as `computePresharedKeys` does, and `ValidatePeer` is `Verify` of Certificate at
the time of the handshake. What the end of a step does to everything else
is spelled out: `Return` (deferred closes, after a failed handshake or a lost session),
`IngressExit` and `EgressExit` (`log.Fatalln`), `EgressReturn` (the loop goes round).
A connection that neither side knows any more is used again, so that runs are infinite.

The two ends of a session notice its end separately and in either order: the server by
`SessionCloses` (its keep-alive is 3 seconds), the ingress by `SessionLost` or whatever
else makes it return (its keep-alive is smux's default, 30 seconds). So the ingress may
accept before it is registered and after its entry is gone, and an egress may be
given a stream of a session the ingress has left (`Dial`). That an ingress connects again
before the server has registered its last websocket is left to Aetherlight, which has
racing registrations.

Peers are honest: each presents its own certificate. Neither `ValidatePeer`
(`identity.go:96`) nor the handshake (`messenger-noised.go:71` and 125) compares the
public key of the certificate with the static key of the handshake, so that nothing
here speaks of a peer that presents the certificate of another.

### Proof modules

`DataChannelConn_proofs`, `Aetherlight_proofs`, `Signaling_proofs`,
`Tunnel_proofs`, `ChunkedIO_proofs`, `Certificate_proofs`, `CliCertificate_proofs`
and `Node_proofs` hold the theorems about the module each extends
(`CliCertificate_proofs` also uses those about certificates). The `MC` modules only give names to small sets.

In the modules, an operator under a comment that begins with MUTANT is never used
by a specification: it is a plausible slip in the definition that follows it, and
documents which property would notice.

## Runs

| Run | Question | Instance |
| --- | --- | --- |
| `backpressure` | Is the counter exact, is the read loop ever blocked, where can a wake-up be lost, do all others arrive? | 2 writers, 3 writes each of 1 or 2 bytes, marks 1 and 2 |
| `lost_wakeup` (violated) | Does every write return? | 1 writer, as in the program |
| `registry` | Who owns an entry, whom does an egress reach, can an id be taken over, is it freed? | 3 requests of any kind, 2 ids, skews inside and outside the window |
| `trickle` | Are candidates applied once and after the description, what breaks the transport, is anything cut off by Close? | 2 candidates at the ingress, the egress may time out |
| `negotiation` | Does an answer or an offer written first arrive, does a deadline end Start? | 1 candidate at the egress, both may time out |
| `offer` (violated) | Does every offer reach the ingress? | the same without deadlines |
| `framing` | Is what is read what was written, is anything of the next message thrown away, is this a message stream? | 3 messages of 7 lengths, broken at 5 offsets, the stream cut anywhere of these |
| `tunnels` | Does the accept loop spin, who is served, what is open when startTunnels returns? | 2 endpoints, 1 allowed, 1 client |
| `shutdown` | Does everything come down? | 2 endpoints, 1 allowed |
| `dial` (violated) | Is the remote address dialled? | 1 allowed endpoint, 1 client |
| `certificates` | Is a key or the CA ever overwritten, has every certificate its key, what is left behind, is what default settings make accepted? | 2 shells, 3 commands of 10 kinds (3 of them name a file of the CA), 2 key files, 1 certificate file, 4 seconds |
| `node` | Who gets a tunnel, who is refused, does the accept loop go on, does the ingress register again? | 1 ingress, 2 egresses of two CAs, 2 + 1 connections, 3 seconds |

Bounds and why they are enough. Two writers are the least with which a callback
has a second waiter and the counter can be wrong by interleaving; the marks need
only leave room for one write above the high and for one byte under the low.
Three requests give two racing registrations and a third that has gone or comes to
relay; the second id shows that ids do not disturb each other. One candidate is enough to race with a
description, two to be deferred and flushed together with a third goroutine in
between. Two endpoints are the least for one to be refused while the other is
served, and for the wait for all of them. Of two messages the second can suffer
from the first, and a third shows that the reader goes on after it; the lengths are the least, the first of two and of three bytes, a
newline in each place it can have, and one that the buffer does not hold; the
offsets fall into the prefix, right behind it, behind the peeked bytes and behind
the buffer. Three commands
are one that makes a CA, one that uses it and one that interferes with either;
two key files and one certificate file let a new key meet an old certificate, and
re-sign takes its turn on the CA between the making and the use of it. In
four seconds a CA of the default duration (two) expires and a re-signed certificate
outlives it. In `node` the first egress may connect again while the server still
winds down its last connection; the certificate of this egress is not valid yet, valid, and
expired, one second each, and the second egress is of another CA that
everybody trusts. Deadlock is not checked, since every one
of these protocols may end: the calls of `Write` are bounded, requests,
connections and commands are used up, a negotiation is over, every node has
ended.

### What the violated runs show

- `lost_wakeup`: the buffer drains between line 114 and line 115 of
  `datachannel-conn.go`; the callback sees no waiter, the writer then parks, and no
  crossing will come from an empty buffer. `LostWakeupOnlyInWindow` shows this is
  the only way.
- `offer`: a candidate of the egress is on the stream before its offer (or the
  two were sealed under one nonce). The `readLoop` of the ingress waits with the
  candidate for a receiver that only starts after the offer. Only the deadline
  ends it, and `SettlesAfterDeadline` shows that it does.
- `dial`: the label has four parts, `net.Dial` takes two.

### What the passing runs exclude

Some properties are stated up to a case in which the code does something else;
the model contains the case, and the hazards name its line.

- A connected ingress is the one its url leads to unless two registrations of its
  id were past the look-up together (`UncontestedIsReachable`). If they were, the
  removal by the first one's handler can delete the entry of the second, because
  line 107 and 110 of `signal-server-aetherlight.go` are not one step.
- `DefaultIsAccepted` is about commands without labels and without a duration. A
  label makes a certificate that no peer accepts (proved, see below). A duration
  given to `generate` without a CA makes a CA that lasts no time
  (`cli-certificate.go:34` to 37). A default certificate re-signed without a duration
  ends after its CA and is refused (`cli-certificate.go:219`).
- `KeysAreKept` excepts the re-sign that is told to sign the CA certificate, and
  `DefaultIsAccepted` what was issued before it (`cli-certificate.go:178` and 235).
- `NothingLeftBehind` is about the lengths that `write` and `read` count. That no `Read` of the stream
  returns bytes of two `Write`s is assumed of smux and the websocket, and a transport
  that joined them would lose messages.
- `RefusedOnlyAcrossCAs`: nodes of different CAs never meet, although their pools
  hold both and each would accept the other's certificate (`identity.go:66`).
- No bound on the buffer of a data channel is stated: with two writers, one that
  parks again while the callback loops is released again at any amount.

### Fairness

Every goroutine that can take a step is eventually run: that is the Go scheduler.
`DataChannelConn` also assumes that an open channel acknowledges what it was
given, and nothing of a closed one. `Aetherlight` assumes nothing of the clients:
a session need not close, but a relay ends, because its context does after a
minute. `ChunkedIO` assumes that the `readLoop` runs and that an open stream
delivers what it took; a stream need not close. `Node` assumes
that the goroutines of the ingress and of the server run, that the minute of a
relay passes, and that each end of a session notices, by the close of the websocket or by its
keep-alive, when the other has left it; that a session ends is not assumed. Of an egress
it assumes nothing, since its host may be suspended at any point, and that is the case `AcceptLoopIsFreed` is about. `CliCertificate` has
no liveness property. `Signaling` does not assume that a deadline passes or that a connection
ends; the egress ends its tunnels with `sctx`, which is what `Tunnel` shows
(`EgressComesDown`). `Tunnel` assumes that an smux session notices its closed
data channel (its read or its keep-alive fails). In `Signaling` and for the
egress of `Tunnel` one weak fairness condition covers all goroutines together:
they have finitely many steps in all, so that none can be overtaken for ever.

## Proofs

Every invariant that a passing run checks is proved, for every value of the
constants, and so are the action properties; the liveness properties are not (see the
end of this section). `tlapm` checks the proofs from the assumptions in the modules:

- `ConnAssumption`: finitely many writers, `wBuffLow <= wBuffMax`, positive sizes;
- `AetherlightAssumption`: `None` is neither an id nor a request, skews are integers;
- `SignalingAssumption`: each peer has a number of candidates, and only peers have
  deadlines;
- `TunnelAssumption`: endpoints are pairs of addresses of two parts each, which is
  what `EndpointFromString` makes of the command line; `None` is no connection;
- `ChunkedIOAssumption`: lengths fit in three bytes;
- `RequestAssumption`, `FileAssumption`, `BoundAssumption`: a command names any files, the CA's
  included, but generate makes keys and certificates of nodes under different names; the
  files of keys, certificates and the CA are different ones, and an absent and
  an empty file are told apart from each other and from a key;
- `NodeAssumption`: every connection has an egress, pools are finite and hold the
  issuer of the node's own certificate, without which `NewIdentity` fails.

The theorems of `CliCertificate_proofs` have a hypothesis besides: no certificate record
equals `None` or `Empty` (`Distinct`), and for `DefaultAccepted` no pool of one CA equals
`None` (`NoPool`). They hold for the model values of the run; they are hypotheses
and not assumptions of the module because TLC cannot evaluate a quantifier
over all certificates.

**DataChannelConn.** The counter equals the parked writers plus the one just
released (`WaiterAccounting`). That is inductive only with two facts about the
callback: what it saw stays true until it sends (`SendIsCounted`: writers may
join but none leaves without it), and a writer between test and increment is
recorded when a crossing passes it (`WindowRecorded`). `ParkedHasWakeup` then says
that each parked writer is waiting for a buffer above the low mark, for a running
callback, or was recorded. The lemmas `ParkedSame`, `ParkedGrows` and
`ParkedShrinks` say what one change of a program counter does to the cardinality.

**Aetherlight.** That an entry has a live owner needs that a registering handler
was verified (`MasterVerified`), that an egress keeps a verified owner from its
look-up on (`EgressBound`, `RelayIsEgress`), and for the uncontested ids that at
most one registration is between its look-up and its entry, or served, at a time
(`OneAtATime`).

**Signaling.** The invariant is about each direction, `Sends(p)` for what `p` writes
and `Receives(p)` for what it makes of the other peer's stream.
- `Nonces` counts: the nonce never exceeds the messages sealed so far, less those whose
  writer has yet to increment it (`Room`). This bounds it although two writers
  may seal under one nonce.
- `InSequence`: as long as the two writers have not met (`overlap`), message `i` of the
  stream bears nonce `i - 1`, and at most one writer is busy with the next.
  `BrokenOnlyByOverlap` follows with `Reads`, which ties the nonce of the reader to its
  place in the stream.
- `Distinct`: no candidate is written twice, since the one being written is above all
  those on the stream. With `Takes`, which says that what was applied or deferred came
  at an earlier place than the message in hand, this gives `AppliedOnce`.
- `Winds` follows the end of gathering through `trickle` and `start` to `Close`, and gives
  `ClosedWhenTrickled`; `Fresh` says `trickleICE` is started once.

For each action a lemma (`...Is`) first says which cells of the functions it changes.
A step of one peer that leaves all that `Sends` reads alone is dealt with once (`RestKeeps`,
`SameKeeps`), so only the writing steps and the handing over of messages need an argument.

**Tunnel.** `ClosedListenerIsCancelled` needs that the watcher cancels before it closes
(`WatcherCancelled`). `OnlyAuthorizedServed` needs that only authorized data channels get
past `OnDataChannel` (`ServedIsAuthorized`) and that a connection stays with the tunnel it
came in by, on both sides (`StreamsBound`). `ReturnedIsQuiet` follows from
`EndedIsQuiet`: a tunnel that has ended, or not begun, has nothing open. The egress and the
ingress are proved apart (`EgressNext`, `IngressNext`). `LabelRoundTrip`: for any endpoint the
whitelist looks at the remote address, and no label can be dialled, which is what the
run `dial` shows on one endpoint.

**ChunkedIO.** `RoundTrip`: for every framable length, not only those of the run,
`read` finds as many length bytes as `write` put in, takes the same length from
them and expects exactly the bytes of the frame. `HeaderBytes` says what the
prefix holds, `LengthOfBytes` that its bytes, weighed, are the length; both go by
the number of bytes. The invariant says that some number `b` of frames have left the
stream, that those on it are the messages behind `b`, all from their first byte but perhaps
the first one (`Layout`), and that the reader is between two frames or has taken so many bytes
of the one it reads (`At`); what it returned is what was sent (`Returned`). It holds for
any lengths, any pieces and any place where the stream is cut. From it follow
`ReceivedIsSent`, `NothingLeftBehind`, and `Implements`: every step is a step of
`MessageStream` or leaves its variables unchanged, which is `ImplementsMessageStream`
but for its fairness.

**Certificate.** `UnlabelledSurvives`: a certificate without labels is unchanged
by marshalling and parsing, and its signature checks with the key that signed
it only. `LabelledNeverAccepted`: with any labels at all, the parsed certificate is
refused by every pool at every time, and as a CA. The argument is the number of labels: signed are twice as
many as given (`RawLabelsLen`), and checked are twice as many as parsed, which are
twice as many as written (`ParsedLabelsLen`); the signature is over a sequence of
another length. `Shapes` writes a signed and a parsed certificate out as records.

**CliCertificate.** Every step of a command is of one of a few kinds (`Kind`: it reads,
makes a key pair, creates a file, writes a key or a certificate, truncates), and the
invariants are shown kind by kind.
- `KInv`: a command that made a pair holds both halves of it (`HoldsPair`); the file it
  writes next is of the right kind, although the request may name one of the CA's
  (`Directed`); a file about
  to be written is one this command created and nobody else writes (`WritesOwn`, from
  `O_EXCL`); once a command has read the CA neither of its files is created again,
  though the certificate may be emptied by a re-sign (`CAStands`); the key of a
  certificate is on disk before the certificate is (`KeyFirst`). It gives `KeyMatchesCertificate` and `KeysAreKept`.
- `Attended`: unless a command was killed, whatever is half done has a command at work on it.
  It gives `CompleteUnlessKilled`.
- `DInv`: a certificate made with default settings, in memory (`HoldsMade`) or on disk
  (`KeepsMade`), was signed with the key on disk for the CA on disk, begins no earlier than the CA
  and ends a second before it. It stays so because the CA certificate
  does not change as long as it is among them, and none is left once it is signed
  again (`Stays`). With `UnlabelledSurvives` this gives `DefaultIsAccepted`.

**Node.** `OpensWithinOneCA`: all pre-shared keys of a node come from the CA that
issued its certificate, so that an egress opens the first message exactly if the CAs of
both bear one signature, whatever the pools hold. `MutuallyTrusted` needs what each
side has done by the time it goes on: an egress that has answered has opened the message and
verified the ingress (`EgressHasVerified`), and the ingress goes on only after such an answer
(`IngressHasVerified`). `TypeOK` needs only that a stream in
the backlog has been opened (`BacklogIsLinked`), or its connection could be taken for an
unused one and queued again; in whatever order the two ends notice that the session is over.
`WithinOneCA` states the consequence: no negotiation
begins between nodes of two CAs.

Only model-checked, since fairness and `ENABLED` are out of the prover's reach:
`RegisteredWriterWakes`, `ReadLoopReleased`, `DisconnectedIsDeregistered`,
`InOrderDescriptionArrives`, `SettlesAfterDeadline`, the fairness of
`ImplementsMessageStream`, `EgressComesDown`, `RefusedIsNotListening`,
`IngressComesDown`, `AcceptLoopIsFreed` and `RegistersAgain`. `EveryWriteReturns`,
`OfferReachesIngress` and `DialsRemote` are false.

## Not modelled

- The bytes that `relay` copies, and so what a half-close loses: no document
  promises half-open connections. That a relay ends is in `Tunnel` and `Node`.
- A restart of `trickleICE` after a failed send (`ice.go:36`) or a failed
  `AddICECandidate` (`ice.go:81` and 98): the stream of `Signaling` does not fail while
  both peers signal, and candidates of an honest peer can be added.
- Peers that present a certificate which is not theirs (see Node).
- Terminal signalling: input and output of one exchange, without candidates,
  deadline or concurrency.
- The token of a registration as bytes (`aetherlightToken`): `Authentic` in
  Aetherlight says when it opens.
- Names of certificates, the block list, `VerifyPrivateKey`.
- Generated protobuf code, flag parsing, logging, the public-key endpoint (no state).

## What is left to prove

No safety property of a run is left. What remains are the facts on which the liveness
properties rest, as far as they can be stated without fairness: that a tunnel
that is coming down, or a negotiation past its deadline, has no step that takes it back,
so that the progress TLC finds on the small instances has a measure that decreases on all.
