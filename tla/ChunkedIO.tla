------------------------------- MODULE ChunkedIO -------------------------------
(***************************************************************************)
(* The framing of messages on a byte stream (messenger-chunked-io.go).     *)
(*                                                                         *)
(* write puts the length of the message in front of it, in as many bytes   *)
(* as it takes, least significant first, and ends it with a newline.  read *)
(* peeks at eight bytes, takes the length to end at the first newline      *)
(* behind the first byte, and reads that many bytes.  Its receiver is a    *)
(* value: the bufio.Reader it reads through is a copy, empty at each call, *)
(* and what the copy still holds when read returns is gone.                *)
(*                                                                         *)
(* A message is its length: read never looks at its bytes.  The stream is  *)
(* one of smux or a websocket, as the commands use it: each Read returns   *)
(* bytes of one Write, in pieces that the hops in between may have made.   *)
(***************************************************************************)
EXTENDS Integers, Sequences

CONSTANTS
    Lens,       \* lengths of the messages written
    MaxWrites,  \* bound: messages written
    Cuts        \* offsets at which the hops may break a frame in pieces

Newline  == 10      \* '\n'
BuffSize == 4096    \* of a bufio.Reader
MinLen   == 16      \* a sealed message holds at least its tag
MaxLen   == 16777215     \* bound: no longer message passes a websocket

ASSUME ChunkedIOAssumption ==
    /\ Lens \subseteq MinLen..MaxLen
    /\ MaxWrites \in Nat
    /\ Cuts \subseteq Nat

VARIABLES
    sent,       \* lengths of the messages written
    wire,       \* frames on the stream: the message, bytes read, bytes that arrive
    whole,      \* how many of the messages arrive in full
    closed,     \* the stream was closed, by the writer or on its way
    received,   \* lengths of the messages that read returned
    reader,     \* where read is
    next,       \* the message whose frame read is at
    rbuff,      \* bytes in the copy of the buffer
    nbl,        \* length bytes found
    want,       \* length of b: the length prefix and the message
    got         \* bytes of b read so far

streamVars == <<sent, wire, whole, closed>>
readVars   == <<received, reader, next, rbuff, nbl, want, got>>
vars == <<streamVars, readVars>>

Least(m, n) == IF m <= n THEN m ELSE n

-----------------------------------------------------------------------------
(* The length prefix. *)

Byte(n, i) ==
    (IF i = 1 THEN n ELSE IF i = 2 THEN n \div 256 ELSE n \div 65536) % 256

\* MUTANT: a length of 256 is taken to fit in one byte.
NblOffByOne(n) == IF n <= 256 THEN 1 ELSE IF n <= 65536 THEN 2 ELSE 3

\* The number of length bytes.
Nbl(n) == IF n < 256 THEN 1 ELSE IF n < 65536 THEN 2 ELSE 3

\* The length prefix that write builds.
Header(n) == [i \in 1..(Nbl(n) + 1) |-> IF i <= Nbl(n) THEN Byte(n, i) ELSE Newline]

\* MUTANT: write makes room for one byte more than the prefix has.
FrameLenPadded(n) == Nbl(n) + 2 + n

\* The bytes that write puts on the stream.
FrameLen(n) == Nbl(n) + 1 + n

\* MUTANT: the newline is counted as a length byte.
NblReadNewline(h) ==
    IF Len(h) = 1 \/ h[2] = Newline THEN 2
    ELSE IF Len(h) = 2 \/ h[3] = Newline THEN 3
    ELSE 4

\* The number of length bytes that read finds in the peeked bytes h: up to the
\* first newline behind the first byte, or to the end of h.
NblRead(h) ==
    IF Len(h) = 1 \/ h[2] = Newline THEN 1
    ELSE IF Len(h) = 2 \/ h[3] = Newline THEN 2
    ELSE 3

\* The length in the first k bytes of h.
LenRead(h, k) ==
    h[1] + (IF k >= 2 THEN 256 * h[2] ELSE 0) + (IF k >= 3 THEN 65536 * h[3] ELSE 0)

\* No length byte behind the first one is a newline.
Framable(n) == \A i \in 2..Nbl(n) : Byte(n, i) # Newline

-----------------------------------------------------------------------------
(* The stream and its writer. *)

Init ==
    /\ sent = <<>> /\ wire = <<>> /\ whole = 0 /\ closed = FALSE
    /\ received = <<>>
    /\ reader = "idle"
    /\ next = 0 /\ rbuff = 0 /\ nbl = 0 /\ want = 0 /\ got = 0

\* write: the frame goes to the stream in one Write.
Write(n) ==
    /\ ~closed
    /\ Len(sent) < MaxWrites
    /\ sent' = Append(sent, n)
    /\ wire' = Append(wire, [n |-> n, off |-> 0, end |-> FrameLen(n)])
    /\ whole' = whole + 1
    /\ UNCHANGED <<closed, readVars>>

\* The stream is closed: the last frames, and the end of the one before them,
\* may be lost with it.
Close ==
    /\ ~closed
    /\ closed' = TRUE
    /\ \/ UNCHANGED <<wire, whole>>
       \/ \E i \in 1..Len(wire) :
             /\ whole' = whole - (Len(wire) - i + 1)
             /\ \/ wire' = SubSeq(wire, 1, i - 1)
                \/ \E c \in Cuts :
                      /\ wire[i].off < c /\ c < wire[i].end
                      /\ wire' = [SubSeq(wire, 1, i) EXCEPT ![i].end = c]
    /\ UNCHANGED <<sent, readVars>>

AtEnd == closed /\ wire = <<>>

\* What one Read with room for space bytes may return.
Pieces(space) ==
    LET f     == Head(wire)
        avail == Least(space, f.end - f.off)
    IN {avail} \cup {k \in {c - f.off : c \in Cuts} : 0 < k /\ k < avail}

\* k bytes are taken off the stream.
Advance(k) ==
    wire' = IF Head(wire).off + k = Head(wire).end
            THEN Tail(wire)
            ELSE [wire EXCEPT ![1].off = @ + k]

-----------------------------------------------------------------------------
(* read *)

\* read is called, with an empty copy of the buffer.
Read ==
    /\ reader = "idle"
    /\ reader' = "peek"
    /\ rbuff' = 0
    /\ UNCHANGED <<streamVars, received, next, nbl, want, got>>

\* MUTANT: Peek asks for more bytes than a message may have.
PeekSizeWide == 32

PeekSize == 8

\* Peek fills the buffer until it holds eight bytes.
Peek ==
    /\ reader = "peek" /\ rbuff < PeekSize /\ wire # <<>>
    /\ \E k \in Pieces(BuffSize - rbuff) : Advance(k) /\ rbuff' = rbuff + k
    /\ next' = Head(wire).n
    /\ UNCHANGED <<sent, whole, closed, received, reader, nbl, want, got>>

\* Less than two bytes are left: read returns the error of Peek.
PeekFails ==
    /\ reader = "peek" /\ rbuff < 2 /\ AtEnd
    /\ reader' = "failed"
    /\ UNCHANGED <<streamVars, received, next, rbuff, nbl, want, got>>

\* The length is taken from the peeked bytes, of which those behind the prefix
\* are never looked at; ReadFull begins with what is buffered.
ReadLength ==
    LET h == SubSeq(Header(next), 1, Least(rbuff, Nbl(next) + 1)) IN
    /\ reader = "peek"
    /\ rbuff >= PeekSize \/ (rbuff >= 2 /\ AtEnd)
    /\ reader' = "full"
    /\ nbl' = NblRead(h)
    /\ want' = nbl' + 1 + LenRead(h, nbl')
    /\ got' = Least(rbuff, want')
    /\ rbuff' = rbuff - got'
    /\ UNCHANGED <<streamVars, received, next>>

\* ReadFull goes on, through the buffer, or past it when much is missing.
ReadFull ==
    /\ reader = "full" /\ got < want /\ wire # <<>>
    /\ \E k \in Pieces(IF want - got >= BuffSize THEN want - got ELSE BuffSize) :
         /\ Advance(k)
         /\ got' = got + Least(k, want - got)
         /\ rbuff' = k - Least(k, want - got)
    /\ UNCHANGED <<sent, whole, closed, received, reader, next, nbl, want>>

\* The stream ends in the middle of a frame.
ReadFullFails ==
    /\ reader = "full" /\ got < want /\ AtEnd
    /\ reader' = "failed"
    /\ UNCHANGED <<streamVars, received, next, rbuff, nbl, want, got>>

\* read returns a message.  One that is not what was written does not decrypt,
\* and nobody reads again.
Return ==
    /\ reader = "full" /\ got = want
    /\ received' = Append(received, want - nbl - 1)
    /\ reader' = IF want - nbl - 1 = next THEN "idle" ELSE "failed"
    /\ UNCHANGED <<streamVars, next, rbuff, nbl, want, got>>

-----------------------------------------------------------------------------
ReaderStep ==
    Read \/ Peek \/ PeekFails \/ ReadLength \/ ReadFull \/ ReadFullFails \/ Return

Next ==
    \/ \E n \in Lens : Write(n)
    \/ Close
    \/ ReaderStep

\* The goroutine of the readLoop runs, and the stream delivers.
Fairness == WF_vars(ReaderStep)

Spec == Init /\ [][Next]_vars /\ Fairness

-----------------------------------------------------------------------------
(* Properties. *)

Frame == [n : Lens, off : Nat, end : Nat]

\* Every variable stays within its domain: a frame on the stream has bytes to
\* read, and no more bytes are read into b than it has room for.
TypeOK ==
    /\ sent \in Seq(Lens)
    /\ wire \in Seq(Frame)
    /\ \A i \in 1..Len(wire) : wire[i].off < wire[i].end
    /\ whole \in Nat
    /\ closed \in BOOLEAN
    /\ received \in Seq(Nat)
    /\ reader \in {"idle", "peek", "full", "failed"}
    /\ next \in Lens \cup {0}
    /\ rbuff \in 0..BuffSize
    /\ nbl \in 0..3
    /\ want \in Nat /\ got \in 0..want

\* Up to the first length that has a newline among its bytes behind the first,
\* read returns every message as it was written, in order, and only those that
\* have arrived in full.
ReceivedIsSent ==
    \A i \in 1..Len(received) :
        (i <= Len(sent) /\ \A j \in 1..i : Framable(sent[j])) =>
            i <= whole /\ received[i] = sent[i]

\* When read returns a message, nothing of the next one is in the buffer that
\* it throws away.
NothingLeftBehind ==
    [][reader = "full" /\ reader' = "idle" => rbuff = 0]_vars

\* The last message that read returned is another one than was written.
Garbled == received # <<>> /\ received[Len(received)] # sent[Len(received)]

Messages == INSTANCE MessageStream WITH
    Msgs     <- Lens,
    Carried  <- {n \in Lens : Framable(n)},
    received <- IF Garbled THEN SubSeq(received, 1, Len(received) - 1) ELSE received,
    stopped  <- reader = "failed"

\* To the layer above, write and read are a stream of whole messages, however
\* the hops break the frames in pieces and wherever the stream ends: what read
\* does with a prefix, a buffer and a torn frame is a receive, an end, or
\* nothing.
ImplementsMessageStream == Messages!Spec
================================================================================
