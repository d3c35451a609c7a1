---------------------------- MODULE ChunkedIO_proofs ----------------------------
(***************************************************************************)
(* Proofs about ChunkedIO: the length prefix of any length, and what read  *)
(* makes of the frames, however the stream breaks them in pieces.          *)
(***************************************************************************)
EXTENDS ChunkedIO, SequenceTheorems, TLAPS

(* The length prefix. *)

\* Lengths are numbers of at most three bytes.
LEMMA LenIsNat == \A n \in MinLen..MaxLen : n \in Nat /\ MinLen <= n /\ n < 16777216
<1>1. MaxLen \in Nat
  BY SMT DEF MaxLen
<1>2. \A n \in MinLen..MaxLen : n \in Nat /\ MinLen <= n /\ n <= MaxLen
  BY SMT, <1>1 DEF MinLen
<1>3. \A n \in Nat : n <= MaxLen => n < 16777216
  BY SMT DEF MaxLen
<1>4. QED
  BY <1>2, <1>3

\* What write puts before a message of one, two or three length bytes.
LEMMA HeaderBytes ==
    ASSUME NEW n \in MinLen..MaxLen
    PROVE  /\ Nbl(n) \in 1..3
           /\ Header(n) \in [1..(Nbl(n) + 1) -> 0..255]
           /\ Len(Header(n)) = Nbl(n) + 1
           /\ \A i \in 1..Nbl(n) : Header(n)[i] = Byte(n, i)
           /\ Header(n)[Nbl(n) + 1] = Newline
<1>0. n \in Nat
  BY LenIsNat
<1>1. Nbl(n) \in 1..3
  BY SMT, <1>0 DEF Nbl
<1>2. ASSUME NEW i \in 1..3 PROVE Byte(n, i) \in 0..255
  <2>1. CASE i = 1
    BY SMT, <1>0, <2>1 DEF Byte
  <2>2. CASE i = 2
    BY SMT, <1>0, <2>2 DEF Byte
  <2>3. CASE i = 3
    BY SMT, <1>0, <2>3 DEF Byte
  <2>4. QED
    BY <2>1, <2>2, <2>3
<1>3. Header(n) \in [1..(Nbl(n) + 1) -> 0..255]
  BY <1>1, <1>2 DEF Header, Newline
<1>4. Len(Header(n)) = Nbl(n) + 1
  BY <1>1, <1>3 DEF Header
<1>5. QED
  BY <1>1, <1>3, <1>4 DEF Header

\* The length bytes, weighed, are the length.
LEMMA LengthOfBytes ==
    ASSUME NEW n \in MinLen..MaxLen
    PROVE  LenRead(Header(n), Nbl(n)) = n
<1>0. n \in Nat /\ n < 16777216
  BY LenIsNat
<1>1. CASE n < 256
  <2>1. Nbl(n) = 1
    BY SMT, <1>0, <1>1 DEF Nbl
  <2>2. Byte(n, 1) = n
    BY SMT, <1>0, <1>1 DEF Byte
  <2>3. Header(n)[1] = n
    BY SMT, <2>1, <2>2, HeaderBytes
  <2>4. QED
    BY SMT, <1>0, <2>1, <2>3 DEF LenRead
<1>2. CASE n >= 256 /\ n < 65536
  <2>1. Nbl(n) = 2
    BY SMT, <1>0, <1>2 DEF Nbl
  <2>2. n \div 256 < 256 /\ n \div 256 \in Nat
    BY SMT, <1>0, <1>2
  <2>3. Byte(n, 1) = n % 256 /\ Byte(n, 2) = n \div 256
    BY SMT, <1>0, <2>2 DEF Byte
  <2>4. Header(n)[1] = n % 256 /\ Header(n)[2] = n \div 256
    BY SMT, <2>1, <2>3, HeaderBytes
  <2>5. (n % 256) + 256 * (n \div 256) = n
    BY SMT, <1>0
  <2>6. n % 256 \in Nat
    BY SMT, <1>0
  <2>7. LenRead(Header(n), 2) = (n % 256) + 256 * (n \div 256) + 0
    BY SMT, <2>2, <2>4, <2>6 DEF LenRead
  <2>8. QED
    BY SMT, <1>0, <2>1, <2>5, <2>7
<1>3. CASE n >= 65536
  <2>1. Nbl(n) = 3
    BY SMT, <1>0, <1>3 DEF Nbl
  <2>2. n \div 65536 < 256 /\ n \div 65536 \in Nat
    BY SMT, <1>0
  <2>3. /\ Byte(n, 1) = (n % 256)
        /\ Byte(n, 2) = (n \div 256) % 256
        /\ Byte(n, 3) = n \div 65536
    BY SMT, <1>0, <2>2 DEF Byte
  <2>4. /\ Header(n)[1] = (n % 256)
        /\ Header(n)[2] = (n \div 256) % 256
        /\ Header(n)[3] = n \div 65536
    <3>1. \A i \in 1..3 : Header(n)[i] = Byte(n, i)
      BY SMT, <2>1, HeaderBytes
    <3>2. 1 \in 1..3 /\ 2 \in 1..3 /\ 3 \in 1..3
      BY SMT
    <3>3. /\ Header(n)[1] = Byte(n, 1)
          /\ Header(n)[2] = Byte(n, 2)
          /\ Header(n)[3] = Byte(n, 3)
      BY <3>1, <3>2
    <3>4. QED
      BY SMT, <2>3, <3>3
  <2>5. (n % 256) + 256 * ((n \div 256) % 256) + 65536 * (n \div 65536) = n
    BY SMT, <1>0
  <2>6. n % 256 \in Nat /\ (n \div 256) % 256 \in Nat
    BY SMT, <1>0
  <2>7. LenRead(Header(n), 3)
          = (n % 256) + 256 * ((n \div 256) % 256) + 65536 * (n \div 65536)
    BY SMT, <2>2, <2>4, <2>6 DEF LenRead
  <2>8. QED
    BY SMT, <2>1, <2>5, <2>7
<1>4. QED
  BY SMT, <1>0, <1>1, <1>2, <1>3

\* read takes from the prefix that write built the length that write put in,
\* for every length without a newline in its bytes behind the first.
THEOREM RoundTrip ==
    ASSUME NEW n \in MinLen..MaxLen, Framable(n)
    PROVE  /\ NblRead(Header(n)) = Nbl(n)
           /\ LenRead(Header(n), NblRead(Header(n))) = n
           /\ NblRead(Header(n)) + 1 + LenRead(Header(n), NblRead(Header(n))) = FrameLen(n)
<1>1. NblRead(Header(n)) = Nbl(n)
  BY SMT, HeaderBytes DEF NblRead, Framable, Newline
<1>2. QED
  BY SMT, <1>1, LengthOfBytes DEF FrameLen

\* The prefix of n, of which the stream has delivered m bytes.
Delivered(n, m) == SubSeq(Header(n), 1, Least(m, Nbl(n) + 1))

\* The prefix is a sequence of bytes.
LEMMA HeaderSeq ==
    ASSUME NEW n \in MinLen..MaxLen
    PROVE  Header(n) \in Seq(0..255) /\ Len(Header(n)) = Nbl(n) + 1
<1>1. PICK k \in Nat : Header(n) \in [1..k -> 0..255]
  <2>1. Nbl(n) + 1 \in Nat /\ Header(n) \in [1..(Nbl(n) + 1) -> 0..255]
    BY HeaderBytes
  <2>2. QED
    BY Zenon, <2>1
<1>2. Header(n) \in Seq(0..255)
  BY <1>1, SeqDef
<1>3. QED
  BY <1>2, HeaderBytes

\* The bytes that read peeks at are those that write put there.
LEMMA DeliveredBytes ==
    ASSUME NEW n \in MinLen..MaxLen, NEW m \in Nat, m >= 2
    PROVE  LET h == Delivered(n, m)
           IN  /\ Len(h) = Least(m, Nbl(n) + 1)
               /\ \A i \in 1..Len(h) : h[i] = Header(n)[i]
               /\ h \in Seq(0..255)
<1>1. Nbl(n) \in 1..3 /\ Len(Header(n)) = Nbl(n) + 1 /\ Header(n) \in Seq(0..255)
  BY HeaderBytes, HeaderSeq
<1>2. Least(m, Nbl(n) + 1) \in 1..Len(Header(n))
  BY <1>1 DEF Least
<1>3. QED
  BY <1>1, <1>2 DEF Delivered

\* Two length bytes, weighed.
LEMMA TwoBytes ==
    ASSUME NEW h \in Seq(0..255), Len(h) >= 2
    PROVE  /\ LenRead(h, 2) = h[1] + 256 * h[2]
           /\ LenRead(h, 2) \in Nat /\ LenRead(h, 2) < 65536
<1> DEFINE a == h[1]
           b == h[2]
<1>1. a \in 0..255 /\ b \in 0..255
  <2>1. 1 \in 1..Len(h) /\ 2 \in 1..Len(h)
    BY LenProperties
  <2>2. QED
    BY <2>1, ElementOfSeq
<1>2. LenRead(h, 2) = a + (256 * b) + 0
  BY DEF LenRead
<1> HIDE DEF a, b
<1>3. /\ a + (256 * b) + 0 = a + 256 * b
      /\ a + 256 * b \in Nat /\ a + 256 * b < 65536
  BY <1>1
<1>4. QED
  BY <1>2, <1>3 DEF a, b

\* What read makes of a prefix, whole or torn: the length that was written, or,
\* when a length byte is a newline, a lesser one; a prefix torn after two of its
\* bytes asks for more bytes than are left.
LEMMA LengthRead ==
    ASSUME NEW n \in MinLen..MaxLen, NEW m \in Nat, m >= 2
    PROVE  LET h == Delivered(n, m)
               k == NblRead(h)
           IN  /\ k \in 1..3 /\ k <= Nbl(n) /\ LenRead(h, k) \in Nat
               /\ \/ Framable(n) /\ k = Nbl(n) /\ LenRead(h, k) = n
                  \/ ~Framable(n) /\ LenRead(h, k) < n
                  \/ Framable(n) /\ m = 2 /\ k = 2
<1> DEFINE h == Delivered(n, m)
           H == Header(n)
<1>1. n \in Nat /\ n < 16777216
  BY LenIsNat
<1>2. /\ Nbl(n) \in 1..3 /\ \A i \in 1..(Nbl(n) + 1) : H[i] \in 0..255
      /\ H[Nbl(n) + 1] = Newline
  BY HeaderBytes
<1>3. /\ Len(h) = Least(m, Nbl(n) + 1) /\ \A i \in 1..Len(h) : h[i] = H[i]
      /\ h \in Seq(0..255) /\ H \in Seq(0..255) /\ Len(H) = Nbl(n) + 1
  <2>1. H \in Seq(0..255) /\ Len(H) = Nbl(n) + 1
    BY HeaderSeq
  <2>2. QED
    BY <2>1, DeliveredBytes
<1>4. LenRead(H, Nbl(n)) = n
  BY LengthOfBytes
<1>5. Framable(n) <=> \A i \in 2..Nbl(n) : H[i] # Newline
  BY HeaderBytes DEF Framable
<1> HIDE DEF h, H
<1>6. CASE Nbl(n) = 1
  <2>1. Len(h) = 2 /\ h[1] = H[1] /\ h[2] = Newline
    BY SMT, <1>2, <1>3, <1>6 DEF Least
  <2>2. NblRead(h) = 1
    BY <2>1 DEF NblRead
  <2>3. LenRead(h, 1) = n
    BY SMT, <1>1, <1>4, <1>6, <2>1 DEF LenRead
  <2>4. QED
    BY SMT, <1>1, <1>5, <1>6, <2>2, <2>3 DEF h
<1>7. CASE Nbl(n) = 2
  <2>1. n >= 256 /\ H[1] \in 0..255 /\ H[2] \in 0..255 /\ H[1] + 256 * H[2] = n
    <3>1. H[1] \in 0..255 /\ H[2] \in 0..255
      BY SMT, <1>2, <1>7
    <3>2. LenRead(H, 2) = H[1] + 256 * H[2]
      <4>1. H \in Seq(0..255) /\ Len(H) >= 2
        BY <1>3, <1>7
      <4>2. QED
        BY <4>1, TwoBytes
    <3>3. n >= 256
      BY SMT, <1>1, <1>7 DEF Nbl
    <3>4. QED
      BY <1>4, <1>7, <3>1, <3>2, <3>3
  <2>2. /\ Len(h) = 2 \/ (Len(h) = 3 /\ h[3] = Newline)
        /\ h[1] = H[1] /\ h[2] = H[2]
    BY SMT, <1>2, <1>3, <1>7 DEF Least
  <2>3. Framable(n) <=> H[2] # Newline
    BY SMT, <1>5, <1>7
  <2>4. CASE H[2] = Newline
    <3>1. NblRead(h) = 1 /\ LenRead(h, 1) = H[1]
      BY SMT, <2>1, <2>2, <2>4 DEF NblRead, LenRead
    <3>2. QED
      BY SMT, <1>1, <1>7, <2>1, <2>3, <2>4, <3>1 DEF h
  <2>5. CASE H[2] # Newline
    <3>1. NblRead(h) = 2 /\ LenRead(h, 2) = n
      BY SMT, <2>1, <2>2, <2>5 DEF NblRead, LenRead
    <3>2. QED
      BY SMT, <1>1, <1>7, <2>1, <2>3, <2>5, <3>1 DEF h
  <2>6. QED
    BY <2>4, <2>5
<1>8. CASE Nbl(n) = 3
  <2>1. /\ n >= 65536 /\ H[1] \in 0..255 /\ H[2] \in 0..255 /\ H[3] \in 0..255
        /\ H[1] + 256 * H[2] + 65536 * H[3] = n
    <3>1. H[1] \in 0..255 /\ H[2] \in 0..255 /\ H[3] \in 0..255
      BY SMT, <1>2, <1>8
    <3>2. LenRead(H, 3) = H[1] + 256 * H[2] + 65536 * H[3]
      BY SMT, <3>1 DEF LenRead
    <3>3. n >= 65536
      BY SMT, <1>1, <1>8 DEF Nbl
    <3>4. QED
      BY <1>4, <1>8, <3>1, <3>2, <3>3
  <2>2. /\ (Len(h) = 2 /\ m = 2) \/ (Len(h) \in {3, 4} /\ h[3] = H[3])
        /\ h[1] = H[1] /\ h[2] = H[2]
    BY SMT, <1>2, <1>3, <1>8 DEF Least
  <2>3. Framable(n) <=> H[2] # Newline /\ H[3] # Newline
    BY SMT, <1>5, <1>8
  <2>4. CASE H[2] = Newline
    <3>1. NblRead(h) = 1 /\ LenRead(h, 1) = H[1]
      BY SMT, <2>1, <2>2, <2>4 DEF NblRead, LenRead
    <3>2. QED
      BY SMT, <1>1, <1>8, <2>1, <2>3, <2>4, <3>1 DEF h
  <2>5. CASE H[2] # Newline /\ (Len(h) = 2 \/ H[3] = Newline)
    <3>1. NblRead(h) = 2
      BY SMT, <2>2, <2>5 DEF NblRead
    <3>2. H[1] \in 0..255 /\ H[2] \in 0..255 /\ n >= 65536
      BY <2>1
    <3>3. LenRead(h, 2) \in Nat /\ LenRead(h, 2) < 65536
      BY <1>3, <2>2, TwoBytes
    <3>4. LenRead(h, 2) < n
      BY <1>1, <3>2, <3>3
    <3>5. ~Framable(n) \/ m = 2
      BY SMT, <2>2, <2>3, <2>5
    <3>6. QED
      BY SMT, <1>8, <3>1, <3>3, <3>4, <3>5 DEF h
  <2>6. CASE H[2] # Newline /\ Len(h) # 2 /\ H[3] # Newline
    <3>1. NblRead(h) = 3 /\ LenRead(h, 3) = n
      BY SMT, <2>1, <2>2, <2>6 DEF NblRead, LenRead
    <3>2. QED
      BY SMT, <1>1, <1>8, <2>1, <2>3, <2>6, <3>1 DEF h
  <2>7. QED
    BY <2>4, <2>5, <2>6
<1>9. QED
  BY SMT, <1>2, <1>6, <1>7, <1>8

-----------------------------------------------------------------------------
(* The inductive invariant.  b is the number of frames that have gone from  *)
(* the stream: they have been read, or read has all of their bytes.         *)

\* The frames on the stream are those of the messages behind b, and a frame is
\* torn exactly when its message does not arrive.
Placed(b, i) ==
    /\ wire[i].n = sent[b + i]
    /\ wire[i].off < wire[i].end /\ wire[i].end <= FrameLen(wire[i].n)
    /\ i > 1 => wire[i].off = 0
    /\ b + i <= whole <=> wire[i].end = FrameLen(wire[i].n)

Layout(b) ==
    /\ b + Len(wire) <= Len(sent)
    /\ whole \in {b + Len(wire) - 1, b + Len(wire)}
    /\ ~closed => whole = Len(sent)
    /\ \A i \in 1..Len(wire) : Placed(b, i)

\* The reader is between two frames.
AtStart(b) == b = Len(received) /\ b <= whole /\ (wire # <<>> => wire[1].off = 0)

\* The reader has taken u bytes of the frame of next, which is the first one on
\* the stream, or has gone from it, whole or torn.
Amid(b, u) ==
    /\ next \in Lens /\ u \in Nat /\ 0 < u
    /\ \/ b = Len(received) /\ wire # <<>> /\ wire[1].off = u /\ wire[1].n = next
       \/ /\ b = Len(received) + 1 /\ next = sent[b]
          /\ wire # <<>> => wire[1].off = 0
          /\ \/ b <= whole /\ u = FrameLen(next)
             \/ b = whole + 1 /\ closed /\ u < FrameLen(next)

\* What read has made of the prefix.
Measured ==
    /\ nbl \in 1..3 /\ nbl + 1 <= want
    /\ got < want => rbuff = 0
    /\ \/ Framable(next) /\ nbl = Nbl(next) /\ want = FrameLen(next)
       \/ ~Framable(next) /\ nbl <= Nbl(next) /\ want - nbl - 1 < next
       \/ Framable(next) /\ closed /\ wire = <<>> /\ got = 2 /\ got < want

At(b) ==
    /\ reader = "idle" => AtStart(b)
    /\ reader = "peek" /\ rbuff = 0 => AtStart(b)
    /\ reader = "peek" /\ rbuff # 0 => Amid(b, rbuff)
    /\ reader = "full" => Amid(b, got + rbuff) /\ Measured

\* The first m messages were received as they were sent, and all of them were
\* taken from the stream.
Good(b, m) ==
    /\ m <= b /\ m <= whole /\ m <= Len(sent)
    /\ \A i \in 1..m : received[i] = sent[i]

\* Only the last message may be another one than was sent: one with a newline
\* among its length bytes, after which nothing is read.
Returned(b) ==
    \/ Good(b, Len(received))
    \/ /\ reader = "failed" /\ received # <<>>
       /\ Good(b, Len(received) - 1)
       /\ Len(received) <= Len(sent) /\ ~Framable(sent[Len(received)])
       /\ received[Len(received)] # sent[Len(received)]

IInv == TypeOK /\ \E b \in Nat : Layout(b) /\ At(b) /\ Returned(b)

\* The size of a frame.
LEMMA FrameSize ==
    ASSUME NEW n \in Lens
    PROVE  /\ n \in MinLen..MaxLen /\ n \in Nat /\ Nbl(n) \in 1..3
           /\ FrameLen(n) = Nbl(n) + 1 + n
           /\ FrameLen(n) \in Nat /\ 18 <= FrameLen(n)
<1>1. n \in MinLen..MaxLen
  BY ChunkedIOAssumption
<1>2. n \in Nat /\ 16 <= n
  BY <1>1, LenIsNat DEF MinLen
<1>3. Nbl(n) \in 1..3
  BY <1>1, HeaderBytes
<1>4. QED
  BY SMT, <1>1, <1>2, <1>3 DEF FrameLen

\* A Read returns at least a byte, and no more than there is room for and than
\* the first frame still has.
LEMMA PieceSize ==
    ASSUME TypeOK, wire # <<>>, NEW space \in Nat, 0 < space, NEW k \in Pieces(space)
    PROVE  /\ k \in Nat /\ 0 < k /\ k <= space
           /\ wire[1].off \in Nat /\ wire[1].end \in Nat
           /\ wire[1].off + k <= wire[1].end
<1>1. /\ Head(wire) = wire[1] /\ wire[1].off \in Nat /\ wire[1].end \in Nat
      /\ wire[1].off < wire[1].end
  <2>1. wire \in Seq(Frame) /\ 1 \in 1..Len(wire)
    BY EmptySeq, LenProperties DEF TypeOK
  <2>2. wire[1] \in Frame /\ wire[1].off < wire[1].end
    BY <2>1, ElementOfSeq DEF TypeOK
  <2>3. QED
    BY <2>1, <2>2, HeadTailProperties DEF Frame
<1> DEFINE room == wire[1].end - wire[1].off
<1>2. room \in Nat /\ 0 < room /\ wire[1].off + room = wire[1].end
  BY <1>1
<1>3. Least(space, room) \in Nat /\ 0 < Least(space, room)
      /\ Least(space, room) <= space /\ Least(space, room) <= room
  BY <1>2 DEF Least
<1>4. k = Least(space, room) \/ (0 < k /\ k < Least(space, room) /\ k \in Int)
  BY <1>1, ChunkedIOAssumption DEF Pieces
<1>5. k \in Nat /\ 0 < k /\ k <= space /\ k <= room
  <2> DEFINE l == Least(space, room)
  <2> HIDE DEF l, room
  <2>1. l \in Nat /\ 0 < l /\ l <= space /\ l <= room /\ room \in Nat
    BY <1>2, <1>3 DEF l
  <2>2. k = l \/ (0 < k /\ k < l /\ k \in Int)
    BY <1>4 DEF l
  <2>3. QED
    BY <2>1, <2>2
<1> HIDE DEF room
<1>6. QED
  BY <1>1, <1>2, <1>5

\* Bytes are taken from the first frame, or it is gone.
LEMMA AdvanceIs ==
    ASSUME TypeOK, wire # <<>>, NEW k \in Nat, wire[1].off + k <= wire[1].end, Advance(k)
    PROVE  /\ wire' \in Seq(Frame)
           /\ \/ /\ wire[1].off + k = wire[1].end
                 /\ Len(wire') = Len(wire) - 1
                 /\ \A i \in 1..Len(wire') : wire'[i] = wire[i + 1]
              \/ /\ wire[1].off + k < wire[1].end
                 /\ Len(wire') = Len(wire)
                 /\ wire'[1].n = wire[1].n /\ wire'[1].end = wire[1].end
                 /\ wire'[1].off = wire[1].off + k
                 /\ \A i \in 2..Len(wire) : wire'[i] = wire[i]
<1>1. /\ wire \in Seq(Frame) /\ Len(wire) \in Nat /\ 1 \in 1..Len(wire)
      /\ Head(wire) = wire[1]
  BY EmptySeq, LenProperties, HeadTailProperties DEF TypeOK
<1>2. wire[1] \in Frame
  BY <1>1, ElementOfSeq
<1>3. wire[1].off \in Nat /\ wire[1].end \in Nat
  BY <1>2 DEF Frame
<1>4. CASE wire[1].off + k = wire[1].end
  <2>1. wire' = Tail(wire)
    BY <1>1, <1>4 DEF Advance
  <2>2. /\ Tail(wire) \in Seq(Frame) /\ Len(Tail(wire)) = Len(wire) - 1
        /\ \A i \in 1..Len(Tail(wire)) : Tail(wire)[i] = wire[i + 1]
    BY <1>1, HeadTailProperties
  <2>3. QED
    BY <1>4, <2>1, <2>2
<1>5. CASE wire[1].off + k # wire[1].end
  <2> DEFINE f == [wire[1] EXCEPT !.off = wire[1].off + k]
  <2>1. wire' = [wire EXCEPT ![1] = f]
    BY <1>1, <1>5 DEF Advance
  <2>2. /\ f \in Frame /\ f.n = wire[1].n /\ f.end = wire[1].end
        /\ f.off = wire[1].off + k
    BY <1>2, <1>3 DEF Frame
  <2> HIDE DEF f
  <2>3. /\ wire' \in Seq(Frame) /\ Len(wire') = Len(wire)
        /\ \A i \in 1..Len(wire) : wire'[i] = IF i = 1 THEN f ELSE wire[i]
    BY <1>1, <2>1, <2>2, ExceptSeq
  <2>4. wire'[1] = f /\ \A i \in 2..Len(wire) : wire'[i] = wire[i]
    BY <1>1, <2>3
  <2>5. wire[1].off + k < wire[1].end
    BY <1>3, <1>5
  <2>6. QED
    BY <2>2, <2>3, <2>4, <2>5
<1>6. QED
  BY <1>4, <1>5

\* What the type invariant says of the sequences.
LEMMA Sequence ==
    ASSUME TypeOK
    PROVE  /\ Len(wire) \in Nat /\ (wire = <<>> <=> Len(wire) = 0)
           /\ Len(sent) \in Nat /\ (sent = <<>> <=> Len(sent) = 0)
           /\ Len(received) \in Nat /\ (received = <<>> <=> Len(received) = 0)
           /\ \A i \in 1..Len(wire) : /\ wire[i].n \in Lens /\ wire[i].off \in Nat
                                      /\ wire[i].end \in Nat /\ wire[i].off < wire[i].end
           /\ \A i \in 1..Len(sent) : sent[i] \in Lens
<1>1. wire \in Seq(Frame) /\ sent \in Seq(Lens) /\ received \in Seq(Nat)
  BY DEF TypeOK
<1>2. \A i \in 1..Len(wire) : wire[i] \in Frame
  BY <1>1, ElementOfSeq
<1>3. \A i \in 1..Len(sent) : sent[i] \in Lens
  BY <1>1, ElementOfSeq
<1>4. /\ Len(wire) \in Nat /\ (wire = <<>> <=> Len(wire) = 0)
      /\ Len(sent) \in Nat /\ (sent = <<>> <=> Len(sent) = 0)
      /\ Len(received) \in Nat /\ (received = <<>> <=> Len(received) = 0)
  BY <1>1, LenProperties, EmptySeq
<1>5. QED
  BY <1>2, <1>3, <1>4 DEF TypeOK, Frame

\* The layout of the stream when bytes are taken from it.
LEMMA LayoutAdvances ==
    ASSUME TypeOK, NEW b \in Nat, Layout(b), wire # <<>>, UNCHANGED <<sent, whole, closed>>,
           NEW k \in Nat, 0 < k, wire[1].off + k <= wire[1].end, Advance(k)
    PROVE  /\ wire' \in Seq(Frame)
           /\ \A i \in 1..Len(wire') : wire'[i].off < wire'[i].end
           /\ \/ /\ wire[1].off + k = wire[1].end /\ Layout(b + 1)'
                 /\ wire' # <<>> => wire'[1].off = 0
              \/ /\ wire[1].off + k < wire[1].end /\ Layout(b)' /\ wire' # <<>>
                 /\ wire'[1].off = wire[1].off + k /\ wire'[1].n = wire[1].n
<1>1. /\ Len(wire) \in Nat /\ Len(wire) > 0 /\ Len(sent) \in Nat /\ whole \in Nat
      /\ \A i \in 1..Len(wire) : /\ wire[i].n \in Lens /\ wire[i].off \in Nat
                                 /\ wire[i].end \in Nat /\ wire[i].off < wire[i].end
  <2>1. whole \in Nat
    BY DEF TypeOK
  <2>2. /\ Len(wire) \in Nat /\ (wire = <<>> <=> Len(wire) = 0) /\ Len(sent) \in Nat
        /\ \A i \in 1..Len(wire) : /\ wire[i].n \in Lens /\ wire[i].off \in Nat
                                   /\ wire[i].end \in Nat /\ wire[i].off < wire[i].end
    BY Zenon, Sequence
  <2>3. Len(wire) > 0
    BY <2>2
  <2>4. QED
    BY <2>1, <2>2, <2>3
<1>2. wire' \in Seq(Frame) /\ (wire' = <<>> <=> Len(wire') = 0)
  BY AdvanceIs, EmptySeq
<1>3. \A i \in 1..Len(wire) : Placed(b, i)
  BY DEF Layout
<1>4. sent' = sent /\ whole' = whole /\ closed' = closed
  OBVIOUS
<1>5. CASE wire[1].off + k = wire[1].end
  <2>1. /\ Len(wire') = Len(wire) - 1
        /\ \A i \in 1..Len(wire') : wire'[i] = wire[i + 1]
    BY <1>1, <1>5, AdvanceIs
  <2>2. \A i \in 1..Len(wire') : /\ i + 1 \in 1..Len(wire) /\ i + 1 > 1
                                 /\ b + (i + 1) = (b + 1) + i
    BY <1>1, <2>1
  <2>3. ASSUME NEW i \in 1..Len(wire') PROVE Placed(b + 1, i)' /\ wire'[i].off = 0
    <3>1. Placed(b, i + 1) /\ wire'[i] = wire[i + 1] /\ b + (i + 1) = (b + 1) + i
      BY <1>3, <2>1, <2>2
    <3>2. wire[i + 1].off = 0
      BY <2>2, <3>1 DEF Placed
    <3>3. QED
      BY <1>4, <3>1, <3>2 DEF Placed
  <2>4. Layout(b + 1)'
    <3>1. /\ (b + 1) + Len(wire') = b + Len(wire)
          /\ (b + 1) + Len(wire') - 1 = b + Len(wire) - 1
      BY <1>1, <2>1
    <3>2. \A i \in 1..Len(wire') : Placed(b + 1, i)'
      BY <2>3
    <3>3. /\ b + Len(wire) <= Len(sent)
          /\ whole \in {b + Len(wire) - 1, b + Len(wire)}
          /\ ~closed => whole = Len(sent)
      BY DEF Layout
    <3>4. /\ (b + 1) + Len(wire') <= Len(sent')
          /\ whole' \in {(b + 1) + Len(wire') - 1, (b + 1) + Len(wire')}
          /\ ~closed' => whole' = Len(sent')
      BY ONLY <1>4, <3>1, <3>3
    <3>5. QED
      BY ONLY <3>2, <3>4 DEF Layout
  <2>5. wire' # <<>> => 1 \in 1..Len(wire')
    BY <1>1, <1>2, <2>1
  <2>6. ASSUME NEW i \in 1..Len(wire') PROVE wire'[i].off < wire'[i].end
    <3>1. PICK j \in 1..Len(wire) : wire'[i] = wire[j]
      BY <2>1, <2>2
    <3>2. wire[j].off < wire[j].end
      BY <1>1
    <3>3. QED
      BY ONLY <3>1, <3>2
  <2>7. QED
    BY <1>2, <1>5, <2>3, <2>4, <2>5, <2>6
<1>6. CASE wire[1].off + k < wire[1].end
  <2>1. /\ Len(wire') = Len(wire)
        /\ wire'[1].n = wire[1].n /\ wire'[1].end = wire[1].end
        /\ wire'[1].off = wire[1].off + k
        /\ \A i \in 2..Len(wire) : wire'[i] = wire[i]
    <3>1. wire[1].off + k # wire[1].end
      BY <1>1, <1>6
    <3>2. QED
      BY <3>1, AdvanceIs
  <2>2. ASSUME NEW i \in 1..Len(wire')
        PROVE  Placed(b, i)' /\ wire'[i].off < wire'[i].end
    <3>1. CASE i = 1
      BY <1>3, <1>4, <1>6, <2>1, <3>1 DEF Placed
    <3>2. CASE i \in 2..Len(wire)
      <4>1. wire'[i] = wire[i] /\ i \in 1..Len(wire)
        BY <1>1, <2>1, <3>2
      <4>2. Placed(b, i) /\ wire[i].off < wire[i].end
        BY <1>1, <1>3, <4>1
      <4>3. QED
        BY <1>4, <4>1, <4>2 DEF Placed
    <3>3. i = 1 \/ i \in 2..Len(wire)
      BY <1>1, <2>1
    <3>4. QED
      BY <3>1, <3>2, <3>3
  <2>3. Layout(b)'
    <3>1. /\ b + Len(wire) <= Len(sent)
          /\ whole \in {b + Len(wire) - 1, b + Len(wire)}
          /\ ~closed => whole = Len(sent)
      BY DEF Layout
    <3>2. /\ b + Len(wire') <= Len(sent')
          /\ whole' \in {b + Len(wire') - 1, b + Len(wire')}
          /\ ~closed' => whole' = Len(sent')
      BY ONLY <1>4, <2>1, <3>1
    <3>3. QED
      BY ONLY <2>2, <3>2 DEF Layout
  <2>4. wire' # <<>>
    BY ONLY <1>1, <1>2, <2>1
  <2>5. QED
    BY <1>2, <1>6, <2>1, <2>2, <2>3, <2>4
<1>7. wire[1].off \in Nat /\ wire[1].end \in Nat
  BY <1>1
<1>8. wire[1].off + k = wire[1].end \/ wire[1].off + k < wire[1].end
  BY <1>7
<1>9. QED
  BY <1>5, <1>6, <1>8

\* A message is written.
LEMMA WriteKeeps ==
    ASSUME IInv, NEW n \in Lens, Write(n)
    PROVE  IInv'
<1>1. PICK b \in Nat : Layout(b) /\ At(b) /\ Returned(b)
  BY DEF IInv
<1>2. TypeOK
  BY DEF IInv
<1>3. /\ Len(wire) \in Nat /\ Len(sent) \in Nat /\ Len(received) \in Nat /\ whole \in Nat
      /\ \A i \in 1..Len(wire) : /\ wire[i].n \in Lens /\ wire[i].off \in Nat
                                 /\ wire[i].end \in Nat /\ wire[i].off < wire[i].end
      /\ (wire = <<>> <=> Len(wire) = 0)
  <2>1. whole \in Nat
    BY <1>2 DEF TypeOK
  <2>2. QED
    BY <1>2, <2>1, Sequence
<1> DEFINE f == [n |-> n, off |-> 0, end |-> FrameLen(n)]
<1>4. /\ ~closed /\ closed' = closed /\ whole' = whole + 1 /\ received' = received
      /\ reader' = reader /\ next' = next /\ rbuff' = rbuff
      /\ nbl' = nbl /\ want' = want /\ got' = got
      /\ sent' = Append(sent, n) /\ wire' = Append(wire, f)
  BY DEF Write, readVars
<1>5. /\ f \in Frame /\ f.n = n /\ f.off = 0 /\ f.end = FrameLen(n) /\ 0 < FrameLen(n)
  BY FrameSize DEF Frame
<1> HIDE DEF f
<1>6. /\ sent' \in Seq(Lens) /\ Len(sent') = Len(sent) + 1 /\ sent'[Len(sent) + 1] = n
      /\ \A i \in 1..Len(sent) : sent'[i] = sent[i]
  BY <1>2, <1>4, AppendProperties DEF TypeOK
<1>7. /\ wire' \in Seq(Frame) /\ Len(wire') = Len(wire) + 1 /\ wire'[Len(wire) + 1] = f
      /\ \A i \in 1..Len(wire) : wire'[i] = wire[i]
      /\ wire' # <<>>
  BY <1>2, <1>4, <1>5, AppendProperties DEF TypeOK
<1>8. b + Len(wire) = Len(sent) /\ whole = Len(sent)
  BY <1>1, <1>3, <1>4 DEF Layout
<1>9. ASSUME NEW i \in 1..Len(wire')
      PROVE  Placed(b, i)' /\ wire'[i].off < wire'[i].end
  <2>1. CASE i \in 1..Len(wire)
    <3>1. Placed(b, i)
      BY <1>1, <2>1 DEF Layout
    <3>2. b + i \in 1..Len(sent) /\ b + i <= whole
      BY <1>3, <1>8, <2>1
    <3>3. wire'[i] = wire[i] /\ sent'[b + i] = sent[b + i] /\ b + i <= whole'
      BY <1>3, <1>4, <1>6, <1>7, <2>1, <3>2
    <3>4. wire[i].off < wire[i].end
      BY <1>3, <2>1
    <3>5. QED
      BY <1>4, <3>1, <3>2, <3>3, <3>4 DEF Placed
  <2>2. CASE i = Len(wire) + 1
    <3>1. b + i = Len(sent) + 1 /\ wire'[i] = f
      BY <1>3, <1>7, <1>8, <2>2
    <3>2. /\ wire'[i].n = n /\ wire'[i].off = 0 /\ wire'[i].end = FrameLen(n)
          /\ sent'[b + i] = n /\ whole' = b + i
      BY <1>4, <1>5, <1>6, <1>8, <3>1
    <3>3. FrameLen(n) \in Nat /\ 0 < FrameLen(n) /\ b + i \in Nat
      BY <1>3, <3>1, FrameSize
    <3>4. QED
      BY <3>2, <3>3 DEF Placed
  <2>3. QED
    BY <1>3, <1>7, <2>1, <2>2
<1>10. TypeOK'
  BY <1>2, <1>4, <1>6, <1>7, <1>9 DEF TypeOK
<1>11. Layout(b)'
  BY <1>3, <1>4, <1>6, <1>7, <1>8, <1>9 DEF Layout
<1>12. wire'[1].off = 0 \/ (wire # <<>> /\ wire'[1] = wire[1])
  BY <1>3, <1>5, <1>7
<1>13. AtStart(b) => AtStart(b)'
  BY <1>3, <1>4, <1>8, <1>12 DEF AtStart
<1>14. ASSUME NEW u, Amid(b, u) PROVE Amid(b, u)'
  <2>1. b = Len(received) + 1 => sent'[b] = sent[b]
    BY <1>3, <1>6, <1>8
  <2>2. QED
    BY <1>3, <1>4, <1>7, <1>8, <1>12, <1>14, <2>1 DEF Amid
<1>15. Measured => Measured'
  BY <1>4 DEF Measured
<1>16. At(b)'
  <2>1. At(b)' <=>
          /\ reader = "idle" => AtStart(b)'
          /\ reader = "peek" /\ rbuff = 0 => AtStart(b)'
          /\ reader = "peek" /\ rbuff # 0 => Amid(b, rbuff)'
          /\ reader = "full" => Amid(b, got + rbuff)' /\ Measured'
    BY <1>4 DEF At
  <2>2. Amid(b, rbuff) => Amid(b, rbuff)'
    BY <1>4, <1>14 DEF Amid
  <2>3. Amid(b, got + rbuff) => Amid(b, got + rbuff)'
    BY <1>4, <1>14 DEF Amid
  <2>4. QED
    BY <1>1, <1>13, <1>15, <2>1, <2>2, <2>3 DEF At
<1>17. Returned(b)'
  <2>1. ASSUME NEW m \in Nat, Good(b, m) PROVE Good(b, m)'
    BY <1>3, <1>4, <1>6, <2>1 DEF Good
  <2>2. CASE Good(b, Len(received))
    BY <1>3, <1>4, <2>1, <2>2 DEF Returned, Good
  <2>3. CASE ~Good(b, Len(received))
    <3>1. /\ reader = "failed" /\ received # <<>>
          /\ Good(b, Len(received) - 1)
          /\ Len(received) <= Len(sent) /\ ~Framable(sent[Len(received)])
          /\ received[Len(received)] # sent[Len(received)]
      BY <1>1, <2>3 DEF Returned
    <3>2. Len(received) - 1 \in Nat /\ Len(received) \in 1..Len(sent)
      BY <1>2, <1>3, <3>1, Sequence
    <3>3. sent'[Len(received)] = sent[Len(received)]
      BY <1>6, <3>2
    <3>4. QED
      BY <1>3, <1>4, <1>6, <2>1, <3>1, <3>2, <3>3 DEF Returned, Good
  <2>4. QED
    BY <2>2, <2>3
<1>18. QED
  BY <1>10, <1>11, <1>16, <1>17 DEF IInv

\* What is left of the stream when it is closed: the frames before some i, and
\* perhaps the beginning of the i-th.
LEMMA CloseIs ==
    ASSUME TypeOK, Close
    PROVE  \/ wire' = wire /\ whole' = whole
           \/ \E i \in 1..Len(wire) :
                 /\ whole' = whole - (Len(wire) - i + 1)
                 /\ wire' \in Seq(Frame)
                 /\ \A j \in 1..(i - 1) : wire'[j] = wire[j]
                 /\ \/ Len(wire') = i - 1
                    \/ /\ Len(wire') = i /\ wire'[i].n = wire[i].n
                       /\ wire'[i].off = wire[i].off
                       /\ wire'[i].off < wire'[i].end /\ wire'[i].end < wire[i].end
<1>1. wire \in Seq(Frame) /\ Len(wire) \in Nat /\ \A i \in 1..Len(wire) : wire[i] \in Frame
  BY ElementOfSeq, LenProperties DEF TypeOK
<1>2. CASE wire' = wire /\ whole' = whole
  BY <1>2
<1>3. CASE ~(wire' = wire /\ whole' = whole)
  <2>1. PICK i \in 1..Len(wire) :
           /\ whole' = whole - (Len(wire) - i + 1)
           /\ \/ wire' = SubSeq(wire, 1, i - 1)
              \/ \E c \in Cuts :
                    /\ wire[i].off < c /\ c < wire[i].end
                    /\ wire' = [SubSeq(wire, 1, i) EXCEPT ![i].end = c]
    BY <1>3 DEF Close
  <2>2. CASE wire' = SubSeq(wire, 1, i - 1)
    <3>1. /\ SubSeq(wire, 1, i - 1) \in Seq(Frame)
          /\ Len(SubSeq(wire, 1, i - 1)) = IF 1 <= i - 1 THEN (i - 1) - 1 + 1 ELSE 0
          /\ \A j \in 1..((i - 1) - 1 + 1) : SubSeq(wire, 1, i - 1)[j] = wire[1 + j - 1]
      <4>1. 1 \in Int /\ i - 1 \in Int /\ \A j \in 1..(i - 1) : wire[j] \in Frame
        BY <1>1
      <4>2. QED
        BY <4>1, SubSeqProperties
    <3>2. Len(wire') = i - 1 /\ \A j \in 1..(i - 1) : wire'[j] = wire[j]
      BY <2>2, <3>1
    <3>3. QED
      BY <2>1, <2>2, <3>1, <3>2
  <2>3. CASE wire' # SubSeq(wire, 1, i - 1)
    <3>1. PICK c \in Cuts : /\ wire[i].off < c /\ c < wire[i].end
                            /\ wire' = [SubSeq(wire, 1, i) EXCEPT ![i].end = c]
      BY <2>1, <2>3
    <3> DEFINE w == SubSeq(wire, 1, i)
               f == [wire[i] EXCEPT !.end = c]
    <3>2. /\ w \in Seq(Frame) /\ Len(w) = i
          /\ \A j \in 1..i : w[j] = wire[j]
      <4>1. 1 \in Int /\ i \in Int /\ \A j \in 1..i : wire[j] \in Frame
        BY <1>1
      <4>2. /\ w \in Seq(Frame)
            /\ Len(w) = IF 1 <= i THEN i - 1 + 1 ELSE 0
            /\ \A j \in 1..(i - 1 + 1) : w[j] = wire[1 + j - 1]
        BY <4>1, SubSeqProperties
      <4>3. QED
        BY <4>2
    <3>3. f \in Frame /\ f.n = wire[i].n /\ f.off = wire[i].off /\ f.end = c
      <4>1. wire[i] \in Frame /\ c \in Nat
        BY <1>1, ChunkedIOAssumption
      <4>2. QED
        BY <4>1 DEF Frame
    <3> HIDE DEF w
    <3>4. wire' = [w EXCEPT ![i] = f]
      <4>1. wire' = [w EXCEPT ![i].end = c] /\ w[i] = wire[i] /\ i \in 1..Len(w)
        BY <3>1, <3>2 DEF w
      <4>2. QED
        BY <3>2, <4>1
    <3> HIDE DEF f
    <3>5. i \in 1..Len(w)
      BY <3>2
    <3>6. /\ wire' \in Seq(Frame) /\ Len(wire') = i
          /\ \A j \in 1..i : wire'[j] = IF j = i THEN f ELSE w[j]
      BY <3>2, <3>3, <3>4, <3>5, ExceptSeq
    <3>7. wire'[i] = f /\ \A j \in 1..(i - 1) : wire'[j] = wire[j]
      BY <3>2, <3>6
    <3>8. QED
      BY <2>1, <3>1, <3>3, <3>6, <3>7
  <2>4. QED
    BY <2>2, <2>3
<1>4. QED
  BY <1>2, <1>3

\* The stream is closed.
LEMMA CloseKeeps ==
    ASSUME IInv, Close
    PROVE  IInv'
<1>1. PICK b \in Nat : Layout(b) /\ At(b) /\ Returned(b)
  BY DEF IInv
<1>2. TypeOK
  BY DEF IInv
<1>3. /\ Len(wire) \in Nat /\ Len(sent) \in Nat /\ Len(received) \in Nat /\ whole \in Nat
      /\ \A i \in 1..Len(wire) : /\ wire[i].n \in Lens /\ wire[i].off \in Nat
                                 /\ wire[i].end \in Nat /\ wire[i].off < wire[i].end
      /\ (wire = <<>> <=> Len(wire) = 0)
  <2>1. whole \in Nat
    BY <1>2 DEF TypeOK
  <2>2. QED
    BY <1>2, <2>1, Sequence
<1>4. /\ ~closed /\ closed' = TRUE /\ sent' = sent /\ received' = received
      /\ reader' = reader /\ next' = next /\ rbuff' = rbuff
      /\ nbl' = nbl /\ want' = want /\ got' = got
  BY DEF Close, readVars
<1>5. b + Len(wire) = Len(sent) /\ whole = Len(sent)
  BY <1>1, <1>3, <1>4 DEF Layout
<1>6. \A i \in 1..Len(wire) : Placed(b, i) /\ wire[i].end = FrameLen(wire[i].n)
  <2>1. \A i \in 1..Len(wire) : Placed(b, i) /\ b + i <= whole
    BY <1>1, <1>3, <1>5 DEF Layout
  <2>2. QED
    BY <2>1 DEF Placed
<1>7. ASSUME wire' \in Seq(Frame), \A i \in 1..Len(wire') : wire'[i].off < wire'[i].end,
             whole' \in Nat
      PROVE  TypeOK'
  BY <1>2, <1>4, <1>7, Zenon DEF TypeOK
<1>8. ASSUME NEW c \in Nat, b <= c, b <= whole', whole' \in Nat
      PROVE  Returned(c)'
  <2>1. ASSUME NEW m \in Nat, Good(b, m) PROVE Good(c, m)'
    BY <1>3, <1>4, <1>8, <2>1 DEF Good
  <2>2. CASE Good(b, Len(received))
    BY <1>3, <1>4, <2>1, <2>2 DEF Returned, Good
  <2>3. CASE ~Good(b, Len(received))
    <3>1. /\ reader = "failed" /\ received # <<>>
          /\ Good(b, Len(received) - 1)
          /\ Len(received) <= Len(sent) /\ ~Framable(sent[Len(received)])
          /\ received[Len(received)] # sent[Len(received)]
      BY <1>1, <2>3 DEF Returned
    <3>2. Len(received) - 1 \in Nat
      BY <1>2, <1>3, <3>1, Sequence
    <3>3. Good(c, Len(received) - 1)'
      <4>1. \A m \in Nat : Good(b, m) => Good(c, m)'
        BY <2>1
      <4>2. Good(b, Len(received) - 1)
        BY <3>1
      <4>3. PICK m \in Nat : m = Len(received) - 1
        BY <3>2
      <4>4. Good(c, m)'
        BY <4>1, <4>2, <4>3
      <4>5. QED
        BY <1>4, <4>3, <4>4 DEF Good
    <3>4. QED
      BY <1>4, <3>1, <3>3 DEF Returned
  <2>4. QED
    BY <2>2, <2>3
<1>9. Measured => Measured'
  BY <1>4 DEF Measured
<1>10. ASSUME NEW c \in Nat, AtStart(b) => AtStart(c)',
              \A u \in Nat : Amid(b, u) => Amid(c, u)'
       PROVE  At(c)'
  <2>1. At(c)' <=>
          /\ reader = "idle" => AtStart(c)'
          /\ reader = "peek" /\ rbuff = 0 => AtStart(c)'
          /\ reader = "peek" /\ rbuff # 0 => Amid(c, rbuff)'
          /\ reader = "full" => Amid(c, got + rbuff)' /\ Measured'
    BY <1>4 DEF At
  <2>2. Amid(b, rbuff) => Amid(c, rbuff)'
    BY <1>4, <1>10 DEF Amid
  <2>3. Amid(b, got + rbuff) => Amid(c, got + rbuff)'
    BY <1>4, <1>10 DEF Amid
  <2>4. QED
    BY <1>1, <1>9, <1>10, <2>1, <2>2, <2>3 DEF At
<1>11. CASE wire' = wire /\ whole' = whole
  <2>1. TypeOK'
    BY <1>2, <1>4, <1>11 DEF TypeOK
  <2>2. \A i \in 1..Len(wire') : Placed(b, i)'
    BY <1>4, <1>6, <1>11 DEF Placed
  <2>3. Layout(b)'
    BY <1>1, <1>4, <1>11, <2>2 DEF Layout
  <2>4. AtStart(b) => AtStart(b)'
    BY <1>4, <1>11 DEF AtStart
  <2>5. \A u \in Nat : Amid(b, u) => Amid(b, u)'
    BY <1>4, <1>11 DEF Amid
  <2>6. Returned(b)'
    BY <1>3, <1>5, <1>8, <1>11
  <2>7. QED
    BY <1>10, <2>1, <2>3, <2>4, <2>5, <2>6 DEF IInv
<1>12. CASE ~(wire' = wire /\ whole' = whole)
  <2>1. PICK i \in 1..Len(wire) :
           /\ whole' = whole - (Len(wire) - i + 1)
           /\ wire' \in Seq(Frame)
           /\ \A j \in 1..(i - 1) : wire'[j] = wire[j]
           /\ \/ Len(wire') = i - 1
              \/ /\ Len(wire') = i /\ wire'[i].n = wire[i].n
                 /\ wire'[i].off = wire[i].off
                 /\ wire'[i].off < wire'[i].end /\ wire'[i].end < wire[i].end
    BY <1>2, <1>12, CloseIs
  <2>2. whole' = b + i - 1 /\ whole' \in Nat /\ b <= whole' /\ i \in Nat /\ 1 <= i
    <3>1. /\ Len(wire) \in Nat /\ whole \in Nat /\ b + Len(wire) = whole
          /\ whole' = whole - (Len(wire) - i + 1)
      BY <1>3, <1>5, <2>1
    <3>2. QED
      BY <3>1
  <2>3. ASSUME NEW j \in 1..Len(wire')
        PROVE  /\ Placed(b, j)' /\ wire'[j].off < wire'[j].end
               /\ wire'[j].off = wire[j].off /\ wire'[j].n = wire[j].n
    <3>1. /\ j \in 1..Len(wire) /\ Placed(b, j) /\ wire[j].end = FrameLen(wire[j].n)
          /\ wire[j].off \in Nat /\ wire[j].end \in Nat /\ wire[j].off < wire[j].end
      <4>1. j \in 1..Len(wire)
        BY <1>3, <2>1, <2>2
      <4>2. QED
        BY <1>3, <1>6, <4>1
    <3>2. CASE j <= i - 1
      <4>1. wire'[j] = wire[j] /\ b + j <= whole'
        BY <2>1, <2>2, <3>2
      <4>2. QED
        BY <1>4, <3>1, <4>1 DEF Placed
    <3>3. CASE ~(j <= i - 1)
      <4>1. /\ j = i /\ wire'[j].n = wire[j].n /\ wire'[j].off = wire[j].off
            /\ wire'[j].off < wire'[j].end /\ wire'[j].end < wire[j].end
        BY <2>1, <2>2, <3>3
      <4>2. ~(b + j <= whole')
        BY <2>2, <4>1
      <4>3. wire'[j].end \in Nat
        <5>1. wire'[j] \in Frame
          BY <2>1, ElementOfSeq
        <5>2. QED
          BY <5>1 DEF Frame
      <4>4. wire'[j].end # FrameLen(wire[j].n) /\ wire'[j].end <= FrameLen(wire[j].n)
        BY <3>1, <4>1, <4>3
      <4>5. QED
        BY <1>4, <3>1, <4>1, <4>2, <4>4 DEF Placed
    <3>4. QED
      BY <3>2, <3>3
  <2>4. Len(wire') \in Nat /\ (wire' = <<>> <=> Len(wire') = 0)
    BY <2>1, LenProperties, EmptySeq
  <2>5. TypeOK'
    BY <1>7, <2>1, <2>2, <2>3
  <2>6. wire' # <<>> => 1 \in 1..Len(wire') /\ wire # <<>>
    BY <1>3, <2>1, <2>4
  <2>7. wire' # <<>> => wire'[1].off = wire[1].off /\ wire'[1].n = wire[1].n /\ wire # <<>>
    BY <2>3, <2>6
  <2>8. Layout(b)'
    <3>1. /\ b + Len(wire') <= Len(sent)
          /\ whole' \in {b + Len(wire') - 1, b + Len(wire')}
      <4>1. /\ Len(wire) \in Nat /\ b + Len(wire) = Len(sent)
            /\ Len(wire') = i - 1 \/ Len(wire') = i
        BY <1>3, <1>5, <2>1
      <4>2. whole' = b + i - 1 /\ Len(wire') \in Nat
        BY <2>2, <2>4
      <4>3. QED
        BY <4>1, <4>2
    <3>2. QED
      BY <1>4, <2>3, <3>1 DEF Layout
  <2>9. CASE wire' = <<>> /\ b = Len(received) /\ wire[1].off # 0
    <3>1. /\ Placed(b, 1) /\ wire[1].end = FrameLen(wire[1].n) /\ wire[1].off < wire[1].end
          /\ i = 1 /\ Len(wire') = 0
      <4>1. 1 \in 1..Len(wire)
        BY <1>3, <2>2
      <4>2. QED
        BY <1>3, <1>6, <2>1, <2>2, <2>4, <2>9, <4>1
    <3>2. whole' = b /\ b + 1 \in Nat /\ b + 1 <= Len(sent)
      BY <1>3, <1>5, <2>2, <3>1
    <3>3. Layout(b + 1)'
      <4>1. \A j \in 1..Len(wire') : Placed(b + 1, j)'
        BY <3>1
      <4>2. /\ (b + 1) + Len(wire') = b + 1 /\ (b + 1) + Len(wire') - 1 = b
        BY <3>1
      <4>3. QED
        BY <1>4, <3>2, <4>1, <4>2 DEF Layout
    <3>4. AtStart(b) => AtStart(b + 1)'
      BY <1>3, <2>2, <2>9 DEF AtStart
    <3>5. ASSUME NEW u \in Nat, Amid(b, u) PROVE Amid(b + 1, u)'
      <4>1. /\ next \in Lens /\ 0 < u /\ wire[1].off = u /\ wire[1].n = next
        BY <1>3, <2>9, <3>5 DEF Amid
      <4>2. next = sent[b + 1] /\ u < FrameLen(next)
        BY <3>1, <4>1 DEF Placed
      <4>3. QED
        BY <1>4, <2>9, <3>2, <4>1, <4>2 DEF Amid
    <3>6. At(b + 1)'
      BY <1>10, <3>2, <3>4, <3>5
    <3>7. Returned(b + 1)'
      BY <1>8, <2>2, <3>2
    <3>8. QED
      BY <2>5, <3>2, <3>3, <3>6, <3>7 DEF IInv
  <2>10. CASE wire' # <<>> \/ b # Len(received) \/ wire[1].off = 0
    <3>1. AtStart(b) => AtStart(b)'
      BY <1>4, <2>2, <2>7 DEF AtStart
    <3>2. ASSUME NEW u \in Nat, Amid(b, u) PROVE Amid(b, u)'
      <4>1. next \in Lens /\ 0 < u
        BY <3>2 DEF Amid
      <4>2. CASE b = Len(received) /\ wire # <<>> /\ wire[1].off = u /\ wire[1].n = next
        <5>1. wire' # <<>> /\ wire'[1].off = u /\ wire'[1].n = next
          BY <2>7, <2>10, <4>1, <4>2
        <5>2. QED
          BY <1>4, <4>1, <4>2, <5>1 DEF Amid
      <4>3. CASE /\ b = Len(received) + 1 /\ next = sent[b]
                 /\ wire # <<>> => wire[1].off = 0
                 /\ \/ b <= whole /\ u = FrameLen(next)
                    \/ b = whole + 1 /\ closed /\ u < FrameLen(next)
        BY <1>4, <2>2, <2>7, <4>1, <4>3 DEF Amid
      <4>4. QED
        BY <3>2, <4>2, <4>3 DEF Amid
    <3>3. At(b)'
      BY <1>10, <3>1, <3>2
    <3>4. Returned(b)'
      BY <1>8, <2>2
    <3>5. QED
      BY <2>5, <2>8, <3>3, <3>4 DEF IInv
  <2>11. QED
    BY <2>9, <2>10
<1>13. QED
  BY <1>11, <1>12
\* Until read fails, what it returned was good; and it stays so as long as
\* nothing else is returned.
LEMMA GoodStays ==
    ASSUME TypeOK, NEW b \in Nat, NEW c \in Nat, b <= c, Returned(b), reader # "failed",
           UNCHANGED <<sent, whole, received>>
    PROVE  Returned(c)'
<1>1. Good(b, Len(received)) /\ Len(received) \in Nat
  BY Sequence DEF Returned
<1>2. Good(c, Len(received))'
  BY <1>1 DEF Good
<1>3. QED
  BY <1>2 DEF Returned

\* The stream as it was.
LEMMA LayoutStays ==
    ASSUME NEW b \in Nat, Layout(b), UNCHANGED streamVars
    PROVE  Layout(b)'
<1>1. sent' = sent /\ wire' = wire /\ whole' = whole /\ closed' = closed
  BY DEF streamVars
<1>2. \A i \in 1..Len(wire) : Placed(b, i)'
  BY <1>1 DEF Layout, Placed
<1>3. QED
  BY <1>1, <1>2 DEF Layout

\* read begins.
LEMMA ReadKeeps ==
    ASSUME IInv, Read
    PROVE  IInv'
<1>1. PICK b \in Nat : Layout(b) /\ At(b) /\ Returned(b)
  BY DEF IInv
<1>2. /\ TypeOK /\ reader = "idle" /\ reader' = "peek" /\ rbuff' = 0
      /\ UNCHANGED <<sent, wire, whole, closed, received, next, nbl, want, got>>
      /\ UNCHANGED streamVars
  BY DEF IInv, Read, streamVars
<1>3. TypeOK'
  BY <1>2 DEF TypeOK, BuffSize
<1>4. Layout(b)' /\ Returned(b)'
  <2>1. Layout(b)'
    BY <1>1, <1>2, LayoutStays
  <2>2. b <= b /\ reader # "failed"
    BY <1>2
  <2>3. QED
    BY <1>1, <1>2, <2>1, <2>2, GoodStays
<1>5. AtStart(b)'
  BY <1>1, <1>2 DEF At, AtStart
<1>6. At(b)'
  BY <1>2, <1>5 DEF At
<1>7. QED
  BY <1>3, <1>4, <1>6 DEF IInv

\* read fails.
LEMMA FailKeeps ==
    ASSUME IInv, PeekFails \/ ReadFullFails
    PROVE  IInv'
<1>1. PICK b \in Nat : Layout(b) /\ At(b) /\ Returned(b)
  BY DEF IInv
<1>2. /\ TypeOK /\ reader # "failed" /\ reader' = "failed"
      /\ UNCHANGED <<sent, wire, whole, closed, received, next, rbuff, nbl, want, got>>
      /\ UNCHANGED streamVars
  BY DEF IInv, PeekFails, ReadFullFails, streamVars
<1>3. TypeOK'
  BY <1>2 DEF TypeOK
<1>4. Layout(b)' /\ Returned(b)'
  <2>1. Layout(b)'
    BY <1>1, <1>2, LayoutStays
  <2>2. b <= b
    OBVIOUS
  <2>3. QED
    BY <1>1, <1>2, <2>1, <2>2, GoodStays
<1>5. At(b)'
  BY <1>2 DEF At
<1>6. QED
  BY <1>3, <1>4, <1>5 DEF IInv

\* k bytes are taken from the frame that the reader is at.
LEMMA Takes ==
    ASSUME TypeOK, NEW b \in Nat, Layout(b), wire # <<>>, b = Len(received),
           UNCHANGED <<sent, whole, closed, received>>, next' = wire[1].n,
           NEW k \in Nat, 0 < k, wire[1].off + k <= wire[1].end, Advance(k),
           NEW u \in Nat, u = wire[1].off + k
    PROVE  \E c \in Nat : b <= c /\ Layout(c)' /\ Amid(c, u)'
<1>1. /\ Len(wire) \in Nat /\ 0 < Len(wire) /\ Len(sent) \in Nat /\ whole \in Nat
      /\ wire[1].n \in Lens /\ wire[1].off \in Nat /\ wire[1].end \in Nat
  <2>1. whole \in Nat
    BY DEF TypeOK
  <2>2. Len(wire) \in Nat /\ 0 < Len(wire) /\ Len(sent) \in Nat /\ 1 \in 1..Len(wire)
    BY Sequence
  <2>3. QED
    BY <2>1, <2>2, Sequence
<1>2. Placed(b, 1)
  BY <1>1 DEF Layout
<1>3. /\ b + Len(wire) <= Len(sent) /\ whole \in {b + Len(wire) - 1, b + Len(wire)}
      /\ ~closed => whole = Len(sent)
  BY DEF Layout
<1>4. 0 < u
  BY <1>1
<1>5. CASE /\ wire[1].off + k = wire[1].end /\ Layout(b + 1)'
           /\ wire' # <<>> => wire'[1].off = 0
  <2>1. next' = sent'[b + 1] /\ next' \in Lens
    BY <1>1, <1>2 DEF Placed
  <2>2. CASE b + 1 <= whole
    <3>1. u = FrameLen(next')
      BY <1>2, <1>5, <2>2 DEF Placed
    <3>2. Amid(b + 1, u)'
      BY <1>4, <1>5, <2>1, <2>2, <3>1 DEF Amid
    <3>3. QED
      BY <1>5, <3>2
  <2>3. CASE ~(b + 1 <= whole)
    <3>1. b + 1 = whole + 1 /\ closed
      BY <1>1, <1>3, <2>3
    <3>2. FrameLen(next') \in Nat
      BY <2>1, FrameSize
    <3>3. u < FrameLen(next')
      BY <1>1, <1>2, <1>5, <2>3, <3>2 DEF Placed
    <3>4. Amid(b + 1, u)'
      BY <1>4, <1>5, <2>1, <3>1, <3>3 DEF Amid
    <3>5. QED
      BY <1>5, <3>4
  <2>4. QED
    BY <2>2, <2>3
<1>6. CASE /\ wire[1].off + k < wire[1].end /\ Layout(b)' /\ wire' # <<>>
           /\ wire'[1].off = wire[1].off + k /\ wire'[1].n = wire[1].n
  <2>1. Amid(b, u)'
    BY <1>1, <1>4, <1>6 DEF Amid
  <2>2. QED
    BY <1>6, <2>1
<1>7. QED
  BY <1>5, <1>6, LayoutAdvances

\* Peek takes bytes from the stream.
LEMMA PeekKeeps ==
    ASSUME IInv, Peek
    PROVE  IInv'
<1>1. PICK b \in Nat : Layout(b) /\ At(b) /\ Returned(b)
  BY DEF IInv
<1>2. /\ TypeOK /\ reader = "peek" /\ rbuff < PeekSize /\ wire # <<>>
      /\ UNCHANGED <<sent, whole, closed, received, reader, nbl, want, got>>
      /\ next' = Head(wire).n
  BY DEF IInv, Peek
<1>3. rbuff \in 0..BuffSize /\ rbuff < 8 /\ whole \in Nat
  BY <1>2 DEF TypeOK, PeekSize
<1>4. PICK k \in Pieces(BuffSize - rbuff) : Advance(k) /\ rbuff' = rbuff + k
  BY DEF Peek
<1>5. BuffSize - rbuff \in Nat /\ 0 < BuffSize - rbuff
  BY <1>3 DEF BuffSize
<1>6. /\ k \in Nat /\ 0 < k /\ k <= BuffSize - rbuff
      /\ wire[1].off + k <= wire[1].end
  BY <1>2, <1>5, PieceSize
<1>7. /\ Len(wire) \in Nat /\ 0 < Len(wire) /\ 1 \in 1..Len(wire)
      /\ Head(wire) = wire[1] /\ wire[1].n \in Lens
  <2>1. Len(wire) \in Nat /\ 0 < Len(wire) /\ 1 \in 1..Len(wire)
    BY <1>2, Sequence
  <2>2. wire \in Seq(Frame)
    BY <1>2 DEF TypeOK
  <2>3. QED
    BY <1>2, <2>1, <2>2, Sequence, HeadTailProperties
<1>8. b = Len(received) /\ wire[1].off = rbuff
  <2>1. CASE rbuff = 0
    BY <1>1, <1>2, <2>1 DEF At, AtStart
  <2>2. CASE rbuff # 0
    <3>1. Amid(b, rbuff)
      BY <1>1, <1>2, <2>2 DEF At
    <3>2. b <= whole
      BY <1>1, <1>3, <1>7 DEF Layout
    <3>3. next \in Lens
      BY <3>1 DEF Amid
    <3>4. rbuff # FrameLen(next)
      BY <1>3, <3>3, FrameSize
    <3>5. b # whole + 1
      BY <1>3, <3>2
    <3>6. QED
      BY <3>1, <3>4, <3>5 DEF Amid
  <2>3. QED
    BY <2>1, <2>2
<1>9. PICK u \in Nat : u = wire[1].off + k /\ rbuff' = u
  BY <1>3, <1>4, <1>6, <1>8
<1>10. rbuff' # 0 /\ rbuff' \in 0..BuffSize
  <2>1. k \in Nat /\ 0 < k /\ k <= BuffSize - rbuff /\ rbuff' = rbuff + k
    BY <1>4, <1>6
  <2>2. QED
    BY <1>3, <2>1 DEF BuffSize
<1>11. PICK c \in Nat : b <= c /\ Layout(c)' /\ Amid(c, u)'
  <2>1. next' = wire[1].n
    BY <1>2, <1>7
  <2>2. QED
    BY <1>1, <1>2, <1>4, <1>6, <1>8, <1>9, <2>1, Takes
<1>12. At(c)'
  BY <1>2, <1>9, <1>10, <1>11 DEF At, Amid
<1>13. Returned(c)'
  <2>1. reader # "failed"
    BY <1>2
  <2>2. QED
    BY <1>1, <1>2, <1>11, <2>1, GoodStays
<1>14. TypeOK'
  <2>1. wire' \in Seq(Frame) /\ \A i \in 1..Len(wire') : wire'[i].off < wire'[i].end
    BY <1>1, <1>2, <1>4, <1>6, LayoutAdvances
  <2>2. next' \in Lens \cup {0}
    BY <1>2, <1>7
  <2>3. QED
    BY <1>2, <1>10, <2>1, <2>2 DEF TypeOK
<1>15. QED
  BY <1>11, <1>12, <1>13, <1>14 DEF IInv
\* read takes the length from the prefix.
LEMMA ReadLengthKeeps ==
    ASSUME IInv, ReadLength
    PROVE  IInv'
<1>1. PICK b \in Nat : Layout(b) /\ At(b) /\ Returned(b)
  BY DEF IInv
<1> DEFINE h == Delivered(next, rbuff)
<1>2. /\ TypeOK /\ reader = "peek" /\ reader' = "full"
      /\ UNCHANGED <<sent, wire, whole, closed, received, next>>
      /\ UNCHANGED streamVars
      /\ nbl' = NblRead(h) /\ want' = nbl' + 1 + LenRead(h, nbl')
      /\ got' = Least(rbuff, want') /\ rbuff' = rbuff - got'
      /\ rbuff >= PeekSize \/ (rbuff >= 2 /\ AtEnd)
  BY DEF IInv, ReadLength, streamVars, Delivered
<1>3. rbuff \in 0..BuffSize /\ rbuff \in Nat /\ rbuff >= 2
  BY <1>2 DEF TypeOK, PeekSize, BuffSize
<1>4. Amid(b, rbuff) /\ next \in Lens
  BY <1>1, <1>2, <1>3 DEF At, Amid
<1>5. /\ next \in MinLen..MaxLen /\ next \in Nat /\ Nbl(next) \in 1..3
      /\ FrameLen(next) = Nbl(next) + 1 + next
  BY <1>4, FrameSize
<1>6. /\ NblRead(h) \in 1..3 /\ NblRead(h) <= Nbl(next) /\ LenRead(h, NblRead(h)) \in Nat
      /\ \/ Framable(next) /\ NblRead(h) = Nbl(next) /\ LenRead(h, NblRead(h)) = next
         \/ ~Framable(next) /\ LenRead(h, NblRead(h)) < next
         \/ Framable(next) /\ rbuff = 2 /\ NblRead(h) = 2
  BY <1>3, <1>5, LengthRead
<1> HIDE DEF h
<1>7. PICK l \in Nat : l = LenRead(h, NblRead(h))
  BY <1>6
<1>8. /\ nbl' \in 1..3 /\ nbl' <= Nbl(next) /\ want' = nbl' + 1 + l
      /\ \/ Framable(next) /\ nbl' = Nbl(next) /\ l = next
         \/ ~Framable(next) /\ l < next
         \/ Framable(next) /\ rbuff = 2 /\ nbl' = 2
  BY <1>2, <1>6, <1>7
<1>9. /\ want' \in Nat /\ nbl' + 1 <= want' /\ want' - nbl' - 1 = l
      /\ got' \in 0..want' /\ got' \in Nat /\ rbuff' \in 0..BuffSize
      /\ got' + rbuff' = rbuff /\ (got' < want' => rbuff' = 0)
  <2>1. want' \in Nat /\ nbl' + 1 <= want' /\ want' - nbl' - 1 = l
    <3>1. PICK m \in 1..3 : m = nbl' /\ want' = m + 1 + l
      BY <1>8
    <3>2. m + 1 + l \in Nat /\ m + 1 <= m + 1 + l /\ (m + 1 + l) - m - 1 = l
      OBVIOUS
    <3>3. QED
      BY <3>1, <3>2
  <2>2. got' = Least(rbuff, want') /\ rbuff' = rbuff - got'
    BY <1>2
  <2>3. PICK g, w \in Nat : g = Least(rbuff, w) /\ w = want' /\ got' = g
    BY <1>3, <2>1, <2>2 DEF Least
  <2>4. /\ g \in 0..w /\ g \in Nat /\ rbuff - g \in 0..BuffSize
        /\ g + (rbuff - g) = rbuff /\ (g < w => rbuff - g = 0)
    <3>1. g = rbuff \/ g = w
      BY <2>3 DEF Least
    <3>2. g <= rbuff /\ g <= w /\ (g < w => g = rbuff)
      BY <1>3, <2>3 DEF Least
    <3>3. QED
      BY <1>3, <3>2 DEF BuffSize
  <2>5. QED
    BY <2>1, <2>2, <2>3, <2>4
<1>10. Amid(b, got + rbuff)'
  <2>1. PICK u \in Nat : u = rbuff /\ (got + rbuff)' = u
    BY <1>3, <1>9
  <2>2. Amid(b, u)'
    BY <1>2, <1>4, <2>1 DEF Amid
  <2>3. QED
    BY <2>1, <2>2 DEF Amid
<1>11. Measured'
  <2>1. CASE Framable(next) /\ nbl' = Nbl(next) /\ l = next
    <3>1. want' = FrameLen(next)
      BY <1>5, <1>8, <2>1
    <3>2. QED
      BY <1>2, <1>8, <1>9, <2>1, <3>1 DEF Measured
  <2>2. CASE ~Framable(next) /\ l < next
    BY <1>2, <1>8, <1>9, <2>2 DEF Measured
  <2>3. CASE Framable(next) /\ rbuff = 2 /\ nbl' = 2
    <3>1. got' < want' /\ got' = 2
      <4>1. want' >= 3 /\ want' \in Nat
        BY <1>9, <2>3
      <4>2. got' = Least(2, want')
        BY <1>2, <2>3
      <4>3. QED
        BY <1>9, <4>1, <4>2 DEF Least
    <3>2. closed /\ wire = <<>>
      BY <1>2, <2>3 DEF AtEnd, PeekSize
    <3>3. QED
      BY <1>2, <1>8, <1>9, <2>3, <3>1, <3>2 DEF Measured
  <2>4. QED
    BY <1>8, <2>1, <2>2, <2>3
<1>12. At(b)'
  BY <1>2, <1>10, <1>11 DEF At
<1>13. Layout(b)' /\ Returned(b)'
  <2>1. Layout(b)'
    BY <1>1, <1>2, LayoutStays
  <2>2. b <= b /\ reader # "failed"
    BY <1>2
  <2>3. QED
    BY <1>1, <1>2, <2>1, <2>2, GoodStays
<1>14. TypeOK'
  <2>1. nbl' \in 0..3 /\ want' \in Nat /\ got' \in 0..want' /\ rbuff' \in 0..BuffSize
    <3>1. nbl' \in 1..3
      BY <1>8
    <3>2. nbl' \in 0..3
      BY <3>1
    <3>3. QED
      BY <1>9, <3>2
  <2>2. QED
    BY <1>2, <2>1 DEF TypeOK
<1>15. QED
  BY <1>12, <1>13, <1>14 DEF IInv

\* Where a frame has not been read in full, ReadFull is at it.
LEMMA FullIs ==
    ASSUME TypeOK, NEW b \in Nat, Layout(b), Amid(b, got + rbuff), Measured,
           got < want, wire # <<>>
    PROVE  /\ b = Len(received) /\ wire[1].off = got /\ wire[1].n = next /\ rbuff = 0
           /\ \/ Framable(next) /\ nbl = Nbl(next) /\ want = FrameLen(next)
              \/ ~Framable(next) /\ nbl <= Nbl(next) /\ want - nbl - 1 < next
<1>1. /\ next \in Lens /\ next \in Nat /\ Nbl(next) \in 1..3
      /\ FrameLen(next) = Nbl(next) + 1 + next
  BY FrameSize DEF Amid
<1>2. want \in Nat /\ got \in Nat /\ nbl \in 1..3 /\ whole \in Nat
  BY DEF TypeOK, Measured
<1>3. rbuff = 0
  BY DEF Measured
<1>4. \/ Framable(next) /\ nbl = Nbl(next) /\ want = FrameLen(next)
      \/ ~Framable(next) /\ nbl <= Nbl(next) /\ want - nbl - 1 < next
  BY DEF Measured
<1>5. got + rbuff = got /\ got # FrameLen(next)
  <2>1. want <= FrameLen(next)
    BY <1>1, <1>2, <1>4
  <2>2. QED
    BY <1>1, <1>2, <1>3, <2>1
<1>6. b # whole + 1
  <2>1. Len(wire) \in Nat /\ 0 < Len(wire)
    BY Sequence
  <2>2. whole \in {b + Len(wire) - 1, b + Len(wire)}
    BY DEF Layout
  <2>3. QED
    BY <1>2, <2>1, <2>2
<1>7. b = Len(received) /\ wire[1].off = got /\ wire[1].n = next
  BY <1>5, <1>6 DEF Amid
<1>8. QED
  BY <1>3, <1>4, <1>7

\* ReadFull takes bytes from the stream.
LEMMA ReadFullKeeps ==
    ASSUME IInv, ReadFull
    PROVE  IInv'
<1>1. PICK b \in Nat : Layout(b) /\ At(b) /\ Returned(b)
  BY DEF IInv
<1>2. /\ TypeOK /\ reader = "full" /\ got < want /\ wire # <<>>
      /\ UNCHANGED <<sent, whole, closed, received, reader, next, nbl, want>>
  BY DEF IInv, ReadFull
<1>3. Amid(b, got + rbuff) /\ Measured
  BY <1>1, <1>2 DEF At
<1>4. /\ b = Len(received) /\ wire[1].off = got /\ wire[1].n = next
      /\ \/ Framable(next) /\ nbl = Nbl(next) /\ want = FrameLen(next)
         \/ ~Framable(next) /\ nbl <= Nbl(next) /\ want - nbl - 1 < next
  BY <1>1, <1>2, <1>3, FullIs
<1> DEFINE space == IF want - got >= BuffSize THEN want - got ELSE BuffSize
<1>5. PICK k \in Pieces(space) :
         /\ Advance(k)
         /\ got' = got + Least(k, want - got)
         /\ rbuff' = k - Least(k, want - got)
  BY DEF ReadFull
<1>6. want \in Nat /\ got \in Nat
  BY <1>2 DEF TypeOK
<1>7. space \in Nat /\ 0 < space /\ (space <= want - got \/ space = BuffSize)
  BY <1>6 DEF BuffSize
<1> HIDE DEF space
<1>8. k \in Nat /\ 0 < k /\ k <= space /\ wire[1].off + k <= wire[1].end
  BY <1>2, <1>5, <1>7, PieceSize
<1>9. /\ got' \in 0..want /\ rbuff' \in 0..BuffSize /\ got' + rbuff' = got + k
      /\ (got' < want => rbuff' = 0)
  <2>1. want - got \in Nat /\ 0 < want - got
    BY <1>2, <1>6
  <2>2. CASE k <= want - got
    <3>1. got' = got + k /\ rbuff' = 0
      BY <1>5, <1>8, <2>2 DEF Least
    <3>2. QED
      BY <1>6, <1>8, <2>2, <3>1 DEF BuffSize
  <2>3. CASE ~(k <= want - got)
    <3>1. got' = want /\ rbuff' = k - (want - got) /\ k <= BuffSize
      BY <1>5, <1>6, <1>7, <1>8, <2>3 DEF Least, BuffSize
    <3>2. QED
      BY <1>6, <1>8, <2>1, <2>3, <3>1 DEF BuffSize
  <2>4. QED
    BY <2>2, <2>3
<1>10. PICK u \in Nat : u = wire[1].off + k /\ got' + rbuff' = u
  BY <1>4, <1>6, <1>8, <1>9
<1>11. PICK c \in Nat : b <= c /\ Layout(c)' /\ Amid(c, u)'
  <2>1. next' = wire[1].n
    BY <1>2, <1>4
  <2>2. QED
    BY <1>1, <1>2, <1>4, <1>5, <1>8, <1>10, <2>1, Takes
<1>12. Measured'
  <2>1. nbl \in 1..3 /\ nbl + 1 <= want
    BY <1>3 DEF Measured
  <2>2. QED
    BY <1>2, <1>4, <1>9, <2>1 DEF Measured
<1>13. At(c)'
  <2>1. Amid(c, got + rbuff)'
    BY <1>10, <1>11 DEF Amid
  <2>2. QED
    BY <1>2, <1>12, <2>1 DEF At
<1>14. Returned(c)'
  <2>1. reader # "failed"
    BY <1>2
  <2>2. QED
    BY <1>1, <1>2, <1>11, <2>1, GoodStays
<1>15. TypeOK'
  <2>1. wire' \in Seq(Frame) /\ \A i \in 1..Len(wire') : wire'[i].off < wire'[i].end
    BY <1>1, <1>2, <1>5, <1>8, LayoutAdvances
  <2>2. got' \in 0..want' /\ rbuff' \in 0..BuffSize
    BY <1>2, <1>9
  <2>3. QED
    BY <1>2, <2>1, <2>2 DEF TypeOK
<1>16. QED
  BY <1>11, <1>13, <1>14, <1>15 DEF IInv
\* When read has the message it asked for, it is the one that was written, with
\* all of its frame taken and nothing behind it; or the prefix had a newline.
LEMMA ReturnIs ==
    ASSUME TypeOK, NEW b \in Nat, Layout(b), Amid(b, got + rbuff), Measured, got = want
    PROVE  /\ want - nbl - 1 \in Nat
           /\ Len(received) + 1 <= Len(sent) /\ sent[Len(received) + 1] = next
           /\ \/ /\ Framable(next) /\ want - nbl - 1 = next /\ rbuff = 0
                 /\ b = Len(received) + 1 /\ b <= whole
                 /\ wire # <<>> => wire[1].off = 0
              \/ ~Framable(next) /\ want - nbl - 1 < next
<1>1. /\ next \in Lens /\ next \in Nat /\ Nbl(next) \in 1..3
      /\ FrameLen(next) = Nbl(next) + 1 + next
  BY FrameSize DEF Amid
<1>2. /\ want \in Nat /\ got \in Nat /\ nbl \in 1..3 /\ nbl + 1 <= want
      /\ rbuff \in 0..BuffSize /\ rbuff \in Nat
  BY DEF TypeOK, Measured, BuffSize
<1>3. /\ Len(wire) \in Nat /\ Len(received) \in Nat /\ Len(sent) \in Nat
      /\ (wire # <<>> => 1 \in 1..Len(wire))
  BY Sequence
<1>4. b + Len(wire) <= Len(sent)
  BY DEF Layout
<1>5. wire # <<>> => Placed(b, 1)
  BY <1>3 DEF Layout
<1>6. CASE b = Len(received) /\ wire # <<>> /\ wire[1].off = got + rbuff /\ wire[1].n = next
  <2>1. sent[b + 1] = next /\ got + rbuff < FrameLen(next)
    <3>1. wire[1].off \in Nat /\ wire[1].end \in Nat
      BY <1>3, <1>6, Sequence
    <3>2. FrameLen(next) \in Nat
      BY <1>1
    <3>3. QED
      BY <1>2, <1>5, <1>6, <3>1, <3>2 DEF Placed
  <2>2. b + 1 <= Len(sent)
    BY <1>3, <1>4, <1>6
  <2>3. want < FrameLen(next)
    <3>1. FrameLen(next) \in Nat /\ want \in Nat /\ rbuff \in Nat
      BY <1>1, <1>2
    <3>2. want + rbuff < FrameLen(next)
      BY <2>1
    <3>3. QED
      BY <3>1, <3>2
  <2>4. ~Framable(next) /\ want - nbl - 1 < next
    <3>1. ~(got < want) /\ want # FrameLen(next)
      BY <1>1, <1>2, <2>3
    <3>2. QED
      BY <3>1 DEF Measured
  <2>5. QED
    BY <1>2, <1>6, <2>1, <2>2, <2>4
<1>7. CASE /\ b = Len(received) + 1 /\ next = sent[b]
           /\ wire # <<>> => wire[1].off = 0
           /\ \/ b <= whole /\ got + rbuff = FrameLen(next)
              \/ b = whole + 1 /\ closed /\ got + rbuff < FrameLen(next)
  <2>1. b <= Len(sent)
    BY <1>3, <1>4
  <2>2. CASE Framable(next)
    <3>1. nbl = Nbl(next) /\ want = FrameLen(next)
      <4>1. ~(got < want)
        BY <1>2
      <4>2. QED
        BY <2>2, <4>1 DEF Measured
    <3>2. want - nbl - 1 = next
      BY <1>1, <3>1
    <3>3. rbuff = 0 /\ b <= whole
      BY <1>1, <1>2, <1>7, <3>1
    <3>4. QED
      BY <1>1, <1>7, <2>1, <2>2, <3>2, <3>3
  <2>3. CASE ~Framable(next)
    <3>1. want - nbl - 1 < next
      BY <2>3 DEF Measured
    <3>2. QED
      BY <1>2, <1>7, <2>1, <2>3, <3>1
  <2>4. QED
    BY <2>2, <2>3
<1>8. QED
  BY <1>6, <1>7 DEF Amid

\* read returns.
LEMMA ReturnKeeps ==
    ASSUME IInv, Return
    PROVE  IInv'
<1>1. PICK b \in Nat : Layout(b) /\ At(b) /\ Returned(b)
  BY DEF IInv
<1> DEFINE l == want - nbl - 1
<1>2. /\ TypeOK /\ reader = "full" /\ got = want
      /\ UNCHANGED <<sent, wire, whole, closed, next, rbuff, nbl, want, got>>
      /\ UNCHANGED streamVars
      /\ received' = Append(received, l)
      /\ reader' = IF l = next THEN "idle" ELSE "failed"
  BY DEF IInv, Return, streamVars
<1>3. Amid(b, got + rbuff) /\ Measured
  BY <1>1, <1>2 DEF At
<1>4. /\ l \in Nat
      /\ Len(received) + 1 <= Len(sent) /\ sent[Len(received) + 1] = next
      /\ \/ /\ Framable(next) /\ l = next /\ rbuff = 0
            /\ b = Len(received) + 1 /\ b <= whole
            /\ wire # <<>> => wire[1].off = 0
         \/ ~Framable(next) /\ l < next
  BY <1>1, <1>2, <1>3, ReturnIs
<1> HIDE DEF l
<1>5. received \in Seq(Nat) /\ Len(received) \in Nat /\ next \in Nat
  <2>1. received \in Seq(Nat)
    BY <1>2 DEF TypeOK
  <2>2. Len(received) \in Nat
    BY <1>2, Sequence
  <2>3. next \in Nat
    BY <1>3, FrameSize DEF Amid
  <2>4. QED
    BY <2>1, <2>2, <2>3
<1>6. /\ received' \in Seq(Nat) /\ Len(received') = Len(received) + 1
      /\ received'[Len(received) + 1] = l
      /\ \A i \in 1..Len(received) : received'[i] = received[i]
  BY <1>2, <1>4, <1>5, AppendProperties
<1>7. TypeOK'
  <2>1. reader' \in {"idle", "peek", "full", "failed"}
    BY <1>2
  <2>2. QED
    BY <1>2, <1>6, <2>1 DEF TypeOK
<1>8. Layout(b)'
  BY <1>1, <1>2, LayoutStays
<1>9. Good(b, Len(received))
  BY <1>1, <1>2 DEF Returned
<1>10. Good(b, Len(received) - 1)'
  <2>1. PICK m \in Nat : m = Len(received) /\ Len(received') - 1 = m
    BY <1>5, <1>6
  <2>2. Good(b, m)
    BY <1>9, <2>1
  <2>3. Good(b, m)'
    BY <1>2, <1>6, <2>1, <2>2 DEF Good
  <2>4. QED
    BY <2>1, <2>3 DEF Good
<1>11. CASE l = next
  <2>1. /\ rbuff = 0 /\ b = Len(received) + 1 /\ b <= whole
        /\ wire # <<>> => wire[1].off = 0
    BY <1>4, <1>5, <1>11
  <2>2. AtStart(b)'
    BY <1>2, <1>6, <2>1 DEF AtStart
  <2>3. At(b)'
    BY <1>2, <1>11, <2>2 DEF At
  <2>4. Good(b, Len(received))'
    <3>1. ASSUME NEW i \in 1..Len(received') PROVE received'[i] = sent'[i]
      <4>1. CASE i = Len(received) + 1
        BY <1>2, <1>4, <1>6, <1>11, <4>1
      <4>2. CASE i \in 1..Len(received)
        <5>1. received[i] = sent[i]
          BY <1>9, <4>2 DEF Good
        <5>2. QED
          BY <1>2, <1>6, <4>2, <5>1
      <4>3. QED
        BY <1>5, <1>6, <4>1, <4>2
    <3>2. Len(received') = b /\ b <= b /\ b <= whole' /\ b <= Len(sent')
      BY <1>2, <1>4, <1>6, <2>1
    <3>3. QED
      BY <3>1, <3>2 DEF Good
  <2>5. Returned(b)'
    BY <2>4 DEF Returned
  <2>6. QED
    BY <1>7, <1>8, <2>3, <2>5 DEF IInv
<1>12. CASE l # next
  <2>1. reader' = "failed" /\ ~Framable(next)
    BY <1>2, <1>4, <1>12
  <2>2. At(b)'
    BY <2>1 DEF At
  <2>3. received' # <<>>
    BY <1>5, <1>6, EmptySeq
  <2>4. /\ Len(received') <= Len(sent') /\ sent'[Len(received')] = next
        /\ received'[Len(received')] = l
    BY <1>2, <1>4, <1>6
  <2>5. Returned(b)'
    BY <1>10, <1>12, <2>1, <2>3, <2>4 DEF Returned
  <2>6. QED
    BY <1>7, <1>8, <2>2, <2>5 DEF IInv
<1>13. QED
  BY <1>11, <1>12

\* The initial state satisfies the invariant.
LEMMA Begins == Init => IInv
<1> SUFFICES ASSUME Init PROVE IInv
  OBVIOUS
<1>1. TypeOK
  <2>1. /\ sent \in Seq(Lens) /\ wire \in Seq(Frame) /\ received \in Seq(Nat)
        /\ \A i \in 1..Len(wire) : wire[i].off < wire[i].end
    BY DEF Init
  <2>2. rbuff = 0 /\ nbl = 0 /\ want = 0 /\ got = 0 /\ next = 0 /\ whole = 0
    BY DEF Init
  <2>3. /\ rbuff \in 0..BuffSize /\ nbl \in 0..3 /\ want \in Nat /\ got \in 0..want
        /\ next \in Lens \cup {0} /\ whole \in Nat
    BY <2>2 DEF BuffSize
  <2>4. closed \in BOOLEAN /\ reader \in {"idle", "peek", "full", "failed"}
    BY Zenon DEF Init
  <2>5. QED
    BY <2>1, <2>3, <2>4 DEF TypeOK
<1>2. Layout(0)
  BY DEF Init, Layout
<1>3. At(0)
  BY DEF Init, At, AtStart
<1>4. Returned(0)
  BY DEF Init, Returned, Good
<1>5. QED
  BY <1>1, <1>2, <1>3, <1>4 DEF IInv

\* Every step keeps the invariant.
LEMMA Keeps == IInv /\ [Next]_vars => IInv'
<1> SUFFICES ASSUME IInv, [Next]_vars PROVE IInv'
  OBVIOUS
<1>1. CASE \E n \in Lens : Write(n)
  BY <1>1, WriteKeeps
<1>2. CASE Close
  BY <1>2, CloseKeeps
<1>3. CASE Read
  BY <1>3, ReadKeeps
<1>4. CASE Peek
  BY <1>4, PeekKeeps
<1>5. CASE PeekFails \/ ReadFullFails
  BY <1>5, FailKeeps
<1>6. CASE ReadLength
  BY <1>6, ReadLengthKeeps
<1>7. CASE ReadFull
  BY <1>7, ReadFullKeeps
<1>8. CASE Return
  BY <1>8, ReturnKeeps
<1>9. CASE UNCHANGED vars
  <2>1. PICK b \in Nat : Layout(b) /\ At(b) /\ Returned(b)
    BY DEF IInv
  <2>2. /\ UNCHANGED streamVars
        /\ UNCHANGED <<sent, wire, whole, closed, received, reader, next, rbuff, nbl, want, got>>
    BY <1>9 DEF vars, streamVars, readVars
  <2>3. TypeOK'
    BY <2>2 DEF IInv, TypeOK
  <2>4. Layout(b)'
    BY <2>1, <2>2, LayoutStays
  <2>5. At(b)'
    BY <2>1, <2>2 DEF At, AtStart, Amid, Measured
  <2>6. Returned(b)'
    BY <2>1, <2>2 DEF Returned, Good
  <2>7. QED
    BY <2>3, <2>4, <2>5, <2>6 DEF IInv
<1>10. QED
  BY <1>1, <1>2, <1>3, <1>4, <1>5, <1>6, <1>7, <1>8, <1>9 DEF Next, ReaderStep

\* In every state the frames on the stream are those of the messages behind the
\* ones that were read, and the reader is between two of them or amid one.
THEOREM Inductive == Spec => []IInv
  BY Begins, Keeps, PTL DEF Spec

\* Every variable stays within its domain, for every set of lengths, every way
\* in which the stream breaks frames, and any number of messages.
THEOREM TypeCorrect == Spec => []TypeOK
<1>1. IInv => TypeOK
  BY DEF IInv
<1>2. QED
  BY <1>1, Inductive, PTL

\* read returns the messages that were written, in order, each after it has
\* arrived in full, up to the first whose length read mistakes.
THEOREM InOrder == Spec => []ReceivedIsSent
<1>1. ASSUME IInv PROVE ReceivedIsSent
  <2>1. PICK b \in Nat : Returned(b)
    BY <1>1 DEF IInv
  <2>2. Len(received) \in Nat
    BY <1>1, Sequence DEF IInv
  <2>3. SUFFICES ASSUME NEW i \in 1..Len(received), i <= Len(sent),
                        \A j \in 1..i : Framable(sent[j])
                 PROVE  i <= whole /\ received[i] = sent[i]
    BY DEF ReceivedIsSent
  <2>4. whole \in Nat /\ Framable(sent[i])
    BY <1>1, <2>2, <2>3 DEF IInv, TypeOK
  <2>5. CASE Good(b, Len(received))
    BY <2>2, <2>4, <2>5 DEF Good
  <2>6. CASE /\ Good(b, Len(received) - 1) /\ ~Framable(sent[Len(received)])
    <3>1. i # Len(received)
      BY <2>4, <2>6
    <3>2. i \in 1..(Len(received) - 1)
      BY <2>2, <3>1
    <3>3. QED
      BY <2>2, <2>4, <2>6, <3>2 DEF Good
  <2>7. QED
    BY <2>1, <2>5, <2>6 DEF Returned
<1>2. QED
  BY <1>1, Inductive, PTL

\* The buffer that read throws away is empty whenever read returns a message
\* that decrypts: read never takes a byte of the next frame.
THEOREM NothingLost == Spec => NothingLeftBehind
<1>1. ASSUME IInv, [Next]_vars
      PROVE  [reader = "full" /\ reader' = "idle" => rbuff = 0]_vars
  <2>1. SUFFICES ASSUME reader = "full", reader' = "idle" PROVE rbuff = 0
    OBVIOUS
  <2>2. Return
    BY <1>1, <2>1 DEF Next, ReaderStep, Write, Close, Read, Peek, PeekFails, ReadLength,
          ReadFull, ReadFullFails, vars, readVars
  <2>3. got = want /\ want - nbl - 1 = next
    BY <2>1, <2>2 DEF Return
  <2>4. PICK b \in Nat : Layout(b) /\ At(b)
    BY <1>1 DEF IInv
  <2>5. Amid(b, got + rbuff) /\ Measured /\ TypeOK
    BY <1>1, <2>1, <2>4 DEF At, IInv
  <2>6. next \in Nat
    BY <2>5, FrameSize DEF Amid
  <2>7. ~(want - nbl - 1 < next)
    BY <2>3, <2>6
  <2>8. QED
    BY <2>3, <2>4, <2>5, <2>7, ReturnIs
<1>2. QED
  BY <1>1, Inductive, PTL DEF Spec, NothingLeftBehind
-----------------------------------------------------------------------------
(* The messages that the layer above sees.  They are an instance of         *)
(* MessageStream, up to its fairness.                                       *)

Taken == IF Garbled THEN SubSeq(received, 1, Len(received) - 1) ELSE received

TakenOK ==
    /\ Len(Taken) \in Nat /\ Len(Taken) <= whole /\ Len(Taken) <= Len(sent)
    /\ \/ ~Garbled /\ Taken = received
       \/ Garbled /\ reader = "failed" /\ Len(received) <= Len(sent)

\* A message that is not what was written ends the stream for the layer above,
\* which never sees it.
LEMMA TakenIs == IInv => TakenOK
<1> SUFFICES ASSUME IInv PROVE TakenOK
  OBVIOUS
<1>1. PICK b \in Nat : Returned(b)
  BY DEF IInv
<1>2. received \in Seq(Nat) /\ Len(received) \in Nat /\ (received = <<>> <=> Len(received) = 0)
  <2>1. TypeOK
    BY DEF IInv
  <2>2. received \in Seq(Nat)
    BY <2>1 DEF TypeOK
  <2>3. QED
    BY <2>1, <2>2, Sequence
<1>3. CASE Good(b, Len(received))
  <2>1. ~Garbled
    BY <1>2, <1>3 DEF Good, Garbled
  <2>2. Taken = received
    BY <2>1 DEF Taken
  <2>3. QED
    BY <1>2, <1>3, <2>1, <2>2 DEF Good, TakenOK
<1>4. CASE /\ reader = "failed" /\ received # <<>>
           /\ Good(b, Len(received) - 1)
           /\ Len(received) <= Len(sent)
           /\ received[Len(received)] # sent[Len(received)]
  <2>1. Garbled
    BY <1>4 DEF Garbled
  <2>2. Taken = SubSeq(received, 1, Len(received) - 1)
    BY <2>1 DEF Taken
  <2>3. Len(received) - 1 \in 0..Len(received)
    BY <1>2, <1>4
  <2>4. Len(Taken) = Len(received) - 1
    <3>1. \A i \in 1..(Len(received) - 1) : received[i] \in Nat
      <4>1. \A i \in 1..Len(received) : received[i] \in Nat
        BY <1>2, ElementOfSeq
      <4>2. QED
        BY <1>2, <4>1
    <3>2. 1 \in Int /\ Len(received) - 1 \in Int
      BY <1>2
    <3>3. Len(Taken) = IF 1 <= Len(received) - 1 THEN (Len(received) - 1) - 1 + 1 ELSE 0
      BY <2>2, <3>1, <3>2, SubSeqProperties
    <3>4. PICK m \in Nat : m = Len(received) - 1
      BY <2>3
    <3>5. Len(Taken) = IF 1 <= m THEN m - 1 + 1 ELSE 0
      BY <3>3, <3>4
    <3>6. Len(Taken) = m
      BY <3>5
    <3>7. QED
      BY <3>4, <3>6
  <2>5. Len(received) - 1 <= whole /\ Len(received) - 1 <= Len(sent)
    BY <1>4 DEF Good
  <2>6. QED
    BY <1>4, <2>1, <2>3, <2>4, <2>5 DEF TakenOK
<1>5. QED
  BY <1>1, <1>3, <1>4 DEF Returned

\* The same of the state behind a step.
LEMMA TakenNext == IInv' => TakenOK'
  BY TakenIs, PTL

\* What a step that returns nothing does to the messages received.
LEMMA TakenStays ==
    ASSUME IInv, received' = received,
           \A i \in 1..Len(received) : i <= Len(sent) => sent'[i] = sent[i]
    PROVE  Taken' = Taken
<1>1. Len(received) \in Nat /\ (received # <<>> => Len(received) \in 1..Len(received))
  BY Sequence DEF IInv
<1>2. received # <<>> => Len(received) <= Len(sent)
  <2>1. Len(Taken) <= Len(sent) /\ (Garbled \/ Taken = received)
    BY TakenIs DEF TakenOK
  <2>2. Garbled => Len(received) <= Len(sent)
    BY TakenIs DEF TakenOK
  <2>3. QED
    BY <2>1, <2>2
<1>3. Garbled' <=> Garbled
  BY <1>1, <1>2 DEF Garbled
<1>4. QED
  BY <1>3 DEF Taken

\* When read stops at the end of the stream it has returned all that arrived.
LEMMA EndIs ==
    ASSUME IInv, PeekFails \/ ReadFullFails
    PROVE  closed /\ Len(received) = whole
<1>1. PICK b \in Nat : Layout(b) /\ At(b)
  BY DEF IInv
<1>2. /\ TypeOK /\ closed /\ wire = <<>>
  BY DEF IInv, PeekFails, ReadFullFails, AtEnd
<1>3. whole \in Nat /\ Len(received) \in Nat /\ Len(wire) = 0
  BY <1>2, Sequence DEF TypeOK
<1>4. whole \in {b - 1, b}
  BY <1>1, <1>3 DEF Layout
<1>5. CASE AtStart(b)
  BY <1>2, <1>3, <1>4, <1>5 DEF AtStart
<1>6. ASSUME NEW u \in Nat, Amid(b, u), u # FrameLen(next) PROVE Len(received) = whole
  BY <1>2, <1>3, <1>6 DEF Amid
<1>7. CASE PeekFails
  <2>1. reader = "peek" /\ rbuff < 2 /\ rbuff \in 0..BuffSize
    BY <1>2, <1>7 DEF PeekFails, TypeOK
  <2>2. CASE rbuff = 0
    BY <1>1, <1>2, <1>5, <2>1, <2>2 DEF At
  <2>3. CASE rbuff # 0
    <3>1. Amid(b, rbuff) /\ next \in Lens
      BY <1>1, <2>1, <2>3 DEF At, Amid
    <3>2. rbuff \in Nat /\ rbuff # FrameLen(next)
      BY <2>1, <3>1, FrameSize DEF BuffSize
    <3>3. QED
      BY <1>2, <1>6, <3>1, <3>2
  <2>4. QED
    BY <2>2, <2>3
<1>8. CASE ReadFullFails
  <2>1. reader = "full" /\ got < want /\ got \in Nat /\ want \in Nat
    BY <1>2, <1>8 DEF ReadFullFails, TypeOK
  <2>2. Amid(b, got + rbuff) /\ Measured /\ next \in Lens
    BY <1>1, <2>1 DEF At, Amid
  <2>3. rbuff = 0 /\ got + rbuff = got
    BY <2>1, <2>2 DEF Measured
  <2>4. /\ next \in Nat /\ Nbl(next) \in 1..3 /\ nbl \in 1..3
        /\ FrameLen(next) = Nbl(next) + 1 + next /\ 18 <= FrameLen(next)
    BY <2>2, FrameSize DEF Measured
  <2>5. want = FrameLen(next) \/ (nbl <= Nbl(next) /\ want - nbl - 1 < next) \/ got = 2
    BY <2>2 DEF Measured
  <2>6. got # FrameLen(next)
    BY <2>1, <2>4, <2>5
  <2>7. QED
    BY <1>2, <1>6, <2>1, <2>2, <2>3, <2>6
<1>9. QED
  BY <1>7, <1>8
\* The steps of MessageStream, in terms of this module's variables: a message is
\* sent,
LEMMA Sends ==
    ASSUME NEW m \in Lens, ~closed, closed' = closed, sent' = Append(sent, m),
           whole' = whole + 1, Taken' = Taken, reader' = "failed" <=> reader = "failed"
    PROVE  Messages!Next
  BY DEF Messages!Next, Messages!Send, Taken

\* the stream is closed,
LEMMA Closes ==
    ASSUME ~closed, closed' = TRUE, whole' \in Len(Taken)..whole,
           sent' = sent, Taken' = Taken, reader' = "failed" <=> reader = "failed"
    PROVE  Messages!Next
  BY DEF Messages!Next, Messages!Close, Taken

\* a message is received,
LEMMA Receives ==
    ASSUME UNCHANGED <<sent, whole, closed>>, reader # "failed", reader' # "failed",
           Len(Taken) < whole, sent[Len(Taken) + 1] \in {n \in Lens : Framable(n)},
           Taken' = Append(Taken, sent[Len(Taken) + 1])
    PROVE  Messages!Next
  BY DEF Messages!Next, Messages!Receive, Messages!NextMsg, Taken

\* the receiver stops,
LEMMA Stops ==
    ASSUME UNCHANGED <<sent, whole, closed>>, Taken' = Taken,
           reader # "failed", reader' = "failed",
           \/ closed /\ Len(Taken) = whole
           \/ /\ Len(Taken) < Len(sent)
              /\ sent[Len(Taken) + 1] \notin {n \in Lens : Framable(n)}
    PROVE  Messages!Next
  BY DEF Messages!Next, Messages!Stop, Messages!NextMsg, Taken

\* and nothing happens.
LEMMA Stutters ==
    ASSUME UNCHANGED <<sent, whole, closed>>, Taken' = Taken,
           reader' = "failed" <=> reader = "failed"
    PROVE  UNCHANGED Messages!vars
  BY DEF Messages!vars, Taken

\* Every step is a step of MessageStream, or none.
LEMMA Simulates ==
    ASSUME IInv, IInv', [Next]_vars
    PROVE  [Messages!Next]_(Messages!vars)
<1>1. CASE \E n \in Lens : Write(n)
  <2>1. PICK n \in Lens : Write(n)
    BY <1>1
  <2>2. /\ ~closed /\ closed' = closed /\ sent' = Append(sent, n) /\ whole' = whole + 1
        /\ received' = received /\ reader' = reader
    BY <2>1 DEF Write, readVars
  <2>3. sent \in Seq(Lens)
    BY DEF IInv, TypeOK
  <2>4. \A i \in 1..Len(received) : i <= Len(sent) => sent'[i] = sent[i]
    BY <2>2, <2>3, AppendProperties
  <2>5. Taken' = Taken
    BY <2>2, <2>4, TakenStays
  <2>6. QED
    BY <2>2, <2>5, Sends
<1>2. CASE Close
  <2>1. /\ ~closed /\ closed' = TRUE /\ sent' = sent
        /\ received' = received /\ reader' = reader
    BY <1>2 DEF Close, readVars
  <2>2. Taken' = Taken
    BY <2>1, TakenStays
  <2>3. Len(Taken') \in Nat /\ Len(Taken') <= whole'
    BY TakenNext DEF TakenOK
  <2>4. TypeOK /\ whole \in Nat /\ Len(wire) \in Nat /\ whole' \in Nat
    BY Sequence DEF IInv, TypeOK
  <2>5. whole' <= whole
    <3>1. whole' = whole \/ \E i \in 1..Len(wire) : whole' = whole - (Len(wire) - i + 1)
      BY <1>2, <2>4, CloseIs
    <3>2. QED
      BY <2>4, <3>1
  <2>6. whole' \in Len(Taken)..whole
    BY <2>2, <2>3, <2>4, <2>5
  <2>7. QED
    BY <2>1, <2>2, <2>6, Closes
<1>3. CASE PeekFails \/ ReadFullFails
  <2>1. /\ UNCHANGED <<sent, whole, closed>> /\ received' = received
        /\ reader # "failed" /\ reader' = "failed"
    BY <1>3 DEF PeekFails, ReadFullFails, streamVars
  <2>2. Taken' = Taken
    BY <2>1, TakenStays
  <2>3. closed /\ Len(received) = whole
    BY <1>3, EndIs
  <2>4. Taken = received
    BY <2>1, TakenIs DEF TakenOK
  <2>5. QED
    <3>1. closed /\ Len(Taken) = whole
      BY <2>3, <2>4
    <3>2. QED
      BY <2>1, <2>2, <3>1, Stops
<1>4. CASE Return
  <2>1. PICK b \in Nat : Layout(b) /\ At(b)
    BY DEF IInv
  <2> DEFINE l == want - nbl - 1
  <2>2. /\ TypeOK /\ reader = "full" /\ got = want
        /\ UNCHANGED <<sent, whole, closed>>
        /\ received' = Append(received, l)
        /\ reader' = IF l = next THEN "idle" ELSE "failed"
    BY <1>4 DEF IInv, Return, streamVars
  <2>3. Amid(b, got + rbuff) /\ Measured
    BY <2>1, <2>2 DEF At
  <2>4. next \in Lens /\ next \in Nat
    BY <2>3, FrameSize DEF Amid
  <2>5. /\ l \in Nat
        /\ Len(received) + 1 <= Len(sent) /\ sent[Len(received) + 1] = next
        /\ \/ Framable(next) /\ l = next /\ b = Len(received) + 1 /\ b <= whole
           \/ ~Framable(next) /\ l < next
    BY <2>1, <2>2, <2>3, ReturnIs
  <2> HIDE DEF l
  <2>6. Taken = received
    BY <2>2, TakenIs DEF TakenOK
  <2>7. /\ received \in Seq(Nat) /\ Len(received) \in Nat /\ whole \in Nat
        /\ Len(sent) \in Nat
    BY <2>2, Sequence DEF TypeOK
  <2>8. /\ received' \in Seq(Nat) /\ Len(received') = Len(received) + 1
        /\ received'[Len(received) + 1] = l
        /\ \A i \in 1..Len(received) : received'[i] = received[i]
    BY <2>2, <2>5, <2>7, AppendProperties
  <2>9. CASE l = next
    <3>1. reader' # "failed" /\ Framable(next) /\ Len(received) < whole
      BY <2>2, <2>4, <2>5, <2>7, <2>9
    <3>2. Taken' = received'
      BY <3>1, TakenNext DEF TakenOK
    <3>3. Taken' = Append(Taken, sent[Len(Taken) + 1])
      BY <2>2, <2>5, <2>6, <2>9, <3>2
    <3>4. sent[Len(Taken) + 1] \in {n \in Lens : Framable(n)}
      BY <2>4, <2>5, <2>6, <3>1
    <3>5. QED
      BY <2>2, <2>6, <3>1, <3>3, <3>4, Receives
  <2>10. CASE l # next
    <3>1. reader' = "failed" /\ ~Framable(next) /\ Len(received) < Len(sent)
      BY <2>2, <2>5, <2>7, <2>10
    <3>2. Garbled'
      <4>1. received' # <<>>
        BY <2>7, <2>8, EmptySeq
      <4>2. received'[Len(received')] = l /\ sent'[Len(received')] = next
        BY <2>2, <2>5, <2>8
      <4>3. QED
        BY <2>10, <4>1, <4>2 DEF Garbled
    <3>3. Taken' = received
      <4>1. PICK m \in Nat : m = Len(received) /\ Len(received') - 1 = m
        BY <2>7, <2>8
      <4>2. Taken' = SubSeq(received', 1, m)
        BY <3>2, <4>1 DEF Taken
      <4>3. \A i \in 1..m : received'[i] \in Nat /\ received'[i] = received[i]
        <5>1. \A i \in 1..m : received[i] \in Nat
          BY <2>7, <4>1, ElementOfSeq
        <5>2. QED
          BY <2>8, <4>1, <5>1
      <4>4. /\ Taken' \in Seq(Nat) /\ Len(Taken') = m
            /\ \A i \in 1..m : Taken'[i] = received[i]
        <5>1. /\ SubSeq(received', 1, m) \in Seq(Nat)
              /\ Len(SubSeq(received', 1, m)) = IF 1 <= m THEN m - 1 + 1 ELSE 0
              /\ \A i \in 1..(m - 1 + 1) : SubSeq(received', 1, m)[i] = received'[1 + i - 1]
          <6>1. 1 \in Int /\ m \in Int /\ \A i \in 1..m : received'[i] \in Nat
            BY <4>3
          <6>2. QED
            BY <6>1, SubSeqProperties
        <5>2. QED
          BY <4>2, <4>3, <5>1
      <4>5. QED
        BY <2>7, <4>1, <4>4, SeqEqual
    <3>4. sent[Len(Taken) + 1] \notin {n \in Lens : Framable(n)}
      BY <2>5, <2>6, <3>1
    <3>5. Taken' = Taken /\ Len(Taken) < Len(sent) /\ reader # "failed"
      BY <2>2, <2>6, <3>1, <3>3
    <3>6. QED
      BY <2>2, <3>1, <3>4, <3>5, Stops
  <2>11. QED
    BY <2>9, <2>10
<1>5. CASE Read \/ Peek \/ ReadLength \/ ReadFull \/ UNCHANGED vars
  <2>1. /\ UNCHANGED <<sent, whole, closed>> /\ received' = received
        /\ reader' = "failed" <=> reader = "failed"
    BY <1>5 DEF Read, Peek, ReadLength, ReadFull, vars, streamVars, readVars
  <2>2. Taken' = Taken
    BY <2>1, TakenStays
  <2>3. QED
    BY <2>1, <2>2, Stutters
<1>6. QED
  BY <1>1, <1>2, <1>3, <1>4, <1>5 DEF Next, ReaderStep

\* To the layer above, write and read are a stream of whole messages, for every
\* set of lengths, every way in which the stream breaks frames, and any number
\* of messages: the safety part of ImplementsMessageStream.
THEOREM Implements == Spec => Messages!Init /\ [][Messages!Next]_(Messages!vars)
<1>1. Init => Messages!Init
  <2> SUFFICES ASSUME Init PROVE Messages!Init
    OBVIOUS
  <2>1. ~Garbled /\ reader # "failed"
    BY DEF Init, Garbled
  <2>2. QED
    BY <2>1 DEF Init, Messages!Init
<1>2. IInv /\ IInv' /\ [Next]_vars => [Messages!Next]_(Messages!vars)
  BY Simulates
<1>3. QED
  BY <1>1, <1>2, Inductive, PTL DEF Spec
================================================================================
