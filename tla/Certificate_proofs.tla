--------------------------- MODULE Certificate_proofs ---------------------------
(***************************************************************************)
(* Proofs about Certificate: what signing, marshalling, parsing and        *)
(* verifying make of a certificate with labels and of one without.         *)
(***************************************************************************)
EXTENDS Certificate, TLAPS

\* The certificate a command makes and signs, and what is parsed of its file.
Signed(labels, from, to, pub, key, ca) ==
    Sign(NewCertificate(labels, from, to, pub), key, ca)

Parsed(labels, from, to, pub, key, ca) ==
    Unmarshal(Marshal(Signed(labels, from, to, pub, key, ca)))

\* The details of such a certificate, but for its labels, and its signature.
Det(l, from, to, pub, ca) ==
    Details(l, from, to, pub, TRUE, IF ca = None THEN None ELSE Sha256Sum(ca))

Sig(labels, from, to, pub, key, ca) ==
    [by |-> key, of |-> Det(RawLabels(labels), from, to, pub, ca)]

\* The length of a concatenation.
LEMMA ConcatLen ==
    ASSUME NEW p \in Seq(Nat), NEW q \in Seq(Nat)
    PROVE  p \o q \in Seq(Nat) /\ Len(p \o q) = Len(p) + Len(q)
  OBVIOUS

\* Twice as many labels are written as there are.
LEMMA RawLabelsLen ==
    ASSUME NEW s \in Seq(Nat)
    PROVE  RawLabels(s) \in Seq(Nat) /\ Len(RawLabels(s)) = Len(s) + Len(s)
<1>1. Blank(Len(s)) \in Seq(Nat) /\ Len(Blank(Len(s))) = Len(s)
  BY DEF Blank
<1>2. QED
  BY <1>1 DEF RawLabels

\* Twice as many are parsed as were written.
LEMMA ParsedLabelsLen ==
    ASSUME NEW s \in Seq(Nat)
    PROVE  ParsedLabels(s) \in Seq(Nat) /\ Len(ParsedLabels(s)) = Len(s) + Len(s)
<1> DEFINE texts == [i \in DOMAIN s |-> UnmarshalText(s[i])]
<1>1. \A k \in Nat : UnmarshalText(k) \in Nat
  BY DEF UnmarshalText
<1>2. texts \in Seq(Nat) /\ Len(texts) = Len(s)
  <2>1. Len(s) \in Nat /\ DOMAIN s = 1..Len(s) /\ \A i \in 1..Len(s) : s[i] \in Nat
    OBVIOUS
  <2>2. texts \in [1..Len(s) -> Nat]
    BY <1>1, <2>1
  <2>3. QED
    BY <2>1, <2>2
<1>3. Blank(Len(s)) \in Seq(Nat) /\ Len(Blank(Len(s))) = Len(s)
  BY DEF Blank
<1>4. QED
  <2>1. ParsedLabels(s) = Blank(Len(s)) \o texts
    BY DEF ParsedLabels
  <2> HIDE DEF texts
  <2>2. /\ Blank(Len(s)) \o texts \in Seq(Nat)
        /\ Len(Blank(Len(s)) \o texts) = Len(Blank(Len(s))) + Len(texts)
    BY ONLY <1>2, <1>3, ConcatLen
  <2>3. QED
    BY ONLY <1>2, <1>3, <2>1, <2>2

\* Without labels, there is nothing to double.
LEMMA NoLabels == RawLabels(<<>>) = <<>> /\ ParsedLabels(<<>>) = <<>>
<1>1. Blank(Len(<<>>)) = <<>>
  BY DEF Blank
<1>2. RawLabels(<<>>) = <<>>
  BY <1>1 DEF RawLabels
<1>3. ParsedLabels(<<>>) = <<>>
  BY <1>1 DEF ParsedLabels
<1>4. QED
  BY <1>2, <1>3

\* The details are a record of the labels and the rest.
LEMMA DetLabels ==
    ASSUME NEW l, NEW from, NEW to, NEW pub, NEW ca
    PROVE  /\ Det(l, from, to, pub, ca).labels = l
           /\ \A m : WithLabels(Det(l, from, to, pub, ca), m) = Det(m, from, to, pub, ca)
  BY DEF Det, WithLabels, Details

\* What Sign and Unmarshal make of a new certificate, in full.
LEMMA Shapes ==
    ASSUME NEW labels, NEW from, NEW to, NEW pub, NEW key, NEW ca
    PROVE  /\ Signed(labels, from, to, pub, key, ca)
                = [details   |-> Det(labels, from, to, pub, ca),
                   signature |-> Sig(labels, from, to, pub, key, ca)]
           /\ Parsed(labels, from, to, pub, key, ca)
                = [details   |-> Det(ParsedLabels(RawLabels(labels)), from, to, pub, ca),
                   signature |-> Sig(labels, from, to, pub, key, ca)]
<1> DEFINE issuer == IF ca = None THEN None ELSE Sha256Sum(ca)
           raw    == RawLabels(labels)
           sig    == Sig(labels, from, to, pub, key, ca)
<1>1. WithIssuer(NewCertificate(labels, from, to, pub).details, issuer)
        = Det(labels, from, to, pub, ca)
  BY DEF WithIssuer, NewCertificate, Details, Det
<1>2. NewCertificate(labels, from, to, pub).details.issuer = None
  BY DEF NewCertificate, Details
<1>3. DetailsRaw(Det(labels, from, to, pub, ca)) = Det(raw, from, to, pub, ca)
  BY DetLabels DEF DetailsRaw
<1>4. Signed(labels, from, to, pub, key, ca)
        = [details |-> Det(labels, from, to, pub, ca), signature |-> sig]
  BY <1>1, <1>2, <1>3 DEF Signed, Sign, Sig
<1> HIDE DEF sig, raw
<1>5. Marshal(Signed(labels, from, to, pub, key, ca))
        = [details |-> Det(raw, from, to, pub, ca), signature |-> sig]
  BY <1>3, <1>4 DEF Marshal
<1>6. Parsed(labels, from, to, pub, key, ca)
        = [details |-> Det(ParsedLabels(raw), from, to, pub, ca), signature |-> sig]
  BY <1>5, DetLabels DEF Parsed, Unmarshal
<1>7. QED
  BY <1>4, <1>6 DEF sig, raw

\* An unlabelled certificate is parsed as it was signed, and its signature holds
\* under the key that made it and under no other.
THEOREM UnlabelledSurvives ==
    ASSUME NEW from, NEW to, NEW pub, NEW key, NEW ca
    PROVE  /\ Parsed(<<>>, from, to, pub, key, ca) = Signed(<<>>, from, to, pub, key, ca)
           /\ \A k : CheckSignature(Parsed(<<>>, from, to, pub, key, ca), k) <=> k = key
<1> DEFINE det == Det(<<>>, from, to, pub, ca)
           c   == Parsed(<<>>, from, to, pub, key, ca)
<1>1. c = [details |-> det, signature |-> [by |-> key, of |-> det]]
  BY Shapes, NoLabels DEF Sig
<1>2. c = Signed(<<>>, from, to, pub, key, ca)
  BY <1>1, Shapes, NoLabels
<1>3. DetailsRaw(det) = det
  BY NoLabels, DetLabels DEF DetailsRaw
<1> HIDE DEF c, det
<1>4. ASSUME NEW k PROVE CheckSignature(c, k) <=> k = key
  <2>1. CheckSignature(c, k) <=> [by |-> key, of |-> det] = [by |-> k, of |-> det]
    BY <1>1, <1>3 DEF CheckSignature
  <2>2. QED
    BY <2>1
<1>5. QED
  BY <1>2, <1>4 DEF c

\* A certificate with labels is parsed as another one than was signed: its
\* signature holds under no key.  It is refused as a CA, and by every peer, at
\* any time and whatever CAs the peer trusts.
THEOREM LabelledNeverAccepted ==
    ASSUME NEW labels \in Seq(Nat), labels # <<>>,
           NEW from, NEW to, NEW pub, NEW key, NEW ca
    PROVE  LET c == Parsed(labels, from, to, pub, key, ca)
           IN  /\ ~AddCACertificate(c)
               /\ \A t, pool : ~Verify(c, t, pool)
<1> DEFINE raw    == RawLabels(labels)
           parsed == ParsedLabels(raw)
           again  == RawLabels(parsed)
           c      == Parsed(labels, from, to, pub, key, ca)
<1>1. c = [details   |-> Det(parsed, from, to, pub, ca),
           signature |-> [by |-> key, of |-> Det(raw, from, to, pub, ca)]]
  BY Shapes DEF Sig
<1>2. DetailsRaw(Det(parsed, from, to, pub, ca)) = Det(again, from, to, pub, ca)
  BY DetLabels DEF DetailsRaw
<1>3. raw # again
  <2>1. raw \in Seq(Nat) /\ Len(raw) = Len(labels) + Len(labels)
    BY RawLabelsLen
  <2>2. parsed \in Seq(Nat) /\ Len(parsed) = Len(raw) + Len(raw)
    BY <2>1, ParsedLabelsLen
  <2>3. Len(again) = Len(parsed) + Len(parsed)
    BY <2>2, RawLabelsLen
  <2>4. Len(labels) \in Nat /\ Len(labels) > 0
    OBVIOUS
  <2>5. QED
    <3> HIDE DEF raw, parsed, again
    <3> QED
      BY <2>1, <2>2, <2>3, <2>4
<1>4. Det(raw, from, to, pub, ca) # Det(again, from, to, pub, ca)
  <2> HIDE DEF raw, again
  <2>1. Det(raw, from, to, pub, ca).labels = raw /\ Det(again, from, to, pub, ca).labels = again
    BY DetLabels
  <2>2. QED
    BY <1>3, <2>1
<1> HIDE DEF c, raw, parsed, again
<1>5. ASSUME NEW k PROVE ~CheckSignature(c, k)
  <2>1. SUFFICES ASSUME CheckSignature(c, k) PROVE FALSE
    OBVIOUS
  <2>2. [by |-> key, of |-> Det(raw, from, to, pub, ca)]
          = [by |-> k, of |-> Det(again, from, to, pub, ca)]
    BY <1>1, <1>2, <2>1 DEF CheckSignature
  <2>3. QED
    BY <1>4, <2>2
<1>6. QED
  BY <1>5 DEF AddCACertificate, Verify, c
=============================================================================
