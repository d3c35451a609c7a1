---------------------------- MODULE Certificate ----------------------------
(***************************************************************************)
(* Certificates and the CA pool: certificate.go, certificate-authority.go  *)
(* and the PEM files of certificate-pem.go.                                *)
(*                                                                         *)
(* A certificate in memory is a record [details, signature]; marshalled,   *)
(* it is a record of the same shape whose labels are the strings that are  *)
(* written.  A key pair is one value, which stands for both of its halves. *)
(* A label "key=value" is the length of its key, 0 being the empty string: *)
(* the length is what parsing gets wrong.  SHA-256 and Ed25519 are ideal:  *)
(* a sum is the marshalled certificate itself, and a signature records who *)
(* signed what.  Names are left out, and so is the blocklist, which no     *)
(* command fills.                                                          *)
(***************************************************************************)
EXTENDS Naturals, Sequences

CONSTANT None   \* no issuer, no signer, no file

Details(labels, notBefore, notAfter, publicKey, isCA, issuer) ==
    [labels |-> labels, notBefore |-> notBefore, notAfter |-> notAfter,
     publicKey |-> publicKey, isCA |-> isCA, issuer |-> issuer]

WithLabels(d, labels) ==
    Details(labels, d.notBefore, d.notAfter, d.publicKey, d.isCA, d.issuer)

WithIssuer(d, issuer) ==
    Details(d.labels, d.notBefore, d.notAfter, d.publicKey, d.isCA, issuer)

\* label.UnmarshalText: of a non-empty text, the key without its last character
\* (text[:i-1]).
UnmarshalText(k) == IF k = 0 THEN 0 ELSE k - 1

\* A slice that is made with one empty string for each of n elements, before
\* the elements are appended to it.
Blank(n) == [i \in 1..n |-> 0]

\* getDetailsRaw
RawLabels(labels)  == Blank(Len(labels)) \o labels
DetailsRaw(d)      == WithLabels(d, RawLabels(d.labels))

Marshal(c) == [details |-> DetailsRaw(c.details), signature |-> c.signature]

\* UnmarshalAetherportCertificate
ParsedLabels(raws) ==
    Blank(Len(raws)) \o [i \in DOMAIN raws |-> UnmarshalText(raws[i])]

Unmarshal(raw) ==
    [details   |-> WithLabels(raw.details, ParsedLabels(raw.details.labels)),
     signature |-> raw.signature]

Sha256Sum(c) == Marshal(c)

\* Every command sets IsCA, for the certificates of nodes too.
NewCertificate(labels, notBefore, notAfter, publicKey) ==
    [details   |-> Details(labels, notBefore, notAfter, publicKey, TRUE, None),
     signature |-> None]

Sign(c, key, ca) ==
    LET details == WithIssuer(c.details, IF ca = None THEN c.details.issuer ELSE Sha256Sum(ca))
    IN  [details   |-> details,
         signature |-> [by |-> key, of |-> DetailsRaw(details)]]

CheckSignature(c, key) ==
    c.signature = [by |-> key, of |-> DetailsRaw(c.details)]

Expired(c, t) == c.details.notBefore > t \/ c.details.notAfter < t

CheckRootConstrains(c, signer) ==
    /\ c.details.notAfter =< signer.details.notAfter
    /\ c.details.notBefore >= signer.details.notBefore

-----------------------------------------------------------------------------
(* The pool is the set of the CA certificates, each found by its sum. *)

AddCACertificate(c) == c.details.isCA /\ CheckSignature(c, c.details.publicKey)

\* NewCAPoolFromPEM of the certificates in a file: None when it fails, and one
\* expired CA makes it fail.
NewCAPool(raws, t) ==
    LET pool == {Unmarshal(r) : r \in raws}
    IN  IF \A c \in pool : AddCACertificate(c) /\ ~Expired(c, t)
          THEN pool ELSE None

IssuersOf(c, pool) ==
    {ca \in pool : c.details.issuer # None /\ Sha256Sum(ca) = c.details.issuer}

Verify(c, t, pool) ==
    \E signer \in IssuersOf(c, pool) :
        /\ ~Expired(signer, t)
        /\ ~Expired(c, t)
        /\ CheckSignature(c, signer.details.publicKey)
        /\ CheckRootConstrains(c, signer)
=============================================================================
