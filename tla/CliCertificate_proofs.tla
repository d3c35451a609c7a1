------------------------- MODULE CliCertificate_proofs -------------------------
(***************************************************************************)
(* Proofs about CliCertificate, for any number of shells, any commands and *)
(* any key and certificate files.                                          *)
(***************************************************************************)
EXTENDS CliCertificate, Certificate_proofs, TLAPS

(* The inductive invariant.                                                *)

Field(x) == Command(x.pc, x.request, x.key, x.cert, x.cakey, x.cacert)

\* Files and shells are functions, and a shell is idle or runs a command.
Shaped ==
    /\ DOMAIN file = Files /\ file = [f \in Files |-> file[f]]
    /\ DOMAIN shell = Shells /\ shell = [s \in Shells |-> shell[s]]
    /\ \A s \in Shells : \/ shell[s] = Idle
                         \/ shell[s].pc # "idle" /\ shell[s] = Field(shell[s])
    /\ generated \in Nat

IsCertificate(c) == \E d, i : c = [details |-> d, signature |-> i]

\* generate-ca does nothing but make a CA, and only re-sign reads a certificate
\* to sign it again; a command that signs has read the CA.  The file a command
\* is about to write to is of the right kind, although the request may name one
\* that is not: only re-sign writes to the certificate of the CA as if it were
\* that of a node.
CASteps == {"openCAKey", "writeCAKey", "openCACert", "writeCACert"}

Directed(r, pc) ==
    /\ pc \in {"openKey", "writeKey", "openCert"} => r.op = "generate"
    /\ pc \in {"readCert", "truncate"} => r.op = "re-sign"
    /\ pc \in {"writeKey", "openCert"} => r.key \in KeyFiles
    /\ pc = "truncate" => r.cert \in Certs
    /\ pc = "writeCert" => IF r.op = "generate" THEN r.cert \in CertFiles ELSE r.cert \in Certs

RoutedCommand(x) ==
    /\ x.request.op \in {"generate", "generate-ca", "re-sign"}
    /\ x.request.op = "generate-ca" => x.pc \in CASteps
    /\ x.request.key \in Files /\ x.request.cert \in Files
    /\ x.request.op = "generate" => /\ x.request.key \in KeyFiles \cup CAFiles
                                    /\ x.request.cert \in CertFiles \cup CAFiles
    /\ Directed(x.request, x.pc)
    /\ x.pc \in {"readCACert", "readCert"} => x.cakey # None
    /\ x.pc = "readCert" => IsCertificate(x.cacert)

Routed == \A s \in Shells : shell[s].pc # "idle" => RoutedCommand(shell[s])

PublicKey(c) == c.details.publicKey

\* Keys and certificates in memory are of key pairs that were generated, and a
\* command that made a pair holds both halves of it.
KeyOK(s) ==
    /\ shell[s].key \in {None} \cup 1..generated
    /\ shell[s].cert # None => PublicKey(shell[s].cert) \in 1..generated

HoldsPair ==
    \A s \in Shells :
        /\ shell[s].pc # "idle" => KeyOK(s)
        /\ shell[s].pc \in CASteps \cup {"openKey", "writeKey", "openCert"} =>
              PublicKey(shell[s].cert) = shell[s].key /\ shell[s].key \in 1..generated

\* A file that is about to be written to is one that this command created, and
\* no other command is about to write to it.
WritesOwn ==
    /\ \A s \in Shells :
          /\ shell[s].pc = "writeCAKey" => file["cakey"] = Empty
          /\ shell[s].pc = "writeCACert" => file["cacert"] = Empty
          /\ shell[s].pc = "writeKey" => file[shell[s].request.key] = Empty
    /\ \A s, t \in Shells : s # t =>
          /\ ~(shell[s].pc = "writeCAKey" /\ shell[t].pc = "writeCAKey")
          /\ ~(shell[s].pc = "writeCACert" /\ shell[t].pc = "writeCACert")
          /\ ~(/\ shell[s].pc = "writeKey" /\ shell[t].pc = "writeKey"
               /\ shell[s].request.key = shell[t].request.key)

\* A command that has read the CA finds it on disk until its end, although the
\* certificate may be emptied under it: no file of it is created again.
PastCA == {"openKey", "writeKey", "openCert", "writeCert", "readCert", "truncate"}

CAStands ==
    \A s \in Shells : shell[s].pc \in PastCA =>
        /\ Present("cacert") /\ Readable("cakey")
        /\ \A t \in Shells : shell[t].pc # "writeCACert"

KeyOnDisk(key) == key \in 1..generated /\ \E k \in KeyFiles : file[k] = key

\* None and Empty are no certificates: a file that holds one is neither absent
\* nor empty.
Distinct == \A d, i : [details |-> d, signature |-> i] \notin {None, Empty}

KeyOfCA(key) == key \in 1..generated /\ file["cakey"] = key

\* A command that is about to write the certificate of the CA, or of a node.
SignsCA(x)   == x.pc \in {"truncate", "writeCert"} /\ x.request.cert = "cacert"
SignsNode(x) == x.pc \in {"openCert", "truncate", "writeCert"} /\ ~SignsCA(x)

\* The key of a certificate is on disk before the certificate is.
KeyFirst ==
    /\ \A f \in Keys : file[f] \in {None, Empty} \cup (1..generated)
    /\ \A s \in Shells :
          /\ shell[s].pc \in {"openCACert", "writeCACert"} => file["cakey"] = shell[s].key
          /\ SignsNode(shell[s]) => KeyOnDisk(PublicKey(shell[s].cert))
          /\ SignsCA(shell[s]) => KeyOfCA(PublicKey(shell[s].cert))
    /\ Readable("cacert") => KeyOfCA(PublicKey(file["cacert"]))
    /\ \A f \in CertFiles : Readable(f) => KeyOnDisk(PublicKey(file[f]))

\* The inductive invariant.
KInv == Shaped /\ Routed /\ HoldsPair /\ WritesOwn /\ CAStands /\ KeyFirst

\* The files in default hold a certificate.
DefaultOnDisk ==
    \A f \in default : f \in Certs /\ Readable(f)

\* The bounded counters.
Bounds == clock \in 1..MaxClock /\ typed \in 0..MaxCommands /\ killed \in BOOLEAN

\* Unless a command was killed, whatever is half done has a command at it.
Attended ==
    /\ Present("cacert") => Present("cakey")
    /\ ~killed =>
         /\ Present("cakey") /\ ~Present("cacert") =>
               \E s \in Shells : shell[s].pc \in {"writeCAKey", "openCACert"}
         /\ file["cakey"] = Empty => \E s \in Shells : shell[s].pc = "writeCAKey"
         /\ file["cacert"] = Empty =>
               \E s \in Shells : \/ shell[s].pc = "writeCACert"
                                 \/ shell[s].pc = "writeCert" /\ shell[s].request.cert = "cacert"
         /\ \A k \in KeyFiles : file[k] = Empty =>
               \E s \in Shells : shell[s].pc = "writeKey" /\ shell[s].request.key = k
         /\ \A f \in CertFiles : file[f] = Empty =>
               \E s \in Shells : shell[s].pc = "writeCert" /\ shell[s].request.cert = f

-----------------------------------------------------------------------------
(* Certificates keep their public key.                                     *)

\* Signing a new certificate, marshalling and parsing keep the public key.
LEMMA KeyIsKept ==
    /\ \A l, from, to, key, by, ca :
          PublicKey(Sign(NewCertificate(l, from, to, key), by, ca)) = key
    /\ \A c : PublicKey(Marshal(c)) = PublicKey(c)
    /\ \A raw : PublicKey(Unmarshal(raw)) = PublicKey(raw)
<1>1. ASSUME NEW l, NEW from, NEW to, NEW key, NEW by, NEW ca
      PROVE  PublicKey(Sign(NewCertificate(l, from, to, key), by, ca)) = key
  BY DEF PublicKey, Sign, NewCertificate, WithIssuer, Details
<1>2. ASSUME NEW c PROVE PublicKey(Marshal(c)) = PublicKey(c)
  BY DEF PublicKey, Marshal, DetailsRaw, WithLabels, Details
<1>3. ASSUME NEW raw PROVE PublicKey(Unmarshal(raw)) = PublicKey(raw)
  BY DEF PublicKey, Unmarshal, WithLabels, Details
<1>4. QED
  BY <1>1, <1>2, <1>3

\* Re-signing moves the validity of a certificate, not its key.
LEMMA ReSignedKeepsKey ==
    ASSUME NEW raw, NEW r, NEW by, NEW ca
    PROVE  PublicKey(Sign(ReSigned(Unmarshal(raw), r), by, ca)) = PublicKey(raw)
<1> DEFINE c == Unmarshal(raw)
           d == ReSigned(c, r)
<1>1. PublicKey(c) = PublicKey(raw)
  BY KeyIsKept
<1>2. c = [details   |-> WithLabels(raw.details, ParsedLabels(raw.details.labels)),
           signature |-> raw.signature]
  BY DEF Unmarshal
<1>3. PublicKey(d) = PublicKey(c)
  <2> DEFINE old == c.details
  <2>1. DOMAIN c = {"details", "signature"}
    BY <1>2
  <2>2. DOMAIN old = {"labels", "notBefore", "notAfter", "publicKey", "isCA", "issuer"}
    BY <1>2 DEF WithLabels, Details
  <2> HIDE DEF c
  <2>3. PICK from, to, l :
           d = [c EXCEPT !.details.notBefore = from, !.details.notAfter = to,
                         !.details.labels = l]
    BY <2>1, <2>2 DEF ReSigned
  <2>4. d.details = [old EXCEPT !.notBefore = from, !.notAfter = to, !.labels = l]
    BY <2>1, <2>3
  <2> HIDE DEF d, old
  <2>5. d.details.publicKey = old.publicKey
    BY <2>2, <2>4
  <2>6. QED
    BY <2>5 DEF PublicKey, old
<1> HIDE DEF d
<1>4. PublicKey(Sign(d, by, ca)) = PublicKey(d)
  BY DEF PublicKey, Sign, WithIssuer, Details
<1>5. QED
  BY <1>1, <1>3, <1>4 DEF d

-----------------------------------------------------------------------------
(* What a step does to a shell.                                            *)

\* The fields of a command.
LEMMA Fields ==
    ASSUME NEW pc, NEW r, NEW key, NEW cert, NEW cakey, NEW cacert
    PROVE  LET c == Command(pc, r, key, cert, cakey, cacert)
           IN  /\ c.pc = pc /\ c.request = r /\ c.key = key /\ c.cert = cert
               /\ c.cakey = cakey /\ c.cacert = cacert /\ c = Field(c)
  BY DEF Command, Field

Becomes(s, x) ==
    /\ DOMAIN shell' = Shells /\ shell' = [t \in Shells |-> shell'[t]]
    /\ shell'[s] = x
    /\ \A t \in Shells \ {s} : shell'[t] = shell[t]

\* An assignment to the state of one shell.
LEMMA Assigns ==
    ASSUME Shaped, NEW s \in Shells, NEW x, shell' = [shell EXCEPT ![s] = x]
    PROVE  Becomes(s, x)
  BY DEF Shaped, Becomes

\* The command of s at another step.
At(s, pc) == Command(pc, shell[s].request, shell[s].key, shell[s].cert,
                     shell[s].cakey, shell[s].cacert)

\* Goto changes the step of a command and nothing else of it.
LEMMA GotoIs ==
    ASSUME Shaped, NEW s \in Shells, shell[s].pc # "idle", NEW pc, Goto(s, pc)
    PROVE  Becomes(s, At(s, pc))
<1>1. shell[s] = Field(shell[s])
  BY DEF Shaped, Idle
<1>2. [shell[s] EXCEPT !.pc = pc] = At(s, pc)
  BY <1>1 DEF Field, Command, At
<1>3. shell' = [shell EXCEPT ![s] = [shell[s] EXCEPT !.pc = pc]]
  BY <1>1 DEF Goto, Shaped
<1>4. QED
  BY <1>2, <1>3, Assigns

\* Return leaves the shell idle.
LEMMA ReturnIs ==
    ASSUME Shaped, NEW s \in Shells, Return(s)
    PROVE  Becomes(s, Idle)
  BY Assigns DEF Return

\* A command keeps the key of the CA that it has read.
LEMMA KeepsCAKey ==
    ASSUME Shaped, NEW s \in Shells, shell[s] = Field(shell[s]), NEW v,
           shell' = [shell EXCEPT ![s].pc = "readCACert", ![s].cakey = v]
    PROVE  shell' = [shell EXCEPT ![s] =
                       Command("readCACert", shell[s].request, shell[s].key, shell[s].cert,
                               v, shell[s].cacert)]
<1>1. shell' = [shell EXCEPT ![s] = [shell[s] EXCEPT !.pc = "readCACert", !.cakey = v]]
  <2>1. /\ DOMAIN shell = Shells /\ shell = [t \in Shells |-> shell[t]]
        /\ shell' = [shell EXCEPT ![s].pc = "readCACert", ![s].cakey = v]
    BY DEF Shaped
  <2>2. QED
    BY ONLY <2>1, s \in Shells
<1>2. [shell[s] EXCEPT !.pc = "readCACert", !.cakey = v]
        = Command("readCACert", shell[s].request, shell[s].key, shell[s].cert,
                  v, shell[s].cacert)
  <2>1. PICK p, r, k, c, ck, cc : shell[s] = Command(p, r, k, c, ck, cc)
    BY DEF Field
  <2>2. /\ shell[s].request = r /\ shell[s].key = k /\ shell[s].cert = c
        /\ shell[s].cakey = ck /\ shell[s].cacert = cc
    BY <2>1, Fields
  <2>3. [shell[s] EXCEPT !.pc = "readCACert"] = Command("readCACert", r, k, c, ck, cc)
    BY <2>1 DEF Command
  <2>4. [Command("readCACert", r, k, c, ck, cc) EXCEPT !.cakey = v]
          = Command("readCACert", r, k, c, v, cc)
    BY DEF Command
  <2>5. QED
    BY <2>2, <2>3, <2>4
<1>3. QED
  BY <1>1, <1>2

\* A command keeps the certificate of the CA that it has read.
LEMMA KeepsCACert ==
    ASSUME Shaped, NEW s \in Shells, shell[s] = Field(shell[s]), NEW v,
           shell' = [shell EXCEPT ![s].pc = "readCert", ![s].cacert = v]
    PROVE  shell' = [shell EXCEPT ![s] =
                       Command("readCert", shell[s].request, shell[s].key, shell[s].cert,
                               shell[s].cakey, v)]
<1>1. shell' = [shell EXCEPT ![s] = [shell[s] EXCEPT !.pc = "readCert", !.cacert = v]]
  <2>1. /\ DOMAIN shell = Shells /\ shell = [t \in Shells |-> shell[t]]
        /\ shell' = [shell EXCEPT ![s].pc = "readCert", ![s].cacert = v]
    BY DEF Shaped
  <2>2. QED
    BY ONLY <2>1, s \in Shells
<1>2. [shell[s] EXCEPT !.pc = "readCert", !.cacert = v]
        = Command("readCert", shell[s].request, shell[s].key, shell[s].cert,
                  shell[s].cakey, v)
  <2>1. PICK p, r, k, c, ck, cc : shell[s] = Command(p, r, k, c, ck, cc)
    BY DEF Field
  <2>2. /\ shell[s].request = r /\ shell[s].key = k /\ shell[s].cert = c
        /\ shell[s].cakey = ck /\ shell[s].cacert = cc
    BY <2>1, Fields
  <2>3. [shell[s] EXCEPT !.pc = "readCert"] = Command("readCert", r, k, c, ck, cc)
    BY <2>1 DEF Command
  <2>4. [Command("readCert", r, k, c, ck, cc) EXCEPT !.cacert = v]
          = Command("readCert", r, k, c, ck, v)
    BY DEF Command
  <2>5. QED
    BY <2>2, <2>3, <2>4
<1>3. QED
  BY <1>1, <1>2

\* A command keeps a certificate that it has read.
LEMMA KeepsCert ==
    ASSUME Shaped, NEW s \in Shells, shell[s] = Field(shell[s]), NEW v,
           shell' = [shell EXCEPT ![s].pc = "truncate", ![s].cert = v]
    PROVE  shell' = [shell EXCEPT ![s] =
                       Command("truncate", shell[s].request, shell[s].key, v,
                               shell[s].cakey, shell[s].cacert)]
<1>1. shell' = [shell EXCEPT ![s] = [shell[s] EXCEPT !.pc = "truncate", !.cert = v]]
  <2>1. /\ DOMAIN shell = Shells /\ shell = [t \in Shells |-> shell[t]]
        /\ shell' = [shell EXCEPT ![s].pc = "truncate", ![s].cert = v]
    BY DEF Shaped
  <2>2. QED
    BY ONLY <2>1, s \in Shells
<1>2. [shell[s] EXCEPT !.pc = "truncate", !.cert = v]
        = Command("truncate", shell[s].request, shell[s].key, v,
                  shell[s].cakey, shell[s].cacert)
  <2>1. PICK p, r, k, c, ck, cc : shell[s] = Command(p, r, k, c, ck, cc)
    BY DEF Field
  <2>2. /\ shell[s].request = r /\ shell[s].key = k /\ shell[s].cert = c
        /\ shell[s].cakey = ck /\ shell[s].cacert = cc
    BY <2>1, Fields
  <2>3. [shell[s] EXCEPT !.pc = "truncate"] = Command("truncate", r, k, c, ck, cc)
    BY <2>1 DEF Command
  <2>4. [Command("truncate", r, k, c, ck, cc) EXCEPT !.cert = v]
          = Command("truncate", r, k, v, ck, cc)
    BY DEF Command
  <2>5. QED
    BY <2>2, <2>3, <2>4
<1>3. QED
  BY <1>1, <1>2

-----------------------------------------------------------------------------
(* The kinds of steps.                                                     *)

Others(s) == \A t \in Shells \ {s} : shell'[t] = shell[t]

Kept(s) ==
    /\ shell'[s].request = shell[s].request
    /\ shell'[s].key = shell[s].key
    /\ shell'[s].cert = shell[s].cert

ReadSteps == {"idle", "statKey", "statCert", "readCAKey", "readCACert", "readCert"}

\* The steps between the creation of a file and its writing; only a kill ends a
\* command at one of them.
WriteSteps == {"writeCAKey", "writeCACert", "writeKey", "writeCert"}

LeavesNothing(s) ==
    \/ killed' = TRUE
    \/ /\ killed' = killed
       /\ shell[s].pc \notin WriteSteps
       /\ shell[s].pc = "openCACert" => Present("cacert")

\* A command starts, ends, or reads.
Passive(s) ==
    /\ LeavesNothing(s)
    /\ UNCHANGED <<file, generated, default>>
    /\ shell'[s].pc \in ReadSteps
    /\ shell'[s].pc = "readCert" => Readable("cacert")
    /\ shell'[s].pc # "idle" => KeyOK(s)'

\* A key pair and its certificate are made.
Fresh(s) ==
    /\ LeavesNothing(s)
    /\ UNCHANGED <<file, default>>
    /\ generated' = generated + 1
    /\ shell'[s].pc \in {"openCAKey", "openKey"}
    /\ shell'[s].pc = "openKey" => Readable("cacert")
    /\ shell'[s].key = generated'
    /\ PublicKey(shell'[s].cert) = generated'

\* The certificate that was read is signed again.
Resigns(s) ==
    /\ LeavesNothing(s)
    /\ UNCHANGED <<file, generated, default>>
    /\ shell[s].pc = "readCert" /\ shell'[s].pc = "truncate"
    /\ KeyOK(s)'
    /\ IF SignsCA(shell'[s]) THEN KeyOfCA(PublicKey(shell'[s].cert))
                             ELSE KeyOnDisk(PublicKey(shell'[s].cert))

\* A file is created.
Creates(s, f, from, to) ==
    /\ shell[s].pc = from /\ shell'[s].pc = to /\ Kept(s)
    /\ file[f] = None
    /\ file' = [file EXCEPT ![f] = Empty]
    /\ UNCHANGED <<generated, killed, default>>

\* A private key is written.
WritesKey(s, f, from, to) ==
    /\ shell[s].pc = from /\ shell'[s].pc = to /\ Kept(s)
    /\ file' = [file EXCEPT ![f] = shell[s].key]
    /\ UNCHANGED <<generated, killed, default>>

\* A certificate is written.
WritesCert(s, f, from, to) ==
    /\ shell[s].pc = from
    /\ shell'[s].pc \in {to, "idle"}
    /\ shell'[s].pc # "idle" => Kept(s)
    /\ file' = [file EXCEPT ![f] = Marshal(shell[s].cert)]
    /\ default' = IF OnlyDefaults(s, f) THEN default \cup {f} ELSE Without(f)
    /\ UNCHANGED <<generated, killed>>

\* A certificate is emptied before it is written again.
Truncates(s) ==
    /\ shell[s].pc = "truncate" /\ shell'[s].pc = "writeCert" /\ Kept(s)
    /\ file' = [file EXCEPT ![shell[s].request.cert] = Empty]
    /\ default' = Without(shell[s].request.cert)
    /\ UNCHANGED <<generated, killed>>

Kind(s) ==
    \/ Passive(s) \/ Fresh(s) \/ Resigns(s) \/ Truncates(s)
    \/ Creates(s, "cakey", "openCAKey", "writeCAKey")
    \/ Creates(s, "cacert", "openCACert", "writeCACert")
    \/ Creates(s, shell[s].request.key, "openKey", "writeKey")
    \/ Creates(s, shell[s].request.cert, "openCert", "writeCert")
    \/ WritesKey(s, "cakey", "writeCAKey", "openCACert")
    \/ WritesKey(s, shell[s].request.key, "writeKey", "openCert")
    \/ WritesCert(s, "cacert", "writeCACert", "readCAKey")
    \/ WritesCert(s, shell[s].request.cert, "writeCert", "idle")

Effect(s) == Shaped' /\ Routed' /\ Others(s) /\ Kind(s)

\* Shape and route of a shell that changes.
LEMMA ShapedBy ==
    ASSUME Shaped, Routed, NEW s \in Shells, NEW x, Becomes(s, x),
           x = Idle \/ (x.pc # "idle" /\ x = Field(x) /\ RoutedCommand(x)),
           generated' \in Nat,
           file' = file \/ \E f \in Files : \E v : file' = [file EXCEPT ![f] = v]
    PROVE  Shaped' /\ Routed' /\ Others(s) /\ shell'[s] = x
<1>1. DOMAIN file' = Files /\ file' = [f \in Files |-> file'[f]]
  BY DEF Shaped
<1>2. Idle.pc = "idle"
  BY DEF Idle
<1>3. \A t \in Shells : \/ shell'[t] = Idle
                        \/ shell'[t].pc # "idle" /\ shell'[t] = Field(shell'[t])
  BY DEF Shaped, Becomes
<1>4. \A t \in Shells : shell'[t].pc # "idle" => RoutedCommand(shell'[t])
  BY <1>2 DEF Routed, Becomes
<1>5. Shaped'
  BY <1>1, <1>3 DEF Shaped, Becomes
<1>6. Routed'
  BY <1>4 DEF Routed, RoutedCommand, Directed
<1>7. QED
  BY <1>5, <1>6 DEF Others, Becomes

\* The command of s, moved on to another step by Goto.
LEMMA GotoEffect ==
    ASSUME Shaped, Routed, NEW s \in Shells, shell[s].pc # "idle",
           NEW pc, pc \notin {"idle", "readCACert", "readCert"}, Goto(s, pc),
           shell[s].request.op = "generate-ca" => pc \in CASteps,
           Directed(shell[s].request, pc), generated' \in Nat,
           file' = file \/ \E f \in Files : \E v : file' = [file EXCEPT ![f] = v]
    PROVE  Shaped' /\ Routed' /\ Others(s) /\ Kept(s) /\ shell'[s].pc = pc
<1>1. Becomes(s, At(s, pc))
  BY GotoIs
<1>2. /\ At(s, pc).pc = pc /\ At(s, pc) = Field(At(s, pc))
      /\ At(s, pc).request = shell[s].request
      /\ At(s, pc).key = shell[s].key /\ At(s, pc).cert = shell[s].cert
  BY Fields DEF At
<1>3. RoutedCommand(At(s, pc))
  BY <1>2 DEF Routed, RoutedCommand
<1>4. QED
  BY <1>1, <1>2, <1>3, ShapedBy DEF Kept

\* The end of a command.
LEMMA ReturnEffect ==
    ASSUME Shaped, Routed, NEW s \in Shells, Return(s), generated' \in Nat,
           file' = file \/ \E f \in Files : \E v : file' = [file EXCEPT ![f] = v]
    PROVE  Shaped' /\ Routed' /\ Others(s) /\ shell'[s].pc = "idle"
<1>1. Becomes(s, Idle)
  BY ReturnIs
<1>2. QED
  BY <1>1, ShapedBy DEF Idle

\* os.OpenFile with O_EXCL.
LEMMA OpenEffect ==
    ASSUME KInv, NEW s \in Shells, NEW f \in Files, NEW from, NEW to,
           from \notin WriteSteps \cup {"idle"},
           from = "openCACert" => f = "cacert",
           to \notin {"idle", "readCACert", "readCert"},
           shell[s].pc = from, OpenExcl(s, f, to),
           shell[s].request.op = "generate-ca" => to \in CASteps,
           ~Present(f) => Directed(shell[s].request, to)
    PROVE  Shaped' /\ Routed' /\ Others(s) /\ (Passive(s) \/ Creates(s, f, from, to))
<1>1. Shaped /\ Routed /\ generated' = generated /\ generated' \in Nat
  BY DEF KInv, Shaped, OpenExcl
<1>2. CASE ~Present(f)
  BY <1>1, <1>2, GotoEffect DEF OpenExcl, Present, Creates
<1>3. CASE Present(f)
  BY <1>1, <1>3, ReturnEffect DEF OpenExcl, Passive, ReadSteps, LeavesNothing
<1>4. QED
  BY <1>2, <1>3

\* The writing of a key.
LEMMA WriteKeyEffect ==
    ASSUME KInv, NEW s \in Shells, NEW f \in Files, NEW from, NEW to,
           from # "idle", to \notin {"idle", "readCACert", "readCert"},
           shell[s].pc = from, WriteKeyTo(s, f, to),
           shell[s].request.op = "generate-ca" => to \in CASteps,
           Directed(shell[s].request, to)
    PROVE  Shaped' /\ Routed' /\ Others(s) /\ WritesKey(s, f, from, to)
<1>1. Shaped /\ Routed /\ generated' = generated /\ generated' \in Nat
  BY DEF KInv, Shaped, WriteKeyTo
<1>2. QED
  BY <1>1, GotoEffect DEF WriteKeyTo, WritesKey

\* A new key pair and the command that holds it.
LEMMA FreshEffect ==
    ASSUME KInv, NEW s \in Shells, NEW pc \in {"openCAKey", "openKey"}, NEW r,
           NEW cert, shell' = [shell EXCEPT ![s] =
                                 Command(pc, r, generated + 1, cert, None, None)],
           PublicKey(cert) = generated + 1, generated' = generated + 1,
           UNCHANGED <<file, default>>, LeavesNothing(s),
           pc = "openKey" => Readable("cacert"),
           RoutedCommand(Command(pc, r, generated + 1, cert, None, None))
    PROVE  Shaped' /\ Routed' /\ Others(s) /\ Fresh(s)
<1> DEFINE x == Command(pc, r, generated + 1, cert, None, None)
<1>1. x.pc = pc /\ x.key = generated + 1 /\ x.cert = cert /\ x = Field(x)
  BY Fields
<1>2. Shaped /\ Routed /\ generated' \in Nat
  BY DEF KInv, Shaped
<1> HIDE DEF x
<1>3. Becomes(s, x)
  BY <1>2, Assigns DEF x
<1>4. pc # "idle" /\ RoutedCommand(x)
  BY DEF x
<1>5. Shaped' /\ Routed' /\ Others(s) /\ shell'[s] = x
  BY <1>1, <1>2, <1>3, <1>4, ShapedBy
<1>6. QED
  BY <1>1, <1>5 DEF Fresh

-----------------------------------------------------------------------------
(* Every step is of one of the kinds.                                      *)

\* The start of a command.
LEMMA StartIs ==
    ASSUME KInv, NEW s \in Shells, NEW r \in Requests, Start(s, r)
    PROVE  Effect(s)
<1> DEFINE labels == [i \in DOMAIN r.labels |-> UnmarshalText(r.labels[i])]
           q      == [r EXCEPT !.labels = labels]
<1>1. q.op = r.op /\ q.key = r.key /\ q.cert = r.cert
  BY RequestAssumption
<1>2. Shaped /\ Routed /\ generated \in Nat
  BY DEF KInv, Shaped
<1> HIDE DEF q, labels
<1>3. \A pc \in {"openCAKey", "statKey", "readCAKey"} : \A key, cert :
         pc \in CASteps \/ r.op # "generate-ca"
         => RoutedCommand(Command(pc, q, key, cert, None, None))
  <2>1. /\ r.op \in {"generate", "generate-ca", "re-sign"}
        /\ r.key \in Files /\ r.cert \in Files
        /\ r.op = "generate" => /\ r.key \in KeyFiles \cup CAFiles
                                /\ r.cert \in CertFiles \cup CAFiles
    BY RequestAssumption
  <2>2. QED
    BY <1>1, <2>1, Fields DEF RoutedCommand, Directed
<1>4. LeavesNothing(s) /\ UNCHANGED <<file, default>>
  BY DEF Start, LeavesNothing, WriteSteps, Idle
<1>5. CASE r.op = "generate-ca"
  <2> DEFINE key  == generated + 1
  <2>1. PICK duration :
           GenerateCA(s, q, duration, labels)
    BY <1>5 DEF Start, q, labels
  <2> DEFINE cert == Sign(NewCertificate(labels, clock, clock + duration, key), key, None)
  <2>2. /\ shell' = [shell EXCEPT ![s] = Command("openCAKey", q, key, cert, None, None)]
        /\ generated' = key
    BY <2>1 DEF GenerateCA
  <2>3. PublicKey(cert) = key
    BY KeyIsKept
  <2> HIDE DEF cert
  <2>4. RoutedCommand(Command("openCAKey", q, key, cert, None, None))
    BY <1>3 DEF CASteps
  <2>5. QED
    BY <1>4, <2>2, <2>3, <2>4, FreshEffect DEF Effect, Kind
<1>6. CASE r.op \in {"generate", "re-sign"}
  <2>1. PICK pc \in {"statKey", "readCAKey"} :
           shell' = [shell EXCEPT ![s] = Command(pc, q, None, None, None, None)]
    BY <1>6 DEF Start, q, labels
  <2>2. UNCHANGED <<file, generated>>
    BY <1>6 DEF Start
  <2> DEFINE x == Command(pc, q, None, None, None, None)
  <2>3. x.pc = pc /\ x.key = None /\ x.cert = None /\ x = Field(x) /\ RoutedCommand(x)
    BY <1>3, <1>6, Fields
  <2> HIDE DEF x
  <2>4. Becomes(s, x)
    BY <1>2, <2>1, Assigns DEF x
  <2>5. Shaped' /\ Routed' /\ Others(s) /\ shell'[s] = x
    BY <1>2, <2>1, <2>2, <2>3, <2>4, ShapedBy
  <2>6. QED
    BY <1>4, <2>1, <2>2, <2>3, <2>5 DEF Effect, Kind, Passive, ReadSteps, KeyOK
<1>7. QED
  BY <1>5, <1>6, RequestAssumption

\* The steps that look at the CA, and read it.
LEMMA ReadIs ==
    ASSUME KInv, NEW s \in Shells,
           StatCAKey(s) \/ StatCACert(s) \/ ReadCAKey(s) \/ ReadCACert(s)
    PROVE  Effect(s)
<1>1. LeavesNothing(s) /\ UNCHANGED <<file, default>>
  BY DEF StatCAKey, StatCACert, ReadCAKey, ReadCACert, LeavesNothing, WriteSteps
<1>2. /\ shell[s].pc # "idle" /\ shell[s] = Field(shell[s])
      /\ shell[s].pc \notin CASteps
  BY DEF KInv, Shaped, Idle, StatCAKey, StatCACert, ReadCAKey, ReadCACert, CASteps
<1>3. /\ Shaped /\ Routed /\ generated \in Nat /\ KeyOK(s)
      /\ shell[s].request.op \in {"generate", "re-sign"}
      /\ RoutedCommand(shell[s])
  BY <1>2 DEF KInv, Shaped, Routed, RoutedCommand, HoldsPair, KeyOK
<1>4. ASSUME NEW pc \in {"statCert", "readCAKey"}, Goto(s, pc), UNCHANGED generated
      PROVE  Effect(s)
  <2>1. Shaped' /\ Routed' /\ Others(s) /\ Kept(s) /\ shell'[s].pc = pc
    BY <1>1, <1>2, <1>3, <1>4, GotoEffect DEF Directed
  <2>2. QED
    BY <1>1, <1>3, <1>4, <2>1 DEF Effect, Kind, Passive, Kept, KeyOK, ReadSteps
<1>5. ASSUME Return(s), UNCHANGED generated PROVE Effect(s)
  BY <1>1, <1>3, <1>5, ReturnEffect DEF Effect, Kind, Passive, ReadSteps
<1>6. ASSUME NEW x, Becomes(s, x), x.pc \in ReadSteps \ {"idle"}, x = Field(x),
             x.request = shell[s].request, x.key = shell[s].key, x.cert = shell[s].cert,
             x.cakey # None, x.pc = "readCert" => IsCertificate(x.cacert),
             x.pc = "readCert" => shell[s].request.op = "re-sign" /\ Readable("cacert"),
             UNCHANGED generated
      PROVE  Effect(s)
  <2>1. RoutedCommand(x)
    BY <1>3, <1>6 DEF RoutedCommand, Directed, ReadSteps
  <2>2. Shaped' /\ Routed' /\ Others(s) /\ shell'[s] = x
    BY <1>1, <1>3, <1>6, <2>1, ShapedBy
  <2>3. QED
    BY <1>1, <1>3, <1>6, <2>2 DEF Effect, Kind, Passive, KeyOK
<1>7. ASSUME NEW pc \in {"openCAKey", "openKey"}, NEW cert,
             shell' = [shell EXCEPT ![s] =
                         Command(pc, shell[s].request, generated + 1, cert, None, None)],
             PublicKey(cert) = generated + 1, generated' = generated + 1,
             pc = "openKey" => shell[s].request.op = "generate" /\ Readable("cacert")
      PROVE  Effect(s)
  <2>1. RoutedCommand(Command(pc, shell[s].request, generated + 1, cert, None, None))
    BY <1>3, <1>7, Fields DEF RoutedCommand, Directed
  <2>2. QED
    BY <1>1, <1>7, <2>1, FreshEffect DEF Effect, Kind
<1>8. CASE StatCAKey(s)
  BY <1>4, <1>8 DEF StatCAKey
<1>9. CASE StatCACert(s)
  <2>1. CASE Present("cacert")
    BY <1>4, <1>9, <2>1 DEF StatCACert
  <2>2. CASE ~Present("cacert")
    <3> DEFINE r == shell[s].request
    <3>1. GenerateCA(s, r, DefaultCADuration(r), <<>>) /\ UNCHANGED file
      BY <1>9, <2>2 DEF StatCACert
    <3> DEFINE key  == generated + 1
               cert == Sign(NewCertificate(<<>>, clock,
                                           clock + DefaultCADuration(r), key),
                            key, None)
    <3>2. /\ shell' = [shell EXCEPT ![s] = Command("openCAKey", r, key, cert, None, None)]
          /\ generated' = key
      BY <3>1 DEF GenerateCA
    <3>3. PublicKey(cert) = key
      BY KeyIsKept
    <3> HIDE DEF cert
    <3>4. QED
      BY <1>7, <3>1, <3>2, <3>3
  <2>3. QED
    BY <2>1, <2>2
<1>10. CASE ReadCAKey(s)
  <2>1. CASE Readable("cakey")
    <3>1. /\ shell' = [shell EXCEPT ![s].pc = "readCACert", ![s].cakey = file["cakey"]]
          /\ UNCHANGED <<file, generated>>
      BY <1>10, <2>1 DEF ReadCAKey
    <3> DEFINE x == Command("readCACert", shell[s].request, shell[s].key,
                            shell[s].cert, file["cakey"], shell[s].cacert)
    <3>2. shell' = [shell EXCEPT ![s] = x]
      BY <1>2, <1>3, <3>1, KeepsCAKey
    <3>3. /\ x.pc = "readCACert" /\ x = Field(x)
          /\ x.request = shell[s].request /\ x.key = shell[s].key /\ x.cert = shell[s].cert
          /\ x.cakey = file["cakey"]
      BY Fields
    <3> HIDE DEF x
    <3>4. Becomes(s, x)
      BY <1>3, <3>2, Assigns
    <3>5. x.pc \in ReadSteps \ {"idle"}
      BY <3>3 DEF ReadSteps
    <3>6. QED
      BY <1>6, <2>1, <3>1, <3>3, <3>4, <3>5 DEF Readable
  <2>2. CASE ~Readable("cakey")
    BY <1>5, <1>10, <2>2 DEF ReadCAKey
  <2>3. QED
    BY <2>1, <2>2
<1>11. CASE ReadCACert(s)
  <2> DEFINE r  == shell[s].request
             ca == Unmarshal(file["cacert"])
  <2>1. CASE Return(s) /\ UNCHANGED generated
    BY <1>5, <1>11, <2>1 DEF ReadCACert
  <2>2. CASE Readable("cacert") /\ r.op = "generate"
    <3> DEFINE key  == generated + 1
               cert == Sign(NewCertificate(r.labels, clock, NotAfter(r, ca), key),
                            shell[s].cakey, ca)
    <3>1. /\ shell' = [shell EXCEPT ![s] = Command("openKey", r, key, cert, None, None)]
          /\ generated' = key /\ UNCHANGED file
      BY <1>11, <2>2 DEF ReadCACert
    <3>2. PublicKey(cert) = key
      BY KeyIsKept
    <3> HIDE DEF cert
    <3>3. QED
      BY <1>7, <2>2, <3>1, <3>2
  <2>3. CASE Readable("cacert") /\ r.op = "re-sign"
    <3>1. IsCertificate(ca)
      BY DEF IsCertificate, Unmarshal
    <3>2. PICK v : /\ shell' = [shell EXCEPT ![s].pc = "readCert", ![s].cacert = v]
                   /\ UNCHANGED <<file, generated>> /\ IsCertificate(v)
      BY <1>11, <2>3, <3>1 DEF ReadCACert
    <3>3. shell[s].cakey # None
      BY <1>2, <1>3, <1>11 DEF ReadCACert, Routed, RoutedCommand
    <3> DEFINE x == Command("readCert", shell[s].request, shell[s].key, shell[s].cert,
                            shell[s].cakey, v)
    <3>4. shell' = [shell EXCEPT ![s] = x]
      BY <1>2, <1>3, <3>2, KeepsCACert
    <3>5. /\ x.pc = "readCert" /\ x = Field(x)
          /\ x.request = shell[s].request /\ x.key = shell[s].key /\ x.cert = shell[s].cert
          /\ x.cakey = shell[s].cakey /\ x.cacert = v
      BY Fields
    <3> HIDE DEF x
    <3>6. Becomes(s, x)
      BY <1>3, <3>4, Assigns
    <3>7. x.pc \in ReadSteps \ {"idle"}
      BY <3>5 DEF ReadSteps
    <3>8. QED
      BY <1>6, <2>3, <3>2, <3>3, <3>5, <3>6, <3>7
  <2>4. QED
    BY <1>11, <2>1, <2>2, <2>3 DEF ReadCACert
<1>12. QED
  BY <1>8, <1>9, <1>10, <1>11

\* The steps that create a file, or write a key to it.
LEMMA CreateIs ==
    ASSUME KInv, NEW s \in Shells,
           \/ OpenCAKey(s) \/ OpenCACert(s) \/ OpenKey(s) \/ OpenCert(s)
           \/ WriteCAKey(s) \/ WriteKey(s)
    PROVE  Effect(s)
<1>1. /\ "cakey" \in Files /\ "cacert" \in Files
      /\ KeyFiles \subseteq Files /\ CertFiles \subseteq Files
  BY DEF Files, CAFiles
<1>2. shell[s].pc # "idle" => RoutedCommand(shell[s])
  BY DEF KInv, Routed
<1>0. \A r, pc : pc \in CASteps => Directed(r, pc)
  BY DEF Directed, CASteps
<1>3. CASE OpenCAKey(s)
  BY <1>0, <1>1, <1>3, OpenEffect DEF OpenCAKey, Effect, Kind, WriteSteps, CASteps
<1>4. CASE OpenCACert(s)
  BY <1>0, <1>1, <1>4, OpenEffect DEF OpenCACert, Effect, Kind, WriteSteps, CASteps
<1>5. CASE OpenKey(s)
  <2> DEFINE f == shell[s].request.key
  <2>1. shell[s].request.op = "generate" /\ f \in Files /\ f \in KeyFiles \cup CAFiles
    BY <1>2, <1>5 DEF OpenKey, RoutedCommand, Directed
  <2>2. ~Present(f) => Directed(shell[s].request, "writeKey")
    <3>1. Present("cakey") /\ Present("cacert")
      BY <1>5 DEF OpenKey, KInv, CAStands, PastCA, Readable, Present
    <3>2. QED
      BY <2>1, <3>1 DEF Directed, CAFiles
  <2>3. QED
    BY <1>5, <2>1, <2>2, OpenEffect DEF OpenKey, Effect, Kind, WriteSteps
<1>6. CASE OpenCert(s)
  <2> DEFINE f == shell[s].request.cert
  <2>1. shell[s].request.op = "generate" /\ f \in Files /\ f \in CertFiles \cup CAFiles
    BY <1>2, <1>6 DEF OpenCert, RoutedCommand, Directed
  <2>2. ~Present(f) => Directed(shell[s].request, "writeCert")
    <3>1. Present("cakey") /\ Present("cacert")
      BY <1>6 DEF OpenCert, KInv, CAStands, PastCA, Readable, Present
    <3>2. QED
      BY <2>1, <3>1 DEF Directed, CAFiles
  <2>3. QED
    BY <1>6, <2>1, <2>2, OpenEffect DEF OpenCert, Effect, Kind, WriteSteps
<1>7. CASE WriteCAKey(s)
  BY <1>0, <1>1, <1>7, WriteKeyEffect DEF WriteCAKey, Effect, Kind, CASteps
<1>8. CASE WriteKey(s)
  <2>1. /\ shell[s].request.op = "generate" /\ shell[s].request.key \in Files
        /\ Directed(shell[s].request, "openCert")
    BY <1>1, <1>2, <1>8 DEF WriteKey, RoutedCommand, Directed
  <2>2. QED
    BY <1>8, <2>1, WriteKeyEffect DEF WriteKey, Effect, Kind
<1>9. QED
  BY <1>3, <1>4, <1>5, <1>6, <1>7, <1>8

\* The steps that write a certificate, or empty its file.
LEMMA WriteIs ==
    ASSUME KInv, NEW s \in Shells, WriteCACert(s) \/ WriteCert(s) \/ Truncate(s)
    PROVE  Effect(s)
<1>1. /\ "cacert" \in Files /\ CertFiles \subseteq Files
      /\ Shaped /\ Routed /\ generated \in Nat
  BY DEF Files, CAFiles, KInv, Shaped
<1>2. shell[s].pc # "idle" => RoutedCommand(shell[s])
  BY DEF KInv, Routed
<1>3. ASSUME NEW f, WriteCertTo(s, f)
      PROVE  /\ file' = [file EXCEPT ![f] = Marshal(shell[s].cert)]
             /\ default' = IF OnlyDefaults(s, f) THEN default \cup {f} ELSE Without(f)
             /\ generated' = generated /\ killed' = killed
  BY <1>3 DEF WriteCertTo
<1>4. CASE WriteCACert(s)
  <2>1. /\ shell[s].pc = "writeCACert"
        /\ file' = [file EXCEPT !["cacert"] = Marshal(shell[s].cert)]
        /\ default' = IF OnlyDefaults(s, "cacert") THEN default \cup {"cacert"}
                                                   ELSE Without("cacert")
        /\ generated' = generated /\ killed' = killed
    BY <1>3, <1>4 DEF WriteCACert
  <2>2. CASE shell[s].request.op = "generate"
    <3>1. Goto(s, "readCAKey")
      BY <1>4, <2>2 DEF WriteCACert
    <3>2. Shaped' /\ Routed' /\ Others(s) /\ Kept(s) /\ shell'[s].pc = "readCAKey"
      BY <1>1, <2>1, <2>2, <3>1, GotoEffect DEF Directed
    <3>3. WritesCert(s, "cacert", "writeCACert", "readCAKey")
      BY <2>1, <3>2 DEF WritesCert
    <3>4. QED
      BY <3>2, <3>3 DEF Effect, Kind
  <2>3. CASE shell[s].request.op # "generate"
    <3>1. Return(s)
      BY <1>4, <2>3 DEF WriteCACert
    <3>2. Shaped' /\ Routed' /\ Others(s) /\ shell'[s].pc = "idle"
      BY <1>1, <2>1, <3>1, ReturnEffect
    <3>3. WritesCert(s, "cacert", "writeCACert", "readCAKey")
      BY <2>1, <3>2 DEF WritesCert
    <3>4. QED
      BY <3>2, <3>3 DEF Effect, Kind
  <2>4. QED
    BY <2>2, <2>3
<1>5. CASE WriteCert(s)
  <2> DEFINE f == shell[s].request.cert
  <2>1. /\ shell[s].pc = "writeCert" /\ f \in Files
        /\ file' = [file EXCEPT ![f] = Marshal(shell[s].cert)]
        /\ default' = IF OnlyDefaults(s, f) THEN default \cup {f} ELSE Without(f)
        /\ generated' = generated /\ killed' = killed /\ Return(s)
    BY <1>1, <1>2, <1>3, <1>5 DEF WriteCert, RoutedCommand, CASteps
  <2>2. Shaped' /\ Routed' /\ Others(s) /\ shell'[s].pc = "idle"
    BY <1>1, <2>1, ReturnEffect
  <2>3. WritesCert(s, f, "writeCert", "idle")
    BY <2>1, <2>2 DEF WritesCert
  <2>4. QED
    BY <2>2, <2>3 DEF Effect, Kind
<1>6. CASE Truncate(s)
  <2>1. /\ shell[s].pc = "truncate"
        /\ shell[s].request.cert \in Files /\ shell[s].request.op # "generate-ca"
        /\ Directed(shell[s].request, "writeCert")
    BY <1>1, <1>2, <1>6 DEF Truncate, RoutedCommand, Directed
  <2>2. Shaped' /\ Routed' /\ Others(s) /\ Kept(s) /\ shell'[s].pc = "writeCert"
    BY <1>1, <1>6, <2>1, GotoEffect DEF Truncate
  <2>3. Truncates(s)
    BY <1>6, <2>2 DEF Truncate, Truncates
  <2>4. QED
    BY <2>2, <2>3 DEF Effect, Kind
<1>7. QED
  BY <1>4, <1>5, <1>6

\* re-sign reads the certificate.
LEMMA ReadCertIs ==
    ASSUME KInv, NEW s \in Shells, ReadCert(s)
    PROVE  Effect(s)
<1> DEFINE r == shell[s].request
<1>1. Shaped /\ Routed /\ generated \in Nat
  BY DEF KInv, Shaped
<1>2. /\ shell[s].pc = "readCert" /\ UNCHANGED <<file, generated, killed, default>>
      /\ LeavesNothing(s)
  BY DEF ReadCert, LeavesNothing, WriteSteps
<1>3. /\ shell[s] = Field(shell[s]) /\ KeyOK(s)
      /\ r.op = "re-sign" /\ RoutedCommand(shell[s])
  BY <1>2 DEF KInv, Shaped, Idle, Routed, RoutedCommand, Directed, HoldsPair, KeyOK
<1>4. CASE r.cert \in Certs /\ Readable(r.cert)
  <2> DEFINE cert == Sign(ReSigned(Unmarshal(file[r.cert]), r),
                          shell[s].cakey, shell[s].cacert)
  <2>1. PublicKey(cert) = PublicKey(file[r.cert])
    BY ReSignedKeepsKey
  <2>2. IF r.cert = "cacert" THEN KeyOfCA(PublicKey(file[r.cert]))
                             ELSE KeyOnDisk(PublicKey(file[r.cert]))
    BY <1>4 DEF KInv, KeyFirst, Certs
  <2>3. PICK v : /\ shell' = [shell EXCEPT ![s].pc = "truncate", ![s].cert = v]
                 /\ PublicKey(v) = PublicKey(file[r.cert])
    BY <1>4, <2>1 DEF ReadCert
  <2> DEFINE x == Command("truncate", shell[s].request, shell[s].key, v,
                          shell[s].cakey, shell[s].cacert)
  <2>4. shell' = [shell EXCEPT ![s] = x]
    BY <1>1, <1>3, <2>3, KeepsCert
  <2>5. /\ x.pc = "truncate" /\ x = Field(x)
        /\ x.request = shell[s].request /\ x.key = shell[s].key /\ x.cert = v
    BY Fields
  <2> HIDE DEF x
  <2>6. Becomes(s, x)
    BY <1>1, <2>4, Assigns
  <2>7. RoutedCommand(x)
    BY <1>3, <1>4, <2>5 DEF RoutedCommand, Directed
  <2>8. Shaped' /\ Routed' /\ Others(s) /\ shell'[s] = x
    BY <1>1, <1>2, <2>5, <2>6, <2>7, ShapedBy
  <2>9. PublicKey(v) \in 1..generated
    BY <2>2, <2>3 DEF KeyOnDisk, KeyOfCA
  <2>10. KeyOK(s)'
    BY <1>2, <1>3, <2>5, <2>8, <2>9 DEF KeyOK
  <2>11. Resigns(s)
    BY <1>2, <2>2, <2>3, <2>5, <2>8, <2>10 DEF Resigns, SignsCA
  <2>12. QED
    BY <2>8, <2>11 DEF Effect, Kind
<1>5. CASE ~(r.cert \in Certs /\ Readable(r.cert))
  <2>1. Return(s)
    BY <1>5 DEF ReadCert
  <2>2. QED
    BY <1>1, <1>2, <2>1, ReturnEffect DEF Effect, Kind, Passive, ReadSteps
<1>6. QED
  BY <1>4, <1>5

\* A command is killed.
LEMMA KillIs ==
    ASSUME KInv, NEW s \in Shells, Kill(s)
    PROVE  Effect(s)
<1>1. Shaped /\ Routed /\ generated' \in Nat /\ UNCHANGED <<file, generated, default>>
  BY DEF KInv, Shaped, Kill
<1>2. Return(s) /\ LeavesNothing(s)
  BY DEF Kill, LeavesNothing
<1>3. QED
  BY <1>1, <1>2, ReturnEffect DEF Effect, Kind, Passive, ReadSteps

\* Every step of the program has an effect on one shell, is a tick or changes
\* nothing.
LEMMA NextIs ==
    ASSUME KInv, [Next]_vars
    PROVE  \/ \E s \in Shells : Effect(s)
           \/ UNCHANGED <<file, shell, generated, killed, default>>
<1>1. CASE \E s \in Shells, r \in Requests : Start(s, r)
  BY <1>1, StartIs
<1>2. ASSUME NEW s \in Shells, Step(s) \/ Kill(s) PROVE Effect(s)
  <2>1. CASE Kill(s)
    BY <2>1, KillIs
  <2>2. CASE Step(s)
    BY <2>2, ReadIs, CreateIs, WriteIs, ReadCertIs DEF Step
  <2>3. QED
    BY <1>2, <2>1, <2>2
<1>3. CASE Tick
  BY <1>3 DEF Tick
<1>4. CASE UNCHANGED vars
  BY <1>4 DEF vars
<1>5. QED
  BY <1>1, <1>2, <1>3, <1>4 DEF Next

-----------------------------------------------------------------------------
(* The inductive invariant is one.                                         *)

\* A step that changes one file.
LEMMA FileChanges ==
    ASSUME Shaped, NEW f \in Files, NEW v, file' = [file EXCEPT ![f] = v]
    PROVE  file'[f] = v /\ \A g \in Files \ {f} : file'[g] = file[g]
  BY DEF Shaped

\* Names of files are told apart, and contents of files too.
LEMMA FilesDiffer ==
    /\ "cakey" \in Files /\ "cacert" \in Files
    /\ KeyFiles \subseteq Files /\ CertFiles \subseteq Files
    /\ "cakey" \notin KeyFiles \cup CertFiles
    /\ "cacert" \notin KeyFiles \cup CertFiles
    /\ \A k \in KeyFiles : k \notin CertFiles
    /\ Keys = {"cakey"} \cup KeyFiles /\ Certs = {"cacert"} \cup CertFiles
    /\ None # Empty /\ None \notin Nat /\ Empty \notin Nat
  BY FileAssumption DEF Files, CAFiles, Keys, Certs

\* Keys do not disappear from the disk while no key file changes.
LEMMA StaysOnDisk ==
    ASSUME generated \in Nat, generated' \in {generated, generated + 1},
           \A k \in KeyFiles : file'[k] = file[k], NEW key, KeyOnDisk(key)
    PROVE  KeyOnDisk(key)'
  BY DEF KeyOnDisk

\* The keys of the certificates that are on disk, or about to be, after a step
\* that removes no key.
LEMMA FirstNext ==
    ASSUME \A key : /\ KeyOnDisk(key) => KeyOnDisk(key)'
                    /\ KeyOfCA(key) => KeyOfCA(key)',
           \A f \in Keys : file'[f] \in {None, Empty} \cup (1..generated'),
           \A t \in Shells :
              /\ shell'[t].pc \in {"openCACert", "writeCACert"} =>
                    file'["cakey"] = shell'[t].key
              /\ SignsNode(shell'[t]) => KeyOnDisk(PublicKey(shell'[t].cert))
              /\ SignsCA(shell'[t]) => KeyOfCA(PublicKey(shell'[t].cert)),
           Readable("cacert")' => KeyOfCA(PublicKey(file'["cacert"])),
           \A f \in CertFiles : Readable(f)' => KeyOnDisk(PublicKey(file'[f]))
    PROVE  KeyFirst'
<1>1. \A t \in Shells :
         /\ SignsNode(shell[t])' => KeyOnDisk(PublicKey(shell[t].cert))'
         /\ SignsCA(shell[t])' => KeyOfCA(PublicKey(shell[t].cert))'
  BY DEF KeyOnDisk, KeyOfCA, PublicKey, SignsNode, SignsCA
<1>2. /\ Readable("cacert")' => KeyOfCA(PublicKey(file["cacert"]))'
      /\ \A f \in CertFiles : Readable(f)' => KeyOnDisk(PublicKey(file[f]))'
  BY DEF KeyOnDisk, KeyOfCA, PublicKey
<1>3. QED
  BY <1>1, <1>2 DEF KeyFirst

\* A command that reads, makes a key pair or signs again.
LEMMA QuietKeeps ==
    ASSUME KInv, NEW s \in Shells, Effect(s), Passive(s) \/ Fresh(s) \/ Resigns(s)
    PROVE  HoldsPair' /\ WritesOwn' /\ KeyFirst'
<1>1. /\ file' = file /\ generated \in Nat /\ generated' \in {generated, generated + 1}
      /\ \A t \in Shells \ {s} : shell'[t] = shell[t]
  BY DEF KInv, Shaped, Effect, Others, Passive, Fresh, Resigns
<1>2. HoldsPair'
  BY <1>1 DEF KInv, HoldsPair, KeyOK, Passive, Fresh, Resigns, ReadSteps, CASteps
<1>3. WritesOwn'
  BY <1>1 DEF KInv, WritesOwn, Passive, Fresh, Resigns, ReadSteps
<1>4. \A key : /\ KeyOnDisk(key) => KeyOnDisk(key)'
               /\ KeyOfCA(key) => KeyOfCA(key)'
  BY <1>1, StaysOnDisk DEF KeyOfCA
<1>5. \A t \in Shells :
         /\ shell'[t].pc \in {"openCACert", "writeCACert"} =>
               file'["cakey"] = shell'[t].key
         /\ SignsNode(shell'[t]) => KeyOnDisk(PublicKey(shell'[t].cert))
         /\ SignsCA(shell'[t]) => KeyOfCA(PublicKey(shell'[t].cert))
  <2>1. ASSUME NEW t \in Shells \ {s}
        PROVE  /\ shell'[t].pc \in {"openCACert", "writeCACert"} =>
                     file'["cakey"] = shell'[t].key
               /\ SignsNode(shell'[t]) => KeyOnDisk(PublicKey(shell'[t].cert))
               /\ SignsCA(shell'[t]) => KeyOfCA(PublicKey(shell'[t].cert))
    BY <1>1 DEF KInv, KeyFirst
  <2>2. /\ shell'[s].pc \notin {"openCACert", "writeCACert"}
        /\ SignsNode(shell'[s]) => KeyOnDisk(PublicKey(shell'[s].cert))
        /\ SignsCA(shell'[s]) => KeyOfCA(PublicKey(shell'[s].cert))
    BY DEF Passive, Fresh, Resigns, ReadSteps, SignsNode, SignsCA
  <2>3. QED
    BY <2>1, <2>2
<1>6. /\ \A f \in Keys : file'[f] \in {None, Empty} \cup (1..generated')
      /\ Readable("cacert")' => KeyOfCA(PublicKey(file'["cacert"]))
      /\ \A f \in CertFiles : Readable(f)' => KeyOnDisk(PublicKey(file'[f]))
  BY <1>1 DEF KInv, KeyFirst, Readable
<1>7. KeyFirst'
  BY <1>4, <1>5, <1>6, FirstNext
<1>8. QED
  BY <1>2, <1>3, <1>7

\* What the kinds of steps that change a file have in common.
Changes(s, f, v) ==
    /\ f \in Files /\ file'[f] = v /\ \A g \in Files \ {f} : file'[g] = file[g]
    /\ generated \in Nat /\ generated' = generated
    /\ \A t \in Shells \ {s} : shell'[t] = shell[t]

\* A command that creates a file, writes to it or empties it.
LEMMA ChangesIs ==
    ASSUME KInv, NEW s \in Shells, Effect(s), NEW f \in Files, NEW v,
           file' = [file EXCEPT ![f] = v], UNCHANGED generated
    PROVE  Changes(s, f, v)
<1>1. Shaped /\ generated \in Nat
  BY DEF KInv, Shaped
<1>2. QED
  BY <1>1, FileChanges DEF Changes, Effect, Others

\* The key of the CA is created.
LEMMA CreateCAKeyKeeps ==
    ASSUME KInv, NEW s \in Shells, Effect(s),
           Creates(s, "cakey", "openCAKey", "writeCAKey")
    PROVE  HoldsPair' /\ WritesOwn' /\ KeyFirst'
<1>1. Changes(s, "cakey", Empty)
  BY ChangesIs, FilesDiffer DEF Creates
<1>2. HoldsPair'
  BY <1>1 DEF KInv, HoldsPair, KeyOK, Changes, Creates, Kept, CASteps
<1>3. \A k \in KeyFiles \cup CertFiles \cup {"cacert"} : file'[k] = file[k]
  BY <1>1, FilesDiffer DEF Changes
<1>4. /\ ~Readable("cacert")
      /\ \A t \in Shells : shell[t].pc \notin {"openCACert", "writeCACert", "writeCAKey"}
      /\ \A t \in Shells : shell[t].pc \notin PastCA
  BY FilesDiffer
     DEF KInv, KeyFirst, KeyOfCA, HoldsPair, KeyOK, WritesOwn, CAStands, Readable,
         Creates, CASteps
<1>5. WritesOwn'
  BY <1>1, <1>3, <1>4, FilesDiffer
     DEF KInv, WritesOwn, Changes, Creates, Routed, RoutedCommand, Directed
<1>6. KeyFirst'
  BY <1>1, <1>3, <1>4, FilesDiffer
     DEF KInv, KeyFirst, KeyOnDisk, Changes, Creates, Readable, PastCA, SignsNode, SignsCA
<1>7. QED
  BY <1>2, <1>5, <1>6

\* The key of the CA is written.
LEMMA WriteCAKeyKeeps ==
    ASSUME KInv, NEW s \in Shells, Effect(s),
           WritesKey(s, "cakey", "writeCAKey", "openCACert")
    PROVE  HoldsPair' /\ WritesOwn' /\ KeyFirst'
<1>1. Changes(s, "cakey", shell[s].key)
  BY ChangesIs, FilesDiffer DEF WritesKey
<1>2. HoldsPair'
  BY <1>1 DEF KInv, HoldsPair, KeyOK, Changes, WritesKey, Kept, CASteps
<1>3. \A k \in KeyFiles \cup CertFiles \cup {"cacert"} : file'[k] = file[k]
  BY <1>1, FilesDiffer DEF Changes
<1>4. shell[s].key \in 1..generated /\ file["cakey"] = Empty
  BY DEF KInv, HoldsPair, KeyOK, WritesOwn, WritesKey, CASteps
<1>5. /\ ~Readable("cacert")
      /\ \A t \in Shells : shell[t].pc \notin {"openCACert", "writeCACert"}
      /\ \A t \in Shells \ {s} : shell[t].pc # "writeCAKey"
      /\ \A t \in Shells : shell[t].pc \notin PastCA
  BY <1>4, FilesDiffer
     DEF KInv, KeyFirst, KeyOfCA, HoldsPair, KeyOK, WritesOwn, CAStands, Readable,
         WritesKey, CASteps
<1>6. WritesOwn'
  BY <1>1, <1>3, <1>5, FilesDiffer
     DEF KInv, WritesOwn, Changes, WritesKey, Routed, RoutedCommand, Directed
<1>7. KeyFirst'
  BY <1>1, <1>3, <1>4, <1>5, FilesDiffer
     DEF KInv, KeyFirst, KeyOnDisk, Changes, WritesKey, Kept, Readable, PastCA,
         SignsNode, SignsCA
<1>8. QED
  BY <1>2, <1>6, <1>7

\* The certificate of the CA is created.
LEMMA CreateCACertKeeps ==
    ASSUME KInv, NEW s \in Shells, Effect(s),
           Creates(s, "cacert", "openCACert", "writeCACert")
    PROVE  HoldsPair' /\ WritesOwn' /\ KeyFirst'
<1>1. Changes(s, "cacert", Empty)
  BY ChangesIs, FilesDiffer DEF Creates
<1>2. HoldsPair'
  BY <1>1 DEF KInv, HoldsPair, KeyOK, Changes, Creates, Kept, CASteps
<1>3. \A k \in KeyFiles \cup CertFiles \cup {"cakey"} : file'[k] = file[k]
  BY <1>1, FilesDiffer DEF Changes
<1>4. \A t \in Shells : shell[t].pc # "writeCACert" /\ shell[t].pc \notin PastCA
  BY FilesDiffer DEF KInv, WritesOwn, CAStands, Present, Creates
<1>5. WritesOwn'
  BY <1>1, <1>3, <1>4, FilesDiffer
     DEF KInv, WritesOwn, Changes, Creates, Routed, RoutedCommand, Directed
<1>6. KeyFirst'
  BY <1>1, <1>3, <1>4, FilesDiffer
     DEF KInv, KeyFirst, KeyOnDisk, Changes, Creates, Kept, Readable, PastCA,
         SignsNode, SignsCA
<1>7. QED
  BY <1>2, <1>5, <1>6

\* The certificate of the CA is written.
LEMMA WriteCACertKeeps ==
    ASSUME KInv, NEW s \in Shells, Effect(s),
           WritesCert(s, "cacert", "writeCACert", "readCAKey")
    PROVE  HoldsPair' /\ WritesOwn' /\ KeyFirst'
<1> DEFINE c == Marshal(shell[s].cert)
<1>1. Changes(s, "cacert", c)
  BY ChangesIs, FilesDiffer DEF WritesCert
<1>2. PublicKey(c) = PublicKey(shell[s].cert)
  BY KeyIsKept
<1> HIDE DEF c
<1>3. /\ PublicKey(c) = file["cakey"] /\ file["cakey"] \in 1..generated
      /\ \A t \in Shells \ {s} : shell[t].pc # "writeCACert"
      /\ \A t \in Shells : shell[t].pc \notin PastCA
  BY <1>2 DEF KInv, HoldsPair, KeyOK, KeyFirst, WritesOwn, CAStands, WritesCert, CASteps
<1>4. HoldsPair'
  BY <1>1 DEF KInv, HoldsPair, KeyOK, Changes, WritesCert, Kept, CASteps
<1>5. \A k \in KeyFiles \cup CertFiles \cup {"cakey"} : file'[k] = file[k]
  BY <1>1, FilesDiffer DEF Changes
<1>6. WritesOwn'
  BY <1>1, <1>3, <1>5, FilesDiffer
     DEF KInv, WritesOwn, Changes, WritesCert, Routed, RoutedCommand, Directed
<1>7. KeyFirst'
  BY <1>1, <1>3, <1>5, FilesDiffer
     DEF KInv, KeyFirst, KeyOnDisk, KeyOfCA, Changes, WritesCert, Readable, PastCA,
         SignsNode, SignsCA
<1>8. QED
  BY <1>4, <1>6, <1>7

\* The key of a node is created.
LEMMA CreateKeyKeeps ==
    ASSUME KInv, NEW s \in Shells, Effect(s),
           Creates(s, shell[s].request.key, "openKey", "writeKey")
    PROVE  HoldsPair' /\ WritesOwn' /\ KeyFirst'
<1> DEFINE f == shell[s].request.key
<1>1. f \in KeyFiles
  <2>1. Directed(shell'[s].request, "writeKey") /\ shell'[s].request = shell[s].request
    BY DEF Effect, Routed, RoutedCommand, Creates, Kept
  <2>2. QED
    BY <2>1 DEF Directed
<1>2. Changes(s, f, Empty) /\ file[f] = None
  BY <1>1, ChangesIs, FilesDiffer DEF Creates
<1>3. HoldsPair'
  BY <1>2 DEF KInv, HoldsPair, KeyOK, Changes, Creates, Kept, CASteps
<1>4. shell'[s].request.key = f /\ shell'[s].cert = shell[s].cert
  BY DEF Creates, Kept
<1> HIDE DEF f
<1>5. /\ \A k \in CertFiles \cup {"cakey", "cacert"} : file'[k] = file[k]
      /\ \A k \in KeyFiles \ {f} : file'[k] = file[k]
  BY <1>1, <1>2, FilesDiffer DEF Changes
<1>6. \A t \in Shells : shell[t].pc = "writeKey" => shell[t].request.key # f
  BY <1>2, FilesDiffer DEF KInv, WritesOwn
<1>7. WritesOwn'
  BY <1>2, <1>4, <1>5, <1>6, FilesDiffer
     DEF KInv, WritesOwn, Changes, Creates, Routed, RoutedCommand, Directed
<1>8. \A key : KeyOnDisk(key) => /\ key \in 1..generated'
                                 /\ \E k \in KeyFiles : file'[k] = key
  BY <1>2, <1>5, FilesDiffer DEF KeyOnDisk, Changes
<1>9. KeyFirst'
  BY <1>1, <1>2, <1>5, <1>8, FilesDiffer
     DEF KInv, KeyFirst, KeyOnDisk, KeyOfCA, Changes, Creates, Readable, SignsNode, SignsCA
<1>10. QED
  BY <1>3, <1>7, <1>9

\* The key of a node is written.
LEMMA WriteKeyKeeps ==
    ASSUME KInv, NEW s \in Shells, Effect(s),
           WritesKey(s, shell[s].request.key, "writeKey", "openCert")
    PROVE  HoldsPair' /\ WritesOwn' /\ KeyFirst'
<1> DEFINE f == shell[s].request.key
<1>1. f \in KeyFiles
  BY DEF KInv, Routed, RoutedCommand, Directed, WritesKey
<1>2. Changes(s, f, shell[s].key)
  BY <1>1, ChangesIs, FilesDiffer DEF WritesKey
<1>3. HoldsPair'
  BY <1>2 DEF KInv, HoldsPair, KeyOK, Changes, WritesKey, Kept, CASteps
<1>4. /\ file[f] = Empty /\ shell[s].key \in 1..generated
      /\ PublicKey(shell[s].cert) = shell[s].key
      /\ \A t \in Shells \ {s} : shell[t].pc = "writeKey" => shell[t].request.key # f
  BY DEF KInv, WritesOwn, HoldsPair, KeyOK, WritesKey
<1>5. shell'[s].pc = "openCert" /\ shell'[s].cert = shell[s].cert
  BY DEF WritesKey, Kept
<1> HIDE DEF f
<1>6. /\ \A k \in CertFiles \cup {"cakey", "cacert"} : file'[k] = file[k]
      /\ \A k \in KeyFiles \ {f} : file'[k] = file[k]
  BY <1>1, <1>2, FilesDiffer DEF Changes
<1>7. WritesOwn'
  BY <1>2, <1>4, <1>5, <1>6, FilesDiffer
     DEF KInv, WritesOwn, Changes, Routed, RoutedCommand, CASteps
<1>8. \A key : KeyOnDisk(key) => /\ key \in 1..generated'
                                 /\ \E k \in KeyFiles : file'[k] = key
  BY <1>2, <1>4, <1>6, FilesDiffer DEF KeyOnDisk, Changes
<1>9. /\ PublicKey(shell'[s].cert) \in 1..generated'
      /\ \E k \in KeyFiles : file'[k] = PublicKey(shell'[s].cert)
  BY <1>1, <1>2, <1>4, <1>5 DEF Changes
<1>10. KeyFirst'
  BY <1>1, <1>2, <1>4, <1>5, <1>6, <1>8, <1>9, FilesDiffer
     DEF KInv, KeyFirst, KeyOnDisk, KeyOfCA, Changes, Readable, SignsNode, SignsCA
<1>11. QED
  BY <1>3, <1>7, <1>10

\* The certificate of a node, or that of the CA in its place, is created, emptied
\* or written.
LEMMA CertKeeps ==
    ASSUME KInv, NEW s \in Shells, Effect(s),
           \/ Creates(s, shell[s].request.cert, "openCert", "writeCert")
           \/ WritesCert(s, shell[s].request.cert, "writeCert", "idle")
           \/ Truncates(s)
    PROVE  HoldsPair' /\ WritesOwn' /\ KeyFirst'
<1> DEFINE f == shell[s].request.cert
           c == Marshal(shell[s].cert)
<1>1. /\ shell[s].pc \in {"openCert", "writeCert", "truncate"} /\ f \in Certs
      /\ f = "cacert" <=> SignsCA(shell[s])
  <2>1. CASE Creates(s, f, "openCert", "writeCert")
    <3>1. /\ Directed(shell'[s].request, "writeCert") /\ shell'[s].request = shell[s].request
          /\ shell[s].pc = "openCert" /\ RoutedCommand(shell[s])
      BY <2>1 DEF KInv, Effect, Routed, RoutedCommand, Creates, Kept
    <3>2. f \in CertFiles
      BY <3>1 DEF RoutedCommand, Directed
    <3>3. QED
      BY <3>1, <3>2, FilesDiffer DEF SignsCA
  <2>2. CASE WritesCert(s, f, "writeCert", "idle") \/ Truncates(s)
    <3>1. shell[s].pc \in {"writeCert", "truncate"} /\ Directed(shell[s].request, shell[s].pc)
      BY <2>2 DEF KInv, Routed, RoutedCommand, WritesCert, Truncates
    <3>2. QED
      BY <3>1, FilesDiffer DEF Directed, SignsCA
  <2>3. QED
    BY <2>1, <2>2
<1>2. \/ Changes(s, f, Empty) /\ shell'[s].pc = "writeCert" /\ Kept(s)
      \/ Changes(s, f, c) /\ shell'[s].pc = "idle"
  BY <1>1, ChangesIs, FilesDiffer DEF Creates, WritesCert, Truncates
<1>3. /\ PublicKey(c) = PublicKey(shell[s].cert)
      /\ IF f = "cacert" THEN KeyOfCA(PublicKey(shell[s].cert))
                         ELSE KeyOnDisk(PublicKey(shell[s].cert))
  BY <1>1, KeyIsKept DEF KInv, KeyFirst, SignsNode
<1>4. HoldsPair'
  BY <1>1, <1>2 DEF KInv, HoldsPair, KeyOK, Changes, Kept, CASteps
<1>5. /\ \A t \in Shells \ {s} : shell'[t] = shell[t]
      /\ \/ /\ file'[f] = Empty /\ shell'[s].pc = "writeCert"
            /\ shell'[s].cert = shell[s].cert /\ shell'[s].request.cert = f
         \/ file'[f] = c /\ shell'[s].pc = "idle"
  BY <1>2 DEF Changes, Kept
<1>6. shell[s].pc \in PastCA
  BY <1>1 DEF PastCA
<1> HIDE DEF f, c
<1>7. /\ \A k \in Files \ {f} : file'[k] = file[k]
      /\ \A k \in Keys : file'[k] = file[k]
      /\ generated' = generated
  BY <1>1, <1>2, FilesDiffer DEF Changes
<1>8. \A t \in Shells : shell[t].pc # "writeCACert"
  BY <1>6 DEF KInv, CAStands
<1>9. WritesOwn'
  <2>1. \A t \in Shells : shell'[t].pc \in {"writeCAKey", "writeCACert", "writeKey"} =>
           t # s /\ shell'[t] = shell[t]
    BY <1>5
  <2>2. \A t \in Shells : shell[t].pc = "writeKey" => shell[t].request.key \in Keys
    BY FilesDiffer DEF KInv, Routed, RoutedCommand, Directed
  <2>3. "cakey" \in Keys
    BY FilesDiffer
  <2>4. QED
    BY <1>7, <1>8, <2>1, <2>2, <2>3 DEF KInv, WritesOwn
<1>10. \A key : /\ KeyOnDisk(key) => KeyOnDisk(key)'
                /\ KeyOfCA(key) => KeyOfCA(key)'
  BY <1>7, FilesDiffer DEF KeyOnDisk, KeyOfCA
<1>11. \A t \in Shells :
         /\ shell'[t].pc \in {"openCACert", "writeCACert"} =>
               file'["cakey"] = shell'[t].key
         /\ SignsNode(shell'[t]) => KeyOnDisk(PublicKey(shell'[t].cert))
         /\ SignsCA(shell'[t]) => KeyOfCA(PublicKey(shell'[t].cert))
  <2>1. ASSUME NEW t \in Shells \ {s}
        PROVE  /\ shell'[t].pc \in {"openCACert", "writeCACert"} =>
                     file'["cakey"] = shell'[t].key
               /\ SignsNode(shell'[t]) => KeyOnDisk(PublicKey(shell'[t].cert))
               /\ SignsCA(shell'[t]) => KeyOfCA(PublicKey(shell'[t].cert))
    BY <1>5, <1>7, FilesDiffer DEF KInv, KeyFirst
  <2>2. /\ shell'[s].pc \notin {"openCACert", "writeCACert"}
        /\ SignsNode(shell'[s]) => KeyOnDisk(PublicKey(shell'[s].cert))
        /\ SignsCA(shell'[s]) => KeyOfCA(PublicKey(shell'[s].cert))
    BY <1>3, <1>5 DEF SignsNode, SignsCA
  <2>3. QED
    BY <2>1, <2>2
<1>12. /\ \A g \in Keys : file'[g] \in {None, Empty} \cup (1..generated')
       /\ Readable("cacert")' => KeyOfCA(PublicKey(file'["cacert"]))
       /\ \A g \in CertFiles : Readable(g)' => KeyOnDisk(PublicKey(file'[g]))
  <2>1. \A g \in Keys : file'[g] \in {None, Empty} \cup (1..generated')
    BY <1>7 DEF KInv, KeyFirst
  <2>2. ASSUME NEW g \in Certs, Readable(g)'
        PROVE  IF g = "cacert" THEN KeyOfCA(PublicKey(file'[g]))
                               ELSE KeyOnDisk(PublicKey(file'[g]))
    <3>1. CASE g = f
      <4>1. file'[g] = c
        BY <1>5, <2>2, <3>1 DEF Readable
      <4>2. QED
        BY <1>3, <3>1, <4>1
    <3>2. CASE g # f
      <4>1. file'[g] = file[g] /\ Readable(g)
        BY <1>7, <2>2, <3>2, FilesDiffer DEF Readable
      <4>2. QED
        BY <2>2, <4>1, FilesDiffer DEF KInv, KeyFirst
    <3>3. QED
      BY <3>1, <3>2
  <2>3. QED
    BY <2>1, <2>2, FilesDiffer
<1>13. KeyFirst'
  BY <1>10, <1>11, <1>12, FirstNext
<1>14. QED
  BY <1>4, <1>9, <1>13

\* The CA that a command has read stays on disk.
LEMMA StandsKeeps ==
    ASSUME Distinct, KInv, NEW s \in Shells, Effect(s)
    PROVE  CAStands'
<1>1. Readable("cacert") =>
         /\ Present("cacert") /\ Readable("cakey")
         /\ \A t \in Shells : shell[t].pc # "writeCACert"
  BY FilesDiffer DEF KInv, KeyFirst, KeyOfCA, WritesOwn, Present, Readable, Shaped
<1>2. shell'[s].pc \in PastCA => shell[s].pc \in PastCA \/ Readable("cacert")
  BY DEF Effect, Kind, Passive, Fresh, Resigns, Truncates, Creates, WritesKey, WritesCert,
         PastCA, ReadSteps
<1>3. /\ Present("cacert") => Present("cacert")'
      /\ Readable("cakey") => Readable("cakey")'
  <2>1. CASE UNCHANGED file
    BY <2>1 DEF Present, Readable
  <2>2. ASSUME NEW f \in Files, NEW v, file' = [file EXCEPT ![f] = v], UNCHANGED generated,
               f = "cakey" => ~Readable("cakey"), f = "cacert" => v # None
        PROVE  /\ Present("cacert") => Present("cacert")'
               /\ Readable("cakey") => Readable("cakey")'
    <3>1. Changes(s, f, v)
      BY <2>2, ChangesIs
    <3>2. QED
      BY <2>2, <3>1, FilesDiffer DEF Changes, Present, Readable
  <2> DEFINE k == shell[s].request.key
             c == shell[s].request.cert
  <2>3. /\ \A x : Marshal(x) # None
        /\ shell[s].pc = "writeKey" => k \in KeyFiles
        /\ shell[s].pc \in {"writeCert", "truncate"} => c \in Certs
    BY FilesDiffer DEF Marshal, Distinct, KInv, Routed, RoutedCommand, Directed
  <2>4. ASSUME NEW f \in Files, NEW from, NEW to, Creates(s, f, from, to)
        PROVE  /\ Present("cacert") => Present("cacert")'
               /\ Readable("cakey") => Readable("cakey")'
    BY <2>2, <2>4, FilesDiffer DEF Creates, Readable
  <2>5. CASE Truncates(s) \/ WritesCert(s, c, "writeCert", "idle")
    <3>1. PICK v : v # None /\ c \in Files \ {"cakey"} /\ file' = [file EXCEPT ![c] = v]
                   /\ UNCHANGED generated
      BY <2>3, <2>5, FilesDiffer DEF Truncates, WritesCert
    <3>2. QED
      BY <2>2, <3>1
  <2>6. CASE WritesCert(s, "cacert", "writeCACert", "readCAKey")
    BY <2>2, <2>3, <2>6, FilesDiffer DEF WritesCert
  <2>7. CASE WritesKey(s, k, "writeKey", "openCert")
    BY <2>2, <2>3, <2>7, FilesDiffer DEF WritesKey
  <2>8. CASE WritesKey(s, "cakey", "writeCAKey", "openCACert")
    <3>1. file["cakey"] = Empty
      BY <2>8 DEF WritesKey, KInv, WritesOwn
    <3>2. QED
      BY <2>2, <2>8, <3>1, FilesDiffer DEF WritesKey, Readable
  <2>9. CASE Creates(s, k, "openKey", "writeKey") \/ Creates(s, c, "openCert", "writeCert")
    <3>1. k \in Files /\ c \in Files
      BY <2>9 DEF Creates, KInv, Routed, RoutedCommand
    <3>2. QED
      BY <2>4, <2>9, <3>1
  <2>10. CASE \/ Creates(s, "cakey", "openCAKey", "writeCAKey")
              \/ Creates(s, "cacert", "openCACert", "writeCACert")
    BY <2>4, <2>10, FilesDiffer
  <2>11. CASE Passive(s) \/ Fresh(s) \/ Resigns(s)
    BY <2>1, <2>11 DEF Passive, Fresh, Resigns
  <2>12. QED
    BY <2>5, <2>6, <2>7, <2>8, <2>9, <2>10, <2>11 DEF Effect, Kind
<1>4. Present("cacert") /\ shell'[s].pc = "writeCACert" => shell[s].pc = "writeCACert"
  BY DEF Effect, Kind, Passive, Fresh, Resigns, Truncates, Creates, WritesKey, WritesCert,
         ReadSteps, Present
<1>5. \A t \in Shells \ {s} : shell'[t] = shell[t]
  BY DEF Effect, Others
<1>6. ASSUME NEW t \in Shells, shell'[t].pc \in PastCA
      PROVE  /\ Present("cacert") /\ Readable("cakey")
             /\ \A u \in Shells : shell[u].pc # "writeCACert"
  <2>1. shell[t].pc \in PastCA \/ Readable("cacert")
    BY <1>2, <1>5, <1>6
  <2>2. QED
    BY <1>1, <2>1 DEF KInv, CAStands
<1>7. QED
  BY <1>3, <1>4, <1>5, <1>6 DEF CAStands

\* Every step preserves the invariant.
LEMMA KeysStep ==
    ASSUME Distinct, KInv, [Next]_vars
    PROVE  KInv'
<1>1. CASE UNCHANGED <<file, shell, generated, killed, default>>
  <2>1. Shaped'
    BY <1>1 DEF KInv, Shaped
  <2>2. Routed'
    BY <1>1 DEF KInv, Routed, RoutedCommand, Directed
  <2>3. HoldsPair'
    BY <1>1 DEF KInv, HoldsPair, KeyOK
  <2>4. WritesOwn' /\ CAStands'
    BY <1>1 DEF KInv, WritesOwn, CAStands, Present, Readable
  <2>5. KeyFirst'
    BY <1>1 DEF KInv, KeyFirst, KeyOnDisk, KeyOfCA, Readable, SignsNode, SignsCA
  <2>6. QED
    BY <2>1, <2>2, <2>3, <2>4, <2>5 DEF KInv
<1>2. ASSUME NEW s \in Shells, Effect(s) PROVE KInv'
  <2>1. HoldsPair' /\ WritesOwn' /\ KeyFirst'
    BY <1>2, QuietKeeps, CreateCAKeyKeeps, WriteCAKeyKeeps, CreateCACertKeeps,
       WriteCACertKeeps, CreateKeyKeeps, WriteKeyKeeps, CertKeeps DEF Effect, Kind
  <2>2. CAStands'
    BY <1>2, StandsKeeps
  <2>3. QED
    BY <1>2, <2>1, <2>2 DEF Effect, KInv
<1>3. QED
  BY <1>1, <1>2, NextIs

\* At the start no file exists and no command runs.
LEMMA KeysInit == Init => KInv
<1>1. Init => /\ Shaped /\ \A s \in Shells : shell[s].pc = "idle"
              /\ \A f \in Files : file[f] = None
  BY DEF Init, Shaped, Idle
<1>2. QED
  BY <1>1, FilesDiffer
     DEF KInv, Routed, HoldsPair, WritesOwn, CAStands, KeyFirst, Readable, CASteps, PastCA,
         SignsNode, SignsCA

\* The keys and certificates in the files and in the memory of the commands fit
\* together at every step of every interleaving, killed commands included, when
\* None and Empty are no certificates.
THEOREM KeysInductive ==
    ASSUME Distinct
    PROVE  Spec => []KInv
<1>1. Init => KInv
  BY KeysInit
<1>2. KInv /\ [Next]_vars => KInv'
  BY KeysStep
<1>3. QED
  BY <1>1, <1>2, PTL DEF Spec

\* Whatever commands overlap or are killed and whatever files they name, the
\* private key of every certificate on disk is on disk, for the CA and for every
\* node, when None and Empty are no certificates.
THEOREM KeyMatches ==
    ASSUME Distinct
    PROVE  Spec => []KeyMatchesCertificate
<1>1. KInv => KeyMatchesCertificate
  BY KeyIsKept
     DEF KInv, KeyFirst, KeyMatchesCertificate, KeyOnDisk, KeyOfCA, Loaded, PublicKey
<1>2. QED
  BY <1>1, KeysInductive, PTL

\* No command changes a private key once it is written, and only a re-sign that
\* names the certificate of the CA changes that, although generate and re-sign
\* may name any file of the CA, when None and Empty are no certificates.
THEOREM KeysKept ==
    ASSUME Distinct
    PROVE  Spec => KeysAreKept
<1> DEFINE Keeps ==
       /\ \A f \in Keys : Readable(f) => file'[f] = file[f]
       /\ Readable("cacert") /\ file'["cacert"] # file["cacert"] =>
             \E s \in Shells : ReSignsCA(s)
<1>1. KInv /\ [Next]_vars => [Keeps]_vars
  <2> SUFFICES ASSUME KInv, [Next]_vars PROVE Keeps
    OBVIOUS
  <2>1. CASE UNCHANGED file
    BY <2>1
  <2>2. CASE \E s \in Shells : Effect(s) /\ file' # file
    <3>1. PICK s \in Shells : Effect(s) /\ file' # file
      BY <2>2
    <3> DEFINE k == shell[s].request.key
               c == shell[s].request.cert
    <3>2. PICK g, v :
             /\ g \in Files /\ Changes(s, g, v)
             /\ \/ file[g] \in {None, Empty} \/ g \in CertFiles
                \/ g = "cacert" /\ ReSignsCA(s)
      <4>1. KInv /\ ~(Passive(s) \/ Fresh(s) \/ Resigns(s))
        BY <3>1 DEF Passive, Fresh, Resigns
      <4>2. shell[s].pc # "idle" => RoutedCommand(shell[s])
        BY DEF KInv, Routed
      <4>3. shell[s].pc \in {"writeCert", "truncate"} =>
               c \in CertFiles \/ (c = "cacert" /\ ReSignsCA(s))
        BY <4>2, FilesDiffer DEF RoutedCommand, Directed, ReSignsCA, CASteps
      <4>4. shell[s].pc \in {"openKey", "openCert", "writeKey", "writeCert", "truncate"} =>
               k \in Files /\ c \in Files
        BY <4>2 DEF RoutedCommand
      <4>5. PICK g, v :
               /\ g \in Files /\ file' = [file EXCEPT ![g] = v] /\ UNCHANGED generated
               /\ \/ file[g] \in {None, Empty} \/ g \in CertFiles
                  \/ g = "cacert" /\ ReSignsCA(s)
        BY <3>1, <4>1, <4>3, <4>4, FilesDiffer
           DEF Effect, Kind, Creates, WritesKey, WritesCert, Truncates, KInv, WritesOwn
      <4>6. QED
        BY <3>1, <4>5, ChangesIs
    <3>3. \A f \in Files : f # g => file'[f] = file[f]
      BY <3>2 DEF Changes
    <3>4. QED
      BY <3>2, <3>3, FilesDiffer DEF Readable
  <2>3. QED
    BY <2>1, <2>2, NextIs
<1>2. QED
  BY <1>1, KeysInductive, PTL DEF Spec, KeysAreKept

-----------------------------------------------------------------------------
(* Types.                                                                  *)

\* A command writes keys to files of keys and certificates to files of
\* certificates, and only re-sign writes to that of the CA as a node's.
LEMMA Targets ==
    ASSUME KInv, NEW s \in Shells, Effect(s)
    PROVE  LET k == shell[s].request.key
               c == shell[s].request.cert
           IN  /\ \/ Creates(s, k, "openKey", "writeKey")
                  \/ WritesKey(s, k, "writeKey", "openCert")
                  => k \in KeyFiles
               /\ Creates(s, c, "openCert", "writeCert") => c \in CertFiles
               /\ WritesCert(s, c, "writeCert", "idle") \/ Truncates(s) =>
                     c \in Certs /\ (c = "cacert" => shell[s].request.op = "re-sign")
<1> DEFINE k == shell[s].request.key
           c == shell[s].request.cert
<1>1. shell[s].pc # "idle" => RoutedCommand(shell[s])
  BY DEF KInv, Routed
<1>2. shell'[s].pc # "idle" => RoutedCommand(shell'[s])
  BY DEF Effect, Routed
<1>3. Creates(s, k, "openKey", "writeKey") => k \in KeyFiles
  BY <1>2 DEF Creates, Kept, RoutedCommand, Directed
<1>4. WritesKey(s, k, "writeKey", "openCert") => k \in KeyFiles
  BY <1>1 DEF WritesKey, RoutedCommand, Directed
<1>5. Creates(s, c, "openCert", "writeCert") => c \in CertFiles
  <2>1. SUFFICES ASSUME Creates(s, c, "openCert", "writeCert") PROVE c \in CertFiles
    OBVIOUS
  <2>2. /\ Directed(shell[s].request, "openCert") /\ Directed(shell'[s].request, "writeCert")
        /\ shell'[s].request = shell[s].request
    BY <1>1, <1>2, <2>1 DEF Creates, Kept, RoutedCommand
  <2>3. QED
    BY <2>2 DEF Directed
<1>6. WritesCert(s, c, "writeCert", "idle") \/ Truncates(s) =>
         c \in Certs /\ (c = "cacert" => shell[s].request.op = "re-sign")
  <2>1. SUFFICES ASSUME WritesCert(s, c, "writeCert", "idle") \/ Truncates(s)
                 PROVE  c \in Certs /\ (c = "cacert" => shell[s].request.op = "re-sign")
    OBVIOUS
  <2>2. /\ shell[s].pc \in {"writeCert", "truncate"}
        /\ Directed(shell[s].request, shell[s].pc)
        /\ shell[s].request.op \in {"generate", "re-sign"}
    BY <1>1, <2>1 DEF WritesCert, Truncates, RoutedCommand, CASteps
  <2>3. QED
    BY <2>2, FilesDiffer DEF Directed
<1>7. QED
  BY <1>3, <1>4, <1>5, <1>6

\* What a step does to the certificates made with default settings, and to the
\* flag of killed commands.
LEMMA DefaultStep ==
    ASSUME Distinct, KInv, DefaultOnDisk, [Next]_vars
    PROVE  DefaultOnDisk' /\ killed' \in {killed, TRUE}
<1>1. CASE UNCHANGED <<file, shell, generated, killed, default>>
  BY <1>1 DEF DefaultOnDisk, Readable
<1>2. ASSUME NEW s \in Shells, Effect(s)
      PROVE  DefaultOnDisk' /\ killed' \in {killed, TRUE}
  <2> DEFINE k == shell[s].request.key
             c == shell[s].request.cert
  <2>1. /\ Creates(s, k, "openKey", "writeKey") => k \in Files
        /\ Creates(s, c, "openCert", "writeCert") => c \in Files
        /\ WritesKey(s, k, "writeKey", "openCert") => k \in Keys
        /\ WritesCert(s, c, "writeCert", "idle") \/ Truncates(s) => c \in Certs
    BY <1>2, Targets, FilesDiffer
  <2>2. CASE Passive(s) \/ Fresh(s) \/ Resigns(s)
    BY <2>2 DEF Passive, Fresh, Resigns, LeavesNothing, DefaultOnDisk, Readable
  <2>3. ASSUME NEW f \in Files, NEW from, NEW to,
               Creates(s, f, from, to)
        PROVE  DefaultOnDisk' /\ killed' \in {killed, TRUE}
    <3>1. Changes(s, f, Empty) /\ file[f] = None /\ UNCHANGED <<killed, default>>
      BY <1>2, <2>3, ChangesIs DEF Creates
    <3>2. QED
      BY <3>1, FilesDiffer DEF Changes, DefaultOnDisk, Readable
  <2>4. ASSUME NEW f \in Keys, NEW from, NEW to, WritesKey(s, f, from, to)
        PROVE  DefaultOnDisk' /\ killed' \in {killed, TRUE}
    <3>1. Changes(s, f, shell[s].key) /\ UNCHANGED <<killed, default>>
      BY <1>2, <2>4, ChangesIs, FilesDiffer DEF WritesKey
    <3>2. f \notin Certs
      BY FilesDiffer
    <3>3. QED
      BY <3>1, <3>2, FilesDiffer DEF Changes, DefaultOnDisk, Readable
  <2>5. ASSUME NEW f \in Certs, NEW from, NEW to, WritesCert(s, f, from, to)
        PROVE  DefaultOnDisk' /\ killed' \in {killed, TRUE}
    <3>1. /\ Changes(s, f, Marshal(shell[s].cert))
          /\ killed' = killed /\ default' \subseteq default \cup {f}
      BY <1>2, <2>5, ChangesIs, FilesDiffer DEF WritesCert, Without
    <3>2. Marshal(shell[s].cert) \notin {None, Empty}
      BY DEF Marshal, Distinct
    <3>3. QED
      BY <3>1, <3>2, FilesDiffer DEF Changes, DefaultOnDisk, Readable
  <2>6. CASE Truncates(s)
    <3>1. /\ c \in Certs /\ Changes(s, c, Empty)
          /\ killed' = killed /\ default' \subseteq default \ {c}
      BY <1>2, <2>1, <2>6, ChangesIs, FilesDiffer DEF Truncates, Without
    <3> HIDE DEF c
    <3>2. QED
      BY <3>1, FilesDiffer DEF Changes, DefaultOnDisk, Readable
  <2>7. QED
    <3>1. CASE Creates(s, k, "openKey", "writeKey")
      BY <2>1, <2>3, <3>1
    <3>2. CASE Creates(s, c, "openCert", "writeCert")
      BY <2>1, <2>3, <3>2
    <3>3. CASE WritesKey(s, k, "writeKey", "openCert")
      BY <2>1, <2>4, <3>3
    <3>4. CASE WritesCert(s, c, "writeCert", "idle")
      BY <2>1, <2>5, <3>4
    <3>5. CASE Creates(s, "cakey", "openCAKey", "writeCAKey")
      BY <2>3, <3>5, FilesDiffer
    <3>6. CASE Creates(s, "cacert", "openCACert", "writeCACert")
      BY <2>3, <3>6, FilesDiffer
    <3>7. CASE WritesKey(s, "cakey", "writeCAKey", "openCACert")
      BY <2>4, <3>7, FilesDiffer
    <3>8. CASE WritesCert(s, "cacert", "writeCACert", "readCAKey")
      BY <2>5, <3>8, FilesDiffer
    <3>9. QED
      BY <1>2, <2>2, <2>6, <3>1, <3>2, <3>3, <3>4, <3>5, <3>6, <3>7, <3>8
         DEF Effect, Kind
<1>3. QED
  BY <1>1, <1>2, NextIs

\* The clock and the number of commands stay within their bounds.
LEMMA BoundsStep ==
    ASSUME Bounds, [Next]_vars, killed' \in {killed, TRUE}
    PROVE  Bounds'
<1>1. \/ clock' = clock /\ typed' = typed
      \/ clock < MaxClock /\ clock' = clock + 1 /\ typed' = typed
      \/ typed < MaxCommands /\ typed' = typed + 1 /\ clock' = clock
  BY DEF Next, vars, Start, Step, StatCAKey, StatCACert, OpenExcl, OpenCAKey,
         OpenCACert, OpenKey, OpenCert, WriteKeyTo, WriteCAKey, WriteKey, WriteCertTo,
         WriteCACert, WriteCert, ReadCAKey, ReadCACert, ReadCert, Truncate, Kill, Tick
<1>2. clock' \in 1..MaxClock /\ typed' \in 0..MaxCommands
  BY <1>1, BoundAssumption DEF Bounds
<1>3. killed' \in BOOLEAN
  BY Zenon DEF Bounds
<1>4. QED
  BY <1>2, <1>3 DEF Bounds

\* Every variable stays within its domain, and keys and certificates fit
\* together, when None and Empty are no certificates.
THEOREM TypeCorrect ==
    ASSUME Distinct
    PROVE  Spec => []TypeOK
<1>1. Init => KInv /\ DefaultOnDisk /\ Bounds
  <2>1. Init => clock \in 1..MaxClock /\ typed \in 0..MaxCommands /\ DefaultOnDisk
    BY BoundAssumption DEF Init, DefaultOnDisk
  <2>2. Init => killed \in BOOLEAN
    BY Zenon DEF Init
  <2>3. QED
    BY <2>1, <2>2, KeysInit DEF Bounds
<1>2. KInv /\ DefaultOnDisk /\ Bounds /\ [Next]_vars
         => (KInv /\ DefaultOnDisk /\ Bounds)'
  BY KeysStep, DefaultStep, BoundsStep
<1>3. KInv /\ DefaultOnDisk /\ Bounds => TypeOK
  <2> SUFFICES ASSUME KInv, DefaultOnDisk, Bounds PROVE TypeOK
    OBVIOUS
  <2>1. \A f \in Certs : Readable(f) => CertOf(file[f])
    BY FilesDiffer DEF KInv, KeyFirst, KeyOnDisk, KeyOfCA, CertOf, PublicKey
  <2>2. ASSUME NEW s \in Shells, shell[s] # Idle
        PROVE  /\ shell[s].cert # None => CertOf(shell[s].cert)
               /\ shell[s].key \in {None} \cup (1..generated)
               /\ shell[s].pc \in {"openKey", "writeKey", "openCert"} =>
                     shell[s].cert.details.publicKey = shell[s].key
               /\ shell[s].pc = "readCert" => shell[s].cacert # None /\ shell[s].cakey # None
    <3>1. shell[s].pc # "idle" /\ KeyOK(s) /\ RoutedCommand(shell[s])
      BY <2>2 DEF KInv, Shaped, Routed, HoldsPair
    <3>2. IsCertificate(shell[s].cacert) => shell[s].cacert # None
      BY DEF IsCertificate, Distinct
    <3>3. shell[s].pc = "readCert" => shell[s].cacert # None /\ shell[s].cakey # None
      BY <3>1, <3>2 DEF RoutedCommand
    <3>4. shell[s].pc \in {"openKey", "writeKey", "openCert"} =>
             shell[s].cert.details.publicKey = shell[s].key
      BY DEF KInv, HoldsPair, PublicKey
    <3>5. QED
      BY <3>1, <3>3, <3>4 DEF KeyOK, CertOf, PublicKey
  <2>3. generated \in Nat
    BY DEF KInv, Shaped
  <2>4. \A f \in Keys : file[f] \in {None, Empty} \cup (1..generated)
    BY DEF KInv, KeyFirst
  <2>5. default \subseteq {f \in Certs : Readable(f)}
    BY DEF DefaultOnDisk
  <2>6. QED
    BY <2>1, <2>2, <2>3, <2>4, <2>5 DEF TypeOK, Bounds
<1>4. QED
  BY <1>1, <1>2, <1>3, PTL DEF Spec

\* A command that reads, makes a key pair or signs again leaves nothing half done.
LEMMA QuietAttended ==
    ASSUME KInv, Attended, NEW s \in Shells, Effect(s),
           Passive(s) \/ Fresh(s) \/ Resigns(s)
    PROVE  Attended'
<1>1. /\ file' = file /\ LeavesNothing(s) /\ \A t \in Shells \ {s} : shell'[t] = shell[t]
  BY DEF Effect, Others, Passive, Fresh, Resigns
<1>2. CASE killed' = TRUE
  BY <1>1, <1>2 DEF Attended, Present
<1>3. CASE killed' # TRUE
  <2>1. /\ killed' = killed /\ shell[s].pc \notin WriteSteps
        /\ shell[s].pc = "openCACert" => Present("cacert")
    BY <1>1, <1>3 DEF LeavesNothing
  <2>2. QED
    BY <1>1, <2>1 DEF Attended, Present, WriteSteps
<1>4. QED
  BY <1>2, <1>3

\* A file of the CA that was created is written next, and the certificate follows
\* the key.
LEMMA CAAttended ==
    ASSUME Distinct, KInv, Attended, NEW s \in Shells, Effect(s),
           \/ Creates(s, "cakey", "openCAKey", "writeCAKey")
           \/ Creates(s, "cacert", "openCACert", "writeCACert")
           \/ WritesKey(s, "cakey", "writeCAKey", "openCACert")
           \/ WritesCert(s, "cacert", "writeCACert", "readCAKey")
    PROVE  Attended'
<1>1. /\ \A t \in Shells \ {s} : shell'[t] = shell[t]
      /\ shell[s].pc \in CASteps /\ killed' = killed
      /\ shell[s].key \in 1..generated /\ generated \in Nat
      /\ shell[s].pc \in {"openCACert", "writeCACert"} => file["cakey"] = shell[s].key
  BY DEF Effect, Others, Creates, WritesKey, WritesCert, KInv, Shaped, HoldsPair,
         KeyFirst, CASteps
<1>2. shell[s].key \notin {None, Empty}
  BY <1>1, FilesDiffer
<1>3. /\ \A k \in KeyFiles : file'[k] = Empty =>
            file[k] = Empty
      /\ \A f \in CertFiles : file'[f] = Empty => file[f] = Empty
  <2>1. PICK f, v : f \in {"cakey", "cacert"} /\ Changes(s, f, v)
    BY ChangesIs, FilesDiffer DEF Creates, WritesKey, WritesCert
  <2>2. QED
    BY <2>1, FilesDiffer DEF Changes
<1>4. ~killed' =>
         /\ \A k \in KeyFiles : file'[k] = Empty =>
               \E t \in Shells : shell'[t].pc = "writeKey" /\ shell'[t].request.key = k
         /\ \A f \in CertFiles : file'[f] = Empty =>
               \E t \in Shells : shell'[t].pc = "writeCert" /\ shell'[t].request.cert = f
  BY <1>1, <1>3 DEF Attended, CASteps
<1>5. CASE Creates(s, "cakey", "openCAKey", "writeCAKey")
  <2>1. /\ file'["cakey"] = Empty /\ file'["cacert"] = file["cacert"]
        /\ file["cakey"] = None /\ shell'[s].pc = "writeCAKey"
    <3>1. Changes(s, "cakey", Empty)
      BY <1>5, ChangesIs, FilesDiffer DEF Creates
    <3>2. QED
      BY <1>5, <3>1, FilesDiffer DEF Creates, Changes
  <2>2. file'["cacert"] = None
    BY <2>1 DEF Attended, Present
  <2>3. QED
    BY <1>4, <2>1, <2>2, FilesDiffer DEF Attended, Present
<1>6. CASE Creates(s, "cacert", "openCACert", "writeCACert")
  <2>1. /\ file'["cacert"] = Empty /\ file'["cakey"] = file["cakey"]
        /\ file["cakey"] = shell[s].key /\ shell'[s].pc = "writeCACert"
    <3>1. Changes(s, "cacert", Empty) /\ shell[s].pc = "openCACert"
      BY <1>6, ChangesIs, FilesDiffer DEF Creates
    <3>2. QED
      BY <1>1, <1>6, <3>1, FilesDiffer DEF Creates, Changes
  <2>2. QED
    BY <1>2, <1>4, <2>1, FilesDiffer DEF Attended, Present
<1>7. CASE WritesKey(s, "cakey", "writeCAKey", "openCACert")
  <2>1. /\ file'["cakey"] = shell[s].key /\ file'["cacert"] = file["cacert"]
        /\ shell[s].pc = "writeCAKey" /\ shell'[s].pc = "openCACert"
    <3>1. Changes(s, "cakey", shell[s].key)
      BY <1>7, ChangesIs, FilesDiffer DEF WritesKey
    <3>2. QED
      BY <1>7, <3>1, FilesDiffer DEF WritesKey, Changes
  <2>2. QED
    BY <1>1, <1>2, <1>4, <2>1 DEF Attended, Present
<1>8. CASE WritesCert(s, "cacert", "writeCACert", "readCAKey")
  <2>1. /\ file'["cacert"] = Marshal(shell[s].cert) /\ file'["cakey"] = file["cakey"]
        /\ file["cakey"] = shell[s].key
    <3>1. Changes(s, "cacert", Marshal(shell[s].cert)) /\ shell[s].pc = "writeCACert"
      BY <1>8, ChangesIs, FilesDiffer DEF WritesCert
    <3>2. QED
      BY <1>1, <3>1, FilesDiffer DEF Changes
  <2>2. Marshal(shell[s].cert) \notin {None, Empty}
    BY DEF Marshal, Distinct
  <2>3. QED
    BY <1>2, <1>4, <2>1, <2>2 DEF Attended, Present
<1>9. QED
  BY <1>5, <1>6, <1>7, <1>8

\* A file of a node that was created or emptied is written next.
LEMMA NodeAttended ==
    ASSUME Distinct, KInv, Attended, NEW s \in Shells, Effect(s),
           \/ Creates(s, shell[s].request.key, "openKey", "writeKey")
           \/ Creates(s, shell[s].request.cert, "openCert", "writeCert")
           \/ WritesKey(s, shell[s].request.key, "writeKey", "openCert")
           \/ WritesCert(s, shell[s].request.cert, "writeCert", "idle")
           \/ Truncates(s)
    PROVE  Attended'
<1> DEFINE k == shell[s].request.key
           c == shell[s].request.cert
<1>1. /\ killed' = killed /\ shell[s].pc \in PastCA
      /\ shell[s].pc \notin CASteps /\ shell'[s].pc \notin CASteps
      /\ \A t \in Shells \ {s} : shell'[t] = shell[t]
  BY DEF Effect, Others, Creates, WritesKey, WritesCert, Truncates, CASteps, PastCA
<1>2. /\ Creates(s, k, "openKey", "writeKey") => k \in KeyFiles
      /\ Creates(s, c, "openCert", "writeCert") => c \in CertFiles
      /\ WritesKey(s, k, "writeKey", "openCert") => k \in KeyFiles
      /\ WritesCert(s, c, "writeCert", "idle") \/ Truncates(s) => c \in Certs
  BY Targets
<1>3. Present("cacert") /\ Marshal(shell[s].cert) \notin {None, Empty}
  BY <1>1 DEF KInv, CAStands, Marshal, Distinct
<1>4. /\ file'["cakey"] = file["cakey"] /\ Present("cacert")'
  <2>1. PICK f, v : /\ f \in KeyFiles \cup Certs /\ Changes(s, f, v)
                    /\ f = "cacert" => v # None
    BY <1>2, <1>3, ChangesIs, FilesDiffer DEF Creates, WritesKey, WritesCert, Truncates
  <2>2. QED
    BY <1>3, <2>1, FilesDiffer DEF Changes, Present
<1>5. /\ Present("cakey")'
      /\ ~killed' /\ file'["cakey"] = Empty => \E t \in Shells : shell'[t].pc = "writeCAKey"
  BY <1>1, <1>3, <1>4 DEF Attended, Present, CASteps
<1>6. CASE Creates(s, k, "openKey", "writeKey")
  <2>1. /\ Changes(s, k, Empty) /\ shell'[s].pc = "writeKey" /\ shell'[s].request.key = k
        /\ shell[s].pc = "openKey" /\ k \in KeyFiles
    BY <1>2, <1>6, ChangesIs, FilesDiffer DEF Creates, Kept
  <2> HIDE DEF k, c
  <2>2. QED
    BY <1>1, <1>4, <1>5, <2>1, FilesDiffer DEF Attended, Changes, CASteps
<1>7. CASE Creates(s, c, "openCert", "writeCert") \/ Truncates(s)
  <2>1. /\ Changes(s, c, Empty) /\ shell'[s].pc = "writeCert" /\ shell'[s].request.cert = c
        /\ shell[s].pc \in {"openCert", "truncate"} /\ c \in Certs
    BY <1>2, <1>7, ChangesIs, FilesDiffer DEF Creates, Truncates, Kept
  <2> HIDE DEF k, c
  <2>2. QED
    BY <1>1, <1>4, <1>5, <2>1, FilesDiffer DEF Attended, Changes
<1>8. CASE WritesKey(s, k, "writeKey", "openCert")
  <2>1. /\ Changes(s, k, shell[s].key) /\ shell[s].pc = "writeKey" /\ k \in KeyFiles
        /\ shell[s].key \in 1..generated
    BY <1>2, <1>8, ChangesIs, FilesDiffer DEF WritesKey, KInv, HoldsPair
  <2>2. shell[s].key # Empty
    BY <2>1, FilesDiffer DEF Changes
  <2>3. \A t \in Shells : shell[t].pc = "writeKey" /\ shell[t].request.key # k => t # s
    OBVIOUS
  <2> HIDE DEF k, c
  <2>4. QED
    BY <1>1, <1>4, <1>5, <2>1, <2>2, <2>3, FilesDiffer DEF Attended, Changes
<1>9. CASE WritesCert(s, c, "writeCert", "idle")
  <2>1. Changes(s, c, Marshal(shell[s].cert)) /\ shell[s].pc = "writeCert" /\ c \in Certs
    BY <1>2, <1>9, ChangesIs, FilesDiffer DEF WritesCert
  <2>2. \A t \in Shells : shell[t].pc = "writeCert" /\ shell[t].request.cert # c => t # s
    OBVIOUS
  <2> HIDE DEF k, c
  <2>3. QED
    BY <1>1, <1>3, <1>4, <1>5, <2>1, <2>2, FilesDiffer DEF Attended, Changes
<1>10. QED
  BY <1>6, <1>7, <1>8, <1>9

\* A CA key without its certificate, and an empty file, are left only by a
\* command that was killed, when None and Empty are no certificates.
THEOREM Complete ==
    ASSUME Distinct
    PROVE  Spec => []CompleteUnlessKilled
<1>1. Init => KInv /\ Attended
  <2>1. Init => \A f \in Files : file[f] = None
    BY DEF Init
  <2>2. QED
    BY <2>1, KeysInit, FilesDiffer DEF Attended, Present
<1>2. KInv /\ Attended /\ [Next]_vars => (KInv /\ Attended)'
  <2> SUFFICES ASSUME KInv, Attended, [Next]_vars PROVE Attended'
    BY KeysStep
  <2>1. CASE UNCHANGED <<file, shell, generated, killed, default>>
    BY <2>1 DEF Attended, Present
  <2>2. ASSUME NEW s \in Shells, Effect(s) PROVE Attended'
    BY <2>2, QuietAttended, CAAttended, NodeAttended DEF Effect, Kind
  <2>3. QED
    BY <2>1, <2>2, NextIs
<1>3. KInv /\ Attended => CompleteUnlessKilled
  <2> SUFFICES ASSUME Attended, \A s \in Shells : shell[s] = Idle, ~killed
               PROVE  /\ Present("cakey") <=> Present("cacert")
                      /\ \A f \in Files : file[f] # Empty
    BY DEF CompleteUnlessKilled
  <2>1. \A s \in Shells : shell[s].pc = "idle"
    BY DEF Idle
  <2>2. QED
    BY <2>1 DEF Attended, Files, CAFiles
<1>4. QED
  BY <1>1, <1>2, <1>3, PTL DEF Spec

-----------------------------------------------------------------------------
(* What default settings make is accepted.                                 *)

\* A command with neither a label nor a duration.
Plain(r) == r.labels = <<>> /\ r.duration = 0

\* The CA that such a command makes.
MadeCA(c) ==
    \E from \in Int : \E key :
        /\ from <= clock
        /\ c = Signed(<<>>, from, from + DefaultCA, key, key, None)

\* The certificate that it makes with the CA on disk, whose key is on disk too.
ReadCA == Unmarshal(file["cacert"])
MadeNode(c) ==
    \E from \in Int : \E key :
        /\ ReadCA.details.notBefore <= from
        /\ c = Signed(<<>>, from, from + (ReadCA.details.notAfter - from - Second), key,
                      file["cakey"], ReadCA)

\* What the commands hold on the way to the files: certificates that were made
\* so, unless the CA was signed again since, the key of the CA, and no
\* certificate that was read unless to re-sign it.
NodeSteps == {"openKey", "writeKey", "openCert", "writeCert"}
HoldsMade(s) ==
    /\ shell[s].pc \in CASteps /\ Plain(shell[s].request) => MadeCA(shell[s].cert)
    /\ shell[s].pc = "readCACert" => Readable("cakey") /\ shell[s].cakey = file["cakey"]
    /\ shell[s].pc \in {"readCert", "truncate"} => shell[s].request.op = "re-sign"
    /\ /\ shell[s].pc \in NodeSteps /\ shell[s].request.op # "re-sign"
       /\ Plain(shell[s].request) /\ "cacert" \in default
       => MadeNode(shell[s].cert)

\* What is in the files.
KeepsMade ==
    /\ "cacert" \in default => \E c : MadeCA(c) /\ file["cacert"] = Marshal(c)
    /\ \A f \in default \cap CertFiles :
          "cacert" \in default /\ \E c : MadeNode(c) /\ file[f] = Marshal(c)

DInv == KInv /\ DefaultOnDisk /\ Bounds /\ KeepsMade /\ \A s \in Shells : HoldsMade(s)

\* What a step leaves in the memory of its command: it goes on with what it
\* held, or made or read something.
Goes(s) ==
    /\ Kept(s)
    /\ \/ shell[s].pc \in CASteps /\ shell'[s].pc \in CASteps
       \/ shell[s].pc \in NodeSteps /\ shell'[s].pc \in NodeSteps
       \/ shell[s].pc = "truncate" /\ shell'[s].pc = "writeCert"
Holds(s) ==
    \/ shell'[s].pc \in {"idle", "statKey", "statCert", "readCAKey"}
    \/ Goes(s)
    \/ /\ shell'[s].pc = "openCAKey"
       /\ Plain(shell'[s].request) => MadeCA(shell'[s].cert)
    \/ /\ shell'[s].pc = "openKey" /\ Readable("cacert")
       /\ Plain(shell'[s].request) /\ "cacert" \in default => MadeNode(shell'[s].cert)
    \/ /\ shell'[s].pc = "readCACert" /\ Readable("cakey")
       /\ shell'[s].cakey = file["cakey"]
    \/ shell'[s].pc \in {"readCert", "truncate"} /\ shell'[s].request.op = "re-sign"

\* A command that starts holds nothing, or a CA that it makes.
LEMMA StartHolds ==
    ASSUME DInv, NEW s \in Shells, NEW r \in Requests, Start(s, r)
    PROVE  Holds(s)
<1> DEFINE labels == [i \in DOMAIN r.labels |-> UnmarshalText(r.labels[i])]
           q      == [r EXCEPT !.labels = labels]
<1>1. q.op = r.op /\ q.labels = labels /\ q.duration = r.duration
  BY RequestAssumption
<1>2. Shaped /\ clock \in Int
  BY DEF DInv, KInv, Bounds
<1> HIDE DEF labels, q
<1>3. CASE r.op = "generate-ca"
  <2> DEFINE key      == generated + 1
             duration == IF r.duration = 0 THEN DefaultCA ELSE r.duration
             cert     == Sign(NewCertificate(labels, clock, clock + duration, key), key, None)
             x        == Command("openCAKey", q, key, cert, None, None)
  <2>1. shell' = [shell EXCEPT ![s] = x]
    BY <1>3 DEF Start, GenerateCA, q, labels
  <2>2. Plain(q) => MadeCA(cert)
    <3>1. Plain(q) => cert = Signed(<<>>, clock, clock + DefaultCA, key, key, None)
      BY <1>1 DEF Plain, Signed
    <3> HIDE DEF cert, key
    <3>2. clock <= clock
      BY <1>2
    <3>3. QED
      BY <1>2, <3>1, <3>2 DEF MadeCA
  <2> HIDE DEF cert
  <2>3. x.pc = "openCAKey" /\ x.request = q /\ x.cert = cert
    BY Fields
  <2> HIDE DEF x
  <2>4. shell'[s] = x
    BY <1>2, <2>1, Assigns DEF Becomes
  <2>5. QED
    BY <2>2, <2>3, <2>4 DEF Holds
<1>4. CASE r.op \in {"generate", "re-sign"}
  <2>1. PICK pc \in {"statKey", "readCAKey"} :
           shell' = [shell EXCEPT ![s] = Command(pc, q, None, None, None, None)]
    BY <1>4 DEF Start, q, labels
  <2> DEFINE x == Command(pc, q, None, None, None, None)
  <2>2. x.pc = pc
    BY Fields
  <2> HIDE DEF x
  <2>3. shell'[s] = x
    BY <1>2, <2>1, Assigns DEF Becomes, x
  <2>4. QED
    BY <2>1, <2>2, <2>3 DEF Holds
<1>5. QED
  BY <1>3, <1>4, RequestAssumption

\* A command that looks at the CA, or reads it, makes one, remembers its key,
\* or makes a certificate with it.
LEMMA ReadHolds ==
    ASSUME DInv, NEW s \in Shells,
           StatCAKey(s) \/ StatCACert(s) \/ ReadCAKey(s) \/ ReadCACert(s)
    PROVE  Holds(s)
<1> DEFINE r == shell[s].request
<1>1. /\ shell[s].pc # "idle" /\ shell[s] = Field(shell[s]) /\ Shaped /\ clock \in Int
  <2>1. shell[s].pc # "idle"
    BY DEF StatCAKey, StatCACert, ReadCAKey, ReadCACert
  <2>2. Shaped /\ clock \in Int
    BY DEF DInv, KInv, Bounds
  <2>3. QED
    BY <2>1, <2>2 DEF Shaped, Idle
<1>2. ASSUME NEW pc, Goto(s, pc) PROVE shell'[s].pc = pc
  <2>1. shell'[s] = At(s, pc)
    BY <1>1, <1>2, GotoIs DEF Becomes
  <2>2. QED
    BY <2>1, Fields DEF At
<1>3. ASSUME Return(s) PROVE Holds(s)
  <2>1. shell'[s] = Idle
    BY <1>1, <1>3, ReturnIs DEF Becomes
  <2>2. QED
    BY <2>1 DEF Idle, Holds
<1>4. ASSUME NEW x, shell' = [shell EXCEPT ![s] = x] PROVE shell'[s] = x
  BY <1>1, <1>4, Assigns DEF Becomes
<1>5. CASE StatCAKey(s)
  BY <1>2, <1>5 DEF StatCAKey, Holds
<1>6. CASE StatCACert(s)
  <2>1. CASE Present("cacert")
    BY <1>2, <1>6, <2>1 DEF StatCACert, Holds
  <2>2. CASE ~Present("cacert")
    <3> DEFINE key  == generated + 1
               cert == Sign(NewCertificate(<<>>, clock, clock + DefaultCADuration(r), key),
                            key, None)
               x    == Command("openCAKey", r, key, cert, None, None)
    <3>1. shell' = [shell EXCEPT ![s] = x]
      BY <1>6, <2>2 DEF StatCACert, GenerateCA
    <3>2. Plain(r) => MadeCA(cert)
      <4>1. Plain(r) => cert = Signed(<<>>, clock, clock + DefaultCA, key, key, None)
        BY DEF Plain, Signed, DefaultCADuration
      <4> HIDE DEF cert, key
      <4>2. clock <= clock
        BY <1>1
      <4>3. QED
        BY <1>1, <4>1, <4>2 DEF MadeCA
    <3> HIDE DEF cert
    <3>3. x.pc = "openCAKey" /\ x.request = r /\ x.cert = cert
      BY Fields
    <3> HIDE DEF x
    <3>4. shell'[s] = x
      BY <1>4, <3>1
    <3>5. QED
      BY <3>2, <3>3, <3>4 DEF Holds
  <2>3. QED
    BY <2>1, <2>2
<1>7. CASE ReadCAKey(s)
  <2>1. CASE Readable("cakey")
    <3>1. shell' = [shell EXCEPT ![s].pc = "readCACert", ![s].cakey = file["cakey"]]
      BY <1>7, <2>1 DEF ReadCAKey
    <3> DEFINE x == Command("readCACert", shell[s].request, shell[s].key,
                            shell[s].cert, file["cakey"], shell[s].cacert)
    <3>2. shell' = [shell EXCEPT ![s] = x]
      BY <1>1, <3>1, KeepsCAKey
    <3>3. x.pc = "readCACert" /\ x.cakey = file["cakey"]
      BY Fields
    <3> HIDE DEF x
    <3>4. shell'[s] = x
      BY <1>4, <3>2
    <3>5. QED
      BY <2>1, <3>3, <3>4 DEF Holds
  <2>2. CASE ~Readable("cakey")
    BY <1>3, <1>7, <2>2 DEF ReadCAKey
  <2>3. QED
    BY <2>1, <2>2
<1>8. CASE ReadCACert(s)
  <2>1. CASE Return(s)
    BY <1>3, <2>1
  <2>2. CASE Readable("cacert") /\ r.op = "generate"
    <3> DEFINE key  == generated + 1
               cert == Sign(NewCertificate(r.labels, clock, NotAfter(r, ReadCA), key),
                            shell[s].cakey, ReadCA)
               x    == Command("openKey", r, key, cert, None, None)
    <3>1. shell' = [shell EXCEPT ![s] = x]
      BY <1>8, <2>2 DEF ReadCACert, ReadCA
    <3>2. shell[s].cakey = file["cakey"]
      BY <1>8 DEF DInv, HoldsMade, ReadCACert
    <3>3. "cacert" \in default => ReadCA.details.notBefore <= clock
      <4>1. SUFFICES ASSUME "cacert" \in default
                     PROVE  ReadCA.details.notBefore <= clock
        OBVIOUS
      <4>2. PICK c : MadeCA(c) /\ file["cacert"] = Marshal(c)
        BY <4>1 DEF DInv, KeepsMade
      <4>3. PICK from, k : /\ from \in Int /\ from <= clock
                           /\ c = Signed(<<>>, from, from + DefaultCA, k, k, None)
        BY <4>2 DEF MadeCA
      <4>4. ReadCA = Signed(<<>>, from, from + DefaultCA, k, k, None)
        BY <4>2, <4>3, UnlabelledSurvives DEF ReadCA, Parsed
      <4>5. ReadCA.details.notBefore = from
        BY <4>4, Shapes DEF Det, Details
      <4>6. QED
        BY <4>3, <4>5
    <3>4. Plain(r) /\ "cacert" \in default => MadeNode(cert)
      <4>1. Plain(r) => cert = Signed(<<>>, clock,
                                      clock + (ReadCA.details.notAfter - clock - Second),
                                      key, file["cakey"], ReadCA)
        BY <3>2 DEF Plain, Signed, NotAfter
      <4> HIDE DEF cert, key
      <4>2. QED
        BY <1>1, <3>3, <4>1 DEF MadeNode
    <3> HIDE DEF cert
    <3>5. x.pc = "openKey" /\ x.request = r /\ x.cert = cert
      BY Fields
    <3> HIDE DEF x
    <3>6. shell'[s] = x
      BY <1>4, <3>1
    <3>7. QED
      BY <2>2, <3>4, <3>5, <3>6 DEF Holds
  <2>3. CASE Readable("cacert") /\ r.op = "re-sign"
    <3>1. shell' = [shell EXCEPT ![s].pc = "readCert", ![s].cacert = ReadCA]
      BY <1>8, <2>3 DEF ReadCACert, ReadCA
    <3> DEFINE x == Command("readCert", shell[s].request, shell[s].key, shell[s].cert,
                            shell[s].cakey, ReadCA)
    <3>2. shell' = [shell EXCEPT ![s] = x]
      BY <1>1, <3>1, KeepsCACert
    <3>3. x.pc = "readCert" /\ x.request = r
      BY Fields
    <3> HIDE DEF x
    <3>4. shell'[s] = x
      BY <1>4, <3>2
    <3>5. QED
      BY <2>3, <3>3, <3>4 DEF Holds
  <2>4. QED
    BY <1>8, <2>1, <2>2, <2>3 DEF ReadCACert
<1>9. QED
  BY <1>5, <1>6, <1>7, <1>8

\* The other steps of a command go on with what it holds, or end it; re-sign
\* signs what it read.
LEMMA WriteHolds ==
    ASSUME DInv, NEW s \in Shells,
           \/ OpenCAKey(s) \/ WriteCAKey(s) \/ OpenCACert(s) \/ WriteCACert(s)
           \/ OpenKey(s) \/ WriteKey(s) \/ OpenCert(s) \/ WriteCert(s)
           \/ ReadCert(s) \/ Truncate(s) \/ Kill(s)
    PROVE  Holds(s)
<1>1. Shaped /\ HoldsMade(s)
  BY DEF DInv, KInv
<1>2. ASSUME Return(s) PROVE Holds(s)
  <2>1. shell'[s] = Idle
    BY <1>1, <1>2, ReturnIs DEF Becomes
  <2>2. QED
    BY <2>1 DEF Idle, Holds
<1>3. ASSUME NEW pc, Goto(s, pc), shell[s].pc # "idle" PROVE Kept(s) /\ shell'[s].pc = pc
  <2>1. shell'[s] = At(s, pc)
    BY <1>1, <1>3, GotoIs DEF Becomes
  <2>2. QED
    BY <2>1, Fields DEF At, Kept
<1>4. CASE Kill(s)
  BY <1>2, <1>4 DEF Kill
<1>5. CASE OpenCAKey(s) \/ WriteCAKey(s) \/ OpenCACert(s)
  <2>1. Return(s) \/ \E pc \in CASteps : Goto(s, pc)
    BY <1>5 DEF OpenCAKey, WriteCAKey, OpenCACert, OpenExcl, WriteKeyTo, CASteps
  <2>2. shell[s].pc \in CASteps
    BY <1>5 DEF OpenCAKey, WriteCAKey, OpenCACert, CASteps
  <2>3. QED
    BY <1>2, <1>3, <2>1, <2>2 DEF Holds, Goes, CASteps
<1>6. CASE WriteCACert(s)
  <2>1. shell[s].pc = "writeCACert" /\ (Return(s) \/ Goto(s, "readCAKey"))
    BY <1>6 DEF WriteCACert
  <2>2. QED
    BY <1>2, <1>3, <2>1 DEF Holds
<1>7. CASE OpenKey(s) \/ WriteKey(s) \/ OpenCert(s)
  <2>1. Return(s) \/ \E pc \in NodeSteps : Goto(s, pc)
    BY <1>7 DEF OpenKey, WriteKey, OpenCert, OpenExcl, WriteKeyTo, NodeSteps
  <2>2. shell[s].pc \in NodeSteps
    BY <1>7 DEF OpenKey, WriteKey, OpenCert, NodeSteps
  <2>3. QED
    BY <1>2, <1>3, <2>1, <2>2 DEF Holds, Goes, NodeSteps
<1>8. CASE WriteCert(s)
  BY <1>2, <1>8 DEF WriteCert
<1>9. CASE Truncate(s)
  BY <1>3, <1>9 DEF Truncate, Holds, Goes
<1>10. CASE ReadCert(s)
  <2>1. shell[s].pc = "readCert" /\ shell[s].request.op = "re-sign"
    BY <1>1, <1>10 DEF ReadCert, HoldsMade
  <2>2. CASE Return(s)
    BY <1>2, <2>2
  <2>3. CASE ~Return(s)
    <3>1. PICK v : shell' = [shell EXCEPT ![s].pc = "truncate", ![s].cert = v]
      BY <1>10, <2>3 DEF ReadCert
    <3>2. shell[s] = Field(shell[s])
      BY <1>1, <2>1 DEF Shaped, Idle
    <3> DEFINE x == Command("truncate", shell[s].request, shell[s].key, v,
                            shell[s].cakey, shell[s].cacert)
    <3>3. shell' = [shell EXCEPT ![s] = x]
      BY <1>1, <3>1, <3>2, KeepsCert
    <3>4. x.pc = "truncate" /\ x.request = shell[s].request
      BY Fields
    <3> HIDE DEF x
    <3>5. shell'[s] = x
      BY <1>1, <3>3, Assigns DEF Becomes
    <3>6. QED
      BY <2>1, <3>4, <3>5 DEF Holds
  <2>4. QED
    BY <2>2, <2>3
<1>11. QED
  BY <1>4, <1>5, <1>6, <1>7, <1>8, <1>9, <1>10

\* A step of a command has an effect on its shell, and holds what it may.
LEMMA NextHolds ==
    ASSUME DInv, [Next]_vars
    PROVE  \/ \E s \in Shells : Effect(s) /\ Holds(s)
           \/ UNCHANGED <<file, shell, generated, killed, default>>
<1>1. KInv
  BY DEF DInv
<1>2. CASE \E s \in Shells, r \in Requests : Start(s, r)
  BY <1>1, <1>2, StartIs, StartHolds
<1>3. ASSUME NEW s \in Shells, Step(s) \/ Kill(s) PROVE Effect(s) /\ Holds(s)
  <2>1. Effect(s)
    BY <1>1, <1>3, KillIs, ReadIs, CreateIs, WriteIs, ReadCertIs DEF Step
  <2>2. Holds(s)
    BY <1>3, ReadHolds, WriteHolds DEF Step
  <2>3. QED
    BY <2>1, <2>2
<1>4. CASE Tick
  BY <1>4 DEF Tick
<1>5. CASE UNCHANGED vars
  BY <1>5 DEF vars
<1>6. QED
  BY <1>2, <1>3, <1>4, <1>5 DEF Next

\* A certificate is written; what stays of the CA, of which the certificate is
\* lost for good when it changes; no certificate made with default settings
\* changes or is added.
WritesTo(s, f) ==
    /\ file'[f] = Marshal(shell[s].cert) /\ \A g \in Files \ {f} : file'[g] = file[g]
    /\ default' = IF OnlyDefaults(s, f) THEN default \cup {f} ELSE Without(f)
Stays ==
    /\ Readable("cakey") => file'["cakey"] = file["cakey"]
    /\ "cacert" \in default /\ "cacert" \in default' => file'["cacert"] = file["cacert"]
    /\ "cacert" \in default /\ "cacert" \notin default' => default' = {}
    /\ "cacert" \notin default /\ "cacert" \in default' =>
          \E t \in Shells : shell[t].pc = "writeCACert"
Untouched == \A f \in default' : f \in default /\ file'[f] = file[f]

\* What a step does to the files: the key of the CA stays, and its certificate
\* as long as it is one made with default settings; of the certificates made so
\* none changes and none is added but the one that is written.
LEMMA FilesStay ==
    ASSUME DInv, NEW s \in Shells, Effect(s)
    PROVE  /\ Stays
           /\ \/ Untouched
              \/ /\ shell[s].pc = "writeCACert" /\ file["cacert"] = Empty
                 /\ WritesTo(s, "cacert")
              \/ /\ shell[s].pc = "writeCert" /\ shell[s].request.cert \in CertFiles
                 /\ WritesTo(s, shell[s].request.cert)
<1> DEFINE k == shell[s].request.key
           c == shell[s].request.cert
<1>1. /\ KInv /\ DefaultOnDisk
      /\ Creates(s, k, "openKey", "writeKey") => k \in Files
      /\ Creates(s, c, "openCert", "writeCert") => c \in Files
      /\ WritesKey(s, k, "writeKey", "openCert") => k \in Keys
      /\ WritesCert(s, c, "writeCert", "idle") \/ Truncates(s) =>
            c \in Certs /\ (c = "cacert" => shell[s].request.op = "re-sign")
  BY Targets, FilesDiffer DEF DInv
<1>2. CASE Passive(s) \/ Fresh(s) \/ Resigns(s)
  BY <1>2 DEF Passive, Fresh, Resigns, Stays, Untouched
<1>3. ASSUME NEW f \in Files, NEW from, NEW to, Creates(s, f, from, to)
      PROVE  Stays /\ Untouched
  <2>1. Changes(s, f, Empty) /\ file[f] = None /\ default' = default
    BY <1>1, <1>3, ChangesIs DEF Creates
  <2>2. f \notin default
    BY <1>1, <2>1 DEF DefaultOnDisk, Readable
  <2>3. \A g \in Files \ {f} : file'[g] = file[g]
    BY <2>1 DEF Changes
  <2>4. default \subseteq Files
    BY <1>1, FilesDiffer DEF DefaultOnDisk
  <2>5. QED
    BY <2>1, <2>2, <2>3, <2>4, FilesDiffer DEF Stays, Untouched, Readable
<1>4. ASSUME NEW f \in Keys, NEW from, NEW to, WritesKey(s, f, from, to), file[f] = Empty
      PROVE  Stays /\ Untouched
  <2>1. Changes(s, f, shell[s].key) /\ default' = default
    BY <1>1, <1>4, ChangesIs, FilesDiffer DEF WritesKey
  <2>2. f \notin Certs
    BY FilesDiffer
  <2>3. \A g \in Files \ {f} : file'[g] = file[g]
    BY <2>1 DEF Changes
  <2>4. \A g \in default : g \in Files \ {f}
    BY <1>1, <2>2, FilesDiffer DEF DefaultOnDisk
  <2>5. QED
    BY <1>4, <2>1, <2>2, <2>3, <2>4, FilesDiffer DEF Stays, Untouched, Readable
<1>5. ASSUME NEW f \in Certs, NEW v, Changes(s, f, v), default' = {}
      PROVE  Stays /\ Untouched
  BY <1>5, FilesDiffer DEF Changes, Stays, Untouched
<1>6. CASE WritesCert(s, c, "writeCert", "idle")
  <2>1. /\ c \in Certs /\ Changes(s, c, Marshal(shell[s].cert)) /\ shell[s].pc = "writeCert"
        /\ default' = IF OnlyDefaults(s, c) THEN default \cup {c} ELSE Without(c)
    BY <1>1, <1>6, ChangesIs, FilesDiffer DEF WritesCert
  <2>2. c = "cacert" => default' = {}
    BY <1>1, <1>6, <2>1 DEF OnlyDefaults, Without
  <2>3. ASSUME c # "cacert" PROVE Stays /\ WritesTo(s, c) /\ c \in CertFiles
    <3>1. c \in CertFiles /\ WritesTo(s, c)
      BY <2>1, <2>3, FilesDiffer DEF WritesTo, Changes
    <3>2. "cacert" \in default' <=> "cacert" \in default
      BY <2>1, <2>3 DEF Without
    <3>3. file'["cakey"] = file["cakey"] /\ file'["cacert"] = file["cacert"]
      BY <2>3, <3>1, FilesDiffer DEF WritesTo
    <3>4. QED
      BY <3>1, <3>2, <3>3 DEF Stays
  <2>4. QED
    BY <1>5, <2>1, <2>2, <2>3
<1>7. CASE Truncates(s)
  <2>1. c \in Certs /\ Changes(s, c, Empty) /\ default' = Without(c)
    BY <1>1, <1>7, ChangesIs, FilesDiffer DEF Truncates
  <2> HIDE DEF c
  <2>2. CASE c = "cacert"
    BY <1>5, <2>1, <2>2 DEF Without
  <2>3. CASE c # "cacert"
    <3>1. \A g \in Files \ {c} : file'[g] = file[g]
      BY <2>1 DEF Changes
    <3>2. c # "cakey" /\ default \subseteq Files
      BY <1>1, <2>1, FilesDiffer DEF DefaultOnDisk
    <3>3. default' = default \ {c}
      BY <2>1, <2>3 DEF Without
    <3>4. QED
      BY <2>3, <3>1, <3>2, <3>3, FilesDiffer DEF Stays, Untouched
  <2>4. QED
    BY <2>2, <2>3
<1>8. /\ shell[s].pc = "writeCAKey" => file["cakey"] = Empty
      /\ shell[s].pc = "writeCACert" => file["cacert"] = Empty
      /\ shell[s].pc = "writeKey" => file[k] = Empty
  BY <1>1 DEF KInv, WritesOwn
<1>9. CASE Creates(s, k, "openKey", "writeKey")
  BY <1>1, <1>3, <1>9
<1>10. CASE Creates(s, c, "openCert", "writeCert")
  BY <1>1, <1>3, <1>10
<1>11. CASE Creates(s, "cakey", "openCAKey", "writeCAKey")
  BY <1>3, <1>11, FilesDiffer
<1>12. CASE Creates(s, "cacert", "openCACert", "writeCACert")
  BY <1>3, <1>12, FilesDiffer
<1>13. CASE WritesKey(s, k, "writeKey", "openCert")
  BY <1>1, <1>4, <1>8, <1>13 DEF WritesKey
<1>14. CASE WritesKey(s, "cakey", "writeCAKey", "openCACert")
  BY <1>4, <1>8, <1>14, FilesDiffer DEF WritesKey
<1>15. CASE WritesCert(s, "cacert", "writeCACert", "readCAKey")
  <2>1. /\ shell[s].pc = "writeCACert" /\ file["cacert"] = Empty
        /\ Changes(s, "cacert", Marshal(shell[s].cert))
        /\ default' = IF OnlyDefaults(s, "cacert") THEN default \cup {"cacert"}
                                                   ELSE Without("cacert")
    BY <1>1, <1>8, <1>15, ChangesIs, FilesDiffer DEF WritesCert
  <2>2. WritesTo(s, "cacert") /\ file'["cakey"] = file["cakey"]
    BY <2>1, FilesDiffer DEF WritesTo, Changes
  <2>3. "cacert" \notin default
    BY <1>1, <2>1 DEF DefaultOnDisk, Readable
  <2>4. Stays
    BY <2>1, <2>2, <2>3 DEF Stays
  <2>5. QED
    BY <2>1, <2>2, <2>4
<1>16. QED
  BY <1>2, <1>6, <1>7, <1>9, <1>10, <1>11, <1>12, <1>13, <1>14, <1>15 DEF Effect, Kind

\* The clock does not go back.
LEMMA ClockGoesOn ==
    ASSUME DInv, [Next]_vars
    PROVE  clock \in Int /\ clock' \in Int /\ clock <= clock'
<1>1. clock' = clock \/ clock' = clock + 1
  BY DEF Next, vars, Start, Step, StatCAKey, StatCACert, OpenExcl, OpenCAKey,
         OpenCACert, OpenKey, OpenCert, WriteKeyTo, WriteCAKey, WriteKey, WriteCertTo,
         WriteCACert, WriteCert, ReadCAKey, ReadCACert, ReadCert, Truncate, Kill, Tick
<1>2. clock \in Int
  BY DEF DInv, Bounds
<1>3. QED
  BY <1>1, <1>2

\* What was made stays so.
LEMMA MadeStays ==
    ASSUME DInv, clock \in Int, clock' \in Int, clock <= clock', Stays, NEW c
    PROVE  /\ MadeCA(c) => MadeCA(c)'
           /\ "cacert" \in default /\ "cacert" \in default' /\ MadeNode(c) => MadeNode(c)'
<1>1. MadeCA(c) => MadeCA(c)'
  <2>1. SUFFICES ASSUME MadeCA(c) PROVE MadeCA(c)'
    OBVIOUS
  <2>2. PICK from, key :
           /\ from \in Int /\ from <= clock
           /\ c = Signed(<<>>, from, from + DefaultCA, key, key, None)
    BY <2>1 DEF MadeCA
  <2>3. from <= clock'
    BY <2>2
  <2>4. QED
    BY <2>2, <2>3 DEF MadeCA
<1>2. "cacert" \in default /\ "cacert" \in default' /\ MadeNode(c) => MadeNode(c)'
  <2>1. SUFFICES ASSUME "cacert" \in default, "cacert" \in default', MadeNode(c)
                 PROVE  MadeNode(c)'
    OBVIOUS
  <2>2. Readable("cakey")
    <3>1. KInv /\ Readable("cacert")
      BY <2>1 DEF DInv, DefaultOnDisk
    <3>2. file["cakey"] \in 1..generated /\ generated \in Nat
      BY <3>1 DEF KInv, KeyFirst, KeyOfCA, Shaped
    <3>3. QED
      BY <3>2, FilesDiffer DEF Readable
  <2>3. file'["cakey"] = file["cakey"] /\ file'["cacert"] = file["cacert"]
    BY <2>1, <2>2 DEF Stays
  <2>4. ReadCA' = ReadCA
    BY <2>3 DEF ReadCA
  <2>5. QED
    BY <2>1, <2>3, <2>4 DEF MadeNode
<1>3. QED
  BY <1>1, <1>2

\* The memory of the commands.
LEMMA MemoryKept ==
    ASSUME DInv, NEW s \in Shells, Effect(s), Holds(s), Stays,
           clock \in Int, clock' \in Int, clock <= clock', NEW t \in Shells
    PROVE  HoldsMade(t)'
<1>1. Readable("cakey") => Readable("cakey")' /\ file'["cakey"] = file["cakey"]
  BY DEF Stays, Readable
<1>2. \A c : /\ MadeCA(c) => MadeCA(c)'
             /\ "cacert" \in default /\ "cacert" \in default' /\ MadeNode(c) => MadeNode(c)'
  BY MadeStays
<1>3. /\ HoldsMade(t) /\ HoldsMade(s)
      /\ \/ Readable("cacert") \/ shell[s].pc \in NodeSteps \/ shell[t].pc \in NodeSteps
         => ("cacert" \in default' => "cacert" \in default)
  BY DEF DInv, KInv, WritesOwn, CAStands, Readable, Stays, NodeSteps, PastCA
<1>4. /\ MadeCA(shell[t].cert)' <=> \E c : c = shell'[t].cert /\ MadeCA(c)'
      /\ MadeNode(shell[t].cert)' <=> \E c : c = shell'[t].cert /\ MadeNode(c)'
  BY DEF MadeCA, MadeNode
<1>5. CASE t # s
  <2>1. shell'[t] = shell[t]
    BY <1>5 DEF Effect, Others
  <2>2. QED
    BY <1>1, <1>2, <1>3, <1>4, <2>1 DEF HoldsMade, Plain
<1>6. CASE t = s
  <2>1. CASE Goes(s)
    <3>1. /\ shell'[s].cert = shell[s].cert /\ shell'[s].request = shell[s].request
      BY <2>1 DEF Goes, Kept
    <3>2. CASE shell[s].pc \in CASteps /\ shell'[s].pc \in CASteps
      BY <1>2, <1>3, <1>4, <1>6, <3>1, <3>2 DEF HoldsMade, Plain, CASteps, NodeSteps
    <3>3. CASE shell[s].pc \in NodeSteps /\ shell'[s].pc \in NodeSteps
      BY <1>1, <1>2, <1>3, <1>4, <1>6, <3>1, <3>3
         DEF HoldsMade, Plain, CASteps, NodeSteps
    <3>4. CASE shell[s].pc = "truncate" /\ shell'[s].pc = "writeCert"
      BY <1>3, <1>6, <3>1, <3>4 DEF HoldsMade, CASteps, NodeSteps
    <3>5. QED
      BY <2>1, <3>2, <3>3, <3>4 DEF Goes
  <2>2. CASE ~Goes(s)
    BY <1>1, <1>2, <1>3, <1>4, <1>6, <2>2 DEF Holds, HoldsMade, Plain, CASteps, NodeSteps
  <2>3. QED
    BY <2>1, <2>2
<1>7. QED
  BY <1>5, <1>6

\* The files.
LEMMA DiskKept ==
    ASSUME DInv, NEW s \in Shells, Effect(s), Stays,
           clock \in Int, clock' \in Int, clock <= clock'
    PROVE  KeepsMade'
<1>1. \A c : /\ MadeCA(c) => MadeCA(c)'
             /\ "cacert" \in default /\ "cacert" \in default' /\ MadeNode(c) => MadeNode(c)'
  BY MadeStays
<1>2. /\ KeepsMade /\ HoldsMade(s) /\ \A f \in default : Readable(f)
  BY DEF DInv, DefaultOnDisk
<1>3. /\ "cacert" \in default /\ "cacert" \in default' => file'["cacert"] = file["cacert"]
      /\ "cacert" \in default /\ default' # {} => "cacert" \in default'
  BY DEF Stays
<1>4. ASSUME NEW f \in default \cap CertFiles, file'[f] = file[f], default' # {}
      PROVE  "cacert" \in default' /\ \E c : MadeNode(c)' /\ file'[f] = Marshal(c)
  <2>1. "cacert" \in default /\ "cacert" \in default'
    BY <1>2, <1>3, <1>4 DEF KeepsMade
  <2>2. PICK c : MadeNode(c) /\ file[f] = Marshal(c)
    BY <1>2 DEF KeepsMade
  <2>3. MadeNode(c)' /\ file'[f] = Marshal(c)
    BY <1>1, <1>4, <2>1, <2>2
  <2>4. QED
    BY <2>1, <2>3
<1>5. ASSUME "cacert" \in default, "cacert" \in default'
      PROVE  \E c : MadeCA(c)' /\ file'["cacert"] = Marshal(c)
  <2>1. PICK c : MadeCA(c) /\ file["cacert"] = Marshal(c)
    BY <1>2, <1>5 DEF KeepsMade
  <2>2. MadeCA(c)' /\ file'["cacert"] = Marshal(c)
    BY <1>1, <1>3, <1>5, <2>1
  <2>3. QED
    BY <2>2
<1>6. CASE Untouched
  BY <1>4, <1>5, <1>6 DEF Untouched, KeepsMade
<1>7. CASE shell[s].pc = "writeCACert" /\ file["cacert"] = Empty /\ WritesTo(s, "cacert")
  <2>1. "cacert" \notin default /\ default \cap CertFiles = {}
    BY <1>2, <1>7 DEF Readable, KeepsMade
  <2>2. default' \cap CertFiles = {}
    BY <1>7, <2>1, FilesDiffer DEF WritesTo, Without
  <2>3. ASSUME "cacert" \in default'
        PROVE  \E c : MadeCA(c)' /\ file'["cacert"] = Marshal(c)
    <3>1. OnlyDefaults(s, "cacert")
      BY <1>7, <2>1, <2>3 DEF WritesTo, Without
    <3>2. MadeCA(shell[s].cert)
      BY <1>2, <1>7, <3>1 DEF OnlyDefaults, HoldsMade, Plain, CASteps
    <3>3. PICK c : c = shell[s].cert
      OBVIOUS
    <3>4. MadeCA(c)' /\ file'["cacert"] = Marshal(c)
      BY <1>1, <1>7, <3>2, <3>3 DEF WritesTo
    <3>5. QED
      BY <3>4
  <2>4. QED
    BY <2>2, <2>3 DEF KeepsMade
<1>8. CASE /\ shell[s].pc = "writeCert" /\ shell[s].request.cert \in CertFiles
           /\ WritesTo(s, shell[s].request.cert)
  <2> DEFINE f == shell[s].request.cert
  <2>1. f \in CertFiles /\ f # "cacert" /\ "cacert" \in Files \ {f}
    BY <1>8, FilesDiffer
  <2>2. "cacert" \in default' <=> "cacert" \in default
    BY <1>8, <2>1 DEF WritesTo, Without
  <2>3. ASSUME NEW g \in default' \cap CertFiles, g # f
        PROVE  "cacert" \in default' /\ \E c : MadeNode(c)' /\ file'[g] = Marshal(c)
    <3>1. g \in default /\ file'[g] = file[g]
      BY <1>8, <2>3, FilesDiffer DEF WritesTo, Without
    <3>2. QED
      BY <1>4, <2>3, <3>1
  <2>4. ASSUME f \in default'
        PROVE  "cacert" \in default' /\ \E c : MadeNode(c)' /\ file'[f] = Marshal(c)
    <3>1. OnlyDefaults(s, f)
      BY <1>8, <2>1, <2>4 DEF WritesTo, Without
    <3>2. "cacert" \in default /\ shell[s].request.op # "re-sign" /\ Plain(shell[s].request)
      BY <2>1, <3>1 DEF OnlyDefaults, Plain
    <3>3. MadeNode(shell[s].cert)
      BY <1>2, <1>8, <3>2 DEF HoldsMade, NodeSteps
    <3>4. PICK c : c = shell[s].cert
      OBVIOUS
    <3>5. MadeNode(c)' /\ file'[f] = Marshal(c)
      BY <1>1, <1>8, <2>2, <3>2, <3>3, <3>4 DEF WritesTo
    <3>6. QED
      BY <2>2, <3>2, <3>5
  <2> HIDE DEF f
  <2>5. QED
    BY <1>5, <2>2, <2>3, <2>4 DEF KeepsMade
<1>9. QED
  BY <1>6, <1>7, <1>8, FilesStay

\* Every step preserves the invariant.
LEMMA MadeStep ==
    ASSUME Distinct, DInv, [Next]_vars
    PROVE  DInv'
<1>1. KInv' /\ DefaultOnDisk' /\ Bounds'
  BY KeysStep, DefaultStep, BoundsStep DEF DInv
<1>2. clock \in Int /\ clock' \in Int /\ clock <= clock'
  BY ClockGoesOn
<1>3. ASSUME NEW s \in Shells, Effect(s), Holds(s)
      PROVE  KeepsMade' /\ \A t \in Shells : HoldsMade(t)'
  <2>1. Stays
    BY <1>3, FilesStay
  <2>2. QED
    BY <1>2, <1>3, <2>1, MemoryKept, DiskKept
<1>4. ASSUME UNCHANGED <<file, shell, generated, killed, default>>
      PROVE  KeepsMade' /\ \A t \in Shells : HoldsMade(t)'
  <2>1. Stays /\ file' = file /\ default' = default /\ shell' = shell
    BY <1>4 DEF Stays
  <2>2. \A c : /\ MadeCA(c) => MadeCA(c)'
               /\ "cacert" \in default /\ MadeNode(c) => MadeNode(c)'
    BY <1>2, <2>1, MadeStays
  <2>3. KeepsMade'
    BY <2>1, <2>2 DEF DInv, KeepsMade
  <2>4. ASSUME NEW t \in Shells PROVE HoldsMade(t)'
    <3>1. HoldsMade(t) /\ shell'[t] = shell[t]
      BY <2>1 DEF DInv
    <3>2. /\ MadeCA(shell[t].cert)' <=> \E c : c = shell'[t].cert /\ MadeCA(c)'
          /\ MadeNode(shell[t].cert)' <=> \E c : c = shell'[t].cert /\ MadeNode(c)'
      BY DEF MadeCA, MadeNode
    <3>3. QED
      BY <2>1, <2>2, <3>1, <3>2 DEF HoldsMade, Plain, Readable
  <2>5. QED
    BY <2>3, <2>4
<1>5. KeepsMade' /\ \A t \in Shells : HoldsMade(t)'
  BY <1>3, <1>4, NextHolds
<1>6. QED
  BY <1>1, <1>5 DEF DInv

\* None is not a set of one certificate: no pool that was loaded is None.
NoPool == \A c : {c} # None

\* What is parsed of the files of such a CA and of a certificate that it issued
\* is accepted until the certificate expires.
LEMMA MadeIsAccepted ==
    ASSUME Distinct, NoPool, DInv, NEW f \in default \cap CertFiles,
           ~Expired(Loaded(f), clock)
    PROVE  CAPool # None /\ Verify(Loaded(f), clock, CAPool)
<1>1. PICK raw : "cacert" \in default /\ MadeCA(raw) /\ file["cacert"] = Marshal(raw)
  BY DEF DInv, KeepsMade
<1>2. PICK from, key :
         /\ from \in Int /\ from <= clock
         /\ raw = Signed(<<>>, from, from + DefaultCA, key, key, None)
  BY <1>1 DEF MadeCA
<1> DEFINE ca == Signed(<<>>, from, from + DefaultCA, key, key, None)
<1>3. ReadCA = ca /\ \A k : CheckSignature(ca, k) <=> k = key
  <2>1. /\ Parsed(<<>>, from, from + DefaultCA, key, key, None) = ca
        /\ \A k : CheckSignature(ca, k) <=> k = key
    BY UnlabelledSurvives
  <2>2. QED
    BY <1>1, <1>2, <2>1 DEF ReadCA, Parsed
<1>4. /\ ca.details.notBefore = from /\ ca.details.notAfter = from + DefaultCA
      /\ ca.details.publicKey = key /\ ca.details.isCA = TRUE
  BY Shapes DEF Det, Details
<1>5. ca # None
  BY Shapes DEF Distinct
<1>6. file["cakey"] = key
  <2>1. Readable("cacert")
    BY <1>1 DEF DInv, DefaultOnDisk
  <2>2. file["cakey"] = PublicKey(ReadCA)
    BY <2>1, KeyIsKept DEF DInv, KInv, KeyFirst, KeyOfCA, ReadCA
  <2>3. QED
    BY <1>3, <1>4, <2>2 DEF PublicKey
<1> HIDE DEF ca
<1>7. PICK rawNode : MadeNode(rawNode) /\ file[f] = Marshal(rawNode)
  BY DEF DInv, KeepsMade
<1>8. PICK since, pub :
         /\ since \in Int /\ ca.details.notBefore <= since
         /\ rawNode = Signed(<<>>, since, since + (ca.details.notAfter - since - Second), pub,
                             key, ca)
  BY <1>3, <1>6, <1>7 DEF MadeNode
<1> DEFINE to   == since + (ca.details.notAfter - since - Second)
           cert == Signed(<<>>, since, to, pub, key, ca)
<1>9. Loaded(f) = cert /\ CheckSignature(cert, key)
  <2>1. /\ Parsed(<<>>, since, to, pub, key, ca) = cert
        /\ CheckSignature(cert, key)
    BY UnlabelledSurvives
  <2>2. QED
    BY <1>7, <1>8, <2>1 DEF Loaded, Parsed
<1>10. /\ cert.details.notBefore = since /\ cert.details.notAfter = to
       /\ cert.details.issuer = Sha256Sum(ca)
  BY <1>5, Shapes DEF Det, Details
<1> HIDE DEF cert
<1>11. /\ clock \in Int /\ since \in Int
       /\ ca.details.notBefore \in Int /\ ca.details.notAfter \in Int
  BY <1>2, <1>4, <1>8, BoundAssumption DEF DInv, Bounds
<1>12. /\ since <= clock /\ clock <= to /\ to <= ca.details.notAfter
       /\ ~Expired(ca, clock)
  <2>1. to = ca.details.notAfter - 1
    BY <1>11 DEF Second
  <2> HIDE DEF to
  <2>2. since <= clock /\ clock <= to
    BY <1>9, <1>10, <1>11, <2>1 DEF Expired
  <2>3. ca.details.notBefore <= clock /\ clock <= ca.details.notAfter
    BY <1>8, <1>11, <2>1, <2>2
  <2>4. QED
    BY <1>11, <2>1, <2>2, <2>3 DEF Expired
<1> HIDE DEF to
<1>13. CAPool = {ca}
  <2>1. {Unmarshal(r) : r \in {file["cacert"]}} = {ca}
    BY <1>3 DEF ReadCA
  <2>2. AddCACertificate(ca)
    BY <1>3, <1>4 DEF AddCACertificate
  <2>3. QED
    BY <1>12, <2>1, <2>2 DEF CAPool, NewCAPool
<1>14. Sha256Sum(ca) # None
  BY DEF Sha256Sum, Marshal, Distinct
<1>15. ca \in IssuersOf(cert, {ca})
  BY <1>10, <1>14 DEF IssuersOf
<1>16. CheckRootConstrains(cert, ca)
  BY <1>8, <1>10, <1>11, <1>12 DEF CheckRootConstrains
<1>17. Verify(cert, clock, {ca})
  BY <1>4, <1>9, <1>12, <1>15, <1>16 DEF Verify
<1>18. QED
  BY <1>9, <1>13, <1>17 DEF NoPool

\* Certificates made with default settings only are accepted until they expire or
\* the CA is signed again, whatever other commands run in between and wherever
\* they are killed, when None and Empty are neither certificates nor pools.
THEOREM DefaultAccepted ==
    ASSUME Distinct, NoPool
    PROVE  Spec => []DefaultIsAccepted
<1>1. Init => DInv
  <2> SUFFICES ASSUME Init PROVE DInv
    OBVIOUS
  <2>1. KInv /\ DefaultOnDisk /\ KeepsMade
    BY KeysInit DEF Init, DefaultOnDisk, KeepsMade
  <2>2. clock \in 1..MaxClock /\ typed \in 0..MaxCommands
    BY BoundAssumption DEF Init
  <2>3. killed \in BOOLEAN
    BY Zenon DEF Init
  <2>4. ASSUME NEW s \in Shells PROVE HoldsMade(s)
    <3>1. shell[s].pc = "idle"
      BY DEF Init, Idle
    <3>2. QED
      BY <3>1 DEF HoldsMade, CASteps, NodeSteps
  <2>5. QED
    BY <2>1, <2>2, <2>3, <2>4 DEF DInv, Bounds
<1>2. DInv /\ [Next]_vars => DInv'
  BY MadeStep
<1>3. DInv => DefaultIsAccepted
  <2> SUFFICES ASSUME DInv, NEW f \in default \cap CertFiles, ~Expired(Loaded(f), clock)
               PROVE  CAPool # None /\ Verify(Loaded(f), clock, CAPool)
    BY DEF DefaultIsAccepted
  <2>1. QED
    BY MadeIsAccepted
<1>4. QED
  BY <1>1, <1>2, <1>3, PTL DEF Spec
================================================================================
