-------------------------- MODULE CliCertificate --------------------------
(***************************************************************************)
(* The certificate commands of cli-certificate.go: generate, generate-ca   *)
(* and re-sign, run by several shells on one directory.  A command is a    *)
(* sequence of file accesses, one step each; between two of them another   *)
(* command may run, the clock may advance, and the command may be killed.  *)
(* A write that fails leaves what a kill at that point leaves.             *)
(*                                                                         *)
(* A request is what a user types: op, the key and cert files, duration (0 *)
(* when --duration is absent) and the labels.  A tick of the clock is a    *)
(* second.                                                                 *)
(***************************************************************************)
EXTENDS Certificate, Integers, FiniteSets

CONSTANTS
    Shells,         \* who runs commands
    Requests,       \* the commands a user may type
    KeyFiles,       \* files of private keys of nodes
    CertFiles,      \* files of certificates of nodes
    Empty,          \* content of a file that is created but not written
    DefaultCA,      \* default duration of a CA (8760h)
    MaxClock,       \* bound on the clock
    MaxCommands     \* bound on the number of commands

Second == 1

CAFiles == {"cakey", "cacert"}
Files   == CAFiles \cup KeyFiles \cup CertFiles

\* The files that hold keys, and those that hold certificates.
Keys  == {"cakey"} \cup KeyFiles
Certs == {"cacert"} \cup CertFiles

(* There is one CA pair, which every command finds under the same two      *)
(* names.  Any command may also name one of these as the key or the        *)
(* certificate of a node; no other name serves as both a key and a         *)
(* certificate.                                                            *)
ASSUME RequestAssumption ==
    \A r \in Requests :
        /\ r \in [op : {"generate", "generate-ca", "re-sign"},
                  key : Files, cert : Files, duration : Nat, labels : Seq(Nat)]
        /\ r.op = "generate-ca" => r.key = "cakey" /\ r.cert = "cacert"
        /\ r.op = "generate" => /\ r.key \in KeyFiles \cup CAFiles
                                /\ r.cert \in CertFiles \cup CAFiles

ASSUME FileAssumption ==
    /\ KeyFiles \cap CertFiles = {}
    /\ CAFiles \cap (KeyFiles \cup CertFiles) = {}
    /\ None # Empty /\ None \notin Nat /\ Empty \notin Nat

ASSUME BoundAssumption ==
    DefaultCA \in Nat /\ MaxClock \in Nat \ {0} /\ MaxCommands \in Nat

VARIABLES
    file,       \* content of every file: None (absent), Empty, a key or a raw certificate
    shell,      \* state of every shell: the command it runs and its local variables
    clock,
    typed,      \* number of commands typed so far
    generated,  \* number of key pairs generated so far
    killed,     \* whether some command was killed
    default     \* history: certificates to which only default settings contributed

vars == <<file, shell, clock, typed, generated, killed, default>>

Idle == [pc |-> "idle"]

(* What a command keeps between its steps: the request, what it writes     *)
(* next (the certificate and its key) and what it read (the key and the    *)
(* certificate of the CA).                                                 *)
Command(pc, r, key, cert, cakey, cacert) ==
    [pc |-> pc, request |-> r, key |-> key, cert |-> cert,
     cakey |-> cakey, cacert |-> cacert]

Init == /\ file = [f \in Files |-> None]
        /\ shell = [s \in Shells |-> Idle]
        /\ clock = 1
        /\ typed = 0
        /\ generated = 0
        /\ killed = FALSE
        /\ default = {}

Present(f)  == file[f] # None
Readable(f) == file[f] \notin {None, Empty}

Goto(s, pc) == shell' = [shell EXCEPT ![s].pc = pc]
Return(s)   == shell' = [shell EXCEPT ![s] = Idle]

-----------------------------------------------------------------------------
(* CliCertificateGenerateCA.Run up to its first file access, for the       *)
(* request r of shell s: a new key pair and a certificate that it signs.   *)
GenerateCA(s, r, duration, labels) ==
    LET key  == generated + 1
        cert == Sign(NewCertificate(labels, clock, clock + duration, key), key, None)
    IN  /\ shell' = [shell EXCEPT ![s] = Command("openCAKey", r, key, cert, None, None)]
        /\ generated' = key

(* A command starts; the labels are parsed from the command line.          *)
Start(s, r) ==
    LET labels == [i \in DOMAIN r.labels |-> UnmarshalText(r.labels[i])]
        q      == [r EXCEPT !.labels = labels]
    IN  /\ shell[s] = Idle /\ typed < MaxCommands
        /\ typed' = typed + 1
        /\ \/ /\ r.op = "generate-ca"
              /\ GenerateCA(s, q, IF r.duration = 0 THEN DefaultCA ELSE r.duration, labels)
           \/ /\ r.op \in {"generate", "re-sign"}
              /\ shell' = [shell EXCEPT ![s] =
                    Command(IF r.op = "generate" THEN "statKey" ELSE "readCAKey",
                            q, None, None, None, None)]
              /\ UNCHANGED generated
        /\ UNCHANGED <<file, clock, killed, default>>

(* os.Stat of the CA key: only if it is absent does the result for the     *)
(* certificate matter.                                                     *)
StatCAKey(s) ==
    /\ shell[s].pc = "statKey"
    /\ Goto(s, IF Present("cakey") THEN "readCAKey" ELSE "statCert")
    /\ UNCHANGED <<file, clock, typed, generated, killed, default>>

(* os.Stat of the CA certificate; neither exists: generate makes a CA. Its *)
(* duration is the default one only if --duration is absent, and 0         *)
(* otherwise.                                                              *)
DefaultCADuration(r) == IF r.duration = 0 THEN DefaultCA ELSE 0

StatCACert(s) ==
    /\ shell[s].pc = "statCert"
    /\ \/ /\ Present("cacert")
          /\ Goto(s, "readCAKey")
          /\ UNCHANGED generated
       \/ /\ ~Present("cacert")
          /\ LET r == shell[s].request IN GenerateCA(s, r, DefaultCADuration(r), <<>>)
    /\ UNCHANGED <<file, clock, typed, killed, default>>

\* MUTANT: without O_EXCL an existing file is opened and truncated.
OpenTruncMut(s, f, next) ==
    /\ file' = [file EXCEPT ![f] = Empty]
    /\ Goto(s, next)
    /\ UNCHANGED <<clock, typed, generated, killed, default>>

\* MUTANT: a command that cannot create its file cleans up and removes it.
OpenCleanupMut(s, f, next) ==
    /\ file' = [file EXCEPT ![f] = IF Present(f) THEN None ELSE Empty]
    /\ IF Present(f) THEN Return(s) ELSE Goto(s, next)
    /\ UNCHANGED <<clock, typed, generated, killed, default>>

(* os.OpenFile with O_CREATE|O_EXCL: creates the file or fails.            *)
OpenExcl(s, f, next) ==
    /\ \/ /\ ~Present(f)
          /\ file' = [file EXCEPT ![f] = Empty]
          /\ Goto(s, next)
       \/ /\ Present(f)
          /\ Return(s)
          /\ UNCHANGED file
    /\ UNCHANGED <<clock, typed, generated, killed, default>>

OpenCAKey(s)  == shell[s].pc = "openCAKey" /\ OpenExcl(s, "cakey", "writeCAKey")
OpenCACert(s) == shell[s].pc = "openCACert" /\ OpenExcl(s, "cacert", "writeCACert")
OpenKey(s)    == shell[s].pc = "openKey" /\ OpenExcl(s, shell[s].request.key, "writeKey")
OpenCert(s)   == shell[s].pc = "openCert" /\ OpenExcl(s, shell[s].request.cert, "writeCert")

WriteKeyTo(s, f, next) ==
    /\ file' = [file EXCEPT ![f] = shell[s].key]
    /\ Goto(s, next)
    /\ UNCHANGED <<clock, typed, generated, killed, default>>

WriteCAKey(s) == shell[s].pc = "writeCAKey" /\ WriteKeyTo(s, "cakey", "openCACert")
WriteKey(s)   == shell[s].pc = "writeKey" /\ WriteKeyTo(s, shell[s].request.key, "openCert")

(* Only default settings went into the certificate s writes to f: neither  *)
(* a label nor a duration, nor a previous certificate, and a CA of the     *)
(* same kind.                                                              *)
OnlyDefaults(s, f) ==
    LET r == shell[s].request
    IN  /\ r.labels = <<>> /\ r.duration = 0 /\ r.op # "re-sign"
        /\ f # "cacert" => "cacert" \in default

(* What is left of these certificates when f is replaced: none if it is    *)
(* the CA's, which gets another sum.                                       *)
Without(f) == IF f = "cacert" THEN {} ELSE default \ {f}

WriteCertTo(s, f) ==
    /\ file' = [file EXCEPT ![f] = Marshal(shell[s].cert)]
    /\ default' = IF OnlyDefaults(s, f) THEN default \cup {f} ELSE Without(f)
    /\ UNCHANGED <<clock, typed, generated, killed>>

(* The end of generate-ca; generate goes on with reading what it wrote.    *)
WriteCACert(s) ==
    /\ shell[s].pc = "writeCACert"
    /\ WriteCertTo(s, "cacert")
    /\ IF shell[s].request.op = "generate" THEN Goto(s, "readCAKey") ELSE Return(s)

(* os.ReadFile and parsing of the CA key: an absent or empty file fails.   *)
ReadCAKey(s) ==
    /\ shell[s].pc = "readCAKey"
    /\ IF Readable("cakey")
         THEN shell' = [shell EXCEPT ![s].pc = "readCACert", ![s].cakey = file["cakey"]]
         ELSE Return(s)
    /\ UNCHANGED <<file, clock, typed, generated, killed, default>>

\* MUTANT: the certificate lasts as long as the CA does in all.
NotAfterMut(r, ca) ==
    clock + (IF r.duration = 0 THEN ca.details.notAfter - ca.details.notBefore - Second
                               ELSE r.duration)

(* The default duration of a certificate ends a second before its CA.      *)
NotAfter(r, ca) ==
    clock + (IF r.duration = 0 THEN ca.details.notAfter - clock - Second ELSE r.duration)

(* Reading the CA certificate; generate then makes the key pair and the    *)
(* certificate.                                                            *)
ReadCACert(s) ==
    LET r    == shell[s].request
        ca   == Unmarshal(file["cacert"])
        key  == generated + 1
        cert == Sign(NewCertificate(r.labels, clock, NotAfter(r, ca), key),
                     shell[s].cakey, ca)
    IN  /\ shell[s].pc = "readCACert"
        /\ \/ /\ ~Readable("cacert")
              /\ Return(s)
              /\ UNCHANGED generated
           \/ /\ Readable("cacert") /\ r.op = "generate"
              /\ shell' = [shell EXCEPT ![s] = Command("openKey", r, key, cert, None, None)]
              /\ generated' = key
           \/ /\ Readable("cacert") /\ r.op = "re-sign"
              /\ shell' = [shell EXCEPT ![s].pc = "readCert", ![s].cacert = ca]
              /\ UNCHANGED generated
        /\ UNCHANGED <<file, clock, typed, killed, default>>

WriteCert(s) ==
    /\ shell[s].pc = "writeCert"
    /\ WriteCertTo(s, shell[s].request.cert)
    /\ Return(s)

-----------------------------------------------------------------------------
\* MUTANT: the certificate gets a new key with its new signature.
ReSignedNewKey(c, r) ==
    [c EXCEPT !.details.notBefore = clock, !.details.notAfter = clock + r.duration,
              !.details.publicKey = generated + 1]

(* re-sign reads the certificate and moves its validity to now, keeping    *)
(* its duration and its labels unless others are given.                    *)
ReSigned(c, r) ==
    LET d == c.details
        duration == IF r.duration = 0 THEN d.notAfter - d.notBefore ELSE r.duration
    IN  [c EXCEPT !.details.notBefore = clock,
                  !.details.notAfter  = clock + duration,
                  !.details.labels    = IF r.labels # <<>> THEN r.labels ELSE @]

(* Reading the certificate, which may be that of the CA; the file of a key *)
(* does not parse as one.                                                  *)
ReadCert(s) ==
    LET r == shell[s].request
    IN  /\ shell[s].pc = "readCert"
        /\ IF r.cert \in Certs /\ Readable(r.cert)
             THEN shell' = [shell EXCEPT
                    ![s].pc = "truncate",
                    ![s].cert = Sign(ReSigned(Unmarshal(file[r.cert]), r),
                                      shell[s].cakey, shell[s].cacert)]
             ELSE Return(s)
        /\ UNCHANGED <<file, clock, typed, generated, killed, default>>

\* MUTANT: the CA certificate that was read is emptied, not the one named.
TruncateCAMut(s) ==
    /\ shell[s].pc = "truncate"
    /\ file' = [file EXCEPT !["cacert"] = Empty]
    /\ default' = {}
    /\ Goto(s, "writeCert")
    /\ UNCHANGED <<clock, typed, generated, killed>>

(* os.WriteFile truncates the file, then writes it.                        *)
Truncate(s) ==
    LET f == shell[s].request.cert
    IN  /\ shell[s].pc = "truncate"
        /\ file' = [file EXCEPT ![f] = Empty]
        /\ default' = Without(f)
        /\ Goto(s, "writeCert")
        /\ UNCHANGED <<clock, typed, generated, killed>>

-----------------------------------------------------------------------------
Kill(s) == /\ shell[s] # Idle
           /\ Return(s)
           /\ killed' = TRUE
           /\ UNCHANGED <<file, clock, typed, generated, default>>

Tick == /\ clock < MaxClock
        /\ clock' = clock + 1
        /\ UNCHANGED <<file, shell, typed, generated, killed, default>>

Step(s) ==
    \/ StatCAKey(s)  \/ StatCACert(s)
    \/ OpenCAKey(s)  \/ WriteCAKey(s) \/ OpenCACert(s) \/ WriteCACert(s)
    \/ ReadCAKey(s)  \/ ReadCACert(s)
    \/ OpenKey(s)    \/ WriteKey(s)   \/ OpenCert(s)   \/ WriteCert(s)
    \/ ReadCert(s)   \/ Truncate(s)

Next == \/ \E s \in Shells, r \in Requests : Start(s, r)
        \/ \E s \in Shells : Step(s) \/ Kill(s)
        \/ Tick

Spec == Init /\ [][Next]_vars

-----------------------------------------------------------------------------
(* Loaded(f): what runAetherlight reads from a certificate file; CAPool:   *)
(* the pool it makes of the CA file.                                       *)
Loaded(f) == Unmarshal(file[f])
CAPool    == NewCAPool({file["cacert"]}, clock)

(* Every variable stays within its domain; a certificate, in a file or in  *)
(* the memory of a command, is of a key that was generated, and a command  *)
(* that writes a certificate holds its key or has read it.                 *)
CertOf(c) == c.details.publicKey \in 1..generated

TypeOK ==
    /\ \A f \in Keys : file[f] \in {None, Empty} \cup (1..generated)
    /\ \A f \in Certs : Readable(f) => CertOf(file[f])
    /\ \A s \in Shells : shell[s] # Idle =>
          /\ shell[s].cert # None => CertOf(shell[s].cert)
          /\ shell[s].key \in {None} \cup (1..generated)
          /\ shell[s].pc \in {"openKey", "writeKey", "openCert"} =>
                shell[s].cert.details.publicKey = shell[s].key
          /\ shell[s].pc = "readCert" => shell[s].cacert # None /\ shell[s].cakey # None
    /\ clock \in 1..MaxClock
    /\ typed \in 0..MaxCommands /\ generated \in Nat
    /\ killed \in BOOLEAN
    /\ default \subseteq {f \in Certs : Readable(f)}

(* Whatever commands overlap or are killed, the private key of every       *)
(* certificate on disk is on disk: the pair of the CA matches, and so does *)
(* a key file for every certificate of a node, re-signed or not.           *)
KeyMatchesCertificate ==
    /\ Readable("cacert") => file["cakey"] = Loaded("cacert").details.publicKey
    /\ \A f \in CertFiles : Readable(f) =>
          \E k \in KeyFiles : file[k] = Loaded(f).details.publicKey

(* No command ever changes a private key once it is written, whatever      *)
(* files it names: the certificates of that key would be lost.  The CA     *)
(* certificate is replaced in one way only, by a re-sign that is told to   *)
(* (--cert cacert.pem), which no check of the command prevents and after   *)
(* which no certificate issued before is accepted.                         *)
ReSignsCA(s) ==
    /\ shell[s].pc \in {"truncate", "writeCert"}
    /\ shell[s].request.op = "re-sign" /\ shell[s].request.cert = "cacert"

KeysAreKept ==
    [][/\ \A f \in Keys : Readable(f) => file'[f] = file[f]
       /\ Readable("cacert") /\ file'["cacert"] # file["cacert"] =>
             \E s \in Shells : ReSignsCA(s)]_vars

(* Certificates made with the default settings only are accepted by a peer *)
(* that loads them and the CA file, from the moment they are on disk until *)
(* they expire or the CA is signed again, also when that happens while     *)
(* they are being made: what the commands write survives marshalling and   *)
(* parsing, is signed by the key of the CA in the file and ends before the *)
(* CA does.                                                                *)
DefaultIsAccepted ==
    \A f \in default \cap CertFiles :
        Expired(Loaded(f), clock) \/ (CAPool # None /\ Verify(Loaded(f), clock, CAPool))

(* A CA key without its certificate, with which every later generate fails *)
(* and no command makes a new pair, and a certificate that is lost while   *)
(* it is re-signed, are left only by a command that was killed.            *)
CompleteUnlessKilled ==
    (\A s \in Shells : shell[s] = Idle) /\ ~killed =>
        /\ Present("cakey") <=> Present("cacert")
        /\ \A f \in Files : file[f] # Empty
=============================================================================
