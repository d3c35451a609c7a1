------------------------- MODULE MCCliCertificate -------------------------
(* An instance of CliCertificate for TLC. *)
EXTENDS CliCertificate, TLC

CA(duration, labels) ==
    [op |-> "generate-ca", key |-> "cakey", cert |-> "cacert",
     duration |-> duration, labels |-> labels]
Gen(key, duration, labels) ==
    [op |-> "generate", key |-> key, cert |-> "cert",
     duration |-> duration, labels |-> labels]
Again(cert, duration, labels) ==
    [op |-> "re-sign", key |-> "key", cert |-> cert,
     duration |-> duration, labels |-> labels]

(* Two key files and one certificate file: a command may name a new key    *)
(* file with an old certificate file.  generate and re-sign may name a     *)
(* file of the CA for that of a node.                                      *)
TwoKeys == {"key", "key2"}
OneCert == {"cert"}
All == {CA(0, <<>>), CA(1, <<2>>), Gen("key", 0, <<>>), Gen("key2", 0, <<>>),
        Gen("key", 2, <<>>), Again("cert", 0, <<>>), Again("cert", 1, <<2>>),
        Gen("cacert", 0, <<>>), Again("cacert", 0, <<>>), Again("cakey", 0, <<>>)}
Symmetric == Permutations(Shells)
=============================================================================
