------------------------------ MODULE MCNode -------------------------------
(* An instance of Node for TLC. *)
EXTENDS Node, TLC

CONSTANTS e1, e2, ing, c1, c2, c3

Authority(key) == Sign(NewCertificate(<<>>, 1, 9, key), key, None)
A == Authority("a")
B == Authority("b")

Issue(key, ca, from, to) ==
    Unmarshal(Marshal(Sign(NewCertificate(<<>>, from, to, key), ca.details.publicKey, ca)))

\* The first egress may connect again while its last connection winds down.
Owners == (c1 :> e1) @@ (c2 :> e1) @@ (c3 :> e2)

\* The certificate of the first egress is not valid yet, then valid, then
\* expired.  The second egress is of another CA; everyone trusts both.
Certs == (ing :> Issue("i", A, 1, 9)) @@ (e1 :> Issue("1", A, 2, 2)) @@ (e2 :> Issue("2", B, 1, 9))
Pools == [n \in Nodes |-> {A, B}]
=============================================================================
