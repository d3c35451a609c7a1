-------------------------------- MODULE MCTunnel --------------------------------
(* Instances of Tunnel for TLC. *)
EXTENDS Tunnel, TLC

CONSTANT c1

NoConn  == {}
OneConn == {c1}

Web   == [local |-> <<"0.0.0.0", "80">>, remote |-> <<"0.0.0.0", "8080">>]
Admin == [local |-> <<"0.0.0.0", "90">>, remote |-> <<"0.0.0.0", "9090">>]

JustWeb     == <<Web>>
WebAndAdmin == <<Web, Admin>>
AllowWeb    == {<<"0.0.0.0", "8080">>}
================================================================================
