------------------------------ MODULE MCSignaling ------------------------------
(* Instances of Signaling for TLC. *)
EXTENDS Signaling

NoneTwo == [egress |-> 0, ingress |-> 2]
OneNone == [egress |-> 1, ingress |-> 0]
================================================================================
