--------------------------- MODULE MCDataChannelConn ---------------------------
(* Instances of DataChannelConn for TLC. *)
EXTENDS DataChannelConn, TLC

CONSTANTS w1, w2

OneWriter  == {w1}
TwoWriters == {w1, w2}
WriteSizes == {1, 2}
================================================================================
