----------------------------- MODULE MCAetherlight -----------------------------
(* Instances of Aetherlight for TLC. *)
EXTENDS Aetherlight

CONSTANTS k1, k2, r1, r2, r3

TwoIds        == {k1, k2}
ThreeRequests == {r1, r2, r3}
\* One second inside the window on one side, one outside on the other.
EdgeSkews     == {-6, 5}
================================================================================
