------------------------------- MODULE MCNats -------------------------------
(* Instances of NatsBroker for TLC.                                        *)
EXTENDS NatsBroker, TLC

CONSTANTS w1, w2

TwoMessages == {1, 2}
OnlyTwo == {2}
OneAndTwo == w1 :> 1 @@ w2 :> 2
=============================================================================
