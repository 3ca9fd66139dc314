------------------------------ MODULE MCRedis -------------------------------
(* Instances of RedisBroker for TLC.                                       *)
EXTENDS RedisBroker, TLC

CONSTANTS w1, w2

TwoMessages == {1, 2}
ThreeMessages == {1, 2, 3}
OnlyTwo == {2}
OnlyThree == {3}
OneAndTwo == w1 :> 1 @@ w2 :> 2
BothTwo == w1 :> 2 @@ w2 :> 2
=============================================================================
