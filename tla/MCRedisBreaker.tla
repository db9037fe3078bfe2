---------------------------- MODULE MCRedisBreaker ----------------------------
(* Values for model-checking RedisBreaker: calls on two hosts whose clocks *)
(* are one unit apart.                                                     *)
EXTENDS RedisBreaker, TLC

CONSTANTS r1, r2, r3

MCCalls == {r1, r2, r3}
MCAhead == r1 :> 0 @@ r2 :> 1 @@ r3 :> 0
=============================================================================
