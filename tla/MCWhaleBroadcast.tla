-------------------------- MODULE MCWhaleBroadcast --------------------------
(* Instances of WhaleBroadcast for TLC.                                    *)
EXTENDS WhaleBroadcast, TLC

CONSTANTS c1, c2, c3

(* Websockets are interchangeable (only where no liveness is checked).     *)
Interchangeable == Permutations(Client)

SafetyTopic   == <<"w1", "bad", "w2">>
LivenessTopic == <<"bad", "w1">>
=============================================================================
