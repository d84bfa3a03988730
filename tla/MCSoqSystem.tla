---------------------------- MODULE MCSoqSystem -----------------------------
(* An instance of SoqSystem: one error, so that three in a row make a       *)
(* correction; its moving average stays at zero.                            *)
EXTENDS SoqSystem

MCErrors == {3}
MCLines == [l \in {"heading", "IMU:0"} |-> 1]
=============================================================================
