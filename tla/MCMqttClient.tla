---------------------------- MODULE MCMqttClient ----------------------------
(* Instances of MqttClient for TLC.                                        *)
EXTENDS MqttClient, TLC

CONSTANTS p1, p2, p3, b1, m1

\* QoS of what the broker publishes.
NoQos  == [m \in {} |-> 0]
Qos(n) == m1 :> n
Qos0 == Qos(0)
Qos1 == Qos(1)
Qos2 == Qos(2)
IdSymmetry == Permutations({p1, p2, p3})
=============================================================================
