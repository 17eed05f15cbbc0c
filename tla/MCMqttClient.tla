---------------------------- MODULE MCMqttClient ----------------------------
(***************************************************************************)
(* An instance of MqttClient: the body of a message takes two reads to     *)
(* arrive, that of an answer one, and the answer to a ping has none.       *)
(***************************************************************************)
EXTENDS MqttClient

TheInbound == {"CONNACK", "PUBLISH", "PUBACK", "PUBREC", "PUBREL", "PUBCOMP",
               "SUBACK", "UNSUBACK", "PINGRESP"}
TheBody == [ty \in TheInbound |-> CASE ty = "PUBLISH" -> 2 [] ty = "PINGRESP" -> 0 [] OTHER -> 1]
=============================================================================
