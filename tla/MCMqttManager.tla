--------------------------- MODULE MCMqttManager ---------------------------
(***************************************************************************)
(* MqttManager with one payload of the application and an outbox of three  *)
(* messages, so that the client also refuses a message.                    *)
(***************************************************************************)
EXTENDS MqttManager

=============================================================================
