-------------------------- MODULE MCStatefulObject --------------------------
(***************************************************************************)
(* Two tasks and two objects on one EventLogger with room for two lines,   *)
(* so that the log fills, overflows and is printed within a few calls.     *)
(***************************************************************************)
EXTENDS StatefulObject

CONSTANTS t1, t2, wifi, mqtt

MCLine == [id : Object, state : State]

\* As deployed: WifiManager is set by the event loop task, MqttManager by the
\* MQTT client's task.
OneWriterEach == {<<t1, wifi>>, <<t2, mqtt>>}

\* As the public interface allows: updateCredentials() sets WifiManager from the
\* application's task while the event loop sets it too.
SharedObject == {t1, t2} \X {wifi}

=============================================================================
