---------------------------- MODULE MqttManager ----------------------------
(***************************************************************************)
(* lib/Connectivity/MqttManager.{hpp,cpp}: the wrapper around the esp-mqtt *)
(* client, which tracks whether the client is connected and publishes.     *)
(*                                                                         *)
(* The client is external.  What the code relies on: it connects and       *)
(* reconnects by itself; it calls eventHandler() with its own lock held,   *)
(* so that no other task is inside a client call meanwhile; a QoS 1        *)
(* message goes into the outbox, whether or not the client is connected,   *)
(* and stays there until the broker acknowledges it.  A call that finds    *)
(* the connection broken closes it and delivers MQTT_EVENT_DISCONNECTED to *)
(* eventHandler() before it returns, also from within eventHandler().      *)
(*                                                                         *)
(* Two tasks call publish(): the client's, from eventHandler(), and the    *)
(* application's.  isConnected() reads the state without any lock.         *)
(***************************************************************************)
EXTENDS Integers, Sequences

CONSTANTS
    Payload,     \* what the application publishes
    MaxOutbox    \* bound: messages the client keeps before it refuses more

ASSUME MqttAssumption ==
    /\ Payload \cap {"data_3", "data"} = {}
    /\ MaxOutbox \in Nat

VARIABLES
    conn,        \* the client: none (nullptr), created, offline, online
    state,       \* mqttState_t
    outbox,      \* the messages the client keeps, oldest first
    awaiting,    \* SUBACKs to come in this connection
    handler,     \* where the client's task is in eventHandler()
    nested,      \* DISCONNECTED is being delivered inside a call of this task
    app,         \* where the application is in publish()
    data,        \* the application's argument
    saw,         \* what isConnected() told the last publish() of the application
    result       \* what that publish() returned: none yet, id, or fail (-1)

clientVars == <<conn, outbox, awaiting>>
appVars == <<app, data, saw, result>>
vars == <<clientVars, state, handler, nested, appVars>>

Message == Payload \cup {"data_3", "data"}

Init ==
    /\ conn = "none"
    /\ state = "NOT_INITIALIZED"
    /\ outbox = <<>>
    /\ awaiting = 0
    /\ handler = "idle"
    /\ nested = "nobody"
    /\ app = "idle"
    /\ data \in Payload
    /\ saw = FALSE
    /\ result = "none"

-----------------------------------------------------------------------------
\* init(): no result is checked; without a client every later call fails.

CreateClient ==
    /\ conn = "none"
    /\ conn' = "created"
    /\ UNCHANGED <<outbox, awaiting, state, handler, nested, appVars>>

StartClient ==
    /\ conn = "created"
    /\ conn' = "offline"
    /\ UNCHANGED <<outbox, awaiting, state, handler, nested, appVars>>

-----------------------------------------------------------------------------
\* The client.

\* Its lock is free: nobody is inside a call or a delivery.
Unlocked == handler = "idle" /\ nested = "nobody"

Connected ==
    /\ Unlocked
    /\ conn = "offline"
    /\ conn' = "online"
    /\ handler' = "set_connected"
    /\ UNCHANGED <<outbox, awaiting, state, nested, appVars>>

Disconnected ==
    /\ Unlocked
    /\ conn = "online"
    /\ conn' = "offline"
    /\ awaiting' = 0
    /\ nested' = "client"
    /\ UNCHANGED <<outbox, state, handler, appVars>>

Subscribed ==
    /\ Unlocked
    /\ conn = "online"
    /\ awaiting > 0
    /\ awaiting' = awaiting - 1
    /\ handler' = "check_data"
    /\ UNCHANGED <<conn, outbox, state, nested, appVars>>

\* PUBACK.  MQTT_EVENT_PUBLISHED, like the remaining events, is only logged.
Published ==
    /\ Unlocked
    /\ conn = "online"
    /\ outbox # <<>>
    /\ outbox' = Tail(outbox)
    /\ UNCHANGED <<conn, awaiting, state, handler, nested, appVars>>

\* A call of task t that uses the connection may find it broken.
MayBreak(t) ==
    \/ UNCHANGED <<conn, nested>> /\ awaiting' = awaiting
    \/ /\ conn = "online"
       /\ conn' = "offline"
       /\ awaiting' = 0
       /\ nested' = t

\* esp_mqtt_client_publish(client, topic, m, 0, qos = 1, 0) returns r.
ClientPublish(t, m, r) ==
    \/ /\ r = "fail"
       /\ \/ conn = "none"
          \/ Len(outbox) >= MaxOutbox
       /\ UNCHANGED <<clientVars, nested>>
    \/ /\ conn # "none"
       /\ Len(outbox) < MaxOutbox
       /\ outbox' = Append(outbox, m)
       /\ MayBreak(t)
       /\ r = "fail" => conn' # conn

-----------------------------------------------------------------------------
\* eventHandler(): each line of a case is a step of the client's task.

HandlerStep(at, next) ==
    /\ handler = at
    /\ nested = "nobody"
    /\ handler' = next
    /\ UNCHANGED appVars

\* case MQTT_EVENT_CONNECTED: the state is set before anything is sent.
SetConnected ==
    /\ HandlerStep("set_connected", "check_data_3")
    /\ state' = "CONNECTED"
    /\ UNCHANGED <<clientVars, nested>>

\* publish() asks isConnected(), logs when it is not, and goes on all the same.
HandlerCheck ==
    /\ \/ HandlerStep("check_data_3", "publish_data_3")
       \/ HandlerStep("check_data", "publish_data")
    /\ UNCHANGED <<clientVars, state, nested>>

HandlerPublish ==
    /\ \/ /\ HandlerStep("publish_data_3", "subscribe")
          /\ \E r \in {"id", "fail"} : ClientPublish("client", "data_3", r)
       \/ /\ HandlerStep("publish_data", "idle")
          /\ \E r \in {"id", "fail"} : ClientPublish("client", "data", r)
    /\ UNCHANGED state

\* Faulty: the subscription is requested twice.
SubscribeTwice ==
    /\ HandlerStep("subscribe", "unsubscribe")
    /\ \/ conn = "online" /\ awaiting' = awaiting + 2 /\ UNCHANGED <<conn, nested>>
       \/ MayBreak("client")
    /\ UNCHANGED <<outbox, state>>

\* Fails, and is not retried, once the connection is gone.
HandlerSubscribe ==
    /\ HandlerStep("subscribe", "unsubscribe")
    /\ \/ conn = "online" /\ awaiting' = awaiting + 1 /\ UNCHANGED <<conn, nested>>
       \/ MayBreak("client")
    /\ UNCHANGED <<outbox, state>>

HandlerUnsubscribe ==
    /\ HandlerStep("unsubscribe", "idle")
    /\ MayBreak("client")
    /\ UNCHANGED <<outbox, state>>

\* Faulty: an event that arrives while another one is handled is dropped.
DroppedWhenBusy == IF handler = "idle" THEN "DISCONNECTED" ELSE state

\* case MQTT_EVENT_DISCONNECTED
AfterDisconnect == "DISCONNECTED"

SetDisconnected ==
    /\ nested # "nobody"
    /\ nested' = "nobody"
    /\ state' = AfterDisconnect
    /\ UNCHANGED <<clientVars, handler, appVars>>

-----------------------------------------------------------------------------
\* publish() by the application.

AppCheck ==
    /\ app = "idle"
    /\ data' \in Payload
    /\ saw' = (state = "CONNECTED")
    /\ result' = "none"
    /\ app' = "publish"
    /\ UNCHANGED <<clientVars, state, handler, nested>>

\* msg_id = -1 is overwritten by what the client answers.
AppPublish ==
    /\ app = "publish"
    /\ Unlocked
    /\ \E r \in {"id", "fail"} :
           /\ ClientPublish("app", data, r)
           /\ result' = r
    /\ app' = "return"
    /\ UNCHANGED <<state, handler, data, saw>>

AppReturn ==
    /\ app = "return"
    /\ nested # "app"
    /\ app' = "idle"
    /\ UNCHANGED <<clientVars, state, handler, nested, data, saw, result>>

-----------------------------------------------------------------------------
Next ==
    \/ CreateClient
    \/ StartClient
    \/ Connected
    \/ Disconnected
    \/ Subscribed
    \/ Published
    \/ SetConnected
    \/ HandlerCheck
    \/ HandlerPublish
    \/ HandlerSubscribe
    \/ HandlerUnsubscribe
    \/ SetDisconnected
    \/ AppCheck
    \/ AppPublish
    \/ AppReturn

Spec == Init /\ [][Next]_vars

-----------------------------------------------------------------------------
(* Type invariant. *)
TypeOK ==
    /\ conn \in {"none", "created", "offline", "online"}
    /\ state \in {"NOT_INITIALIZED", "DISCONNECTED", "CONNECTED"}
    /\ outbox \in Seq(Message) /\ Len(outbox) <= MaxOutbox
    /\ awaiting \in 0 .. 1
    /\ handler \in {"idle", "set_connected", "check_data_3", "publish_data_3",
                    "subscribe", "unsubscribe", "check_data", "publish_data"}
    /\ nested \in {"nobody", "client", "app"}
    /\ app \in {"idle", "publish", "return"}
    /\ data \in Payload
    /\ saw \in BOOLEAN
    /\ result \in {"none", "id", "fail"}

(* isConnected() is true exactly while the client is connected, but for the
   moment an event is on its way to setState(): a connection that breaks in the
   middle of the handler of MQTT_EVENT_CONNECTED does not leave CONNECTED
   behind. *)
StateFollowsClient ==
    handler # "set_connected" /\ nested = "nobody" =>
        (state = "CONNECTED" <=> conn = "online")

(* "MQTT not connected, fail to publish message", msg_id = -1 (publish()), and
   PublishResult not_connected (README.md): a publish() that found the manager
   not connected reports failure. *)
NotConnectedFails ==
    app = "idle" /\ result # "none" /\ ~saw => result = "fail"

=============================================================================
