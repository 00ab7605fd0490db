-------------------------- MODULE MqttManagerProofs --------------------------
(***************************************************************************)
(* Proofs about MqttManager for every payload and every size of the        *)
(* client's outbox.                                                        *)
(***************************************************************************)
EXTENDS MqttManager, TLAPS

\* Before subscribe() is called in a connection.
BeforeSubscribe == {"set_connected", "check_data_3", "publish_data_3", "subscribe"}

\* SUBACKs are awaited in a connection only, once subscribe() has been called.
AwaitInv ==
    /\ conn # "online" => awaiting = 0
    /\ handler \in BeforeSubscribe => awaiting = 0

\* While an event is on its way to setState(), the client is what the event says.
EventInv ==
    /\ handler = "set_connected" => conn = "online" /\ nested = "nobody"
    /\ nested # "nobody" => conn = "offline"

MqttInv == TypeOK /\ AwaitInv /\ EventInv /\ StateFollowsClient

-----------------------------------------------------------------------------
(* A message that fits leaves the outbox within its bound. *)
LEMMA OutboxType ==
    ASSUME TypeOK, NEW m \in Message, Len(outbox) < MaxOutbox,
           outbox' = Append(outbox, m)
    PROVE  outbox' \in Seq(Message) /\ Len(outbox') <= MaxOutbox
BY MqttAssumption DEF TypeOK

(* What a publish() of task t does to the client. *)
LEMMA PublishType ==
    ASSUME TypeOK, NEW t \in {"client", "app"}, NEW m \in Message,
           NEW r \in {"id", "fail"}, ClientPublish(t, m, r)
    PROVE  /\ outbox' \in Seq(Message) /\ Len(outbox') <= MaxOutbox
           /\ \/ UNCHANGED <<conn, awaiting, nested>>
              \/ conn = "online" /\ conn' = "offline" /\ awaiting' = 0 /\ nested' = t
<1>1. CASE UNCHANGED <<clientVars, nested>>
    BY <1>1 DEF TypeOK, clientVars
<1>2. CASE Len(outbox) < MaxOutbox /\ outbox' = Append(outbox, m) /\ MayBreak(t)
    BY <1>2, OutboxType DEF MayBreak
<1>3. QED
    BY <1>1, <1>2 DEF ClientPublish

(* The manager starts without a client. *)
LEMMA MqttInit == Init => MqttInv
<1>1. SUFFICES ASSUME Init PROVE MqttInv
    OBVIOUS
<1>2. saw \in BOOLEAN
    BY <1>1, Zenon DEF Init
<1>3. outbox \in Seq(Message) /\ Len(outbox) <= MaxOutbox
    BY <1>1, MqttAssumption DEF Init
<1>4. QED
    BY <1>1, <1>2, <1>3
    DEF Init, MqttInv, TypeOK, AwaitInv, EventInv, StateFollowsClient, BeforeSubscribe

(* Every step keeps the state and the client together. *)
LEMMA MqttNext == MqttInv /\ [Next]_vars => MqttInv'
<1>1. SUFFICES ASSUME MqttInv, [Next]_vars PROVE MqttInv'
    OBVIOUS
<1> USE <1>1
        DEF MqttInv, TypeOK, AwaitInv, EventInv, StateFollowsClient, BeforeSubscribe,
            clientVars, appVars
<1>2. CASE CreateClient \/ StartClient
    BY <1>2 DEF CreateClient, StartClient
<1>3. CASE Connected \/ Disconnected \/ Subscribed
    BY <1>3 DEF Connected, Disconnected, Subscribed, Unlocked
<1>4. CASE Published
    <2>1. outbox' \in Seq(Message) /\ Len(outbox') <= MaxOutbox
        BY <1>4, MqttAssumption DEF Published
    <2>2. QED
        BY <1>4, <2>1 DEF Published
<1>5. CASE SetConnected \/ HandlerCheck
    BY <1>5 DEF SetConnected, HandlerCheck, HandlerStep
<1>6. CASE HandlerPublish
    <2>1. PICK m \in Message, r \in {"id", "fail"} : ClientPublish("client", m, r)
        BY <1>6 DEF HandlerPublish, Message
    <2>2. /\ outbox' \in Seq(Message) /\ Len(outbox') <= MaxOutbox
          /\ \/ UNCHANGED <<conn, awaiting, nested>>
             \/ /\ conn = "online" /\ conn' = "offline" /\ awaiting' = 0
                /\ nested' = "client"
        BY <2>1, PublishType
    <2>3. QED
        BY <1>6, <2>2 DEF HandlerPublish, HandlerStep
<1>7. CASE HandlerSubscribe \/ HandlerUnsubscribe
    BY <1>7 DEF HandlerSubscribe, HandlerUnsubscribe, HandlerStep, MayBreak
<1>8. CASE SetDisconnected
    BY <1>8 DEF SetDisconnected, AfterDisconnect
<1>9. CASE AppCheck
    <2>1. saw' \in BOOLEAN
        BY <1>9, Zenon DEF AppCheck
    <2>2. QED
        BY <1>9, <2>1 DEF AppCheck
<1>10. CASE AppPublish
    <2>1. PICK r \in {"id", "fail"} : ClientPublish("app", data, r) /\ result' = r
        BY <1>10 DEF AppPublish
    <2>2. /\ outbox' \in Seq(Message) /\ Len(outbox') <= MaxOutbox
          /\ \/ UNCHANGED <<conn, awaiting, nested>>
             \/ conn = "online" /\ conn' = "offline" /\ awaiting' = 0 /\ nested' = "app"
        BY <2>1, PublishType DEF Message
    <2>3. QED
        BY <1>10, <2>1, <2>2 DEF AppPublish, Unlocked
<1>11. CASE AppReturn
    BY <1>11 DEF AppReturn
<1>12. CASE UNCHANGED vars
    BY <1>12 DEF vars
<1>13. QED
    BY <1>2, <1>3, <1>4, <1>5, <1>6, <1>7, <1>8, <1>9, <1>10, <1>11, <1>12 DEF Next

(* The outbox and the awaited SUBACKs stay within their bounds. *)
THEOREM TypeCorrect == Spec => []TypeOK
<1>1. MqttInv => TypeOK
    BY DEF MqttInv
<1>2. QED
    BY <1>1, MqttInit, MqttNext, PTL DEF Spec

(* isConnected() agrees with the client whenever no event is on its way, also
   after a connection that breaks inside the handler of MQTT_EVENT_CONNECTED. *)
THEOREM ConnectedIsTrue == Spec => []StateFollowsClient
<1>1. MqttInv => StateFollowsClient
    BY DEF MqttInv
<1>2. QED
    BY <1>1, MqttInit, MqttNext, PTL DEF Spec

=============================================================================
