------------------------- MODULE WifiManagerProofs -------------------------
(***************************************************************************)
(* Proofs about WifiManager for every MaxRetry, every back-off and every   *)
(* length of the event queue.                                              *)
(***************************************************************************)
EXTENDS WifiManager, TLAPS

EventSeq == Seq({"sta_start", "disconnected", "got_ip"})

-----------------------------------------------------------------------------
(* An empty queue is a queue. *)
LEMMA NoEvents == <<>> \in EventSeq /\ Len(<<>>) = 0
BY DEF EventSeq

(* A posted event keeps the queue a queue, and within its bound. *)
LEMMA PostType ==
    ASSUME TypeOK, NEW e \in {"sta_start", "disconnected", "got_ip"}, Post(e)
    PROVE  events' \in EventSeq /\ Len(events') <= MaxEvents
BY WifiAssumption DEF TypeOK, Post, EventSeq

(* What esp_wifi_connect() does to the driver. *)
LEMMA ConnectType ==
    ASSUME TypeOK, ConnectOk
    PROVE  /\ link # "off"
           /\ link' \in {"down", "connecting", "up"}
           /\ events' \in EventSeq
           /\ Len(events') <= MaxEvents
<1>1. CASE UNCHANGED events
    BY <1>1 DEF TypeOK, ConnectOk, EventSeq
<1>2. CASE link = "up" /\ link' = "connecting" /\ Post("disconnected")
    BY <1>2, PostType
<1>3. QED
    BY <1>1, <1>2 DEF ConnectOk

(* notify_all() changes where reconnectTask() is only if it sleeps. *)
LEMMA NotifyType ==
    ASSUME Notify
    PROVE  /\ missed' \in BOOLEAN
           /\ \/ rt \notin {"sleep", "tsleep"} /\ rt' = rt
              \/ rt = "sleep" /\ rt' = "check"
              \/ rt = "tsleep" /\ rt' = "tcheck"
<1>1. missed' \in BOOLEAN
    BY Zenon DEF Notify
<1>2. CASE rt = "sleep"
    BY <1>2 DEF Notify
<1>3. CASE rt = "tsleep"
    BY <1>3 DEF Notify
<1>4. CASE rt \notin {"sleep", "tsleep"}
    BY <1>4 DEF Notify
<1>5. QED
    BY <1>1, <1>2, <1>3, <1>4

(* After notify_all() reconnectTask() sleeps only if it was on its way to. *)
LEMMA NotifyWakes ==
    ASSUME Notify, rt' \in {"block", "sleep"}
    PROVE  rt = "block" /\ missed'
<1>1. rt = "block"
    BY NotifyType
<1>2. missed' = (missed \/ rt = "block")
    BY Zenon DEF Notify
<1>3. QED
    BY <1>1, <1>2

(* What a reset leaves of the count. *)
LEMMA ResetType ==
    ASSUME CountReset
    PROVE  /\ retryCount' = 0 /\ attempts' = 0
           /\ rt = "add" => charged' = 1
           /\ rt = "store" => charged' = attempts + charged
           /\ rt \notin {"add", "store"} => charged' = 0
BY DEF CountReset, Uncleared

-----------------------------------------------------------------------------
(* What keeps the count in range: between the comparison with MaxRetry and the
   store it may only fall. *)
CountInRange ==
    /\ rt = "add" => retryCount < MaxRetry
    /\ rt = "store" => tmp \in 1 .. MaxRetry

(* The count, or the register that is about to become the count, holds every
   attempt since the last reset, those that the reset left, and nothing else. *)
AttemptsCounted ==
    /\ rt = "add" => attempts + charged = retryCount + 1
    /\ rt = "store" => attempts + charged = tmp
    /\ rt \notin {"add", "store"} => attempts + charged = retryCount

(* Giving up leaves everything as it was until the reset. *)
GaveUpAtMax == device = "gave_up" => rt = "attempt" /\ retryCount = MaxRetry

CountInv == TypeOK /\ CountInRange /\ AttemptsCounted /\ GaveUpAtMax

(* The count starts at zero, before any attempt. *)
LEMMA CountInit == Init => CountInv
<1>1. SUFFICES ASSUME Init PROVE CountInv
    OBVIOUS
<1>2. backoff \in InitialBackoff .. MaxBackoff
    BY <1>1, WifiAssumption DEF Init
<1>3. missed \in BOOLEAN
    BY <1>1, Zenon DEF Init
<1>4. events \in EventSeq /\ Len(events) <= MaxEvents
    BY <1>1, NoEvents, WifiAssumption DEF Init
<1>5. TypeOK
    BY <1>1, <1>2, <1>3, <1>4, WifiAssumption DEF Init, TypeOK, EventSeq
<1>6. CountInRange /\ AttemptsCounted /\ GaveUpAtMax
    BY <1>1 DEF Init, CountInRange, AttemptsCounted, GaveUpAtMax
<1>7. QED
    BY <1>5, <1>6 DEF CountInv

(* An attempt adds one to what the count is about to be. *)
LEMMA RtConnectCount ==
    ASSUME CountInv, RtConnect, ~Abort
    PROVE  CountInv'
<1>1. /\ ConnectOk /\ Running /\ rt = "attempt" /\ rt' = "add"
      /\ attempts' = OneMoreAttempt /\ retryCount < MaxRetry
      /\ UNCHANGED <<device, main, state, retryCount, ev, tmp, backoff, app,
                     missed, charged>>
    BY DEF RtConnect, MayRetry
<1>2. /\ attempts \in Nat /\ charged \in 0 .. MaxRetry /\ retryCount \in 0 .. MaxRetry
      /\ attempts + charged = retryCount
    BY <1>1 DEF CountInv, TypeOK, AttemptsCounted
<1>3. attempts' = attempts + 1
    BY <1>1, <1>2, WifiAssumption DEF OneMoreAttempt
<1>4. TypeOK'
    BY <1>1, <1>2, <1>3, ConnectType DEF CountInv, TypeOK, EventSeq
<1>5. CountInRange' /\ AttemptsCounted' /\ GaveUpAtMax'
    BY <1>1, <1>2, <1>3 DEF CountInRange, AttemptsCounted, GaveUpAtMax, Running
<1>6. QED
    BY <1>4, <1>5 DEF CountInv

(* Every step keeps the count. *)
LEMMA CountNext == CountInv /\ [Next]_vars => CountInv'
<1>1. SUFFICES ASSUME CountInv, [Next]_vars PROVE CountInv'
    OBVIOUS
<1> USE <1>1, WifiAssumption
        DEF CountInv, TypeOK, CountInRange, AttemptsCounted, GaveUpAtMax, Running,
            history, EventSeq
<1>2. CASE Restart
    <2>1. missed' \in BOOLEAN
        BY <1>2, Zenon DEF Restart
    <2>2. backoff' \in InitialBackoff .. MaxBackoff
        BY <1>2 DEF Restart
    <2>3. events' \in EventSeq /\ Len(events') <= MaxEvents
        BY <1>2, NoEvents DEF Restart
    <2>4. QED
        BY <1>2, <2>1, <2>2, <2>3 DEF Restart
<1>3. CASE InitOk \/ InitNoNetif
    <2>1. CASE InitOk
        BY <2>1, PostType DEF InitOk
    <2>2. CASE InitNoNetif
        BY <2>2 DEF InitNoNetif
    <2>3. QED
        BY <1>3, <2>1, <2>2
<1>4. CASE Abort
    BY <1>4 DEF Abort
<1>5. CASE GotIp \/ ConnectFailed \/ LinkLost
    <2>1. /\ events' \in EventSeq /\ Len(events') <= MaxEvents
          /\ link' \in {"down", "up"}
        BY <1>5, PostType DEF GotIp, ConnectFailed, LinkLost, Driver
    <2>2. UNCHANGED <<device, main, state, retryCount, ev, rt, tmp, backoff, app, history>>
        BY <1>5 DEF GotIp, ConnectFailed, LinkLost, Driver
    <2>3. QED
        BY <2>1, <2>2
<1>6. CASE TakeEvent
    BY <1>6 DEF TakeEvent
<1>7. CASE StaStart \/ StaDisconnected \/ StaGotIp
    BY <1>7 DEF StaStart, StaDisconnected, StaGotIp, EvSetState
<1>8. CASE EvConnect /\ ~Abort
    <2>1. /\ events' \in EventSeq /\ Len(events') <= MaxEvents
          /\ link' \in {"down", "connecting", "up"}
        BY <1>8, ConnectType DEF EvConnect
    <2>2. /\ UNCHANGED <<device, main, state, retryCount, rt, tmp, backoff, app, history>>
          /\ ev' = "idle"
        BY <1>8 DEF EvConnect
    <2>3. QED
        BY <2>1, <2>2
<1>9. CASE ResetRetryCount
    <2>1. /\ CountReset /\ device = "running" /\ ev' = "notify"
          /\ UNCHANGED <<device, main, state, link, events, rt, tmp, backoff, app, missed>>
        BY <1>9 DEF ResetRetryCount
    <2>2. /\ rt = "add" => charged' = 1
          /\ rt = "store" => charged' = tmp
          /\ rt \notin {"add", "store"} => charged' = 0
          /\ retryCount' = 0 /\ attempts' = 0
        BY <2>1, ResetType
    <2>3. TypeOK'
        <3>1. charged' \in 0 .. MaxRetry
            BY <2>2
        <3>2. QED
            BY <2>1, <2>2, <3>1
    <2>4. CountInRange' /\ AttemptsCounted' /\ GaveUpAtMax'
        BY <2>1, <2>2
    <2>5. QED
        BY <2>3, <2>4
<1>10. CASE EvNotify \/ AppNotify
    <2>1. missed' \in BOOLEAN
        BY <1>10, NotifyType DEF EvNotify, AppNotify
    <2>2. /\ UNCHANGED <<device, main, state, retryCount, link, events, tmp, backoff,
                         attempts, charged>>
          /\ ev' \in {ev, "idle"} /\ app' \in {app, "idle"}
          /\ \/ rt \notin {"sleep", "tsleep"} /\ rt' = rt
             \/ rt \in {"sleep", "tsleep"} /\ rt' \in {"check", "tcheck"}
          /\ Running
        BY <1>10, NotifyType DEF EvNotify, AppNotify, AppGoto
    <2>3. QED
        BY <2>1, <2>2
<1>11. CASE CheckDisconnected
    <2>1. missed' \in BOOLEAN
        BY <1>11, Zenon DEF CheckDisconnected
    <2>2. QED
        BY <1>11, <2>1 DEF CheckDisconnected
<1>12. CASE FallAsleep \/ SpuriousWakeup \/ CheckConnected \/ FallAsleepTimed \/ Timeout
    BY <1>12 DEF FallAsleep, SpuriousWakeup, CheckConnected, FallAsleepTimed,
                 Timeout, RtGoto
<1>13. CASE RtConnect /\ ~Abort
    BY <1>13, RtConnectCount
<1>14. CASE GiveUp
    BY <1>14 DEF GiveUp, MayRetry
<1>15. CASE AddToCount
    BY <1>15 DEF AddToCount, CountPlusOne, RtGoto
<1>16. CASE StoreCount
    BY <1>16 DEF StoreCount
<1>17. CASE Decide
    BY <1>17 DEF Decide, RtGoto, LongerBackoff
<1>18. CASE (UpdateCredentials /\ ~Abort) \/ AppSetState
    <2>1. /\ UNCHANGED <<device, main, retryCount, link, events, ev, tmp, backoff, rt,
                         attempts, missed, charged>>
          /\ app' \in {"set", "notify"} /\ state' \in {state, "DISCONNECTED"}
        BY <1>18 DEF UpdateCredentials, AppSetState, AppGoto
    <2>2. QED
        BY <2>1
<1>19. CASE UNCHANGED vars
    BY <1>19 DEF vars
<1>20. QED
    BY <1>2, <1>3, <1>4, <1>5, <1>6, <1>7, <1>8, <1>9, <1>10, <1>11, <1>12, <1>13,
       <1>14, <1>15, <1>16, <1>17, <1>18, <1>19
    DEF Next, EvStep, RtStep, InitError

-----------------------------------------------------------------------------
(* Before esp_wifi_start() nothing is set to DISCONNECTED, and reconnectTask()
   does not get past its first wait. *)
StartInv ==
    /\ main = "init" => link = "off"
    /\ link = "off" =>
           /\ state # "DISCONNECTED"
           /\ events = <<>>
           /\ ev = "idle"
           /\ app = "idle"
           /\ rt \in {"check", "block", "sleep"}

(* Every step keeps the order of the start. *)
LEMMA StartNext == TypeOK /\ StartInv /\ [Next]_vars => StartInv'
<1>1. SUFFICES ASSUME TypeOK, StartInv, [Next]_vars PROVE StartInv'
    OBVIOUS
<1> USE <1>1 DEF StartInv, Running, history
<1>2. CASE Restart
    BY <1>2 DEF Restart
<1>3. CASE InitOk \/ InitNoNetif
    BY <1>3 DEF InitOk, InitNoNetif
<1>4. CASE Abort
    BY <1>4 DEF Abort
<1>5. CASE GotIp \/ ConnectFailed \/ LinkLost
    BY <1>5 DEF GotIp, ConnectFailed, LinkLost, Driver
<1>6. CASE TakeEvent
    BY <1>6 DEF TakeEvent
<1>7. CASE StaStart \/ StaDisconnected \/ StaGotIp
    BY <1>7 DEF StaStart, StaDisconnected, StaGotIp, EvSetState
<1>8. CASE EvConnect /\ ~Abort
    BY <1>8, ConnectType DEF EvConnect
<1>9. CASE ResetRetryCount
    BY <1>9 DEF ResetRetryCount
<1>10. CASE EvNotify
    BY <1>10 DEF EvNotify
<1>11. CASE AppNotify
    BY <1>11 DEF AppNotify, AppGoto
<1>12. CASE CheckDisconnected
    BY <1>12 DEF CheckDisconnected
<1>13. CASE FallAsleep \/ SpuriousWakeup \/ CheckConnected \/ FallAsleepTimed
            \/ Timeout \/ AddToCount \/ Decide
    BY <1>13 DEF FallAsleep, SpuriousWakeup, CheckConnected, FallAsleepTimed,
                 Timeout, AddToCount, Decide, RtGoto
<1>14. CASE RtConnect /\ ~Abort
    BY <1>14, ConnectType DEF RtConnect
<1>15. CASE GiveUp \/ StoreCount
    BY <1>15 DEF GiveUp, StoreCount
<1>16. CASE (UpdateCredentials /\ ~Abort) \/ AppSetState
    BY <1>16 DEF UpdateCredentials, ConfigAccepted, AppSetState, AppGoto
<1>17. CASE UNCHANGED vars
    BY <1>17 DEF vars
<1>18. QED
    BY <1>2, <1>3, <1>4, <1>5, <1>6, <1>7, <1>8, <1>9, <1>10, <1>11, <1>12, <1>13,
       <1>14, <1>15, <1>16, <1>17
    DEF Next, EvStep, RtStep, InitError

-----------------------------------------------------------------------------
(* Whoever set DISCONNECTED after the last test has yet to notify, or has
   notified too early. *)
WakeInv ==
    rt \in {"block", "sleep"} /\ state = "DISCONNECTED" /\ ~missed =>
        ev = "notify" \/ app = "notify"

(* Every step keeps it. *)
LEMMA WakeNext == TypeOK /\ WakeInv /\ [Next]_vars => WakeInv'
<1>1. SUFFICES ASSUME TypeOK, WakeInv, [Next]_vars PROVE WakeInv'
    OBVIOUS
<1> USE <1>1 DEF WakeInv, Running, history
<1>2. CASE Restart
    BY <1>2 DEF Restart
<1>3. CASE InitOk \/ InitNoNetif
    BY <1>3 DEF InitOk, InitNoNetif
<1>4. CASE Abort
    BY <1>4 DEF Abort
<1>5. CASE GotIp \/ ConnectFailed \/ LinkLost
    BY <1>5 DEF GotIp, ConnectFailed, LinkLost, Driver
<1>6. CASE TakeEvent
    BY <1>6 DEF TakeEvent
<1>7. CASE StaStart \/ StaDisconnected \/ StaGotIp
    BY <1>7 DEF StaStart, StaDisconnected, StaGotIp, EvSetState
<1>8. CASE EvConnect /\ ~Abort
    BY <1>8 DEF EvConnect
<1>9. CASE ResetRetryCount
    BY <1>9 DEF ResetRetryCount
<1>10. CASE Notify
    <2>1. rt' \in {"block", "sleep"} => rt = "block" /\ missed'
        BY <1>10, Zenon, NotifyWakes
    <2>2. QED
        BY <2>1
<1>11. CASE CheckDisconnected
    BY <1>11 DEF CheckDisconnected
<1>12. CASE FallAsleep \/ SpuriousWakeup \/ CheckConnected \/ FallAsleepTimed
            \/ Timeout \/ AddToCount \/ Decide
    BY <1>12 DEF FallAsleep, SpuriousWakeup, CheckConnected, FallAsleepTimed,
                 Timeout, AddToCount, Decide, RtGoto
<1>13. CASE RtConnect /\ ~Abort
    BY <1>13 DEF RtConnect
<1>14. CASE GiveUp \/ StoreCount
    BY <1>14 DEF GiveUp, StoreCount
<1>15. CASE (UpdateCredentials /\ ~Abort) \/ AppSetState
    BY <1>15 DEF UpdateCredentials, AppSetState, AppGoto
<1>16. CASE UNCHANGED vars
    BY <1>16 DEF vars
<1>17. QED
    BY <1>2, <1>3, <1>4, <1>5, <1>6, <1>7, <1>8, <1>9, <1>10, <1>11, <1>12, <1>13,
       <1>14, <1>15, <1>16
    DEF Next, EvStep, RtStep, InitError, EvNotify, AppNotify

-----------------------------------------------------------------------------
(* No loss of the link is on its way from place i of the queue on. *)
NoLossFrom(i) == \A j \in i .. Len(events) : events[j] # "disconnected"

(* Whatever still says that the station is connected, a queued event, the event
   being handled or the state, is right unless a loss of the link is queued
   behind it. *)
QueueTrue ==
    \A i \in 1 .. Len(events) :
        events[i] = "got_ip" /\ NoLossFrom(i) => link = "up"
EventTrue == ev = "got_ip" /\ NoLossFrom(1) => link = "up"
StateTrue ==
    state = "CONNECTED" /\ ev # "disconnected" /\ NoLossFrom(1) => link = "up"
LinkInv == QueueTrue /\ EventTrue /\ StateTrue

(* A posted event is the last of the queue, behind all the others. *)
LEMMA PostWindow ==
    ASSUME TypeOK, NEW e \in {"sta_start", "disconnected", "got_ip"}, Post(e)
    PROVE  /\ Len(events) \in Nat
           /\ Len(events') = Len(events) + 1
           /\ events'[Len(events) + 1] = e
           /\ \A i \in 1 .. Len(events) : events'[i] = events[i]
BY DEF TypeOK, Post

(* A loss of the link is queued behind everything that said it was up. *)
LEMMA LossPosted ==
    ASSUME TypeOK, Post("disconnected")
    PROVE  LinkInv'
<1>1. /\ Len(events') = Len(events) + 1 /\ Len(events) \in Nat
      /\ events'[Len(events')] = "disconnected"
    BY PostWindow
<1>2. \A i \in 1 .. Len(events') : ~NoLossFrom(i)'
    BY <1>1 DEF NoLossFrom
<1>3. QED
    BY <1>1, <1>2 DEF LinkInv, QueueTrue, EventTrue, StateTrue

(* An unchanged queue keeps what it says while the link does not go down. *)
LEMMA LinkKept ==
    ASSUME LinkInv, UNCHANGED events, link = "up" => link' = "up",
           ev' = "got_ip" => ev = "got_ip",
           state' = "CONNECTED" /\ ev' # "disconnected" =>
               (state = "CONNECTED" /\ ev # "disconnected") \/ ev = "got_ip"
    PROVE  LinkInv'
<1>1. \A i : NoLossFrom(i)' = NoLossFrom(i)
    BY DEF NoLossFrom
<1>2. QED
    BY <1>1 DEF LinkInv, QueueTrue, EventTrue, StateTrue

(* esp_wifi_connect() takes the link down only with an event that says so. *)
LEMMA ConnectLink ==
    ASSUME TypeOK, LinkInv, ConnectOk, UNCHANGED state,
           ev' = "got_ip" => ev = "got_ip",
           ev = "disconnected" => ev' = "disconnected"
    PROVE  LinkInv'
<1>1. CASE UNCHANGED events /\ (link = "up" => link' = "up")
    BY <1>1, LinkKept
<1>2. CASE Post("disconnected")
    BY <1>2, LossPosted
<1>3. QED
    BY <1>1, <1>2 DEF ConnectOk

(* Taking an event moves what it says from the queue to the handler. *)
LEMMA TakeLink ==
    ASSUME TypeOK, LinkInv, TakeEvent
    PROVE  LinkInv'
<1>1. /\ ev = "idle" /\ ev' = events[1] /\ UNCHANGED <<state, link>>
      /\ Len(events) \in Nat \ {0}
      /\ Len(events') = Len(events) - 1
      /\ \A i \in 1 .. Len(events') : events'[i] = events[i + 1]
    BY DEF TakeEvent, TypeOK
<1>2. ASSUME NEW i \in Nat \ {0}
      PROVE  NoLossFrom(i)' => NoLossFrom(i + 1)
    <2>1. SUFFICES ASSUME NoLossFrom(i)', NEW j \in (i + 1) .. Len(events)
                   PROVE  events[j] # "disconnected"
        BY DEF NoLossFrom
    <2>2. j - 1 \in i .. Len(events') /\ j - 1 \in 1 .. Len(events')
        BY <1>1, <2>1
    <2>3. events'[j - 1] = events[(j - 1) + 1]
        BY <1>1, <2>2
    <2>4. QED
        BY <2>1, <2>2, <2>3 DEF NoLossFrom
<1>3. events[1] # "disconnected" /\ NoLossFrom(1)' => NoLossFrom(1)
    <2>1. NoLossFrom(1)' => NoLossFrom(2)
        BY <1>2
    <2>2. QED
        BY <1>1, <2>1 DEF NoLossFrom
<1>4. QueueTrue'
    <2>1. SUFFICES ASSUME NEW i \in 1 .. Len(events'), events'[i] = "got_ip",
                          NoLossFrom(i)'
                   PROVE  link' = "up"
        BY DEF QueueTrue
    <2>2. i + 1 \in 1 .. Len(events) /\ events[i + 1] = "got_ip" /\ NoLossFrom(i + 1)
        BY <1>1, <1>2, <2>1
    <2>3. QED
        BY <1>1, <2>2 DEF LinkInv, QueueTrue
<1>5. EventTrue'
    <2>1. SUFFICES ASSUME ev' = "got_ip", NoLossFrom(1)' PROVE link' = "up"
        BY DEF EventTrue
    <2>2. 1 \in 1 .. Len(events) /\ events[1] = "got_ip" /\ NoLossFrom(1)
        BY <1>1, <1>3, <2>1
    <2>3. QED
        BY <1>1, <2>2 DEF LinkInv, QueueTrue
<1>6. StateTrue'
    BY <1>1, <1>3 DEF LinkInv, StateTrue
<1>7. QED
    BY <1>4, <1>5, <1>6 DEF LinkInv

(* Every step keeps it; the start of the driver needs StartInv. *)
LEMMA LinkNext == TypeOK /\ StartInv /\ LinkInv /\ [Next]_vars => LinkInv'
<1>1. SUFFICES ASSUME TypeOK, StartInv, LinkInv, [Next]_vars PROVE LinkInv'
    OBVIOUS
<1> USE <1>1 DEF Running, history
<1>2. CASE Restart
    <2>1. events' = <<>> /\ ev' = "idle" /\ state' = "NOT_INITIALIZED"
        BY <1>2 DEF Restart
    <2>2. QED
        BY <2>1 DEF LinkInv, QueueTrue, EventTrue, StateTrue
<1>3. CASE InitOk
    <2>1. /\ events = <<>> /\ link = "off" /\ ev' = "idle" /\ ev = "idle"
          /\ state' = state /\ Post("sta_start")
        BY <1>3 DEF InitOk, StartInv
    <2>2. state # "CONNECTED"
        BY <2>1 DEF LinkInv, StateTrue, NoLossFrom
    <2>3. Len(events') = 1 /\ events'[1] = "sta_start"
        BY <2>1, PostWindow
    <2>4. QED
        BY <2>1, <2>2, <2>3 DEF LinkInv, QueueTrue, EventTrue, StateTrue
<1>4. CASE GotIp
    <2>1. link' = "up"
        BY <1>4 DEF GotIp
    <2>2. QED
        BY <2>1 DEF LinkInv, QueueTrue, EventTrue, StateTrue
<1>5. CASE ConnectFailed \/ LinkLost
    BY <1>5, LossPosted DEF ConnectFailed, LinkLost, Driver
<1>6. CASE TakeEvent
    BY <1>6, TakeLink
<1>7. CASE StaStart \/ StaDisconnected \/ StaGotIp
    BY <1>7, LinkKept DEF StaStart, StaDisconnected, StaGotIp, EvSetState
<1>8. CASE EvConnect /\ ~Abort
    BY <1>8, ConnectLink DEF EvConnect
<1>9. CASE ResetRetryCount \/ EvNotify
    BY <1>9, LinkKept DEF ResetRetryCount, EvNotify
<1>10. CASE RtConnect /\ ~Abort
    BY <1>10, ConnectLink DEF RtConnect
<1>11. CASE CheckDisconnected \/ FallAsleep \/ SpuriousWakeup \/ CheckConnected
            \/ FallAsleepTimed \/ Timeout \/ AddToCount \/ Decide
    BY <1>11, LinkKept
    DEF CheckDisconnected, FallAsleep, SpuriousWakeup, CheckConnected, FallAsleepTimed,
        Timeout, AddToCount, Decide, RtGoto
<1>12. CASE GiveUp \/ StoreCount
    BY <1>12, LinkKept DEF GiveUp, StoreCount
<1>13. CASE (UpdateCredentials /\ ~Abort) \/ AppSetState \/ AppNotify
    BY <1>13, LinkKept DEF UpdateCredentials, AppSetState, AppNotify, AppGoto
<1>14. CASE InitNoNetif \/ Abort
    BY <1>14, LinkKept DEF InitNoNetif, Abort
<1>15. CASE UNCHANGED vars
    BY <1>15, LinkKept DEF vars
<1>16. QED
    BY <1>2, <1>3, <1>4, <1>5, <1>6, <1>7, <1>8, <1>9, <1>10, <1>11, <1>12, <1>13,
       <1>14, <1>15
    DEF Next, EvStep, RtStep, InitError

-----------------------------------------------------------------------------
(* All of it holds at the start. *)
LEMMA OtherInit == Init => StartInv /\ WakeInv /\ LinkInv
BY DEF Init, StartInv, WakeInv, LinkInv, QueueTrue, EventTrue, StateTrue

(* The retry count, its register and the back-off stay in their ranges. *)
THEOREM TypeCorrect == Spec => []TypeOK
<1>1. CountInv => TypeOK
    BY DEF CountInv
<1>2. QED
    BY <1>1, CountInit, CountNext, PTL DEF Spec

(* reconnectTask() never attempts more than MaxRetry times without an address. *)
THEOREM RetryBounded == Spec => []AtMostMaxRetry
<1>1. CountInv => AtMostMaxRetry
    BY WifiAssumption DEF CountInv, TypeOK, CountInRange, AttemptsCounted, AtMostMaxRetry
<1>2. QED
    BY <1>1, CountInit, CountNext, PTL DEF Spec

(* It never gives up early but for the attempts that a reset has left in the
   count. *)
THEOREM NoEarlyRestart == Spec => []GivesUpAfterMaxRetry
<1>1. CountInv => GivesUpAfterMaxRetry
    BY DEF CountInv, AttemptsCounted, GaveUpAtMax, GivesUpAfterMaxRetry
<1>2. QED
    BY <1>1, CountInit, CountNext, PTL DEF Spec

(* It attempts nothing before the driver is started. *)
THEOREM StartBeforeAttempt == Spec => []AttemptsAfterStart
<1>1. StartInv => AttemptsAfterStart
    BY DEF StartInv, AttemptsAfterStart
<1>2. QED
    BY <1>1, TypeCorrect, OtherInit, StartNext, PTL DEF Spec

(* It sleeps through a disconnection only if a notify_all() came too early. *)
THEOREM OnlyLostWakeups == Spec => []SleepsOnlyIfMissed
<1>1. WakeInv => SleepsOnlyIfMissed
    BY DEF WakeInv, SleepsOnlyIfMissed
<1>2. QED
    BY <1>1, TypeCorrect, OtherInit, WakeNext, PTL DEF Spec

(* With no event pending, CONNECTED is the truth about the link. *)
THEOREM ConnectedIsTrue == Spec => []ConnectedIsUp
<1>1. LinkInv => ConnectedIsUp
    BY DEF LinkInv, StateTrue, NoLossFrom, ConnectedIsUp
<1>2. Spec => []StartInv
    BY TypeCorrect, OtherInit, StartNext, PTL DEF Spec
<1>3. QED
    BY <1>1, <1>2, TypeCorrect, OtherInit, LinkNext, PTL DEF Spec

=============================================================================
