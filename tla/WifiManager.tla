---------------------------- MODULE WifiManager ----------------------------
(***************************************************************************)
(* lib/Connectivity/WifiManager.{hpp,cpp}: the task that keeps the station *)
(* connected.                                                              *)
(*                                                                         *)
(* Four tasks meet here.  main runs init().  The event loop task runs      *)
(* eventHandler() on the events the Wi-Fi driver posts.  reconnectTask(),  *)
(* detached by the constructor and so alive before init(), waits on a      *)
(* condition variable for the state DISCONNECTED and calls                 *)
(* esp_wifi_connect().  An application task may call updateCredentials().  *)
(*                                                                         *)
(* reconnectTask() is the only one that ever takes mtx: the others write   *)
(* the state and the retry count and call notify_all() without it.  The    *)
(* mutex therefore excludes nobody and is not a variable; what is modelled *)
(* is that testing a wait's predicate and falling asleep are two steps,    *)
(* and that wifi_reconnect_retry_count++ is a read and a write.            *)
(*                                                                         *)
(* The driver is external, modelled by the calls and events the code uses. *)
(* setState()'s logging is modelled in StatefulObject.  The event group    *)
(* bits, which nothing in the repository reads, are left out.              *)
(***************************************************************************)
EXTENDS Integers, Sequences

CONSTANTS
    MaxRetry,       \* WIFI_RECONNECT_ATTEMPT_MAXIMUM_RETRY
    InitialBackoff, \* 10 s
    MaxBackoff,     \* 300 s
    MaxEvents       \* bound: events posted and not yet taken

ASSUME WifiAssumption ==
    /\ MaxRetry \in Nat
    /\ InitialBackoff \in Nat \ {0}
    /\ MaxBackoff \in Nat
    /\ InitialBackoff <= MaxBackoff
    /\ MaxEvents \in Nat \ {0}

VARIABLES
    device,      \* running, or on its way to a reset: gave_up, aborted
    main,        \* init() is still to be called, or has returned
    state,       \* wifiState_t
    retryCount,  \* wifi_reconnect_retry_count
    link,        \* the driver's station: off, down, connecting, up
    events,      \* posted to the event loop, oldest first
    ev,          \* where the event loop task is in eventHandler()
    rt,          \* where reconnectTask() is
    tmp,         \* reconnectTask()'s register in retry_count++
    backoff,     \* backoffDelay
    app,         \* where the application's task is in updateCredentials()
    attempts,    \* history: connects by reconnectTask() since the count was reset
    missed,      \* history: a notify_all() came between the last test and the sleep
    charged      \* history: how many connects of before that reset are still in the
                 \* count, or about to be

history == <<attempts, missed, charged>>
vars == <<device, main, state, retryCount, link, events, ev, rt, tmp, backoff, app,
          history>>

Running == device = "running"

-----------------------------------------------------------------------------
Init ==
    /\ device = "running"
    /\ main = "init"
    /\ state = "NOT_INITIALIZED"
    /\ retryCount = 0
    /\ link = "off"
    /\ events = <<>>
    /\ ev = "idle"
    /\ rt = "check"
    /\ tmp = 0
    /\ backoff = InitialBackoff
    /\ app = "idle"
    /\ attempts = 0
    /\ missed = FALSE
    /\ charged = 0

\* esp_restart() and abort() both end in a reset: the program starts anew.
Restart ==
    /\ ~Running
    /\ device' = "running"
    /\ main' = "init"
    /\ state' = "NOT_INITIALIZED"
    /\ retryCount' = 0
    /\ link' = "off"
    /\ events' = <<>>
    /\ ev' = "idle"
    /\ rt' = "check"
    /\ tmp' = 0
    /\ backoff' = InitialBackoff
    /\ app' = "idle"
    /\ attempts' = 0
    /\ missed' = FALSE
    /\ charged' = 0

\* ESP_ERROR_CHECK of anything but ESP_OK calls abort().
Abort ==
    /\ device' = "aborted"
    /\ UNCHANGED <<main, state, retryCount, link, events, ev, rt, tmp, backoff, app,
                   history>>

-----------------------------------------------------------------------------
\* Faulty variants of the definitions below.
NotifyForgotten == UNCHANGED <<rt, missed>>
RetryOffByOne == retryCount <= MaxRetry
AddForgotten == retryCount
BackoffUncapped == backoff * 2
ConfigErrorIgnored(w) == TRUE
ResetForgotten == retryCount' = retryCount /\ attempts' = 0 /\ charged' = 0

-----------------------------------------------------------------------------
\* The driver.

Post(e) ==
    /\ Len(events) < MaxEvents
    /\ events' = Append(events, e)

\* esp_wifi_connect() returns ESP_OK: a station that is down starts to connect,
\* one that is connecting or up stays so, or is torn down first.
ConnectOk ==
    \/ /\ link = "down"
       /\ link' = "connecting"
       /\ UNCHANGED events
    \/ /\ link \in {"connecting", "up"}
       /\ UNCHANGED <<link, events>>
    \/ /\ link = "up"
       /\ link' = "connecting"
       /\ Post("disconnected")

Driver(posted) ==
    /\ Running
    /\ Post(posted)
    /\ UNCHANGED <<device, main, state, retryCount, ev, rt, tmp, backoff, app, history>>

GotIp == link = "connecting" /\ link' = "up" /\ Driver("got_ip")

ConnectFailed == link = "connecting" /\ link' = "down" /\ Driver("disconnected")

LinkLost == link = "up" /\ link' = "down" /\ Driver("disconnected")

-----------------------------------------------------------------------------
\* main.

\* Up to esp_wifi_start(), which posts WIFI_EVENT_STA_START.
InitOk ==
    /\ Running
    /\ main = "init"
    /\ main' = "done"
    /\ link' = "down"
    /\ Post("sta_start")
    /\ UNCHANGED <<device, state, retryCount, ev, rt, tmp, backoff, app, history>>

\* if (!sta_netif) return: the program goes on without Wi-Fi.
InitNoNetif ==
    /\ Running
    /\ main = "init"
    /\ main' = "done"
    /\ UNCHANGED <<device, state, retryCount, link, events, ev, rt, tmp, backoff, app,
                   history>>

InitError == Running /\ main = "init" /\ Abort

-----------------------------------------------------------------------------
\* notify_all() wakes reconnectTask() if it sleeps, in either of its waits, and
\* is lost if it has tested the predicate and not yet fallen asleep.
Notify ==
    /\ rt' = CASE rt = "sleep"  -> "check"
               [] rt = "tsleep" -> "tcheck"
               [] OTHER         -> rt
    /\ missed' = (missed \/ rt = "block")

\* The event loop task.

TakeEvent ==
    /\ Running
    /\ ev = "idle"
    /\ events # <<>>
    /\ ev' = Head(events)
    /\ events' = Tail(events)
    /\ UNCHANGED <<device, main, state, retryCount, link, rt, tmp, backoff, app, history>>

\* self.setState(s): the state is what s names whether or not it was already.
EvSetState(at, s, next) ==
    /\ Running
    /\ ev = at
    /\ state' = s
    /\ ev' = next
    /\ UNCHANGED <<device, main, retryCount, link, events, rt, tmp, backoff, app, history>>

\* Faulty: STA_DISCONNECTED only notifies.
StateKept == EvSetState("disconnected", state, "notify")

StaStart == EvSetState("sta_start", "CONNECTING", "connect")
StaDisconnected == EvSetState("disconnected", "DISCONNECTED", "notify")
StaGotIp == EvSetState("got_ip", "CONNECTED", "reset")

EvConnect ==
    /\ Running
    /\ ev = "connect"
    /\ \/ /\ ConnectOk
          /\ ev' = "idle"
          /\ UNCHANGED <<device, main, state, retryCount, rt, tmp, backoff, app, history>>
       \/ Abort

\* The reset clears all of the count but what reconnectTask() has yet to add:
\* the connect it has just made, if the count is still to be read; all that it
\* has counted, if the sum is still to be stored.
Uncleared ==
    CASE rt = "add"   -> 1
      [] rt = "store" -> attempts + charged
      [] OTHER        -> 0

CountReset ==
    /\ retryCount' = 0
    /\ attempts' = 0
    /\ charged' = Uncleared

ResetRetryCount ==
    /\ Running
    /\ ev = "reset"
    /\ CountReset
    /\ ev' = "notify"
    /\ UNCHANGED <<device, main, state, link, events, rt, tmp, backoff, app, missed>>

EvNotify ==
    /\ Running
    /\ ev = "notify"
    /\ Notify
    /\ ev' = "idle"
    /\ UNCHANGED <<device, main, state, retryCount, link, events, tmp, backoff, app,
                   attempts, charged>>

EvStep ==
    \/ TakeEvent
    \/ StaStart
    \/ StaDisconnected
    \/ StaGotIp
    \/ EvConnect
    \/ ResetRetryCount
    \/ EvNotify

-----------------------------------------------------------------------------
\* reconnectTask().

RtGoto(at, next) ==
    /\ Running
    /\ rt = at
    /\ rt' = next
    /\ UNCHANGED <<device, main, state, retryCount, link, events, ev, app, history>>

\* The test in cv.wait(lock, state == DISCONNECTED).
CheckDisconnected ==
    /\ Running
    /\ rt = "check"
    /\ rt' = IF state = "DISCONNECTED" THEN "attempt" ELSE "block"
    /\ missed' = FALSE
    /\ UNCHANGED <<device, main, state, retryCount, link, events, ev, tmp, backoff, app,
                   attempts, charged>>

FallAsleep == RtGoto("block", "sleep") /\ UNCHANGED <<tmp, backoff>>

SpuriousWakeup ==
    /\ \/ RtGoto("sleep", "check")
       \/ RtGoto("tsleep", "tcheck")
    /\ UNCHANGED <<tmp, backoff>>

MayRetry == retryCount < MaxRetry

\* The history is kept up to the first attempt too many.
OneMoreAttempt == IF attempts > MaxRetry THEN attempts ELSE attempts + 1

RtConnect ==
    /\ Running
    /\ rt = "attempt"
    /\ MayRetry
    /\ \/ /\ ConnectOk
          /\ rt' = "add"
          /\ attempts' = OneMoreAttempt
          /\ UNCHANGED <<device, main, state, retryCount, ev, tmp, backoff, app,
                         missed, charged>>
       \/ Abort

GiveUp ==
    /\ Running
    /\ rt = "attempt"
    /\ ~MayRetry
    /\ device' = "gave_up"
    /\ UNCHANGED <<main, state, retryCount, link, events, ev, rt, tmp, backoff, app,
                   history>>

\* wifi_reconnect_retry_count++
CountPlusOne == retryCount + 1

AddToCount ==
    /\ RtGoto("add", "store")
    /\ tmp' = CountPlusOne
    /\ UNCHANGED backoff

StoreCount ==
    /\ Running
    /\ rt = "store"
    /\ retryCount' = tmp
    /\ tmp' = 0
    /\ rt' = "tcheck"
    /\ UNCHANGED <<device, main, state, link, events, ev, backoff, app, history>>

\* The test in cv.wait_for(lock, backoffDelay, state == CONNECTED).
CheckConnected ==
    /\ RtGoto("tcheck", IF state = "CONNECTED" THEN "decide" ELSE "tblock")
    /\ UNCHANGED <<tmp, backoff>>

FallAsleepTimed == RtGoto("tblock", "tsleep") /\ UNCHANGED <<tmp, backoff>>

\* The time is up: wait_for() tests once more and returns either way.
Timeout == RtGoto("tsleep", "decide") /\ UNCHANGED <<tmp, backoff>>

\* std::min(backoffDelay * 2, 300)
LongerBackoff == IF backoff * 2 < MaxBackoff THEN backoff * 2 ELSE MaxBackoff

Decide ==
    /\ RtGoto("decide", "check")
    /\ backoff' = IF state = "CONNECTED" THEN InitialBackoff ELSE LongerBackoff
    /\ UNCHANGED tmp

RtStep ==
    \/ CheckDisconnected
    \/ FallAsleep
    \/ RtConnect
    \/ GiveUp
    \/ AddToCount
    \/ StoreCount
    \/ CheckConnected
    \/ FallAsleepTimed
    \/ Timeout
    \/ Decide

-----------------------------------------------------------------------------
\* updateCredentials(), by a task that main starts after init().

AppGoto(at, next) ==
    /\ Running
    /\ app = at
    /\ app' = next
    /\ UNCHANGED <<device, main, retryCount, link, events, ev, tmp, backoff>>

\* esp_wifi_set_config() succeeds on a driver that was initialised; it may also
\* refuse, as it does while the station connects.
ConfigAccepted(l) == l # "off"

UpdateCredentials ==
    /\ main = "done"
    /\ \/ /\ ConfigAccepted(link)
          /\ AppGoto("idle", "set")
          /\ UNCHANGED <<state, rt, history>>
       \/ /\ Running
          /\ app = "idle"
          /\ Abort

AppSetState ==
    /\ AppGoto("set", "notify")
    /\ state' = "DISCONNECTED"
    /\ UNCHANGED <<rt, history>>

AppNotify ==
    /\ AppGoto("notify", "idle")
    /\ Notify
    /\ UNCHANGED <<state, attempts, charged>>

-----------------------------------------------------------------------------
Next ==
    \/ Restart
    \/ InitOk
    \/ InitNoNetif
    \/ InitError
    \/ GotIp
    \/ ConnectFailed
    \/ LinkLost
    \/ EvStep
    \/ RtStep
    \/ SpuriousWakeup
    \/ UpdateCredentials
    \/ AppSetState
    \/ AppNotify

\* FreeRTOS keeps scheduling a task that is ready, and the driver ends every
\* attempt to connect.  A timed wait has one deadline however often it is woken
\* before.  Links need not fail, nobody need call updateCredentials(), and no
\* wakeup has to be spurious.
Fairness ==
    /\ WF_vars(Restart)
    /\ WF_vars(InitOk \/ InitNoNetif \/ InitError)
    /\ WF_vars(GotIp \/ ConnectFailed)
    /\ WF_vars(EvStep)
    /\ WF_vars(RtStep)
    /\ SF_vars(Timeout)
    /\ WF_vars(AppSetState \/ AppNotify)

Spec == Init /\ [][Next]_vars /\ Fairness

-----------------------------------------------------------------------------
(* Type invariant: the count never passes MaxRetry and the delay stays between
   its first value and its limit. *)
TypeOK ==
    /\ device \in {"running", "gave_up", "aborted"}
    /\ main \in {"init", "done"}
    /\ state \in {"NOT_INITIALIZED", "DISCONNECTED", "CONNECTING", "CONNECTED"}
    /\ retryCount \in 0 .. MaxRetry
    /\ link \in {"off", "down", "connecting", "up"}
    /\ events \in Seq({"sta_start", "disconnected", "got_ip"})
    /\ Len(events) <= MaxEvents
    /\ ev \in {"idle", "sta_start", "disconnected", "got_ip", "connect", "reset",
               "notify"}
    /\ rt \in {"check", "block", "sleep", "attempt", "add", "store", "tcheck",
               "tblock", "tsleep", "decide"}
    /\ tmp \in 0 .. MaxRetry
    /\ backoff \in InitialBackoff .. MaxBackoff
    /\ app \in {"idle", "set", "notify"}
    /\ attempts \in Nat
    /\ missed \in BOOLEAN
    /\ charged \in 0 .. MaxRetry

(* However the count's reset and its increment interleave, reconnectTask() never
   calls esp_wifi_connect() more than MaxRetry times without an IP address
   obtained in between. *)
AtMostMaxRetry == attempts <= MaxRetry

(* reconnectTask() restarts the device after exactly MaxRetry calls of
   esp_wifi_connect() since the last connection, never earlier, but for those
   that the reset of the count found uncleared: one, if the reset came after
   the call and before retry_count++ had read the count; all that were counted
   up to then, if it came between the read and the write, which undoes it. *)
GivesUpAfterMaxRetry == device = "gave_up" => attempts + charged = MaxRetry

(* Once every event is handled, CONNECTED means the station is up: no order of
   link losses, failures and late addresses leaves isConnected() true for a
   link that is gone. *)
ConnectedIsUp ==
    events = <<>> /\ ev = "idle" /\ state = "CONNECTED" => link = "up"

(* reconnectTask() attempts nothing before esp_wifi_start(): the state it waits
   for is not set earlier, even by updateCredentials() after a failed init(). *)
AttemptsAfterStart == rt = "attempt" => link # "off"

(* The one way to sleep through a disconnection is a notify_all() between the
   test of the predicate and the sleep.  Otherwise, whoever set DISCONNECTED
   has woken reconnectTask() or is about to. *)
SleepsOnlyIfMissed ==
    rt = "sleep" /\ state = "DISCONNECTED" /\ ~missed =>
        ev = "notify" \/ app = "notify"

(* Retrying ends: an attempt is followed by a connection, by going back to
   sleep, or by a restart of the device. *)
RetriesEnd ==
    rt = "attempt" ~> state = "CONNECTED" \/ rt = "sleep" \/ ~Running

(* "should_reconnect_when_wifi_disconnects_given_wifi_manager_is_active": the
   state DISCONNECTED leads to an attempt, unless the state changes first or
   the device restarts. *)
DisconnectNoticed ==
    state = "DISCONNECTED" ~>
        rt = "attempt" \/ state # "DISCONNECTED" \/ ~Running

=============================================================================
