------------------------------ MODULE Station ------------------------------
(***************************************************************************)
(* src/main.cpp: the task that boots the device, from the NVS partition to *)
(* OtaManager::start(), with the part that NOT_YET_DEVELOPED still leaves  *)
(* out; the threads of OtaManager run beside it.  start() never returns,   *)
(* so nothing that stands behind the call in main() is ever reached.       *)
(*                                                                         *)
(* The calls of wifiManager.init() and mqttManager.init() are one step     *)
(* each: their insides are WifiManager and MqttManager.  The NVS partition *)
(* is external; the device may find it full, or of the format of another   *)
(* release, and a defective one can neither be read nor erased.            *)
(***************************************************************************)
EXTENDS OtaManager

VARIABLES
    main,        \* where the main task is
    nvs,         \* the NVS partition
    nvsReady     \* nvs_flash_init() has succeeded since the last reset

bootVars == <<main, nvs, nvsReady>>
stationVars == <<otaVars, bootVars>>

NvsState == {"fine", "no_free_pages", "new_version", "defective"}

StationInit ==
    /\ OtaInit
    /\ main = "nvs_init"
    /\ nvs \in NvsState
    /\ nvsReady = FALSE

-----------------------------------------------------------------------------
\* Faulty: main() goes on without asking for the second answer.
SecondAnswerIgnored(ok) == TRUE

-----------------------------------------------------------------------------
\* esp_restart(), abort() or a loss of power: all begins anew but the flash.
BootAgain ==
    /\ Reboot
    /\ main' = "nvs_init"
    /\ nvsReady' = FALSE

Restart == BootAgain /\ UNCHANGED nvs

\* nvs_flash_init(): the caller goes on at next if it succeeds.
NvsInitOk(next) ==
    /\ nvs = "fine"
    /\ nvsReady' = TRUE
    /\ main' = next
    /\ UNCHANGED <<otaVars, nvs>>

\* ESP_ERROR_CHECK(ret)
Checked(ok) == ok

NvsInit ==
    /\ main = "nvs_init"
    /\ \/ NvsInitOk("wifi")
       \/ /\ nvs \in {"no_free_pages", "new_version"}
          /\ main' = "nvs_erase"
          /\ UNCHANGED <<otaVars, nvs, nvsReady>>
       \/ nvs = "defective" /\ Restart

\* Erasing may fail; ESP_ERROR_CHECK then aborts.
NvsErase ==
    /\ main = "nvs_erase"
    /\ \/ /\ nvs' = "fine"
          /\ main' = "nvs_init_again"
          /\ UNCHANGED <<otaVars, nvsReady>>
       \/ Restart

\* The erased partition turns out defective, or does not.
NvsInitAgain ==
    /\ main = "nvs_init_again"
    /\ \E ok \in BOOLEAN :
           IF Checked(ok)
           THEN main' = "wifi" /\ nvsReady' = ok /\ UNCHANGED <<otaVars, nvs>>
           ELSE BootAgain /\ nvs' = "defective"

\* wifiManager.init(): returns, or aborts.
WifiInit ==
    /\ main = "wifi"
    /\ \/ main' = "mqtt" /\ UNCHANGED <<otaVars, nvs, nvsReady>>
       \/ Restart

\* mqttManager.init(), which asks for no result.
MqttInit ==
    /\ main = "mqtt"
    /\ main' = "ota"
    /\ UNCHANGED <<otaVars, nvs, nvsReady>>

\* The LEDs are set, OtaManager is started.
StartOta ==
    /\ main = "ota"
    /\ Start
    /\ main' = "in_start"
    /\ UNCHANGED <<nvs, nvsReady>>

MainStep ==
    \/ NvsInit
    \/ NvsErase
    \/ NvsInitAgain
    \/ WifiInit
    \/ MqttInit
    \/ StartOta

-----------------------------------------------------------------------------
\* What the firmware stores fills the partition; another release may use
\* another format.
NvsAges ==
    /\ main = "in_start"
    /\ nvs = "fine"
    /\ nvs' \in {"no_free_pages", "new_version"}
    /\ UNCHANGED <<otaVars, main, nvsReady>>

PowerLoss == Restart

OtaRestart ==
    /\ \E t \in Thread : EspRestart(t)
    /\ main' = "nvs_init"
    /\ nvsReady' = FALSE
    /\ UNCHANGED nvs

StationNext ==
    \/ MainStep
    \/ OtaStep /\ UNCHANGED bootVars
    \/ OtaRestart
    \/ NvsAges
    \/ PowerLoss

\* FreeRTOS schedules a ready task, and esp_https_ota() ends, with a timeout if
\* the server falls silent.
StationFairness ==
    /\ \A t \in Thread : WF_stationVars(UpdateStep(t) /\ UNCHANGED bootVars)
    /\ WF_stationVars(OtaRestart)

StationSpec == StationInit /\ [][StationNext]_stationVars /\ StationFairness

-----------------------------------------------------------------------------
BootTypeOK ==
    /\ main \in {"nvs_init", "nvs_erase", "nvs_init_again", "wifi", "mqtt", "ota",
                 "in_start"}
    /\ nvs \in NvsState
    /\ nvsReady \in BOOLEAN

(* Type invariant, with OtaManager's. *)
StationTypeOK == OtaTypeOK /\ BootTypeOK

(* wifiManager.init(), which reads the NVS, and all that follows it run with
   an NVS that has been initialised, however the partition was found: no path
   through the erasure and the second attempt leads past a failure. *)
NvsBeforeWifi == main \notin {"nvs_init", "nvs_erase", "nvs_init_again"} => nvsReady

(* Once the device has entered OTA mode it comes to a restart, whether or not
   the update succeeds: no state other than Idle is for ever. *)
UpdateEndsInRestart == state # "Idle" ~> state = "Idle"

=============================================================================
