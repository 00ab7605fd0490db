----------------------------- MODULE OtaManager -----------------------------
(***************************************************************************)
(* lib/Ota/OtaManager.hpp: a thread that polls a button and a thread that  *)
(* asks for updates every ten seconds.  Both call enterOtaMode(), which    *)
(* tests the state and, some statements later, changes it; no lock is held *)
(* from the one to the other.  The second thread is told that there is no  *)
(* update, always, and so never gets there.                                *)
(*                                                                         *)
(* esp_https_ota() and the flash are external: the call writes the         *)
(* partition that is not running, and makes it the one to boot only when   *)
(* it has written and verified all of the image.  esp_restart() and a loss *)
(* of power start the device from whatever is on the flash by then.        *)
(***************************************************************************)
EXTENDS Integers

VARIABLES
    state,       \* OtaState; Applying is never set
    pc,          \* where each thread is, "off" before start()
    image,       \* what each of the two application partitions holds
    boot,        \* the partition the bootloader will start
    running      \* the one it has started

flashVars == <<image, boot>>
otaVars == <<state, pc, image, boot, running>>

Thread == {"button", "checker"}
Partition == {0, 1}
OtaState == {"Idle", "Checking", "Downloading", "Success", "Failed"}

\* Faulty: the next partition, although there are only two.
NextPartition == running + 1

\* Faulty: the firmware overwrites itself.
RunningPartition == running

\* The partition that esp_https_ota() writes.
Passive == 1 - running

OtaInit ==
    /\ state = "Idle"
    /\ pc = [t \in Thread |-> "off"]
    /\ image = [p \in Partition |-> IF p = 0 THEN "whole" ELSE "partial"]
    /\ boot = 0
    /\ running = 0

Goto(t, label) == pc' = [pc EXCEPT ![t] = label]

\* Reset, for whatever reason: the flash stays, all else begins anew.
Reboot ==
    /\ state' = "Idle"
    /\ pc' = [t \in Thread |-> "off"]
    /\ running' = boot
    /\ UNCHANGED flashVars

-----------------------------------------------------------------------------
\* More faulty variants of the definitions below.
RestartOnSuccessOnly(t) == state = "Success"
ResultInverted(t) == IF pc[t] = "failed" THEN "Success" ELSE "Failed"

-----------------------------------------------------------------------------
\* start(): the two threads; the caller stays in it for ever.
Start ==
    /\ pc = [t \in Thread |-> "off"]
    /\ pc' = [t \in Thread |-> "sleep"]
    /\ UNCHANGED <<state, flashVars, running>>

\* monitorButton(): the level is read every 100 ms.
ButtonPressed ==
    /\ pc["button"] = "sleep"
    /\ Goto("button", "enter")
    /\ UNCHANGED <<state, flashVars, running>>

\* checkOtaAvailability(): nobody is asked yet.
OtaAvailable == FALSE

\* checkForOtaUpdates(): every ten seconds.
CheckState ==
    /\ pc["checker"] = "sleep"
    /\ state = "Idle"
    /\ Goto("checker", "ask")
    /\ UNCHANGED <<state, flashVars, running>>

CheckAvailable ==
    /\ pc["checker"] = "ask"
    /\ Goto("checker", IF OtaAvailable THEN "enter" ELSE "sleep")
    /\ UNCHANGED <<state, flashVars, running>>

\* enterOtaMode()
EnterOtaMode(t) ==
    /\ pc[t] = "enter"
    /\ Goto(t, IF state = "Idle" THEN "checking" ELSE "sleep")
    /\ UNCHANGED <<state, flashVars, running>>

-----------------------------------------------------------------------------
\* performOtaUpdate()

SetChecking(t) ==
    /\ pc[t] = "checking"
    /\ state' = "Checking"
    /\ Goto(t, "downloading")
    /\ UNCHANGED <<flashVars, running>>

\* Two seconds later.
SetDownloading(t) ==
    /\ pc[t] = "downloading"
    /\ state' = "Downloading"
    /\ Goto(t, "update")
    /\ UNCHANGED <<flashVars, running>>

\* esp_https_ota(): the connection, then the image.
OtaBegin(t) ==
    /\ pc[t] = "update"
    /\ \/ /\ image' = [image EXCEPT ![Passive] = "partial"]
          /\ Goto(t, "write")
       \/ /\ Goto(t, "failed")
          /\ UNCHANGED image
    /\ UNCHANGED <<state, boot, running>>

OtaWritten(t) ==
    /\ pc[t] = "write"
    /\ \/ /\ image' = [image EXCEPT ![Passive] = "whole"]
          /\ boot' = Passive
          /\ Goto(t, "succeeded")
       \/ /\ Goto(t, "failed")
          /\ UNCHANGED flashVars
    /\ UNCHANGED <<state, running>>

\* ret == ESP_OK
ResultOf(t) == IF pc[t] = "succeeded" THEN "Success" ELSE "Failed"

SetResult(t) ==
    /\ pc[t] \in {"succeeded", "failed"}
    /\ state' = ResultOf(t)
    /\ Goto(t, "restart")
    /\ UNCHANGED <<flashVars, running>>

\* The last statement is reached whatever ret was.
Restarts(t) == TRUE

EspRestart(t) ==
    /\ pc[t] = "restart"
    /\ Restarts(t)
    /\ Reboot

UpdateStep(t) ==
    \/ EnterOtaMode(t)
    \/ SetChecking(t)
    \/ SetDownloading(t)
    \/ OtaBegin(t)
    \/ OtaWritten(t)
    \/ SetResult(t)

OtaStep ==
    \/ ButtonPressed
    \/ CheckState
    \/ CheckAvailable
    \/ \E t \in Thread : UpdateStep(t)

-----------------------------------------------------------------------------
OtaTypeOK ==
    /\ state \in OtaState
    /\ pc \in [Thread -> {"off", "sleep", "ask", "enter", "checking", "downloading",
                          "update", "write", "succeeded", "failed", "restart"}]
    /\ image \in [Partition -> {"whole", "partial"}]
    /\ boot \in Partition
    /\ running \in Partition

(* The bootloader is never left with a partition that is not whole, at
   whichever step of an update the power fails or the device aborts. *)
BootsWhole == image[boot] = "whole"

(* The state that is set before esp_restart() tells what the restart brings:
   Failed the firmware that runs now, Success the new one. *)
StateTellsFirmware ==
    /\ state = "Failed" => boot = running
    /\ state = "Success" => boot # running

=============================================================================
