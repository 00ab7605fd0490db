---------------------------- MODULE ProgramProofs ----------------------------
(***************************************************************************)
(*  Proofs about the two programs of the repository: Station with OtaManager,*)
(*  and TaskProfiler.  They share nothing.                                 *)
(***************************************************************************)
EXTENDS Station, TaskProfiler, TLAPS

(***************************************************************************)
(*  Station and OtaManager.  The properties rest on one fact: while        *)
(*  checkOtaAvailability() returns false, only the button's thread gets into*)
(*  enterOtaMode().                                                        *)
(***************************************************************************)

CheckerInv == pc["checker"] \in {"off", "sleep", "ask"}

\* How far the update of the button's thread has come.
StateInv ==
    /\ pc["button"] \in {"off", "sleep", "enter", "checking"} => state = "Idle"
    /\ pc["button"] = "downloading" => state = "Checking"
    /\ pc["button"] \in {"update", "write", "succeeded", "failed"} => state = "Downloading"
    /\ pc["button"] = "restart" => state \in {"Success", "Failed"}
    /\ pc["button"] # "ask"

\* The new partition is the one to boot from the end of esp_https_ota() on.
FlashInv ==
    /\ image[boot] = "whole"
    /\ boot # running <=> pc["button"] = "succeeded" \/ state = "Success"

OtaInv == OtaTypeOK /\ CheckerInv /\ StateInv /\ FlashInv

StationInv == OtaInv /\ BootTypeOK /\ NvsBeforeWifi

-----------------------------------------------------------------------------
(* The device is delivered with one partition that is whole, and boots it. *)
LEMMA StationInitial == StationInit => StationInv
BY DEF StationInit, OtaInit, StationInv, OtaInv, BootTypeOK, NvsState, OtaTypeOK, CheckerInv,
       StateInv, FlashInv, NvsBeforeWifi, Thread, Partition, OtaState

(* A reset, at whichever step, boots a partition that is whole. *)
LEMMA RebootKeeps == OtaInv /\ Reboot => OtaInv'
BY DEF OtaInv, OtaTypeOK, CheckerInv, StateInv, FlashInv, Reboot, flashVars, Thread,
       Partition, OtaState

(* The other partition is one that does not run. *)
LEMMA PassiveIsOther == OtaTypeOK => Passive \in Partition /\ Passive # running
BY DEF OtaTypeOK, Passive, Partition

(* A step of performOtaUpdate() is one of the button's thread. *)
LEMMA UpdateKeeps == ASSUME OtaInv, NEW t \in Thread, UpdateStep(t) PROVE OtaInv'
<1>1. t = "button"
    BY DEF UpdateStep, EnterOtaMode, SetChecking, SetDownloading, OtaBegin, OtaWritten,
           SetResult, OtaInv, CheckerInv, Thread
<1>2. Passive \in Partition /\ Passive # running
    BY PassiveIsOther DEF OtaInv
<1> USE <1>1, <1>2
        DEF OtaInv, OtaTypeOK, CheckerInv, StateInv, FlashInv, Goto, flashVars, OtaState, Thread
<1>3. CASE EnterOtaMode(t) \/ SetChecking(t) \/ SetDownloading(t)
    BY <1>3 DEF EnterOtaMode, SetChecking, SetDownloading
<1>4. CASE OtaBegin(t)
    BY <1>4 DEF OtaBegin
<1>5. CASE OtaWritten(t)
    BY <1>5 DEF OtaWritten
<1>6. CASE SetResult(t)
    BY <1>6 DEF SetResult, ResultOf
<1>7. QED
    BY <1>3, <1>4, <1>5, <1>6 DEF UpdateStep

(* The threads keep the invariant. *)
LEMMA OtaKeeps == OtaInv /\ OtaStep => OtaInv'
<1>1. SUFFICES ASSUME OtaInv, OtaStep PROVE OtaInv'
    OBVIOUS
<1>2. CASE ButtonPressed \/ CheckState \/ CheckAvailable
    BY <1>1, <1>2
    DEF ButtonPressed, CheckState, CheckAvailable, OtaAvailable, OtaInv, OtaTypeOK,
        CheckerInv, StateInv, FlashInv, Goto, flashVars, Thread
<1>3. QED
    BY <1>1, <1>2, UpdateKeeps DEF OtaStep

(* start() finds no thread running. *)
LEMMA StartKeeps == OtaInv /\ Start => OtaInv'
BY DEF OtaInv, OtaTypeOK, CheckerInv, StateInv, FlashInv, Start, flashVars, Thread

(* So do the steps that leave OtaManager's variables alone. *)
LEMMA OtaUnchanged == OtaInv /\ UNCHANGED otaVars => OtaInv'
BY DEF OtaInv, OtaTypeOK, CheckerInv, StateInv, FlashInv, otaVars, flashVars, Passive

(* A restart begins at nvs_flash_init(). *)
LEMMA RestartKeeps ==
    ASSUME StationInv, BootAgain, nvs' \in {nvs, "defective"}
    PROVE  StationInv'
BY RebootKeeps DEF StationInv, BootTypeOK, OtaInv, NvsBeforeWifi, BootAgain, NvsState

(* No step of the boot, of the threads, or of the world outside breaks it. *)
LEMMA StationStep == StationInv /\ [StationNext]_stationVars => StationInv'
<1>1. SUFFICES ASSUME StationInv, [StationNext]_stationVars PROVE StationInv'
    OBVIOUS
<1> USE DEF StationInv, BootTypeOK, NvsBeforeWifi, NvsState
<1>2. CASE MainStep
    <2>1. CASE Restart \/ (BootAgain /\ nvs' = "defective")
        BY <1>1, <2>1, RestartKeeps DEF Restart
    <2>2. CASE StartOta
        BY <1>1, <2>2, StartKeeps DEF StartOta
    <2>3. ASSUME UNCHANGED otaVars, BootTypeOK', NvsBeforeWifi'
          PROVE  StationInv'
        BY <1>1, <2>3, OtaUnchanged
    <2>4. CASE NvsInit
        BY <1>1, <2>1, <2>3, <2>4 DEF NvsInit, NvsInitOk
    <2>5. CASE NvsErase
        BY <1>1, <2>1, <2>3, <2>5 DEF NvsErase
    <2>6. CASE NvsInitAgain
        BY <1>1, <2>1, <2>3, <2>6 DEF NvsInitAgain, Checked
    <2>7. CASE WifiInit
        BY <1>1, <2>1, <2>3, <2>7 DEF WifiInit
    <2>8. CASE MqttInit
        BY <1>1, <2>3, <2>8 DEF MqttInit
    <2>9. QED
        BY <1>2, <2>2, <2>4, <2>5, <2>6, <2>7, <2>8 DEF MainStep
<1>3. CASE OtaStep /\ UNCHANGED bootVars
    BY <1>1, <1>3, OtaKeeps DEF bootVars
<1>4. CASE OtaRestart
    BY <1>1, <1>4, RebootKeeps DEF OtaRestart, EspRestart
<1>5. CASE NvsAges
    BY <1>1, <1>5, OtaUnchanged DEF NvsAges
<1>6. CASE PowerLoss
    BY <1>1, <1>6, RestartKeeps DEF PowerLoss, Restart
<1>7. CASE UNCHANGED stationVars
    BY <1>1, <1>7, OtaUnchanged DEF stationVars, bootVars
<1>8. QED
    BY <1>1, <1>2, <1>3, <1>4, <1>5, <1>6, <1>7 DEF StationNext

(* The invariant, with all that follows from it in one state. *)
LEMMA StationSound == StationSpec => []StationInv
BY StationInitial, StationStep, PTL DEF StationSpec

-----------------------------------------------------------------------------
(* The type invariant. *)
THEOREM StationTypeCorrect == StationSpec => []StationTypeOK
<1>1. StationInv => StationTypeOK
    BY DEF StationInv, OtaInv, StationTypeOK
<1>2. QED
    BY <1>1, StationSound, PTL

(* A loss of power at any step of an update leaves a firmware to boot. *)
THEOREM AlwaysBootable == StationSpec => []BootsWhole
<1>1. StationInv => BootsWhole
    BY DEF StationInv, OtaInv, FlashInv, BootsWhole
<1>2. QED
    BY <1>1, StationSound, PTL

(* The state that is set last tells which firmware the restart brings. *)
THEOREM ResultIsTrue == StationSpec => []StateTellsFirmware
<1>1. StationInv => StateTellsFirmware
    BY DEF StationInv, OtaInv, OtaTypeOK, StateInv, FlashInv, StateTellsFirmware, Thread
<1>2. QED
    BY <1>1, StationSound, PTL

(* wifiManager.init() never runs on an NVS that is not initialised. *)
THEOREM NvsInitialised == StationSpec => []NvsBeforeWifi
<1>1. StationInv => NvsBeforeWifi
    BY DEF StationInv
<1>2. QED
    BY <1>1, StationSound, PTL

-----------------------------------------------------------------------------
(***************************************************************************)
(*  TaskProfiler, for any number of tasks, any clock and any word.         *)
(***************************************************************************)

\* A word that this task has stored and is still to load is its own unless
\* another has stored it; one that it has loaded was.
StampInv ==
    \A t \in Worker, w \in Words :
        \/ disturbed[t]
        \/ /\ CountsOn(t, w) => start_time[w] = Part(w, stamp[t])
           /\ call[t] = "stop" /\ w \notin todo[t] => loaded[t][w] = Part(w, stamp[t])

\* Inside a call the task has its entry, so stop_profiling() does not return at
\* its first line.
EntryInv == \A t \in Worker : call[t] # "outside" => stats[t] \in Stats

ProfilerInv == ProfilerTypeOK /\ StampInv /\ EntryInv /\ ExactUnlessDisturbed

-----------------------------------------------------------------------------
(* Division leaves a remainder smaller than the divisor. *)
LEMMA Remainder ==
    ASSUME NEW a \in Nat, NEW u \in Nat \ {0}
    PROVE  /\ a \div u \in Nat /\ a % u \in 0 .. u - 1 /\ a % u \in Nat
           /\ a = u * (a \div u) + (a % u)
<1>1. a \div u \in Nat
    BY Z3
<1>2. a % u \in 0 .. u - 1 /\ a % u \in Nat
    BY SMT
<1>3. a = u * (a \div u) + (a % u)
    BY Z3
<1>4. QED
    BY <1>1, <1>2, <1>3

(* A part of a time fits in start_time. *)
LEMMA PartType ==
    ASSUME NEW w \in Words, NEW time \in Nat
    PROVE  Part(w, time) \in Nat
<1>1. time \div Word \in Nat /\ time % Word \in Nat
    BY ProfilerAssumption, Remainder
<1>2. QED
    BY <1>1 DEF Part

(* The two parts of one time give it back; those of two times need not. *)
LEMMA PartsMakeTime ==
    ASSUME NEW time \in Nat, NEW words \in [Words -> Nat],
           \A w \in Words : words[w] = Part(w, time)
    PROVE  Time(words) = time
<1>1. time = Word * (time \div Word) + (time % Word)
    BY ProfilerAssumption, Remainder
<1>2. words["low"] = time % Word /\ words["high"] = time \div Word
    BY DEF Words, Part
<1>3. QED
    BY <1>1, <1>2 DEF Time

(* Any two words make a number. *)
LEMMA TimeType ==
    ASSUME NEW words \in [Words -> Nat]
    PROVE  Time(words) \in Nat
<1>1. words["low"] \in Nat /\ words["high"] \in Nat
    BY DEF Words
<1>2. \A x \in Nat : Word * x \in Nat
    BY ProfilerAssumption, Z3
<1>3. QED
    BY <1>1, <1>2 DEF Time

(* calculate_cpu_usage() fits its width. *)
LEMMA CpuUsageType ==
    ASSUME NEW r \in Nat
    PROVE  CpuUsage(r) \in 0 .. Width - 1
<1> DEFINE c == r % Width
<1>1. c \in 0 .. Width - 1
    BY ProfilerAssumption
<1>2. \A x \in Nat, u \in Nat \ {0} : x \div u \in 0 .. x
    BY Z3
<1>3. c \div Unit \in 0 .. c
    BY <1>1, <1>2, ProfilerAssumption
<1> HIDE DEF c
<1>4. c \div Unit \in 0 .. Width - 1
    BY <1>1, <1>3, ProfilerAssumption
<1>5. QED
    BY <1>4 DEF CpuUsage, c

(* Nobody is inside at first. *)
LEMMA ProfilerInitInv == ProfilerInit => ProfilerInv
<1>1. SUFFICES ASSUME ProfilerInit PROVE ProfilerInv
    OBVIOUS
<1>2. ZeroTime \in [Words -> Nat]
    BY DEF ZeroTime
<1>3. ProfilerTypeOK
    BY <1>1, <1>2, ProfilerAssumption DEF ProfilerInit, ProfilerTypeOK
<1>4. StampInv /\ EntryInv /\ ExactUnlessDisturbed
    BY <1>1 DEF ProfilerInit, StampInv, EntryInv, ExactUnlessDisturbed, CountsOn
<1>5. QED
    BY <1>3, <1>4 DEF ProfilerInv

(* Time passes for at most one task. *)
LEMMA TickRan ==
    ASSUME ProfilerTypeOK, Tick
    PROVE  /\ ran \in [Worker -> Nat]
           /\ ran' \in [Worker -> RunBefore .. RunBefore + clock + 1]
           /\ \A t \in Worker : ran[t] <= ran'[t]
<1>1. /\ clock \in Nat /\ RunBefore \in Nat
      /\ ran \in [Worker -> RunBefore .. RunBefore + clock]
    BY ProfilerAssumption DEF ProfilerTypeOK
<1>2. ran \in [Worker -> Nat]
    BY <1>1
<1>3. CASE UNCHANGED ran
    BY <1>1, <1>2, <1>3
<1>4. ASSUME NEW t \in Watched, ran' = [ran EXCEPT ![t] = ran[t] + 1]
      PROVE  /\ ran' \in [Worker -> RunBefore .. RunBefore + clock + 1]
             /\ \A u \in Worker : ran[u] <= ran'[u]
    <2>1. t \in Worker
        BY ProfilerAssumption
    <2>2. \A u \in Worker : ran'[u] \in {ran[u], ran[u] + 1}
        BY <1>1, <1>4, <2>1
    <2>3. ran' = [u \in Worker |-> ran'[u]]
        BY <1>1, <1>4
    <2>4. \A u \in Worker : /\ ran'[u] \in RunBefore .. RunBefore + clock + 1
                             /\ ran[u] <= ran'[u]
        BY <1>1, <2>2
    <2>5. QED
        BY <2>3, <2>4
<1>5. QED
    BY <1>2, <1>3, <1>4 DEF Tick

(* Time passes. *)
LEMMA TickInv ==
    ASSUME ProfilerInv, Tick
    PROVE  ProfilerInv'
<1> USE DEF ProfilerInv, workerVars
<1>1. clock' = clock + 1 /\ clock \in 0 .. MaxClock /\ clock' \in 0 .. MaxClock
    BY ProfilerAssumption DEF Tick, ProfilerTypeOK
<1>2. ran' \in [Worker -> RunBefore .. RunBefore + clock']
    BY <1>1, TickRan, ProfilerAssumption
<1>3. ProfilerTypeOK'
    BY <1>1, <1>2, ProfilerAssumption DEF Tick, ProfilerTypeOK
<1>4. (StampInv /\ EntryInv /\ ExactUnlessDisturbed)'
    BY DEF Tick, StampInv, EntryInv, ExactUnlessDisturbed, CountsOn
<1>5. QED
    BY <1>3, <1>4

(* start_profiling() up to the return of now(): nothing is stored yet. *)
LEMMA StartInv ==
    ASSUME ProfilerInv, NEW t \in Worker, StartProfiling(t)
    PROVE  ProfilerInv'
<1> USE DEF ProfilerInv, externalVars, CallAt
<1>1. ZeroStats \in Stats
    BY ProfilerAssumption DEF ZeroStats, Stats
<1>2. ProfilerTypeOK'
    <2>1. /\ stats' \in [Worker -> Stats \cup {NoStats}]
          /\ call' \in [Worker -> {"outside", "start", "stop", "store_cpu"}]
          /\ todo' \in [Worker -> SUBSET Words]
        BY <1>1 DEF StartProfiling, ProfilerTypeOK
    <2>2. stamp' \in [Worker -> 0 .. clock']
        BY ProfilerAssumption DEF StartProfiling, ProfilerTypeOK
    <2>3. QED
        BY <2>1, <2>2 DEF StartProfiling, ProfilerTypeOK
<1>3. StampInv'
    BY DEF StartProfiling, StampInv, CountsOn, ProfilerTypeOK
<1>4. EntryInv'
    BY <1>1, ProfilerAssumption DEF StartProfiling, EntryInv, ProfilerTypeOK
<1>5. ExactUnlessDisturbed'
    BY DEF StartProfiling, ExactUnlessDisturbed, ProfilerTypeOK
<1>6. QED
    BY <1>2, <1>3, <1>4, <1>5

(* A stored word is this task's own; every other that counts on it is
   disturbed. *)
LEMMA StoreWordInv ==
    ASSUME ProfilerInv, NEW t \in Worker, NEW w \in Words, StoreWord(t, w)
    PROVE  ProfilerInv'
<1> USE DEF ProfilerInv, externalVars
<1>1. Part(w, stamp[t]) \in Nat
    BY PartType, ProfilerAssumption DEF ProfilerTypeOK
<1>2. /\ call[t] = "start" /\ w \in todo[t]
      /\ start_time' = [start_time EXCEPT ![w] = Part(w, stamp[t])]
      /\ todo' = [todo EXCEPT ![t] = @ \ {w}]
      /\ disturbed' = [u \in Worker |-> disturbed[u] \/ (u # t /\ CountsOn(u, w))]
      /\ UNCHANGED <<clock, ran, snapshot, end_time, stats, call, stamp, loaded>>
    BY DEF StoreWord, StampWord
<1>3. ProfilerTypeOK'
    <2>1. start_time' \in [Words -> Nat] /\ todo' \in [Worker -> SUBSET Words]
        BY <1>1, <1>2 DEF ProfilerTypeOK
    <2>2. disturbed' \in [Worker -> BOOLEAN]
        BY <1>2, Zenon
    <2>3. QED
        BY <1>2, <2>1, <2>2 DEF ProfilerTypeOK
<1>4. StampInv'
    <2>1. SUFFICES ASSUME NEW u \in Worker, NEW x \in Words, ~disturbed'[u]
                   PROVE  /\ CountsOn(u, x)' => start_time'[x] = Part(x, stamp'[u])
                          /\ call'[u] = "stop" /\ x \notin todo'[u] =>
                                 loaded'[u][x] = Part(x, stamp'[u])
        BY Zenon DEF StampInv
    <2>2. ~disturbed[u] /\ (u # t => ~CountsOn(u, w))
        BY <1>2, <2>1, Zenon
    <2>3. /\ CountsOn(u, x) => start_time[x] = Part(x, stamp[u])
          /\ call[u] = "stop" /\ x \notin todo[u] => loaded[u][x] = Part(x, stamp[u])
        BY <2>2 DEF StampInv
    <2>4. start_time' = [start_time EXCEPT ![w] = Part(w, stamp[t])]
              /\ start_time \in [Words -> Nat] /\ todo \in [Worker -> SUBSET Words]
        BY <1>2 DEF ProfilerTypeOK
    <2>5. CASE u = t /\ x = w
        BY <1>2, <2>4, <2>5
    <2>6. CASE u = t /\ x # w
        BY <1>2, <2>3, <2>4, <2>6 DEF CountsOn
    <2>7. CASE u # t
        <3>1. CountsOn(u, x)' = CountsOn(u, x) /\ todo'[u] = todo[u]
            BY <1>2, <2>4, <2>7 DEF CountsOn
        <3>2. CountsOn(u, x) => x # w
            BY <2>2, <2>7
        <3>3. QED
            BY <1>2, <2>3, <2>4, <3>1, <3>2
    <2>8. QED
        BY <2>5, <2>6, <2>7
<1>5. EntryInv'
    BY <1>2 DEF EntryInv
<1>6. ExactUnlessDisturbed'
    <2>1. \A u \in Worker : disturbed[u] => disturbed'[u]
        BY <1>2, Zenon
    <2>2. QED
        BY <1>2, <2>1 DEF ExactUnlessDisturbed
<1>7. QED
    BY <1>3, <1>4, <1>5, <1>6

(* A word is loaded as it was stored, unless disturbed. *)
LEMMA LoadWordInv ==
    ASSUME ProfilerInv, NEW t \in Worker, NEW w \in Words, LoadWord(t, w)
    PROVE  ProfilerInv'
<1> USE DEF ProfilerInv, externalVars
<1>1. /\ call[t] = "stop" /\ w \in todo[t]
      /\ loaded' = [loaded EXCEPT ![t][w] = start_time[w]]
      /\ todo' = [todo EXCEPT ![t] = @ \ {w}]
      /\ UNCHANGED <<clock, ran, snapshot, start_time, end_time, stats, call, stamp,
                     disturbed>>
    BY DEF LoadWord
<1>2. /\ start_time \in [Words -> Nat] /\ todo \in [Worker -> SUBSET Words]
      /\ loaded \in [Worker -> [Words -> Nat]]
    BY DEF ProfilerTypeOK
<1>3. ProfilerTypeOK'
    <2>1. loaded' \in [Worker -> [Words -> Nat]] /\ todo' \in [Worker -> SUBSET Words]
        BY <1>1, <1>2
    <2>2. QED
        BY <1>1, <2>1 DEF ProfilerTypeOK
<1>4. StampInv'
    <2>1. SUFFICES ASSUME NEW u \in Worker, NEW x \in Words, ~disturbed[u]
                   PROVE  /\ CountsOn(u, x)' => start_time[x] = Part(x, stamp[u])
                          /\ call[u] = "stop" /\ x \notin todo'[u] =>
                                 loaded'[u][x] = Part(x, stamp[u])
        BY <1>1, Zenon DEF StampInv
    <2>2. /\ CountsOn(u, x) => start_time[x] = Part(x, stamp[u])
          /\ call[u] = "stop" /\ x \notin todo[u] => loaded[u][x] = Part(x, stamp[u])
        BY <2>1 DEF StampInv
    <2>3. CountsOn(u, x)' => CountsOn(u, x)
        BY <1>1, <1>2 DEF CountsOn
    <2>4. CASE u = t /\ x = w
        BY <1>1, <1>2, <2>2, <2>3, <2>4 DEF CountsOn
    <2>5. CASE ~(u = t /\ x = w)
        BY <1>1, <1>2, <2>2, <2>3, <2>5
    <2>6. QED
        BY <2>4, <2>5
<1>5. EntryInv' /\ ExactUnlessDisturbed'
    BY <1>1 DEF EntryInv, ExactUnlessDisturbed
<1>6. QED
    BY <1>3, <1>4, <1>5

(* stop_profiling(): the clock is read, then what start_time has been loaded as
   is subtracted, then the counter is read. *)
LEMMA StopInv ==
    ASSUME ProfilerInv, NEW t \in Worker,
           ReadEndTime(t) \/ StoreTime(t) \/ StoreCpu(t)
    PROVE  ProfilerInv'
<1> USE DEF ProfilerInv, externalVars, CallAt
<1>1. CASE ReadEndTime(t)
    <2>1. ProfilerTypeOK'
        <3>1. end_time' \in [Worker -> 0 .. clock']
            BY <1>1, ProfilerAssumption DEF ReadEndTime, ProfilerTypeOK
        <3>2. QED
            BY <1>1, <3>1 DEF ReadEndTime, ProfilerTypeOK
    <2>2. (StampInv /\ EntryInv /\ ExactUnlessDisturbed)'
        BY <1>1
        DEF ReadEndTime, ProfilerTypeOK, StampInv, EntryInv, ExactUnlessDisturbed, CountsOn
    <2>3. QED
        BY <2>1, <2>2
<1>2. CASE StoreTime(t)
    <2> DEFINE spent == end_time[t] - Time(loaded[t])
    <2>1. /\ loaded[t] \in [Words -> Nat] /\ stats[t] \in Stats
          /\ end_time[t] \in Nat /\ stamp[t] \in Nat
        BY <1>2, ProfilerAssumption DEF StoreTime, ProfilerTypeOK, EntryInv
    <2>2. spent \in Int
        BY <2>1, TimeType
    <2> DEFINE new == [stats[t] EXCEPT !.execution_time = spent]
    <2>3. new \in Stats /\ new.execution_time = spent
        BY <2>1, <2>2 DEF Stats
    <2>4. stats' = [stats EXCEPT ![t] = new]
        BY <1>2 DEF StoreTime
    <2>5. disturbed[t] \/ spent = end_time[t] - stamp[t]
        <3>1. SUFFICES ASSUME ~disturbed[t]
                       PROVE  Time(loaded[t]) = stamp[t]
            BY Zenon
        <3>2. \A w \in Words : loaded[t][w] = Part(w, stamp[t])
            BY <1>2, <3>1 DEF StoreTime, StampInv
        <3>3. QED
            BY <2>1, <3>2, PartsMakeTime
    <2> HIDE DEF new, spent
    <2>6. ProfilerTypeOK'
        <3>1. stats' \in [Worker -> Stats \cup {NoStats}]
            BY <2>3, <2>4 DEF ProfilerTypeOK
        <3>2. /\ call' \in [Worker -> {"outside", "start", "stop", "store_cpu"}]
              /\ loaded' \in [Worker -> [Words -> Nat]]
            BY <1>2 DEF StoreTime, ProfilerTypeOK, ZeroTime
        <3>3. QED
            BY <1>2, <3>1, <3>2 DEF StoreTime, ProfilerTypeOK
    <2>7. StampInv'
        BY <1>2 DEF StoreTime, ProfilerTypeOK, StampInv, CountsOn
    <2>8. EntryInv'
        BY <1>2, <2>3, <2>4 DEF StoreTime, ProfilerTypeOK, EntryInv
    <2>9. ExactUnlessDisturbed'
        BY <1>2, <2>3, <2>4, <2>5 DEF StoreTime, ProfilerTypeOK, ExactUnlessDisturbed
    <2>10. QED
        BY <2>6, <2>7, <2>8, <2>9
<1>3. CASE StoreCpu(t)
    <2>1. stats[t] \in Stats /\ ran[t] \in 0 .. RunBefore + MaxClock
        BY <1>3, ProfilerAssumption DEF StoreCpu, ProfilerTypeOK, EntryInv
    <2>2. CpuUsage(ran[t]) \in 0 .. Width - 1
        BY <2>1, CpuUsageType, ProfilerAssumption
    <2> DEFINE new == [stats[t] EXCEPT !.cpu_usage = CpuUsage(ran[t]), !.at = ran[t]]
    <2>3. new \in Stats
        <3>1. ran[t] \in -1 .. RunBefore + MaxClock
            BY <2>1, ProfilerAssumption
        <3>2. QED
            BY <2>1, <2>2, <3>1 DEF Stats
    <2>4. stats' = [stats EXCEPT ![t] = new]
        BY <1>3 DEF StoreCpu
    <2> HIDE DEF new
    <2>5. ProfilerTypeOK'
        <3>1. stats' \in [Worker -> Stats \cup {NoStats}]
            BY <2>3, <2>4 DEF ProfilerTypeOK
        <3>2. /\ call' \in [Worker -> {"outside", "start", "stop", "store_cpu"}]
              /\ disturbed' \in [Worker -> BOOLEAN]
            BY <1>3 DEF StoreCpu, ProfilerTypeOK
        <3>3. end_time' \in [Worker -> 0 .. clock] /\ stamp' \in [Worker -> 0 .. clock]
            BY <1>3, ProfilerAssumption DEF StoreCpu, ProfilerTypeOK
        <3>4. QED
            BY <1>3, <3>1, <3>2, <3>3 DEF StoreCpu, ProfilerTypeOK
    <2>6. StampInv'
        <3>1. \A u \in Worker \ {t} : stamp'[u] = stamp[u] /\ call'[u] = call[u]
                                          /\ disturbed'[u] = disturbed[u]
            BY <1>3 DEF StoreCpu, ProfilerTypeOK
        <3>2. call'[t] = "outside"
            BY <1>3 DEF StoreCpu, ProfilerTypeOK
        <3>3. QED
            BY <1>3, <3>1, <3>2 DEF StoreCpu, StampInv, CountsOn
    <2>7. (EntryInv /\ ExactUnlessDisturbed)'
        BY <1>3, <2>3, <2>4 DEF StoreCpu, ProfilerTypeOK, EntryInv, ExactUnlessDisturbed
    <2>8. QED
        BY <2>5, <2>6, <2>7
<1>4. QED
    BY <1>1, <1>2, <1>3

(* The monitoring task writes snapshots only. *)
LEMMA SnapshotInv ==
    ASSUME ProfilerInv, NEW t \in Watched, SaveSingleTaskSnapshot(t)
    PROVE  ProfilerInv'
<1>1. stats[t] \in Stats \cup {NoStats}
    BY ProfilerAssumption DEF ProfilerInv, ProfilerTypeOK
<1>2. snapshot' \in [Watched -> Stats \cup {NoStats}]
    BY <1>1 DEF SaveSingleTaskSnapshot, ProfilerInv, ProfilerTypeOK
<1>3. QED
    BY <1>2
    DEF SaveSingleTaskSnapshot, externalVars, workerVars, ProfilerInv, ProfilerTypeOK, StampInv,
        EntryInv, ExactUnlessDisturbed, CountsOn

(* Every step keeps the invariant. *)
LEMMA ProfilerNextInv == ProfilerInv /\ [ProfilerNext]_profilerVars => ProfilerInv'
<1> SUFFICES ASSUME ProfilerInv, [ProfilerNext]_profilerVars PROVE ProfilerInv'
    OBVIOUS
<1>1. CASE ProfilerNext
    BY <1>1, TickInv, StartInv, StoreWordInv, LoadWordInv, StopInv, SnapshotInv
    DEF ProfilerNext
<1>2. CASE UNCHANGED profilerVars
    BY <1>2
    DEF profilerVars, externalVars, workerVars, ProfilerInv, ProfilerTypeOK, StampInv,
        EntryInv, ExactUnlessDisturbed, CountsOn
<1>3. QED
    BY <1>1, <1>2

-----------------------------------------------------------------------------
(* Type correctness, for every number of tasks: what is stored of the counter
   fits its width. *)
THEOREM ProfilerTypeCorrect == ProfilerSpec => []ProfilerTypeOK
<1>1. ProfilerInv => ProfilerTypeOK
    BY DEF ProfilerInv
<1>2. QED
    BY <1>1, ProfilerInitInv, ProfilerNextInv, PTL DEF ProfilerSpec

(* However many tasks share the one start_time, and in whichever order its
   words are stored and loaded, a task is measured exactly unless another has
   stored a word between its own store and load of it (ExactUnlessDisturbed). *)
THEOREM MeasuresAreExact == ProfilerSpec => []ExactUnlessDisturbed
<1>1. ProfilerInv => ExactUnlessDisturbed
    BY DEF ProfilerInv
<1>2. QED
    BY <1>1, ProfilerInitInv, ProfilerNextInv, PTL DEF ProfilerSpec

-----------------------------------------------------------------------------
\* A record's cpu_usage is the counter's when it was read, if it was.
Honest(r) ==
    r # NoStats => r \in Stats /\ (r.at >= 0 => r.cpu_usage = CpuUsage(r.at))

\* A snapshot is not younger than the stats, nor these than the task.
CpuInv ==
    /\ \A t \in Worker : Honest(stats[t]) /\ (stats[t] # NoStats => stats[t].at <= ran[t])
    /\ \A t \in Watched :
           snapshot[t] # NoStats =>
               /\ Honest(snapshot[t])
               /\ stats[t] # NoStats /\ snapshot[t].at <= stats[t].at

(* Two readings of a counter that has not wrapped around in between differ, to
   one unit, by what has been counted. *)
LEMMA UnwrappedDifference ==
    ASSUME NEW a \in Nat, NEW b \in Nat, b <= a, a \div Width = b \div Width
    PROVE  LET units == Difference(CpuUsage(a), CpuUsage(b))
           IN  Unit * units \in a - b - Unit + 1 .. a - b + Unit - 1
<1> DEFINE x == a % Width
           y == b % Width
           m == x \div Unit
           n == y \div Unit
<1>1. Width \in Nat \ {0} /\ Unit \in Nat \ {0}
    BY ProfilerAssumption
<1>2. x \in 0 .. Width - 1 /\ y \in 0 .. Width - 1 /\ x - y = a - b
    <2>1. a \div Width \in Nat /\ x \in 0 .. Width - 1 /\ a = Width * (a \div Width) + x
        BY <1>1, Remainder
    <2>2. b \div Width \in Nat /\ y \in 0 .. Width - 1 /\ b = Width * (b \div Width) + y
        BY <1>1, Remainder
    <2> HIDE DEF x, y
    <2>3. QED
        BY <1>1, <2>1, <2>2, Z3
<1> HIDE DEF x, y
<1>3. x \in Nat /\ y \in Nat
    BY <1>1, <1>2
<1>4. m \in Nat /\ x = Unit * m + (x % Unit) /\ x % Unit \in 0 .. Unit - 1
    BY <1>1, <1>3, Remainder
<1>5. n \in Nat /\ y = Unit * n + (y % Unit) /\ y % Unit \in 0 .. Unit - 1
    BY <1>1, <1>3, Remainder
<1> HIDE DEF m, n
<1>6. Unit * (m - n) = Unit * m - Unit * n
    BY <1>1, <1>4, <1>5, Z3
<1>7. Unit * (m - n) \in a - b - Unit + 1 .. a - b + Unit - 1
    <2>1. Unit * m \in Nat /\ Unit * n \in Nat
        BY <1>1, <1>4, <1>5, Z3
    <2> DEFINE d == Unit * (m - n)
    <2>2. d = Unit * m - Unit * n /\ d \in Int
        BY <1>6, <2>1
    <2> HIDE DEF d
    <2>3. d \in a - b - Unit + 1 .. a - b + Unit - 1
        BY <1>1, <1>2, <1>4, <1>5, <2>1, <2>2
    <2>4. QED
        BY <2>3 DEF d
<1>8. m - n \in 0 .. Width - 1
    <2>1. m <= x
        BY <1>1, <1>2, <1>4, Z3
    <2>2. m - n >= 0
        <3>1. SUFFICES ASSUME m - n <= -1 PROVE FALSE
            BY <1>4, <1>5
        <3>2. Unit * (m - n) <= -Unit
            BY <1>1, <1>4, <1>5, <3>1, Z3
        <3>3. a - b - Unit + 1 <= -Unit
            BY <1>1, <1>4, <1>5, <1>7, <3>2
        <3>4. QED
            BY <1>1, <3>3
    <2>3. QED
        BY <1>1, <1>2, <1>4, <1>5, <2>1, <2>2
<1>9. (m - n) % Width = m - n
    BY <1>1, <1>8
<1>10. CpuUsage(a) = m /\ CpuUsage(b) = n
    BY DEF CpuUsage, m, n, x, y
<1>11. QED
    BY <1>7, <1>9, <1>10 DEF Difference

(* Every step keeps the records honest: the counter is read once per record,
   and snapshots are copies. *)
LEMMA CpuNextInv ==
    ASSUME ProfilerTypeOK, EntryInv, CpuInv, [ProfilerNext]_profilerVars
    PROVE  CpuInv'
<1> USE DEF externalVars, workerVars
<1>1. CASE Tick
    <2>1. \A t \in Worker : ran[t] <= ran'[t]
        BY <1>1, TickRan
    <2>2. \A t \in Worker : stats[t] # NoStats => stats[t].at \in Int
        BY ProfilerAssumption DEF ProfilerTypeOK, Stats
    <2>3. \A t \in Worker : ran[t] \in Nat /\ ran'[t] \in Nat
        BY <1>1, TickRan, ProfilerAssumption DEF ProfilerTypeOK
    <2>4. QED
        BY <1>1, <2>1, <2>2, <2>3 DEF Tick, CpuInv, Honest
<1>2. ASSUME NEW t \in Worker, StartProfiling(t)
      PROVE  CpuInv'
    <2>1. CASE stats[t] = NoStats
        <3>1. stats' = [stats EXCEPT ![t] = ZeroStats] /\ ran' = ran /\ snapshot' = snapshot
            BY <1>2, <2>1 DEF StartProfiling
        <3>2. ZeroStats \in Stats /\ ZeroStats.at = -1
            BY ProfilerAssumption DEF ZeroStats, Stats
        <3>3. ran[t] \in Nat
            BY ProfilerAssumption DEF ProfilerTypeOK
        <3>4. Honest(ZeroStats) /\ ZeroStats # NoStats /\ ZeroStats.at <= ran[t]
            BY <3>2, <3>3
            DEF Honest, ZeroStats, NoStats
        <3>5. ~(t \in Watched /\ snapshot[t] # NoStats)
            BY <2>1 DEF CpuInv
        <3>6. QED
            BY <3>1, <3>4, <3>5, ProfilerAssumption DEF CpuInv, ProfilerTypeOK
    <2>2. CASE stats[t] # NoStats
        BY <1>2, <2>2 DEF StartProfiling, CpuInv
    <2>3. QED
        BY <2>1, <2>2
<1>3. ASSUME NEW t \in Worker, ReadEndTime(t)
      PROVE  CpuInv'
    BY <1>3 DEF ReadEndTime, CpuInv
<1>4. ASSUME NEW t \in Worker, StoreTime(t)
      PROVE  CpuInv'
    <2> DEFINE spent == end_time[t] - Time(loaded[t])
               new == [stats[t] EXCEPT !.execution_time = spent]
    <2>1. stats[t] \in Stats /\ stats[t] # NoStats
        BY <1>4, ProfilerAssumption DEF StoreTime, EntryInv, Stats, NoStats
    <2>2. spent \in Int
        <3>1. end_time[t] \in Nat /\ loaded[t] \in [Words -> Nat]
            BY ProfilerAssumption DEF ProfilerTypeOK
        <3>2. QED
            BY <3>1, TimeType
    <2>3. /\ new \in Stats /\ new # NoStats
          /\ new.at = stats[t].at /\ new.cpu_usage = stats[t].cpu_usage
        BY <2>1, <2>2, ProfilerAssumption DEF Stats, NoStats
    <2>4. stats' = [stats EXCEPT ![t] = new]
        BY <1>4 DEF StoreTime
    <2> HIDE DEF new, spent
    <2>5. Honest(new)
        BY <2>1, <2>3 DEF Honest, CpuInv
    <2>6. QED
        BY <1>4, <2>1, <2>3, <2>4, <2>5, ProfilerAssumption DEF StoreTime, CpuInv, ProfilerTypeOK
<1>5. ASSUME NEW t \in Worker, StoreCpu(t)
      PROVE  CpuInv'
    <2> DEFINE new == [stats[t] EXCEPT !.cpu_usage = CpuUsage(ran[t]), !.at = ran[t]]
    <2>1. stats[t] \in Stats /\ stats[t] # NoStats /\ ran[t] \in 0 .. RunBefore + MaxClock
        BY <1>5, ProfilerAssumption DEF StoreCpu, EntryInv, ProfilerTypeOK, Stats, NoStats
    <2>2. CpuUsage(ran[t]) \in 0 .. Width - 1
        BY <2>1, CpuUsageType, ProfilerAssumption
    <2>3. /\ new \in Stats /\ new # NoStats
          /\ new.at = ran[t] /\ new.cpu_usage = CpuUsage(ran[t])
        <3>1. new \in Stats
            <4>1. ran[t] \in -1 .. RunBefore + MaxClock
                BY <2>1, ProfilerAssumption
            <4>2. QED
                BY <2>1, <2>2, <4>1 DEF Stats
        <3>2. new.at = ran[t] /\ new.cpu_usage = CpuUsage(ran[t])
            BY <2>1 DEF Stats
        <3>3. ran[t] # -2
            BY <2>1, ProfilerAssumption
        <3>4. new # NoStats
            BY <3>2, <3>3 DEF NoStats
        <3>5. QED
            BY <3>1, <3>2, <3>4
    <2>4. stats' = [stats EXCEPT ![t] = new] /\ ran' = ran /\ snapshot' = snapshot
        BY <1>5 DEF StoreCpu
    <2> HIDE DEF new
    <2>5. Honest(new)
        BY <2>3 DEF Honest
    <2>6. \A u \in Watched : snapshot[u] # NoStats => snapshot[u].at <= ran[u]
        <3>1. SUFFICES ASSUME NEW u \in Watched, snapshot[u] # NoStats
                       PROVE  snapshot[u].at <= ran[u]
            OBVIOUS
        <3>2. snapshot[u].at <= stats[u].at /\ stats[u].at <= ran[u] /\ u \in Worker
            BY <3>1, ProfilerAssumption DEF CpuInv
        <3>3. snapshot[u].at \in Int /\ stats[u].at \in Int /\ ran[u] \in Int
            BY <3>1, <3>2, ProfilerAssumption DEF CpuInv, ProfilerTypeOK, Stats
        <3>4. QED
            BY <3>2, <3>3
    <2>7. \A u \in Worker : stats'[u] = IF u = t THEN new ELSE stats[u]
        BY <2>4 DEF ProfilerTypeOK
    <2>8. ran[t] <= ran[t]
        BY <2>1, ProfilerAssumption
    <2>9. QED
        BY <2>3, <2>4, <2>5, <2>6, <2>7, <2>8, ProfilerAssumption DEF CpuInv
<1>6. ASSUME NEW t \in Worker, NEW w \in Words, StoreWord(t, w) \/ LoadWord(t, w)
      PROVE  CpuInv'
    BY <1>6 DEF StoreWord, LoadWord, CpuInv
<1>7. ASSUME NEW t \in Watched, SaveSingleTaskSnapshot(t)
      PROVE  CpuInv'
    <2>1. stats[t] \in Stats /\ stats[t] # NoStats /\ t \in Worker
        BY <1>7, ProfilerAssumption DEF SaveSingleTaskSnapshot, Known, ProfilerTypeOK
    <2>2. stats[t].at <= stats[t].at
        BY <2>1, ProfilerAssumption DEF Stats
    <2>3. QED
        BY <1>7, <2>1, <2>2 DEF SaveSingleTaskSnapshot, CpuInv, ProfilerTypeOK
<1>8. CASE UNCHANGED profilerVars
    BY <1>8 DEF profilerVars, CpuInv
<1>9. QED
    BY <1>1, <1>2, <1>3, <1>4, <1>5, <1>6, <1>7, <1>8 DEF ProfilerNext

(* "CPU Usage Diff" is what the task has run between the two readings, to one
   unit, for every width of the counter, unless it has wrapped around
   (CpuDiffUnlessWrapped). *)
THEOREM CpuDiffIsRight == ProfilerSpec => []CpuDiffUnlessWrapped
<1>1. ProfilerInit => CpuInv
    BY ProfilerAssumption DEF ProfilerInit, CpuInv, Honest
<1>2. ProfilerInv /\ CpuInv /\ [ProfilerNext]_profilerVars => ProfilerInv' /\ CpuInv'
    BY ProfilerNextInv, CpuNextInv DEF ProfilerInv
<1>3. CpuInv => CpuDiffUnlessWrapped
    <2> SUFFICES ASSUME CpuInv, NEW t \in Watched, snapshot[t].at >= 0,
                        stats[t].at \div Width = snapshot[t].at \div Width
                 PROVE  LET units == Difference(stats[t].cpu_usage, snapshot[t].cpu_usage)
                        IN  Unit * units \in stats[t].at - snapshot[t].at - Unit + 1
                                              .. stats[t].at - snapshot[t].at + Unit - 1
        BY DEF CpuDiffUnlessWrapped
    <2>1. snapshot[t] # NoStats
        BY DEF NoStats
    <2>2. /\ stats[t] \in Stats /\ snapshot[t] \in Stats
          /\ snapshot[t].at <= stats[t].at
        BY <2>1, ProfilerAssumption DEF CpuInv, Honest
    <2>3. stats[t].at \in Nat /\ snapshot[t].at \in Nat
        BY <2>2, ProfilerAssumption DEF Stats
    <2>4. /\ stats[t].cpu_usage = CpuUsage(stats[t].at)
          /\ snapshot[t].cpu_usage = CpuUsage(snapshot[t].at)
        BY <2>1, <2>2, <2>3, ProfilerAssumption DEF CpuInv, Honest, Stats, NoStats
    <2>5. QED
        BY <2>2, <2>3, <2>4, UnwrappedDifference
<1>4. QED
    BY <1>1, <1>2, <1>3, ProfilerInitInv, PTL DEF ProfilerSpec

=============================================================================
