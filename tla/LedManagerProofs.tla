-------------------------- MODULE LedManagerProofs --------------------------
(***************************************************************************)
(* Proofs about LedManager, for every set of entries and of calls: also    *)
(* with the entries that make processLog() wait for itself.                *)
(***************************************************************************)
EXTENDS LedManager, TLAPS

\* Where a task stands while it holds the mutex.
Inside == {"set_mode", "set_pin", "log_read", "log_unlock", "blink", "toggle"}

\* Each task stands where its code can be.
PlaceInv ==
    /\ at["main"] \in {"idle", "set_lock", "set_mode", "set_pin"}
    /\ at["logger"] \in {"idle", "log_lock", "log_read", "set_lock", "log_unlock"}
    /\ at["blinker"] \in {"idle", "blink", "toggle"}

\* Only its holder is inside, and setLEDMode() called by processLog() is inside
\* from the start.
MutexInv ==
    /\ \A t \in Task : at[t] \in Inside => mtx = t
    /\ at["logger"] = "set_lock" => mtx = "logger"

\* Does LED c show mode m?
Shows(c, m) == (m = "OFF" => pins[c] = 0) /\ (m = "ON" => pins[c] = 1)

\* The one LED that need not show its mode yet is the one setLEDMode() is about.
PinInv ==
    /\ \A c \in LEDColor :
           Shows(c, ledModes[c]) \/ (at["main"] = "set_pin" /\ c = arg["main"].color)
    /\ at["blinker"] = "toggle" => ledModes[blinking] = "BLINK"

LedInv == TypeOK /\ PlaceInv /\ MutexInv /\ PinInv

-----------------------------------------------------------------------------
(* All LEDs are off and everybody is outside. *)
LEMMA LedInit == Init => LedInv
BY LedAssumption
DEF Init, LedInv, TypeOK, PlaceInv, MutexInv, PinInv, Shows, Inside, LEDColor, LEDMode, Task,
    Caller, Setting, Set

(* What processLog() asks for is a setting. *)
LEMMA SettingsType == \A e : Settings(e) \subseteq Setting
BY DEF Settings, Setting, Set, LEDColor, LEDMode

(* Steps outside the mutex, and those that take it or give it back. *)
LEMMA MutexSteps ==
    ASSUME LedInv,
           CallSetLEDMode \/ CallProcessLog \/ SetLock("main") \/ SetLock("logger")
             \/ LogLock \/ LogUnlock \/ BlinkLock \/ BlinkUnlock
    PROVE  LedInv'
<1> USE DEF LedInv, TypeOK, PlaceInv, MutexInv, PinInv, Shows, Inside, Task, Caller, Goto,
            CanLock, Released, Lock, blinkVars
<1>1. CASE CallSetLEDMode
    BY <1>1, LedAssumption DEF CallSetLEDMode
<1>2. CASE CallProcessLog
    BY <1>2 DEF CallProcessLog
<1>3. CASE SetLock("main")
    BY <1>3 DEF SetLock
<1>4. CASE SetLock("logger")
    BY <1>4 DEF SetLock
<1>5. CASE LogLock \/ LogUnlock
    BY <1>5 DEF LogLock, LogUnlock
<1>6. CASE BlinkLock \/ BlinkUnlock
    BY <1>6 DEF BlinkLock, BlinkUnlock
<1>7. QED
    BY <1>1, <1>2, <1>3, <1>4, <1>5, <1>6

(* The mode changes before the pin does, by the caller that holds the mutex;
   processLog() never gets that far, it waits for itself. *)
LEMMA SetSteps ==
    ASSUME LedInv, NEW t \in Caller, SetMode(t) \/ SetPin(t)
    PROVE  LedInv'
<1> USE DEF LedInv, TypeOK, PlaceInv, MutexInv, PinInv, Shows, Inside, Task, Caller, Goto,
            Released, blinkVars
<1>1. t = "main" /\ mtx = "main"
    BY DEF SetMode, SetPin
<1>2. arg["main"] \in Setting /\ arg["main"].color \in LEDColor /\ arg["main"].mode \in LEDMode
    BY DEF Setting
<1>3. CASE SetMode(t)
    BY <1>1, <1>2, <1>3 DEF SetMode
<1>4. CASE SetPin(t)
    BY <1>1, <1>2, <1>4 DEF SetPin, Level, LEDMode
<1>5. QED
    BY <1>3, <1>4

(* processLog() looks at the entry and passes on a setting, or none. *)
LEMMA ReadStep ==
    ASSUME LedInv, LogRead
    PROVE  LedInv'
<1> USE DEF LedInv, TypeOK, PlaceInv, MutexInv, PinInv, Shows, Inside, Task, Caller, Goto,
            blinkVars
<1>1. arg' \in [Caller -> Setting] /\ arg'["main"] = arg["main"]
    BY SettingsType DEF LogRead
<1>2. QED
    BY <1>1 DEF LogRead

(* A round of the blinking task touches the pins of blinking LEDs only. *)
LEMMA BlinkSteps ==
    ASSUME LedInv, (\E c \in LEDColor : BlinkTest(c)) \/ BlinkToggle
    PROVE  LedInv'
<1> USE DEF LedInv, TypeOK, PlaceInv, MutexInv, PinInv, Shows, Inside, Task, Caller, Goto,
            blinkVars
<1>1. CASE \E c \in LEDColor : BlinkTest(c)
    BY <1>1 DEF BlinkTest, Blinks
<1>2. CASE BlinkToggle
    BY <1>2 DEF BlinkToggle, InputLevel
<1>3. QED
    BY <1>1, <1>2

(* Every step keeps the invariant. *)
LEMMA LedNext == LedInv /\ [Next]_vars => LedInv'
<1> SUFFICES ASSUME LedInv, [Next]_vars PROVE LedInv'
    OBVIOUS
<1>1. CASE CallSetLEDMode \/ CallProcessLog
    BY <1>1, MutexSteps
<1>2. CASE CallerStep("main") \/ CallerStep("logger")
    BY <1>2, MutexSteps, SetSteps DEF CallerStep, Caller
<1>3. CASE LogLock \/ LogRead \/ LogUnlock
    BY <1>3, MutexSteps, ReadStep
<1>4. CASE BlinkStep
    BY <1>4, MutexSteps, BlinkSteps DEF BlinkStep
<1>5. CASE UNCHANGED vars
    BY <1>5 DEF vars, blinkVars, LedInv, TypeOK, PlaceInv, MutexInv, PinInv, Shows
<1>6. QED
    BY <1>1, <1>2, <1>3, <1>4, <1>5 DEF Next, LogStep

(* The invariant holds in every reachable state. *)
LEMMA LedIsSound == Spec => []LedInv
BY LedInit, LedNext, PTL DEF Spec

-----------------------------------------------------------------------------
(* Type correctness: updateLEDState() and the blinking task drive the pins with
   0 or 1. *)
THEOREM TypeCorrect == Spec => []TypeOK
<1>1. LedInv => TypeOK
    BY DEF LedInv
<1>2. QED
    BY <1>1, LedIsSound, PTL

(* While nobody holds the mutex an LED that is off or on shows it, whatever
   setLEDMode(), processLog() and the blinking task did, and in whatever order
   (PinFollowsMode). *)
THEOREM PinsFollow == Spec => []PinFollowsMode
<1>1. LedInv => PinFollowsMode
    BY DEF LedInv, TypeOK, MutexInv, PinInv, Shows, Inside, PinFollowsMode, Task
<1>2. QED
    BY <1>1, LedIsSound, PTL

=============================================================================
