----------------------------- MODULE LedManager -----------------------------
(***************************************************************************)
(* lib/Led/LedManager.hpp: three LEDs with a mode each.  Three tasks share *)
(* the modes and the pins under mtx: whoever calls setLEDMode(), whoever   *)
(* logs an entry that EventLogger hands to processLog(), and the blinking  *)
(* task.                                                                   *)
(*                                                                         *)
(* processLog() calls setLEDMode() with mtx held; mtx is a std::mutex,     *)
(* which its holder cannot take again: on this platform it waits for ever. *)
(*                                                                         *)
(* Left out: the intervals, which are stored and never read, and the       *)
(* destructor of the singleton, which does not run before power-off.       *)
(***************************************************************************)
EXTENDS Integers

CONSTANTS
    Entries,     \* the log entries that reach processLog(): [id, state]
    Calls        \* what main calls setLEDMode() with: [color, mode]

VARIABLES
    ledModes,    \* the mode of each LED
    pins,        \* the level each pin drives
    mtx,         \* the task that holds the mutex, or nobody
    at,          \* where each task is
    arg,         \* the color and mode each caller has passed to setLEDMode()
    entry,       \* what processLog() was called with
    todo,        \* the LEDs the blinking task has still to look at in this round
    blinking     \* the one it is about to toggle

blinkVars == <<todo, blinking>>
vars == <<ledModes, pins, mtx, at, arg, entry, blinkVars>>

LEDColor == {"RED", "GREEN", "BLUE"}
LEDMode == {"OFF", "ON", "BLINK"}
Entry == [id : {"WifiManager", "MqttManager", "Error", "SDCard"},
          state : {"CONNECTED", "DISCONNECTED", "CONNECTING"}]

\* main calls setLEDMode(), logger is whoever logs, blinker runs blinkingTask().
Task == {"main", "logger", "blinker"}
Caller == {"main", "logger"}

\* setLEDMode(color, mode)
Setting == [color : LEDColor, mode : LEDMode]
Set(c, m) == [color |-> c, mode |-> m]

ASSUME LedAssumption == Entries \subseteq Entry /\ Entries # {} /\ Calls \subseteq Setting

Init ==
    /\ ledModes = [c \in LEDColor |-> "OFF"]
    /\ pins = [c \in LEDColor |-> 0]
    /\ mtx = "nobody"
    /\ at = [t \in Task |-> "idle"]
    /\ arg = [t \in Caller |-> Set("RED", "OFF")]
    /\ entry \in Entries
    /\ todo = {}
    /\ blinking = "RED"

Goto(t, label) == at' = [at EXCEPT ![t] = label]

-----------------------------------------------------------------------------
\* Faulty variants of the definitions below.
LockIgnored(t) == TRUE
UnlockForgotten(t) == UNCHANGED mtx
ModeAsLevel(c, m) == CASE m = "OFF" -> 0 [] m = "ON" -> 1 [] m = "BLINK" -> 2
BlinkForgotten(c) == FALSE

-----------------------------------------------------------------------------
CanLock(t) == mtx = "nobody"

Released(t) == mtx' = "nobody"

Lock(t, from, to) ==
    /\ at[t] = from
    /\ CanLock(t)
    /\ mtx' = t
    /\ Goto(t, to)

-----------------------------------------------------------------------------
\* setLEDMode(): called by main, or by processLog().

CallSetLEDMode ==
    /\ at["main"] = "idle"
    /\ \E s \in Calls : arg' = [arg EXCEPT !["main"] = s]
    /\ Goto("main", "set_lock")
    /\ UNCHANGED <<ledModes, pins, mtx, entry, blinkVars>>

SetLock(t) ==
    /\ Lock(t, "set_lock", "set_mode")
    /\ UNCHANGED <<ledModes, pins, arg, entry, blinkVars>>

SetMode(t) ==
    /\ at[t] = "set_mode"
    /\ ledModes' = [ledModes EXCEPT ![arg[t].color] = arg[t].mode]
    /\ Goto(t, "set_pin")
    /\ UNCHANGED <<pins, mtx, arg, entry, blinkVars>>

\* updateLEDState(): a blinking LED is left to the blinking task.
Level(c, m) == CASE m = "OFF"   -> 0
                 [] m = "ON"    -> 1
                 [] m = "BLINK" -> pins[c]

\* processLog() would go on to its own end.
SetPin(t) ==
    /\ at[t] = "set_pin"
    /\ LET c == arg[t].color IN pins' = [pins EXCEPT ![c] = Level(c, ledModes[c])]
    /\ Released(t)
    /\ Goto(t, IF t = "logger" THEN "log_unlock" ELSE "idle")
    /\ UNCHANGED <<ledModes, arg, entry, blinkVars>>

-----------------------------------------------------------------------------
\* processLog(id, state), the callback the constructor registers.

\* The calls of setLEDMode() that an entry asks for: one or none.
Settings(e) ==
    LET color == IF e.id = "WifiManager" THEN "GREEN" ELSE "BLUE" IN
    CASE e.id = "Error" -> {Set("RED", "BLINK")}
      [] e.id \in {"WifiManager", "MqttManager"} /\ e.state = "CONNECTED" ->
             {Set(color, "BLINK")}
      [] e.id \in {"WifiManager", "MqttManager"} /\ e.state = "DISCONNECTED" ->
             {Set(color, "OFF")}
      [] OTHER -> {}

CallProcessLog ==
    /\ at["logger"] = "idle"
    /\ entry' \in Entries
    /\ Goto("logger", "log_lock")
    /\ UNCHANGED <<ledModes, pins, mtx, arg, blinkVars>>

LogLock ==
    /\ Lock("logger", "log_lock", "log_read")
    /\ UNCHANGED <<ledModes, pins, arg, entry, blinkVars>>

LogRead ==
    /\ at["logger"] = "log_read"
    /\ IF Settings(entry) = {}
       THEN Goto("logger", "log_unlock") /\ UNCHANGED arg
       ELSE /\ \E s \in Settings(entry) : arg' = [arg EXCEPT !["logger"] = s]
            /\ Goto("logger", "set_lock")
    /\ UNCHANGED <<ledModes, pins, mtx, entry, blinkVars>>

LogUnlock ==
    /\ at["logger"] = "log_unlock"
    /\ Released("logger")
    /\ Goto("logger", "idle")
    /\ UNCHANGED <<ledModes, pins, arg, entry, blinkVars>>

-----------------------------------------------------------------------------
\* blinkingTask(): one round, then 100 ms of sleep.

BlinkLock ==
    /\ Lock("blinker", "idle", "blink")
    /\ todo' = LEDColor
    /\ UNCHANGED <<ledModes, pins, arg, entry, blinking>>

Blinks(c) == ledModes[c] = "BLINK"

\* The order of an unordered_map is unspecified.
BlinkTest(c) ==
    /\ at["blinker"] = "blink"
    /\ c \in todo
    /\ todo' = todo \ {c}
    /\ IF Blinks(c)
       THEN Goto("blinker", "toggle") /\ blinking' = c
       ELSE UNCHANGED <<at, blinking>>
    /\ UNCHANGED <<ledModes, pins, mtx, arg, entry>>

\* gpio_get_level() of a pin that init() configured as GPIO_MODE_OUTPUT: its
\* input is disabled and reads 0.
InputLevel(c) == 0

BlinkToggle ==
    /\ at["blinker"] = "toggle"
    /\ pins' = [pins EXCEPT ![blinking] = 1 - InputLevel(blinking)]
    /\ Goto("blinker", "blink")
    /\ UNCHANGED <<ledModes, mtx, arg, entry, blinkVars>>

BlinkUnlock ==
    /\ at["blinker"] = "blink"
    /\ todo = {}
    /\ Released("blinker")
    /\ Goto("blinker", "idle")
    /\ UNCHANGED <<ledModes, pins, arg, entry, blinkVars>>

-----------------------------------------------------------------------------
CallerStep(t) ==
    \/ SetLock(t)
    \/ SetMode(t)
    \/ SetPin(t)

LogStep ==
    \/ LogLock
    \/ LogRead
    \/ LogUnlock
    \/ CallerStep("logger")

BlinkStep ==
    \/ BlinkLock
    \/ \E c \in LEDColor : BlinkTest(c)
    \/ BlinkToggle
    \/ BlinkUnlock

Next ==
    \/ CallSetLEDMode
    \/ CallProcessLog
    \/ CallerStep("main")
    \/ LogStep
    \/ BlinkStep

\* A task inside a call or a round is scheduled again and again.  The blinking
\* task sleeps between two rounds and nobody calls setLEDMode() without a pause,
\* so whoever waits for the mutex gets it in the end.
Fairness ==
    /\ WF_vars(CallerStep("main"))
    /\ WF_vars(LogStep)
    /\ WF_vars(BlinkStep)
    /\ SF_vars(SetLock("main"))
    /\ SF_vars(LogLock)
    /\ SF_vars(BlinkLock)

Spec == Init /\ [][Next]_vars /\ Fairness

-----------------------------------------------------------------------------
(* Type invariant: pins are driven with a level, 0 or 1. *)
TypeOK ==
    /\ ledModes \in [LEDColor -> LEDMode]
    /\ pins \in [LEDColor -> 0 .. 1]
    /\ mtx \in Task \cup {"nobody"}
    /\ at \in [Task -> {"idle", "set_lock", "set_mode", "set_pin", "log_lock",
                        "log_read", "log_unlock", "blink", "toggle"}]
    /\ arg \in [Caller -> Setting]
    /\ entry \in Entries
    /\ todo \subseteq LEDColor
    /\ blinking \in LEDColor

(* While nobody holds the mutex an LED that is not blinking shows its mode: a
   round of the blinking task that began before setLEDMode() cannot light an
   LED that has been switched off since. *)
PinFollowsMode ==
    mtx = "nobody" =>
        \A c \in LEDColor :
            /\ ledModes[c] = "OFF" => pins[c] = 0
            /\ ledModes[c] = "ON" => pins[c] = 1

(* setLEDMode() returns: the blinking task and the tasks that log let it have
   the mutex. *)
SetReturns == at["main"] = "set_lock" ~> at["main"] = "idle"

(* An LED set to BLINK is lit sooner or later, unless its mode changes first,
   whatever order the blinking task visits the LEDs in. *)
BlinkLights ==
    \A c \in LEDColor : ledModes[c] = "BLINK" ~> pins[c] = 1 \/ ledModes[c] # "BLINK"

(* "Process a log entry and update LED modes": processLog() comes to an end. *)
LogProcessed == at["logger"] = "log_read" ~> at["logger"] = "idle"

=============================================================================
