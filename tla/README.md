# TLA+ models of the multi-sensor station

This directory models the C++ firmware of the station: what its components
promise, checked by TLC on small instances, and proved by TLAPS for every
instance where that is possible. Paths below are relative to the repository
root (`src/` in `PROJECT.json`'s paths is that root).

    tlc -config MCWifiManager.cfg MCWifiManager.tla     # model-check one component
    tlapm WifiManagerProofs.tla                         # check its proofs

`PROJECT.json` lists components, runs, the mutants that show that each property
can fail, the source lines each definition stands for, findings, hazards and
theorems.

## 1. The system

The firmware runs on an ESP32 (ESP-IDF, FreeRTOS). `main()` initialises the
NVS partition, `WifiManager` and `MqttManager`; the rest of it, from the LEDs and
`OtaManager` on, is under `NOT_YET_DEVELOPED`. Everything else happens in tasks:
the ESP event loop task runs `WifiManager::eventHandler()`, the esp-mqtt task
runs `MqttManager::eventHandler()`, a thread detached by `WifiManager`'s
constructor runs `reconnectTask()`, `OtaManager` has one thread for a button and
one that asks for updates, and LED and sensor tasks are prepared. A second
program, `src/main.cpp.profiler`, has a task that calls `TaskProfiler`'s
`start_profiling()` (its `stop_profiling()` stands behind an endless loop) and a
monitor that takes snapshots of it.

| component | state | operations | talks to | correct when |
|---|---|---|---|---|
| `CircularBuffer` | slots, `head_`, `tail_`, `size_` | `push`, `pop`, `at`, `size`, `is_empty`, `is_max` | used by `EventLogger` | it is a bounded FIFO that overwrites its oldest item |
| `EventLogger` | ring of log lines, static format buffer, mutex | `logStateChange`, `printLatestLogs`, `registerCallback` | called by every `StatefulObjectLogged` | the log is the end of the history; a full log is printed whole |
| `StatefulObject` | id, state | `setState`, `getState` | `EventLogger` | every change is logged once |
| `WifiManager` | state, retry count, mutex, condition variable | `init`, `eventHandler`, `reconnectTask`, `updateCredentials` | Wi-Fi driver, event loop, `esp_restart` | a lost link is retried, boundedly; `isConnected()` is true to the link |
| `MqttManager` | state, client handle | `init`, `publish`, `subscribe`, `unsubscribe`, `eventHandler` | esp-mqtt | `isConnected()` follows the client; `publish` reports what happened |
| `LedManager` | mode per LED, pins, mutex | `setLEDMode`, `processLog`, `blinkingTask` | GPIO, `EventLogger`'s callback | LEDs show their modes; nobody waits for ever |
| `SDCardFilesystem` | files | `mount`, `unmount`, `writeFile`, `deleteFile`, `appendLine`, `removeFirstLine`, reads | FatFs | lines are neither lost, duplicated nor reordered |
| `OtaManager` | state, two threads | `start`, `enterOtaMode`, `performOtaUpdate` | `esp_https_ota`, `esp_restart` | an update ends in a restart, and there is always a firmware to boot |
| `StateMachine`, `Observer` | transitions, callbacks, observers | `changeToState`, `notifyObservers` | their users | observers see the changes in order |
| `CommandRouter` | map of handlers | `bindCommand`, `routeCommand` | handlers | each command reaches its handler |
| `TaskProfiler` | statistics per task, one start time | `start_profiling`, `stop_profiling`, ... | FreeRTOS | a duration is that of the task |
| `Sensor`, `SensorManager`, publisher, redundancy storage | none | empty stubs | | |

What is hard here: state written by one task and read by another without a
lock (`StatefulObject`, `WifiManager`); a condition variable notified without
its mutex; a counter that is reset while it is incremented; a method that is
called back while it is inside the call it made (`MqttManager`); a check made
after the lock is released (`EventLogger`); a lock taken twice (`LedManager`);
a file rewritten in place (`SDCardFilesystem`); an update that power may end at any write (`OtaManager`); one start time for
all tasks, wider than a register (`TaskProfiler`); a change of state announced inside
the announcement of another (`StateMachine`). The hazards, each at its line,
are in `PROJECT.json`.

## 2. Modules

| module | models | how its state and actions correspond to the code |
|---|---|---|
| `BoundedFifo` | what a `CircularBuffer` promises | abstract: a sequence of at most `Capacity` items |
| `CircularBuffer` | `lib/Patterns/CircularBuffer.hpp` | the four fields by name; `Push`, `PopEmpty`, `PopItem` are one call each; `Contents` is the refinement mapping to `BoundedFifo` |
| `EventLogger` | `lib/Logger/EventLogger.hpp` | `logs` is an instance of `CircularBuffer`; a call is the steps `Lock`, `Format`, `Push`, `Unlock`, `ReadHead`/`ReadTail`, `IsMax`, and `PrintLock`, `PrintEntry`..., `PrintUnlock` |
| `StatefulObject` | `lib/Patterns/StatefulObject.hpp` | extends `EventLogger`; `setState` is test, write, read back and log |
| `WifiManager` | `lib/Connectivity/WifiManager.{hpp,cpp}` | each task has a program counter (`main`, `ev`, `rt`, `app`); the driver is `link` and the queue `events` |
| `MqttManager` | `lib/Connectivity/MqttManager.{hpp,cpp}` | `handler` is the line of `eventHandler()` the client's task is at, `nested` the task inside whose call a disconnection is delivered |
| `LedManager` | `lib/Led/LedManager.hpp` | one program counter per task in `at`; the blinking task tests and drives one LED at a time |
| `LineQueue` | what `SDCardFilesystem` promises to a task that keeps a queue of lines in a file | abstract: each call is one step, a crash leaves one of a few named parts of a call |
| `SDCardFile` | `lib/FileSystem/SDCardFileSystem.hpp` | one file as the sequence of its lines and whether the last one is ended by a newline, whether the card is mounted, and the call in progress; an action is one stream or file operation, `RewriteFailed` the `fail()` in the loop of `removeFirstLine()`; `Promise` is the refinement mapping to `LineQueue` |
| `OtaManager` | `lib/Ota/OtaManager.hpp` | the place of each of the two threads in `pc`, the state, and the flash: two partitions, the one to boot, the one that runs |
| `Station` | `src/main.cpp` | extends `OtaManager`; `main()` from `nvs_flash_init()` to `OtaManager::start()`, which never returns, and the restarts that end in it again |
| `TaskProfiler` | `lib/Profiler/TaskProfiler.{hpp,cpp}` | `start_time` as two words, the statistics and the snapshots; `start_profiling()` is the reading of the clock (`StartProfiling`) and two stores (`StoreWord`), `stop_profiling()` the reading of the clock, two loads (`LoadWord`) and two stores into the statistics |
| `StateMachine` | `lib/Patterns/StateMachine.hpp` | the announcements under way as the stack `announced`, innermost last; the callback is place 0 of an announcement, the observers are the others |
| `*Proofs` | | the theorems of section 5 |
| `MC*` | | instances for TLC |

Modelled as external, from how the code uses them: the Wi-Fi driver
(`esp_wifi_connect` starts an attempt that ends in an address or in
`STA_DISCONNECTED`), the event loop (handlers one after the other, events in
the order posted), esp-mqtt (its lock excludes other callers while a handler
runs; a write that fails delivers `MQTT_EVENT_DISCONNECTED` before the call
returns, also inside the handler; QoS 1 messages are kept while offline),
mutexes and condition variables, GPIO, FatFs and the streams above it,
`esp_https_ota()` and the bootloader (the partition that is not running is
written, and becomes the one to boot when all of it has been verified), the NVS
partition, the clock and FreeRTOS' run time counter.

Names such as `attempts`, `missed`, `charged`, `changes`, `hist`, `asked`,
`told`, `within`, `disturbed` and `at` in `Stats` are history variables: they
record what happened and no action depends on them, but that a bound on calls
reads `changes`. `before` in `SDCardFile` is read where a write fails: it is what
the file was when the stream was opened.

### Choices a reader may question

* `WifiManager` has no variable for `mtx`: `reconnectTask()` is the only one
  that takes it, so it excludes nobody. What matters, that a wait tests its
  predicate and falls asleep in two steps, is two actions.
* Reading `head_` and `tail_` in the unlocked `is_max()` is a data race. Each
  read returns the value before or after the push in progress, in either order
  of the reads. Torn words are not modelled: aligned 32-bit accesses are whole
  on this processor.
* `retry_count++` is a read and a write.
* The retry count's event group bits are left out: nothing reads them.
* `esp_restart()` and a failed `ESP_ERROR_CHECK` lead to `Restart`, which
  starts the program anew with all variables as at the beginning. They are
  two steps, so a property can speak of the device that is about to restart.
* `gpio_get_level()` of a pin configured as `GPIO_MODE_OUTPUT` reads 0.
* Opening a file for writing truncates it on the card at once. What a stream is
  given then may stay in its memory until it is closed: when a write fails,
  when the close fails, which no call asks about, or when power is lost, any
  beginning of it may be on the card, also nothing, also a last line without its
  newline or cut short. `file.fail()` may show a failed write or not.
* `writeFile()` writes its data without a newline, `appendLine()` a line with
  one. What is written behind a line without an end makes one line with it,
  `Junk` in the model, as is a line cut short. `writeFile()`'s data is one line.
* Two tasks on one file are not modelled: the code has one. `readFile()` and
  `readFirstLine()` change nothing and have no action.
* `OtaManager` tests its state in `enterOtaMode()` and sets it in
  `performOtaUpdate()`: two threads could both pass the test. They do not,
  because `checkOtaAvailability()` returns `false` as it stands
  (`OtaAvailable`), so only the button's thread ever updates. The project
  therefore claims nothing about two updates at a time, and whoever implements
  the function needs a lock.
* The NVS partition may turn out to be defective after it was erased, so that
  the second `nvs_flash_init()` fails; it is defective from then on.
* `currentState` of `StateMachine` is not initialised: the model begins in any
  state. Observers are registered between announcements only; from inside one
  they would move the vector under the loop that reads it.
* `TaskProfiler` is modelled as its interface allows it to be used: by several
  tasks, each measured many times. `main.cpp.profiler` has one task and never
  stops its measurement. `start_time` has 64 bits, the processor 32: its two
  words are stored and loaded one by one, in any order.
* `TaskProfiler`'s clock and run time counter advance in `Tick`. A task that
  nobody watches runs too, but how long makes no difference to any action.
* `MCStation` and `MCPatterns` put two specifications that share nothing in one
  run: the variable `program` (or `template`) says which of the two a behaviour
  is about, and the other's variables stay as they are.

## 3. Runs

| run | bounds | what it shows |
|---|---|---|
| `patterns` | a ring of 3 places, 3 items; or a state machine of 2 states, 2 observers, 3 changes | every rotation of the ring at every fill level, and refinement of `BoundedFifo`; every nesting of three changes in callbacks and observers |
| `station` | `main.cpp` up to `OtaManager::start()`, unbounded; or `TaskProfiler` used by 2 tasks, one of them watched, a counter of width 3, two ticks to a unit, words of one bit, 2 ticks | boot from every NVS partition, updates by the button, a restart or a loss of power at every step; two tasks that measure with one start time |
| `state_logging` | 2 tasks, 2 objects with one writer each, log of 2 lines, objects set until they changed 3 times | the log fills, overflows and is printed while the other task logs; changes are logged once and in order; no self-deadlock |
| `state_logging_shared` | 2 tasks on one object | **violated**: two writers lose a log line |
| `wifi` | the code's constants (5 retries, 10 s to 300 s), 3 pending events | all safety properties and `RetriesEnd` |
| `wifi_lost_wakeup` | 2 retries, 2 pending events | **violated**: a notification before the sleep is lost |
| `mqtt` | 1 payload, outbox of 3 | connections that break at every line of the handler; a client that refuses a message |
| `mqtt_publish_result` | the same | **violated**: `publish()` while not connected returns a message id |
| `led` | main sets two LEDs to any mode; log entries that set none | LEDs follow their modes, calls return, blinking LEDs are lit |
| `led_process_log` | the same, with the entries that set an LED | **violated**: `processLog()` locks itself out |
| `sd_file` | 4 calls of `appendLine()` or `writeFile()`, any number of the others, all faults | order, what a call may touch when it succeeds and when it fails, mounting, and refinement of `LineQueue` |
| `sd_file_full` | 2 appends, card may be full | **violated**: a line not stored is reported as stored |

Why the bounds suffice: the ring's behaviour depends on the fill level and the
rotation only, and `CircularBufferProofs` covers every size. A log of two lines
overflows at the third change; two tasks are all that can contend for one
mutex. The Wi-Fi run uses the code's own constants; three pending events let an
address, a loss and another address queue behind a slow handler, and the
theorems hold for every number. The outbox only decides whether the client
refuses. Four written lines allow a rewrite of several lines to be interrupted
at its start, middle and end. `Station` needs no bound: boot and update have
finitely many states. Two tasks are what one `start_time` takes to be spoilt,
words of one bit make the times 1 and 2 differ in both words, a
width of three makes the counter wrap within two ticks of a task that has run
for one, and two ticks lie before, between and after two calls; the theorems
hold for every number. Three changes can be nested in one another, follow one
another, or both; of two observers the one comes before a nested change and the
other after it. `CHECK_DEADLOCK FALSE` is set where `MaxChanges`
ends the calls (`state_logging`) and where a self-deadlock is the finding
(`led_process_log`) or in `state_logging_shared`; the others never stop, because
`SDCardFile`'s removals, `TaskProfiler`'s calls and `StateMachine`'s
registrations of a transition are unbounded.

### Properties worth reading first

* `GivesUpAfterMaxRetry`: the device restarts after exactly five attempts since
  the last connection, less `charged`: those of before the connection that the
  reset of the count left in it. If the reset fell between `esp_wifi_connect()`
  and the read in `retry_count++`, that is the one attempt just made; if it fell
  between the read and the write, it was undone, and that is all there were.
  Then a later outage restarts the device early. The history variable counts
  the exception instead of hiding it.
* `SleepsOnlyIfMissed` and `DisconnectNoticed`: the second, what a user
  expects, is violated; the first says that the lost wakeup is the only way.
* `ConnectedIsUp`, `StateFollowsClient`: no order of events leaves
  `isConnected()` true for a connection that is gone, once all is handled.
* `PrintsFullLog`: the unlocked `is_max()` may miss a full log but never
  invents one.
* `InOrder`, `RemovesFirstOnly`, `AppendsOwnOnly`, `WriteReplaces`: what survives
  failures and power loss. `removeFirstLine()` returns `false` both when it has
  not touched the file and when the rewrite failed half-way; then, and after a
  close that failed unnoticed, lines at the end of the file are gone too, but
  none in the middle. `appendLine()` makes one line of its own and the last if
  that has no end, as after `writeFile()`.
* `ImplementsQueue`: seen from the caller every call is one step, whatever fails
  in it. `LineQueue` names how little the replies tell: `true` may be said of an
  append or a removal that lost lines (`AppendedIsStored` is violated), `false`
  of a removal that lost all but the oldest; only an append that returned
  `false` has surely not stored its line whole. A loss of power inside
  `removeFirstLine()` keeps the oldest of the lines that were to stay, one inside
  `appendLine()` all lines that were there.
* `MountedAsAsked`: `unmount()` works, although the `fs` it tests is never set,
  because `WL_INVALID_HANDLE` is -1.
* `BootsWhole`, `StateTellsFirmware`, `UpdateEndsInRestart`: what an update promises,
  whichever step of it is cut short.
* `ExactUnlessDisturbed`: the stored time is the task's own unless another task
  has stored a word of `start_time` between this task's store and its load of that
  word. The exception cannot be narrowed to "too short": a task that is held up
  between reading the clock and storing it sets the start time back, and a word
  of one start can be combined with a word of another. `CpuDiffUnlessWrapped`: the
  printed difference is that of the run times to one unit, unless the counter
  has wrapped around; then it is not, because 32 bits are subtracted after the
  division by 1000.
* `EachChangeToldOnce`, `ToldInCallOrder`: nested changes are told to every
  observer, once, but inner before outer: what an observer heard last need not
  be the current state.
* `BlinkLights`: a blinking LED is lit. That it goes dark again does not hold:
  the toggle reads an output-only pin, which reads 0, so it always writes 1.

## 4. Fairness

Safety runs need none. Liveness assumes that FreeRTOS keeps scheduling a task
that is ready (weak fairness of each task's steps), and:

* `WifiManager`: the driver ends every attempt to connect. `Timeout` is
  strongly fair: `wait_for` has one deadline however often it is woken before,
  so the wait cannot be prolonged by wakeups for ever. Links need not fail,
  nobody need call `updateCredentials()`, no wakeup need be spurious.
* `LedManager`: taking the mutex is strongly fair. The blinking task sleeps
  100 ms between two rounds and no caller loops on `setLEDMode()`, so the
  mutex is free over and over and a waiter gets it.
* `StatefulObject`: weak fairness of a task inside a call. Nothing is assumed
  about who gets the mutex; `MutexReleased` is about its holder.
* `Station`: weak fairness of each thread's next step of an update and of the
  restart: a thread that is ready is scheduled, its sleeps end, and
  `esp_https_ota()` ends with a timeout if the server falls silent. Nobody need
  press the button, and power need not fail.
* `MqttManager`, `CircularBuffer`, `SDCardFile`, `TaskProfiler`, `StateMachine`:
  none.

## 5. Proofs

All theorems hold for every value of the constants that meets the named
assumptions (`BufferAssumption`, `LoggerAssumption`, `ObjectAssumption`,
`WifiAssumption`, `MqttAssumption`, `LedAssumption`, `FileAssumption`,
`ProfilerAssumption`, `MachineAssumption`): ranges of numbers, finiteness of the sets counted, and
values that stand for nothing not being items.

* `CircularBufferProofs`: `TypeCorrect`, `SizeAgrees` and `RingIsSound`
  (`TypeOK`, `SizeMatchesIndices`, `WindowIsLive`) from the invariant that is their conjunction: the three are
  inductive only together, because a pop reads the slot at `tail_` and needs to
  know it is live, and the full and empty tests need `size_` to agree with the
  indices. `RingImplementsFifo` is the refinement: `FillLevel` turns the tests
  on indices into tests on `size_`; `RingInjective` says that two places of the
  window are different slots, so that writing one leaves the others alone;
  `PushRefines` and `PopRefines` map the window before to the window after.
* `WifiManagerProofs`, four invariants:
  * `CountInv` for `TypeCorrect`, `RetryBounded`, `NoEarlyRestart`. The
    properties are not inductive: between the comparison and the store the
    count lags behind the attempts, and a reset may fall in between.
    `CountInRange` bounds count and register at each point of the increment;
    `AttemptsCounted` says where each attempt is recorded: count or register is
    the sum of `attempts` and `charged`; `GaveUpAtMax` freezes the count at the
    end.
  * `StartInv` for `StartBeforeAttempt`: while the driver is off there is no
    event, no state `DISCONNECTED` and `reconnectTask()` is in its first wait.
  * `WakeInv` for `OnlyLostWakeups`: the property, extended to the task that is
    about to sleep.
  * `LinkInv` for `ConnectedIsTrue`: whatever still says that the station is
    connected, a queued event, the one being handled or the state, is right
    unless a loss of the link is queued behind it. It needs `StartInv` for the
    first event.
* `MqttManagerProofs`: `TypeCorrect` and `ConnectedIsTrue` from `MqttInv`; its
  `EventInv` says that an event on its way to `setState()` is still true of the
  client, which is what the client's lock gives.

* `StatefulObjectProofs`: `TypeCorrect`, `LogKeepsRecent` and `PrintsOnlyFull`
  for any number of tasks, objects and writers. The facts about the ring are
  those of `CircularBufferProofs`, taken by `INSTANCE`. `LogInv` adds `ArgInv`
  (the one static buffer holds the line of the task that is about to push),
  `LockInv` (who is between lock and unlock has the mutex) and `FillInv` (until
  the log is full for the first time `tail_` is 0 and `head_` is `size_`): from
  the last it follows that no mixture of old and new indices looks full to the
  unlocked `is_max()` while the log is not. `RecentAppend` says that a push
  turns the end of a history into the end of the longer one.
  `OneWriterLogsEveryChange` has the hypothesis `OneWriter`: no two tasks set the
  same object, as in the program today, which never calls `updateCredentials()`.
  Without it the property fails, as `state_logging_shared` shows. `ChangesInv`
  needs four facts: a task that has tested a state finds it the same when it
  writes (`CallInv`); the line it owes is about the last change (`DebtInv`); at
  most one line of an object is owed (`CountInv`); and the lines that are there
  match the changes by number (`PlaceInv`). Lines are counted in sets
  (`LinesAbout`, `Ordinal`), so no recursion is involved; `PlacePush` says what a
  new line does to the numbers.
* `StateMachineProofs`: `MachineTypeCorrect`, `MachineTellsEachChangeOnce` and
  `MachineTellsInCallOrder`, for every set of states, any number of observers and
  every nesting. `EachChangeToldOnce` speaks of the time between announcements; in
  the midst of one `ToldInv` says that an observer has been told of a change
  exactly if no announcement under way is still to bring it (`Pending`). What a
  change remembers of the announcements it was made in must agree with the stack
  later on: `StackInv` says so of the changes being announced, `WithinInv` of
  every change made since; the two make `ToldInCallOrder` (`OrderInv`) inductive.
  `EachChangeToldOnce` counts, so its proof ends with a bijection between the
  places of what was told and the changes.
* `LedManagerProofs`: `TypeCorrect` and `PinsFollow` from `LedInv`. Between the
  store of a mode and of its pin the two disagree: `PinInv` says that this
  happens only to the LED the main task is setting, and that the LED being
  toggled still blinks; `PlaceInv` says where the tasks can be, `MutexInv` that
  the ones inside hold the mutex. It also holds with the
  entries on which `processLog()` locks itself out.
* `SDCardFileProofs`: seven theorems, which are all properties of `sd_file`; the
  first six from `SDInv`. What a call leaves is only known at its end, so each call
  has an invariant for its middle: `WriteInv` says what an append or a write has
  done so far, `RemoveInv` that the lines rewritten and the ones still in memory
  are together those of the old file without the first (`Divided`). `FilesInv`
  (the file, the file before the call and the lines in memory are in order, and
  only the last line of a file can be without its end) is what survives failed
  writes and a loss of power; `BeginningFile` and `RewriteStops` say what a stream
  that is cut short leaves. `FileImplementsQueue` is the refinement: the queue is
  the file between calls and the file before the call inside one, so that a call
  takes effect when it returns.
* `ProgramProofs`, on `Station`: four theorems from `StationInv`. `CheckerInv` says that the
  asking thread never gets into an update, `StateInv` ties the state to the place of
  the button's thread, `FlashInv` says what the partitions hold at each step.
* `ProgramProofs`, on `TaskProfiler`: `ProfilerTypeCorrect` and `MeasuresAreExact` from
  `ProfilerInv`, whose `StampInv` speaks of one word at a time: one that a task
  has stored and is still to load (`CountsOn`), and one that it has loaded, are its
  own unless it is disturbed. `PartsMakeTime` puts the words together again.
  `CpuDiffIsRight` from `CpuInv` (a stored value is that of its reading, a
  snapshot is no newer than the statistics, and these no newer than the task) and
  `UnwrappedDifference`, the arithmetic of two divisions and a remainder.

Every safety property that a passing run checks, and both refinements, are
stated by a theorem. Only model-checked: the liveness properties
(`MutexReleased`, `RetriesEnd`, `SetReturns`, `BlinkLights`,
`UpdateEndsInRestart`), since they rest on fairness and `ENABLED`, which are out
of the prover's reach; and the violations, which TLC exhibits. No module declares
a `RECURSIVE` operator, and no theorem needs an induction over data.

## 6. Not modelled, and why

* `registerCallback`: the loop that would call the callbacks is commented out.
* `checkInternetConnectivityTask`, `checkWifiSignalStrength` and `reconnect`:
  never called. The LED intervals: stored, never read.
* `CommandRouter`: a map filled once and read; its handlers only write log lines,
  and nothing calls `the_main()`.
* `Observer`: every `notifyObservers()` call in the library is commented out. One
  disagreement was met in reading it: `addObserver()` keeps a `shared_ptr`, so an
  observer that its owner has reset is still notified, while
  `test/unit_tests/test_patterns/Observer.test.cpp:121-126` expects that it is
  not.
* `TaskProfiler`: the stack and heap values, the sum over all tasks and the calls
  that only print; a `std::map` that breaks under concurrent insertions. That the
  monitored task has been profiled before its snapshot is taken is not promised:
  if it has not, nothing is stored.
* What stands behind `OtaManager::start()` in `main()`: the call never returns.
* The insides of the Wi-Fi and MQTT managers in `Station`: one step each there,
  since they share nothing with the boot but the order.
* Two tasks on one file: the code has one. A second would lose its line between
  `removeFirstLine()`'s read and its rewrite.
* Log wording, timestamps, JSON and tables; the empty sensor classes.

Things one might expect to hold and that do not, so no property claims them:
no line is lost by a loss of power or a full card; a reply of `removeFirstLine()`
tells what became of the file; a blinking LED goes dark again; the CPU
difference is right across a wraparound; an observer's last news is the current
state.

## 7. Plan

1. Done: `CircularBuffer` with its refinement, `EventLogger` and
   `StatefulObject`, `WifiManager`, `MqttManager`, `LedManager`, `SDCardFile` with
   its refinement, `Station` with `OtaManager`, `TaskProfiler` and `StateMachine`,
   each with its proofs.
2. Next abstract specifications: what `WifiManager` promises about a link (up,
   waiting, being retried so many times, given up), and what an update promises
   about the firmware, each with the refinement proved.
3. Next theorems: action properties from the invariants that are there, for
   instance that no step but a reset changes which firmware runs.
4. Next modules, if the code comes into use: `Observer`, `CommandRouter`, and
   the main loop, once `start()` returns.
