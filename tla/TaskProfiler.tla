---------------------------- MODULE TaskProfiler ----------------------------
(***************************************************************************)
(* lib/Profiler/TaskProfiler.{hpp,cpp}: tasks bracket their work with      *)
(* start_profiling() and stop_profiling(), while a monitoring task takes   *)
(* snapshots and prints what has changed since.  The model is of what the  *)
(* class lets its users do: several tasks, each measured many times.       *)
(*                                                                         *)
(* start_time is one member for all tasks, and nothing is locked.  It has  *)
(* 64 bits where a register has 32: now() returns, and then the two words  *)
(* are stored, one by one; later they are loaded so.  A call is split      *)
(* wherever another task's call can change what it uses.  That std::map    *)
(* itself may break under a concurrent insertion is not modelled.          *)
(*                                                                         *)
(* Left out: the stack and heap values, which are copied and subtracted as *)
(* the CPU value is; app_snapshot, the sum of all tasks' values; and the   *)
(* calls that only print.                                                  *)
(***************************************************************************)
EXTENDS Integers, FiniteSets

CONSTANTS
    Worker,      \* the tasks that are profiled
    Watched,     \* those the monitor takes snapshots of
    Width,       \* uint32_t values are modulo Width
    Unit,        \* ticks of ulRunTimeCounter to one of cpu_usage: 1000
    Word,        \* a word of start_time holds 0 .. Word - 1: 2^32 in the code
    RunBefore,   \* how long each task has run before it is first profiled
    MaxClock     \* bound on the clock

ASSUME ProfilerAssumption ==
    /\ IsFiniteSet(Worker)
    /\ Watched \subseteq Worker
    /\ Width \in Nat \ {0}
    /\ Unit \in Nat \ {0}
    /\ Word \in Nat \ {0}
    /\ RunBefore \in Nat
    /\ MaxClock \in Nat

VARIABLES
    clock,             \* high_resolution_clock
    ran,               \* how long each task has run, not modulo Width
    start_time,        \* its two words
    end_time,          \* stop_profiling()'s local
    stats,             \* task_stats_map: the stats of a task, or NoStats
    snapshot,          \* task_snapshot_map
    call,              \* where each worker is in its calls
    todo,              \* the words it has still to store, or to load
    stamp,             \* what now() returned to start_profiling()
    loaded,            \* the words of start_time that stop_profiling() has loaded
    disturbed          \* history: another worker has stored a word of start_time
                       \* after this one stored it and before it loads it

externalVars == <<clock, ran>>
workerVars == <<start_time, end_time, stats, call, todo, stamp, loaded, disturbed>>
profilerVars == <<externalVars, snapshot, workerVars>>

\* at is a history variable: ran when cpu_usage was read, -1 before it is.
Stats == [execution_time : Int, cpu_usage : 0 .. Width - 1,
          at : -1 .. RunBefore + MaxClock]
ZeroStats == [execution_time |-> 0, cpu_usage |-> 0, at |-> -1]
NoStats == [execution_time |-> 0, cpu_usage |-> 0, at |-> -2]

Known == {t \in Worker : stats[t] # NoStats}

\* A time as the two words it is stored in, and back.
Words == {"low", "high"}
Part(w, time) == IF w = "low" THEN time % Word ELSE time \div Word
Time(words) == Word * words["high"] + words["low"]
ZeroTime == [w \in Words |-> 0]

ProfilerInit ==
    /\ clock = 0
    /\ ran = [t \in Worker |-> RunBefore]
    /\ start_time = ZeroTime
    /\ end_time = [t \in Worker |-> 0]
    /\ stats = [t \in Worker |-> NoStats]
    /\ snapshot = [t \in Watched |-> NoStats]
    /\ call = [t \in Worker |-> "outside"]
    /\ todo = [t \in Worker |-> {}]
    /\ stamp = [t \in Worker |-> 0]
    /\ loaded = [t \in Worker |-> ZeroTime]
    /\ disturbed = [t \in Worker |-> FALSE]

CallAt(t, label) == call' = [call EXCEPT ![t] = label]

\* Time passes; at most one task runs.  How long those run that nobody watches
\* makes no difference.
Tick ==
    /\ clock < MaxClock
    /\ clock' = clock + 1
    /\ \/ UNCHANGED ran
       \/ \E t \in Watched : ran' = [ran EXCEPT ![t] = @ + 1]
    /\ UNCHANGED <<snapshot, workerVars>>

-----------------------------------------------------------------------------
\* Faulty variants of the definitions below.
CounterUndivided(r) == r
StampedOnce(t, w) == IF stats[t].at = -1 THEN Part(w, stamp[t]) ELSE start_time[w]
OldMinusNew(new, old) == (old - new) % Width

-----------------------------------------------------------------------------
\* start_profiling(task_handle, task_name)

\* The task gets its entry in the map, and now() returns.
StartProfiling(t) ==
    /\ call[t] = "outside"
    /\ stats' = IF stats[t] = NoStats THEN [stats EXCEPT ![t] = ZeroStats] ELSE stats
    /\ stamp' = [stamp EXCEPT ![t] = clock]
    /\ todo' = [todo EXCEPT ![t] = Words]
    /\ CallAt(t, "start")
    /\ UNCHANGED <<externalVars, snapshot, start_time, end_time, loaded, disturbed>>

\* start_time = now(), word by word in whichever order the compiler chose.
StampWord(t, w) == Part(w, stamp[t])

\* u has stored the word and has not loaded it yet.
CountsOn(u, w) ==
    \/ call[u] = "start" /\ w \notin todo[u]
    \/ call[u] = "stop" /\ w \in todo[u]

StoreWord(t, w) ==
    /\ call[t] = "start"
    /\ w \in todo[t]
    /\ start_time' = [start_time EXCEPT ![w] = StampWord(t, w)]
    /\ todo' = [todo EXCEPT ![t] = @ \ {w}]
    /\ disturbed' = [u \in Worker |-> disturbed[u] \/ (u # t /\ CountsOn(u, w))]
    /\ UNCHANGED <<externalVars, snapshot, end_time, stats, call, stamp, loaded>>

-----------------------------------------------------------------------------
\* stop_profiling(task_handle), once start_profiling() has returned

ReadEndTime(t) ==
    /\ call[t] = "start"
    /\ todo[t] = {}
    /\ end_time' = [end_time EXCEPT ![t] = clock]
    /\ todo' = [todo EXCEPT ![t] = Words]
    /\ CallAt(t, "stop")
    /\ UNCHANGED <<externalVars, snapshot, start_time, stats, stamp, loaded, disturbed>>

\* end_time - start_time
LoadWord(t, w) ==
    /\ call[t] = "stop"
    /\ w \in todo[t]
    /\ loaded' = [loaded EXCEPT ![t][w] = start_time[w]]
    /\ todo' = [todo EXCEPT ![t] = @ \ {w}]
    /\ UNCHANGED <<externalVars, snapshot, start_time, end_time, stats, call, stamp,
                   disturbed>>

StoreTime(t) ==
    /\ call[t] = "stop"
    /\ todo[t] = {}
    /\ stats' = [stats EXCEPT ![t].execution_time = end_time[t] - Time(loaded[t])]
    /\ loaded' = [loaded EXCEPT ![t] = ZeroTime]
    /\ CallAt(t, "store_cpu")
    /\ UNCHANGED <<externalVars, snapshot, start_time, end_time, todo, stamp, disturbed>>

\* calculate_cpu_usage(): ulRunTimeCounter / 1000
CpuUsage(r) == (r % Width) \div Unit

StoreCpu(t) ==
    /\ call[t] = "store_cpu"
    /\ stats' = [stats EXCEPT ![t].cpu_usage = CpuUsage(ran[t]), ![t].at = ran[t]]
    /\ end_time' = [end_time EXCEPT ![t] = 0]
    /\ stamp' = [stamp EXCEPT ![t] = 0]
    /\ disturbed' = [disturbed EXCEPT ![t] = FALSE]
    /\ CallAt(t, "outside")
    /\ UNCHANGED <<externalVars, snapshot, start_time, todo, loaded>>

-----------------------------------------------------------------------------
SaveSingleTaskSnapshot(t) ==
    /\ t \in Known
    /\ snapshot' = [snapshot EXCEPT ![t] = stats[t]]
    /\ UNCHANGED <<externalVars, workerVars>>

\* print_single_task_diff(), which subtracts one uint32_t from another.
Difference(new, old) == (new - old) % Width

ProfilerNext ==
    \/ Tick
    \/ \E t \in Watched : SaveSingleTaskSnapshot(t)
    \/ \E t \in Worker :
           \/ StartProfiling(t)
           \/ ReadEndTime(t)
           \/ StoreTime(t)
           \/ StoreCpu(t)
           \/ \E w \in Words : StoreWord(t, w) \/ LoadWord(t, w)

ProfilerSpec == ProfilerInit /\ [][ProfilerNext]_profilerVars

-----------------------------------------------------------------------------
(* Type invariant: what is stored of the counter fits its uint32_t. *)
ProfilerTypeOK ==
    /\ clock \in 0 .. MaxClock
    /\ ran \in [Worker -> RunBefore .. RunBefore + clock]
    /\ start_time \in [Words -> Nat]
    /\ end_time \in [Worker -> 0 .. clock]
    /\ stats \in [Worker -> Stats \cup {NoStats}]
    /\ snapshot \in [Watched -> Stats \cup {NoStats}]
    /\ call \in [Worker -> {"outside", "start", "stop", "store_cpu"}]
    /\ todo \in [Worker -> SUBSET Words]
    /\ stamp \in [Worker -> 0 .. clock]
    /\ loaded \in [Worker -> [Words -> Nat]]
    /\ disturbed \in [Worker -> BOOLEAN]

(* The time that stop_profiling() stores for a task is what has passed since
   now() returned to its own start_profiling(), to the tick, unless another task
   has stored a word of the one start_time between this task's store of it and
   its load.  The exception is as narrow as that: a call of another task that
   is over before, or begins after, does no harm.  What an excepted task is
   told may be too short, too long, or of no task's start at all: the other's
   clock may have been read earlier or later, and one word of it may be used
   with one of this task's own. *)
ExactUnlessDisturbed ==
    \A t \in Worker :
        call[t] = "store_cpu" =>
            disturbed[t] \/ stats[t].execution_time = end_time[t] - stamp[t]

(* "CPU Usage Diff": what print_single_task_diff() subtracts is, to one unit,
   what the task has run between the two readings of its counter, unless
   ulRunTimeCounter has wrapped around in between.  A snapshot taken before the
   first stop_profiling() holds no reading to speak of. *)
CpuDiffUnlessWrapped ==
    \A t \in Watched :
        LET now == stats[t]
            then == snapshot[t]
        IN  then.at >= 0 /\ now.at \div Width = then.at \div Width =>
                LET units == Difference(now.cpu_usage, then.cpu_usage)
                IN  Unit * units \in now.at - then.at - Unit + 1 .. now.at - then.at + Unit - 1

=============================================================================
