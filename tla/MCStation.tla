----------------------------- MODULE MCStation -----------------------------
\* main.cpp, and a program that uses the class of main.cpp.profiler for two tasks
\* of which one is watched.
EXTENDS Station, TaskProfiler

CONSTANTS a, b

VARIABLE program

mcWorker == {a, b}
mcWatched == {a}

MCInit ==
    /\ program \in {"main.cpp", "profiler"}
    /\ StationInit
    /\ ProfilerInit
    /\ program = "profiler" => nvs = "fine"

MCNext ==
    \/ program = "main.cpp" /\ StationNext /\ UNCHANGED <<program, profilerVars>>
    \/ program = "profiler" /\ ProfilerNext /\ UNCHANGED <<program, stationVars>>

MCSpec == MCInit /\ [][MCNext]_<<program, stationVars, profilerVars>> /\ StationFairness
=============================================================================
