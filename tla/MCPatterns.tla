----------------------------- MODULE MCPatterns -----------------------------
(***************************************************************************)
(* Two templates of lib/Patterns that do not know of each other: a run is  *)
(* about the one or about the other.  CircularBuffer has three places: the *)
(* indices wrap after four pushes, every fill level occurs at every        *)
(* rotation of the ring.  StateMachine has two states, two observers and   *)
(* three changes, which may be nested in one another.                      *)
(***************************************************************************)
EXTENDS CircularBuffer, StateMachine

VARIABLE template

MCInit ==
    /\ template \in {"CircularBuffer", "StateMachine"}
    /\ Init
    /\ MachineInit

MCNext ==
    \/ template = "CircularBuffer" /\ Next /\ UNCHANGED <<template, machineVars>>
    \/ template = "StateMachine" /\ MachineNext /\ UNCHANGED <<template, vars>>

MCSpec == MCInit /\ [][MCNext]_<<template, vars, machineVars>>

=============================================================================
