--------------------------- MODULE StatefulObject ---------------------------
(***************************************************************************)
(* lib/Patterns/StatefulObject.hpp: objects whose setState() writes the    *)
(* state and logs the change through the EventLogger.                      *)
(*                                                                         *)
(* Nothing guards the state: setState() tests it, writes it and reads it   *)
(* back for the log line (getStateAsString()) in three separate accesses,  *)
(* between which another thread may run its own setState().                *)
(***************************************************************************)
EXTENDS EventLogger, FiniteSets

CONSTANTS
    Object,      \* the StatefulObjectLogged instances
    State,       \* the values of T
    InitialState,\* the constructor's argument
    Sets,        \* pairs <<t, o>>: thread t may call o.setState()
    MaxChanges   \* bound: calls of setState() start while an object changed less often

ASSUME ObjectAssumption ==
    /\ Line = [id : Object, state : State]
    /\ InitialState \in State
    /\ Sets \subseteq Thread \X Object

VARIABLES
    state,       \* state of each object
    call,        \* the setState() call each thread is in: object, newState, step
    changes      \* history: the values written to each object that changed it

objectVars == <<state, call, changes>>
vars == <<loggerVars, objectVars>>

NoCall == [step |-> "none"]
Calling(o, new, step) == [object |-> o, newState |-> new, step |-> step]

Init ==
    /\ LoggerInit
    /\ state = [o \in Object |-> InitialState]
    /\ call = [t \in Thread |-> NoCall]
    /\ changes = [o \in Object |-> <<>>]

-----------------------------------------------------------------------------
\* Faulty: setState() does not ask whether anything changes.
AlwaysChanges(o, new) == TRUE

-----------------------------------------------------------------------------
\* this->state != newState
Differs(o, new) == state[o] # new

\* The line of logStateChange(this->id, this->getStateAsString()): the state is
\* read again.
ChangeLine(t) == [id |-> call[t].object, state |-> state[call[t].object]]

\* setState(newState) of a state that is already set returns without a step.
SetState(t, o, new) ==
    /\ <<t, o>> \in Sets
    /\ call[t] = NoCall
    /\ Len(changes[o]) < MaxChanges
    /\ Differs(o, new)
    /\ call' = [call EXCEPT ![t] = Calling(o, new, "write")]
    /\ UNCHANGED <<loggerVars, state, changes>>

WriteState(t) ==
    /\ call[t].step = "write"
    /\ LET o == call[t].object
           new == call[t].newState
       IN  /\ state' = [state EXCEPT ![o] = new]
           /\ changes' = IF state[o] = new THEN changes
                         ELSE [changes EXCEPT ![o] = Append(@, new)]
    /\ call' = [call EXCEPT ![t].step = "log"]
    /\ UNCHANGED loggerVars

LogChange(t) ==
    /\ call[t].step = "log"
    /\ LogStateChange(t, ChangeLine(t))
    /\ call' = [call EXCEPT ![t].step = "logging"]
    /\ UNCHANGED <<state, changes>>

Return(t) ==
    /\ call[t].step = "logging"
    /\ pc[t] = "idle"
    /\ call' = [call EXCEPT ![t] = NoCall]
    /\ UNCHANGED <<loggerVars, state, changes>>

Step(t) ==
    \/ WriteState(t)
    \/ LogChange(t)
    \/ LoggerStep(t) /\ UNCHANGED objectVars
    \/ Return(t)

Next ==
    \E t \in Thread :
        \/ \E o \in Object, new \in State : SetState(t, o, new)
        \/ Step(t)

\* A task inside setState() is scheduled again and again.
Fairness == \A t \in Thread : WF_vars(Step(t))

Spec == Init /\ [][Next]_vars /\ Fairness

-----------------------------------------------------------------------------
(* Type invariant, with the logger's. *)
TypeOK ==
    /\ LoggerTypeOK
    /\ state \in [Object -> State]
    /\ call \in [Thread -> {NoCall} \cup
                     [object : Object, newState : State,
                      step : {"write", "log", "logging"}]]
    /\ changes \in [Object -> Seq(State)]

\* The lines logged about an object, by their places in the history, and which
\* of them line i is: the first, the second, ...
LinesAbout(o) == {i \in DOMAIN hist : hist[i].id = o}
Ordinal(o, i) == Cardinality({j \in LinesAbout(o) : j <= i})

(* "Update the state and log the change" (StatefulObject.hpp): when no call on
   an object is under way, the lines logged about it are its changes: each one
   once, in the order they happened, and nothing else. *)
EveryChangeLogged ==
    \A o \in Object :
        (\A t \in Thread : call[t] # NoCall => call[t].object # o) =>
            /\ Cardinality(LinesAbout(o)) = Len(changes[o])
            /\ \A i \in LinesAbout(o) : hist[i].state = changes[o][Ordinal(o, i)]

(* Whoever takes the logger's mutex gives it back: no path of logStateChange()
   asks for it twice. *)
MutexReleased == \A t \in Thread : mtx = t ~> mtx # t

=============================================================================
