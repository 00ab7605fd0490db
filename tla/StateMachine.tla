---------------------------- MODULE StateMachine ----------------------------
(***************************************************************************)
(* lib/Patterns/StateMachine.hpp: transitions with a callback each, and    *)
(* observers that are told of every change.  A change is announced inside  *)
(* changeToState(): the callback first, then the observers in the order of *)
(* their registration.  Whoever is called may call changeToState() again,  *)
(* and the announcements nest.                                             *)
(*                                                                         *)
(* currentState is not initialised.  Nothing in the repository uses the    *)
(* template.  Registering an observer during an announcement would move    *)
(* the vector under the loop that reads it: not modelled.                  *)
(***************************************************************************)
EXTENDS Integers, Sequences, SequencesExt

CONSTANTS
    State,
    MaxObservers,  \* bound on registerObserver()
    MaxChanges     \* bound on the changes of the state

ASSUME MachineAssumption == MaxObservers \in Nat /\ MaxChanges \in Nat

VARIABLES
    currentState,
    stateTransitions,  \* pairs of states; each has its callback
    observers,         \* observers[i] tells how many changes came before it
    announced,         \* the changes being announced, the innermost last
    changes,           \* history: the changes, each with those it was made within
    told               \* history: told[i], the changes observer i was told of

machineVars == <<currentState, stateTransitions, observers, announced, changes, told>>

\* The announcement of changes[change]: in the callback (0) or in observer at.
Announcement == [change : 1 .. MaxChanges, at : 0 .. MaxObservers]

MachineInit ==
    /\ currentState \in State
    /\ stateTransitions = {}
    /\ observers = <<>>
    /\ announced = <<>>
    /\ changes = <<>>
    /\ told = <<>>

-----------------------------------------------------------------------------
\* Faulty variants of the definitions below.
IfStillCurrent(c) == IF currentState = changes[c].to THEN observers ELSE <<>>
Queued(a) == <<a>> \o announced
OnePastTheEnd(c) == Append(observers, 0)

-----------------------------------------------------------------------------
RegisterStateTransition(from, to) ==
    /\ stateTransitions' = stateTransitions \cup {<<from, to>>}
    /\ UNCHANGED <<currentState, observers, announced, changes, told>>

RegisterObserver ==
    /\ announced = <<>>
    /\ Len(observers) < MaxObservers
    /\ observers' = Append(observers, Len(changes))
    /\ told' = Append(told, <<>>)
    /\ UNCHANGED <<currentState, stateTransitions, announced, changes>>

IsValidTransition(from, to) == <<from, to>> \in stateTransitions

\* What is announced next: the call on top of the stack.
Nested(a) == Append(announced, a)

\* changeToState(new), up to the call of the callback; it returns false, and
\* changes nothing, if the transition is not valid.
ChangeToState(new) ==
    /\ Len(changes) < MaxChanges
    /\ IsValidTransition(currentState, new)
    /\ currentState' = new
    /\ changes' = Append(changes,
                         [from |-> currentState, to |-> new, within |-> Range(announced)])
    /\ announced' = Nested([change |-> Len(changes) + 1, at |-> 0])
    /\ UNCHANGED <<stateTransitions, observers, told>>

\* The observers that are told of change c.
Audience(c) == observers

\* The callback or an observer returns, the next observer is called.
NotifyNext ==
    /\ announced # <<>>
    /\ LET a == Last(announced)
           i == a.at + 1
       IN  IF i <= Len(Audience(a.change))
           THEN /\ announced' = [announced EXCEPT ![Len(announced)].at = i]
                /\ told' = [told EXCEPT ![i] = Append(@, a.change)]
           ELSE /\ announced' = Front(announced)
                /\ UNCHANGED told
    /\ UNCHANGED <<currentState, stateTransitions, observers, changes>>

MachineNext ==
    \/ \E from, to \in State : RegisterStateTransition(from, to)
    \/ RegisterObserver
    \/ \E new \in State : ChangeToState(new)
    \/ NotifyNext

MachineSpec == MachineInit /\ [][MachineNext]_machineVars

-----------------------------------------------------------------------------
(* Type invariant. *)
MachineTypeOK ==
    /\ currentState \in State
    /\ stateTransitions \subseteq State \X State
    /\ observers \in Seq(0 .. MaxChanges) /\ Len(observers) <= MaxObservers
    /\ announced \in Seq(Announcement)
    /\ changes \in Seq([from : State, to : State, within : SUBSET Announcement])
    /\ Len(changes) <= MaxChanges
    /\ told \in [1 .. Len(observers) -> Seq(1 .. Len(changes))]

(* Once changeToState() has returned to a caller outside, every observer has
   been told of every change since it was registered, and of each one once:
   also of those that a nested call has undone by then. *)
EachChangeToldOnce ==
    announced = <<>> =>
        \A i \in DOMAIN observers :
            /\ Len(told[i]) = Len(changes) - observers[i]
            /\ Range(told[i]) = observers[i] + 1 .. Len(changes)

(* An observer is told of the changes in their order, with one exception: a
   change made by the callback, or by an observer before it, is announced to
   it before the change that caused it.  What it was told last is then not the
   current state. *)
ToldInCallOrder ==
    \A i \in DOMAIN told :
        \A m, n \in DOMAIN told[i] :
            LET early == told[i][m]
                late == told[i][n]
            IN  early < late =>
                    (n < m <=> \E a \in changes[late].within : a.change = early /\ a.at < i)

=============================================================================
