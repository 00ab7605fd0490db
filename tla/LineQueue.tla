------------------------------ MODULE LineQueue ------------------------------
(***************************************************************************)
(* What SDCardFilesystem promises to the one task that keeps a queue of    *)
(* lines in a file: each call is one step, taken when it returns.  The     *)
(* steps may fail, and a failed write or a loss of power may leave a part  *)
(* of one behind, but only the parts named here.                           *)
(*                                                                         *)
(* This is the abstract specification that SDCardFile implements under the *)
(* refinement mapping SDCardFile!Promise.                                  *)
(***************************************************************************)
EXTENDS Integers, Sequences

CONSTANT
    Junk        \* a line that is not as it was passed

VARIABLES
    queue,      \* the lines, oldest first, and whether the last one is ended
    passed,     \* how many lines have been passed to the calls: they are numbered
    result      \* what the last call was and what it returned

queueVars == <<queue, passed, result>>

Reply(call, ok) == result' = [call |-> call, ok |-> ok]

All(s) == [lines |-> s, ended |-> TRUE]

Init ==
    /\ queue = All(<<>>)
    /\ passed = 0
    /\ result = [call |-> "none", ok |-> TRUE]

-----------------------------------------------------------------------------
\* A new line makes one line with one that is not ended.
With(q, x, newline) ==
    [lines |-> IF q.ended THEN Append(q.lines, x)
                          ELSE [q.lines EXCEPT ![Len(q.lines)] = Junk],
     ended |-> newline]

WithPart(q, x, newline) ==
    {q, With(q, Junk, FALSE), With(q, x, FALSE)} \ {With(q, x, newline)}

Rest(q) == IF q.lines = <<>> THEN <<>> ELSE Tail(q.lines)

\* q holds the oldest of the lines s, the last one perhaps in part, not all.
Part(q, s) ==
    /\ Len(q.lines) <= Len(s)
    /\ q.ended => Len(q.lines) < Len(s)
    /\ \A i \in 1 .. Len(q.lines) :
           q.lines[i] = s[i] \/ (i = Len(q.lines) /\ q.lines[i] = Junk /\ ~q.ended)

-----------------------------------------------------------------------------
\* A line arrives behind those of q: the queue itself, or nothing.  The reply
\* can be true although the line was lost, never false although it is there.
Arrive(call, q, newline) ==
    /\ passed' = passed + 1
    /\ \/ queue' = With(q, passed', newline) /\ Reply(call, TRUE)
       \/ queue' \in WithPart(q, passed', newline) /\ \E ok \in BOOLEAN : Reply(call, ok)
       \/ UNCHANGED queue /\ Reply(call, FALSE)

Put == Arrive("append", queue, TRUE)

Replace == Arrive("write", All(<<>>), FALSE)

Clear ==
    /\ \/ queue' = All(<<>>) /\ Reply("delete", TRUE)
       \/ UNCHANGED queue /\ Reply("delete", FALSE)
    /\ UNCHANGED passed

\* The first line goes; either reply can hide that the newest went with it.
TakeFirst ==
    /\ \/ queue' = All(Rest(queue)) /\ Reply("remove", TRUE)
       \/ Part(queue', Rest(queue)) /\ \E ok \in BOOLEAN : Reply("remove", ok)
       \/ UNCHANGED queue /\ Reply("remove", FALSE)
    /\ UNCHANGED passed

\* Power is lost between two calls, or in the middle of taking the first line,
\* or of a line's arrival.
Crash ==
    /\ Reply("none", TRUE)
    /\ \/ UNCHANGED <<queue, passed>>
       \/ /\ queue' = All(Rest(queue)) \/ Part(queue', Rest(queue))
          /\ UNCHANGED passed
       \/ /\ passed' = passed + 1
          /\ \/ queue' \in {queue, With(queue, passed', TRUE)}
             \/ queue' \in WithPart(queue, passed', TRUE)
             \/ queue' \in {All(<<>>), With(All(<<>>), passed', FALSE)}
             \/ queue' \in WithPart(All(<<>>), passed', FALSE)

Next ==
    \/ Put
    \/ Replace
    \/ Clear
    \/ TakeFirst
    \/ Crash

Spec == Init /\ [][Next]_queueVars

=============================================================================
