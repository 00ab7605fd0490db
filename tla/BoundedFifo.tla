---------------------------- MODULE BoundedFifo ----------------------------
(***************************************************************************)
(* What a CircularBuffer<T, BufferSize> promises to its users: a queue of  *)
(* at most Capacity items, oldest first.  A push on a full queue discards  *)
(* the oldest item and never fails; a pop hands out the oldest item, or    *)
(* NoItem (std::nullopt) when there is none.                               *)
(*                                                                         *)
(* This is the abstract specification that CircularBuffer implements under *)
(* the refinement mapping CircularBuffer!Contents.                         *)
(***************************************************************************)
EXTENDS Integers, Sequences

CONSTANTS
    Capacity,   \* the template argument BufferSize
    Item,       \* the values of type T that are pushed
    NoItem      \* std::nullopt

VARIABLES
    items,      \* the queued items, oldest first
    popped      \* what the last pop() returned

fifoVars == <<items, popped>>

Init ==
    /\ items = <<>>
    /\ popped = NoItem

\* The items that remain when x arrives: the newest Capacity of them.
Arrived(x) ==
    IF Len(items) < Capacity THEN Append(items, x) ELSE Tail(Append(items, x))

Push(x) ==
    /\ items' = Arrived(x)
    /\ UNCHANGED popped

PopEmpty ==
    /\ items = <<>>
    /\ popped' = NoItem
    /\ UNCHANGED items

PopOldest ==
    /\ items # <<>>
    /\ popped' = Head(items)
    /\ items' = Tail(items)

Next ==
    \/ \E x \in Item : Push(x)
    \/ PopEmpty
    \/ PopOldest

Spec == Init /\ [][Next]_fifoVars

=============================================================================
