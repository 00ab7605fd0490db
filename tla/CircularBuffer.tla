--------------------------- MODULE CircularBuffer ---------------------------
(***************************************************************************)
(* lib/Patterns/CircularBuffer.hpp: a ring of BufferSize + 1 slots, of     *)
(* which one is always left free so that head_ = tail_ means empty and     *)
(* "head_ is one slot behind tail_" means full.  size_ is kept beside the  *)
(* two indices and must agree with them.                                   *)
(*                                                                         *)
(* One call is one step here: the class does no locking of its own.  What  *)
(* a thread that does not hold its owner's lock can see of a push is       *)
(* modelled in EventLogger.                                                *)
(***************************************************************************)
EXTENDS Integers, Sequences

CONSTANTS
    BufferSize,  \* template argument: how many items fit
    Item,        \* the values of type T that callers push
    NoItem,      \* std::nullopt: a slot never written, or the result of an empty pop
    MovedFrom    \* what std::move may leave in an engaged slot

ASSUME BufferAssumption ==
    /\ BufferSize \in Nat
    /\ NoItem \notin Item
    /\ MovedFrom \notin Item
    /\ MovedFrom # NoItem

VARIABLES
    buffer_,     \* std::array<std::optional<T>, BufferSize + 1>
    head_,       \* index of the next write
    tail_,       \* index of the next read
    size_,       \* number of items
    popped       \* what the last pop() returned: the caller's copy

bufferVars == <<buffer_, head_, tail_, size_>>
vars == <<buffer_, head_, tail_, size_, popped>>

Slots == 0 .. BufferSize
Slot == Item \cup {NoItem, MovedFrom}

-----------------------------------------------------------------------------
\* Faulty variants of the definitions below, one plausible slip each.

NextIndexNoWrap(i) == i + 1
SizeAfterPushNoDecrement == size_ + 1
PopIndexNewest == (head_ + BufferSize) % (BufferSize + 1)

-----------------------------------------------------------------------------
\* (i + 1) % (BufferSize + 1)
NextIndex(i) == (i + 1) % (BufferSize + 1)

IsEmpty == head_ = tail_

IsMax == NextIndex(head_) = tail_

\* The slot that at(index) reads; index is not checked against size().
ActualIndex(index) == (tail_ + index) % (BufferSize + 1)
At(index) == buffer_[ActualIndex(index)]

TailAfterPush == IF IsMax THEN NextIndex(tail_) ELSE tail_

\* "--size_" for the overwritten item, then "++size_"; size_t wraps around and
\* back when BufferSize = 0, which leaves the same sum.
SizeAfterPush == (IF IsMax THEN size_ - 1 ELSE size_) + 1

\* The slot pop() takes its item from.
PopIndex == tail_

-----------------------------------------------------------------------------
Init ==
    /\ buffer_ = [i \in Slots |-> NoItem]
    /\ head_ = 0
    /\ tail_ = 0
    /\ size_ = 0
    /\ popped = NoItem

\* push(const T&) and push(T&&): the argument ends up in the slot either way.
Push(item) ==
    /\ tail_' = TailAfterPush
    /\ size_' = SizeAfterPush
    /\ buffer_' = [buffer_ EXCEPT ![head_] = item]
    /\ head_' = NextIndex(head_)
    /\ popped' = popped

PopEmpty ==
    /\ IsEmpty
    /\ popped' = NoItem
    /\ UNCHANGED bufferVars

\* std::move(buffer_[tail_]) leaves the slot engaged: with the item itself
\* (a trivially copyable T) or with a moved-from one.
PopItem ==
    /\ ~IsEmpty
    /\ popped' = buffer_[PopIndex]
    /\ \E left \in {buffer_[PopIndex], MovedFrom} :
           buffer_' = [buffer_ EXCEPT ![PopIndex] = left]
    /\ tail_' = NextIndex(tail_)
    /\ size_' = size_ - 1
    /\ UNCHANGED head_

Pop == PopEmpty \/ PopItem

Next ==
    \/ \E item \in Item : Push(item)
    \/ Pop

Spec == Init /\ [][Next]_vars

-----------------------------------------------------------------------------
\* The items at(0), at(1), ... at(size() - 1): the abstract queue.
Contents == [i \in 1 .. size_ |-> At(i - 1)]

Fifo == INSTANCE BoundedFifo WITH Capacity <- BufferSize, items <- Contents

(* Type invariant: both indices stay inside the array and size_ never leaves
   0 .. BufferSize (it is a size_t: an underflow would make it huge). *)
TypeOK ==
    /\ buffer_ \in [Slots -> Slot]
    /\ head_ \in Slots
    /\ tail_ \in Slots
    /\ size_ \in 0 .. BufferSize
    /\ popped \in Item \cup {NoItem}

(* The two redundant descriptions of the fill level agree: size(), which
   printLatestLogs loops over, and the indices, which is_empty() and is_max()
   compare. *)
SizeMatchesIndices ==
    head_ = (tail_ + size_) % (BufferSize + 1)

(* at(i) for i < size() is always an item that was pushed and not yet handed
   out: never an unwritten slot and never a moved-from one. *)
WindowIsLive ==
    \A i \in 0 .. size_ - 1 : At(i) \in Item

(* Every push and pop does to at(0) .. at(size() - 1) what the bounded queue
   does: oldest item out first, the oldest overwritten when full, no other
   item lost, duplicated or reordered. *)
ImplementsFifo == Fifo!Spec

=============================================================================
