------------------------ MODULE CircularBufferProofs ------------------------
(***************************************************************************)
(* Proofs about CircularBuffer for every BufferSize, 0 included, and every *)
(* set of items: its inductive invariant, and that it implements           *)
(* BoundedFifo.                                                            *)
(***************************************************************************)
EXTENDS CircularBuffer, SequenceTheorems, TLAPS

(* The inductive invariant.  Each conjunct needs the others: pop() returns an
   item only because the window is live, the window stays live only because
   size_ agrees with the indices. *)
Inv ==
    /\ TypeOK
    /\ SizeMatchesIndices
    /\ WindowIsLive

-----------------------------------------------------------------------------
(* Advancing an index wraps it at the last slot. *)
LEMMA NextIndexValue ==
    ASSUME NEW i \in Slots
    PROVE  NextIndex(i) = IF i = BufferSize THEN 0 ELSE i + 1
BY BufferAssumption DEF Slots, NextIndex

(* The slot k places after slot t, without the modulus. *)
LEMMA RingIndexValue ==
    ASSUME NEW t \in Slots, NEW k \in Slots
    PROVE  (t + k) % (BufferSize + 1) =
               IF t + k <= BufferSize THEN t + k ELSE t + k - (BufferSize + 1)
BY BufferAssumption DEF Slots

(* It is a slot again. *)
LEMMA RingIndexInSlots ==
    ASSUME NEW t \in Slots, NEW k \in Slots
    PROVE  (t + k) % (BufferSize + 1) \in Slots
BY RingIndexValue, BufferAssumption DEF Slots

(* The place k of a ring whose tail moved on is the place k + 1 of the ring
   before. *)
LEMMA RingShift ==
    ASSUME NEW t \in Slots, NEW k \in Slots, k + 1 \in Slots
    PROVE  (NextIndex(t) + k) % (BufferSize + 1) = (t + (k + 1)) % (BufferSize + 1)
<1>1. NextIndex(t) = (IF t = BufferSize THEN 0 ELSE t + 1) /\ NextIndex(t) \in Slots
    BY NextIndexValue, BufferAssumption DEF Slots
<1>2. (NextIndex(t) + k) % (BufferSize + 1) =
          IF NextIndex(t) + k <= BufferSize THEN NextIndex(t) + k
          ELSE NextIndex(t) + k - (BufferSize + 1)
    BY <1>1, RingIndexValue
<1>3. (t + (k + 1)) % (BufferSize + 1) =
          IF t + (k + 1) <= BufferSize THEN t + (k + 1)
          ELSE t + (k + 1) - (BufferSize + 1)
    BY RingIndexValue
<1>4. CASE t = BufferSize
    BY <1>1, <1>2, <1>3, <1>4, BufferAssumption DEF Slots
<1>5. CASE t # BufferSize
    BY <1>1, <1>2, <1>3, <1>5, BufferAssumption DEF Slots
<1>6. QED
    BY <1>4, <1>5

(* The slot after place k is place k + 1, and after the last place comes the
   first: a full ring's head_ is one slot behind its tail_. *)
LEMMA RingNext ==
    ASSUME NEW t \in Slots, NEW k \in Slots
    PROVE  /\ k # BufferSize =>
                  NextIndex((t + k) % (BufferSize + 1)) = (t + (k + 1)) % (BufferSize + 1)
           /\ k = BufferSize => NextIndex((t + k) % (BufferSize + 1)) = t
<1> DEFINE p == (t + k) % (BufferSize + 1)
<1>1. /\ p = IF t + k <= BufferSize THEN t + k ELSE t + k - (BufferSize + 1)
      /\ p \in Slots
    BY RingIndexValue, RingIndexInSlots
<1>2. NextIndex(p) = IF p = BufferSize THEN 0 ELSE p + 1
    BY <1>1, NextIndexValue
<1> HIDE DEF p
<1>3. CASE k = BufferSize
    BY <1>1, <1>2, <1>3, BufferAssumption DEF Slots, p
<1>4. CASE k # BufferSize
    <2>1. k + 1 \in Slots
        BY <1>4, BufferAssumption DEF Slots
    <2>2. (t + (k + 1)) % (BufferSize + 1) =
              IF t + (k + 1) <= BufferSize THEN t + (k + 1)
              ELSE t + (k + 1) - (BufferSize + 1)
        BY <2>1, RingIndexValue
    <2>3. NextIndex(p) = (t + (k + 1)) % (BufferSize + 1)
        BY <1>1, <1>2, <2>2, BufferAssumption DEF Slots
    <2>4. QED
        BY <1>4, <2>3 DEF p
<1>5. QED
    BY <1>3, <1>4

(* A tail that moved on is BufferSize places behind where it was. *)
LEMMA RingFull ==
    ASSUME NEW t \in Slots
    PROVE  (NextIndex(t) + BufferSize) % (BufferSize + 1) = t
<1>1. BufferSize \in Slots /\ NextIndex(t) \in Slots
    BY NextIndexValue, BufferAssumption DEF Slots
<1>2. (NextIndex(t) + BufferSize) % (BufferSize + 1) =
          IF NextIndex(t) + BufferSize <= BufferSize THEN NextIndex(t) + BufferSize
          ELSE NextIndex(t) + BufferSize - (BufferSize + 1)
    BY <1>1, RingIndexValue
<1>3. QED
    BY <1>1, <1>2, NextIndexValue, BufferAssumption DEF Slots

(* Different places of the ring are different slots. *)
LEMMA RingInjective ==
    ASSUME NEW t \in Slots, NEW j \in Slots, NEW k \in Slots
    PROVE  (t + j) % (BufferSize + 1) = (t + k) % (BufferSize + 1) <=> j = k
<1>1. (t + j) % (BufferSize + 1) =
          IF t + j <= BufferSize THEN t + j ELSE t + j - (BufferSize + 1)
    BY RingIndexValue
<1>2. (t + k) % (BufferSize + 1) =
          IF t + k <= BufferSize THEN t + k ELSE t + k - (BufferSize + 1)
    BY RingIndexValue
<1>3. QED
    BY <1>1, <1>2, BufferAssumption DEF Slots

(* is_empty() and is_max() decide exactly the fill levels 0 and BufferSize. *)
LEMMA FillLevel ==
    ASSUME Inv
    PROVE  /\ IsEmpty <=> size_ = 0
           /\ IsMax <=> size_ = BufferSize
<1>1. size_ \in Slots /\ head_ \in Slots /\ tail_ \in Slots /\ BufferSize \in Nat
    BY BufferAssumption DEF Inv, TypeOK, Slots
<1>2. head_ = IF tail_ + size_ <= BufferSize THEN tail_ + size_
              ELSE tail_ + size_ - (BufferSize + 1)
    BY <1>1, RingIndexValue DEF Inv, SizeMatchesIndices
<1>3. NextIndex(head_) = IF head_ = BufferSize THEN 0 ELSE head_ + 1
    BY <1>1, NextIndexValue
<1>4. QED
    BY <1>1, <1>2, <1>3 DEF IsEmpty, IsMax, Slots

-----------------------------------------------------------------------------
(* The initial ring satisfies the invariant: no item, both indices at slot 0. *)
LEMMA InitInv == Init => Inv
<1>1. SUFFICES ASSUME Init PROVE Inv
    OBVIOUS
<1>2. TypeOK
    BY <1>1, BufferAssumption DEF Init, TypeOK, Slots, Slot
<1>3. SizeMatchesIndices
    <2>1. 0 \in Slots
        BY BufferAssumption DEF Slots
    <2>2. (0 + 0) % (BufferSize + 1) = 0
        BY <2>1, RingIndexValue, BufferAssumption
    <2>3. QED
        BY <1>1, <2>2 DEF Init, SizeMatchesIndices
<1>4. WindowIsLive
    BY <1>1 DEF Init, WindowIsLive
<1>5. QED
    BY <1>2, <1>3, <1>4 DEF Inv

(* What the invariant says of the ring, in the form the proofs use. *)
LEMMA InvFacts ==
    ASSUME Inv
    PROVE  /\ size_ \in Slots /\ head_ \in Slots /\ tail_ \in Slots
           /\ BufferSize \in Nat
           /\ buffer_ \in [Slots -> Slot]
           /\ head_ = IF tail_ + size_ <= BufferSize THEN tail_ + size_
                      ELSE tail_ + size_ - (BufferSize + 1)
<1>1. /\ size_ \in Slots /\ head_ \in Slots /\ tail_ \in Slots
      /\ BufferSize \in Nat
      /\ buffer_ \in [Slots -> Slot]
    BY BufferAssumption DEF Inv, TypeOK, Slots
<1>2. QED
    BY <1>1, RingIndexValue DEF Inv, SizeMatchesIndices

(* push() below capacity leaves at(0) .. at(size() - 1) as they were and puts
   the item behind them. *)
LEMMA PushWindow ==
    ASSUME Inv, NEW item \in Item, Push(item), size_ < BufferSize
    PROVE  /\ tail_' = tail_
           /\ size_' = size_ + 1
           /\ \A i \in 0 .. size_ : At(i)' = IF i = size_ THEN item ELSE At(i)
<1>1. tail_' = tail_ /\ size_' = size_ + 1
    BY InvFacts, FillLevel DEF Push, TailAfterPush, SizeAfterPush
<1>2. buffer_' = [buffer_ EXCEPT ![head_] = item] /\ head_ \in Slots
    BY InvFacts DEF Push
<1>3. ASSUME NEW i \in 0 .. size_
      PROVE  At(i)' = IF i = size_ THEN item ELSE At(i)
    <2>1. i \in Slots /\ tail_ \in Slots
        BY InvFacts DEF Slots
    <2>2. (tail_ + i) % (BufferSize + 1) \in Slots
        BY <2>1, RingIndexInSlots
    <2>3. (tail_ + i) % (BufferSize + 1) = head_ <=> i = size_
        BY <2>1, RingInjective, InvFacts DEF Inv, SizeMatchesIndices
    <2>4. buffer_'[(tail_ + i) % (BufferSize + 1)] =
              IF i = size_ THEN item ELSE buffer_[(tail_ + i) % (BufferSize + 1)]
        BY <1>2, <2>2, <2>3, InvFacts
    <2>5. QED
        BY <1>1, <2>4 DEF At, ActualIndex
<1>4. QED
    BY <1>1, <1>3

(* push() at capacity drops at(0), moves every other item one place forward and
   puts the new one last.  A ring of no places stays empty. *)
LEMMA FullPushWindow ==
    ASSUME Inv, NEW item \in Item, Push(item), size_ = BufferSize
    PROVE  /\ tail_' \in Slots
           /\ tail_' = NextIndex(tail_)
           /\ size_' = size_
           /\ \A i \in 0 .. size_ - 1 :
                  At(i)' = IF i = size_ - 1 THEN item ELSE At(i + 1)
<1>1. tail_' = NextIndex(tail_) /\ size_' = size_
    BY InvFacts, FillLevel DEF Push, TailAfterPush, SizeAfterPush, Slots
<1>2. tail_' = (IF tail_ = BufferSize THEN 0 ELSE tail_ + 1) /\ tail_' \in Slots
    BY <1>1, NextIndexValue, InvFacts DEF Slots
<1>3. buffer_' = [buffer_ EXCEPT ![head_] = item] /\ head_ \in Slots
    BY InvFacts DEF Push
<1>4. ASSUME NEW i \in 0 .. size_ - 1
      PROVE  At(i)' = IF i = size_ - 1 THEN item ELSE At(i + 1)
    <2>1. i \in Slots /\ i + 1 \in Slots /\ tail_ \in Slots
        BY InvFacts DEF Slots
    <2>2. (tail_ + (i + 1)) % (BufferSize + 1) \in Slots
        BY <2>1, RingIndexInSlots
    <2>3. (NextIndex(tail_) + i) % (BufferSize + 1) = (tail_ + (i + 1)) % (BufferSize + 1)
        BY <2>1, RingShift
    <2>4. i + 1 = size_ <=> i = size_ - 1
        BY <2>1, InvFacts DEF Slots
    <2>5. (tail_ + (i + 1)) % (BufferSize + 1) = head_ <=> i = size_ - 1
        BY <2>1, <2>4, RingInjective, InvFacts DEF Inv, SizeMatchesIndices
    <2>6. buffer_'[(tail_ + (i + 1)) % (BufferSize + 1)] =
              IF i = size_ - 1 THEN item
              ELSE buffer_[(tail_ + (i + 1)) % (BufferSize + 1)]
        BY <1>3, <2>2, <2>5, InvFacts
    <2>7. QED
        BY <1>1, <2>3, <2>6 DEF At, ActualIndex
<1>5. QED
    BY <1>1, <1>2, <1>4

(* pop() of a ring that holds an item returns at(0) and moves the others one
   place forward, whatever std::move leaves in the slot. *)
LEMMA PopWindow ==
    ASSUME Inv, PopItem
    PROVE  /\ size_ \in 1 .. BufferSize
           /\ tail_' \in Slots
           /\ tail_' = NextIndex(tail_)
           /\ size_' = size_ - 1
           /\ popped' = At(0)
           /\ buffer_' \in [Slots -> Slot]
           /\ \A i \in 0 .. size_ - 2 : At(i)' = At(i + 1)
<1>1. size_ \in 1 .. BufferSize /\ tail_' = NextIndex(tail_) /\ size_' = size_ - 1
    BY InvFacts, FillLevel DEF PopItem, Slots
<1>2. tail_' = (IF tail_ = BufferSize THEN 0 ELSE tail_ + 1) /\ tail_' \in Slots
    BY <1>1, NextIndexValue, InvFacts DEF Slots
<1>3. PICK left \in {buffer_[tail_], MovedFrom} :
          buffer_' = [buffer_ EXCEPT ![tail_] = left]
    BY DEF PopItem, PopIndex
<1>4. popped' = At(0)
    <2>1. 0 \in Slots
        BY InvFacts DEF Slots
    <2>2. (tail_ + 0) % (BufferSize + 1) = tail_
        BY <2>1, RingIndexValue, InvFacts DEF Slots
    <2>3. QED
        BY <2>2 DEF PopItem, PopIndex, At, ActualIndex
<1>5. buffer_' \in [Slots -> Slot]
    BY <1>3, InvFacts DEF Slot
<1>6. ASSUME NEW i \in 0 .. size_ - 2
      PROVE  At(i)' = At(i + 1)
    <2>1. i \in Slots /\ i + 1 \in Slots /\ tail_ \in Slots /\ i + 1 < size_
        BY InvFacts DEF Slots
    <2>2. (tail_ + (i + 1)) % (BufferSize + 1) \in Slots
        BY <2>1, RingIndexInSlots
    <2>3. (NextIndex(tail_) + i) % (BufferSize + 1) = (tail_ + (i + 1)) % (BufferSize + 1)
        BY <2>1, RingShift
    <2>4. 0 \in Slots /\ i + 1 # 0 /\ (tail_ + 0) % (BufferSize + 1) = tail_
        BY <2>1, RingIndexValue, InvFacts DEF Slots
    <2>5. (tail_ + (i + 1)) % (BufferSize + 1) # tail_
        BY <2>1, <2>4, RingInjective
    <2>6. buffer_'[(tail_ + (i + 1)) % (BufferSize + 1)] =
              buffer_[(tail_ + (i + 1)) % (BufferSize + 1)]
        BY <1>3, <2>2, <2>5, InvFacts
    <2>7. QED
        BY <1>1, <2>3, <2>6 DEF At, ActualIndex
<1>7. QED
    BY <1>1, <1>2, <1>4, <1>5, <1>6
-----------------------------------------------------------------------------
(* push() keeps the invariant, whether or not it overwrites the oldest item. *)
LEMMA PushInv ==
    ASSUME Inv, NEW item \in Item, Push(item)
    PROVE  Inv'
<1>1. /\ head_' = NextIndex(head_)
      /\ head_' \in Slots
      /\ buffer_' \in [Slots -> Slot]
      /\ popped' \in Item \cup {NoItem}
    BY InvFacts, NextIndexValue DEF Push, Inv, TypeOK, Slots, Slot
<1>2. CASE size_ < BufferSize
    <2>1. tail_' = tail_ /\ size_' = size_ + 1 /\ size_ + 1 \in 0 .. BufferSize
        BY <1>2, PushWindow, InvFacts DEF Slots
    <2>2. TypeOK'
        BY <1>1, <2>1, InvFacts DEF TypeOK
    <2>3. SizeMatchesIndices'
        <3>1. /\ tail_ \in Slots /\ size_ \in Slots /\ size_ + 1 \in Slots
              /\ head_ = (tail_ + size_) % (BufferSize + 1)
            BY <2>1, InvFacts DEF Inv, SizeMatchesIndices, Slots
        <3>2. NextIndex(head_) = (tail_ + (size_ + 1)) % (BufferSize + 1)
            BY <3>1, RingNext, InvFacts DEF Slots
        <3>3. QED
            BY <1>1, <2>1, <3>2 DEF SizeMatchesIndices
    <2>4. WindowIsLive'
        <3>1. SUFFICES ASSUME NEW i \in 0 .. size_
                       PROVE  At(i)' \in Item
            <4>1. 0 .. size_' - 1 = 0 .. size_
                BY <2>1, InvFacts DEF Slots
            <4>2. QED
                BY <4>1, Zenon DEF WindowIsLive
        <3>2. At(i)' = IF i = size_ THEN item ELSE At(i)
            BY <1>2, PushWindow
        <3>3. CASE i = size_
            BY <3>2, <3>3
        <3>4. CASE i # size_
            <4>1. i \in 0 .. size_ - 1
                BY <3>4, InvFacts DEF Slots
            <4>2. At(i) \in Item
                BY <4>1, Zenon DEF Inv, WindowIsLive
            <4>3. QED
                BY <3>2, <3>4, <4>2
        <3>5. QED
            BY <3>3, <3>4
    <2>5. QED
        BY <2>2, <2>3, <2>4 DEF Inv
<1>3. CASE size_ = BufferSize
    <2>1. /\ tail_' = NextIndex(tail_) /\ tail_' \in Slots
          /\ size_' = size_ /\ size_ \in 0 .. BufferSize
        BY <1>3, FullPushWindow, InvFacts DEF Slots
    <2>2. TypeOK'
        BY <1>1, <2>1 DEF TypeOK
    <2>3. SizeMatchesIndices'
        <3>1. /\ tail_ \in Slots /\ size_ \in Slots
              /\ head_ = (tail_ + size_) % (BufferSize + 1)
            BY <2>1, InvFacts DEF Inv, SizeMatchesIndices, Slots
        <3>2. NextIndex(head_) = (NextIndex(tail_) + size_) % (BufferSize + 1)
            BY <1>3, <3>1, RingNext, RingFull
        <3>3. QED
            BY <1>1, <2>1, <3>2 DEF SizeMatchesIndices
    <2>4. WindowIsLive'
        <3>1. SUFFICES ASSUME NEW i \in 0 .. size_ - 1
                       PROVE  At(i)' \in Item
            BY <2>1, Zenon DEF WindowIsLive
        <3>2. At(i)' = IF i = size_ - 1 THEN item ELSE At(i + 1)
            BY <1>3, FullPushWindow
        <3>3. CASE i = size_ - 1
            BY <3>2, <3>3
        <3>4. CASE i # size_ - 1
            <4>1. i + 1 \in 0 .. size_ - 1
                BY <3>4, InvFacts DEF Slots
            <4>2. At(i + 1) \in Item
                BY <4>1, Zenon DEF Inv, WindowIsLive
            <4>3. QED
                BY <3>2, <3>4, <4>2
        <3>5. QED
            BY <3>3, <3>4
    <2>5. QED
        BY <2>2, <2>3, <2>4 DEF Inv
<1>4. QED
    BY <1>2, <1>3, InvFacts DEF Slots

(* pop() keeps the invariant; what it returns was a live item. *)
LEMMA PopInv ==
    ASSUME Inv, PopItem
    PROVE  Inv'
<1>1. /\ size_ \in 1 .. BufferSize
      /\ tail_' \in Slots /\ tail_' = NextIndex(tail_)
      /\ size_' = size_ - 1 /\ head_' = head_
      /\ buffer_' \in [Slots -> Slot]
    BY PopWindow DEF PopItem
<1>2. TypeOK'
    <2>1. 0 \in 0 .. size_ - 1
        BY <1>1, InvFacts DEF Slots
    <2>2. popped' \in Item
        <3>1. At(0) \in Item
            BY <2>1, Zenon DEF Inv, WindowIsLive
        <3>2. QED
            BY <3>1, PopWindow
    <2>3. size_ - 1 \in 0 .. BufferSize
        BY <1>1, InvFacts DEF Slots
    <2>4. QED
        BY <1>1, <2>2, <2>3, InvFacts DEF TypeOK
<1>3. SizeMatchesIndices'
    <2>1. /\ size_ - 1 \in Slots /\ (size_ - 1) + 1 = size_ /\ tail_ \in Slots
          /\ size_ \in Slots
        BY <1>1, InvFacts DEF Slots
    <2>2. (NextIndex(tail_) + (size_ - 1)) % (BufferSize + 1)
              = (tail_ + ((size_ - 1) + 1)) % (BufferSize + 1)
        BY <2>1, RingShift
    <2>3. QED
        BY <1>1, <2>1, <2>2 DEF Inv, SizeMatchesIndices
<1>4. WindowIsLive'
    <2>1. SUFFICES ASSUME NEW i \in 0 .. size_ - 2
                   PROVE  At(i)' \in Item
        <3>1. 0 .. size_' - 1 = 0 .. size_ - 2
            BY <1>1, InvFacts DEF Slots
        <3>2. QED
            BY <3>1, Zenon DEF WindowIsLive
    <2>2. At(i)' = At(i + 1)
        BY PopWindow
    <2>3. i + 1 \in 0 .. size_ - 1
        BY <1>1, InvFacts DEF Slots
    <2>4. At(i + 1) \in Item
        BY <2>3, Zenon DEF Inv, WindowIsLive
    <2>5. QED
        BY <2>2, <2>4
<1>5. QED
    BY <1>2, <1>3, <1>4 DEF Inv

(* Every step keeps the invariant. *)
LEMMA NextInv == Inv /\ [Next]_vars => Inv'
<1>1. SUFFICES ASSUME Inv, [Next]_vars PROVE Inv'
    OBVIOUS
<1>2. ASSUME NEW item \in Item, Push(item) PROVE Inv'
    BY <1>1, <1>2, PushInv
<1>3. CASE PopItem
    BY <1>1, <1>3, PopInv
<1>4. CASE PopEmpty
    BY <1>1, <1>4 DEF PopEmpty, bufferVars, Inv, TypeOK, SizeMatchesIndices,
                      WindowIsLive, At, ActualIndex
<1>5. CASE UNCHANGED vars
    BY <1>1, <1>5 DEF vars, Inv, TypeOK, SizeMatchesIndices, WindowIsLive, At,
                      ActualIndex
<1>6. QED
    BY <1>1, <1>2, <1>3, <1>4, <1>5 DEF Next, Pop

-----------------------------------------------------------------------------
(* For every BufferSize and every type of item: the indices stay inside the
   array, size() agrees with them, and at(i) below size() is a live item. *)
THEOREM RingIsSound == Spec => [](TypeOK /\ SizeMatchesIndices /\ WindowIsLive)
<1>1. Inv => TypeOK /\ SizeMatchesIndices /\ WindowIsLive
    BY DEF Inv
<1>2. QED
    BY InitInv, NextInv, <1>1, PTL DEF Spec

(* The indices stay inside the array and size() between 0 and BufferSize, for
   every BufferSize (TypeOK). *)
THEOREM TypeCorrect == Spec => []TypeOK
BY RingIsSound, PTL

(* size() and the indices never disagree about the fill level, for every
   BufferSize (SizeMatchesIndices). *)
THEOREM SizeAgrees == Spec => []SizeMatchesIndices
BY RingIsSound, PTL

(* A window of n live items is a sequence of n items. *)
LEMMA WindowSeq ==
    ASSUME NEW n \in Nat, NEW w, w = [i \in 1 .. n |-> w[i]],
           \A i \in 1 .. n : w[i] \in Item
    PROVE  w \in Seq(Item) /\ Len(w) = n
<1>1. w \in [1 .. n -> Item]
    OBVIOUS
<1>2. QED
    BY <1>1

(* A sequence of n items is the function of its n places. *)
LEMMA SeqIsWindow ==
    ASSUME NEW s \in Seq(Item), NEW n, Len(s) = n
    PROVE  s = [i \in 1 .. n |-> s[i]]
OBVIOUS

(* The refinement mapping yields a queue of at most BufferSize items. *)
LEMMA ContentsIsSeq ==
    ASSUME Inv
    PROVE  /\ Contents \in Seq(Item)
           /\ Len(Contents) = size_
           /\ size_ \in 0 .. BufferSize
           /\ \A i \in 1 .. size_ : Contents[i] = At(i - 1)
<1>1. size_ \in 0 .. BufferSize /\ size_ \in Nat
    BY InvFacts DEF Slots
<1>2. ASSUME NEW i \in 1 .. size_
      PROVE  At(i - 1) \in Item /\ Contents[i] = At(i - 1)
    <2>1. i - 1 \in 0 .. size_ - 1
        BY <1>1
    <2>2. At(i - 1) \in Item
        BY <2>1, Zenon DEF Inv, WindowIsLive
    <2>3. Contents[i] = At(i - 1)
        BY DEF Contents
    <2>4. QED
        BY <2>2, <2>3
<1>3. Contents = [i \in 1 .. size_ |-> Contents[i]]
    BY DEF Contents
<1>4. Contents \in Seq(Item) /\ Len(Contents) = size_
    <2>1. \A i \in 1 .. size_ : Contents[i] \in Item
        BY <1>2
    <2>2. QED
        BY <1>1, <1>3, <2>1, WindowSeq
<1>5. QED
    BY <1>1, <1>2, <1>4

(* push() appends, and first drops the oldest item when the ring is full. *)
LEMMA PushRefines ==
    ASSUME Inv, NEW item \in Item, Push(item)
    PROVE  Contents' = Fifo!Arrived(item)
<1> DEFINE n == size_'
           w == Contents'
<1>1. /\ Contents \in Seq(Item) /\ Len(Contents) = size_
      /\ size_ \in 0 .. BufferSize /\ BufferSize \in Nat /\ size_ \in Nat
      /\ \A i \in 1 .. size_ : Contents[i] = At(i - 1)
    BY ContentsIsSeq, BufferAssumption
<1>2. /\ Append(Contents, item) \in Seq(Item)
      /\ Append(Contents, item) # <<>>
      /\ Len(Append(Contents, item)) = size_ + 1
      /\ \A i \in 1 .. size_ : Append(Contents, item)[i] = Contents[i]
      /\ Append(Contents, item)[size_ + 1] = item
    BY <1>1, AppendProperties
<1>3. w = [i \in 1 .. n |-> At(i - 1)']
    BY DEF Contents
<1> HIDE DEF n, w
<1>4. CASE size_ < BufferSize
    <2>1. /\ n = size_ + 1
          /\ \A i \in 0 .. size_ : At(i)' = IF i = size_ THEN item ELSE At(i)
        BY <1>4, PushWindow DEF n
    <2>2. ASSUME NEW i \in 1 .. n
          PROVE  w[i] = Append(Contents, item)[i]
        <3>1. i - 1 \in 0 .. size_ /\ i \in 1 .. size_ + 1
            BY <1>1, <2>1
        <3>2. w[i] = IF i - 1 = size_ THEN item ELSE At(i - 1)
            BY <1>3, <2>1, <3>1
        <3>3. CASE i = size_ + 1
            BY <1>1, <1>2, <3>2, <3>3
        <3>4. CASE i # size_ + 1
            <4>1. i \in 1 .. size_ /\ i - 1 # size_
                BY <1>1, <3>1, <3>4
            <4>2. QED
                BY <1>1, <1>2, <3>2, <4>1
        <3>5. QED
            BY <3>3, <3>4
    <2>3. w = Append(Contents, item)
        <3>1. Append(Contents, item) = [i \in 1 .. n |-> Append(Contents, item)[i]]
            BY <1>2, <2>1, SeqIsWindow
        <3>2. w = [i \in 1 .. n |-> w[i]]
            BY <1>3
        <3>3. QED
            BY <2>2, <3>1, <3>2
    <2>4. QED
        BY <1>1, <1>4, <2>3 DEF Fifo!Arrived, w
<1>5. CASE size_ = BufferSize
    <2>1. /\ n = size_
          /\ \A i \in 0 .. size_ - 1 :
                 At(i)' = IF i = size_ - 1 THEN item ELSE At(i + 1)
        BY <1>5, FullPushWindow DEF n
    <2> DEFINE rest == Tail(Append(Contents, item))
    <2>2. /\ rest \in Seq(Item)
          /\ Len(rest) = size_
          /\ \A i \in 1 .. size_ : rest[i] = Append(Contents, item)[i + 1]
        <3>1. /\ rest \in Seq(Item)
              /\ Len(rest) = Len(Append(Contents, item)) - 1
              /\ \A i \in 1 .. Len(rest) : rest[i] = Append(Contents, item)[i + 1]
            BY <1>2, HeadTailProperties
        <3>2. Len(rest) = size_
            BY <1>1, <1>2, <3>1
        <3>3. QED
            BY <3>1, <3>2
    <2> HIDE DEF rest
    <2>3. ASSUME NEW i \in 1 .. n
          PROVE  w[i] = rest[i]
        <3>1. i - 1 \in 0 .. size_ - 1 /\ i \in 1 .. size_ /\ (i - 1) + 1 = i
            BY <1>1, <2>1
        <3>2. w[i] = IF i - 1 = size_ - 1 THEN item ELSE At(i)
            BY <1>3, <2>1, <3>1
        <3>3. rest[i] = Append(Contents, item)[i + 1]
            BY <2>2, <3>1
        <3>4. CASE i = size_
            BY <1>1, <1>2, <3>2, <3>3, <3>4
        <3>5. CASE i # size_
            <4>1. i + 1 \in 1 .. size_ /\ i - 1 # size_ - 1 /\ (i + 1) - 1 = i
                BY <1>1, <3>1, <3>5
            <4>2. QED
                BY <1>1, <1>2, <3>2, <3>3, <4>1
        <3>6. QED
            BY <3>4, <3>5
    <2>4. w = rest
        <3>1. rest = [i \in 1 .. n |-> rest[i]]
            BY <2>1, <2>2, SeqIsWindow
        <3>2. w = [i \in 1 .. n |-> w[i]]
            BY <1>3
        <3>3. QED
            BY <2>3, <3>1, <3>2
    <2>5. QED
        BY <1>1, <1>5, <2>4 DEF Fifo!Arrived, w, rest
<1>6. QED
    BY <1>1, <1>4, <1>5

(* pop() hands out the head of the queue and leaves its tail. *)
LEMMA PopRefines ==
    ASSUME Inv, PopItem
    PROVE  /\ Contents # <<>>
           /\ popped' = Head(Contents)
           /\ Contents' = Tail(Contents)
<1> DEFINE n == size_'
           w == Contents'
<1>1. /\ Contents \in Seq(Item) /\ Len(Contents) = size_
      /\ size_ \in 1 .. BufferSize /\ BufferSize \in Nat /\ size_ \in Nat
      /\ \A i \in 1 .. size_ : Contents[i] = At(i - 1)
    BY ContentsIsSeq, PopWindow, BufferAssumption
<1>2. Contents # <<>> /\ Contents[1] = At(0)
    BY <1>1
<1>3. popped' = Head(Contents)
    BY <1>1, <1>2, PopWindow
<1>4. /\ Tail(Contents) \in Seq(Item)
      /\ Len(Tail(Contents)) = size_ - 1
      /\ \A i \in 1 .. size_ - 1 : Tail(Contents)[i] = Contents[i + 1]
    <2>1. /\ Tail(Contents) \in Seq(Item)
          /\ Len(Tail(Contents)) = Len(Contents) - 1
          /\ \A i \in 1 .. Len(Tail(Contents)) : Tail(Contents)[i] = Contents[i + 1]
        BY <1>1, <1>2, HeadTailProperties
    <2>2. QED
        BY <1>1, <2>1
<1>5. w = [i \in 1 .. n |-> At(i - 1)']
    BY DEF Contents
<1>6. n = size_ - 1 /\ \A i \in 0 .. size_ - 2 : At(i)' = At(i + 1)
    BY PopWindow
<1> HIDE DEF n, w
<1>7. ASSUME NEW i \in 1 .. n
      PROVE  w[i] = Tail(Contents)[i]
    <2>1. /\ i - 1 \in 0 .. size_ - 2 /\ i \in 1 .. size_ - 1
          /\ i + 1 \in 1 .. size_ /\ (i - 1) + 1 = i /\ (i + 1) - 1 = i
        BY <1>1, <1>6
    <2>2. w[i] = At(i)
        BY <1>5, <1>6, <2>1
    <2>3. Tail(Contents)[i] = At(i)
        BY <1>1, <1>4, <2>1
    <2>4. QED
        BY <2>2, <2>3
<1>8. w = Tail(Contents)
    <2>1. Tail(Contents) = [i \in 1 .. n |-> Tail(Contents)[i]]
        BY <1>4, <1>6, SeqIsWindow
    <2>2. w = [i \in 1 .. n |-> w[i]]
        BY <1>5
    <2>3. QED
        BY <1>7, <2>1, <2>2
<1>9. QED
    BY <1>2, <1>3, <1>8 DEF w

(* For every BufferSize, 0 included, the ring implements the bounded queue: it
   hands its items out oldest first and loses one only when it is full, the
   oldest. *)
THEOREM RingImplementsFifo == Spec => ImplementsFifo
<1>1. Init => Fifo!Init
    <2>1. SUFFICES ASSUME Init PROVE Contents = <<>> /\ popped = NoItem
        BY DEF Fifo!Init
    <2>2. size_ = 0 /\ Inv
        BY <2>1, InitInv DEF Init
    <2>3. QED
        BY <2>1, <2>2, ContentsIsSeq DEF Init
<1>2. Inv /\ [Next]_vars => [Fifo!Next]_(Fifo!fifoVars)
    <2>1. SUFFICES ASSUME Inv, [Next]_vars
                   PROVE  Fifo!Next \/ UNCHANGED <<Contents, popped>>
        BY DEF Fifo!fifoVars
    <2>2. ASSUME NEW item \in Item, Push(item)
          PROVE  Fifo!Next
        BY <2>1, <2>2, PushRefines DEF Push, Fifo!Push, Fifo!Next
    <2>3. CASE PopItem
        BY <2>1, <2>3, PopRefines DEF Fifo!PopOldest, Fifo!Next
    <2>4. CASE PopEmpty
        <3>1. size_ = 0
            BY <2>1, <2>4, FillLevel DEF PopEmpty
        <3>2. Contents = <<>>
            BY <2>1, <3>1, ContentsIsSeq
        <3>3. Contents' = Contents
            BY <2>4 DEF PopEmpty, bufferVars, Contents, At, ActualIndex
        <3>4. QED
            BY <2>4, <3>2, <3>3 DEF PopEmpty, Fifo!PopEmpty, Fifo!Next
    <2>5. CASE UNCHANGED vars
        BY <2>5 DEF vars, Contents, At, ActualIndex
    <2>6. QED
        BY <2>1, <2>2, <2>3, <2>4, <2>5 DEF Next, Pop
<1>3. QED
    BY InitInv, NextInv, <1>1, <1>2, PTL DEF Spec, ImplementsFifo, Fifo!Spec

=============================================================================
