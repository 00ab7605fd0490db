------------------------- MODULE StateMachineProofs -------------------------
(***************************************************************************)
(* Proofs about StateMachine, for every set of states, any number of       *)
(* observers and changes, and every nesting of announcements.              *)
(***************************************************************************)
EXTENDS StateMachine, SequenceTheorems, FiniteSetTheorems, TLAPS

\* Change c is being announced, and observer i has not been told of it.
Pending(c, i) == \E k \in DOMAIN announced : announced[k].change = c /\ announced[k].at < i

\* Change late was made inside the announcement of change early, before that
\* came to observer i.
Before(late, early, i) == \E a \in changes[late].within : a.change = early /\ a.at < i

\* The stack: inner changes are later ones, all of them later than the last
\* registration, and it is what the changes made meanwhile remember of it.
StackInv ==
    /\ \A k \in DOMAIN announced :
           /\ announced[k].change \in 1 .. Len(changes)
           /\ announced[k].at \in 0 .. Len(observers)
           /\ changes[announced[k].change].within = {announced[j] : j \in 1 .. k - 1}
           /\ \A i \in DOMAIN observers : observers[i] < announced[k].change
    /\ \A j, k \in DOMAIN announced : j < k => announced[j].change < announced[k].change

\* A change made since entry k was pushed knows that it is inside that
\* announcement, which had come no further then than it has now.
WithinInv ==
    \A k \in DOMAIN announced, d \in DOMAIN changes :
        announced[k].change < d =>
            \E a \in changes[d].within :
                a.change = announced[k].change /\ a.at <= announced[k].at

\* What observer i has been told: all since its registration but the pending.
ToldInv ==
    \A i \in DOMAIN observers :
        /\ observers[i] \in 0 .. Len(changes)
        /\ \A c \in 1 .. Len(changes) :
               (\E m \in DOMAIN told[i] : told[i][m] = c) <=> observers[i] < c /\ ~Pending(c, i)
        /\ \A m, n \in DOMAIN told[i] : told[i][m] = told[i][n] => m = n

OrderInv ==
    \A i \in DOMAIN observers : \A m, n \in DOMAIN told[i] :
        told[i][m] < told[i][n] => (n < m <=> Before(told[i][n], told[i][m], i))

MachineInv == MachineTypeOK /\ StackInv /\ WithinInv /\ ToldInv /\ OrderInv

-----------------------------------------------------------------------------
(* The types, in the form the proofs use. *)
LEMMA MachineFacts ==
    ASSUME MachineTypeOK
    PROVE  /\ Len(announced) \in Nat /\ DOMAIN announced = 1 .. Len(announced)
           /\ \A k \in DOMAIN announced :
                  /\ announced[k] \in Announcement
                  /\ announced[k].change \in Nat /\ announced[k].at \in Nat
           /\ Len(changes) \in 0 .. MaxChanges /\ DOMAIN changes = 1 .. Len(changes)
           /\ Len(observers) \in 0 .. MaxObservers /\ DOMAIN observers = 1 .. Len(observers)
           /\ DOMAIN told = DOMAIN observers
           /\ \A i \in DOMAIN observers :
                  /\ told[i] \in Seq(1 .. Len(changes))
                  /\ Len(told[i]) \in Nat /\ DOMAIN told[i] = 1 .. Len(told[i])
                  /\ \A m \in DOMAIN told[i] : told[i][m] \in 1 .. Len(changes)
           /\ \A d \in DOMAIN changes : \A b \in changes[d].within :
                  b.at \in Nat /\ b.change \in Nat
<1> USE DEF MachineTypeOK
<1>1. /\ Len(announced) \in Nat /\ DOMAIN announced = 1 .. Len(announced)
      /\ \A k \in DOMAIN announced : announced[k] \in Announcement
    BY LenProperties, ElementOfSeq
<1>2. \A k \in DOMAIN announced : announced[k].change \in Nat /\ announced[k].at \in Nat
    BY <1>1 DEF Announcement
<1>3. Len(changes) \in 0 .. MaxChanges /\ DOMAIN changes = 1 .. Len(changes)
    BY LenProperties, MachineAssumption
<1>4. /\ Len(observers) \in 0 .. MaxObservers /\ DOMAIN observers = 1 .. Len(observers)
      /\ DOMAIN told = DOMAIN observers
    BY LenProperties, MachineAssumption
<1>5. ASSUME NEW i \in DOMAIN observers
      PROVE  /\ told[i] \in Seq(1 .. Len(changes))
             /\ Len(told[i]) \in Nat /\ DOMAIN told[i] = 1 .. Len(told[i])
             /\ \A m \in DOMAIN told[i] : told[i][m] \in 1 .. Len(changes)
    <2>1. told[i] \in Seq(1 .. Len(changes))
        BY <1>4
    <2>2. QED
        BY <2>1, LenProperties, ElementOfSeq
<1>6. ASSUME NEW d \in DOMAIN changes, NEW b \in changes[d].within
      PROVE  b.at \in Nat /\ b.change \in Nat
    <2> DEFINE Change == [from : State, to : State, within : SUBSET Announcement]
    <2>1. \A x \in Change : x.within \subseteq Announcement
        OBVIOUS
    <2> HIDE DEF Change
    <2>2. changes \in Seq(Change)
        BY DEF Change
    <2>3. changes[d] \in Change
        BY <1>3, <2>2, ElementOfSeq
    <2>4. b \in Announcement
        BY <2>1, <2>3
    <2>5. QED
        BY <2>4 DEF Announcement
<1>7. QED
    BY <1>1, <1>2, <1>3, <1>4, <1>5, <1>6

(* Nothing is announced and nobody observes. *)
LEMMA MachineInitInv == MachineInit => MachineInv
<1> SUFFICES ASSUME MachineInit PROVE MachineInv
    OBVIOUS
<1>1. MachineTypeOK
    BY MachineAssumption DEF MachineInit, MachineTypeOK
<1>2. StackInv /\ WithinInv /\ ToldInv /\ OrderInv
    BY DEF MachineInit, StackInv, WithinInv, ToldInv, OrderInv
<1>3. QED
    BY <1>1, <1>2 DEF MachineInv

(* The rows of the table of transitions are no part of an announcement. *)
LEMMA UnchangedKeeps ==
    ASSUME MachineInv, stateTransitions' \subseteq State \X State,
           UNCHANGED <<currentState, observers, announced, changes, told>>
    PROVE  MachineInv'
BY DEF MachineInv, MachineTypeOK, StackInv, WithinInv, ToldInv, OrderInv, Pending, Before

(* Who registers between announcements has been told of all changes since. *)
LEMMA RegisterKeeps == ASSUME MachineInv, RegisterObserver PROVE MachineInv'
<1> DEFINE n == Len(observers)
<1>1. MachineTypeOK /\ ToldInv /\ OrderInv
    BY DEF MachineInv
<1>2. /\ announced = <<>> /\ n < MaxObservers
      /\ observers' = Append(observers, Len(changes)) /\ told' = Append(told, <<>>)
      /\ UNCHANGED <<currentState, stateTransitions, announced, changes>>
    BY DEF RegisterObserver
<1>3. /\ n \in Nat /\ DOMAIN observers = 1 .. n /\ Len(changes) \in 0 .. MaxChanges
      /\ told \in Seq(Seq(1 .. Len(changes))) /\ Len(told) = n
    <2>1. n \in Nat /\ DOMAIN observers = 1 .. n /\ Len(changes) \in 0 .. MaxChanges
        BY <1>1, MachineFacts
    <2>2. told \in [1 .. n -> Seq(1 .. Len(changes))]
        BY <1>1 DEF MachineTypeOK
    <2>3. told \in Seq(Seq(1 .. Len(changes)))
        BY <2>1, <2>2, SeqDef
    <2>4. QED
        BY <2>1, <2>2, <2>3, LenProperties
<1>4. /\ observers' \in Seq(0 .. MaxChanges) /\ Len(observers') = n + 1
      /\ DOMAIN observers' = 1 .. n + 1
      /\ \A i \in 1 .. n : observers'[i] = observers[i]
      /\ observers'[n + 1] = Len(changes)
    BY <1>1, <1>2, <1>3, AppendProperties, LenProperties DEF MachineTypeOK
<1>5. /\ told' \in Seq(Seq(1 .. Len(changes))) /\ Len(told') = n + 1
      /\ \A i \in 1 .. n : told'[i] = told[i]
      /\ told'[n + 1] = <<>>
    BY <1>2, <1>3, AppendProperties, EmptySeq
<1>6. MachineTypeOK'
    <2>1. told' \in [1 .. n + 1 -> Seq(1 .. Len(changes))]
        BY <1>5, LenProperties
    <2>2. /\ currentState' \in State /\ stateTransitions' \subseteq State \X State
          /\ announced' \in Seq(Announcement)
          /\ changes' \in Seq([from : State, to : State, within : SUBSET Announcement])
          /\ Len(changes') <= MaxChanges
        BY <1>1, <1>2 DEF MachineTypeOK
    <2>3. Len(observers') <= MaxObservers
        BY <1>2, <1>3, <1>4, MachineAssumption
    <2>4. QED
        BY <1>2, <1>4, <2>1, <2>2, <2>3 DEF MachineTypeOK
<1> HIDE DEF n
<1>7. StackInv' /\ WithinInv'
    BY <1>2 DEF StackInv, WithinInv
<1>8. ToldInv'
    <2>1. \A c, i : ~Pending(c, i) /\ ~Pending(c, i)'
        BY <1>2 DEF Pending
    <2>2. ASSUME NEW i \in 1 .. n + 1
          PROVE  /\ observers'[i] \in 0 .. Len(changes)
                 /\ \A c \in 1 .. Len(changes) :
                        (\E m \in DOMAIN told'[i] : told'[i][m] = c) <=> observers'[i] < c
                 /\ \A k, m \in DOMAIN told'[i] : told'[i][k] = told'[i][m] => k = m
        <3>1. CASE i \in 1 .. n
            <4>1. observers'[i] = observers[i] /\ told'[i] = told[i]
                BY <1>4, <1>5, <3>1
            <4>2. /\ observers[i] \in 0 .. Len(changes)
                  /\ \A c \in 1 .. Len(changes) :
                         (\E m \in DOMAIN told[i] : told[i][m] = c)
                             <=> observers[i] < c /\ ~Pending(c, i)
                  /\ \A k, m \in DOMAIN told[i] : told[i][k] = told[i][m] => k = m
                BY <1>1, <1>3, <3>1, Zenon DEF ToldInv
            <4>3. QED
                BY <2>1, <4>1, <4>2, Zenon
        <3>2. CASE i = n + 1
            BY <1>3, <1>4, <1>5, <3>2
        <3>3. QED
            BY <1>3, <3>1, <3>2
    <2>3. Len(changes') = Len(changes) /\ DOMAIN observers' = 1 .. n + 1
        BY <1>2, <1>4
    <2>4. QED
        BY <2>1, <2>2, <2>3, Zenon DEF ToldInv
<1>9. OrderInv'
    <2>1. ASSUME NEW i \in 1 .. n + 1, NEW l \in DOMAIN told'[i], NEW m \in DOMAIN told'[i],
                 told'[i][l] < told'[i][m]
          PROVE  m < l <=> Before(told'[i][m], told'[i][l], i)
        <3>1. i \in 1 .. n
            BY <1>3, <1>5, <2>1
        <3>2. told'[i] = told[i]
            BY <1>5, <3>1
        <3>3. QED
            BY <1>1, <1>3, <2>1, <3>1, <3>2 DEF OrderInv
    <2>2. \A late, early, i : Before(late, early, i)' <=> Before(late, early, i)
        BY <1>2 DEF Before
    <2>3. QED
        BY <1>4, <2>1, <2>2 DEF OrderInv
<1>10. QED
    BY <1>6, <1>7, <1>8, <1>9 DEF MachineInv

(* A change begins to be announced inside all that is being announced. *)
LEMMA ChangeKeeps == ASSUME MachineInv, NEW new \in State, ChangeToState(new) PROVE MachineInv'
<1> DEFINE n == Len(announced)
           l == Len(changes)
           entry == [change |-> l + 1, at |-> 0]
           change == [from |-> currentState, to |-> new, within |-> Range(announced)]
           Change == [from : State, to : State, within : SUBSET Announcement]
<1>1. MachineTypeOK /\ StackInv /\ WithinInv /\ ToldInv /\ OrderInv
    BY DEF MachineInv
<1>2. /\ l < MaxChanges
      /\ currentState' = new
      /\ changes' = Append(changes, change)
      /\ announced' = Append(announced, entry)
      /\ UNCHANGED <<stateTransitions, observers, told>>
    BY DEF ChangeToState, Nested
<1>3. /\ n \in Nat /\ DOMAIN announced = 1 .. n
      /\ l \in Nat /\ DOMAIN changes = 1 .. l /\ l + 1 \in 1 .. MaxChanges
    BY <1>1, <1>2, MachineFacts, MachineAssumption
<1>4. Range(announced) \subseteq Announcement /\ Range(announced) = {announced[j] : j \in 1 .. n}
    BY <1>1, <1>3, RangeOfSeq, RangeEquality DEF MachineTypeOK
<1>5. entry \in Announcement
    BY <1>3, MachineAssumption DEF Announcement
<1>6. change \in Change
    BY <1>1, <1>4 DEF MachineTypeOK
<1>7. change.within = {announced[j] : j \in 1 .. n}
    BY <1>4
<1>8. /\ announced' \in Seq(Announcement) /\ Len(announced') = n + 1
      /\ DOMAIN announced' = 1 .. n + 1
      /\ \A k \in 1 .. n : announced'[k] = announced[k]
      /\ announced'[n + 1] = entry
    <2>1. announced \in Seq(Announcement)
        BY <1>1 DEF MachineTypeOK
    <2>2. QED
        BY <1>2, <1>5, <2>1, AppendProperties, LenProperties
<1> HIDE DEF change
<1>9. /\ changes' \in Seq(Change) /\ Len(changes') = l + 1
      /\ DOMAIN changes' = 1 .. l + 1
      /\ \A d \in 1 .. l : changes'[d] = changes[d]
      /\ changes'[l + 1] = change
    <2>1. changes \in Seq(Change)
        BY <1>1 DEF MachineTypeOK
    <2> HIDE DEF Change
    <2>2. QED
        BY <1>2, <1>6, <2>1, AppendProperties, LenProperties
<1>10. entry.change = l + 1 /\ entry.at = 0
    OBVIOUS
<1>11. MachineTypeOK'
    <2>1. told' \in [1 .. Len(observers') -> Seq(1 .. Len(changes'))]
        <3>1. 1 .. l \subseteq 1 .. l + 1
            BY <1>3
        <3>2. \A s \in Seq(1 .. l) : s \in Seq(1 .. l + 1)
            BY <3>1, SeqMonotonic
        <3>3. told \in [1 .. Len(observers) -> Seq(1 .. l)]
            BY <1>1 DEF MachineTypeOK
        <3> HIDE DEF l
        <3>4. told \in [1 .. Len(observers) -> Seq(1 .. l + 1)]
            BY <3>2, <3>3
        <3>5. QED
            BY <1>2, <1>9, <3>4
    <2>2. /\ currentState' \in State /\ stateTransitions' \subseteq State \X State
          /\ observers' \in Seq(0 .. MaxChanges) /\ Len(observers') <= MaxObservers
        BY <1>1, <1>2 DEF MachineTypeOK
    <2>3. Len(changes') <= MaxChanges
        BY <1>3, <1>9, MachineAssumption
    <2>4. QED
        BY <1>8, <1>9, <2>1, <2>2, <2>3 DEF MachineTypeOK
<1> HIDE DEF n, l, entry, Change
<1>12. ASSUME NEW c \in 1 .. l, NEW i
       PROVE  Pending(c, i)' <=> Pending(c, i)
    <2>1. \A k \in 1 .. n + 1 : k \in 1 .. n \/ k = n + 1
        BY <1>3
    <2>2. announced'[n + 1].change # c
        BY <1>3, <1>8, <1>10
    <2>3. \A k \in 1 .. n : k \in 1 .. n + 1
        BY <1>3
    <2>4. QED
        BY <1>3, <1>8, <2>1, <2>2, <2>3 DEF Pending
<1>13. ASSUME NEW c, c = l + 1, NEW i \in DOMAIN observers
       PROVE  Pending(c, i)'
    <2>1. n + 1 \in DOMAIN announced'
        BY <1>3, <1>8
    <2>2. 0 < i
        BY <1>1, MachineFacts
    <2>3. announced'[n + 1].change = c /\ announced'[n + 1].at < i
        BY <1>8, <1>10, <1>13, <2>2
    <2>4. QED
        BY <2>1, <2>3 DEF Pending
<1>14. StackInv'
    <2>1. ASSUME NEW k \in 1 .. n + 1
          PROVE  /\ announced'[k].change \in 1 .. l + 1
                 /\ announced'[k].at \in 0 .. Len(observers)
                 /\ changes'[announced'[k].change].within = {announced'[j] : j \in 1 .. k - 1}
                 /\ \A i \in DOMAIN observers : observers[i] < announced'[k].change
        <3>1. {announced'[j] : j \in 1 .. k - 1} = {announced[j] : j \in 1 .. k - 1}
            <4>1. \A j \in 1 .. k - 1 : j \in 1 .. n
                BY <1>3
            <4>2. QED
                BY <1>8, <4>1
        <3>2. CASE k \in 1 .. n
            <4>1. /\ announced[k].change \in 1 .. l
                  /\ announced[k].at \in 0 .. Len(observers)
                  /\ changes[announced[k].change].within = {announced[j] : j \in 1 .. k - 1}
                  /\ \A i \in DOMAIN observers : observers[i] < announced[k].change
                BY <1>1, <1>3, <3>2 DEF StackInv, l
            <4>2. announced'[k] = announced[k]
                BY <1>8, <3>2
            <4>3. changes'[announced[k].change] = changes[announced[k].change]
                BY <1>9, <4>1
            <4>4. announced[k].change \in 1 .. l + 1
                BY <1>3, <4>1
            <4>5. QED
                BY <3>1, <4>1, <4>2, <4>3, <4>4
        <3>3. CASE k = n + 1
            <4>1. announced'[k].change = l + 1 /\ announced'[k].at = 0 /\ k - 1 = n
                BY <1>3, <1>8, <1>10, <3>3
            <4>2. \A i \in DOMAIN observers : observers[i] < l + 1
                BY <1>1, <1>3 DEF ToldInv, l
            <4>3. Len(observers) \in Nat
                BY <1>1, MachineFacts
            <4>4. l + 1 \in 1 .. l + 1
                BY <1>3
            <4>5. changes'[l + 1].within = {announced'[j] : j \in 1 .. k - 1}
                BY <1>7, <1>9, <3>1, <4>1
            <4>6. 0 \in 0 .. Len(observers)
                BY <4>3
            <4>7. QED
                BY <4>1, <4>2, <4>4, <4>5, <4>6
        <3>4. QED
            BY <1>3, <3>2, <3>3
    <2>2. ASSUME NEW j \in 1 .. n + 1, NEW k \in 1 .. n + 1, j < k
          PROVE  announced'[j].change < announced'[k].change
        <3>1. j \in 1 .. n
            BY <1>3, <2>2
        <3>2. announced'[j] = announced[j]
            BY <1>8, <3>1
        <3>3. announced[j].change \in 1 .. l
            BY <1>1, <1>3, <3>1 DEF StackInv, l
        <3>4. CASE k \in 1 .. n
            BY <1>1, <1>3, <1>8, <2>2, <3>1, <3>2, <3>4 DEF StackInv
        <3>5. CASE k = n + 1
            BY <1>3, <1>8, <1>10, <3>2, <3>3, <3>5
        <3>6. QED
            BY <1>3, <3>4, <3>5
    <2>3. QED
        BY <1>2, <1>8, <1>9, <2>1, <2>2, Zenon DEF StackInv
<1>15. WithinInv'
    <2>1. ASSUME NEW k \in 1 .. n + 1, NEW d \in 1 .. l + 1, announced'[k].change < d
          PROVE  \E a \in changes'[d].within :
                     a.change = announced'[k].change /\ a.at <= announced'[k].at
        <3>1. k \in 1 .. n
            <4>1. CASE k = n + 1
                BY <1>3, <1>8, <1>10, <2>1, <4>1
            <4>2. QED
                BY <1>3, <4>1
        <3>2. announced'[k] = announced[k] /\ announced[k].at \in Nat
            BY <1>1, <1>3, <1>8, <3>1, MachineFacts
        <3>3. CASE d \in 1 .. l
            BY <1>1, <1>3, <1>9, <2>1, <3>1, <3>2, <3>3 DEF WithinInv
        <3>4. CASE d = l + 1
            <4>1. announced[k] \in changes'[d].within
                BY <1>7, <1>9, <3>1, <3>4
            <4>2. QED
                BY <3>2, <4>1
        <3>5. QED
            BY <1>3, <3>3, <3>4
    <2>2. QED
        BY <1>8, <1>9, <2>1, Zenon DEF WithinInv
<1>16. ToldInv'
    <2>1. ASSUME NEW i \in DOMAIN observers
          PROVE  /\ observers[i] \in 0 .. l + 1
                 /\ \A c \in 1 .. l + 1 :
                        (\E m \in DOMAIN told[i] : told[i][m] = c)
                            <=> observers[i] < c /\ ~Pending(c, i)'
                 /\ \A m, k \in DOMAIN told[i] : told[i][m] = told[i][k] => m = k
        <3>1. /\ observers[i] \in 0 .. l
              /\ \A c \in 1 .. l :
                     (\E m \in DOMAIN told[i] : told[i][m] = c)
                         <=> observers[i] < c /\ ~Pending(c, i)
              /\ \A m, k \in DOMAIN told[i] : told[i][m] = told[i][k] => m = k
            BY <1>1, Zenon DEF ToldInv, l
        <3>2. \A m \in DOMAIN told[i] : told[i][m] \in 1 .. l
            BY <1>1, MachineFacts DEF l
        <3>3. observers[i] \in 0 .. l + 1 /\ ~(\E m \in DOMAIN told[i] : told[i][m] = l + 1)
            BY <1>3, <3>1, <3>2
        <3>4. ASSUME NEW c \in 1 .. l + 1
              PROVE  (\E m \in DOMAIN told[i] : told[i][m] = c)
                         <=> observers[i] < c /\ ~Pending(c, i)'
            <4>1. CASE c \in 1 .. l
                BY <1>12, <3>1, <4>1, Zenon
            <4>2. CASE c = l + 1
                BY <1>13, <3>3, <4>2, Zenon
            <4>3. QED
                BY <1>3, <4>1, <4>2
        <3>5. QED
            BY <3>1, <3>3, <3>4, Zenon
    <2>2. observers' = observers /\ told' = told /\ Len(changes') = l + 1
        BY <1>2, <1>9
    <2>3. QED
        BY <2>1, <2>2 DEF ToldInv
<1>17. OrderInv'
    <2>1. ASSUME NEW i \in DOMAIN observers, NEW m \in DOMAIN told[i], NEW k \in DOMAIN told[i],
                 told[i][m] < told[i][k]
          PROVE  k < m <=> Before(told[i][k], told[i][m], i)'
        <3>1. told[i][k] \in 1 .. l
            BY <1>1, MachineFacts DEF l
        <3>2. changes'[told[i][k]] = changes[told[i][k]]
            BY <1>9, <3>1
        <3>3. Before(told[i][k], told[i][m], i)' <=> Before(told[i][k], told[i][m], i)
            BY <1>2, <3>2 DEF Before
        <3>4. QED
            BY <1>1, <2>1, <3>3 DEF OrderInv
    <2>2. \A i \in DOMAIN observers : told'[i] = told[i]
        BY <1>2
    <2>3. QED
        BY <1>2, <2>1, Zenon DEF OrderInv
<1>18. QED
    BY <1>11, <1>14, <1>15, <1>16, <1>17 DEF MachineInv

\* Observer to is told of change c; it is the turn of the next one.
Tells(n, c, to) ==
    /\ announced' = [announced EXCEPT ![n].at = to]
    /\ told' = [told EXCEPT ![to] = Append(@, c)]

(* The announcement on top comes to its next observer. *)
LEMMA TellKeeps ==
    ASSUME MachineInv, NEW n, NEW a, NEW to,
           n = Len(announced), announced # <<>>, a = announced[n],
           to = a.at + 1, to <= Len(observers),
           Tells(n, a.change, to),
           UNCHANGED <<currentState, stateTransitions, observers, changes>>
    PROVE  MachineInv'
<1>1. MachineTypeOK /\ StackInv /\ WithinInv /\ ToldInv /\ OrderInv
    BY DEF MachineInv
<1>2. /\ n \in Nat \ {0} /\ DOMAIN announced = 1 .. n /\ n \in 1 .. n
      /\ a \in Announcement /\ a.at \in Nat /\ a.change \in 1 .. Len(changes)
      /\ Len(observers) \in 0 .. MaxObservers /\ DOMAIN observers = 1 .. Len(observers)
      /\ Len(changes) \in 0 .. MaxChanges
      /\ to \in 1 .. MaxObservers /\ to \in DOMAIN observers
    <2>1. n \in Nat /\ DOMAIN announced = 1 .. n /\ announced \in Seq(Announcement)
        BY <1>1, MachineFacts DEF MachineTypeOK
    <2>2. n # 0
        BY <2>1, EmptySeq
    <2>3. n \in DOMAIN announced
        BY <2>1, <2>2
    <2>4. a \in Announcement /\ a.at \in Nat
        BY <1>1, <2>3, MachineFacts
    <2>5. a.change \in 1 .. Len(changes)
        BY <1>1, <2>3 DEF StackInv
    <2>6. /\ Len(observers) \in 0 .. MaxObservers /\ DOMAIN observers = 1 .. Len(observers)
          /\ Len(changes) \in 0 .. MaxChanges
        BY <1>1, MachineFacts
    <2>7. QED
        BY <2>1, <2>2, <2>4, <2>5, <2>6, MachineAssumption
<1>3. /\ announced' \in Seq(Announcement) /\ DOMAIN announced' = 1 .. n /\ Len(announced') = n
      /\ \A k \in 1 .. n : k < n => announced'[k] = announced[k]
      /\ announced'[n].change = a.change /\ announced'[n].at = to
    <2> DEFINE moved == [announced[n] EXCEPT !.at = to]
    <2>1. moved.change = a.change /\ moved.at = to
        BY <1>2 DEF Announcement
    <2>2. moved \in Announcement
        BY <1>2 DEF Announcement
    <2> HIDE DEF moved
    <2>3. announced' = [announced EXCEPT ![n] = moved]
        BY DEF moved, Tells
    <2>4. announced \in Seq(Announcement) /\ n \in 1 .. Len(announced)
        BY <1>1, <1>2 DEF MachineTypeOK
    <2>5. /\ announced' \in Seq(Announcement) /\ Len(announced') = Len(announced)
          /\ \A k \in 1 .. n : announced'[k] = IF k = n THEN moved ELSE announced[k]
        BY <2>2, <2>3, <2>4, ExceptSeq
    <2>6. QED
        BY <1>2, <2>1, <2>5, LenProperties
<1>4. /\ told[to] \in Seq(1 .. Len(changes)) /\ Len(told[to]) \in Nat
      /\ DOMAIN told[to] = 1 .. Len(told[to]) /\ DOMAIN told = DOMAIN observers
    BY <1>1, <1>2, MachineFacts
<1> DEFINE N == Len(told[to])
<1>5. /\ told'[to] \in Seq(1 .. Len(changes)) /\ DOMAIN told'[to] = 1 .. N + 1
      /\ \A m \in 1 .. N : told'[to][m] = told[to][m]
      /\ told'[to][N + 1] = a.change
      /\ \A i \in DOMAIN observers : i # to => told'[i] = told[i]
    <2>1. told'[to] = Append(told[to], a.change)
        BY <1>2, <1>4 DEF Tells
    <2>2. a.change \in 1 .. Len(changes) /\ told[to] \in Seq(1 .. Len(changes))
        BY <1>2, <1>4
    <2>3. /\ Append(told[to], a.change) \in Seq(1 .. Len(changes))
          /\ Len(Append(told[to], a.change)) = N + 1
          /\ \A m \in 1 .. N : Append(told[to], a.change)[m] = told[to][m]
          /\ Append(told[to], a.change)[N + 1] = a.change
        BY <2>2, AppendProperties
    <2>4. DOMAIN told'[to] = 1 .. N + 1
        BY <2>1, <2>3, LenProperties
    <2>5. \A i \in DOMAIN observers : i # to => told'[i] = told[i]
        BY <1>4 DEF Tells
    <2> HIDE DEF N
    <2>6. /\ told'[to] \in Seq(1 .. Len(changes))
          /\ \A m \in 1 .. N : told'[to][m] = told[to][m]
          /\ told'[to][N + 1] = a.change
        BY ONLY <2>1, <2>3, Zenon
    <2>7. QED
        BY ONLY <2>4, <2>5, <2>6, Zenon
<1>6. MachineTypeOK'
    <2>1. told' \in [1 .. Len(observers) -> Seq(1 .. Len(changes))]
        BY <1>1, <1>2, <1>5 DEF MachineTypeOK, Tells
    <2>2. QED
        BY <1>1, <1>3, <2>1 DEF MachineTypeOK
<1> HIDE DEF N
<1>7. N \in Nat /\ DOMAIN told[to] = 1 .. N
    BY <1>4 DEF N
<1>8. ASSUME NEW k \in 1 .. n, k < n
      PROVE  announced[k].change < a.change
    BY <1>1, <1>2, <1>8 DEF StackInv
<1>9. ASSUME NEW c, NEW i \in DOMAIN observers
      PROVE  Pending(c, i)' <=> Pending(c, i) /\ ~(c = a.change /\ i = to)
    <2>1. i \in Nat
        BY <1>2
    <2>2. ASSUME NEW k \in 1 .. n, announced'[k].change = c, announced'[k].at < i
          PROVE  Pending(c, i) /\ ~(c = a.change /\ i = to)
        <3>1. CASE k < n
            <4>1. announced[k].change = c /\ announced[k].at < i
                BY <1>3, <2>2, <3>1
            <4>2. c # a.change
                BY <1>1, <1>2, <1>8, <3>1, <4>1, MachineFacts
            <4>3. QED
                BY <1>2, <4>1, <4>2 DEF Pending
        <3>2. CASE k = n
            <4>1. a.change = c /\ to < i
                BY <1>3, <2>2, <3>2
            <4>2. a.at < i /\ i # to
                BY <1>2, <2>1, <4>1
            <4>3. QED
                BY <1>2, <4>1, <4>2 DEF Pending
        <3>3. QED
            BY <1>2, <3>1, <3>2
    <2>3. ASSUME NEW k \in 1 .. n, announced[k].change = c, announced[k].at < i,
                 ~(c = a.change /\ i = to)
          PROVE  Pending(c, i)'
        <3>1. CASE k < n
            <4>1. announced'[k].change = c /\ announced'[k].at < i
                BY <1>3, <2>3, <3>1
            <4>2. QED
                BY <1>3, <4>1 DEF Pending
        <3>2. CASE k = n
            <4>1. announced'[k].change = c /\ announced'[k].at < i
                BY <1>2, <1>3, <2>1, <2>3, <3>2
            <4>2. QED
                BY <1>3, <4>1 DEF Pending
        <3>3. QED
            BY <1>2, <3>1, <3>2
    <2>4. Pending(c, i)' <=> \E k \in 1 .. n : announced'[k].change = c /\ announced'[k].at < i
        BY <1>3 DEF Pending
    <2>5. Pending(c, i) <=> \E k \in 1 .. n : announced[k].change = c /\ announced[k].at < i
        BY <1>2 DEF Pending
    <2>6. QED
        BY <2>2, <2>3, <2>4, <2>5
<1>10. StackInv'
    <2>1. \A k \in 1 .. n : announced'[k].change = announced[k].change
        BY <1>2, <1>3
    <2>2. ASSUME NEW k \in 1 .. n
          PROVE  /\ announced'[k].change \in 1 .. Len(changes')
                 /\ announced'[k].at \in 0 .. Len(observers')
                 /\ changes'[announced'[k].change].within = {announced'[j] : j \in 1 .. k - 1}
                 /\ \A i \in DOMAIN observers' : observers'[i] < announced'[k].change
        <3>1. /\ announced[k].change \in 1 .. Len(changes)
              /\ announced[k].at \in 0 .. Len(observers)
              /\ changes[announced[k].change].within = {announced[j] : j \in 1 .. k - 1}
              /\ \A i \in DOMAIN observers : observers[i] < announced[k].change
            BY <1>1, <1>2 DEF StackInv
        <3>2. announced'[k].change = announced[k].change
            BY <2>1
        <3>3. announced'[k].at \in 0 .. Len(observers)
            <4>1. CASE k < n
                BY <1>3, <3>1, <4>1
            <4>2. CASE k = n
                BY <1>2, <1>3, <4>2
            <4>3. QED
                BY <1>2, <4>1, <4>2
        <3>4. {announced'[j] : j \in 1 .. k - 1} = {announced[j] : j \in 1 .. k - 1}
            <4>1. \A j \in 1 .. k - 1 : j \in 1 .. n /\ j < n
                BY <1>2
            <4>2. \A j \in 1 .. k - 1 : announced'[j] = announced[j]
                BY <1>3, <4>1
            <4>3. QED
                BY <4>2
        <3>5. QED
            BY <3>1, <3>2, <3>3, <3>4
    <2>3. \A j, k \in 1 .. n : j < k => announced'[j].change < announced'[k].change
        BY <1>1, <1>2, <2>1 DEF StackInv
    <2>4. QED
        BY <1>3, <2>2, <2>3, Zenon DEF StackInv
<1>11. WithinInv'
    <2>1. ASSUME NEW k \in 1 .. n, NEW d \in DOMAIN changes, announced'[k].change < d
          PROVE  \E b \in changes[d].within :
                     b.change = announced'[k].change /\ b.at <= announced'[k].at
        <3>1. announced'[k].change = announced[k].change
            BY <1>2, <1>3
        <3>2. PICK b \in changes[d].within :
                  b.change = announced[k].change /\ b.at <= announced[k].at
            BY <1>1, <1>2, <2>1, <3>1 DEF WithinInv
        <3>3. CASE k < n
            BY <1>3, <3>2, <3>3
        <3>4. CASE k = n
            <4>1. b.change = a.change /\ b.at <= a.at
                BY <3>2, <3>4
            <4>2. b.at \in Nat
                BY <1>1, <3>2, MachineFacts
            <4>3. b.at <= to
                BY <1>2, <4>1, <4>2
            <4>4. QED
                BY <1>3, <3>4, <4>1, <4>3
        <3>5. QED
            BY <1>2, <3>3, <3>4
    <2>2. changes' = changes
        OBVIOUS
    <2>3. QED
        BY <1>3, <2>1, <2>2 DEF WithinInv
<1>12. Pending(a.change, to)
    <2>1. a.at < to
        BY <1>2
    <2>2. QED
        BY <1>2, <2>1 DEF Pending
<1>13. \A m \in 1 .. N : told[to][m] # a.change
    BY <1>1, <1>2, <1>7, <1>12 DEF ToldInv
<1>14. \A m \in 1 .. N + 1 : m \in 1 .. N \/ m = N + 1
    BY <1>7
<1>15. 1 .. N \subseteq 1 .. N + 1 /\ N + 1 \in 1 .. N + 1
    BY <1>7
<1>16. ToldInv'
    <2>1. ASSUME NEW i \in DOMAIN observers, i = to, NEW c \in 1 .. Len(changes)
          PROVE  (\E m \in DOMAIN told'[i] : told'[i][m] = c)
                     <=> observers[i] < c /\ ~Pending(c, i)'
        <3>1. CASE c = a.change
            <4>1. observers[i] < c
                BY <1>1, <1>2, <2>1, <3>1 DEF StackInv
            <4>2. ~Pending(c, i)'
                BY <1>9, <2>1, <3>1
            <4>3. \E m \in DOMAIN told'[i] : told'[i][m] = c
                BY <1>5, <1>15, <2>1, <3>1
            <4>4. QED
                BY <4>1, <4>2, <4>3
        <3>2. CASE c # a.change
            <4>1. Pending(c, i)' <=> Pending(c, i)
                BY <1>9, <3>2
            <4>2. (\E m \in DOMAIN told[i] : told[i][m] = c)
                      <=> observers[i] < c /\ ~Pending(c, i)
                BY <1>1, <1>2, Zenon DEF ToldInv
            <4>3. (\E m \in 1 .. N + 1 : told'[i][m] = c)
                      <=> (\E m \in 1 .. N : told[i][m] = c)
                BY <1>5, <1>14, <1>15, <2>1, <3>2
            <4>4. DOMAIN told'[i] = 1 .. N + 1 /\ DOMAIN told[i] = 1 .. N
                BY <1>5, <1>7, <2>1
            <4>5. QED
                BY <4>1, <4>2, <4>3, <4>4
        <3>3. QED
            BY <3>1, <3>2
    <2>2. ASSUME NEW m \in DOMAIN told'[to], NEW k \in DOMAIN told'[to], told'[to][m] = told'[to][k]
          PROVE  m = k
        <3>1. \A x, y \in 1 .. N : told[to][x] = told[to][y] => x = y
            BY <1>1, <1>2, <1>7, Zenon DEF ToldInv
        <3>2. m \in 1 .. N + 1 /\ k \in 1 .. N + 1
            BY ONLY <1>5, <2>2, Zenon
        <3>3. \A x \in 1 .. N : told'[to][x] = told[to][x] /\ told'[to][x] # a.change
            BY ONLY <1>5, <1>13, Zenon
        <3>4. CASE m \in 1 .. N /\ k \in 1 .. N
            BY ONLY <2>2, <3>1, <3>3, <3>4, Zenon
        <3>5. CASE m = N + 1 \/ k = N + 1
            BY ONLY <1>5, <1>14, <2>2, <3>2, <3>3, <3>5, Zenon
        <3>6. QED
            BY ONLY <1>14, <3>2, <3>4, <3>5, Zenon
    <2>3. ASSUME NEW i \in DOMAIN observers
          PROVE  /\ observers[i] \in 0 .. Len(changes)
                 /\ \A c \in 1 .. Len(changes) :
                        (\E m \in DOMAIN told'[i] : told'[i][m] = c)
                            <=> observers[i] < c /\ ~Pending(c, i)'
                 /\ \A m, k \in DOMAIN told'[i] : told'[i][m] = told'[i][k] => m = k
        <3>1. /\ observers[i] \in 0 .. Len(changes)
              /\ \A c \in 1 .. Len(changes) :
                     (\E m \in DOMAIN told[i] : told[i][m] = c)
                         <=> observers[i] < c /\ ~Pending(c, i)
              /\ \A m, k \in DOMAIN told[i] : told[i][m] = told[i][k] => m = k
            BY <1>1, Zenon DEF ToldInv
        <3>2. CASE i # to
            BY <1>5, <1>9, <3>1, <3>2
        <3>3. CASE i = to
            <4>1. \A m, k \in DOMAIN told'[i] : told'[i][m] = told'[i][k] => m = k
                BY <2>2, <3>3
            <4>2. QED
                BY <2>1, <3>1, <3>3, <4>1
        <3>4. QED
            BY <3>2, <3>3
    <2>4. observers' = observers /\ changes' = changes
        OBVIOUS
    <2>5. QED
        BY <2>3, <2>4 DEF ToldInv
<1>17. OrderInv'
    <2>1. \A late, early, i : Before(late, early, i)' <=> Before(late, early, i)
        BY DEF Before
    <2>2. ASSUME NEW m \in 1 .. N + 1, NEW k \in 1 .. N + 1, told'[to][m] < told'[to][k]
          PROVE  k < m <=> Before(told'[to][k], told'[to][m], to)
        <3>1. CASE m \in 1 .. N /\ k \in 1 .. N
            <4>1. told'[to][m] = told[to][m] /\ told'[to][k] = told[to][k]
                BY ONLY <1>5, <3>1, Zenon
            <4>2. told[to][m] < told[to][k]
                BY ONLY <2>2, <4>1
            <4>3. k < m <=> Before(told[to][k], told[to][m], to)
                BY <1>1, <1>2, <1>7, <3>1, <4>2, Zenon DEF OrderInv
            <4>4. QED
                BY ONLY <4>1, <4>3
        <3>2. CASE m \in 1 .. N /\ k = N + 1
            <4>1. told'[to][m] = told[to][m] /\ told'[to][k] = a.change /\ ~(k < m)
                BY <1>5, <1>7, <3>2
            <4>2. ~Pending(told[to][m], to)
                BY <1>1, <1>2, <1>7, <3>2, MachineFacts DEF ToldInv
            <4>3. changes[a.change].within = {announced[j] : j \in 1 .. n - 1}
                BY <1>1, <1>2 DEF StackInv
            <4>4. ASSUME NEW b \in changes[a.change].within, b.change = told[to][m], b.at < to
                  PROVE  FALSE
                <5>1. PICK j \in 1 .. n - 1 : b = announced[j]
                    BY <4>3
                <5>2. j \in DOMAIN announced
                    BY <1>2
                <5>3. Pending(told[to][m], to)
                    BY <4>4, <5>1, <5>2 DEF Pending
                <5>4. QED
                    BY <4>2, <5>3
            <4>5. ~Before(a.change, told[to][m], to)
                BY <4>4 DEF Before
            <4>6. QED
                BY <4>1, <4>5
        <3>3. CASE m = N + 1 /\ k \in 1 .. N
            <4>1. told'[to][m] = a.change /\ told'[to][k] = told[to][k] /\ k < m
                BY <1>5, <1>7, <3>3
            <4>2. told[to][k] \in DOMAIN changes /\ a.change < told[to][k]
                BY <1>1, <1>2, <1>7, <2>2, <3>3, <4>1, MachineFacts
            <4>3. PICK b \in changes[told[to][k]].within : b.change = a.change /\ b.at <= a.at
                BY <1>1, <1>2, <4>2 DEF WithinInv
            <4>4. b.at \in Nat
                BY <1>1, <4>2, <4>3, MachineFacts
            <4>5. b.at < to
                BY <1>2, <4>3, <4>4
            <4>6. QED
                BY <4>1, <4>3, <4>5 DEF Before
        <3>4. CASE m = N + 1 /\ k = N + 1
            BY <1>2, <1>5, <2>2, <3>4
        <3>5. QED
            BY <1>14, <3>1, <3>2, <3>3, <3>4
    <2>3. ASSUME NEW i \in DOMAIN observers, NEW m \in DOMAIN told'[i], NEW k \in DOMAIN told'[i],
                 told'[i][m] < told'[i][k]
          PROVE  k < m <=> Before(told'[i][k], told'[i][m], i)
        <3>1. CASE i # to
            BY <1>1, <1>5, <2>3, <3>1 DEF OrderInv
        <3>2. CASE i = to
            BY <1>5, <2>2, <2>3, <3>2
        <3>3. QED
            BY <3>1, <3>2
    <2>4. observers' = observers
        OBVIOUS
    <2>5. QED
        BY <2>1, <2>3, <2>4 DEF OrderInv
<1>18. QED
    BY <1>6, <1>10, <1>11, <1>16, <1>17 DEF MachineInv

(* The announcement on top has come to its last observer. *)
LEMMA PopKeeps ==
    ASSUME MachineInv, NEW n,
           n = Len(announced), announced # <<>>,
           ~(announced[n].at + 1 <= Len(observers)),
           announced' = Front(announced),
           UNCHANGED <<currentState, stateTransitions, observers, changes, told>>
    PROVE  MachineInv'
<1>1. MachineTypeOK /\ StackInv /\ WithinInv /\ ToldInv /\ OrderInv
    BY DEF MachineInv
<1>2. /\ n \in Nat \ {0} /\ DOMAIN announced = 1 .. n /\ n \in 1 .. n
      /\ announced \in Seq(Announcement)
      /\ DOMAIN observers = 1 .. Len(observers) /\ Len(observers) \in Nat
    <2>1. n \in Nat /\ DOMAIN announced = 1 .. n /\ announced \in Seq(Announcement)
        BY <1>1, MachineFacts DEF MachineTypeOK
    <2>2. n # 0
        BY <2>1, EmptySeq
    <2>3. DOMAIN observers = 1 .. Len(observers) /\ Len(observers) \in Nat
        BY <1>1, MachineFacts
    <2>4. QED
        BY <2>1, <2>2, <2>3
<1>3. /\ announced' \in Seq(Announcement) /\ DOMAIN announced' = 1 .. n - 1
      /\ \A k \in 1 .. n - 1 : announced'[k] = announced[k]
    <2>1. announced' = SubSeq(announced, 1, n - 1)
        BY DEF Front
    <2>2. \A k \in 1 .. n - 1 : announced[k] \in Announcement
        BY <1>2, ElementOfSeq
    <2>3. /\ announced' \in Seq(Announcement) /\ Len(announced') = n - 1
          /\ \A k \in 1 .. n - 1 : announced'[k] = announced[1 + k - 1]
        BY <1>2, <2>1, <2>2, SubSeqProperties
    <2>4. DOMAIN announced' = 1 .. n - 1
        BY <2>3, LenProperties
    <2>5. \A k \in 1 .. n - 1 : 1 + k - 1 = k
        BY <1>2
    <2>6. QED
        BY <2>3, <2>4, <2>5
<1>4. 1 .. n - 1 \subseteq 1 .. n /\ \A k \in 1 .. n : k \in 1 .. n - 1 \/ k = n
    BY <1>2
<1>5. MachineTypeOK'
    BY <1>1, <1>3 DEF MachineTypeOK
<1>6. \A i \in DOMAIN observers : ~(announced[n].at < i)
    BY <1>1, <1>2, MachineFacts
<1>7. ASSUME NEW c, NEW i \in DOMAIN observers
      PROVE  Pending(c, i)' <=> Pending(c, i)
    BY <1>2, <1>3, <1>4, <1>6 DEF Pending
<1>8. StackInv'
    <2>1. ASSUME NEW k \in 1 .. n - 1
          PROVE  /\ announced'[k].change \in 1 .. Len(changes')
                 /\ announced'[k].at \in 0 .. Len(observers')
                 /\ changes'[announced'[k].change].within = {announced'[j] : j \in 1 .. k - 1}
                 /\ \A i \in DOMAIN observers' : observers'[i] < announced'[k].change
        <3>1. /\ announced[k].change \in 1 .. Len(changes)
              /\ announced[k].at \in 0 .. Len(observers)
              /\ changes[announced[k].change].within = {announced[j] : j \in 1 .. k - 1}
              /\ \A i \in DOMAIN observers : observers[i] < announced[k].change
            BY <1>1, <1>2, <1>4 DEF StackInv
        <3>2. announced'[k] = announced[k]
            BY <1>3
        <3>3. {announced'[j] : j \in 1 .. k - 1} = {announced[j] : j \in 1 .. k - 1}
            <4>1. \A j \in 1 .. k - 1 : j \in 1 .. n - 1
                BY <1>2
            <4>2. \A j \in 1 .. k - 1 : announced'[j] = announced[j]
                BY <1>3, <4>1
            <4>3. QED
                BY <4>2
        <3>4. QED
            BY <3>1, <3>2, <3>3
    <2>2. \A j, k \in 1 .. n - 1 : j < k => announced'[j].change < announced'[k].change
        BY <1>1, <1>2, <1>3, <1>4 DEF StackInv
    <2>3. QED
        BY <1>3, <2>1, <2>2, Zenon DEF StackInv
<1>9. WithinInv'
    BY <1>1, <1>2, <1>3, <1>4 DEF WithinInv
<1>10. ToldInv'
    <2>1. ASSUME NEW i \in DOMAIN observers
          PROVE  /\ observers[i] \in 0 .. Len(changes)
                 /\ \A c \in 1 .. Len(changes) :
                        (\E m \in DOMAIN told[i] : told[i][m] = c)
                            <=> observers[i] < c /\ ~Pending(c, i)'
                 /\ \A m, k \in DOMAIN told[i] : told[i][m] = told[i][k] => m = k
        BY <1>1, <1>7, Zenon DEF ToldInv
    <2>2. observers' = observers /\ changes' = changes /\ told' = told
        OBVIOUS
    <2>3. QED
        BY <2>1, <2>2 DEF ToldInv
<1>11. OrderInv'
    BY <1>1 DEF OrderInv, Before
<1>12. QED
    BY <1>5, <1>8, <1>9, <1>10, <1>11 DEF MachineInv

(* Every step keeps the invariant. *)
LEMMA MachineNextKeeps == MachineInv /\ [MachineNext]_machineVars => MachineInv'
<1> SUFFICES ASSUME MachineInv, [MachineNext]_machineVars PROVE MachineInv'
    OBVIOUS
<1>1. MachineTypeOK
    BY DEF MachineInv
<1>2. CASE UNCHANGED machineVars
    BY <1>1, <1>2, UnchangedKeeps DEF machineVars, MachineTypeOK
<1>3. ASSUME NEW from \in State, NEW to \in State, RegisterStateTransition(from, to)
      PROVE  MachineInv'
    BY <1>1, <1>3, UnchangedKeeps DEF RegisterStateTransition, MachineTypeOK
<1>4. CASE RegisterObserver
    BY <1>4, RegisterKeeps
<1>5. ASSUME NEW new \in State, ChangeToState(new)
      PROVE  MachineInv'
    BY <1>5, ChangeKeeps
<1>6. CASE NotifyNext
    <2> DEFINE n == Len(announced)
               a == announced[n]
    <2>1. /\ announced # <<>> /\ Last(announced) = a
          /\ UNCHANGED <<currentState, stateTransitions, observers, changes>>
        BY <1>6 DEF NotifyNext, Last
    <2>2. CASE a.at + 1 <= Len(observers)
        <3>1. /\ announced' = [announced EXCEPT ![n].at = a.at + 1]
              /\ told' = [told EXCEPT ![a.at + 1] = Append(@, a.change)]
            BY <1>6, <2>1, <2>2 DEF NotifyNext, Audience
        <3> HIDE DEF n, a
        <3>2. QED
            BY <2>1, <2>2, <3>1, TellKeeps DEF n, a, Tells
    <2>3. CASE ~(a.at + 1 <= Len(observers))
        <3>1. announced' = Front(announced) /\ told' = told
            BY <1>6, <2>1, <2>3 DEF NotifyNext, Audience
        <3>2. QED
            BY <2>1, <2>3, <3>1, PopKeeps
    <2>4. QED
        BY <2>2, <2>3
<1>7. QED
    BY <1>2, <1>3, <1>4, <1>5, <1>6 DEF MachineNext

LEMMA MachineInvariance == MachineSpec => []MachineInv
<1>1. MachineInit => MachineInv
    BY MachineInitInv
<1>2. MachineInv /\ [MachineNext]_machineVars => MachineInv'
    BY MachineNextKeeps
<1>3. QED
    BY <1>1, <1>2, PTL DEF MachineSpec

-----------------------------------------------------------------------------
(* Type correctness of StateMachine. *)
THEOREM MachineTypeCorrect == MachineSpec => []MachineTypeOK
<1>1. MachineInv => MachineTypeOK
    BY DEF MachineInv
<1>2. QED
    BY <1>1, MachineInvariance, PTL

(* Outside of all announcements every observer has been told of every change
   since its registration, of each one once. *)
THEOREM MachineTellsEachChangeOnce == MachineSpec => []EachChangeToldOnce
<1>1. MachineInv => EachChangeToldOnce
    <2> SUFFICES ASSUME MachineInv, announced = <<>>, NEW i \in DOMAIN observers
                 PROVE  /\ Len(told[i]) = Len(changes) - observers[i]
                        /\ Range(told[i]) = observers[i] + 1 .. Len(changes)
        BY DEF EachChangeToldOnce
    <2> DEFINE since == observers[i] + 1 .. Len(changes)
    <2>1. MachineTypeOK /\ ToldInv
        BY DEF MachineInv
    <2>2. /\ told[i] \in Seq(1 .. Len(changes)) /\ Len(told[i]) \in Nat
          /\ DOMAIN told[i] = 1 .. Len(told[i])
          /\ \A m \in DOMAIN told[i] : told[i][m] \in 1 .. Len(changes)
          /\ Len(changes) \in Nat
        BY <2>1, MachineFacts
    <2>3. /\ observers[i] \in 0 .. Len(changes)
          /\ \A c \in 1 .. Len(changes) :
                 (\E m \in DOMAIN told[i] : told[i][m] = c) <=> observers[i] < c
          /\ \A m, k \in DOMAIN told[i] : told[i][m] = told[i][k] => m = k
        <3>1. \A c : ~Pending(c, i)
            BY DEF Pending
        <3>2. QED
            BY <2>1, <3>1, Zenon DEF ToldInv
    <2>4. Range(told[i]) = {told[i][m] : m \in DOMAIN told[i]}
        BY <2>2, RangeEquality
    <2>5. Range(told[i]) = since
        <3>1. \A c : c \in since <=> c \in 1 .. Len(changes) /\ observers[i] < c
            BY <2>2, <2>3
        <3>2. \A c : c \in Range(told[i]) <=> \E m \in DOMAIN told[i] : told[i][m] = c
            BY <2>4
        <3> HIDE DEF since
        <3>3. ASSUME NEW c \in Range(told[i]) PROVE c \in since
            <4>1. PICK m \in DOMAIN told[i] : told[i][m] = c
                BY <3>2
            <4>2. c \in 1 .. Len(changes)
                BY <2>2, <4>1
            <4>3. observers[i] < c
                BY <2>3, <4>1, <4>2
            <4>4. QED
                BY <3>1, <4>2, <4>3
        <3>4. ASSUME NEW c \in since PROVE c \in Range(told[i])
            BY <2>3, <3>1, <3>2
        <3>5. QED
            BY <3>3, <3>4
    <2>6. told[i] \in Bijection(1 .. Len(told[i]), since)
        <3>1. told[i] \in [1 .. Len(told[i]) -> since]
            <4>1. \A m \in 1 .. Len(told[i]) : told[i][m] \in since
                BY <2>2, <2>4, <2>5
            <4>2. told[i] = [m \in 1 .. Len(told[i]) |-> told[i][m]]
                BY <2>2, SeqDef
            <4> HIDE DEF since
            <4>3. QED
                BY <4>1, <4>2
        <3>2. \A c \in since : \E m \in 1 .. Len(told[i]) : told[i][m] = c
            BY <2>2, <2>4, <2>5
        <3> HIDE DEF since
        <3>3. QED
            BY <2>2, <2>3, <3>1, <3>2 DEF Bijection, Injection, IsInjective, Surjection
    <2>7. IsFiniteSet(1 .. Len(told[i])) /\ Cardinality(1 .. Len(told[i])) = Len(told[i])
        <3>1. 1 \in Int /\ Len(told[i]) \in Int
            BY <2>2
        <3>2. /\ IsFiniteSet(1 .. Len(told[i]))
              /\ Cardinality(1 .. Len(told[i])) =
                     IF 1 > Len(told[i]) THEN 0 ELSE Len(told[i]) - 1 + 1
            BY <3>1, FS_Interval
        <3>3. QED
            BY <2>2, <3>2
    <2>8. Cardinality(since) = Len(changes) - observers[i]
        BY <2>2, <2>3, FS_Interval
    <2>9. Cardinality(since) = Cardinality(1 .. Len(told[i]))
        <3> HIDE DEF since
        <3>1. ExistsBijection(1 .. Len(told[i]), since)
            BY <2>6 DEF ExistsBijection
        <3>2. QED
            BY <2>7, <3>1, FS_Bijection
    <2>10. QED
        BY <2>5, <2>7, <2>8, <2>9
<1>2. QED
    BY <1>1, MachineInvariance, PTL

(* The changes are told in their order, but for those made inside. *)
THEOREM MachineTellsInCallOrder == MachineSpec => []ToldInCallOrder
<1>1. MachineInv => ToldInCallOrder
    <2> SUFFICES ASSUME MachineInv PROVE ToldInCallOrder
        OBVIOUS
    <2>1. MachineTypeOK /\ OrderInv
        BY DEF MachineInv
    <2>2. DOMAIN told = DOMAIN observers
        BY <2>1, MachineFacts
    <2>3. QED
        BY <2>1, <2>2, Zenon DEF ToldInCallOrder, OrderInv, Before
<1>2. QED
    BY <1>1, MachineInvariance, PTL

=============================================================================
