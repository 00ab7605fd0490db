------------------------ MODULE StatefulObjectProofs ------------------------
(***************************************************************************)
(* Proofs about StatefulObject and the EventLogger under it, for every     *)
(* number of tasks and objects, every Sets and every LogCapacity.  What    *)
(* the ring does is taken from CircularBufferProofs.                       *)
(***************************************************************************)
EXTENDS StatefulObject, SequenceTheorems, FiniteSetTheorems, TLAPS

ring == INSTANCE CircularBufferProofs
            WITH BufferSize <- LogCapacity, Item <- Line, NoItem <- NoLine,
                 MovedFrom <- LostLine, popped <- NoLine

-----------------------------------------------------------------------------
\* A caller's line is a line, and the static buffer holds it until it is pushed.
ArgInv ==
    \A t \in Thread :
        /\ pc[t] \in {"lock", "format", "push"} => arg[t] \in Line
        /\ pc[t] = "push" => buffer = arg[t]

\* Who is inside holds the mutex.
LockInv == \A t \in Thread : pc[t] \in {"format", "push", "unlock", "print"} => mtx = t

\* Until the log is full tail_ does not move and head_ counts the lines, so that
\* no mixture of old and new indices looks like a full buffer.
FillInv ==
    size_ < LogCapacity =>
        /\ tail_ = 0 /\ stale.tail = 0
        /\ head_ = size_ /\ stale.head \in 0 .. size_
        /\ \A t \in Thread : seen[t].head \in -1 .. size_ /\ seen[t].tail \in {-1, 0}

PrintInv == \A t \in Thread : pc[t] = "print" => Len(printed[t]) <= size_

LogInv ==
    /\ LoggerTypeOK
    /\ ring!Inv
    /\ ArgInv
    /\ LockInv
    /\ FillInv
    /\ PrintInv
    /\ LogIsRecentHistory
    /\ PrintsFullLog

\* The part of TypeOK that is about the objects.
ObjectInv ==
    /\ state \in [Object -> State]
    /\ call \in [Thread -> {NoCall} \cup
                     [object : Object, newState : State,
                      step : {"write", "log", "logging"}]]
    /\ changes \in [Object -> Seq(State)]

-----------------------------------------------------------------------------
(* What the ring's invariant says of the log. *)
LEMMA RingFacts ==
    ASSUME ring!Inv
    PROVE  /\ logs!TypeOK
           /\ size_ \in 0 .. LogCapacity /\ head_ \in logs!Slots /\ tail_ \in logs!Slots
           /\ logs!Contents \in Seq(Line) /\ Len(logs!Contents) = size_
           /\ \A i \in 1 .. size_ : logs!Contents[i] = logs!At(i - 1)
<1>1. ring!TypeOK
    BY DEF ring!Inv
<1>2. /\ ring!Contents \in Seq(Line) /\ Len(ring!Contents) = size_
      /\ \A i \in 1 .. size_ : ring!Contents[i] = ring!At(i - 1)
    BY ring!ContentsIsSeq, LoggerAssumption
<1>3. \A i : ring!At(i) = logs!At(i)
    BY DEF ring!At, logs!At, ring!ActualIndex, logs!ActualIndex
<1>4. ring!Contents = logs!Contents
    BY <1>3 DEF ring!Contents, logs!Contents
<1>5. QED
    BY <1>1, <1>2, <1>3, <1>4
    DEF ring!TypeOK, logs!TypeOK, ring!Slots, logs!Slots, ring!Slot, logs!Slot

(* A push appends to the log, and drops the oldest line of a full one. *)
LEMMA RingPush ==
    ASSUME ring!Inv, NEW line \in Line, logs!Push(line)
    PROVE  /\ ring!Inv'
           /\ logs!Contents' = IF Len(logs!Contents) < LogCapacity
                               THEN Append(logs!Contents, line)
                               ELSE Tail(Append(logs!Contents, line))
           /\ size_' = IF size_ < LogCapacity THEN size_ + 1 ELSE size_
           /\ size_ < LogCapacity => tail_' = tail_
           /\ head_' = IF head_ = LogCapacity THEN 0 ELSE head_ + 1
<1>1. ring!Push(line)
    BY DEF logs!Push, ring!Push, logs!TailAfterPush, ring!TailAfterPush, logs!SizeAfterPush,
           ring!SizeAfterPush, logs!IsMax, ring!IsMax, logs!NextIndex, ring!NextIndex
<1>2. ring!Inv' /\ ring!Contents' = ring!Fifo!Arrived(line)
    BY <1>1, ring!PushInv, ring!PushRefines, LoggerAssumption
<1>3. size_ \in 0 .. LogCapacity /\ head_ \in ring!Slots
    BY RingFacts DEF logs!Slots, ring!Slots
<1>4. size_ < LogCapacity => tail_' = tail_ /\ size_' = size_ + 1
    BY <1>1, ring!PushWindow, LoggerAssumption
<1>5. size_ = LogCapacity => size_' = size_
    BY <1>1, ring!FullPushWindow, LoggerAssumption
<1>6. head_' = IF head_ = LogCapacity THEN 0 ELSE head_ + 1
    BY <1>1, <1>3, ring!NextIndexValue, LoggerAssumption DEF ring!Push
<1>7. ring!Contents = logs!Contents /\ ring!Contents' = logs!Contents'
    BY DEF ring!Contents, logs!Contents, ring!At, logs!At, ring!ActualIndex, logs!ActualIndex
<1>8. QED
    BY <1>2, <1>3, <1>4, <1>5, <1>6, <1>7, LoggerAssumption DEF ring!Fifo!Arrived

(* A step that leaves the ring alone leaves what is said of it. *)
LEMMA RingKept ==
    ASSUME ring!Inv, UNCHANGED ringVars
    PROVE  ring!Inv' /\ logs!Contents' = logs!Contents
BY DEF ringVars, ring!Inv, ring!TypeOK, ring!SizeMatchesIndices, ring!WindowIsLive, ring!At,
       ring!ActualIndex, logs!Contents, logs!At, logs!ActualIndex

(* The ring's type invariant is the logger's part of it, after a step too. *)
LEMMA RingTypes == (ring!Inv => logs!TypeOK) /\ (ring!Inv' => logs!TypeOK')
BY DEF ring!Inv, ring!TypeOK, logs!TypeOK, ring!Slots, logs!Slots, ring!Slot, logs!Slot

-----------------------------------------------------------------------------
\* The last LogCapacity entries of a history: what LogIsRecentHistory compares with.
Kept(h) == IF Len(h) < LogCapacity THEN Len(h) ELSE LogCapacity
Recent(h) == SubSeq(h, Len(h) - Kept(h) + 1, Len(h))

(* The elements of the recent history. *)
LEMMA RecentElements ==
    ASSUME NEW h \in Seq(Line)
    PROVE  /\ Kept(h) \in 0 .. Len(h) /\ Kept(h) \in 0 .. LogCapacity
           /\ Recent(h) \in Seq(Line)
           /\ Len(Recent(h)) = Kept(h)
           /\ \A i \in 1 .. Kept(h) : Recent(h)[i] = h[Len(h) - Kept(h) + i]
<1>1. Len(h) \in Nat /\ Kept(h) \in 0 .. Len(h) /\ Kept(h) \in 0 .. LogCapacity
    BY LoggerAssumption DEF Kept
<1> DEFINE m == Len(h) - Kept(h) + 1
<1>2. m \in Int /\ Len(h) \in Int /\ \A i \in m .. Len(h) : h[i] \in Line
    BY <1>1, ElementOfSeq
<1>3. /\ SubSeq(h, m, Len(h)) \in Seq(Line)
      /\ Len(SubSeq(h, m, Len(h))) = IF m <= Len(h) THEN Len(h) - m + 1 ELSE 0
      /\ \A i \in 1 .. Len(h) - m + 1 : SubSeq(h, m, Len(h))[i] = h[m + i - 1]
    BY <1>2, SubSeqProperties
<1>4. Len(h) - m + 1 = Kept(h) /\ \A i \in 1 .. Kept(h) : m + i - 1 = Len(h) - Kept(h) + i
    BY <1>1
<1>5. Recent(h) = SubSeq(h, m, Len(h))
    BY DEF Recent
<1> HIDE DEF m
<1>6. QED
    BY <1>1, <1>2, <1>3, <1>4, <1>5

(* The recent history moves on as the bounded queue does. *)
LEMMA RecentAppend ==
    ASSUME NEW h \in Seq(Line), NEW e \in Line
    PROVE  Recent(Append(h, e)) =
               IF Len(Recent(h)) < LogCapacity THEN Append(Recent(h), e)
               ELSE Tail(Append(Recent(h), e))
<1> DEFINE g == Append(h, e)
           r == Append(Recent(h), e)
           k == Kept(h)
<1>1. /\ g \in Seq(Line) /\ Len(g) = Len(h) + 1 /\ Len(h) \in Nat
      /\ g[Len(h) + 1] = e /\ \A i \in 1 .. Len(h) : g[i] = h[i]
    BY AppendProperties
<1>2. /\ k \in 0 .. Len(h) /\ k \in 0 .. LogCapacity
      /\ Len(Recent(h)) = k /\ Recent(h) \in Seq(Line)
      /\ \A i \in 1 .. k : Recent(h)[i] = h[Len(h) - k + i]
    BY RecentElements
<1>3. /\ r \in Seq(Line) /\ r # <<>> /\ Len(r) = k + 1
      /\ r[k + 1] = e /\ \A i \in 1 .. k : r[i] = Recent(h)[i]
    BY <1>2, AppendProperties
<1>4. \A i \in 1 .. k + 1 : r[i] = g[Len(h) - k + i]
    <2>1. SUFFICES ASSUME NEW i \in 1 .. k + 1 PROVE r[i] = g[Len(h) - k + i]
        OBVIOUS
    <2>2. CASE i = k + 1
        BY <1>1, <1>2, <1>3, <2>2
    <2>3. CASE i \in 1 .. k
        BY <1>1, <1>2, <1>3, <2>3
    <2>4. QED
        BY <1>2, <2>2, <2>3
<1>5. /\ Recent(g) \in Seq(Line) /\ Len(Recent(g)) = Kept(g)
      /\ \A i \in 1 .. Kept(g) : Recent(g)[i] = g[Len(g) - Kept(g) + i]
    BY <1>1, RecentElements
<1>6. /\ k < LogCapacity => Kept(g) = k + 1
      /\ k = LogCapacity => Kept(g) = k
    BY <1>1, <1>2, LoggerAssumption DEF Kept
<1> HIDE DEF g, r, k
<1>7. CASE k < LogCapacity
    <2>1. Len(Recent(g)) = k + 1 /\ \A i \in 1 .. k + 1 : Recent(g)[i] = r[i]
        <3>1. Kept(g) = k + 1 /\ Len(g) - Kept(g) = Len(h) - k
            BY <1>1, <1>2, <1>6, <1>7
        <3>2. QED
            BY <1>4, <1>5, <3>1
    <2>2. Recent(g) = r
        BY <1>3, <1>5, <2>1, SeqEqual
    <2>3. QED
        BY <1>2, <1>7, <2>2 DEF g, r
<1>8. CASE k = LogCapacity
    <2>1. Tail(r) \in Seq(Line) /\ Len(Tail(r)) = k /\ \A i \in 1 .. k : Tail(r)[i] = r[i + 1]
        BY <1>2, <1>3, HeadTailProperties
    <2>2. \A i \in 1 .. k : Recent(g)[i] = Tail(r)[i]
        <3>1. SUFFICES ASSUME NEW i \in 1 .. k PROVE Recent(g)[i] = Tail(r)[i]
            OBVIOUS
        <3>2. i + 1 \in 1 .. k + 1 /\ Len(h) - k + (i + 1) = Len(g) - k + i
            BY <1>1, <1>2
        <3>3. Kept(g) = k /\ Recent(g)[i] = g[Len(g) - k + i]
            BY <1>5, <1>6, <1>8
        <3>4. r[i + 1] = g[Len(g) - k + i]
            BY <1>4, <3>2
        <3>5. QED
            BY <2>1, <3>3, <3>4
    <2>3. Recent(g) = Tail(r)
        BY <1>5, <1>6, <1>8, <2>1, <2>2, SeqEqual
    <2>4. QED
        <3>1. ~(Len(Recent(h)) < LogCapacity)
            BY <1>2, <1>8, LoggerAssumption
        <3>2. QED
            BY <2>3, <3>1 DEF g, r
<1>9. QED
    <2>1. k < LogCapacity \/ k = LogCapacity
        BY <1>2, LoggerAssumption
    <2>2. QED
        BY <1>7, <1>8, <2>1

(* LogIsRecentHistory in those terms. *)
LEMMA RecentHistory == LogIsRecentHistory <=> logs!Contents = Recent(hist)
BY DEF LogIsRecentHistory, Recent, Kept

-----------------------------------------------------------------------------
(* Nothing has been logged at first. *)
LEMMA LoggerInitInv == LoggerInit => LogInv
<1> SUFFICES ASSUME LoggerInit PROVE LogInv
    OBVIOUS
<1>1. ring!Inv
    <2>1. ring!Init
        BY DEF LoggerInit, logs!Init, ring!Init, logs!Slots, ring!Slots
    <2>2. QED
        BY <2>1, ring!InitInv, LoggerAssumption
<1>2. LoggerTypeOK
    BY <1>1, RingFacts, LoggerAssumption
    DEF LoggerInit, LoggerTypeOK, logs!Init, logs!Slots, Unseen, Unread
<1>3. ArgInv /\ LockInv /\ PrintInv /\ PrintsFullLog
    BY DEF LoggerInit, ArgInv, LockInv, PrintInv, PrintsFullLog
<1>4. FillInv
    BY DEF LoggerInit, logs!Init, FillInv, Unseen, Unread
<1>5. LogIsRecentHistory
    <2>1. logs!Contents \in Seq(Line) /\ Len(logs!Contents) = 0
        BY <1>1, RingFacts DEF LoggerInit, logs!Init
    <2>2. hist \in Seq(Line) /\ Len(hist) = 0
        BY DEF LoggerInit
    <2>3. Recent(hist) \in Seq(Line) /\ Len(Recent(hist)) = 0
        <3>1. /\ Recent(hist) \in Seq(Line) /\ Len(Recent(hist)) = Kept(hist)
              /\ Kept(hist) \in 0 .. Len(hist)
            BY <2>2, RecentElements
        <3>2. QED
            BY <2>2, <3>1
    <2>4. logs!Contents = <<>> /\ Recent(hist) = <<>>
        BY <2>1, <2>3, EmptySeq
    <2>5. QED
        BY <2>4, RecentHistory
<1>6. QED
    BY <1>1, <1>2, <1>3, <1>4, <1>5 DEF LogInv

(* The steps that touch neither the ring nor what is_max() has read: the mutex
   changes hands, a line is formatted. *)
LEMMA MutexSteps ==
    ASSUME LogInv, NEW t \in Thread,
           (\E line \in Line : LogStateChange(t, line)) \/ Lock(t) \/ Format(t)
    PROVE  LogInv'
<1>1. ring!Inv' /\ logs!Contents' = logs!Contents /\ logs!TypeOK'
    BY RingKept, RingTypes DEF LogInv, LogStateChange, Lock, Format
<1>2. UNCHANGED <<head_, tail_, size_, stale, seen, printed, hist>>
    BY DEF LogStateChange, Lock, Format, ringVars
<1>3. FillInv' /\ LogIsRecentHistory'
    BY <1>1, <1>2 DEF LogInv, FillInv, LogIsRecentHistory
<1>4. PrintsFullLog'
    BY <1>1, <1>2
    DEF LogInv, LoggerTypeOK, PrintsFullLog, LogStateChange, Lock, Format, Goto
<1> USE DEF LogInv, LoggerTypeOK, ArgInv, LockInv, PrintInv, Goto
<1>5. CASE \E line \in Line : LogStateChange(t, line)
    BY <1>1, <1>2, <1>3, <1>4, <1>5 DEF LogStateChange
<1>6. CASE Lock(t)
    BY <1>1, <1>2, <1>3, <1>4, <1>6, LoggerAssumption DEF Lock, CanLock
<1>7. CASE Format(t)
    BY <1>1, <1>2, <1>3, <1>4, <1>7 DEF Format
<1>8. QED
    BY <1>5, <1>6, <1>7

(* The push: until the log is full it only adds a line, and nobody else can be
   printing. *)
LEMMA PushStep ==
    ASSUME LogInv, NEW t \in Thread, Push(t)
    PROVE  LogInv'
<1>1. arg[t] \in Line /\ buffer = arg[t] /\ mtx = t
    BY DEF Push, LogInv, ArgInv, LockInv
<1>2. /\ ring!Inv' /\ logs!TypeOK'
      /\ logs!Contents' = IF Len(logs!Contents) < LogCapacity
                           THEN Append(logs!Contents, arg[t])
                           ELSE Tail(Append(logs!Contents, arg[t]))
      /\ size_' = IF size_ < LogCapacity THEN size_ + 1 ELSE size_
      /\ size_ < LogCapacity => tail_' = tail_
      /\ head_' = IF head_ = LogCapacity THEN 0 ELSE head_ + 1
    BY <1>1, RingPush, RingTypes DEF Push, LogInv
<1>3. size_ \in 0 .. LogCapacity /\ head_ \in logs!Slots /\ tail_ \in logs!Slots
    BY RingFacts DEF LogInv
<1>4. LoggerTypeOK'
    BY <1>1, <1>2, <1>3, AppendProperties DEF LogInv, LoggerTypeOK, Push, Goto, logs!Slots
<1>5. ArgInv' /\ LockInv'
    BY DEF LogInv, LoggerTypeOK, ArgInv, LockInv, Push, Goto
<1>6. FillInv'
    <2>1. SUFFICES ASSUME size_' < LogCapacity PROVE FillInv'
        BY DEF FillInv
    <2>2. size_' = size_ + 1 /\ size_ < LogCapacity /\ tail_' = tail_ /\ head_ = size_
        BY <1>2, <1>3, <2>1, LoggerAssumption DEF LogInv, FillInv
    <2>3. tail_' = 0 /\ stale'.tail = 0 /\ head_' = size_' /\ stale'.head \in 0 .. size_'
        BY <1>2, <1>3, <2>2, LoggerAssumption DEF LogInv, FillInv, Push
    <2>4. \A u \in Thread : seen'[u].head \in -1 .. size_' /\ seen'[u].tail \in {-1, 0}
        BY <1>3, <2>2 DEF LogInv, FillInv, Push
    <2>5. QED
        BY <2>3, <2>4 DEF FillInv
<1>7. PrintInv' /\ PrintsFullLog'
    <2>1. SUFFICES ASSUME NEW u \in Thread, pc'[u] \in {"print_lock", "print"}
                   PROVE  pc'[u] = "print_lock" /\ size_' = LogCapacity
        BY DEF PrintInv, PrintsFullLog
    <2>2. pc[u] = pc'[u] /\ u # t
        BY <2>1 DEF Push, Goto, LogInv, LoggerTypeOK
    <2>3. pc[u] # "print"
        BY <1>1, <2>2 DEF LogInv, LockInv
    <2>4. size_ = LogCapacity
        BY <2>1, <2>2 DEF LogInv, PrintsFullLog
    <2>5. QED
        BY <1>2, <2>1, <2>2, <2>3, <2>4, LoggerAssumption
<1>8. LogIsRecentHistory'
    <2>1. logs!Contents = Recent(hist) /\ hist \in Seq(Line)
        BY RecentHistory DEF LogInv, LoggerTypeOK
    <2>2. logs!Contents' = Recent(Append(hist, arg[t]))
        BY <1>1, <1>2, <2>1, RecentAppend
    <2>3. hist' = Append(hist, arg[t])
        BY DEF Push
    <2>4. QED
        BY <2>2, <2>3 DEF LogIsRecentHistory, Recent, Kept
<1>9. QED
    BY <1>2, <1>4, <1>5, <1>6, <1>7, <1>8 DEF LogInv

(* The mutex is released, and is_max() reads the two indices one by one. *)
LEMMA ReadSteps ==
    ASSUME LogInv, NEW t \in Thread, Unlock(t) \/ ReadHead(t) \/ ReadTail(t)
    PROVE  LogInv'
<1>1. ring!Inv' /\ logs!Contents' = logs!Contents /\ logs!TypeOK'
    BY RingKept, RingTypes DEF LogInv, Unlock, ReadHead, ReadTail
<1>2. UNCHANGED <<head_, tail_, size_, buffer, arg, printed, hist>>
    BY DEF Unlock, ReadHead, ReadTail, ringVars
<1>3. /\ size_ \in 0 .. LogCapacity /\ head_ \in logs!Slots /\ tail_ \in logs!Slots
      /\ stale \in [head : logs!Slots, tail : logs!Slots]
      /\ seen \in [Thread -> [head : logs!Slots \cup {Unread}, tail : logs!Slots \cup {Unread}]]
    BY RingFacts DEF LogInv, LoggerTypeOK
<1>4. LogIsRecentHistory'
    BY <1>1, <1>2 DEF LogInv, LogIsRecentHistory
<1>5. CASE Unlock(t)
    <2> USE DEF Unlock, Released, Goto
    <2>1. LoggerTypeOK'
        BY <1>1, <1>2, <1>3, <1>5 DEF LogInv, LoggerTypeOK
    <2>2. ArgInv' /\ PrintInv' /\ PrintsFullLog'
        BY <1>1, <1>2, <1>5 DEF LogInv, LoggerTypeOK, ArgInv, PrintInv, PrintsFullLog
    <2>3. LockInv'
        BY <1>5 DEF LogInv, LoggerTypeOK, LockInv
    <2>4. FillInv'
        BY <1>2, <1>3, <1>5 DEF LogInv, FillInv
    <2>5. QED
        BY <1>1, <1>4, <2>1, <2>2, <2>3, <2>4 DEF LogInv
<1>6. CASE ReadHead(t) \/ ReadTail(t)
    <2> USE DEF ReadHead, ReadTail
    <2>1. UNCHANGED <<mtx, pc, stale>>
        BY <1>6
    <2>2. LoggerTypeOK'
        <3>1. seen' \in [Thread -> [head : logs!Slots \cup {Unread},
                                    tail : logs!Slots \cup {Unread}]]
            <4>1. CASE ReadHead(t)
                BY <1>3, <4>1
            <4>2. CASE ReadTail(t)
                BY <1>3, <4>2
            <4>3. QED
                BY <1>6, <4>1, <4>2
        <3>2. QED
            BY <1>1, <1>2, <2>1, <3>1 DEF LogInv, LoggerTypeOK, logs!Slots
    <2>3. ArgInv' /\ LockInv' /\ PrintInv' /\ PrintsFullLog'
        BY <1>1, <1>2, <2>1 DEF LogInv, ArgInv, LockInv, PrintInv, PrintsFullLog
    <2>4. FillInv'
        BY <1>2, <1>3, <1>6, <2>1 DEF LogInv, FillInv
    <2>5. QED
        BY <1>1, <1>4, <2>2, <2>3, <2>4 DEF LogInv
<1>7. QED
    BY <1>5, <1>6

(* is_max() never says "full" before the log is: printLatestLogs() is called
   with a full log only. *)
LEMMA IsMaxStep ==
    ASSUME LogInv, NEW t \in Thread, IsMax(t)
    PROVE  LogInv'
<1>1. ring!Inv' /\ logs!Contents' = logs!Contents /\ logs!TypeOK'
    BY RingKept, RingTypes DEF LogInv, IsMax
<1>2. UNCHANGED <<head_, tail_, size_, mtx, buffer, arg, stale, printed, hist>>
    BY DEF IsMax, ringVars
<1>3. /\ size_ \in 0 .. LogCapacity
      /\ seen[t].head \in 0 .. LogCapacity /\ seen[t].tail \in 0 .. LogCapacity
    BY RingFacts DEF LogInv, LoggerTypeOK, IsMax, Unread, logs!Slots
<1>4. LooksFull(seen[t].head, seen[t].tail) => size_ = LogCapacity
    <2>1. SUFFICES ASSUME size_ < LogCapacity
                   PROVE  ~LooksFull(seen[t].head, seen[t].tail)
        BY <1>3, LoggerAssumption
    <2>2. seen[t].tail = 0 /\ seen[t].head \in 0 .. size_
        BY <1>3, <2>1 DEF LogInv, FillInv
    <2>3. seen[t].head \in ring!Slots /\ seen[t].head # LogCapacity
        BY <1>3, <2>1, <2>2, LoggerAssumption DEF ring!Slots
    <2>4. ring!NextIndex(seen[t].head) = seen[t].head + 1
        BY <2>3, ring!NextIndexValue, LoggerAssumption
    <2>5. QED
        BY <2>2, <2>4 DEF LooksFull, ring!NextIndex
<1>5. LoggerTypeOK'
    BY <1>1, <1>2 DEF LogInv, LoggerTypeOK, IsMax, Goto, Unseen
<1>6. ArgInv' /\ LockInv' /\ PrintInv'
    BY <1>2 DEF LogInv, LoggerTypeOK, ArgInv, LockInv, PrintInv, IsMax, Goto
<1>7. FillInv' /\ LogIsRecentHistory'
    <2>1. \A u \in Thread : seen'[u] = IF u = t THEN Unseen ELSE seen[u]
        BY DEF LogInv, LoggerTypeOK, IsMax
    <2>2. \A n \in Nat : Unseen.head \in -1 .. n /\ Unseen.tail \in {-1, 0}
        BY DEF Unseen, Unread
    <2>3. FillInv'
        BY <1>2, <1>3, <2>1, <2>2 DEF LogInv, FillInv
    <2>4. QED
        BY <1>1, <1>2, <2>3 DEF LogInv, LogIsRecentHistory
<1>8. PrintsFullLog'
    <2>1. SUFFICES ASSUME NEW u \in Thread
                   PROVE  /\ pc'[u] \in {"print_lock", "print"} => size_' = LogCapacity
                          /\ pc'[u] = "print" =>
                                 printed'[u] = SubSeq(logs!Contents', 1, Len(printed'[u]))
        BY DEF PrintsFullLog
    <2>2. CASE u = t
        BY <1>2, <1>4, <2>2 DEF IsMax, Goto, LogInv, LoggerTypeOK
    <2>3. CASE u # t
        <3>1. pc'[u] = pc[u]
            BY <2>3 DEF IsMax, Goto, LogInv, LoggerTypeOK
        <3>2. QED
            BY <1>1, <1>2, <3>1 DEF LogInv, PrintsFullLog
    <2>4. QED
        BY <2>2, <2>3
<1>9. QED
    BY <1>1, <1>5, <1>6, <1>7, <1>8 DEF LogInv

(* Printing one more line of the log. *)
LEMMA PrintedGrows ==
    ASSUME NEW s \in Seq(Line), NEW n \in 0 .. Len(s) - 1
    PROVE  SubSeq(s, 1, n + 1) = Append(SubSeq(s, 1, n), s[n + 1])
<1>1. Len(s) \in Nat /\ (\A i \in 1 .. Len(s) : s[i] \in Line)
    BY ElementOfSeq
<1>2. /\ SubSeq(s, 1, n) \in Seq(Line) /\ Len(SubSeq(s, 1, n)) = n
      /\ \A i \in 1 .. n : SubSeq(s, 1, n)[i] = s[i]
    <2>1. 1 \in Int /\ n \in Int /\ \A i \in 1 .. n : s[i] \in Line
        BY <1>1
    <2>2. /\ SubSeq(s, 1, n) \in Seq(Line)
          /\ Len(SubSeq(s, 1, n)) = IF 1 <= n THEN n - 1 + 1 ELSE 0
          /\ \A i \in 1 .. n - 1 + 1 : SubSeq(s, 1, n)[i] = s[1 + i - 1]
        BY <2>1, SubSeqProperties
    <2>3. n - 1 + 1 = n /\ \A i \in 1 .. n : 1 + i - 1 = i
        BY <2>1
    <2>4. QED
        BY <1>1, <2>2, <2>3
<1>3. /\ SubSeq(s, 1, n + 1) \in Seq(Line) /\ Len(SubSeq(s, 1, n + 1)) = n + 1
      /\ \A i \in 1 .. n + 1 : SubSeq(s, 1, n + 1)[i] = s[i]
    <2>1. 1 \in Int /\ n + 1 \in Int /\ \A i \in 1 .. n + 1 : s[i] \in Line
        BY <1>1
    <2>2. /\ SubSeq(s, 1, n + 1) \in Seq(Line)
          /\ Len(SubSeq(s, 1, n + 1)) = IF 1 <= n + 1 THEN n + 1 - 1 + 1 ELSE 0
          /\ \A i \in 1 .. n + 1 - 1 + 1 : SubSeq(s, 1, n + 1)[i] = s[1 + i - 1]
        BY <2>1, SubSeqProperties
    <2>3. n + 1 - 1 + 1 = n + 1 /\ 1 <= n + 1 /\ \A i \in 1 .. n + 1 : 1 + i - 1 = i
        BY <1>1
    <2>4. QED
        BY <2>2, <2>3
<1> DEFINE p == Append(SubSeq(s, 1, n), s[n + 1])
<1>4. s[n + 1] \in Line
    BY <1>1
<1>5. /\ p \in Seq(Line) /\ Len(p) = n + 1 /\ p[n + 1] = s[n + 1]
      /\ \A i \in 1 .. n : p[i] = s[i]
    BY <1>2, <1>4, AppendProperties
<1>6. \A i \in 1 .. n + 1 : p[i] = s[i]
    BY <1>5
<1> HIDE DEF p
<1>7. SubSeq(s, 1, n + 1) = p
    BY <1>3, <1>5, <1>6, SeqEqual
<1>8. QED
    BY <1>7 DEF p

(* printLatestLogs(): nobody pushes while it holds the mutex. *)
LEMMA PrintSteps ==
    ASSUME LogInv, NEW t \in Thread, PrintLock(t) \/ PrintEntry(t) \/ PrintUnlock(t)
    PROVE  LogInv'
<1>1. ring!Inv' /\ logs!Contents' = logs!Contents /\ logs!TypeOK'
    BY RingKept, RingTypes DEF LogInv, PrintLock, PrintEntry, PrintUnlock
<1>2. UNCHANGED <<head_, tail_, size_, buffer, arg, stale, seen, hist>>
    BY DEF PrintLock, PrintEntry, PrintUnlock, ringVars
<1>3. /\ size_ \in 0 .. LogCapacity
      /\ logs!Contents \in Seq(Line) /\ Len(logs!Contents) = size_
      /\ \A i \in 1 .. size_ : logs!Contents[i] = logs!At(i - 1)
    BY RingFacts DEF LogInv
<1>4. FillInv' /\ LogIsRecentHistory'
    BY <1>1, <1>2 DEF LogInv, FillInv, LogIsRecentHistory
<1>5. /\ printed \in [Thread -> Seq(Line)]
      /\ pc \in [Thread -> {"idle", "lock", "format", "push", "unlock", "is_max",
                             "print_lock", "print"}]
    BY DEF LogInv, LoggerTypeOK
<1>6. CASE PrintLock(t) \/ PrintUnlock(t)
    <2> USE DEF PrintLock, PrintUnlock, Goto, CanLock, Released
    <2>1. printed' = [printed EXCEPT ![t] = <<>>] /\ <<>> \in Seq(Line)
        BY <1>6
    <2>2. LoggerTypeOK'
        BY <1>1, <1>2, <1>6, <2>1 DEF LogInv, LoggerTypeOK
    <2>3. ArgInv' /\ LockInv'
        <3>1. ArgInv'
            BY <1>2, <1>5, <1>6 DEF LogInv, ArgInv
        <3>2. LockInv'
            BY <1>5, <1>6, LoggerAssumption DEF LogInv, LockInv
        <3>3. QED
            BY <3>1, <3>2
    <2>4. ASSUME NEW u \in Thread
          PROVE  /\ pc'[u] \in {"print_lock", "print"} => size_' = LogCapacity
                 /\ pc'[u] = "print" =>
                        /\ Len(printed'[u]) <= size_'
                        /\ printed'[u] = SubSeq(logs!Contents', 1, Len(printed'[u]))
        <3>1. CASE u = t
            <4>1. printed'[u] = <<>> /\ Len(printed'[u]) = 0
                BY <1>5, <2>1, <3>1
            <4>2. SubSeq(logs!Contents', 1, 0) = <<>>
                BY SubSeqEmpty
            <4>3. pc'[u] \in {"print_lock", "print"} => pc[u] = "print_lock"
                BY <1>5, <1>6, <3>1
            <4>4. QED
                BY <1>2, <1>3, <4>1, <4>2, <4>3 DEF LogInv, PrintsFullLog
        <3>2. CASE u # t
            <4>1. pc'[u] = pc[u] /\ printed'[u] = printed[u]
                BY <1>5, <1>6, <2>1, <3>2
            <4>2. QED
                BY <1>1, <1>2, <4>1 DEF LogInv, PrintInv, PrintsFullLog
        <3>3. QED
            BY <3>1, <3>2
    <2>5. PrintInv' /\ PrintsFullLog'
        BY <2>4 DEF PrintInv, PrintsFullLog
    <2>6. QED
        BY <1>1, <1>4, <2>2, <2>3, <2>5 DEF LogInv
<1>7. CASE PrintEntry(t)
    <2> DEFINE n == Len(printed[t])
               p == Append(printed[t], logs!At(n))
    <2>1. n \in 0 .. size_ - 1 /\ pc[t] = "print" /\ mtx' = mtx /\ pc' = pc
        BY <1>3, <1>5, <1>7, LenProperties DEF PrintEntry
    <2>2. n + 1 \in 1 .. size_ /\ (n + 1) - 1 = n
        BY <1>3, <2>1
    <2>3. logs!At(n) = logs!Contents[n + 1] /\ logs!Contents[n + 1] \in Line
        BY <1>3, <2>2, ElementOfSeq
    <2>4. printed[t] = SubSeq(logs!Contents, 1, n)
        BY <2>1 DEF LogInv, PrintsFullLog
    <2>5. p \in Seq(Line) /\ Len(p) = n + 1
        BY <1>5, <2>3, AppendProperties
    <2>6. p = SubSeq(logs!Contents, 1, n + 1)
        BY <1>3, <2>1, <2>3, <2>4, PrintedGrows
    <2>7. printed' = [printed EXCEPT ![t] = p]
        BY <1>7 DEF PrintEntry
    <2> HIDE DEF p
    <2>8. LoggerTypeOK'
        BY <1>1, <1>2, <2>1, <2>5, <2>7 DEF LogInv, LoggerTypeOK
    <2>9. ArgInv' /\ LockInv'
        BY <1>2, <2>1 DEF LogInv, ArgInv, LockInv
    <2>10. PrintInv' /\ PrintsFullLog'
        <3>1. SUFFICES ASSUME NEW u \in Thread
                       PROVE  /\ pc[u] \in {"print_lock", "print"} => size_ = LogCapacity
                              /\ pc[u] = "print" =>
                                     /\ Len(printed'[u]) <= size_
                                     /\ printed'[u] = SubSeq(logs!Contents, 1, Len(printed'[u]))
            BY <1>1, <1>2, <2>1 DEF PrintInv, PrintsFullLog
        <3>2. CASE u = t
            BY <1>5, <2>2, <2>5, <2>6, <2>7, <3>2 DEF LogInv, PrintsFullLog
        <3>3. CASE u # t
            BY <1>5, <2>7, <3>3 DEF LogInv, PrintInv, PrintsFullLog
        <3>4. QED
            BY <3>2, <3>3
    <2>11. QED
        BY <1>1, <1>4, <2>8, <2>9, <2>10 DEF LogInv
<1>8. QED
    BY <1>6, <1>7

(* Every step of a task in the logger keeps the invariant. *)
LEMMA LoggerStepInv ==
    ASSUME LogInv, NEW t \in Thread,
           (\E line \in Line : LogStateChange(t, line)) \/ LoggerStep(t)
    PROVE  LogInv'
BY MutexSteps, PushStep, ReadSteps, IsMaxStep, PrintSteps DEF LoggerStep

(* Other steps leave the logger alone. *)
LEMMA LoggerKept ==
    ASSUME LogInv, UNCHANGED loggerVars
    PROVE  LogInv'
<1>1. ring!Inv' /\ logs!Contents' = logs!Contents /\ logs!TypeOK'
    BY RingKept, RingTypes DEF LogInv, loggerVars
<1>2. QED
    BY <1>1
    DEF LogInv, loggerVars, ringVars, LoggerTypeOK, ArgInv, LockInv, FillInv, PrintInv,
        LogIsRecentHistory, PrintsFullLog, logs!Slots

-----------------------------------------------------------------------------
(* The objects start in InitialState. *)
LEMMA ObjectInitInv == Init => LogInv /\ ObjectInv
BY LoggerInitInv, ObjectAssumption DEF Init, ObjectInv

(* What setState() hands to the logger is a line. *)
LEMMA LineOfCall ==
    ASSUME ObjectInv, NEW t \in Thread, call[t].step = "log"
    PROVE  ChangeLine(t) \in Line
<1>1. call[t] # NoCall
    BY DEF NoCall
<1>2. QED
    BY <1>1, ObjectAssumption DEF ObjectInv, ChangeLine

(* Every step keeps the invariant. *)
LEMMA ObjectNextInv == LogInv /\ ObjectInv /\ [Next]_vars => LogInv' /\ ObjectInv'
<1> SUFFICES ASSUME LogInv, ObjectInv, [Next]_vars PROVE LogInv' /\ ObjectInv'
    OBVIOUS
<1>1. ASSUME NEW t \in Thread, NEW o \in Object, NEW new \in State, SetState(t, o, new)
      PROVE  LogInv' /\ ObjectInv'
    <2>1. Calling(o, new, "write") \in [object : Object, newState : State,
                                        step : {"write", "log", "logging"}]
        BY DEF Calling
    <2>2. ObjectInv'
        BY <1>1, <2>1 DEF ObjectInv, SetState
    <2>3. QED
        BY <1>1, <2>2, LoggerKept DEF SetState
<1>2. ASSUME NEW t \in Thread, WriteState(t)
      PROVE  LogInv' /\ ObjectInv'
    <2>1. call[t] \in [object : Object, newState : State, step : {"write", "log", "logging"}]
        BY <1>2 DEF ObjectInv, WriteState, NoCall
    <2>2. state' \in [Object -> State]
        BY <1>2, <2>1 DEF ObjectInv, WriteState
    <2>3. changes' \in [Object -> Seq(State)]
        BY <1>2, <2>1, AppendProperties DEF ObjectInv, WriteState
    <2>4. [call[t] EXCEPT !.step = "log"] \in
              [object : Object, newState : State, step : {"write", "log", "logging"}]
        BY <2>1
    <2>5. call' = [call EXCEPT ![t] = [call[t] EXCEPT !.step = "log"]]
        BY <1>2 DEF WriteState
    <2>6. ObjectInv'
        BY <2>2, <2>3, <2>4, <2>5 DEF ObjectInv
    <2>7. QED
        BY <1>2, <2>6, LoggerKept DEF WriteState
<1>3. ASSUME NEW t \in Thread, LogChange(t)
      PROVE  LogInv' /\ ObjectInv'
    <2>1. call[t] \in [object : Object, newState : State, step : {"write", "log", "logging"}]
        BY <1>3 DEF ObjectInv, LogChange, NoCall
    <2>2. [call[t] EXCEPT !.step = "logging"] \in
              [object : Object, newState : State, step : {"write", "log", "logging"}]
        BY <2>1
    <2>3. call' = [call EXCEPT ![t] = [call[t] EXCEPT !.step = "logging"]]
        BY <1>3 DEF LogChange
    <2>4. ObjectInv'
        BY <1>3, <2>2, <2>3 DEF ObjectInv, LogChange
    <2>5. LogInv'
        BY <1>3, LineOfCall, LoggerStepInv DEF LogChange
    <2>6. QED
        BY <2>4, <2>5
<1>4. ASSUME NEW t \in Thread, LoggerStep(t), UNCHANGED objectVars
      PROVE  LogInv' /\ ObjectInv'
    BY <1>4, LoggerStepInv DEF ObjectInv, objectVars
<1>5. ASSUME NEW t \in Thread, Return(t)
      PROVE  LogInv' /\ ObjectInv'
    BY <1>5, LoggerKept DEF Return, ObjectInv
<1>6. CASE UNCHANGED vars
    BY <1>6, LoggerKept DEF vars, objectVars, ObjectInv
<1>7. QED
    BY <1>1, <1>2, <1>3, <1>4, <1>5, <1>6 DEF Next, Step

(* The invariant holds in every reachable state. *)
LEMMA LogIsSound == Spec => [](LogInv /\ ObjectInv)
BY ObjectInitInv, ObjectNextInv, PTL DEF Spec

-----------------------------------------------------------------------------
(* Type correctness of the objects, the logger and its ring. *)
THEOREM TypeCorrect == Spec => []TypeOK
<1>1. LogInv /\ ObjectInv => TypeOK
    BY DEF LogInv, ObjectInv, TypeOK
<1>2. QED
    BY <1>1, LogIsSound, PTL

(* However many tasks log at once, through one static buffer, the log is the
   last LogCapacity lines they passed in, in order (LogIsRecentHistory). *)
THEOREM LogKeepsRecent == Spec => []LogIsRecentHistory
<1>1. LogInv => LogIsRecentHistory
    BY DEF LogInv
<1>2. QED
    BY <1>1, LogIsSound, PTL

(* The unlocked is_max() never makes logStateChange() print a log that is not
   full, and what it prints is the log (PrintsFullLog). *)
THEOREM PrintsOnlyFull == Spec => []PrintsFullLog
<1>1. LogInv => PrintsFullLog
    BY DEF LogInv
<1>2. QED
    BY <1>1, LogIsSound, PTL

-----------------------------------------------------------------------------
\* As in the program today, which never calls updateCredentials(): every object
\* is set by one task only.
OneWriter == \A t, u \in Thread, o \in Object : <<t, o>> \in Sets /\ <<u, o>> \in Sets => t = u

\* LinesAbout() and Ordinal() of any history.
About(h, o) == {i \in DOMAIN h : h[i].id = o}
Place(h, o, i) == Cardinality({j \in About(h, o) : j <= i})

\* Task t has changed o, and the line about it is not in the log yet.
Owes(t, o) ==
    /\ call[t] # NoCall
    /\ call[t].object = o
    /\ \/ call[t].step = "log"
       \/ call[t].step = "logging" /\ pc[t] \in {"lock", "format", "push"}

Owed(o) == \E t \in Thread : Owes(t, o)

\* A task is in the logger for its setState() only, and its test of the state
\* still holds when it writes.
CallInv ==
    \A t \in Thread :
        /\ pc[t] # "idle" => call[t] # NoCall /\ call[t].step = "logging"
        /\ call[t] # NoCall =>
               /\ <<t, call[t].object>> \in Sets
               /\ call[t].step = "write" => state[call[t].object] # call[t].newState

\* The line a task owes is about the last change.
DebtInv ==
    \A t \in Thread, o \in Object :
        Owes(t, o) =>
            /\ call[t].step = "log" => state[o] = changes[o][Len(changes[o])]
            /\ call[t].step = "logging" =>
                   arg[t].id = o /\ arg[t].state = changes[o][Len(changes[o])]

\* One change at most has no line yet.
CountInv ==
    \A o \in Object :
        Len(changes[o]) = Cardinality(About(hist, o)) + IF Owed(o) THEN 1 ELSE 0

PlaceInv ==
    \A o \in Object : \A i \in About(hist, o) :
        hist[i].state = changes[o][Place(hist, o, i)]

ChangesInv == CallInv /\ DebtInv /\ CountInv /\ PlaceInv

-----------------------------------------------------------------------------
(* The lines about an object are finitely many, and numbered from one. *)
LEMMA PlaceFacts ==
    ASSUME NEW h \in Seq(Line), NEW o
    PROVE  /\ IsFiniteSet(About(h, o)) /\ Cardinality(About(h, o)) \in Nat
           /\ \A i \in About(h, o) : Place(h, o, i) \in 1 .. Cardinality(About(h, o))
<1>1. DOMAIN h = 1 .. Len(h) /\ Len(h) \in Nat
    BY LenProperties
<1>2. IsFiniteSet(About(h, o))
    <2>1. IsFiniteSet(1 .. Len(h))
        BY <1>1, FS_Interval
    <2>2. About(h, o) \subseteq 1 .. Len(h)
        BY <1>1 DEF About
    <2>3. QED
        BY <2>1, <2>2, FS_Subset
<1>3. ASSUME NEW i \in About(h, o)
      PROVE  Place(h, o, i) \in 1 .. Cardinality(About(h, o))
    <2> DEFINE upTo == {j \in About(h, o) : j <= i}
    <2>1. upTo \subseteq About(h, o) /\ i \in upTo
        BY <1>1 DEF About
    <2> HIDE DEF upTo
    <2>2. /\ IsFiniteSet(upTo) /\ Cardinality(upTo) \in Nat
          /\ Cardinality(upTo) <= Cardinality(About(h, o))
        BY <1>2, <2>1, FS_Subset, FS_CardinalityType
    <2>3. Cardinality(upTo) # 0
        BY <2>1, <2>2, FS_EmptySet
    <2>4. Place(h, o, i) = Cardinality(upTo)
        BY DEF Place, upTo
    <2>5. QED
        BY <1>2, <2>2, <2>3, <2>4, FS_CardinalityType
<1>4. QED
    BY <1>2, <1>3, FS_CardinalityType

(* A new line is the last of those about its object, and moves no other. *)
LEMMA PlacePush ==
    ASSUME hist \in Seq(Line), NEW e \in Line, hist' = Append(hist, e), NEW o
    PROVE  /\ e.id = o =>
                  /\ About(hist', o) = About(hist, o) \cup {Len(hist')}
                  /\ Cardinality(About(hist', o)) = Cardinality(About(hist, o)) + 1
                  /\ Place(hist', o, Len(hist')) = Cardinality(About(hist, o)) + 1
           /\ e.id # o => About(hist', o) = About(hist, o)
           /\ \A i \in About(hist, o) : hist'[i] = hist[i] /\ Place(hist', o, i) = Place(hist, o, i)
           /\ hist'[Len(hist')] = e
<1> DEFINE n == Len(hist')
<1>1. /\ Len(hist) \in Nat /\ n = Len(hist) + 1
      /\ DOMAIN hist = 1 .. Len(hist) /\ DOMAIN hist' = 1 .. n
      /\ hist'[n] = e /\ \A i \in 1 .. Len(hist) : hist'[i] = hist[i]
    BY AppendProperties, LenProperties
<1>2. IsFiniteSet(About(hist, o)) /\ Cardinality(About(hist, o)) \in Nat
    BY PlaceFacts
<1> HIDE DEF n
<1>3. /\ e.id = o => About(hist', o) = About(hist, o) \cup {n}
      /\ e.id # o => About(hist', o) = About(hist, o)
    <2>1. \A i \in 1 .. n : i \in 1 .. Len(hist) \/ i = n
        BY <1>1
    <2>2. n \in 1 .. n /\ \A i \in 1 .. Len(hist) : i \in 1 .. n
        BY <1>1
    <2>3. QED
        BY <1>1, <2>1, <2>2 DEF About
<1>4. n \notin About(hist, o) /\ \A i \in About(hist, o) : i \in 1 .. Len(hist) /\ i < n
    BY <1>1 DEF About
<1>5. e.id = o => Cardinality(About(hist', o)) = Cardinality(About(hist, o)) + 1
    <2>1. Cardinality(About(hist, o) \cup {n}) = Cardinality(About(hist, o)) + 1
        BY <1>2, <1>4, FS_AddElement
    <2>2. QED
        BY <1>2, <1>3, <2>1
<1>6. \A i \in About(hist, o) : hist'[i] = hist[i] /\ Place(hist', o, i) = Place(hist, o, i)
    <2>1. SUFFICES ASSUME NEW i \in About(hist, o)
                   PROVE  hist'[i] = hist[i] /\ Place(hist', o, i) = Place(hist, o, i)
        OBVIOUS
    <2>2. {j \in About(hist', o) : j <= i} = {j \in About(hist, o) : j <= i}
        <3>1. ~(n <= i)
            BY <1>1, <1>4
        <3>2. QED
            BY <1>3, <3>1
    <2>3. QED
        BY <1>1, <1>4, <2>2 DEF Place
<1>7. e.id = o => Place(hist', o, n) = Cardinality(About(hist, o)) + 1
    <2>1. SUFFICES ASSUME e.id = o PROVE Place(hist', o, n) = Cardinality(About(hist', o))
        BY <1>2, <1>5
    <2>2. \A j \in About(hist', o) : j <= n
        BY <1>1, <1>3, <1>4
    <2>3. {j \in About(hist', o) : j <= n} = About(hist', o)
        BY <2>2
    <2>4. QED
        BY <2>3 DEF Place
<1>8. QED
    BY <1>1, <1>3, <1>5, <1>6, <1>7 DEF n

-----------------------------------------------------------------------------
(* Nothing has been changed at first. *)
LEMMA ChangesInit == Init => ChangesInv
<1> SUFFICES ASSUME Init PROVE ChangesInv
    OBVIOUS
<1>1. /\ hist = <<>> /\ pc = [t \in Thread |-> "idle"] /\ call = [t \in Thread |-> NoCall]
      /\ changes = [o \in Object |-> <<>>]
    BY DEF Init, LoggerInit
<1>2. CallInv /\ \A o : \A t \in Thread : ~Owes(t, o)
    BY <1>1 DEF CallInv, Owes
<1>3. \A o : About(hist, o) = {}
    BY <1>1 DEF About
<1>4. DebtInv /\ PlaceInv
    BY <1>2, <1>3 DEF DebtInv, PlaceInv
<1>5. CountInv
    <2>1. \A o \in Object : ~Owed(o) /\ Len(changes[o]) = 0
        BY <1>1, <1>2 DEF Owed
    <2>2. Cardinality({}) = 0
        BY FS_EmptySet
    <2>3. QED
        BY <1>3, <2>1, <2>2 DEF CountInv
<1>6. QED
    BY <1>2, <1>4, <1>5 DEF ChangesInv

(* A step that neither changes an object nor logs about one. *)
LEMMA QuietStep ==
    ASSUME CountInv, PlaceInv, UNCHANGED <<changes, hist>>,
           \A t \in Thread, o \in Object : Owes(t, o)' <=> Owes(t, o)
    PROVE  CountInv' /\ PlaceInv'
<1>1. ASSUME NEW o \in Object PROVE Owed(o)' <=> Owed(o)
    BY DEF Owed
<1>2. CountInv'
    <2>1. ASSUME NEW o \in Object
          PROVE  Len(changes'[o]) = Cardinality(About(hist', o)) + IF Owed(o)' THEN 1 ELSE 0
        BY <1>1 DEF CountInv
    <2>2. QED
        BY <2>1 DEF CountInv
<1>3. QED
    BY <1>2 DEF PlaceInv

(* The calls of the others are about other objects. *)
LEMMA OthersElsewhere ==
    ASSUME OneWriter, ObjectInv, CallInv,
           NEW t \in Thread, call[t] # NoCall,
           NEW u \in Thread, call[u] # NoCall, u # t
    PROVE  call[u].object # call[t].object
<1>1. call[t].object \in Object /\ call[u].object \in Object
    BY DEF ObjectInv
<1>2. <<t, call[t].object>> \in Sets /\ <<u, call[u].object>> \in Sets
    BY DEF CallInv
<1>3. QED
    BY <1>1, <1>2 DEF OneWriter

(* setState() finds a new value. *)
LEMMA SetKeeps ==
    ASSUME OneWriter, ObjectInv, ChangesInv,
           NEW t \in Thread, NEW o \in Object, NEW new \in State, SetState(t, o, new)
    PROVE  ChangesInv'
<1>1. CallInv /\ DebtInv /\ CountInv /\ PlaceInv
    BY DEF ChangesInv
<1>2. /\ <<t, o>> \in Sets /\ call[t] = NoCall /\ state[o] # new
      /\ UNCHANGED <<pc, arg, hist, state, changes>>
    BY DEF SetState, Differs, loggerVars
<1>3. \A u \in Thread : u # t => call'[u] = call[u]
    BY DEF SetState, ObjectInv
<1>4. /\ call'[t].object = o /\ call'[t].newState = new /\ call'[t].step = "write"
      /\ pc[t] = "idle"
    BY <1>1, <1>2 DEF SetState, ObjectInv, Calling, CallInv
<1>5. ASSUME NEW u \in Thread, NEW x \in Object
      PROVE  Owes(u, x)' <=> Owes(u, x)
    BY <1>2, <1>3, <1>4 DEF Owes
<1>6. CountInv' /\ PlaceInv'
    BY <1>1, <1>2, <1>5, QuietStep
<1>7. CallInv'
    BY <1>1, <1>2, <1>3, <1>4 DEF CallInv
<1>8. DebtInv'
    <2>1. ASSUME NEW u \in Thread, NEW x \in Object, Owes(u, x)'
          PROVE  call'[u] = call[u] /\ Owes(u, x)
        BY <1>3, <1>4, <1>5, <2>1 DEF Owes
    <2>2. QED
        BY <1>1, <1>2, <2>1 DEF DebtInv
<1>9. QED
    BY <1>6, <1>7, <1>8 DEF ChangesInv

(* The object changes; its line is owed from now on. *)
LEMMA WriteKeeps ==
    ASSUME OneWriter, ObjectInv, LogInv, ChangesInv, NEW t \in Thread, WriteState(t)
    PROVE  ChangesInv'
<1> DEFINE o == call[t].object
           new == call[t].newState
           s == changes[o]
<1>1. CallInv /\ DebtInv /\ CountInv /\ PlaceInv
    BY DEF ChangesInv
<1>2. /\ call[t] # NoCall /\ call[t].step = "write"
      /\ UNCHANGED <<pc, arg, hist>>
    BY DEF WriteState, NoCall, loggerVars
<1>3. o \in Object /\ new \in State /\ s \in Seq(State) /\ state[o] # new
    BY <1>1, <1>2 DEF ObjectInv, CallInv
<1>4. /\ \A x \in Object : x # o => state'[x] = state[x] /\ changes'[x] = changes[x]
      /\ state'[o] = new /\ changes'[o] = Append(s, new)
    BY <1>3 DEF WriteState, ObjectInv
<1>5. \A u \in Thread : u # t => call'[u] = call[u]
    BY DEF WriteState, ObjectInv
<1>6. call'[t] # NoCall /\ call'[t].object = o /\ call'[t].step = "log" /\ pc[t] = "idle"
    BY <1>1, <1>2 DEF WriteState, ObjectInv, CallInv, NoCall
<1>7. /\ Len(s) \in Nat /\ Len(Append(s, new)) = Len(s) + 1
      /\ Append(s, new)[Len(s) + 1] = new
      /\ \A i \in 1 .. Len(s) : Append(s, new)[i] = s[i]
    BY <1>3, AppendProperties
<1>8. \A u \in Thread : u # t /\ call[u] # NoCall => call[u].object # o
    BY <1>1, <1>2, OthersElsewhere
<1> HIDE DEF o, new, s
<1>9. CallInv'
    <2>1. ASSUME NEW u \in Thread, u # t, call[u] # NoCall
          PROVE  call[u].object \in Object /\ state'[call[u].object] = state[call[u].object]
        BY <1>4, <1>8, <2>1 DEF ObjectInv
    <2>2. <<t, o>> \in Sets
        BY <1>1, <1>2 DEF CallInv, o
    <2>3. QED
        BY <1>1, <1>2, <1>5, <1>6, <2>1, <2>2 DEF CallInv
<1>10. ASSUME NEW u \in Thread, NEW x \in Object, Owes(u, x)'
       PROVE  (u = t /\ x = o) \/ (u # t /\ x # o /\ Owes(u, x))
    <2>1. CASE u = t
        BY <1>6, <1>10, <2>1 DEF Owes
    <2>2. CASE u # t
        <3>1. Owes(u, x)
            BY <1>2, <1>5, <1>10, <2>2 DEF Owes
        <3>2. QED
            BY <1>8, <2>2, <3>1 DEF Owes
    <2>3. QED
        BY <2>1, <2>2
<1>11. DebtInv'
    <2>1. ASSUME NEW u \in Thread, NEW x \in Object, Owes(u, x)'
          PROVE  /\ call'[u].step = "log" => state'[x] = changes'[x][Len(changes'[x])]
                 /\ call'[u].step = "logging" =>
                        arg'[u].id = x /\ arg'[u].state = changes'[x][Len(changes'[x])]
        <3>1. CASE u = t /\ x = o
            BY <1>4, <1>6, <1>7, <3>1
        <3>2. CASE u # t /\ x # o /\ Owes(u, x)
            BY <1>1, <1>2, <1>4, <1>5, <3>2 DEF DebtInv
        <3>3. QED
            BY <1>10, <2>1, <3>1, <3>2
    <2>2. QED
        BY <2>1 DEF DebtInv
<1>12. ~Owed(o)
    BY <1>2, <1>8 DEF Owed, Owes
<1>13. ASSUME NEW x \in Object, x # o
       PROVE  Owed(x)' <=> Owed(x)
    <2>1. ASSUME NEW u \in Thread PROVE Owes(u, x)' <=> Owes(u, x)
        <3>1. CASE u = t
            BY <1>2, <1>6, <1>13, <3>1 DEF Owes
        <3>2. CASE u # t
            BY <1>2, <1>5, <3>2 DEF Owes
        <3>3. QED
            BY <3>1, <3>2
    <2>2. QED
        BY <2>1 DEF Owed
<1>14. ASSUME NEW x, x = o PROVE Owed(x)'
    <2>1. Owes(t, x)'
        BY <1>6, <1>14 DEF Owes
    <2>2. QED
        BY <2>1 DEF Owed
<1>15. CountInv'
    <2>1. ASSUME NEW x \in Object
          PROVE  Len(changes'[x]) = Cardinality(About(hist', x)) + IF Owed(x)' THEN 1 ELSE 0
        <3>1. Len(changes[x]) = Cardinality(About(hist, x)) + IF Owed(x) THEN 1 ELSE 0
            BY <1>1 DEF CountInv
        <3>2. CASE x = o
            <4>1. Owed(x)' /\ ~Owed(x)
                BY <1>12, <1>14, <3>2 DEF Owed, Owes
            <4>2. Len(changes'[x]) = Len(changes[x]) + 1
                BY <1>4, <1>7, <3>2 DEF s
            <4>3. Cardinality(About(hist, x)) \in Nat
                BY PlaceFacts DEF LogInv, LoggerTypeOK
            <4>4. QED
                BY <1>2, <3>1, <4>1, <4>2, <4>3
        <3>3. CASE x # o
            BY <1>2, <1>4, <1>13, <3>1, <3>3
        <3>4. QED
            BY <3>2, <3>3
    <2>2. QED
        BY <2>1 DEF CountInv
<1>16. PlaceInv'
    <2>1. ASSUME NEW x \in Object, NEW i \in About(hist, x)
          PROVE  hist[i].state = changes'[x][Place(hist, x, i)]
        <3>1. hist[i].state = changes[x][Place(hist, x, i)]
            BY <1>1 DEF PlaceInv
        <3>2. CASE x = o
            <4>1. /\ Place(hist, x, i) \in 1 .. Cardinality(About(hist, x))
                  /\ Cardinality(About(hist, x)) \in Nat
                BY PlaceFacts DEF LogInv, LoggerTypeOK
            <4>2. Cardinality(About(hist, x)) <= Len(changes[x])
                BY <1>1, <4>1 DEF CountInv
            <4>3. Place(hist, x, i) \in 1 .. Len(s)
                BY <1>7, <3>2, <4>1, <4>2 DEF s
            <4>4. QED
                BY <1>4, <1>7, <3>1, <3>2, <4>3 DEF s
        <3>3. CASE x # o
            BY <1>4, <3>1, <3>3
        <3>4. QED
            BY <3>2, <3>3
    <2>2. QED
        BY <1>2, <2>1 DEF PlaceInv
<1>17. QED
    BY <1>9, <1>11, <1>15, <1>16 DEF ChangesInv

(* logStateChange() is called with the state that was just written. *)
LEMMA LogChangeKeeps ==
    ASSUME ObjectInv, LogInv, ChangesInv, NEW t \in Thread, LogChange(t)
    PROVE  ChangesInv'
<1> DEFINE o == call[t].object
<1>1. CallInv /\ DebtInv /\ CountInv /\ PlaceInv
    BY DEF ChangesInv
<1>2. /\ call[t] # NoCall /\ call[t].step = "log" /\ o \in Object
      /\ UNCHANGED <<hist, state, changes>>
    BY DEF LogChange, NoCall, LogStateChange, ObjectInv
<1>3. /\ \A u \in Thread : u # t => call'[u] = call[u] /\ pc'[u] = pc[u] /\ arg'[u] = arg[u]
      /\ pc'[t] = "lock" /\ arg'[t] = ChangeLine(t)
    BY DEF LogChange, LogStateChange, Goto, LogInv, LoggerTypeOK, ObjectInv
<1>4. call'[t] # NoCall /\ call'[t].object = o /\ call'[t].step = "logging"
    BY <1>2 DEF LogChange, ObjectInv, NoCall
<1> HIDE DEF o
<1>5. ASSUME NEW u \in Thread, NEW x \in Object
      PROVE  Owes(u, x)' <=> Owes(u, x)
    <2>1. CASE u = t
        BY <1>2, <1>3, <1>4, <2>1 DEF Owes, o
    <2>2. CASE u # t
        BY <1>3, <2>2 DEF Owes
    <2>3. QED
        BY <2>1, <2>2
<1>6. CountInv' /\ PlaceInv'
    BY <1>1, <1>2, <1>5, QuietStep
<1>7. CallInv'
    <2>1. <<t, o>> \in Sets
        BY <1>1, <1>2 DEF CallInv, o
    <2>2. QED
        BY <1>1, <1>2, <1>3, <1>4, <2>1 DEF CallInv
<1>8. DebtInv'
    <2>1. ASSUME NEW u \in Thread, NEW x \in Object, Owes(u, x)'
          PROVE  /\ call'[u].step = "log" => state[x] = changes[x][Len(changes[x])]
                 /\ call'[u].step = "logging" =>
                        arg'[u].id = x /\ arg'[u].state = changes[x][Len(changes[x])]
        <3>1. Owes(u, x)
            BY <1>5, <2>1
        <3>2. CASE u = t
            <4>1. x = o
                BY <3>1, <3>2 DEF Owes, o
            <4>2. arg'[u].id = o /\ arg'[u].state = state[o]
                BY <1>3, <3>2 DEF ChangeLine, o
            <4>3. state[x] = changes[x][Len(changes[x])]
                BY <1>1, <1>2, <3>1, <3>2 DEF DebtInv
            <4>4. QED
                BY <1>4, <3>2, <4>1, <4>2, <4>3
        <3>3. CASE u # t
            BY <1>1, <1>3, <3>1, <3>3 DEF DebtInv
        <3>4. QED
            BY <3>2, <3>3
    <2>2. QED
        BY <1>2, <2>1 DEF DebtInv
<1>9. QED
    BY <1>6, <1>7, <1>8 DEF ChangesInv

(* The line that was owed is in the log: the last about its object. *)
LEMMA PushKeeps ==
    ASSUME OneWriter, ObjectInv, LogInv, ChangesInv,
           NEW t \in Thread, Push(t), UNCHANGED objectVars
    PROVE  ChangesInv'
<1> DEFINE o == call[t].object
           n == Len(hist')
<1>1. CallInv /\ DebtInv /\ CountInv /\ PlaceInv
    BY DEF ChangesInv
<1>2. /\ call[t] # NoCall /\ call[t].step = "logging" /\ o \in Object /\ arg[t] \in Line
      /\ pc[t] = "push" /\ hist' = Append(hist, arg[t]) /\ hist \in Seq(Line)
      /\ UNCHANGED <<arg, state, call, changes>>
    BY <1>1 DEF Push, CallInv, ObjectInv, LogInv, LoggerTypeOK, ArgInv, objectVars
<1>3. pc'[t] = "unlock" /\ \A u \in Thread : u # t => pc'[u] = pc[u]
    BY DEF Push, Goto, LogInv, LoggerTypeOK
<1>4. \A u \in Thread : u # t /\ call[u] # NoCall => call[u].object # o
    BY <1>1, <1>2, OthersElsewhere
<1> HIDE DEF o
<1>5. Owes(t, o)
    BY <1>2 DEF Owes, o
<1>6. arg[t].id = o /\ arg[t].state = changes[o][Len(changes[o])]
    BY <1>1, <1>2, <1>5 DEF DebtInv
<1>7. ASSUME NEW u \in Thread, NEW x
      PROVE  Owes(u, x)' <=> u # t /\ Owes(u, x)
    BY <1>2, <1>3 DEF Owes
<1>8. ASSUME NEW x \in Object, x # o
      PROVE  Owed(x)' <=> Owed(x)
    <2>1. ASSUME NEW u \in Thread PROVE Owes(u, x)' <=> Owes(u, x)
        <3>1. ~Owes(t, x)
            BY <1>8 DEF Owes, o
        <3>2. QED
            BY <1>7, <3>1
    <2>2. QED
        BY <2>1 DEF Owed
<1>9. ASSUME NEW x \in Object, x = o
      PROVE  Owed(x) /\ ~Owed(x)'
    <2>1. ASSUME NEW u \in Thread PROVE ~Owes(u, x)'
        <3>1. u # t => ~Owes(u, x)
            BY <1>4, <1>9 DEF Owes
        <3>2. QED
            BY <1>7, <3>1
    <2>2. QED
        BY <1>5, <1>9, <2>1 DEF Owed
<1>10. CallInv'
    BY <1>1, <1>2, <1>3 DEF CallInv
<1>11. DebtInv'
    BY <1>1, <1>2, <1>7 DEF DebtInv
<1>12. ASSUME NEW x \in Object
       PROVE  /\ Cardinality(About(hist', x)) =
                     Cardinality(About(hist, x)) + IF x = o THEN 1 ELSE 0
              /\ Cardinality(About(hist, x)) \in Nat
              /\ About(hist', x) = IF x = o THEN About(hist, x) \cup {n} ELSE About(hist, x)
              /\ \A i \in About(hist, x) :
                     hist'[i] = hist[i] /\ Place(hist', x, i) = Place(hist, x, i)
              /\ hist'[n] = arg[t]
              /\ x = o => Place(hist', x, n) = Cardinality(About(hist, x)) + 1
    <2>1. hist \in Seq(Line) /\ arg[t] \in Line /\ hist' = Append(hist, arg[t])
        BY <1>2
    <2>2. /\ arg[t].id = x =>
                 /\ About(hist', x) = About(hist, x) \cup {n}
                 /\ Cardinality(About(hist', x)) = Cardinality(About(hist, x)) + 1
                 /\ Place(hist', x, n) = Cardinality(About(hist, x)) + 1
          /\ arg[t].id # x => About(hist', x) = About(hist, x)
          /\ \A i \in About(hist, x) :
                 hist'[i] = hist[i] /\ Place(hist', x, i) = Place(hist, x, i)
          /\ hist'[n] = arg[t]
        BY <2>1, PlacePush
    <2>3. Cardinality(About(hist, x)) \in Nat
        BY <2>1, PlaceFacts
    <2> HIDE DEF n
    <2>4. QED
        BY <1>6, <2>2, <2>3
<1> HIDE DEF n
<1>13. CountInv'
    <2>1. ASSUME NEW x \in Object
          PROVE  Len(changes[x]) = Cardinality(About(hist', x)) + IF Owed(x)' THEN 1 ELSE 0
        <3>1. Len(changes[x]) = Cardinality(About(hist, x)) + IF Owed(x) THEN 1 ELSE 0
            BY <1>1 DEF CountInv
        <3>2. QED
            BY <1>8, <1>9, <1>12, <3>1
    <2>2. QED
        BY <1>2, <2>1 DEF CountInv
<1>14. PlaceInv'
    <2>1. ASSUME NEW x \in Object, NEW i \in About(hist', x)
          PROVE  hist'[i].state = changes[x][Place(hist', x, i)]
        <3>1. CASE i \in About(hist, x)
            BY <1>1, <1>12, <3>1 DEF PlaceInv
        <3>2. CASE x = o /\ i = n
            <4>1. Len(changes[x]) = Cardinality(About(hist, x)) + 1
                BY <1>1, <1>9, <3>2 DEF CountInv
            <4>2. Place(hist', x, i) = Len(changes[x])
                BY <1>12, <3>2, <4>1
            <4>3. QED
                BY <1>6, <1>12, <3>2, <4>2
        <3>3. QED
            BY <1>12, <3>1, <3>2
    <2>2. QED
        BY <1>2, <2>1 DEF PlaceInv
<1>15. QED
    BY <1>10, <1>11, <1>13, <1>14 DEF ChangesInv

(* The steps of the logger that push nothing: a line that is owed stays so. *)
LEMMA LoggerKeeps ==
    ASSUME ObjectInv, LogInv, ChangesInv,
           NEW t \in Thread, LoggerStep(t), ~Push(t), UNCHANGED objectVars
    PROVE  ChangesInv'
<1>1. CallInv /\ DebtInv /\ CountInv /\ PlaceInv
    BY DEF ChangesInv
<1>2. UNCHANGED <<state, call, changes, hist, arg>>
    BY DEF LoggerStep, Lock, Format, Unlock, ReadHead, ReadTail, IsMax, PrintLock, PrintEntry,
           PrintUnlock, objectVars
<1>3. pc \in [Thread -> {"idle", "lock", "format", "push", "unlock", "is_max",
                         "print_lock", "print"}]
    BY DEF LogInv, LoggerTypeOK
<1>4. /\ \A u \in Thread : u # t => pc'[u] = pc[u]
      /\ pc[t] # "idle"
      /\ pc'[t] \in {"lock", "format", "push"} <=> pc[t] \in {"lock", "format", "push"}
    <2>1. CASE Lock(t) \/ Format(t) \/ Unlock(t) \/ PrintLock(t) \/ PrintUnlock(t)
        BY <1>3, <2>1 DEF Lock, Format, Unlock, PrintLock, PrintUnlock, Goto
    <2>2. CASE IsMax(t)
        BY <1>3, <2>2 DEF IsMax, Goto
    <2>3. CASE ReadHead(t) \/ ReadTail(t) \/ PrintEntry(t)
        BY <2>3 DEF ReadHead, ReadTail, PrintEntry
    <2>4. QED
        BY <2>1, <2>2, <2>3 DEF LoggerStep
<1>5. ASSUME NEW u \in Thread, NEW x \in Object
      PROVE  Owes(u, x)' <=> Owes(u, x)
    BY <1>2, <1>4 DEF Owes
<1>6. CountInv' /\ PlaceInv'
    BY <1>1, <1>2, <1>5, QuietStep
<1>7. CallInv'
    BY <1>1, <1>2, <1>4 DEF CallInv
<1>8. DebtInv'
    BY <1>1, <1>2, <1>5 DEF DebtInv
<1>9. QED
    BY <1>6, <1>7, <1>8 DEF ChangesInv

(* setState() returns once the logger has: it owes nothing. *)
LEMMA ReturnKeeps ==
    ASSUME ObjectInv, ChangesInv, NEW t \in Thread, Return(t)
    PROVE  ChangesInv'
<1>1. CallInv /\ DebtInv /\ CountInv /\ PlaceInv
    BY DEF ChangesInv
<1>2. /\ call[t].step = "logging" /\ pc[t] = "idle"
      /\ UNCHANGED <<pc, arg, hist, state, changes>>
    BY DEF Return, loggerVars
<1>3. call'[t] = NoCall /\ \A u \in Thread : u # t => call'[u] = call[u]
    BY DEF Return, ObjectInv
<1>4. ASSUME NEW u \in Thread, NEW x \in Object
      PROVE  Owes(u, x)' <=> Owes(u, x)
    BY <1>2, <1>3 DEF Owes
<1>5. CountInv' /\ PlaceInv'
    BY <1>1, <1>2, <1>4, QuietStep
<1>6. CallInv'
    BY <1>1, <1>2, <1>3 DEF CallInv
<1>7. DebtInv'
    <2>1. ASSUME NEW u \in Thread, NEW x \in Object, Owes(u, x)'
          PROVE  call'[u] = call[u] /\ Owes(u, x)
        BY <1>3, <1>4, <2>1 DEF Owes
    <2>2. QED
        BY <1>1, <1>2, <2>1 DEF DebtInv
<1>8. QED
    BY <1>5, <1>6, <1>7 DEF ChangesInv

(* Every step keeps the invariant, if every object has one writer. *)
LEMMA ChangesNext ==
    ASSUME OneWriter, LogInv, ObjectInv, ChangesInv, [Next]_vars
    PROVE  ChangesInv'
<1>1. ASSUME NEW t \in Thread, NEW o \in Object, NEW new \in State, SetState(t, o, new)
      PROVE  ChangesInv'
    BY <1>1, SetKeeps
<1>2. ASSUME NEW t \in Thread, Step(t)
      PROVE  ChangesInv'
    BY <1>2, WriteKeeps, LogChangeKeeps, PushKeeps, LoggerKeeps, ReturnKeeps DEF Step
<1>3. CASE UNCHANGED vars
    <2>1. UNCHANGED <<pc, arg, hist, state, call, changes>>
        BY <1>3 DEF vars, loggerVars, objectVars
    <2>2. ASSUME NEW u \in Thread, NEW x \in Object
          PROVE  Owes(u, x)' <=> Owes(u, x)
        BY <2>1 DEF Owes
    <2>3. CountInv' /\ PlaceInv'
        BY <2>1, <2>2, QuietStep DEF ChangesInv
    <2>4. CallInv' /\ DebtInv'
        BY <2>1, <2>2 DEF ChangesInv, CallInv, DebtInv
    <2>5. QED
        BY <2>3, <2>4 DEF ChangesInv
<1>4. QED
    BY <1>1, <1>2, <1>3 DEF Next

(* Where every object is set by one task, as long as updateCredentials() is not
   called, the lines about it are its changes, however the tasks' lines mix in
   the log. *)
THEOREM OneWriterLogsEveryChange ==
    ASSUME OneWriter PROVE Spec => []EveryChangeLogged
<1>1. Init => ChangesInv
    BY ChangesInit
<1>2. LogInv /\ ObjectInv /\ ChangesInv /\ [Next]_vars => ChangesInv'
    BY ChangesNext
<1>3. LogInv /\ ObjectInv /\ ChangesInv => EveryChangeLogged
    <2> SUFFICES ASSUME LogInv, ObjectInv, ChangesInv, NEW o \in Object,
                        \A t \in Thread : call[t] # NoCall => call[t].object # o
                 PROVE  /\ Cardinality(LinesAbout(o)) = Len(changes[o])
                        /\ \A i \in LinesAbout(o) : hist[i].state = changes[o][Ordinal(o, i)]
        BY DEF EveryChangeLogged
    <2>1. ~Owed(o)
        BY DEF Owed, Owes
    <2>2. LinesAbout(o) = About(hist, o)
        BY DEF LinesAbout, About
    <2>3. \A i : Ordinal(o, i) = Place(hist, o, i)
        BY <2>2 DEF Ordinal, Place
    <2>4. Cardinality(About(hist, o)) = Len(changes[o])
        <3>1. Cardinality(About(hist, o)) \in Nat
            BY PlaceFacts DEF LogInv, LoggerTypeOK
        <3>2. QED
            BY <2>1, <3>1 DEF ChangesInv, CountInv
    <2>5. QED
        BY <2>2, <2>3, <2>4 DEF ChangesInv, PlaceInv
<1>4. QED
    BY <1>1, <1>2, <1>3, LogIsSound, PTL DEF Spec

=============================================================================
