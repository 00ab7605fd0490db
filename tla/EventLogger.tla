---------------------------- MODULE EventLogger ----------------------------
(***************************************************************************)
(* lib/Logger/EventLogger.hpp: the singleton that keeps the latest log     *)
(* lines in a CircularBuffer and prints them all once the buffer is full.  *)
(*                                                                         *)
(* logStateChange() holds mtx while it formats the line in a static buffer *)
(* and pushes it, releases it, and only then asks logs.is_max().  That     *)
(* call reads head_ and tail_ without the mutex, so it races with another  *)
(* thread's push: each of the two reads may return what was there before   *)
(* the push or after it, and the two reads come in either order.           *)
(*                                                                         *)
(* registerCallback() is not modelled: the loop that would call the        *)
(* callbacks is commented out, so nothing reads what it stores.            *)
(***************************************************************************)
EXTENDS Integers, Sequences

CONSTANTS
    Thread,      \* tasks that log: the event loop, the MQTT task, the application
    Line,        \* log lines: who changed, to what.  They fit the 64 bytes
    NoLine,      \* std::nullopt
    LostLine,    \* a moved-from string
    LogCapacity, \* CIRCULAR_BUFFER_MAX_SIZE
    Nobody       \* mtx is free

ASSUME LoggerAssumption ==
    /\ LogCapacity \in Nat \ {0}
    /\ Nobody \notin Thread
    /\ NoLine \notin Line
    /\ LostLine \notin Line
    /\ LostLine # NoLine

VARIABLES
    buffer_, head_, tail_, size_,   \* logs
    mtx,          \* the thread that holds the mutex, or Nobody
    buffer,       \* static char buffer[64], shared by all callers
    pc,           \* where each thread is in logStateChange()
    arg,          \* each thread's arguments, as the line they make
    stale,        \* head_ and tail_ before the push in progress
    seen,         \* what each thread's is_max() has read
    printed,      \* what each thread's printLatestLogs() has output
    hist          \* history: the arguments of every push, in order

ringVars == <<buffer_, head_, tail_, size_>>
loggerVars == <<ringVars, mtx, buffer, pc, arg, stale, seen, printed, hist>>

logs == INSTANCE CircularBuffer
            WITH BufferSize <- LogCapacity, Item <- Line, NoItem <- NoLine,
                 MovedFrom <- LostLine, popped <- NoLine

Unread == -1
Unseen == [head |-> Unread, tail |-> Unread]

LoggerInit ==
    /\ logs!Init
    /\ mtx = Nobody
    /\ buffer = NoLine
    /\ pc = [t \in Thread |-> "idle"]
    /\ arg = [t \in Thread |-> NoLine]
    /\ stale = [head |-> 0, tail |-> 0]
    /\ seen = [t \in Thread |-> Unseen]
    /\ printed = [t \in Thread |-> <<>>]
    /\ hist = <<>>

Goto(t, label) == pc' = [pc EXCEPT ![t] = label]

-----------------------------------------------------------------------------
\* Faulty variants of the definitions below.
LockIgnored(t) == TRUE
IsMaxAtLastButOne(h, i) == h # Unread /\ (h + 2) % (LogCapacity + 1) = i
UnlockForgotten(t) == mtx' = mtx

-----------------------------------------------------------------------------
\* std::mutex: not recursive, so its holder blocks on it like anybody else.
CanLock(t) == mtx = Nobody

Released(t) == mtx' = Nobody

\* CircularBuffer::is_max() of two values that need not belong together.
LooksFull(h, i) == (h + 1) % (LogCapacity + 1) = i

\* A caller enters logStateChange(id, state).
LogStateChange(t, line) ==
    /\ pc[t] = "idle"
    /\ Goto(t, "lock")
    /\ arg' = [arg EXCEPT ![t] = line]
    /\ UNCHANGED <<ringVars, mtx, buffer, stale, seen, printed, hist>>

Lock(t) ==
    /\ pc[t] = "lock"
    /\ CanLock(t)
    /\ mtx' = t
    /\ Goto(t, "format")
    /\ UNCHANGED <<ringVars, buffer, arg, stale, seen, printed, hist>>

\* snprintf(buffer, ...)
Format(t) ==
    /\ pc[t] = "format"
    /\ buffer' = arg[t]
    /\ Goto(t, "push")
    /\ UNCHANGED <<ringVars, mtx, arg, stale, seen, printed, hist>>

\* logs.push(std::string(buffer)): until the mutex is released another thread
\* may still find the old indices.
Push(t) ==
    /\ pc[t] = "push"
    /\ logs!Push(buffer)
    /\ stale' = [head |-> head_, tail |-> tail_]
    /\ hist' = Append(hist, arg[t])
    /\ Goto(t, "unlock")
    /\ UNCHANGED <<mtx, buffer, arg, seen, printed>>

Unlock(t) ==
    /\ pc[t] = "unlock"
    /\ Released(t)
    /\ stale' = [head |-> head_, tail |-> tail_]
    /\ Goto(t, "is_max")
    /\ UNCHANGED <<ringVars, buffer, arg, seen, printed, hist>>

ReadHead(t) ==
    /\ pc[t] = "is_max"
    /\ seen[t].head = Unread
    /\ \E h \in {head_, stale.head} : seen' = [seen EXCEPT ![t].head = h]
    /\ UNCHANGED <<ringVars, mtx, buffer, pc, arg, stale, printed, hist>>

ReadTail(t) ==
    /\ pc[t] = "is_max"
    /\ seen[t].tail = Unread
    /\ \E i \in {tail_, stale.tail} : seen' = [seen EXCEPT ![t].tail = i]
    /\ UNCHANGED <<ringVars, mtx, buffer, pc, arg, stale, printed, hist>>

\* if (logs.is_max()) printLatestLogs(); otherwise return
IsMax(t) ==
    /\ pc[t] = "is_max"
    /\ seen[t].head # Unread
    /\ seen[t].tail # Unread
    /\ Goto(t, IF LooksFull(seen[t].head, seen[t].tail) THEN "print_lock" ELSE "idle")
    /\ seen' = [seen EXCEPT ![t] = Unseen]
    /\ UNCHANGED <<ringVars, mtx, buffer, arg, stale, printed, hist>>

PrintLock(t) ==
    /\ pc[t] = "print_lock"
    /\ CanLock(t)
    /\ mtx' = t
    /\ Goto(t, "print")
    /\ printed' = [printed EXCEPT ![t] = <<>>]
    /\ UNCHANGED <<ringVars, buffer, arg, stale, seen, hist>>

\* One round of the loop; at(i) may be empty, and is then skipped.
PrintEntry(t) ==
    /\ pc[t] = "print"
    /\ Len(printed[t]) < size_
    /\ printed' = [printed EXCEPT ![t] = Append(@, logs!At(Len(@)))]
    /\ UNCHANGED <<ringVars, mtx, buffer, pc, arg, stale, seen, hist>>

PrintUnlock(t) ==
    /\ pc[t] = "print"
    /\ Len(printed[t]) = size_
    /\ Released(t)
    /\ Goto(t, "idle")
    /\ printed' = [printed EXCEPT ![t] = <<>>]
    /\ UNCHANGED <<ringVars, buffer, arg, stale, seen, hist>>

LoggerStep(t) ==
    \/ Lock(t)
    \/ Format(t)
    \/ Push(t)
    \/ Unlock(t)
    \/ ReadHead(t)
    \/ ReadTail(t)
    \/ IsMax(t)
    \/ PrintLock(t)
    \/ PrintEntry(t)
    \/ PrintUnlock(t)

-----------------------------------------------------------------------------
LoggerTypeOK ==
    /\ logs!TypeOK
    /\ mtx \in Thread \cup {Nobody}
    /\ buffer \in Line \cup {NoLine}
    /\ pc \in [Thread -> {"idle", "lock", "format", "push", "unlock", "is_max",
                          "print_lock", "print"}]
    /\ arg \in [Thread -> Line \cup {NoLine}]
    /\ stale \in [head : logs!Slots, tail : logs!Slots]
    /\ seen \in [Thread -> [head : logs!Slots \cup {Unread},
                            tail : logs!Slots \cup {Unread}]]
    /\ printed \in [Thread -> Seq(Line)]
    /\ hist \in Seq(Line)

(* The log is the end of the history: the lines pushed are those the callers
   passed in, although they are all formatted in one static buffer, in the
   order of the pushes, and only lines older than LogCapacity are gone. *)
LogIsRecentHistory ==
    LET n == IF Len(hist) < LogCapacity THEN Len(hist) ELSE LogCapacity
    IN  logs!Contents = SubSeq(hist, Len(hist) - n + 1, Len(hist))

(* logStateChange() prints a full log only, and prints it as it stands, in
   order: the unlocked is_max() can miss a full buffer but never invents one,
   and no push comes between two printed lines. *)
PrintsFullLog ==
    \A t \in Thread :
        /\ pc[t] \in {"print_lock", "print"} => size_ = LogCapacity
        /\ pc[t] = "print" => printed[t] = SubSeq(logs!Contents, 1, Len(printed[t]))

=============================================================================
