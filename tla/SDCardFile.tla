----------------------------- MODULE SDCardFile -----------------------------
(***************************************************************************)
(* lib/FileSystem/SDCardFileSystem.hpp: a file of lines on the SD card,    *)
(* used as a queue by one task: appendLine() at the end, removeFirstLine() *)
(* at the front; writeFile() and deleteFile() replace it as a whole.       *)
(*                                                                         *)
(* A file is the sequence of its lines and whether the last one is ended   *)
(* by a newline.  appendLine() ends the line it writes; writeFile() writes *)
(* its data and nothing else.  What is written behind a line that is not   *)
(* ended makes one line with it.                                           *)
(*                                                                         *)
(* The file system and the streams are external.  What the code relies on: *)
(*   - opening for writing truncates the file, at once and on the card;    *)
(*     opening for appending does not;                                     *)
(*   - what a stream is given may stay in its memory until it is closed;   *)
(*   - if the card is full, or a write to it fails, the beginning of what  *)
(*     the stream was given is on the card: none of it, some lines, the    *)
(*     last of them perhaps not ended or cut short.  The same holds of a   *)
(*     loss of power before the stream is closed.                          *)
(* A file that does not exist is an empty one that cannot be read or       *)
(* deleted.  No line is empty, and writeFile()'s data is one line without  *)
(* a newline.  readFile() and readFirstLine() change nothing.              *)
(***************************************************************************)
EXTENDS Integers, Sequences

CONSTANTS
    Faults,      \* what may happen: "open", "read", "full", "power"
    MaxLines     \* bound: how often appendLine() and writeFile() are called

ASSUME FileAssumption ==
    /\ Faults \subseteq {"open", "read", "full", "power"}
    /\ MaxLines \in Nat

VARIABLES
    file,        \* the file as the task has written it; a stream that is open may
                 \* still keep a part
    mounted,     \* the card is mounted
    op,          \* where the task is
    writer,      \* appendLine() or writeFile(), whichever was called last
    line,        \* its argument: the lines are numbered
    lines,       \* removeFirstLine()'s vector: what is still to be rewritten
    before,      \* the file when the call began
    asked,       \* history: mount() succeeded, and no unmount() followed
    result       \* what the last call was and what it returned

cardVars == <<mounted, asked>>
argVars == <<writer, line>>
vars == <<file, cardVars, op, argVars, lines, before, result>>

\* A line that is not as it was passed: cut short, or two in one.
Junk == 0

Stored(s) == [lines |-> s, ended |-> TRUE]
Empty == Stored(<<>>)

NoResult == [call |-> "none", ok |-> TRUE]
Returned(call, ok) == [call |-> call, ok |-> ok]

Init ==
    /\ file = Empty
    /\ mounted = FALSE
    /\ asked = FALSE
    /\ op = "idle"
    /\ writer = "append"
    /\ line = 0
    /\ lines = <<>>
    /\ before = Empty
    /\ result = NoResult

Fault(f) == f \in Faults

Return(call, ok) ==
    /\ op' = "idle"
    /\ result' = Returned(call, ok)

-----------------------------------------------------------------------------
\* Faulty variants of the definitions below.
KeepsFirst(s) == s
NotTruncated(f) == f
AlwaysTruncated(w, f) == Empty
NeverTruncated(w, f) == f
HandleValid(handle) == handle >= 0

-----------------------------------------------------------------------------
\* mount() and unmount()

Mount ==
    /\ op = "idle"
    /\ \/ ~mounted /\ mounted' = TRUE /\ asked' = TRUE
       \/ (mounted \/ Fault("open")) /\ UNCHANGED cardVars
    /\ UNCHANGED <<file, op, argVars, lines, before, result>>

\* fs: nobody ever stores another value in it.
WL_INVALID_HANDLE == -1

\* if (fs)
HandleSet(handle) == handle # 0

Unmount ==
    /\ op = "idle"
    /\ mounted' = (mounted /\ ~HandleSet(WL_INVALID_HANDLE))
    /\ asked' = FALSE
    /\ UNCHANGED <<file, op, argVars, lines, before, result>>

CannotOpen == Fault("open") \/ ~mounted

-----------------------------------------------------------------------------
\* What is in file f when x has been written to it, with a newline or without.
Written(f, x, newline) ==
    [lines |-> IF f.ended THEN Append(f.lines, x)
                          ELSE [f.lines EXCEPT ![Len(f.lines)] = Junk],
     ended |-> newline]

\* The same if a part of it is not written.
WrittenShort(f, x, newline) ==
    {f, Written(f, Junk, FALSE), Written(f, x, FALSE)} \ {Written(f, x, newline)}

\* What an empty file holds if lines s have been written to it, in part.
Beginning(s) ==
    UNION {WrittenShort(Stored(SubSeq(s, 1, n - 1)), s[n], TRUE) : n \in 1 .. Len(s)}

-----------------------------------------------------------------------------
\* appendLine(path, line) and writeFile(path, data), which differ in how they
\* open the file and in what they write.

\* std::ios::app, or none
Opened(w, f) == IF w = "append" THEN f ELSE Empty

\* << "\n", or nothing
EndsLine(w) == w = "append"

OpenToWrite(w) ==
    /\ op = "idle"
    /\ line < MaxLines
    /\ writer' = w
    /\ line' = line + 1
    /\ before' = file
    /\ \/ /\ mounted
          /\ op' = "write"
          /\ file' = Opened(w, file)
          /\ UNCHANGED result
       \/ /\ CannotOpen
          /\ UNCHANGED file
          /\ Return(w, FALSE)
    /\ UNCHANGED <<cardVars, lines>>

Write ==
    /\ op = "write"
    /\ file' = Written(file, line, EndsLine(writer))
    /\ op' = "close"
    /\ UNCHANGED <<cardVars, argVars, lines, before, result>>

\* file.fail()
WriteFailed ==
    /\ op = "write"
    /\ Fault("full")
    /\ file' \in WrittenShort(file, line, EndsLine(writer))
    /\ Return(writer, FALSE)
    /\ UNCHANGED <<cardVars, argVars, lines, before>>

\* What is on the card if the stream still keeps some of what it was given.
NotAll ==
    CASE op = "close"   -> WrittenShort(Opened(writer, before), line, EndsLine(writer))
      [] op = "rewrite" -> Beginning(file.lines)
      [] OTHER          -> {}

\* file.close(): whether it succeeds is not asked.
CloseWritten ==
    /\ op = "close"
    /\ UNCHANGED file \/ (Fault("full") /\ file' \in NotAll)
    /\ Return(writer, TRUE)
    /\ UNCHANGED <<cardVars, argVars, lines, before>>

-----------------------------------------------------------------------------
\* deleteFile(path)
DeleteFile ==
    /\ op = "idle"
    /\ before' = file
    /\ \/ /\ mounted
          /\ file' = Empty
          /\ Return("delete", TRUE)
       \/ /\ CannotOpen \/ file = Empty
          /\ UNCHANGED file
          /\ Return("delete", FALSE)
    /\ UNCHANGED <<cardVars, argVars, lines>>

-----------------------------------------------------------------------------
\* removeFirstLine(path)

\* All lines but the first; an empty file has none.
RestOf(s) == IF s = <<>> THEN <<>> ELSE Tail(s)

\* std::ofstream outFile(path)
Truncated(f) == Empty

\* The file is opened for reading and its lines are read, the last one whether
\* it is ended or not.
OpenRemove ==
    /\ op = "idle"
    /\ before' = file
    /\ UNCHANGED file
    /\ \/ /\ mounted
          /\ op' = "truncate"
          /\ lines' = RestOf(file.lines)
          /\ UNCHANGED result
       \/ /\ CannotOpen \/ Fault("read") \/ file = Empty
          /\ Return("remove", FALSE)
          /\ UNCHANGED lines
    /\ UNCHANGED <<cardVars, argVars>>

OpenRewrite ==
    /\ op = "truncate"
    /\ \/ /\ op' = "rewrite"
          /\ file' = Truncated(file)
          /\ UNCHANGED <<lines, result>>
       \/ /\ Fault("open")
          /\ lines' = <<>>
          /\ UNCHANGED file
          /\ Return("remove", FALSE)
    /\ UNCHANGED <<cardVars, argVars, before>>

\* outFile << l << "\n": the last line is ended here if it was not.
RewriteLine ==
    /\ op = "rewrite"
    /\ lines # <<>>
    /\ file' = Stored(Append(file.lines, Head(lines)))
    /\ lines' = Tail(lines)
    /\ UNCHANGED <<cardVars, op, argVars, before, result>>

\* outFile.fail(): of the lines that had been given to the stream before, too,
\* some may be lost.
RewriteFailed ==
    /\ op = "rewrite"
    /\ lines # <<>>
    /\ Fault("full")
    /\ file' \in Beginning(Append(file.lines, Head(lines)))
    /\ lines' = <<>>
    /\ Return("remove", FALSE)
    /\ UNCHANGED <<cardVars, argVars, before>>

\* outFile.close(): whether it succeeds is not asked.
CloseRemove ==
    /\ op = "rewrite"
    /\ lines = <<>>
    /\ UNCHANGED file \/ (Fault("full") /\ file' \in NotAll)
    /\ Return("remove", TRUE)
    /\ UNCHANGED <<cardVars, argVars, lines, before>>

-----------------------------------------------------------------------------
\* Memory is gone, and with it what a stream still kept.
PowerLoss ==
    /\ Fault("power")
    /\ file' \in {file} \cup NotAll
    /\ op' = "idle"
    /\ lines' = <<>>
    /\ result' = NoResult
    /\ mounted' = FALSE
    /\ asked' = FALSE
    /\ UNCHANGED <<argVars, before>>

Next ==
    \/ Mount
    \/ Unmount
    \/ \E w \in {"append", "write"} : OpenToWrite(w)
    \/ Write
    \/ WriteFailed
    \/ CloseWritten
    \/ DeleteFile
    \/ OpenRemove
    \/ OpenRewrite
    \/ RewriteLine
    \/ RewriteFailed
    \/ CloseRemove
    \/ PowerLoss

Spec == Init /\ [][Next]_vars

-----------------------------------------------------------------------------
(* Type invariant; only the last line can be without its end. *)
TypeOK ==
    /\ \A f \in {file, before, Stored(lines)} :
           /\ f \in [lines : Seq(0 .. MaxLines), ended : BOOLEAN]
           /\ Len(f.lines) <= MaxLines
           /\ f.lines = <<>> => f.ended
    /\ mounted \in BOOLEAN
    /\ asked \in BOOLEAN
    /\ op \in {"idle", "write", "close", "truncate", "rewrite"}
    /\ writer \in {"append", "write"}
    /\ line \in 0 .. MaxLines
    /\ result \in {NoResult} \cup [call : {"append", "write", "delete", "remove"}, ok : BOOLEAN]

(* The file keeps the order of the calls of appendLine() and no line is in it
   twice, after any failure, and after a loss of power in the middle of a
   rewrite. *)
InOrder ==
    \A i, j \in 1 .. Len(file.lines) :
        i < j => \/ file.lines[i] < file.lines[j]
                 \/ Junk \in {file.lines[i], file.lines[j]}

\* f holds the first of the lines s, of which it lacks something; only the last
\* one can be cut short.
PartOf(f, s) ==
    /\ Len(f.lines) <= Len(s)
    /\ f.ended => Len(f.lines) < Len(s)
    /\ \A i \in 1 .. Len(f.lines) :
           f.lines[i] = s[i] \/ (i = Len(f.lines) /\ f.lines[i] = Junk /\ ~f.ended)

(* Wherever removeFirstLine() fails, it takes lines from the two ends of the
   file only: the first, and, once the file has been truncated, those at the end
   that could not be written back, whatever it returns.  The first line stays
   only if the whole file does, and then false is returned. *)
RemovesFirstOnly ==
    op = "idle" /\ result.call = "remove" =>
        LET others == IF before.lines = <<>> THEN <<>> ELSE Tail(before.lines)
        IN  \/ ~result.ok /\ file = before
            \/ result.ok /\ file = Stored(others)
            \/ PartOf(file, others)

(* appendLine() touches no line but its own, except that it makes one line of
   its own and the last if that has no end, as writeFile() leaves it.  One that
   returned false has left no line of its own that is ended. *)
AppendsOwnOnly ==
    op = "idle" /\ result.call = "append" /\ file # before =>
        /\ file.ended => result.ok
        /\ IF before.ended
           THEN \/ file.lines = Append(before.lines, line)
                \/ file.lines = Append(before.lines, Junk) /\ ~file.ended
           ELSE file.lines = [before.lines EXCEPT ![Len(before.lines)] = Junk]

(* writeFile() leaves no line of the old file behind, except when it returned
   false and has not touched it; true does not tell that the data is there. *)
WriteReplaces ==
    op = "idle" /\ result.call = "write" =>
        \/ ~result.ok /\ file = before
        \/ file = Empty
        \/ ~file.ended /\ file.lines = <<Junk>>
        \/ ~file.ended /\ file.lines = <<line>> /\ result.ok

(* The card is mounted from a mount() that returned true to the next
   unmount(), although the handle that unmount() tests is never set. *)
MountedAsAsked == mounted = asked

(* "Failed to append data to file: (possibly out of space)": a call of
   appendLine() that found the card full does not return true. *)
AppendedIsStored ==
    op = "idle" /\ result = Returned("append", TRUE) => file = Written(before, line, TRUE)

-----------------------------------------------------------------------------
\* A call takes effect when it returns.
Promise ==
    INSTANCE LineQueue
    WITH queue  <- IF op = "idle" THEN file ELSE before,
         passed <- IF op \in {"write", "close"} THEN line - 1 ELSE line

(* Each call does to the file, in one step, what the queue of lines does: all
   of it, nothing, or, if a write fails or power is lost before the file is
   closed, one of the parts that LineQueue names.  A removal that is cut short
   keeps the oldest of the lines it was to keep. *)
ImplementsQueue == Promise!Spec

=============================================================================
