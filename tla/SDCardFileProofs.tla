-------------------------- MODULE SDCardFileProofs --------------------------
(***************************************************************************)
(* Proofs about SDCardFile, for every number of lines and every set of     *)
(* faults.                                                                 *)
(***************************************************************************)
EXTENDS SDCardFile, SequenceTheorems, TLAPS

Ordered(s) ==
    \A i, j \in 1 .. Len(s) : i < j => s[i] < s[j] \/ Junk \in {s[i], s[j]}

\* s can be lines of the file once n lines have been passed to the calls.
LinesOf(s, n) == s \in Seq(0 .. n) /\ Len(s) <= n /\ Ordered(s)

\* f can be the file.
FileOf(f, n) ==
    /\ f \in [lines : Seq(0 .. n), ended : BOOLEAN]
    /\ LinesOf(f.lines, n)
    /\ f.lines = <<>> => f.ended

\* s and then l are the lines r.
Divided(s, l, r) ==
    /\ Len(s) + Len(l) = Len(r)
    /\ \A i \in 1 .. Len(s) : s[i] = r[i]
    /\ \A i \in 1 .. Len(l) : l[i] = r[Len(s) + i]

FilesInv ==
    /\ FileOf(file, line)
    /\ FileOf(before, IF op \in {"write", "close"} THEN line - 1 ELSE line)
    /\ LinesOf(lines, line)

ControlInv ==
    /\ mounted \in BOOLEAN
    /\ asked \in BOOLEAN
    /\ op \in {"idle", "write", "close", "truncate", "rewrite"}
    /\ writer \in {"append", "write"}
    /\ line \in 0 .. MaxLines
    /\ op \in {"write", "close"} => line > 0
    /\ op \notin {"truncate", "rewrite"} => lines = <<>>
    /\ result \in {NoResult} \cup [call : {"append", "write", "delete", "remove"}, ok : BOOLEAN]

\* What the stream's file was when it was opened, and is once it is written.
WriteInv ==
    /\ op = "write" => file = Opened(writer, before)
    /\ op = "close" => file = Written(Opened(writer, before), line, EndsLine(writer))

\* What has been rewritten and what has not make up the rest.
RemoveInv ==
    /\ op = "truncate" => file = before /\ lines = RestOf(before.lines)
    /\ op = "rewrite" => file.ended /\ Divided(file.lines, lines, RestOf(before.lines))

SDInv ==
    /\ FilesInv
    /\ ControlInv
    /\ WriteInv
    /\ RemoveInv
    /\ RemovesFirstOnly
    /\ AppendsOwnOnly
    /\ WriteReplaces
    /\ MountedAsAsked

-----------------------------------------------------------------------------
(* An empty file is a file. *)
LEMMA EmptyFile == ASSUME NEW n \in Nat PROVE LinesOf(<<>>, n) /\ FileOf(Empty, n)
BY DEF LinesOf, FileOf, Ordered, Empty, Stored

(* A later call finds no fewer lines possible. *)
LEMMA LinesMonotonic ==
    ASSUME NEW m \in Nat, NEW n \in Nat, m <= n
    PROVE  /\ \A s : LinesOf(s, m) => LinesOf(s, n)
           /\ \A f : FileOf(f, m) => FileOf(f, n)
<1>1. 0 .. m \subseteq 0 .. n
    OBVIOUS
<1>2. ASSUME NEW s, LinesOf(s, m) PROVE LinesOf(s, n)
    <2>1. s \in Seq(0 .. n)
        BY <1>1, <1>2, SeqMonotonic DEF LinesOf
    <2>2. Len(s) \in Nat
        BY <2>1, LenProperties
    <2>3. QED
        BY <1>2, <2>1, <2>2 DEF LinesOf
<1>3. ASSUME NEW f, FileOf(f, m) PROVE FileOf(f, n)
    BY <1>2, <1>3 DEF FileOf, LinesOf
<1>4. QED
    BY <1>2, <1>3

(* One more line at the end: the newest, or one that is not whole. *)
LEMMA OneMore ==
    ASSUME NEW n \in Nat, NEW s, LinesOf(s, n), NEW x \in {Junk, n + 1}
    PROVE  LinesOf(Append(s, x), n + 1)
<1> DEFINE g == Append(s, x)
<1>1. s \in Seq(0 .. n) /\ Len(s) \in Nat /\ Len(s) <= n
    BY LenProperties DEF LinesOf
<1>2. \A i \in 1 .. Len(s) : s[i] \in 0 .. n
    BY <1>1, ElementOfSeq
<1>3. s \in Seq(0 .. n + 1) /\ x \in 0 .. n + 1
    BY <1>1, SeqMonotonic, 0 .. n \subseteq 0 .. n + 1 DEF Junk
<1>4. /\ g \in Seq(0 .. n + 1)
      /\ Len(g) = Len(s) + 1
      /\ \A i \in 1 .. Len(g) : g[i] = IF i = Len(s) + 1 THEN x ELSE s[i]
    BY <1>3
<1> HIDE DEF g
<1>5. Ordered(g)
    <2>1. SUFFICES ASSUME NEW i \in 1 .. Len(g), NEW j \in 1 .. Len(g), i < j
                   PROVE  g[i] < g[j] \/ Junk \in {g[i], g[j]}
        BY DEF Ordered
    <2>2. i \in 1 .. Len(s) /\ i # Len(s) + 1 /\ g[i] = s[i]
        <3>1. Len(s) \in Nat /\ Len(g) = Len(s) + 1 /\ i \in Nat /\ j \in Nat
            BY <1>1, <1>4, <2>1
        <3>2. i \in 1 .. Len(s) /\ i # Len(s) + 1
            BY <2>1, <3>1
        <3>3. QED
            BY <1>4, <2>1, <3>2
    <2>3. CASE j = Len(s) + 1
        BY <1>2, <1>4, <2>2, <2>3
    <2>4. CASE j # Len(s) + 1
        <3>1. j \in 1 .. Len(s) /\ g[j] = s[j]
            BY <1>1, <1>4, <2>4
        <3>2. QED
            BY <2>1, <2>2, <3>1 DEF LinesOf, Ordered
    <2>5. QED
        BY <2>3, <2>4
<1>6. QED
    BY <1>1, <1>4, <1>5 DEF LinesOf, g

(* Lines that are those of s, from the first on, but for some that are not
   whole. *)
LEMMA FromTheFirst ==
    ASSUME NEW n \in Nat, NEW s, LinesOf(s, n), NEW g \in Seq(0 .. n), Len(g) <= Len(s),
           \A i \in 1 .. Len(g) : g[i] \in {s[i], Junk}
    PROVE  LinesOf(g, n)
<1>1. Len(s) \in Nat /\ Len(g) \in Nat /\ Len(s) <= n
    BY LenProperties DEF LinesOf
<1>2. Ordered(g)
    <2>1. SUFFICES ASSUME NEW i \in 1 .. Len(g), NEW j \in 1 .. Len(g), i < j
                   PROVE  g[i] < g[j] \/ Junk \in {g[i], g[j]}
        BY DEF Ordered
    <2>2. i \in 1 .. Len(s) /\ j \in 1 .. Len(s)
        BY <1>1
    <2>3. s[i] < s[j] \/ Junk \in {s[i], s[j]}
        BY <2>1, <2>2 DEF LinesOf, Ordered
    <2>4. QED
        BY <2>3
<1>3. QED
    BY <1>1, <1>2 DEF LinesOf

(* What a line, with or without a newline, makes of a file, in full or not. *)
LEMMA WrittenFile ==
    ASSUME NEW n \in Nat, NEW f, FileOf(f, n), NEW e \in BOOLEAN
    PROVE  /\ FileOf(f, n + 1)
           /\ FileOf(Written(f, n + 1, e), n + 1)
           /\ \A g \in WrittenShort(f, n + 1, e) : FileOf(g, n + 1)
<1>1. FileOf(f, n + 1)
    BY LinesMonotonic
<1>2. ASSUME NEW x \in {Junk, n + 1}, NEW nl \in BOOLEAN
      PROVE  FileOf(Written(f, x, nl), n + 1)
    <2> DEFINE s == f.lines
    <2>1. s \in Seq(0 .. n) /\ Len(s) \in Nat /\ f.ended \in BOOLEAN /\ LinesOf(s, n)
        BY LenProperties DEF FileOf
    <2>2. CASE f.ended
        <3>1. LinesOf(Append(s, x), n + 1)
            BY <2>1, OneMore
        <3>2. Append(s, x) # <<>>
            BY <2>1
        <3>3. Written(f, x, nl) = [lines |-> Append(s, x), ended |-> nl]
            BY <2>2 DEF Written
        <3> HIDE DEF s
        <3>4. QED
            BY <3>1, <3>2, <3>3 DEF FileOf, LinesOf
    <2>3. CASE ~f.ended
        <3> DEFINE g == [s EXCEPT ![Len(s)] = Junk]
        <3>1. s # <<>> /\ Len(s) \in 1 .. Len(s)
            BY <2>1, <2>3, EmptySeq DEF FileOf
        <3>2. g \in Seq(0 .. n) /\ Len(g) = Len(s)
            BY <2>1, <3>1, ExceptSeq, Junk \in 0 .. n DEF Junk
        <3>3. \A i \in 1 .. Len(g) : g[i] \in {s[i], Junk}
            BY <2>1, <3>1, <3>2, ExceptSeq, Junk \in 0 .. n DEF Junk
        <3>4. Written(f, x, nl) = [lines |-> g, ended |-> nl]
            BY <2>3 DEF Written
        <3> HIDE DEF g, s
        <3>5. LinesOf(g, n)
            <4>1. Len(g) <= Len(s)
                BY <2>1, <3>2
            <4>2. QED
                BY ONLY n \in Nat, <2>1, <3>2, <3>3, <4>1, FromTheFirst, Zenon
        <3>6. LinesOf(g, n + 1) /\ g # <<>>
            BY <2>1, <3>1, <3>2, <3>5, LinesMonotonic
        <3>7. QED
            BY <3>4, <3>6 DEF FileOf, LinesOf
    <2>4. QED
        BY <2>1, <2>2, <2>3
<1>3. QED
    BY <1>1, <1>2 DEF WrittenShort

(* The lines without the first. *)
LEMMA RestLines ==
    ASSUME NEW n \in Nat, NEW s, LinesOf(s, n)
    PROVE  LinesOf(RestOf(s), n)
<1>1. CASE s = <<>>
    BY <1>1, EmptyFile DEF RestOf
<1>2. CASE s # <<>>
    <2>1. /\ Tail(s) \in Seq(0 .. n)
          /\ Len(s) \in Nat /\ Len(Tail(s)) = Len(s) - 1
          /\ \A i \in 1 .. Len(Tail(s)) : Tail(s)[i] = s[i + 1]
        BY <1>2, HeadTailProperties, LenProperties DEF LinesOf
    <2>2. QED
        BY <1>2, <2>1 DEF RestOf, LinesOf, Ordered
<1>3. QED
    BY <1>1, <1>2

(* What is on the card of lines that have been written in part. *)
LEMMA BeginningFile ==
    ASSUME NEW n \in Nat, NEW s, LinesOf(s, n), NEW g \in Beginning(s)
    PROVE  FileOf(g, n) /\ PartOf(g, s)
<1>1. s \in Seq(0 .. n) /\ Len(s) \in Nat
    BY LenProperties DEF LinesOf
<1>2. PICK k \in 1 .. Len(s) : g \in WrittenShort(Stored(SubSeq(s, 1, k - 1)), s[k], TRUE)
    BY DEF Beginning
<1> DEFINE p == SubSeq(s, 1, k - 1)
<1>3. s[k] \in 0 .. n
    BY <1>1, ElementOfSeq
<1>4. p \in Seq(0 .. n) /\ Len(p) = k - 1 /\ \A i \in 1 .. k - 1 : p[i] = s[i]
    <2>1. \A i \in 1 .. k - 1 : s[i] \in 0 .. n
        <3>1. \A i \in 1 .. k - 1 : i \in 1 .. Len(s)
            BY <1>1
        <3>2. QED
            BY <1>1, <3>1, ElementOfSeq
    <2>2. /\ p \in Seq(0 .. n)
          /\ Len(p) = IF 1 <= k - 1 THEN (k - 1) - 1 + 1 ELSE 0
          /\ \A i \in 1 .. (k - 1) - 1 + 1 : p[i] = s[1 + i - 1]
        BY <1>1, <2>1, SubSeqProperties
    <2>3. \A i \in 1 .. k - 1 : 1 + i - 1 = i
        BY <1>1
    <2>4. (k - 1) - 1 + 1 = k - 1 /\ (IF 1 <= k - 1 THEN k - 1 ELSE 0) = k - 1
        BY <1>1
    <2>5. QED
        BY <2>2, <2>3, <2>4
<1> HIDE DEF p
<1>5. ASSUME NEW x \in {Junk, s[k]}
      PROVE  /\ Append(p, x) \in Seq(0 .. n) /\ Len(Append(p, x)) = k
             /\ \A i \in 1 .. k : Append(p, x)[i] = IF i = k THEN x ELSE s[i]
    <2>1. x \in 0 .. n
        BY <1>3 DEF Junk
    <2>2. /\ Append(p, x) \in Seq(0 .. n) /\ Len(Append(p, x)) = k
          /\ \A i \in 1 .. k : Append(p, x)[i] = IF i = k THEN x ELSE p[i]
        BY <1>4, <2>1
    <2>3. \A i \in 1 .. k : i # k => i \in 1 .. k - 1
        OBVIOUS
    <2>4. QED
        BY <1>4, <2>2, <2>3
<1>6. \/ g = [lines |-> p, ended |-> TRUE]
      \/ \E x \in {Junk, s[k]} : g = [lines |-> Append(p, x), ended |-> FALSE]
    BY <1>2 DEF p, WrittenShort, Written, Stored
<1> DEFINE Fits ==
        PartOf(g, s) /\ g \in [lines : Seq(0 .. n), ended : BOOLEAN] /\ (g.lines = <<>> => g.ended)
<1>7. Fits
    <2>1. CASE g = [lines |-> p, ended |-> TRUE]
        BY <1>1, <1>4, <2>1 DEF PartOf
    <2>2. ASSUME NEW x \in {Junk, s[k]}, g = [lines |-> Append(p, x), ended |-> FALSE]
          PROVE  Fits
        <3> DEFINE a == Append(p, x)
        <3>1. /\ a \in Seq(0 .. n) /\ Len(a) = k
              /\ \A i \in 1 .. k : a[i] = IF i = k THEN x ELSE s[i]
            BY <1>5
        <3> HIDE DEF a
        <3>2. g.lines = a /\ g.ended = FALSE /\ g = [lines |-> a, ended |-> FALSE]
            BY <2>2 DEF a
        <3>3. a # <<>>
            BY <3>1
        <3>4. QED
            BY <1>1, <3>1, <3>2, <3>3 DEF PartOf
    <2>3. QED
        BY <1>6, <2>1, <2>2
<1>8. \A i \in 1 .. Len(g.lines) : g.lines[i] \in {s[i], Junk}
    BY <1>7 DEF PartOf
<1>9. LinesOf(g.lines, n)
    BY <1>7, <1>8, FromTheFirst DEF PartOf
<1>10. QED
    BY <1>7, <1>9 DEF FileOf

(* A part of the lines at the beginning is a part of all. *)
LEMMA PartOfMore ==
    ASSUME NEW n \in Nat, NEW s, LinesOf(s, n), NEW l, LinesOf(l, n), NEW r, LinesOf(r, n),
           Divided(s, l, r), NEW f, FileOf(f, n)
    PROVE  /\ PartOf(f, s) => PartOf(f, r)
           /\ l # <<>> => PartOf(Stored(s), r)
           /\ l = <<>> => s = r
<1>1. /\ s \in Seq(0 .. n) /\ l \in Seq(0 .. n) /\ r \in Seq(0 .. n)
      /\ Len(s) \in Nat /\ Len(l) \in Nat /\ Len(r) \in Nat
      /\ f.lines \in Seq(0 .. n) /\ Len(f.lines) \in Nat
    BY LenProperties DEF LinesOf, FileOf
<1>2. Len(s) + Len(l) = Len(r) /\ \A i \in 1 .. Len(s) : s[i] = r[i]
    BY DEF Divided
<1>3. PartOf(f, s) => PartOf(f, r)
    BY <1>1, <1>2 DEF PartOf
<1>4. l # <<>> => PartOf(Stored(s), r)
    <2>1. HAVE l # <<>>
    <2>2. Len(l) > 0
        BY <1>1, <2>1, EmptySeq
    <2>3. QED
        BY <1>1, <1>2, <2>2 DEF PartOf, Stored
<1>5. l = <<>> => s = r
    BY <1>1, <1>2, SeqEqual
<1>6. QED
    BY <1>3, <1>4, <1>5

(* One line goes from what is still to be written to what is written. *)
LEMMA DividedMoves ==
    ASSUME NEW n \in Nat, NEW s, LinesOf(s, n), NEW l, LinesOf(l, n), l # <<>>,
           NEW r, LinesOf(r, n), Divided(s, l, r)
    PROVE  /\ Divided(Append(s, Head(l)), Tail(l), r)
           /\ LinesOf(Append(s, Head(l)), n) /\ LinesOf(Tail(l), n)
<1>1. /\ s \in Seq(0 .. n) /\ l \in Seq(0 .. n) /\ r \in Seq(0 .. n)
      /\ Len(s) \in Nat /\ Len(l) \in Nat \ {0} /\ Len(r) \in Nat
    BY LenProperties, EmptySeq DEF LinesOf
<1> DEFINE a == Append(s, Head(l))
           b == Tail(l)
<1>2. Head(l) = l[1] /\ l[1] \in 0 .. n
    BY <1>1, HeadTailProperties, ElementOfSeq
<1>3. /\ a \in Seq(0 .. n) /\ Len(a) = Len(s) + 1
      /\ \A i \in 1 .. Len(a) : a[i] = IF i = Len(s) + 1 THEN l[1] ELSE s[i]
    BY <1>1, <1>2
<1>4. /\ b \in Seq(0 .. n) /\ Len(b) = Len(l) - 1
      /\ \A i \in 1 .. Len(b) : b[i] = l[i + 1]
    BY <1>1, HeadTailProperties
<1>5. LinesOf(b, n)
    BY RestLines DEF RestOf
<1> HIDE DEF a, b
<1>6. Divided(a, b, r)
    <2>1. Len(a) + Len(b) = Len(r)
        <3>1. Len(s) + Len(l) = Len(r)
            BY DEF Divided
        <3>2. Len(a) = Len(s) + 1 /\ Len(b) = Len(l) - 1
            BY <1>3, <1>4
        <3>3. Len(s) \in Nat /\ Len(l) \in Nat
            BY <1>1
        <3>4. QED
            BY ONLY <3>1, <3>2, <3>3
    <2>2. \A i \in 1 .. Len(a) : a[i] = r[i]
        <3>1. TAKE i \in 1 .. Len(a)
        <3>2. CASE i = Len(s) + 1
            <4>1. l[1] = r[Len(s) + 1]
                BY <1>1 DEF Divided
            <4>2. QED
                BY <1>3, <3>2, <4>1
        <3>3. CASE i # Len(s) + 1
            <4>1. i \in 1 .. Len(s)
                BY <1>1, <1>3, <3>3
            <4>2. QED
                BY <1>3, <3>3, <4>1 DEF Divided
        <3>4. QED
            BY <3>2, <3>3
    <2>3. \A i \in 1 .. Len(b) : b[i] = r[Len(a) + i]
        <3>1. TAKE i \in 1 .. Len(b)
        <3>2. i + 1 \in 1 .. Len(l) /\ Len(s) + (i + 1) = Len(a) + i
            BY <1>1, <1>3, <1>4
        <3>3. QED
            BY <1>4, <3>2 DEF Divided
    <2>4. QED
        BY <2>1, <2>2, <2>3 DEF Divided
<1>7. LinesOf(a, n)
    <2>1. Len(a) <= Len(r)
        BY <1>1, <1>3 DEF Divided
    <2>2. \A i \in 1 .. Len(a) : a[i] \in {r[i], Junk}
        BY <1>6 DEF Divided
    <2>3. QED
        BY ONLY n \in Nat, LinesOf(r, n), <1>3, <2>1, <2>2, FromTheFirst, Zenon
<1>8. QED
    BY <1>5, <1>6, <1>7 DEF a, b

-----------------------------------------------------------------------------
(* The card is delivered with an empty file. *)
LEMMA SDInit == Init => SDInv
<1>1. SUFFICES ASSUME Init PROVE SDInv
    OBVIOUS
<1> USE <1>1 DEF Init
<1>2. FilesInv
    BY EmptyFile DEF FilesInv
<1>3. ControlInv
    <2>1. result \in {NoResult}
        OBVIOUS
    <2>2. line \in 0 .. MaxLines
        BY FileAssumption
    <2>3. QED
        BY <2>1, <2>2 DEF ControlInv
<1>4. WriteInv /\ RemoveInv /\ MountedAsAsked
    BY DEF WriteInv, RemoveInv, MountedAsAsked
<1>5. RemovesFirstOnly /\ AppendsOwnOnly /\ WriteReplaces
    BY DEF RemovesFirstOnly, AppendsOwnOnly, WriteReplaces, NoResult
<1>6. QED
    BY <1>2, <1>3, <1>4, <1>5 DEF SDInv

(* What is known of the line's number. *)
LEMMA LineType ==
    ASSUME SDInv
    PROVE  /\ line \in Nat
           /\ op \in {"write", "close"} => line - 1 \in Nat /\ line = (line - 1) + 1
BY FileAssumption DEF SDInv, ControlInv

(* A step that leaves the file and the calls alone. *)
LEMMA FilesUnchanged ==
    ASSUME SDInv, mounted' \in BOOLEAN, asked' \in BOOLEAN, MountedAsAsked',
           UNCHANGED <<file, op, argVars, lines, before, result>>
    PROVE  SDInv'
BY DEF SDInv, FilesInv, ControlInv, WriteInv, RemoveInv, RemovesFirstOnly, AppendsOwnOnly,
       WriteReplaces, argVars

(* mount() and unmount() *)
LEMMA MountKeeps == SDInv /\ (Mount \/ Unmount) => SDInv'
<1>1. SUFFICES ASSUME SDInv, Mount \/ Unmount PROVE SDInv'
    OBVIOUS
<1>2. UNCHANGED <<file, op, argVars, lines, before, result>>
    BY <1>1 DEF Mount, Unmount
<1>3. HandleSet(WL_INVALID_HANDLE)
    BY DEF HandleSet, WL_INVALID_HANDLE
<1>4. mounted \in BOOLEAN /\ asked \in BOOLEAN /\ mounted = asked
    BY <1>1 DEF SDInv, ControlInv, MountedAsAsked
<1>5. mounted' \in BOOLEAN /\ asked' \in BOOLEAN /\ mounted' = asked'
    BY <1>1, <1>3, <1>4, Zenon DEF Mount, Unmount, cardVars
<1>6. QED
    BY <1>1, <1>2, <1>5, FilesUnchanged DEF MountedAsAsked

(* A call that returns: what is left to show is its result. *)
LEMMA ReturnKeeps ==
    ASSUME SDInv, NEW call \in {"append", "write", "delete", "remove"}, NEW ok \in BOOLEAN,
           Return(call, ok),
           UNCHANGED cardVars, line' \in 0 .. MaxLines, writer' \in {"append", "write"},
           lines' = <<>>, FileOf(file', line'), FileOf(before', line'),
           RemovesFirstOnly', AppendsOwnOnly', WriteReplaces'
    PROVE  SDInv'
<1>1. line' \in Nat
    BY FileAssumption
<1>2. op' = "idle" /\ result' = [call |-> call, ok |-> ok]
    BY DEF Return, Returned
<1>3. FilesInv'
    BY <1>1, <1>2, EmptyFile DEF FilesInv
<1>4. result' \in [call : {"append", "write", "delete", "remove"}, ok : BOOLEAN]
    BY <1>2
<1>5. ControlInv'
    BY <1>2, <1>4 DEF SDInv, ControlInv, cardVars
<1>6. WriteInv' /\ RemoveInv' /\ MountedAsAsked'
    BY <1>2 DEF SDInv, WriteInv, RemoveInv, MountedAsAsked, cardVars
<1>7. QED
    BY <1>3, <1>5, <1>6 DEF SDInv

(* The file is opened for writing, or cannot be opened. *)
LEMMA OpenToWriteKeeps ==
    ASSUME SDInv, NEW w \in {"append", "write"}, OpenToWrite(w)
    PROVE  SDInv'
<1>1. line \in Nat /\ line' = line + 1 /\ line' \in 0 .. MaxLines /\ line' - 1 = line
    BY FileAssumption DEF SDInv, ControlInv, OpenToWrite
<1>2. op = "idle" /\ writer' = w /\ before' = file /\ lines' = lines /\ lines = <<>>
      /\ UNCHANGED cardVars
    BY DEF OpenToWrite, SDInv, ControlInv
<1>3. FileOf(file, line) /\ FileOf(file, line') /\ FileOf(Empty, line')
    BY <1>1, EmptyFile, LinesMonotonic DEF SDInv, FilesInv
<1>4. CASE op' = "write"
    <2>1. file' = Opened(w, file) /\ FileOf(file', line') /\ result' = result
        BY <1>3, <1>4 DEF Opened, OpenToWrite, Return
    <2>2. FilesInv'
        BY <1>1, <1>2, <1>3, <1>4, <2>1, EmptyFile DEF FilesInv
    <2>3. ControlInv'
        BY <1>1, <1>2, <1>4, <2>1 DEF SDInv, ControlInv, cardVars
    <2>4. WriteInv' /\ RemoveInv' /\ MountedAsAsked'
        BY <1>2, <1>4, <2>1 DEF WriteInv, RemoveInv, SDInv, MountedAsAsked, cardVars
    <2>5. RemovesFirstOnly' /\ AppendsOwnOnly' /\ WriteReplaces'
        BY <1>4 DEF RemovesFirstOnly, AppendsOwnOnly, WriteReplaces
    <2>6. QED
        BY <2>2, <2>3, <2>4, <2>5 DEF SDInv
<1>5. CASE op' # "write"
    <2>1. file' = file /\ Return(w, FALSE)
        BY <1>5 DEF OpenToWrite
    <2>2. RemovesFirstOnly' /\ AppendsOwnOnly' /\ WriteReplaces'
        BY <1>2, <2>1 DEF RemovesFirstOnly, AppendsOwnOnly, WriteReplaces, Return, Returned
    <2>3. QED
        BY <1>1, <1>2, <1>3, <2>1, <2>2, ReturnKeeps
<1>6. QED
    BY <1>4, <1>5

(* The file that a call found when it had opened it. *)
LEMMA OpenedFile ==
    ASSUME SDInv, op \in {"write", "close"}
    PROVE  FileOf(Opened(writer, before), line - 1) /\ FileOf(before, line)
<1>1. line - 1 \in Nat /\ line \in Nat /\ line - 1 <= line
    BY LineType
<1>2. FileOf(before, line - 1)
    BY DEF SDInv, FilesInv
<1>3. QED
    BY <1>1, <1>2, EmptyFile, LinesMonotonic DEF Opened

(* The stream has taken the argument. *)
LEMMA WriteKeeps == ASSUME SDInv, Write PROVE SDInv'
<1>1. /\ op = "write" /\ op' = "close" /\ lines = <<>>
      /\ UNCHANGED <<cardVars, argVars, lines, before, result>>
      /\ EndsLine(writer) \in BOOLEAN
    BY DEF Write, SDInv, ControlInv, EndsLine
<1>2. line - 1 \in Nat /\ line = (line - 1) + 1 /\ FileOf(Opened(writer, before), line - 1)
    BY <1>1, LineType, OpenedFile
<1>3. file = Opened(writer, before) /\ file' = Written(file, line, EndsLine(writer))
    BY <1>1 DEF SDInv, WriteInv, Write
<1>4. FileOf(file', line)
    BY <1>1, <1>2, <1>3, WrittenFile
<1>5. FilesInv' /\ WriteInv'
    BY <1>1, <1>3, <1>4 DEF SDInv, FilesInv, WriteInv, argVars
<1>6. ControlInv'
    BY <1>1 DEF SDInv, ControlInv, cardVars, argVars
<1>7. QED
    BY <1>1, <1>5, <1>6
    DEF SDInv, RemoveInv, RemovesFirstOnly, AppendsOwnOnly, WriteReplaces, MountedAsAsked, cardVars

(* How a call that writes returns: with its argument written in full, in part,
   or not at all. *)
LEMMA HowWriteReturns ==
    ASSUME SDInv, WriteFailed \/ CloseWritten
    PROVE  \E ok \in BOOLEAN :
               LET f == Opened(writer, before)
                   e == EndsLine(writer)
               IN  /\ Return(writer, ok)
                   /\ \/ ok /\ file' = Written(f, line, e)
                      \/ file' \in WrittenShort(f, line, e)
<1>1. CASE WriteFailed
    BY <1>1 DEF WriteFailed, SDInv, WriteInv
<1>2. CASE CloseWritten
    BY <1>2 DEF CloseWritten, NotAll, SDInv, WriteInv
<1>3. QED
    BY <1>1, <1>2

(* The call returns. *)
LEMMA WriteEnds == ASSUME SDInv, WriteFailed \/ CloseWritten PROVE SDInv'
<1> DEFINE f == Opened(writer, before)
           e == EndsLine(writer)
<1>1. PICK ok \in BOOLEAN :
          /\ Return(writer, ok)
          /\ \/ ok /\ file' = Written(f, line, e)
             \/ file' \in WrittenShort(f, line, e)
    BY HowWriteReturns
<1>2. /\ op \in {"write", "close"} /\ lines = <<>> /\ writer \in {"append", "write"}
      /\ UNCHANGED <<cardVars, argVars, lines, before>>
    BY DEF WriteFailed, CloseWritten, SDInv, ControlInv
<1>3. line - 1 \in Nat /\ line = (line - 1) + 1 /\ FileOf(f, line - 1) /\ FileOf(before, line)
    BY <1>2, LineType, OpenedFile
<1>4. FileOf(file', line)
    <2>1. e \in BOOLEAN
        BY DEF EndsLine
    <2> HIDE DEF f, e
    <2>2. FileOf(Written(f, line, e), line) /\ \A g \in WrittenShort(f, line, e) : FileOf(g, line)
        BY <1>3, <2>1, WrittenFile
    <2>3. QED
        BY <1>1, <2>2
<1>5. RemovesFirstOnly'
    BY <1>1, <1>2 DEF RemovesFirstOnly, Return, Returned
<1>6. AppendsOwnOnly'
    <2>1. SUFFICES ASSUME writer = "append" PROVE AppendsOwnOnly'
        BY <1>1, <1>2 DEF AppendsOwnOnly, Return, Returned
    <2>2. f = before /\ e = TRUE
        BY <2>1 DEF Opened, EndsLine
    <2>3. \/ ok /\ file' = Written(before, line, TRUE)
          \/ file' = before
          \/ file' = Written(before, Junk, FALSE)
          \/ file' = Written(before, line, FALSE)
        BY <1>1, <2>2 DEF WrittenShort
    <2> HIDE DEF f, e
    <2>4. QED
        BY <1>1, <1>2, <2>3 DEF AppendsOwnOnly, Written, Return, Returned, argVars
<1>7. WriteReplaces'
    <2>1. SUFFICES ASSUME writer = "write" PROVE WriteReplaces'
        BY <1>1, <1>2 DEF WriteReplaces, Return, Returned
    <2>2. f = Empty /\ e = FALSE
        BY <2>1 DEF Opened, EndsLine
    <2>3. \/ ok /\ file' = Written(Empty, line, FALSE)
          \/ file' = Empty
          \/ file' = Written(Empty, Junk, FALSE)
        BY <1>1, <2>2 DEF WrittenShort
    <2> HIDE DEF f, e
    <2>4. \/ ok /\ ~file'.ended /\ file'.lines = <<line>>
          \/ file' = Empty
          \/ ~file'.ended /\ file'.lines = <<Junk>>
        <3>1. ASSUME NEW x, file' = Written(Empty, x, FALSE)
              PROVE  ~file'.ended /\ file'.lines = <<x>>
            BY <3>1 DEF Written, Empty, Stored
        <3>2. QED
            BY <2>3, <3>1
    <2>5. line' = line /\ result'.ok = ok
        BY <1>1, <1>2 DEF Return, Returned, argVars
    <2>6. QED
        BY <2>4, <2>5 DEF WriteReplaces
<1>8. line \in 0 .. MaxLines
    BY DEF SDInv, ControlInv
<1>9. QED
    BY <1>1, <1>2, <1>3, <1>4, <1>5, <1>6, <1>7, <1>8, ReturnKeeps DEF argVars

(* deleteFile() *)
LEMMA DeleteKeeps == ASSUME SDInv, DeleteFile PROVE SDInv'
<1>1. PICK ok \in BOOLEAN : Return("delete", ok)
    BY DEF DeleteFile
<1>2. /\ op = "idle" /\ before' = file /\ file' \in {file, Empty} /\ lines = <<>>
      /\ UNCHANGED <<cardVars, argVars, lines>>
    BY DEF DeleteFile, SDInv, ControlInv
<1>3. line \in Nat /\ line \in 0 .. MaxLines /\ FileOf(file, line) /\ FileOf(Empty, line)
    BY LineType, EmptyFile DEF SDInv, ControlInv, FilesInv
<1>4. RemovesFirstOnly' /\ AppendsOwnOnly' /\ WriteReplaces'
    BY <1>1 DEF RemovesFirstOnly, AppendsOwnOnly, WriteReplaces, Return, Returned
<1>5. writer \in {"append", "write"}
    BY DEF SDInv, ControlInv
<1>6. QED
    BY <1>1, <1>2, <1>3, <1>4, <1>5, ReturnKeeps DEF argVars

(* What is known in the middle of a rewrite. *)
LEMMA Rewriting ==
    ASSUME SDInv, op = "rewrite"
    PROVE  /\ FileOf(file, line) /\ file = Stored(file.lines)
           /\ LinesOf(file.lines, line) /\ LinesOf(lines, line)
           /\ LinesOf(RestOf(before.lines), line)
           /\ Divided(file.lines, lines, RestOf(before.lines))
<1>1. line \in Nat /\ FileOf(file, line) /\ FileOf(before, line) /\ LinesOf(lines, line)
    BY LineType DEF SDInv, FilesInv
<1>2. file = Stored(file.lines)
    BY <1>1 DEF SDInv, RemoveInv, FileOf, Stored
<1>3. QED
    BY <1>1, <1>2, RestLines DEF SDInv, RemoveInv, FileOf

(* What is on the card if a rewrite stops is a part of the rest. *)
LEMMA RewriteStops ==
    ASSUME SDInv, op = "rewrite", NEW f,
           \/ f \in Beginning(file.lines)
           \/ lines # <<>> /\ f \in Beginning(Append(file.lines, Head(lines)))
           \/ lines # <<>> /\ f = file
    PROVE  FileOf(f, line) /\ PartOf(f, RestOf(before.lines))
<1> DEFINE s == file.lines
           r == RestOf(before.lines)
<1>1. /\ line \in Nat /\ FileOf(file, line) /\ file = Stored(s)
      /\ LinesOf(s, line) /\ LinesOf(lines, line) /\ LinesOf(r, line)
      /\ Divided(s, lines, r)
    BY LineType, Rewriting
<1> SUFFICES FileOf(f, line) /\ PartOf(f, r)
    OBVIOUS
<1> HIDE DEF r, s
<1>2. CASE f \in Beginning(s)
    <2>1. FileOf(f, line) /\ PartOf(f, s)
        BY <1>1, <1>2, BeginningFile
    <2>2. QED
        BY <1>1, <2>1, PartOfMore
<1>3. CASE lines # <<>> /\ f \in Beginning(Append(s, Head(lines)))
    <2> DEFINE a == Append(s, Head(lines))
               b == Tail(lines)
    <2>1. LinesOf(a, line) /\ LinesOf(b, line) /\ Divided(a, b, r)
        BY <1>1, <1>3, DividedMoves
    <2>2. f \in Beginning(a)
        BY <1>3
    <2> HIDE DEF a, b
    <2>3. FileOf(f, line) /\ PartOf(f, a)
        BY <1>1, <2>1, <2>2, BeginningFile
    <2>4. QED
        BY <1>1, <2>1, <2>3, PartOfMore
<1>4. CASE lines # <<>> /\ f = file
    BY <1>1, <1>4, PartOfMore
<1>5. QED
    BY <1>2, <1>3, <1>4 DEF r, s

(* A rewrite, at its end, has written the rest. *)
LEMMA RewriteComplete ==
    ASSUME SDInv, op = "rewrite", lines = <<>>
    PROVE  file = Stored(RestOf(before.lines))
<1>1. /\ line \in Nat /\ FileOf(file, line) /\ file = Stored(file.lines)
      /\ LinesOf(file.lines, line) /\ LinesOf(lines, line) /\ LinesOf(RestOf(before.lines), line)
      /\ Divided(file.lines, lines, RestOf(before.lines))
    BY LineType, Rewriting
<1>2. file.lines = RestOf(before.lines)
    BY <1>1, PartOfMore
<1>3. QED
    BY <1>1, <1>2

(* How removeFirstLine() returns. *)
LEMMA RemoveReturns ==
    ASSUME SDInv, NEW ok \in BOOLEAN, Return("remove", ok), UNCHANGED <<cardVars, argVars>>,
           lines' = <<>>, FileOf(file', line), FileOf(before', line),
           \/ ~ok /\ file' = before'
           \/ ok /\ file' = Stored(RestOf(before'.lines))
           \/ PartOf(file', RestOf(before'.lines))
    PROVE  SDInv'
<1>1. op' = "idle" /\ result' = [call |-> "remove", ok |-> ok]
    BY DEF Return, Returned
<1>2. RemovesFirstOnly'
    BY <1>1 DEF RemovesFirstOnly, RestOf
<1>3. AppendsOwnOnly' /\ WriteReplaces'
    BY <1>1 DEF AppendsOwnOnly, WriteReplaces
<1>4. line \in 0 .. MaxLines /\ writer \in {"append", "write"}
    BY DEF SDInv, ControlInv
<1>5. QED
    BY <1>2, <1>3, <1>4, ReturnKeeps DEF argVars

(* The lines are read, or cannot be. *)
LEMMA OpenRemoveKeeps == ASSUME SDInv, OpenRemove PROVE SDInv'
<1>1. /\ op = "idle" /\ before' = file /\ file' = file /\ lines = <<>>
      /\ UNCHANGED <<cardVars, argVars>>
    BY DEF OpenRemove, SDInv, ControlInv
<1>2. line \in Nat /\ FileOf(file, line)
    BY LineType DEF SDInv, FilesInv
<1>3. CASE op' = "truncate"
    <2>1. lines' = RestOf(file.lines) /\ result' = result
        BY <1>3 DEF OpenRemove, Return
    <2>2. LinesOf(RestOf(file.lines), line)
        BY <1>2, RestLines DEF FileOf
    <2>3. FilesInv'
        BY <1>1, <1>2, <1>3, <2>1, <2>2 DEF FilesInv, argVars
    <2>4. ControlInv'
        BY <1>1, <1>3, <2>1 DEF SDInv, ControlInv, cardVars, argVars
    <2>5. RemoveInv' /\ WriteInv' /\ MountedAsAsked'
        BY <1>1, <1>3, <2>1 DEF RemoveInv, WriteInv, SDInv, MountedAsAsked, cardVars
    <2>6. RemovesFirstOnly' /\ AppendsOwnOnly' /\ WriteReplaces'
        BY <1>3 DEF RemovesFirstOnly, AppendsOwnOnly, WriteReplaces
    <2>7. QED
        BY <2>3, <2>4, <2>5, <2>6 DEF SDInv
<1>4. CASE op' # "truncate"
    <2>1. Return("remove", FALSE) /\ lines' = lines
        BY <1>4 DEF OpenRemove
    <2>2. QED
        BY <1>1, <1>2, <2>1, RemoveReturns
<1>5. QED
    BY <1>3, <1>4

(* The file is truncated, or cannot be opened. *)
LEMMA OpenRewriteKeeps == ASSUME SDInv, OpenRewrite PROVE SDInv'
<1>1. /\ op = "truncate" /\ file = before /\ lines = RestOf(before.lines)
      /\ UNCHANGED <<cardVars, argVars, before>>
    BY DEF OpenRewrite, SDInv, RemoveInv
<1>2. line \in Nat /\ FileOf(before, line) /\ LinesOf(lines, line) /\ FileOf(Empty, line)
    BY <1>1, LineType, EmptyFile DEF SDInv, FilesInv
<1>3. CASE op' = "rewrite"
    <2>1. file' = Empty /\ UNCHANGED <<lines, result>>
        BY <1>3 DEF OpenRewrite, Truncated, Return
    <2>2. FilesInv'
        BY <1>1, <1>2, <1>3, <2>1 DEF FilesInv, argVars
    <2>3. ControlInv'
        BY <1>1, <1>3, <2>1 DEF SDInv, ControlInv, cardVars, argVars
    <2>4. Divided(<<>>, lines, RestOf(before.lines))
        <3>1. Len(lines) \in Nat
            BY <1>2, LenProperties DEF LinesOf
        <3>2. QED
            BY <1>1, <3>1 DEF Divided
    <2>5. RemoveInv' /\ WriteInv' /\ MountedAsAsked'
        BY <1>1, <1>3, <2>1, <2>4
        DEF RemoveInv, WriteInv, SDInv, MountedAsAsked, cardVars, Empty, Stored
    <2>6. RemovesFirstOnly' /\ AppendsOwnOnly' /\ WriteReplaces'
        BY <1>3 DEF RemovesFirstOnly, AppendsOwnOnly, WriteReplaces
    <2>7. QED
        BY <2>2, <2>3, <2>5, <2>6 DEF SDInv
<1>4. CASE op' # "rewrite"
    <2>1. Return("remove", FALSE) /\ lines' = <<>> /\ file' = file
        BY <1>4 DEF OpenRewrite
    <2>2. QED
        BY <1>1, <1>2, <2>1, RemoveReturns
<1>5. QED
    BY <1>3, <1>4

(* One line is written back. *)
LEMMA RewriteKeeps == ASSUME SDInv, RewriteLine PROVE SDInv'
<1> DEFINE a == Append(file.lines, Head(lines))
           b == Tail(lines)
           r == RestOf(before.lines)
<1>1. /\ op = "rewrite" /\ op' = "rewrite" /\ lines # <<>>
      /\ file' = Stored(a) /\ lines' = b
      /\ UNCHANGED <<cardVars, argVars, before, result>>
    BY DEF RewriteLine
<1>2. /\ line \in Nat /\ LinesOf(file.lines, line) /\ LinesOf(lines, line) /\ LinesOf(r, line)
      /\ Divided(file.lines, lines, r)
    BY <1>1, LineType, Rewriting
<1>3. LinesOf(a, line) /\ LinesOf(b, line) /\ Divided(a, b, r)
    BY <1>1, <1>2, DividedMoves
<1> HIDE DEF a, b
<1>4. FileOf(file', line)
    BY <1>1, <1>3 DEF FileOf, LinesOf, Stored
<1>5. FilesInv'
    BY <1>1, <1>3, <1>4 DEF SDInv, FilesInv, argVars
<1>6. RemoveInv'
    BY <1>1, <1>3 DEF RemoveInv, Stored
<1>7. ControlInv'
    BY <1>1 DEF SDInv, ControlInv, cardVars, argVars
<1>8. QED
    BY <1>1, <1>5, <1>6, <1>7
    DEF SDInv, WriteInv, RemovesFirstOnly, AppendsOwnOnly, WriteReplaces, MountedAsAsked, cardVars

(* removeFirstLine() returns from the rewrite, with all lines written back or
   not. *)
LEMMA RewriteEnds == ASSUME SDInv, RewriteFailed \/ CloseRemove PROVE SDInv'
<1>1. /\ op = "rewrite" /\ lines' = <<>> /\ UNCHANGED <<cardVars, argVars, before>>
    BY DEF RewriteFailed, CloseRemove
<1>2. FileOf(before, line) /\ FileOf(file, line)
    BY <1>1 DEF SDInv, FilesInv
<1>3. CASE RewriteFailed
    BY <1>1, <1>2, <1>3, RewriteStops, RemoveReturns DEF RewriteFailed
<1>4. CASE CloseRemove
    <2>1. Return("remove", TRUE) /\ lines = <<>>
        BY <1>4 DEF CloseRemove
    <2>2. CASE file' = file
        BY <1>1, <1>2, <2>1, <2>2, RewriteComplete, RemoveReturns
    <2>3. CASE file' \in Beginning(file.lines)
        BY <1>1, <1>2, <2>1, <2>3, RewriteStops, RemoveReturns
    <2>4. QED
        BY <1>1, <1>4, <2>2, <2>3 DEF CloseRemove, NotAll
<1>5. QED
    BY <1>3, <1>4

(* A loss of power leaves what is on the card. *)
LEMMA PowerLossKeeps == ASSUME SDInv, PowerLoss PROVE SDInv'
<1>1. /\ op' = "idle" /\ lines' = <<>> /\ result' = NoResult
      /\ mounted' = FALSE /\ asked' = FALSE
      /\ UNCHANGED <<argVars, before>>
    BY DEF PowerLoss
<1>2. line \in Nat /\ FileOf(before, line) /\ FileOf(file, line)
    BY LineType, OpenedFile DEF SDInv, FilesInv
<1>3. FileOf(file', line)
    <2>1. CASE file' = file
        BY <1>2, <2>1
    <2>2. CASE file' \in NotAll
        <3>1. CASE op = "close"
            <4>1. line - 1 \in Nat /\ line = (line - 1) + 1 /\ FileOf(Opened(writer, before), line - 1)
                BY <3>1, LineType, OpenedFile
            <4>2. file' \in WrittenShort(Opened(writer, before), line, EndsLine(writer))
                BY <2>2, <3>1 DEF NotAll
            <4>3. EndsLine(writer) \in BOOLEAN
                BY DEF EndsLine
            <4>4. QED
                BY <4>1, <4>2, <4>3, WrittenFile
        <3>2. CASE op = "rewrite"
            BY <2>2, <3>2, RewriteStops DEF NotAll
        <3>3. QED
            BY <2>2, <3>1, <3>2 DEF NotAll, SDInv, ControlInv
    <2>3. QED
        BY <2>1, <2>2 DEF PowerLoss
<1>4. FilesInv'
    BY <1>1, <1>2, <1>3, EmptyFile DEF FilesInv, argVars
<1>5. ControlInv'
    <2>1. result' \in {NoResult}
        BY <1>1
    <2>2. QED
        BY <1>1, <2>1 DEF SDInv, ControlInv, argVars
<1>6. QED
    BY <1>1, <1>4, <1>5
    DEF SDInv, WriteInv, RemoveInv, RemovesFirstOnly, AppendsOwnOnly, WriteReplaces,
        MountedAsAsked, NoResult

(* Every step keeps the invariant. *)
LEMMA SDNext == SDInv /\ [Next]_vars => SDInv'
<1>1. SUFFICES ASSUME SDInv, [Next]_vars PROVE SDInv'
    OBVIOUS
<1>2. CASE Mount \/ Unmount
    BY <1>1, <1>2, MountKeeps
<1>3. ASSUME NEW w \in {"append", "write"}, OpenToWrite(w) PROVE SDInv'
    BY <1>1, <1>3, OpenToWriteKeeps
<1>4. CASE Write \/ WriteFailed \/ CloseWritten
    BY <1>1, <1>4, WriteKeeps, WriteEnds
<1>5. CASE DeleteFile
    BY <1>1, <1>5, DeleteKeeps
<1>6. CASE OpenRemove \/ OpenRewrite \/ RewriteLine \/ RewriteFailed \/ CloseRemove
    BY <1>1, <1>6, OpenRemoveKeeps, OpenRewriteKeeps, RewriteKeeps, RewriteEnds
<1>7. CASE PowerLoss
    BY <1>1, <1>7, PowerLossKeeps
<1>8. CASE UNCHANGED vars
    <2>1. UNCHANGED <<file, op, argVars, lines, before, result, mounted, asked>>
        BY <1>8 DEF vars, cardVars
    <2>2. mounted' \in BOOLEAN /\ asked' \in BOOLEAN /\ MountedAsAsked'
        BY <1>1, <2>1 DEF SDInv, ControlInv, MountedAsAsked
    <2>3. QED
        BY <1>1, <2>1, <2>2, FilesUnchanged
<1>9. QED
    BY <1>1, <1>2, <1>3, <1>4, <1>5, <1>6, <1>7, <1>8 DEF Next

(* The invariant, with all that follows from it in one state. *)
LEMMA SDSound == Spec => []SDInv
BY SDInit, SDNext, PTL DEF Spec

-----------------------------------------------------------------------------
\* The mapped variables.
Queue == IF op = "idle" THEN file ELSE before
Passed == IF op \in {"write", "close"} THEN line - 1 ELSE line

(* The two modules mean the same by a line more, a part of it, and a part of
   some lines. *)
LEMMA SameParts ==
    /\ \A q, x, e : Promise!With(q, x, e) = Written(q, x, e)
    /\ \A q, x, e : Promise!WithPart(q, x, e) = WrittenShort(q, x, e)
    /\ \A q : Promise!Rest(q) = RestOf(q.lines)
    /\ \A q, s : Promise!Part(q, s) <=> PartOf(q, s)
    /\ \A s : Promise!All(s) = Stored(s)
BY DEF Promise!With, Promise!WithPart, Promise!Rest, Promise!Part, Promise!All,
       Written, WrittenShort, RestOf, PartOf, Stored

(* The step at which a call that writes returns is the abstract call. *)
LEMMA WriteRefines ==
    ASSUME SDInv, WriteFailed \/ CloseWritten
    PROVE  Promise!Put \/ Promise!Replace
<1> DEFINE f == Opened(writer, before)
           e == EndsLine(writer)
<1>1. PICK ok \in BOOLEAN :
          /\ Return(writer, ok)
          /\ \/ ok /\ file' = Written(f, line, e)
             \/ file' \in WrittenShort(f, line, e)
    BY HowWriteReturns
<1>2. op \in {"write", "close"} /\ UNCHANGED <<argVars, before>>
    BY DEF WriteFailed, CloseWritten
<1>3. Queue = before /\ Queue' = file' /\ Passed = line - 1 /\ Passed' = line
    BY <1>1, <1>2 DEF Queue, Passed, Return, argVars
<1>4. Passed' = Passed + 1
    BY <1>2, <1>3, LineType
<1>5. \/ Queue' = Promise!With(f, Passed', e) /\ ok
      \/ Queue' \in Promise!WithPart(f, Passed', e)
    BY <1>1, <1>3, SameParts
<1>6. result' = [call |-> writer, ok |-> ok]
    BY <1>1 DEF Return, Returned
<1>7. CASE writer = "append"
    <2>1. f = Queue /\ e = TRUE
        BY <1>3, <1>7 DEF Opened, EndsLine
    <2> HIDE DEF f, e
    <2>2. QED
        BY <1>4, <1>5, <1>6, <1>7, <2>1
        DEF Promise!Put, Promise!Arrive, Promise!Reply, Queue, Passed
<1>8. CASE writer = "write"
    <2>1. f = Promise!All(<<>>) /\ e = FALSE
        BY <1>8, SameParts DEF Opened, EndsLine, Empty
    <2> HIDE DEF f, e
    <2>2. QED
        BY <1>4, <1>5, <1>6, <1>8, <2>1
        DEF Promise!Replace, Promise!Arrive, Promise!Reply, Queue, Passed
<1>9. QED
    BY <1>7, <1>8 DEF SDInv, ControlInv

(* A loss of power leaves the part of the call that is on the card. *)
LEMMA PowerLossRefines ==
    ASSUME SDInv, PowerLoss
    PROVE  Promise!Crash
<1>1. /\ file' \in {file} \cup NotAll /\ Queue' = file' /\ Passed' = line
      /\ result' = [call |-> "none", ok |-> TRUE]
    BY DEF PowerLoss, Queue, Passed, argVars, NoResult
<1>2. CASE op \in {"idle", "truncate"}
    <2>1. file' = Queue /\ line = Passed
        BY <1>1, <1>2 DEF NotAll, SDInv, RemoveInv, Queue, Passed
    <2>2. QED
        BY <1>1, <2>1 DEF Promise!Crash, Promise!Reply, Queue, Passed
<1>3. CASE op \in {"write", "close"}
    <2> DEFINE f == Opened(writer, before)
               e == EndsLine(writer)
    <2>1. Queue = before /\ Passed' = Passed + 1
        BY <1>1, <1>3, LineType DEF Queue, Passed
    <2>2. Queue' \in {f, Promise!With(f, Passed', e)} \cup Promise!WithPart(f, Passed', e)
        <3>1. CASE op = "write"
            BY <1>1, <3>1 DEF NotAll, SDInv, WriteInv
        <3>2. CASE op = "close"
            BY <1>1, <3>2, SameParts DEF NotAll, SDInv, WriteInv
        <3>3. QED
            BY <1>3, <3>1, <3>2
    <2>3. (f = Queue /\ e = TRUE) \/ (f = Promise!All(<<>>) /\ e = FALSE)
        BY <2>1, SameParts DEF Opened, EndsLine, Empty, SDInv, ControlInv
    <2> HIDE DEF f, e
    <2>4. QED
        BY <1>1, <2>1, <2>2, <2>3 DEF Promise!Crash, Promise!Reply, Queue, Passed
<1>4. CASE op = "rewrite"
    <2>1. Queue = before /\ Passed' = Passed
        BY <1>1, <1>4 DEF Queue, Passed
    <2>2. file' = Stored(RestOf(before.lines)) \/ PartOf(file', RestOf(before.lines))
        BY <1>1, <1>4, RewriteStops, RewriteComplete DEF NotAll
    <2>3. Queue' = Promise!All(Promise!Rest(Queue)) \/ Promise!Part(Queue', Promise!Rest(Queue))
        BY <1>1, <2>1, <2>2, SameParts
    <2>4. QED
        BY <1>1, <2>1, <2>3 DEF Promise!Crash, Promise!Reply, Queue, Passed
<1>5. QED
    BY <1>2, <1>3, <1>4 DEF SDInv, ControlInv

(* A call that does not get as far as opening the file for writing. *)
LEMMA OpenRefines ==
    ASSUME SDInv, NEW w \in {"append", "write"}, OpenToWrite(w)
    PROVE  Promise!Next \/ UNCHANGED <<Queue, Passed, result>>
<1>1. op = "idle" /\ line \in Nat /\ line' = line + 1 /\ before' = file
    BY LineType DEF OpenToWrite
<1>2. CASE op' = "write"
    BY <1>1, <1>2 DEF OpenToWrite, Return, Queue, Passed
<1>3. CASE op' # "write"
    <2>1. op' = "idle" /\ file' = file /\ result' = [call |-> w, ok |-> FALSE]
        BY <1>3 DEF OpenToWrite, Return, Returned
    <2>2. Queue' = Queue /\ Passed' = Passed + 1
        BY <1>1, <2>1 DEF Queue, Passed
    <2>3. QED
        BY <2>1, <2>2
        DEF Promise!Next, Promise!Put, Promise!Replace, Promise!Arrive, Promise!Reply, Queue, Passed
<1>4. QED
    BY <1>2, <1>3

(* deleteFile() *)
LEMMA DeleteRefines == ASSUME SDInv, DeleteFile PROVE Promise!Clear
<1>1. op = "idle" /\ op' = "idle" /\ line' = line
    BY DEF DeleteFile, Return, argVars
<1>2. Queue = file /\ Queue' = file' /\ Passed' = Passed
    BY <1>1 DEF Queue, Passed
<1>3. \/ Queue' = Promise!All(<<>>) /\ result' = [call |-> "delete", ok |-> TRUE]
      \/ Queue' = Queue /\ result' = [call |-> "delete", ok |-> FALSE]
    BY <1>2, SameParts DEF DeleteFile, Return, Returned, Empty
<1>4. QED
    BY <1>2, <1>3 DEF Promise!Clear, Promise!Reply, Queue, Passed

(* removeFirstLine(): only its return is a step of the queue. *)
LEMMA RemoveRefines ==
    ASSUME SDInv, OpenRemove \/ OpenRewrite \/ RewriteLine \/ RewriteFailed \/ CloseRemove
    PROVE  Promise!Next \/ UNCHANGED <<Queue, Passed, result>>
<1>1. line' = line
    BY DEF OpenRemove, OpenRewrite, RewriteLine, RewriteFailed, CloseRemove, argVars
<1>2. op \in {"idle", "truncate", "rewrite"} /\ op' \in {"idle", "truncate", "rewrite"}
    BY DEF OpenRemove, OpenRewrite, RewriteLine, RewriteFailed, CloseRemove, Return
<1>3. Passed' = Passed
    BY <1>1, <1>2 DEF Passed
<1>4. ASSUME file' = Queue, Return("remove", FALSE) PROVE Promise!Next
    BY <1>3, <1>4
    DEF Return, Returned, Promise!Next, Promise!TakeFirst, Promise!Reply, Queue, Passed
<1>5. CASE OpenRemove
    <2>1. Queue = file
        BY <1>5 DEF OpenRemove, Queue
    <2>2. QED
        BY <1>3, <1>4, <1>5, <2>1 DEF OpenRemove, Queue
<1>6. CASE OpenRewrite
    <2>1. Queue = file /\ Queue = before
        BY <1>6 DEF OpenRewrite, Queue, SDInv, RemoveInv
    <2>2. QED
        BY <1>3, <1>4, <1>6, <2>1 DEF OpenRewrite, Queue
<1>7. CASE RewriteLine
    BY <1>3, <1>7 DEF RewriteLine, Queue
<1>8. ASSUME NEW ok \in BOOLEAN, op = "rewrite", Return("remove", ok),
             \/ ok /\ file' = Stored(RestOf(before.lines))
             \/ PartOf(file', RestOf(before.lines))
      PROVE  Promise!Next
    <2>1. Queue = before /\ Queue' = file' /\ result' = [call |-> "remove", ok |-> ok]
        BY <1>8 DEF Queue, Return, Returned
    <2>2. \/ ok /\ Queue' = Promise!All(Promise!Rest(Queue))
          \/ Promise!Part(Queue', Promise!Rest(Queue))
        BY <1>8, <2>1, SameParts
    <2>3. QED
        BY <1>3, <2>1, <2>2 DEF Promise!Next, Promise!TakeFirst, Promise!Reply, Queue, Passed
<1>9. CASE RewriteFailed
    BY <1>8, <1>9, RewriteStops DEF RewriteFailed
<1>10. CASE CloseRemove
    BY <1>8, <1>10, RewriteStops, RewriteComplete DEF CloseRemove, NotAll
<1>11. QED
    BY <1>5, <1>6, <1>7, <1>9, <1>10

-----------------------------------------------------------------------------
(* The type invariant: also that only the last line can be without its end. *)
THEOREM TypeCorrect == Spec => []TypeOK
<1>1. SDInv => TypeOK
    <2>1. SUFFICES ASSUME SDInv PROVE TypeOK
        OBVIOUS
    <2>2. line \in Nat /\ line <= MaxLines /\ (op \in {"write", "close"} => line - 1 \in Nat)
        BY <2>1, FileAssumption DEF SDInv, ControlInv
    <2>3. FileOf(file, MaxLines) /\ FileOf(before, MaxLines) /\ LinesOf(lines, MaxLines)
        BY <2>1, <2>2, FileAssumption, LinesMonotonic DEF SDInv, FilesInv
    <2>4. FileOf(Stored(lines), MaxLines)
        BY <2>3 DEF FileOf, LinesOf, Stored
    <2>5. \A f \in {file, before, Stored(lines)} :
              /\ f \in [lines : Seq(0 .. MaxLines), ended : BOOLEAN]
              /\ Len(f.lines) <= MaxLines
              /\ f.lines = <<>> => f.ended
        BY <2>3, <2>4 DEF FileOf, LinesOf
    <2>6. QED
        BY <2>1, <2>5 DEF SDInv, ControlInv, TypeOK
<1>2. QED
    BY <1>1, SDSound, PTL

(* The order of the calls of appendLine() is kept through every failure and
   every loss of power, and no line is in the file twice. *)
THEOREM OrderKept == Spec => []InOrder
<1>1. SDInv => InOrder
    BY DEF SDInv, FilesInv, FileOf, LinesOf, Ordered, InOrder
<1>2. QED
    BY <1>1, SDSound, PTL

(* removeFirstLine() takes the first line, and no other but from the end. *)
THEOREM RemovesTheFirst == Spec => []RemovesFirstOnly
<1>1. SDInv => RemovesFirstOnly
    BY DEF SDInv
<1>2. QED
    BY <1>1, SDSound, PTL

(* appendLine() touches no line but its own and one without an end. *)
THEOREM AppendsItsOwn == Spec => []AppendsOwnOnly
<1>1. SDInv => AppendsOwnOnly
    BY DEF SDInv
<1>2. QED
    BY <1>1, SDSound, PTL

(* writeFile() leaves no line of the old file behind once it returns true. *)
THEOREM WritesAnew == Spec => []WriteReplaces
<1>1. SDInv => WriteReplaces
    BY DEF SDInv
<1>2. QED
    BY <1>1, SDSound, PTL

(* unmount() unmounts, although the handle it tests is never set. *)
THEOREM UnmountReleases == Spec => []MountedAsAsked
<1>1. SDInv => MountedAsAsked
    BY DEF SDInv
<1>2. QED
    BY <1>1, SDSound, PTL

(* Whatever fails, and wherever power is lost, the file does what the queue of
   lines may do, one step to a call. *)
THEOREM FileImplementsQueue == Spec => ImplementsQueue
<1>1. Init => Promise!Init
    BY DEF Init, NoResult, Promise!Init, Promise!All, Empty, Stored
<1>2. SDInv /\ [Next]_vars => [Promise!Next]_(Promise!queueVars)
    <2>1. SUFFICES ASSUME SDInv, [Next]_vars
                   PROVE  Promise!Next \/ UNCHANGED <<Queue, Passed, result>>
        BY DEF Promise!queueVars, Queue, Passed
    <2>2. ASSUME NEW w \in {"append", "write"}, OpenToWrite(w)
          PROVE  Promise!Next \/ UNCHANGED <<Queue, Passed, result>>
        BY <2>1, <2>2, OpenRefines
    <2>3. CASE Mount \/ Unmount \/ UNCHANGED vars
        BY <2>3 DEF Mount, Unmount, argVars, vars, Queue, Passed
    <2>4. CASE Write
        BY <2>4 DEF Write, argVars, Queue, Passed
    <2>5. CASE WriteFailed \/ CloseWritten
        BY <2>1, <2>5, WriteRefines DEF Promise!Next
    <2>6. CASE DeleteFile
        BY <2>1, <2>6, DeleteRefines DEF Promise!Next
    <2>7. CASE OpenRemove \/ OpenRewrite \/ RewriteLine \/ RewriteFailed \/ CloseRemove
        BY <2>1, <2>7, RemoveRefines
    <2>8. CASE PowerLoss
        BY <2>1, <2>8, PowerLossRefines DEF Promise!Next
    <2>9. QED
        BY <2>1, <2>2, <2>3, <2>4, <2>5, <2>6, <2>7, <2>8 DEF Next
<1>3. QED
    BY SDInit, SDNext, <1>1, <1>2, PTL DEF Spec, ImplementsQueue, Promise!Spec

=============================================================================
