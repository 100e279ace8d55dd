-------------------------- MODULE LogStructuringProofs --------------------------
(***************************************************************************)
(* Proofs that the walk over a transaction's calls and log lines never     *)
(* runs out of lines, gives every call its own lines and rebuilds the tree *)
(* of calls, and that the rows made of them are the events, for            *)
(* transactions of any size and logs cut anywhere.                         *)
(***************************************************************************)
EXTENDS LogStructuring, SequenceTheorems, WellFoundedInduction, TLAPS

USE ProgramsAssumption

-----------------------------------------------------------------------------
(* What the runtime leaves behind.                                          *)

Height(c) == calls[c].height
Logging == {c \in 1..Len(calls) : calls[c].program \notin PROGRAMS_WITHOUT_LOGGING}

\* The call c is made, directly or not, by d.
Inside(c, d) == d < c /\ \A e \in d + 1..c : Height(e) > Height(d)

\* By the readable line p, c was invoked, or had ended.
Invoked(c, p) ==
  \E q \in Readable : q <= p /\ lines[q].kind = "Invoke" /\ lines[q].by = c
Ended(c, p) ==
  \E q \in Readable : q <= p /\ lines[q].kind = "Success" /\ lines[q].by = c

WasInvoked(c) == \E q \in Readable : lines[q].kind = "Invoke" /\ lines[q].by = c
HasEnded(c) == \E q \in Readable : lines[q].kind = "Success" /\ lines[q].by = c

TypeOK ==
  /\ executed \in BOOLEAN
  /\ calls \in Seq([program : Programs, height : Nat])
  /\ Len(calls) <= MaxCalls
  /\ running \in Seq(Nat)
  /\ lines \in Seq([kind : Log, by : Nat])
  /\ pos \in Nat
  /\ next \in 1..Len(calls) + 1
  /\ stack \in Seq(Nat)
  /\ logStack \in Seq(Seq(Nat))
  /\ is_truncated \in BOOLEAN
  /\ panicked \in BOOLEAN
  /\ logs \in [1..MaxCalls -> [some : BOOLEAN, lines : Seq(Nat)]]
  /\ inner \in [0..MaxCalls -> Seq(Nat)]

\* The readable lines tell the story of the calls.
WritersAreInvoked ==
  \A p \in Readable : \E c \in Logging : lines[p].by = c /\ Invoked(c, p)
InvokedInOrder ==
  \A p \in Readable : lines[p].kind = "Invoke" =>
    /\ \A q \in Readable : lines[q].kind = "Invoke" /\ q < p => lines[q].by < lines[p].by
    /\ \A c \in Logging : c < lines[p].by => Invoked(c, p)
SilentAfterEnd ==
  \A p, q \in Readable :
    lines[p].kind = "Success" /\ lines[q].by = lines[p].by => q <= p
InsideBeforeEnd ==
  \A p \in Readable : \A c, d \in Logging :
    lines[p].kind = "Success" /\ lines[p].by = d /\ Inside(c, d) => Invoked(c, p)
OutsideAfterEnd ==
  \A p \in Readable : \A c, d \in Logging :
    lines[p].kind = "Invoke" /\ lines[p].by = c /\ d < c /\ ~Inside(c, d) => Ended(d, p)
SilentWhileInside ==
  \A p \in Readable : \A c \in Logging :
    c > lines[p].by /\ Invoked(c, p) => Ended(c, p)

Script ==
  /\ WritersAreInvoked
  /\ InvokedInOrder
  /\ SilentAfterEnd
  /\ InsideBeforeEnd
  /\ OutsideAfterEnd
  /\ SilentWhileInside

\* Unless the log was cut, it is complete.
LogIsComplete ==
  ~Limited =>
    \A c \in Logging : WasInvoked(c) /\ (c \in ToSet(running) \/ HasEnded(c))
RunningIsOpen ==
  \A k \in 1..Len(running) :
    /\ running[k] \in Logging
    /\ Height(running[k]) = k
    /\ \A c \in running[k] + 1..Len(calls) : Height(c) > k
    /\ \A p \in Readable : ~(lines[p].kind = "Success" /\ lines[p].by = running[k])
RunningAscends == \A j, k \in 1..Len(running) : j < k => running[j] < running[k]
EndedIsLeft ==
  \A d \in 1..Len(calls) :
    /\ d \notin ToSet(running)
    /\ \A c \in d + 1..Len(calls) : Height(c) > Height(d)
    => Len(running) < Height(d)
SilentCallsAreLeaves ==
  \A c \in 1..Len(calls) :
    c \notin Logging /\ c < Len(calls) => Height(c + 1) <= Height(c)
CommittedIsDone == executed => running = <<>>

RuntimeInv ==
  /\ Script
  /\ LogIsComplete
  /\ RunningIsOpen
  /\ RunningAscends
  /\ EndedIsLeft
  /\ SilentCallsAreLeaves
  /\ CommittedIsDone

-----------------------------------------------------------------------------
(* Where the walk stands.                                                   *)

\* Nothing is walked before the transaction is complete.
Idle ==
  ~executed =>
    /\ pos = 0 /\ next = 1
    /\ stack = <<>> /\ logStack = <<>>
    /\ ~is_truncated /\ ~panicked
    /\ logs = [i \in 1..MaxCalls |-> None]
    /\ inner = [i \in 0..MaxCalls |-> <<>>]

TopCall == IF stack = <<>> THEN 0 ELSE stack[Len(stack)]

\* The stack is the path to the last call, and what is closed hangs below it.
StackAscends == \A j, k \in 1..Len(stack) : j < k => stack[j] < stack[k]
StackIsPath ==
  \A k \in 1..Len(stack) :
    /\ stack[k] \in 1..next - 1
    /\ Caller(stack[k]) = IF k = 1 THEN 0 ELSE stack[k - 1]
    /\ \A c \in stack[k] + 1..next - 1 : Height(c) > Height(stack[k])
NextIsAbove ==
  next <= Len(calls) =>
    \A c \in TopCall + 1..next - 1 : Height(c) >= Height(next)

TreeInv ==
  /\ Idle
  /\ StackAscends
  /\ StackIsPath
  /\ NextIsAbove
  /\ TreeIsCallTree

\* While the log is being read, the lines up to pos are those of the calls the
\* walk has reached, and each open call has its own on the stack of lines.
ReachedAreInvoked ==
  /\ pos \in Readable \cup {0}
  /\ \A c \in Logging : c < next => Invoked(c, pos)
  /\ \A p \in Readable : p <= pos => lines[p].by < next
ClosedAreRead ==
  \A p \in Readable :
    p > pos => lines[p].by >= next \/ lines[p].by \in ToSet(stack)
OpenAreNotEnded ==
  \A k \in 1..Len(stack) : stack[k] \in Logging => ~Ended(stack[k], pos)
LinesUpTo(c, last) == {p \in Readable : p <= last /\ lines[p].by = c}
LinesAreStacked ==
  /\ Len(logStack) \in {Len(stack), Len(stack) - 1}
  /\ \A k \in 1..Len(stack) : stack[k] \in Logging <=> k <= Len(logStack)
  /\ \A k \in 1..Len(logStack) : Listed(logStack[k], LinesUpTo(stack[k], pos))

Reading ==
  /\ ReachedAreInvoked
  /\ ClosedAreRead
  /\ OpenAreNotEnded
  /\ LinesAreStacked

\* Once the cut was read, no open or later call ends in what can be read.
CutIsFinal ==
  \A c \in Logging : c \in ToSet(stack) \/ c >= next => ~EndedInLog(c)

NoLogsYet ==
  \A c \in 1..Len(calls) : c \in ToSet(stack) \/ c >= next => logs[c] = None

WalkInv ==
  /\ ~panicked
  /\ IF is_truncated THEN CutIsFinal ELSE Reading
  /\ NoLogsYet
  /\ LogsAreOwn

-----------------------------------------------------------------------------
(* Sequences and lines.                                                     *)

LEMMA SeqIs ==
  ASSUME NEW S, NEW s \in Seq(S)
  PROVE  Len(s) \in Nat /\ \A p \in 1..Len(s) : s[p] \in S
OBVIOUS

LEMMA ToSetIs ==
  ASSUME NEW S, NEW s \in Seq(S)
  PROVE  \A x : x \in ToSet(s) <=> \E i \in 1..Len(s) : s[i] = x
BY DEF ToSet

LEMMA FunctionIsSeq ==
  ASSUME NEW S, NEW n \in Nat, NEW f \in [1..n -> S]
  PROVE  f \in Seq(S) /\ Len(f) = n
OBVIOUS

LEMMA FrontIs ==
  ASSUME NEW S, NEW s \in Seq(S), s # <<>>
  PROVE  /\ Len(s) \in Nat \ {0}
         /\ Front(s) \in Seq(S)
         /\ Len(Front(s)) = Len(s) - 1
         /\ \A i \in 1..Len(s) - 1 : Front(s)[i] = s[i]
         /\ Last(s) = s[Len(s)] /\ Last(s) \in S
         /\ \A x : x \in ToSet(s) <=> x \in ToSet(Front(s)) \/ x = Last(s)
<1>1. Len(s) \in Nat \ {0} /\ \A i \in 1..Len(s) : s[i] \in S
  OBVIOUS
<1>3. /\ Front(s) \in Seq(S)
      /\ Len(Front(s)) = Len(s) - 1
      /\ \A i \in 1..Len(s) - 1 : Front(s)[i] = s[i]
  <2>1. 1 \in Int /\ Len(s) - 1 \in Int /\ \A i \in 1..Len(s) - 1 : s[i] \in S
    BY <1>1
  <2>2. /\ SubSeq(s, 1, Len(s) - 1) \in Seq(S)
        /\ Len(SubSeq(s, 1, Len(s) - 1)) = IF 1 <= Len(s) - 1 THEN Len(s) - 1 - 1 + 1 ELSE 0
        /\ \A i \in 1..Len(s) - 1 - 1 + 1 : SubSeq(s, 1, Len(s) - 1)[i] = s[1 + i - 1]
    BY <2>1, SubSeqProperties
  <2> QED
    <3> DEFINE f == SubSeq(s, 1, Len(s) - 1)
               m == Len(s) - 1
    <3>1. m \in Nat /\ m - 1 + 1 = m /\ (IF 1 <= m THEN m - 1 + 1 ELSE 0) = m
      <4>1. \A x \in Nat \ {0} :
              LET y == x - 1 IN y \in Nat /\ y - 1 + 1 = y /\ (IF 1 <= y THEN y - 1 + 1 ELSE 0) = y
        OBVIOUS
      <4> QED
        BY <1>1, <4>1
    <3>2. \A i \in 1..m : 1 + i - 1 = i
      OBVIOUS
    <3>3. f \in Seq(S) /\ Len(f) = m /\ \A i \in 1..m : f[i] = s[1 + i - 1]
      BY <2>2, <3>1
    <3> QED
      BY <3>2, <3>3 DEF Front
<1>4. \A x : x \in ToSet(s) <=> \E i \in 1..Len(s) : x = s[i]
  BY DEF ToSet
<1>5. \A x : x \in ToSet(Front(s)) <=> \E i \in 1..Len(s) - 1 : x = s[i]
  BY <1>1, <1>3 DEF ToSet
<1>6. \A i : i \in 1..Len(s) <=> i \in 1..Len(s) - 1 \/ i = Len(s)
  BY <1>1
<1> QED
  BY <1>1, <1>3, <1>4, <1>5, <1>6 DEF Last

LEMMA AppendIs ==
  ASSUME NEW S, NEW s \in Seq(S), NEW e \in S
  PROVE  /\ Len(s) \in Nat
         /\ Append(s, e) \in Seq(S)
         /\ Len(Append(s, e)) = Len(s) + 1
         /\ \A i \in 1..Len(s) : Append(s, e)[i] = s[i]
         /\ Append(s, e)[Len(s) + 1] = e
         /\ \A x : x \in ToSet(Append(s, e)) <=> x \in ToSet(s) \/ x = e
<1>1. /\ Len(s) \in Nat
      /\ Append(s, e) \in Seq(S)
      /\ Len(Append(s, e)) = Len(s) + 1
      /\ \A i \in 1..Len(s) : Append(s, e)[i] = s[i]
      /\ Append(s, e)[Len(s) + 1] = e
  OBVIOUS
<1>2. \A x : x \in ToSet(s) <=> \E i \in 1..Len(s) : x = s[i]
  BY DEF ToSet
<1>3. \A x : x \in ToSet(Append(s, e)) <=> \E i \in 1..Len(s) + 1 : x = Append(s, e)[i]
  BY <1>1 DEF ToSet
<1>4. \A i : i \in 1..Len(s) + 1 <=> i \in 1..Len(s) \/ i = Len(s) + 1
  BY <1>1
<1> QED
  BY <1>1, <1>2, <1>3, <1>4

LEMMA CallsAre ==
  ASSUME TypeOK
  PROVE  Len(calls) \in Nat /\ \A c \in 1..Len(calls) : Height(c) \in Nat
<1>1. calls \in Seq([program : Programs, height : Nat])
  BY DEF TypeOK
<1>2. Len(calls) \in Nat /\ \A c \in 1..Len(calls) : calls[c] \in [program : Programs, height : Nat]
  BY <1>1, SeqIs
<1> QED
  BY <1>2 DEF Height

LEMMA NextIs ==
  ASSUME TypeOK
  PROVE  /\ Len(calls) \in Nat /\ Len(calls) <= MaxCalls
         /\ next \in 1..Len(calls) + 1 /\ next \in Nat
         /\ pos \in Nat
<1>1. Len(calls) \in Nat
  BY CallsAre
<1>2. next \in 1..Len(calls) + 1 /\ pos \in Nat /\ Len(calls) <= MaxCalls
  BY DEF TypeOK
<1> QED
  BY <1>1, <1>2

LEMMA ReadableIs ==
  ASSUME TypeOK
  PROVE  /\ Len(lines) \in Nat
         /\ \A p \in Readable : /\ p \in 1..Len(lines)
                                /\ lines[p].kind \in Log /\ lines[p].kind # "Truncated"
                                /\ lines[p].by \in Nat
         /\ \A p \in Readable : \A q \in 1..p : q \in Readable
         /\ ~Limited => Readable = 1..Len(lines)
<1>1. Len(lines) \in Nat /\ \A p \in 1..Len(lines) : lines[p] \in [kind : Log, by : Nat]
  <2>1. lines \in Seq([kind : Log, by : Nat])
    BY DEF TypeOK
  <2> QED
    BY <2>1, SeqIs
<1>2. \A p \in Readable : p \in 1..Len(lines) /\ lines[p].kind # "Truncated"
  BY <1>1 DEF Readable
<1>3. \A p \in Readable : \A q \in 1..p : q \in Readable
  BY <1>1 DEF Readable
<1>4. ASSUME ~Limited PROVE Readable = 1..Len(lines)
  BY <1>1, <1>4 DEF Readable, Limited
<1> QED
  BY <1>1, <1>2, <1>3, <1>4

\* A line is cut, ends up behind the cut, or is read after all others.
LEMMA LogGrows ==
  ASSUME TypeOK, NEW kind \in Log, kind # "Truncated", NEW call \in Nat, Write(kind, call)
  PROVE  /\ lines' \in Seq([kind : Log, by : Nat])
         /\ \A p \in Readable : p \in Readable' /\ lines'[p] = lines[p]
         /\ \/ Readable' = Readable /\ Limited'
            \/ /\ ~Limited /\ ~Limited'
               /\ Len(lines') = Len(lines) + 1
               /\ Readable = 1..Len(lines)
               /\ Readable' = 1..Len(lines) + 1
               /\ lines'[Len(lines) + 1] = Line(kind, call)
<1> DEFINE Entry == [kind : Log, by : Nat]
           n == Len(lines)
<1>1. lines \in Seq(Entry)
  <2>1. lines \in Seq([kind : Log, by : Nat])
    BY DEF TypeOK
  <2> QED
    BY <2>1
<1>0. n \in Nat
  BY <1>1
<1>2. Line(kind, call) \in Entry /\ Line("Truncated", call) \in Entry
  BY DEF Line, Log
<1>3. ASSUME NEW e \in Entry, lines' = Append(lines, e)
      PROVE  /\ lines' \in Seq(Entry) /\ Len(lines') = n + 1
             /\ \A p \in 1..n : lines'[p] = lines[p]
             /\ lines'[n + 1] = e
             /\ Readable' = Readable \cup (IF Limited \/ e.kind = "Truncated" THEN {} ELSE {n + 1})
             /\ Limited' <=> Limited \/ e.kind = "Truncated"
  <2>1. /\ lines' \in Seq(Entry) /\ Len(lines') = n + 1
        /\ \A p \in 1..n : lines'[p] = lines[p]
        /\ lines'[n + 1] = e
    BY <1>0, <1>1, <1>3
  <2>2. \A p : p \in 1..n + 1 <=> p \in 1..n \/ p = n + 1
    BY <1>0, <1>1
  <2>3. Limited' <=> Limited \/ e.kind = "Truncated"
    BY <2>1, <2>2 DEF Limited
  <2>4. \A p \in 1..n : \A q \in 1..p : q \in 1..n
    BY <1>0, <1>1
  <2>5. \A p \in 1..n : p \in Readable' <=> p \in Readable
    BY <2>1, <2>2, <2>4 DEF Readable
  <2>6. n + 1 \in Readable' <=> ~Limited /\ e.kind # "Truncated"
    BY <2>1, <2>2 DEF Readable, Limited
  <2>7. Readable \subseteq 1..n /\ Readable' \subseteq 1..n + 1 /\ n + 1 \notin 1..n
    BY <1>0, <1>1, <2>1 DEF Readable
  <2> QED
    BY <2>1, <2>2, <2>3, <2>5, <2>6, <2>7
<1>4. Readable \subseteq 1..n
  BY DEF Readable
<1> HIDE DEF Entry, n
<1>5. CASE lines' = Append(lines, Line(kind, call))
  <2>1. Line(kind, call).kind # "Truncated"
    BY DEF Line
  <2>2. CASE Limited
    BY <1>2, <1>3, <1>4, <1>5, <2>1, <2>2 DEF Entry
  <2>3. CASE ~Limited
    <3>1. Readable = 1..n /\ 1..n + 1 = 1..n \cup {n + 1}
      BY <1>0, <1>1, <2>3, ReadableIs DEF n
    <3> QED
      BY <1>2, <1>3, <1>4, <1>5, <2>1, <2>3, <3>1 DEF Entry, n
  <2> QED
    BY <2>2, <2>3
<1>6. CASE lines' = Append(lines, Line("Truncated", call))
  <2>1. Line("Truncated", call).kind = "Truncated"
    BY DEF Line
  <2> QED
    BY <1>2, <1>3, <1>4, <1>6, <2>1 DEF Entry
<1>7. CASE Limited /\ lines' = lines
  BY <1>0, <1>1, <1>7 DEF Readable, Limited, Entry
<1> QED
  BY <1>5, <1>6, <1>7 DEF Write

\* What had happened by a line is settled.
LEMMA PastStays ==
  ASSUME TypeOK, NEW kind \in Log, kind # "Truncated", NEW call \in Nat, Write(kind, call)
  PROVE  \A p \in Readable : \A c :
           /\ Invoked(c, p)' <=> Invoked(c, p)
           /\ Ended(c, p)' <=> Ended(c, p)
<1> SUFFICES ASSUME NEW p \in Readable
             PROVE  \A c : /\ Invoked(c, p)' <=> Invoked(c, p)
                           /\ Ended(c, p)' <=> Ended(c, p)
  OBVIOUS
<1>1. \A q : q \in Readable /\ q <= p <=> q \in Readable' /\ q <= p
  BY LogGrows, ReadableIs
<1> QED
  BY <1>1, LogGrows DEF Invoked, Ended

-----------------------------------------------------------------------------
(* The runtime keeps its invariant.                                         *)

LEMMA LastRunning ==
  ASSUME TypeOK, RuntimeInv, running # <<>>
  PROVE  /\ Last(running) \in Logging /\ Last(running) \in Nat
         /\ Len(running) \in Nat \ {0}
         /\ Height(Last(running)) = Len(running)
         /\ \A p \in Readable : ~(lines[p].kind = "Success" /\ lines[p].by = Last(running))
         /\ \A c : c > Last(running) => c \notin ToSet(running)
<1>1. running \in Seq(Nat)
  BY DEF TypeOK
<1>2. /\ Len(running) \in Nat \ {0} /\ Last(running) \in Nat
      /\ Last(running) = running[Len(running)] /\ Len(running) \in 1..Len(running)
  <2>1. /\ Len(running) \in Nat \ {0} /\ Last(running) \in Nat
        /\ Last(running) = running[Len(running)]
    BY <1>1, FrontIs
  <2> QED
    BY <2>1
<1>3. /\ Last(running) \in Logging
      /\ Height(Last(running)) = Len(running)
      /\ \A p \in Readable : ~(lines[p].kind = "Success" /\ lines[p].by = Last(running))
  BY <1>2 DEF RuntimeInv, RunningIsOpen
<1>4. ASSUME NEW k \in 1..Len(running) PROVE running[k] \in Nat /\ running[k] <= Last(running)
  <2>1. running[k] \in Nat
    BY <1>1
  <2>2. k < Len(running) \/ k = Len(running)
    BY <1>2
  <2> QED
    BY <1>2, <2>1, <2>2 DEF RuntimeInv, RunningAscends
<1>5. ASSUME NEW c, c > Last(running), c \in ToSet(running) PROVE FALSE
  <2>1. PICK k \in 1..Len(running) : c = running[k]
    BY <1>5 DEF ToSet
  <2> QED
    BY <1>2, <1>4, <1>5, <2>1
<1> QED
  BY <1>2, <1>3, <1>5

\* The calls stay the same, so does what they are.
LEMMA SameCalls ==
  ASSUME UNCHANGED calls
  PROVE  /\ Logging' = Logging
         /\ \A c, d : Inside(c, d)' <=> Inside(c, d)
         /\ \A c : Height(c)' = Height(c)
BY DEF Logging, Inside, Height

\* A line that is not read leaves the story as it is.
LEMMA UnreadKeepsScript ==
  ASSUME TypeOK, Script, NEW kind \in Log, kind # "Truncated", NEW call \in Nat,
         Write(kind, call), Readable' = Readable, UNCHANGED calls
  PROVE  Script'
<1>1. \A p \in Readable : lines'[p] = lines[p]
  BY LogGrows
<1>2. \A p \in Readable : \A c : (Invoked(c, p)' <=> Invoked(c, p)) /\ (Ended(c, p)' <=> Ended(c, p))
  BY PastStays
<1>3. WritersAreInvoked'
  BY <1>1, <1>2, SameCalls DEF Script, WritersAreInvoked
<1>4. InvokedInOrder'
  BY <1>1, <1>2, SameCalls DEF Script, InvokedInOrder
<1>5. SilentAfterEnd'
  BY <1>1, SameCalls DEF Script, SilentAfterEnd
<1>6. InsideBeforeEnd'
  BY <1>1, <1>2, SameCalls DEF Script, InsideBeforeEnd
<1>7. OutsideAfterEnd'
  BY <1>1, <1>2, SameCalls DEF Script, OutsideAfterEnd
<1>8. SilentWhileInside'
  BY <1>1, <1>2, SameCalls DEF Script, SilentWhileInside
<1> QED
  BY <1>3, <1>4, <1>5, <1>6, <1>7, <1>8 DEF Script

\* A line that is read has happened by the end.
LEMMA LineIsRead ==
  ASSUME TypeOK, NEW kind \in Log, kind # "Truncated", NEW call \in Nat,
         Write(kind, call), ~Limited'
  PROVE  /\ ~Limited
         /\ Len(lines) \in Nat
         /\ Readable = 1..Len(lines) /\ Readable' = 1..Len(lines) + 1
         /\ \A p \in Readable : lines'[p] = lines[p]
         /\ \A p \in Readable' \ Readable :
              p = Len(lines) + 1 /\ lines'[p].kind = kind /\ lines'[p].by = call
         /\ \A c : WasInvoked(c) \/ (kind = "Invoke" /\ c = call) =>
                    WasInvoked(c)' /\ \A p \in Readable' \ Readable : Invoked(c, p)'
         /\ \A c : HasEnded(c) \/ (kind = "Success" /\ c = call) =>
                    HasEnded(c)' /\ \A p \in Readable' \ Readable : Ended(c, p)'
<1>1. /\ ~Limited
      /\ Readable = 1..Len(lines) /\ Readable' = 1..Len(lines) + 1
      /\ \A p \in Readable : lines'[p] = lines[p]
      /\ lines'[Len(lines) + 1] = Line(kind, call)
  BY LogGrows
<1>2. Len(lines) \in Nat
  BY ReadableIs
<1>3. \A p \in Readable' \ Readable :
        p = Len(lines) + 1 /\ lines'[p].kind = kind /\ lines'[p].by = call
  BY <1>1, <1>2 DEF Line
<1>4. /\ \A q \in Readable : q \in Readable' /\ q <= Len(lines) + 1
      /\ Len(lines) + 1 \in Readable' \ Readable /\ Len(lines) + 1 <= Len(lines) + 1
  BY <1>1, <1>2
<1>5. ASSUME NEW c, WasInvoked(c) \/ (kind = "Invoke" /\ c = call)
      PROVE  WasInvoked(c)' /\ \A p \in Readable' \ Readable : Invoked(c, p)'
  BY <1>1, <1>3, <1>4, <1>5 DEF Invoked, WasInvoked
<1>6. ASSUME NEW c, HasEnded(c) \/ (kind = "Success" /\ c = call)
      PROVE  HasEnded(c)' /\ \A p \in Readable' \ Readable : Ended(c, p)'
  BY <1>1, <1>3, <1>4, <1>6 DEF Ended, HasEnded
<1> QED
  BY <1>1, <1>2, <1>3, <1>5, <1>6

\* A line of the call that runs carries the story on.
LEMMA RunningKeepsScript ==
  ASSUME TypeOK, RuntimeInv, running # <<>>,
         NEW kind \in {"Event", "Other", "Success"}, Write(kind, Last(running)),
         UNCHANGED calls
  PROVE  Script'
<1> DEFINE d == Last(running)
<1>1. /\ d \in Logging /\ d \in Nat
      /\ \A p \in Readable : ~(lines[p].kind = "Success" /\ lines[p].by = d)
      /\ \A c : c > d => c \notin ToSet(running)
  BY LastRunning
<1>2. kind \in Log /\ kind # "Truncated" /\ kind # "Invoke"
  BY DEF Log
<1> HIDE DEF d
<1>3. CASE Readable' = Readable
  BY <1>1, <1>2, <1>3, UnreadKeepsScript DEF RuntimeInv, d
<1>4. CASE ~Limited'
  <2>1. /\ ~Limited
        /\ Len(lines) \in Nat
        /\ Readable = 1..Len(lines) /\ Readable' = 1..Len(lines) + 1
        /\ \A p \in Readable : lines'[p] = lines[p]
        /\ \A p \in Readable' \ Readable :
             p = Len(lines) + 1 /\ lines'[p].kind = kind /\ lines'[p].by = d
        /\ \A c : WasInvoked(c) => \A p \in Readable' \ Readable : Invoked(c, p)'
        /\ \A c : HasEnded(c) => \A p \in Readable' \ Readable : Ended(c, p)'
    BY <1>1, <1>2, <1>4, LineIsRead DEF d
  <2>2. \A p \in Readable : \A c : (Invoked(c, p)' <=> Invoked(c, p)) /\ (Ended(c, p)' <=> Ended(c, p))
    BY <1>1, <1>2, PastStays DEF d
  <2>3. \A c \in Logging : WasInvoked(c) /\ (c > d => HasEnded(c))
    BY <1>1, <2>1 DEF RuntimeInv, LogIsComplete
  <2>4. /\ \A p \in Readable' \ Readable : \A q \in Readable' : q <= p
        /\ Readable \subseteq Readable'
    BY <2>1
  <2>5. WritersAreInvoked'
    BY <1>1, <2>1, <2>2, <2>3, SameCalls DEF RuntimeInv, Script, WritersAreInvoked
  <2>6. InvokedInOrder'
    BY <1>2, <2>1, <2>2, SameCalls DEF RuntimeInv, Script, InvokedInOrder
  <2>7. SilentAfterEnd'
    BY <1>1, <2>1, <2>4, SameCalls DEF RuntimeInv, Script, SilentAfterEnd
  <2>8. InsideBeforeEnd'
    BY <2>1, <2>2, <2>3, SameCalls DEF RuntimeInv, Script, InsideBeforeEnd
  <2>9. OutsideAfterEnd'
    BY <1>2, <2>1, <2>2, SameCalls DEF RuntimeInv, Script, OutsideAfterEnd
  <2>10. SilentWhileInside'
    BY <1>1, <2>1, <2>2, <2>3, SameCalls DEF RuntimeInv, Script, SilentWhileInside
  <2> QED
    BY <2>5, <2>6, <2>7, <2>8, <2>9, <2>10 DEF Script
<1> QED
  BY <1>1, <1>2, <1>3, <1>4, LogGrows DEF d

\* What a new call is.
LEMMA CallIsNew ==
  ASSUME TypeOK, RuntimeInv, NEW program \in Programs, Invoke(program),
         NEW id, id = Len(calls) + 1
  PROVE  /\ calls' \in Seq([program : Programs, height : Nat])
         /\ Len(calls) \in Nat /\ Len(running) \in Nat
         /\ Len(calls') = id /\ id <= MaxCalls
         /\ \A c \in 1..Len(calls) : Height(c) \in Nat /\ Height(c)' = Height(c)
         /\ Height(id)' = Len(running) + 1
         /\ Logging \subseteq 1..Len(calls)
         /\ Logging' = IF program \in PROGRAMS_WITHOUT_LOGGING THEN Logging ELSE Logging \cup {id}
         /\ \A c, d \in 1..Len(calls) : Inside(c, d)' <=> Inside(c, d)
<1> DEFINE Call == [program : Programs, height : Nat]
           n == Len(calls)
           new == [program |-> program, height |-> Len(running) + 1]
<1>1. calls \in Seq(Call) /\ running \in Seq(Nat)
  BY DEF TypeOK
<1>2. Len(running) \in Nat /\ n \in Nat /\ \A c \in 1..n : calls[c] \in Call
  BY <1>1, SeqIs
<1>3. calls' = Append(calls, new) /\ id <= MaxCalls
  BY DEF Invoke
<1>4. new \in Call
  BY <1>2
<1>5. /\ calls' \in Seq(Call) /\ Len(calls') = id
      /\ \A c \in 1..n : calls'[c] = calls[c]
      /\ calls'[id] = new
  BY <1>1, <1>3, <1>4, AppendIs
<1>6. \A c \in 1..n : Height(c) \in Nat /\ Height(c)' = Height(c)
  BY <1>2, <1>5 DEF Height
<1>7. Height(id)' = Len(running) + 1 /\ calls'[id].program = program
  BY <1>5 DEF Height
<1> HIDE DEF Call, new, n
<1>8. \A c : c \in 1..id <=> c \in 1..n \/ c = id
  BY <1>2 DEF n
<1>9. Logging \subseteq 1..n
  BY DEF Logging, n
<1>10. Logging' = IF program \in PROGRAMS_WITHOUT_LOGGING THEN Logging ELSE Logging \cup {id}
  BY <1>5, <1>7, <1>8 DEF Logging, n
<1>11. ASSUME NEW c \in 1..n, NEW d \in 1..n PROVE Inside(c, d)' <=> Inside(c, d)
  <2>1. \A e \in d + 1..c : e \in 1..n
    BY <1>2
  <2> QED
    BY <1>6, <2>1 DEF Inside
<1> QED
  BY <1>2, <1>3, <1>5, <1>6, <1>7, <1>9, <1>10, <1>11 DEF Call, n

\* A new call is inside those that run.
LEMMA NewIsInsideRunning ==
  ASSUME TypeOK, RuntimeInv, NEW program \in Programs, Invoke(program),
         NEW id, id = Len(calls) + 1, NEW d \in 1..Len(calls)
  PROVE  Inside(id, d)' <=> d \in ToSet(running)
<1> DEFINE n == Len(calls)
           r == Len(running)
<1>1. /\ n \in Nat /\ r \in Nat
      /\ \A c \in 1..n : Height(c) \in Nat /\ Height(c)' = Height(c)
      /\ Height(id)' = r + 1
  BY CallIsNew
<1>2. /\ d < id /\ d \in 1..n
      /\ \A e : e \in d + 1..id <=> e \in d + 1..n \/ e = id
      /\ \A e \in d + 1..n : e \in 1..n
  BY <1>1
<1>3. Inside(id, d)' <=> \A e \in d + 1..id : Height(e)' > Height(d)'
  BY <1>2 DEF Inside, Height
<1>4. Inside(id, d)' <=> r + 1 > Height(d) /\ \A e \in d + 1..n : Height(e) > Height(d)
  BY <1>1, <1>2, <1>3
<1>5. CASE d \in ToSet(running)
  <2>1. PICK k \in 1..r : d = running[k]
    BY <1>5 DEF ToSet
  <2>2. Height(d) = k /\ \A c \in d + 1..n : Height(c) > k
    BY <2>1 DEF RuntimeInv, RunningIsOpen
  <2>3. r + 1 > k
    BY <1>1, <2>1
  <2> QED
    BY <1>4, <1>5, <2>2, <2>3
<1>6. CASE d \notin ToSet(running)
  <2>1. (\A e \in d + 1..n : Height(e) > Height(d)) => r < Height(d)
    BY <1>6 DEF RuntimeInv, EndedIsLeft
  <2>2. r < Height(d) => ~(r + 1 > Height(d))
    BY <1>1, <1>2
  <2> QED
    BY <1>4, <1>6, <2>1, <2>2
<1> QED
  BY <1>5, <1>6

\* An invocation, with its line or without, carries the story on.
LEMMA InvokeKeepsScript ==
  ASSUME TypeOK, RuntimeInv, NEW program \in Programs, Invoke(program)
  PROVE  Script'
<1> PICK id : id = Len(calls) + 1
  OBVIOUS
<1>1. /\ id \in Nat
      /\ Logging \subseteq 1..Len(calls)
      /\ \A c \in Logging : c < id /\ c \in 1..Len(calls)
      /\ Logging' \subseteq Logging \cup {id} /\ Logging \subseteq Logging'
  BY CallIsNew
<1>2. \A c, d \in Logging : Inside(c, d)' <=> Inside(c, d)
  BY <1>1, CallIsNew
<1>3. \A d \in Logging : Inside(id, d)' <=> d \in ToSet(running)
  BY <1>1, NewIsInsideRunning
<1>4. \A p \in Readable : \A d \in ToSet(running) : ~(lines[p].kind = "Success" /\ lines[p].by = d)
  BY DEF RuntimeInv, RunningIsOpen, ToSet
<1>5. \A p \in Readable : lines[p].by \in Logging /\ lines[p].by < id /\ lines[p].by \in Nat
  BY <1>1 DEF RuntimeInv, Script, WritersAreInvoked
<1>6. \A c, p : ~Invoked(c, p) \/ c \in Logging
  BY <1>5 DEF Invoked
<1>7. ASSUME Readable' = Readable,
             \A p \in Readable : lines'[p] = lines[p],
             \A p \in Readable : \A c : (Invoked(c, p)' <=> Invoked(c, p)) /\ (Ended(c, p)' <=> Ended(c, p))
      PROVE  Script'
  <2>1. WritersAreInvoked'
    BY <1>1, <1>7 DEF RuntimeInv, Script, WritersAreInvoked
  <2>2. InvokedInOrder'
    BY <1>1, <1>5, <1>7 DEF RuntimeInv, Script, InvokedInOrder
  <2>3. SilentAfterEnd'
    BY <1>7 DEF RuntimeInv, Script, SilentAfterEnd
  <2>4. InsideBeforeEnd'
    BY <1>1, <1>2, <1>3, <1>4, <1>5, <1>7 DEF RuntimeInv, Script, InsideBeforeEnd
  <2>5. OutsideAfterEnd'
    BY <1>1, <1>2, <1>5, <1>7 DEF RuntimeInv, Script, OutsideAfterEnd
  <2>6. SilentWhileInside'
    BY <1>1, <1>6, <1>7 DEF RuntimeInv, Script, SilentWhileInside
  <2> QED
    BY <2>1, <2>2, <2>3, <2>4, <2>5, <2>6 DEF Script
<1>8. CASE UNCHANGED lines
  BY <1>7, <1>8 DEF Readable, Invoked, Ended
<1>9. ASSUME Write("Invoke", id), program \notin PROGRAMS_WITHOUT_LOGGING PROVE Script'
  <2>1. "Invoke" \in Log /\ "Invoke" # "Truncated"
    BY DEF Log
  <2>2. \A p \in Readable : \A c : (Invoked(c, p)' <=> Invoked(c, p)) /\ (Ended(c, p)' <=> Ended(c, p))
    BY <1>1, <1>9, <2>1, PastStays
  <2>3. CASE Readable' = Readable
    BY <1>1, <1>7, <1>9, <2>1, <2>2, <2>3, LogGrows
  <2>4. CASE ~Limited' /\ id \in Logging'
    <3>1. /\ ~Limited
          /\ Len(lines) \in Nat
          /\ Readable = 1..Len(lines) /\ Readable' = 1..Len(lines) + 1
          /\ \A p \in Readable : lines'[p] = lines[p]
          /\ \A p \in Readable' \ Readable :
               p = Len(lines) + 1 /\ lines'[p].kind = "Invoke" /\ lines'[p].by = id
          /\ \A c : WasInvoked(c) \/ c = id => \A p \in Readable' \ Readable : Invoked(c, p)'
          /\ \A c : HasEnded(c) => \A p \in Readable' \ Readable : Ended(c, p)'
      BY <1>1, <1>9, <2>1, <2>4, LineIsRead
    <3>2. \A c \in Logging : WasInvoked(c) /\ (c \in ToSet(running) \/ HasEnded(c))
      BY <3>1 DEF RuntimeInv, LogIsComplete
    <3>3. /\ \A p \in Readable' \ Readable : \A q \in Readable' : q <= p
          /\ Readable \subseteq Readable'
      BY <3>1
    <3>4. WritersAreInvoked'
      BY <1>1, <2>2, <2>4, <3>1 DEF RuntimeInv, Script, WritersAreInvoked
    <3>5. InvokedInOrder'
      <4>1. InvokedInOrder
        BY DEF RuntimeInv, Script
      <4>2. /\ \A p \in Readable' \ Readable : lines'[p].kind = "Invoke" /\ lines'[p].by = id
            /\ \A p \in Readable' \ Readable : \A c \in Logging : Invoked(c, p)'
            /\ \A p \in Readable : \A q \in Readable' : q < p => q \in Readable
        BY <3>1, <3>2
      <4>3. \A c \in Logging' : c < id => c \in Logging
        BY <1>1
      <4>4. \A p \in Readable : \A c \in Logging' : c < lines[p].by => c \in Logging
        BY <1>1, <1>5
      <4>5. ASSUME NEW p \in Readable, lines'[p].kind = "Invoke"
            PROVE  /\ \A q \in Readable' :
                        lines'[q].kind = "Invoke" /\ q < p => lines'[q].by < lines'[p].by
                   /\ \A c \in Logging' : c < lines'[p].by => Invoked(c, p)'
        <5>1. /\ lines[p].kind = "Invoke" /\ lines'[p] = lines[p]
              /\ \A q \in Readable' : q < p => q \in Readable /\ lines'[q] = lines[q]
          BY <3>1, <4>2, <4>5
        <5>2. /\ \A q \in Readable : lines[q].kind = "Invoke" /\ q < p => lines[q].by < lines[p].by
              /\ \A c \in Logging : c < lines[p].by => Invoked(c, p)
          BY <4>1, <5>1 DEF InvokedInOrder
        <5> QED
          BY <2>2, <4>4, <5>1, <5>2
      <4>6. ASSUME NEW p \in Readable' \ Readable
            PROVE  /\ \A q \in Readable' :
                        lines'[q].kind = "Invoke" /\ q < p => lines'[q].by < lines'[p].by
                   /\ \A c \in Logging' : c < lines'[p].by => Invoked(c, p)'
        <5>1. lines'[p].by = id
          BY <4>2
        <5>2. \A q \in Readable' : q < p => q \in Readable
          <6>1. p = Len(lines) + 1
            BY <3>1
          <6>2. \A q \in 1..Len(lines) + 1 : q < Len(lines) + 1 => q \in 1..Len(lines)
            BY <3>1
          <6> QED
            BY <3>1, <6>1, <6>2
        <5>3. \A q \in Readable : lines'[q].by < id
          BY <1>5, <3>1
        <5> QED
          BY <4>2, <4>3, <5>1, <5>2, <5>3
      <4> QED
        BY <4>5, <4>6 DEF InvokedInOrder
    <3>6. SilentAfterEnd'
      BY <1>1, <1>5, <3>1, <3>3 DEF RuntimeInv, Script, SilentAfterEnd
    <3>7. InsideBeforeEnd'
      BY <1>1, <1>2, <1>3, <1>4, <1>5, <2>2, <3>1 DEF RuntimeInv, Script, InsideBeforeEnd
    <3>8. OutsideAfterEnd'
      BY <1>1, <1>2, <1>3, <1>5, <2>2, <3>1, <3>2 DEF RuntimeInv, Script, OutsideAfterEnd
    <3>9. SilentWhileInside'
      BY <1>1, <1>5, <1>6, <2>2, <3>1, <3>3 DEF RuntimeInv, Script, SilentWhileInside
    <3> QED
      BY <3>4, <3>5, <3>6, <3>7, <3>8, <3>9 DEF Script
  <2>5. id \in Logging'
    BY <1>9, CallIsNew
  <2> QED
    BY <1>1, <1>9, <2>1, <2>3, <2>4, <2>5, LogGrows
<1> QED
  BY <1>8, <1>9 DEF Invoke

LEMMA LinesAdded ==
  ASSUME TypeOK, NEW kind \in Log, kind # "Truncated", NEW call \in Nat, Write(kind, call)
  PROVE  \A p \in Readable' : \/ p \in Readable /\ lines'[p] = lines[p]
                              \/ lines'[p].kind = kind /\ lines'[p].by = call
<1>1. Len(lines) \in Nat
  BY ReadableIs
<1>2. \A p \in 1..Len(lines) + 1 : p \in 1..Len(lines) \/ p = Len(lines) + 1
  BY <1>1
<1>3. Line(kind, call).kind = kind /\ Line(kind, call).by = call
  BY DEF Line
<1> QED
  BY <1>2, <1>3, LogGrows

\* A step that only writes a line of the running call, and the step that ends it.
LEMMA WriteInnerKeepsRuntime ==
  ASSUME TypeOK, RuntimeInv, NEW kind \in {"Event", "Other"}, WriteInner(kind),
         UNCHANGED executed
  PROVE  RuntimeInv'
<1>1. /\ running # <<>> /\ Write(kind, Last(running))
      /\ UNCHANGED <<calls, running>>
      /\ kind \in Log /\ kind # "Truncated" /\ kind # "Success" /\ kind # "Invoke"
      /\ kind \in {"Event", "Other", "Success"}
  BY DEF WriteInner, Log
<1>2. Last(running) \in Nat
  BY <1>1, LastRunning
<1>3. Script'
  BY <1>1, RunningKeepsScript
<1>4. LogIsComplete'
  BY <1>1, <1>2, SameCalls, LineIsRead DEF RuntimeInv, LogIsComplete
<1>5. RunningIsOpen'
  BY <1>1, <1>2, SameCalls, LinesAdded DEF RuntimeInv, RunningIsOpen
<1>6. RunningAscends' /\ EndedIsLeft' /\ SilentCallsAreLeaves' /\ CommittedIsDone'
  BY <1>1, SameCalls DEF RuntimeInv, RunningAscends, EndedIsLeft, SilentCallsAreLeaves,
     CommittedIsDone
<1> QED
  BY <1>3, <1>4, <1>5, <1>6 DEF RuntimeInv

LEMMA ReturnKeepsRuntime ==
  ASSUME TypeOK, RuntimeInv, Return, UNCHANGED executed
  PROVE  RuntimeInv'
<1> DEFINE d == Last(running)
           n == Len(running)
<1>1. /\ ~executed /\ running # <<>> /\ Write("Success", d)
      /\ running' = Front(running) /\ UNCHANGED calls
      /\ "Success" \in Log /\ "Success" # "Truncated"
  BY DEF Return, Log
<1>2. d \in Nat /\ d \in Logging /\ Height(d) = n /\ n \in Nat \ {0}
  BY <1>1, LastRunning
<1>3. /\ Len(running') = n - 1
      /\ \A k \in 1..n - 1 : running'[k] = running[k] /\ k \in 1..n
      /\ \A x : x \in ToSet(running) <=> x \in ToSet(running)' \/ x = d
      /\ running[n] = d /\ n \in 1..n /\ \A k \in 1..n - 1 : k < n
  <2>1. running \in Seq(Nat)
    BY DEF TypeOK
  <2>2. /\ Len(running') = n - 1
        /\ \A k \in 1..n - 1 : running'[k] = running[k]
        /\ \A x : x \in ToSet(running) <=> x \in ToSet(running') \/ x = d
        /\ running[n] = d
    BY <1>1, <2>1, FrontIs
  <2>3. n \in 1..n /\ \A k \in 1..n - 1 : k \in 1..n /\ k < n
    BY <1>2
  <2> QED
    BY <2>2, <2>3
<1> HIDE DEF d, n
<1>4. \A k \in 1..n - 1 : running[k] # d
  <2>1. \A k \in 1..n - 1 : running[k] < d
    BY <1>3 DEF RuntimeInv, RunningAscends, n
  <2> QED
    BY <1>2, <2>1
<1>5. Script'
  BY <1>1, RunningKeepsScript DEF d
<1>6. LogIsComplete'
  <2> SUFFICES ASSUME ~Limited', NEW c \in Logging
               PROVE  WasInvoked(c)' /\ (c \in ToSet(running)' \/ HasEnded(c)')
    BY <1>1, SameCalls DEF LogIsComplete
  <2>1. /\ ~Limited
        /\ WasInvoked(c) => WasInvoked(c)'
        /\ HasEnded(c) \/ c = d => HasEnded(c)'
    BY <1>1, <1>2, LineIsRead
  <2> QED
    BY <1>3, <2>1 DEF RuntimeInv, LogIsComplete
<1>7. RunningIsOpen'
  <2>1. \A p \in Readable' : \/ p \in Readable /\ lines'[p] = lines[p]
                             \/ lines'[p].kind = "Success" /\ lines'[p].by = d
    BY <1>1, <1>2, LinesAdded
  <2> QED
    <3> SUFFICES ASSUME NEW k \in 1..n - 1
                 PROVE  /\ running[k] \in Logging
                        /\ Height(running[k]) = k
                        /\ \A c \in running[k] + 1..Len(calls) : Height(c) > k
                        /\ \A p \in Readable' : ~(lines'[p].kind = "Success" /\ lines'[p].by = running[k])
      BY <1>1, <1>3, SameCalls DEF RunningIsOpen, Height
    <3>1. k \in 1..n
      BY <1>3
    <3>2. /\ running[k] \in Logging
          /\ Height(running[k]) = k
          /\ \A c \in running[k] + 1..Len(calls) : Height(c) > k
          /\ \A p \in Readable : ~(lines[p].kind = "Success" /\ lines[p].by = running[k])
      BY <3>1 DEF RuntimeInv, RunningIsOpen, n
    <3> QED
      BY <1>4, <2>1, <3>2
<1>8. RunningAscends'
  BY <1>3 DEF RuntimeInv, RunningAscends, n
<1>9. EndedIsLeft'
  <2> SUFFICES ASSUME NEW e \in 1..Len(calls), e \notin ToSet(running)',
                      \A c \in e + 1..Len(calls) : Height(c) > Height(e)
               PROVE  n - 1 < Height(e)
    BY <1>1, <1>3, SameCalls DEF EndedIsLeft
  <2>1. CASE e = d
    BY <1>2, <2>1
  <2>2. CASE e # d
    <3>1. n < Height(e)
      BY <1>3, <2>2 DEF RuntimeInv, EndedIsLeft, n
    <3>2. Height(e) \in Nat
      BY CallsAre
    <3> QED
      BY <1>2, <3>1, <3>2
  <2> QED
    BY <2>1, <2>2
<1>10. SilentCallsAreLeaves' /\ CommittedIsDone'
  BY <1>1, SameCalls DEF RuntimeInv, SilentCallsAreLeaves, CommittedIsDone
<1> QED
  BY <1>5, <1>6, <1>7, <1>8, <1>9, <1>10 DEF RuntimeInv

LEMMA InvokeKeepsRuntime ==
  ASSUME TypeOK, RuntimeInv, NEW program \in Programs, Invoke(program),
         UNCHANGED executed
  PROVE  RuntimeInv'
<1> DEFINE r == Len(running)
           n == Len(calls)
<1> PICK id : id = n + 1
  OBVIOUS
<1>1. /\ n \in Nat /\ r \in Nat /\ Len(calls') = id
      /\ \A c \in 1..n : Height(c) \in Nat /\ Height(c)' = Height(c)
      /\ Height(id)' = r + 1
      /\ Logging \subseteq 1..n
      /\ Logging' = IF program \in PROGRAMS_WITHOUT_LOGGING THEN Logging ELSE Logging \cup {id}
  BY CallIsNew
<1>2. /\ id \in Nat /\ id \notin 1..n
      /\ \A c : c \in 1..id <=> c \in 1..n \/ c = id
      /\ \A k \in 1..r : r + 1 > k
      /\ r + 1 > r
  BY <1>1
<1>3. ASSUME NEW c \in Nat
      PROVE  \A e : c <= n => (e \in c + 1..id <=> e \in c + 1..n \/ e = id)
  BY <1>1, <1>3
<1>4. \A k \in 1..r : running[k] \in Logging /\ running[k] <= n /\ running[k] \in Nat
  <2>1. \A k \in 1..r : running[k] \in Logging
    BY DEF RuntimeInv, RunningIsOpen
  <2>2. \A c \in 1..n : c <= n /\ c \in Nat
    BY <1>1
  <2> QED
    BY <1>1, <2>1, <2>2
<1>5. \A p \in Readable : lines[p].by \in Logging
  BY DEF RuntimeInv, Script, WritersAreInvoked
<1>6. \A k \in 1..r : \A c \in running[k] + 1..id : Height(c)' > k
  <2>1. \A k \in 1..r : \A c \in running[k] + 1..n : c \in 1..n /\ Height(c) > k
    BY <1>1, <1>4 DEF RuntimeInv, RunningIsOpen
  <2> QED
    BY <1>1, <1>2, <1>3, <1>4, <2>1
<1>7. /\ \A k \in 1..r : Height(running[k]) = k
      /\ \A k \in 1..r : \A p \in Readable : ~(lines[p].kind = "Success" /\ lines[p].by = running[k])
  BY DEF RuntimeInv, RunningIsOpen
<1>8. ASSUME NEW e \in 1..n, e \notin ToSet(running)
      PROVE  \E c \in e + 1..id : ~(Height(c)' > Height(e)')
  <2>1. r < Height(e) \/ \E c \in e + 1..n : ~(Height(c) > Height(e))
    BY <1>8 DEF RuntimeInv, EndedIsLeft
  <2>2. r < Height(e) => ~(Height(id)' > Height(e)') /\ id \in e + 1..id
    BY <1>1, <1>3
  <2>3. \A c \in e + 1..n : c \in 1..n /\ c \in e + 1..id
    BY <1>1, <1>3
  <2> QED
    BY <1>1, <2>1, <2>2, <2>3
<1>9. ASSUME NEW c \in 1..n, c \notin Logging
      PROVE  Height(c + 1)' <= Height(c)'
  <2>1. CASE c < n
    <3>1. c + 1 \in 1..n
      BY <1>1, <2>1
    <3> QED
      BY <1>1, <1>9, <2>1, <3>1 DEF RuntimeInv, SilentCallsAreLeaves
  <2>2. CASE c = n
    <3>1. c \notin ToSet(running)
      BY <1>4, <1>9 DEF ToSet
    <3>2. \A e \in c + 1..n : FALSE
      BY <1>1, <2>2
    <3>3. r < Height(c)
      BY <3>1, <3>2 DEF RuntimeInv, EndedIsLeft
    <3> QED
      BY <1>1, <2>2, <3>3
  <2> QED
    BY <1>1, <2>1, <2>2
<1> HIDE DEF n, r
<1>10. \A e \in 1..id : /\ e \notin ToSet(running)
                        /\ \A c \in e + 1..id : Height(c)' > Height(e)'
                        => e = id
  BY <1>2, <1>8
<1>11. \A c \in 1..id : c \notin Logging' /\ c < id => Height(c + 1)' <= Height(c)'
  BY <1>1, <1>2, <1>9
<1>12. SilentCallsAreLeaves'
  BY <1>1, <1>11 DEF SilentCallsAreLeaves, Height
<1>13. Script' /\ CommittedIsDone'
  BY InvokeKeepsScript DEF Invoke, CommittedIsDone, RuntimeInv
<1>14. CASE program \in PROGRAMS_WITHOUT_LOGGING
  <2>1. UNCHANGED <<running, lines>> /\ Logging' = Logging
    BY <1>1, <1>14 DEF Invoke
  <2>2. /\ Readable' = Readable /\ Limited' = Limited
        /\ \A c : (WasInvoked(c)' <=> WasInvoked(c)) /\ (HasEnded(c)' <=> HasEnded(c))
    BY <2>1 DEF Readable, Limited, WasInvoked, HasEnded
  <2>3. LogIsComplete'
    BY <2>1, <2>2 DEF RuntimeInv, LogIsComplete
  <2>4. RunningIsOpen'
    BY <1>1, <1>4, <1>6, <1>7, <2>1, <2>2 DEF RunningIsOpen, Height, r
  <2>5. RunningAscends'
    BY <2>1 DEF RuntimeInv, RunningAscends
  <2>6. EndedIsLeft'
    BY <1>1, <1>2, <1>10, <2>1 DEF EndedIsLeft, Height, r
  <2> QED
    BY <1>12, <1>13, <2>3, <2>4, <2>5, <2>6 DEF RuntimeInv
<1>15. CASE program \notin PROGRAMS_WITHOUT_LOGGING
  <2>1. /\ running' = Append(running, id) /\ Write("Invoke", id)
        /\ Logging' = Logging \cup {id}
        /\ "Invoke" \in Log /\ "Invoke" # "Truncated" /\ "Invoke" # "Success"
    BY <1>1, <1>15 DEF Invoke, Log, n
  <2>2. /\ Len(running') = r + 1
        /\ \A k \in 1..r : running'[k] = running[k]
        /\ running'[r + 1] = id
        /\ \A x : x \in ToSet(running)' <=> x \in ToSet(running) \/ x = id
    <3>1. running \in Seq(Nat)
      BY DEF TypeOK
    <3> QED
      BY <1>2, <2>1, <3>1, AppendIs DEF r
  <2>3. \A k : k \in 1..r + 1 <=> k \in 1..r \/ k = r + 1
    BY <1>1
  <2>4. LogIsComplete'
    <3> SUFFICES ASSUME ~Limited', NEW c \in Logging'
                 PROVE  WasInvoked(c)' /\ (c \in ToSet(running)' \/ HasEnded(c)')
      BY DEF LogIsComplete
    <3>1. /\ ~Limited
          /\ WasInvoked(c) \/ c = id => WasInvoked(c)'
          /\ HasEnded(c) => HasEnded(c)'
      BY <1>2, <2>1, LineIsRead
    <3> QED
      BY <2>1, <2>2, <3>1 DEF RuntimeInv, LogIsComplete
  <2>5. RunningIsOpen'
    <3>1. \A p \in Readable' : \/ p \in Readable /\ lines'[p] = lines[p]
                               \/ lines'[p].kind # "Success"
      BY <1>2, <2>1, LinesAdded
    <3>2. \A p \in Readable : lines[p].by # id
      BY <1>1, <1>2, <1>5
    <3> SUFFICES ASSUME NEW k \in 1..r + 1
                 PROVE  /\ running'[k] \in Logging'
                        /\ Height(running[k])' = k
                        /\ \A c \in running'[k] + 1..id : Height(c)' > k
                        /\ \A p \in Readable' : ~(lines'[p].kind = "Success" /\ lines'[p].by = running'[k])
      BY <1>1, <2>2 DEF RunningIsOpen
    <3>3. CASE k \in 1..r
      <4>1. running'[k] = running[k] /\ running[k] \in 1..n
        BY <1>1, <1>4, <2>2, <3>3
      <4>2. Height(running[k])' = Height(running[k])
        BY <1>1, <4>1 DEF Height
      <4> QED
        BY <1>4, <1>6, <1>7, <2>1, <3>1, <3>3, <4>1, <4>2
    <3>4. CASE k = r + 1
      <4>1. running'[k] = id
        BY <2>2, <3>4
      <4>2. Height(running[k])' = k
        BY <1>1, <3>4, <4>1 DEF Height
      <4>3. \A c \in id + 1..id : FALSE
        BY <1>2
      <4> QED
        BY <2>1, <3>1, <3>2, <4>1, <4>2, <4>3
    <3> QED
      BY <2>3, <3>3, <3>4
  <2>6. RunningAscends'
    <3>1. \A j, k \in 1..r : j < k => running[j] < running[k]
      BY DEF RuntimeInv, RunningAscends, r
    <3>2. \A k \in 1..r : running[k] < id /\ ~(r + 1 < k)
      BY <1>1, <1>2, <1>4
    <3> QED
      BY <1>1, <2>2, <2>3, <3>1, <3>2 DEF RunningAscends
  <2>7. EndedIsLeft'
    BY <1>1, <1>10, <2>2 DEF EndedIsLeft, Height
  <2> QED
    BY <1>12, <1>13, <2>4, <2>5, <2>6, <2>7 DEF RuntimeInv
<1> QED
  BY <1>12, <1>14, <1>15, <1>15 DEF RuntimeInv

-----------------------------------------------------------------------------
(* What one step of the walk reads.                                         *)

LEMMA LeastOf ==
  ASSUME NEW T \in SUBSET Nat, T # {}
  PROVE  Min(T) \in T /\ \A y \in T : Min(T) <= y
<1>1. PICK x \in T : \A y \in T : ~ (<<y, x>> \in OpToRel(<, Nat))
  BY NatLessThanWellFounded, WFMin
<1>2. ASSUME NEW y \in T PROVE x <= y
  <2>1. x \in Nat /\ y \in Nat
    OBVIOUS
  <2>2. ~(y < x)
    BY <1>1, <2>1 DEF OpToRel
  <2> QED
    BY <2>1, <2>2
<1> QED
  BY <1>1, <1>2 DEF Min

LEMMA GreatestOf ==
  ASSUME NEW n \in Nat, NEW T \in SUBSET (0..n), T # {}
  PROVE  Max(T) \in T /\ \A y \in T : y <= Max(T)
<1> DEFINE U == {k \in Nat : n - k \in T}
<1>1. PICK t \in T : t \in 0..n
  OBVIOUS
<1>2. n - t \in Nat /\ n - (n - t) = t
  BY <1>1
<1>3. U \in SUBSET Nat /\ U # {}
  BY <1>1, <1>2
<1>4. PICK x \in U : \A y \in U : ~ (<<y, x>> \in OpToRel(<, Nat))
  <2> HIDE DEF U
  <2> QED
    BY <1>3, NatLessThanWellFounded, WFMin
<1>5. ASSUME NEW y \in T PROVE y <= n - x
  <2>1. y \in 0..n /\ n - y \in Nat /\ n - (n - y) = y
    OBVIOUS
  <2>2. n - y \in U
    BY <2>1
  <2>3. x \in Nat /\ ~(n - y < x)
    BY <1>4, <2>1, <2>2 DEF OpToRel
  <2> QED
    BY <2>1, <2>3
<1>6. n - x \in T
  BY <1>4
<1>7. \A a, b \in T : a >= b <=> b <= a
  OBVIOUS
<1> QED
  BY <1>5, <1>6, <1>7 DEF Max

\* The first line after pos of one of these kinds, and the lines up to it.
NextLine(kinds, e) ==
  /\ e \in pos + 1..Len(lines)
  /\ lines[e].kind \in kinds
  /\ \A p \in pos + 1..e - 1 : lines[p].kind \notin kinds
LinesTo(e) == [n \in 1..e - pos |-> pos + n]

LEMMA ScannedIs ==
  ASSUME TypeOK, NEW kinds
  PROVE  \/ /\ Scanned(kinds) = <<>>
            /\ \A p \in pos + 1..Len(lines) : lines[p].kind \notin kinds
         \/ /\ Scanned(kinds) # <<>>
            /\ \E e : NextLine(kinds, e) /\ Scanned(kinds) = LinesTo(e)
<1> DEFINE ends == {p \in pos + 1..Len(lines) : lines[p].kind \in kinds}
<1>1. pos \in Nat /\ Len(lines) \in Nat
  BY ReadableIs DEF TypeOK
<1>2. CASE ends = {}
  BY <1>2 DEF Scanned
<1>3. CASE ends # {}
  <2>1. ends \in SUBSET Nat
    BY <1>1
  <2> DEFINE e == Min(ends)
  <2>2. Scanned(kinds) = LinesTo(e)
    BY <1>3 DEF Scanned, LinesTo
  <2> HIDE DEF e
  <2>3. e \in ends /\ \A y \in ends : e <= y
    <3> HIDE DEF ends
    <3> QED
      BY <1>3, <2>1, LeastOf DEF e
  <2>4. \A p \in pos + 1..e - 1 : p \in pos + 1..Len(lines) /\ ~(e <= p)
    BY <1>1, <2>3
  <2>5. NextLine(kinds, e)
    BY <2>3, <2>4 DEF NextLine
  <2>6. 1 \in DOMAIN LinesTo(e)
    BY <1>1, <2>3 DEF LinesTo
  <2> QED
    BY <2>2, <2>5, <2>6
<1> QED
  BY <1>2, <1>3

LEMMA LinesToIs ==
  ASSUME TypeOK, NEW e \in pos + 1..Len(lines)
  PROVE  /\ LinesTo(e) \in Seq(Nat)
         /\ Len(LinesTo(e)) = e - pos /\ e - pos \in Nat \ {0}
         /\ LinesTo(e) # <<>>
         /\ Last(LinesTo(e)) = e
         /\ \A n \in 1..e - pos : LinesTo(e)[n] = pos + n
         /\ e \in Nat
<1> DEFINE m == e - pos
<1>1. pos \in Nat /\ Len(lines) \in Nat
  BY ReadableIs DEF TypeOK
<1>2. m \in Nat \ {0} /\ pos + m = e /\ e \in Nat
  BY <1>1
<1>3. LinesTo(e) = [n \in 1..m |-> pos + n]
  BY DEF LinesTo
<1> HIDE DEF m
<1>4. [n \in 1..m |-> pos + n] \in [1..m -> Nat]
  BY <1>1, <1>2
<1>5. /\ LinesTo(e) \in Seq(Nat) /\ Len(LinesTo(e)) = m
      /\ \A n \in 1..m : LinesTo(e)[n] = pos + n
  BY <1>2, <1>3, <1>4
<1>6. m \in 1..m /\ m # 0
  BY <1>2
<1> QED
  BY <1>2, <1>5, <1>6 DEF Last, m

\* A line can be read, or the log was cut before the end.
LEMMA OpenIs ==
  ASSUME TypeOK, NEW program, Open(program)
  PROVE  \/ Skips(program) /\ UNCHANGED iteratorVars
         \/ /\ ~Skips(program)
            /\ \A p \in pos + 1..Len(lines) : lines[p].kind \notin {"Invoke", "Truncated"}
            /\ panicked' = TRUE /\ UNCHANGED <<pos, logStack, is_truncated>>
         \/ \E e : /\ ~Skips(program)
                   /\ NextLine({"Invoke", "Truncated"}, e)
                   /\ \/ /\ e > pos + 1 /\ logStack = <<>>
                         /\ panicked' = TRUE /\ UNCHANGED <<pos, logStack, is_truncated>>
                      \/ /\ ~(e > pos + 1 /\ logStack = <<>>)
                         /\ pos' = e /\ UNCHANGED panicked
                         /\ \/ /\ lines[e].kind = "Truncated"
                               /\ is_truncated' = TRUE /\ UNCHANGED logStack
                            \/ /\ lines[e].kind = "Invoke"
                               /\ UNCHANGED is_truncated /\ logStack' = Opened(LinesTo(e))
<1> DEFINE kinds == {"Invoke", "Truncated"}
           read == Scanned(kinds)
<1>1. CASE Skips(program)
  BY <1>1 DEF Open
<1>2. CASE ~Skips(program) /\ read = <<>>
  <2>1. \A p \in pos + 1..Len(lines) : lines[p].kind \notin kinds
    BY <1>2, ScannedIs
  <2>2. panicked' = TRUE /\ UNCHANGED <<pos, logStack, is_truncated>>
    BY <1>2 DEF Open, Panic
  <2> QED
    BY <1>2, <2>1, <2>2
<1>3. CASE ~Skips(program) /\ read # <<>>
  <2>1. PICK e : NextLine(kinds, e) /\ read = LinesTo(e)
    BY <1>3, ScannedIs
  <2>2. e \in pos + 1..Len(lines) /\ pos \in Nat
    BY <2>1 DEF NextLine, TypeOK
  <2>3. /\ Len(read) = e - pos /\ Last(read) = e
    BY <2>1, <2>2, LinesToIs
  <2>4. Len(read) > 1 <=> e > pos + 1
    BY <2>2, <2>3
  <2>5. IF Len(read) > 1 /\ logStack = <<>> THEN Panic
        ELSE /\ pos' = Last(read)
             /\ IF lines[Last(read)].kind = "Truncated" THEN Truncate
                ELSE /\ logStack' = Opened(read)
                     /\ UNCHANGED <<is_truncated, panicked>>
    BY <1>3 DEF Open
  <2>6. lines[e].kind \in kinds
    BY <2>1 DEF NextLine
  <2> HIDE DEF read
  <2> QED
    BY <1>3, <2>1, <2>3, <2>4, <2>5, <2>6 DEF Panic, Truncate
<1> QED
  BY <1>1, <1>2, <1>3

LEMMA CloseIs ==
  ASSUME TypeOK, NEW call \in Nat, Close(call)
  PROVE  \/ /\ calls[call].program \in PROGRAMS_WITHOUT_LOGGING
            /\ logs' = [logs EXCEPT ![call] = Some(<<>>)] /\ UNCHANGED iteratorVars
         \/ /\ calls[call].program \notin PROGRAMS_WITHOUT_LOGGING
            /\ is_truncated /\ UNCHANGED <<logs, iteratorVars>>
         \/ /\ calls[call].program \notin PROGRAMS_WITHOUT_LOGGING /\ ~is_truncated
            /\ \A p \in pos + 1..Len(lines) :
                 lines[p].kind \notin {"Invoke", "Truncated", "Success"}
            /\ panicked' = TRUE /\ UNCHANGED <<pos, logStack, is_truncated, logs>>
         \/ \E e :
            /\ calls[call].program \notin PROGRAMS_WITHOUT_LOGGING /\ ~is_truncated
            /\ NextLine({"Invoke", "Truncated", "Success"}, e)
            /\ \/ /\ logStack = <<>> \/ lines[e].kind = "Invoke"
                  /\ panicked' = TRUE /\ UNCHANGED <<pos, logStack, is_truncated, logs>>
               \/ /\ logStack # <<>>
                  /\ pos' = e /\ UNCHANGED panicked
                  /\ \/ /\ lines[e].kind = "Truncated"
                        /\ is_truncated' = TRUE /\ UNCHANGED <<logStack, logs>>
                     \/ /\ lines[e].kind = "Success"
                        /\ logs' = [logs EXCEPT ![call] = Some(Last(logStack) \o LinesTo(e))]
                        /\ logStack' = Front(logStack)
                        /\ UNCHANGED is_truncated
<1> DEFINE kinds == {"Invoke", "Truncated", "Success"}
           read == Scanned(kinds)
<1>1. CASE calls[call].program \in PROGRAMS_WITHOUT_LOGGING
  BY <1>1 DEF Close
<1>2. CASE calls[call].program \notin PROGRAMS_WITHOUT_LOGGING /\ is_truncated
  BY <1>2 DEF Close
<1>3. CASE /\ calls[call].program \notin PROGRAMS_WITHOUT_LOGGING /\ ~is_truncated
           /\ read = <<>>
  <2>1. \A p \in pos + 1..Len(lines) : lines[p].kind \notin kinds
    BY <1>3, ScannedIs
  <2>2. panicked' = TRUE /\ UNCHANGED <<pos, logStack, is_truncated, logs>>
    BY <1>3 DEF Close, Panic
  <2> QED
    BY <1>3, <2>1, <2>2
<1>4. CASE /\ calls[call].program \notin PROGRAMS_WITHOUT_LOGGING /\ ~is_truncated
           /\ read # <<>>
  <2>1. PICK e : NextLine(kinds, e) /\ read = LinesTo(e)
    BY <1>4, ScannedIs
  <2>2. e \in pos + 1..Len(lines)
    BY <2>1 DEF NextLine
  <2>3. Last(read) = e
    BY <2>1, <2>2, LinesToIs
  <2>4. IF logStack = <<>> \/ lines[e].kind = "Invoke"
        THEN Panic /\ UNCHANGED logs
        ELSE /\ pos' = e
             /\ IF lines[e].kind = "Truncated" THEN Truncate /\ UNCHANGED logs
                ELSE /\ logs' = [logs EXCEPT ![call] = Some(Last(logStack) \o LinesTo(e))]
                     /\ logStack' = Front(logStack)
                     /\ UNCHANGED <<is_truncated, panicked>>
    BY <1>4, <2>1, <2>3 DEF Close
  <2>5. lines[e].kind \in kinds
    BY <2>1 DEF NextLine
  <2> HIDE DEF read
  <2> QED
    BY <1>4, <2>1, <2>4, <2>5 DEF Panic, Truncate
<1> QED
  BY <1>1, <1>2, <1>3, <1>4

\* Lists of lines.
LEMMA ListedConcat ==
  ASSUME NEW s \in Seq(Nat), NEW t \in Seq(Nat), NEW S, NEW T,
         Listed(s, S), Listed(t, T), \A x \in S, y \in T : x < y
  PROVE  s \o t \in Seq(Nat) /\ Listed(s \o t, S \cup T)
<1> DEFINE m == Len(s)
           n == Len(t)
           u == s \o t
<1>1. m \in Nat /\ n \in Nat
  OBVIOUS
<1>2. /\ u \in Seq(Nat) /\ Len(u) = m + n
      /\ \A i \in 1..m + n : u[i] = IF i <= m THEN s[i] ELSE t[i - m]
  BY ConcatProperties
<1>3. /\ \A i \in 1..m : s[i] \in S
      /\ \A i \in 1..n : t[i] \in T
      /\ \A x \in S : \E i \in 1..m : s[i] = x
      /\ \A x \in T : \E i \in 1..n : t[i] = x
      /\ \A i, j \in 1..m : i < j => s[i] < s[j]
      /\ \A i, j \in 1..n : i < j => t[i] < t[j]
  <2>1. ToSet(s) = S /\ ToSet(t) = T
    BY DEF Listed
  <2>2. /\ \A x : x \in S <=> \E i \in 1..m : s[i] = x
        /\ \A x : x \in T <=> \E i \in 1..n : t[i] = x
    BY <2>1, ToSetIs
  <2>3. /\ \A i, j \in 1..m : i < j => s[i] < s[j]
        /\ \A i, j \in 1..n : i < j => t[i] < t[j]
    BY DEF Listed
  <2> QED
    BY <2>2, <2>3
<1> HIDE DEF m, n, u
<1>4. /\ \A i \in 1..m : i \in 1..m + n /\ i <= m
      /\ \A i \in 1..n : i + m \in 1..m + n /\ ~(i + m <= m) /\ (i + m) - m = i
      /\ \A i \in 1..m + n : i \in 1..m \/ (~(i <= m) /\ i - m \in 1..n)
      /\ \A i, j \in 1..m + n : i < j /\ ~(i <= m) => ~(j <= m) /\ i - m < j - m
      /\ \A i, j \in 1..m + n : i \in 1..m <=> i <= m
  BY <1>1
<1>5. \A i \in 1..m + n : u[i] \in S \cup T
  BY <1>2, <1>3, <1>4
<1>6. ASSUME NEW x \in S \cup T PROVE \E i \in 1..m + n : u[i] = x
  <2>1. CASE x \in S
    BY <1>2, <1>3, <1>4, <2>1
  <2>2. CASE x \in T
    <3>1. PICK i \in 1..n : t[i] = x
      BY <1>3, <2>2
    <3>2. u[i + m] = x /\ i + m \in 1..m + n
      BY <1>2, <1>4, <3>1
    <3> QED
      BY <3>2
  <2> QED
    BY <2>1, <2>2
<1>7. ToSet(u) = S \cup T
  <2>1. \A x : x \in ToSet(u) <=> \E i \in 1..m + n : u[i] = x
    BY <1>2, ToSetIs
  <2> QED
    BY <1>5, <1>6, <2>1
<1>8. ASSUME NEW i \in 1..m + n, NEW j \in 1..m + n, i < j PROVE u[i] < u[j]
  <2>1. CASE j <= m
    <3>1. i \in 1..m /\ j \in 1..m /\ i <= m
      BY <1>1, <1>8, <2>1
    <3> QED
      BY <1>2, <1>3, <1>8, <2>1, <3>1
  <2>2. CASE i <= m /\ ~(j <= m)
    BY <1>2, <1>3, <1>4, <2>2
  <2>3. CASE ~(i <= m)
    <3>1. ~(j <= m) /\ i - m \in 1..n /\ j - m \in 1..n /\ i - m < j - m
      BY <1>4, <1>8, <2>3
    <3> QED
      BY <1>2, <1>3, <2>3, <3>1
  <2> QED
    BY <2>1, <2>2, <2>3
<1> QED
  BY <1>2, <1>7, <1>8 DEF Listed, u

LEMMA LinesToListed ==
  ASSUME TypeOK, NEW e \in pos + 1..Len(lines)
  PROVE  /\ Listed(LinesTo(e), pos + 1..e)
         /\ Front(LinesTo(e)) \in Seq(Nat) /\ Listed(Front(LinesTo(e)), pos + 1..e - 1)
<1> DEFINE s == LinesTo(e)
           m == e - pos
<1>1. /\ s \in Seq(Nat) /\ Len(s) = m /\ m \in Nat \ {0} /\ s # <<>>
      /\ \A n \in 1..m : s[n] = pos + n
      /\ e \in Nat
  BY LinesToIs
<1>2. pos \in Nat /\ pos + m = e
  BY <1>1 DEF TypeOK
<1>3. /\ Front(s) \in Seq(Nat) /\ Len(Front(s)) = m - 1
      /\ \A n \in 1..m - 1 : Front(s)[n] = s[n]
  BY <1>1, FrontIs
<1> HIDE DEF s, m
<1>4. ASSUME NEW t, NEW k \in Nat, Len(t) = k, t \in Seq(Nat), \A n \in 1..k : t[n] = pos + n
      PROVE  Listed(t, pos + 1..pos + k)
  <2>1. \A n \in 1..k : pos + n \in pos + 1..pos + k
    BY <1>2
  <2>2. \A x \in pos + 1..pos + k : x - pos \in 1..k /\ pos + (x - pos) = x
    BY <1>2
  <2>3. ToSet(t) = pos + 1..pos + k
    BY <1>4, <2>1, <2>2 DEF ToSet
  <2>4. \A i, j \in 1..k : i < j => pos + i < pos + j
    BY <1>2
  <2> QED
    BY <1>4, <2>3, <2>4 DEF Listed
<1>5. m - 1 \in Nat /\ pos + (m - 1) = e - 1 /\ \A n \in 1..m - 1 : n \in 1..m
  BY <1>1, <1>2
<1>6. Listed(s, pos + 1..e)
  BY <1>1, <1>2, <1>4
<1>7. Listed(Front(s), pos + 1..e - 1)
  BY <1>1, <1>3, <1>4, <1>5
<1> QED
  BY <1>3, <1>6, <1>7 DEF s

\* What is read when a call opens goes to its caller, but for its own invocation.
LEMMA OpenedIs ==
  ASSUME TypeOK, NEW e \in pos + 1..Len(lines), ~(e > pos + 1 /\ logStack = <<>>)
  PROVE  /\ Opened(LinesTo(e)) \in Seq(Seq(Nat))
         /\ Len(logStack) \in Nat
         /\ Len(Opened(LinesTo(e))) = Len(logStack) + 1
         /\ Opened(LinesTo(e))[Len(logStack) + 1] = <<e>>
         /\ \A k \in 1..Len(logStack) - 1 : Opened(LinesTo(e))[k] = logStack[k]
         /\ \A S : /\ Len(logStack) > 0 /\ S \subseteq 1..pos
                   /\ Listed(logStack[Len(logStack)], S)
                   => Listed(Opened(LinesTo(e))[Len(logStack)], S \cup (pos + 1..e - 1))
<1> DEFINE read == LinesTo(e)
           L == Len(logStack)
           full == logStack[L] \o Front(read)
           low == IF Len(read) = 1 THEN logStack
                  ELSE [logStack EXCEPT ![L] = full]
<1>1. logStack \in Seq(Seq(Nat)) /\ pos \in Nat
  BY DEF TypeOK
<1>2. /\ L \in Nat /\ \A k \in 1..L : logStack[k] \in Seq(Nat)
      /\ logStack # <<>> => L \in 1..L
  BY <1>1
<1>3. /\ Len(read) = e - pos /\ Last(read) = e /\ read \in Seq(Nat) /\ e \in Nat
      /\ Front(read) \in Seq(Nat) /\ Listed(Front(read), pos + 1..e - 1)
  BY LinesToIs, LinesToListed
<1>4. Opened(read) = Append(low, <<e>>)
  BY <1>3 DEF Opened
<1>5. Len(read) = 1 <=> e = pos + 1
  BY <1>1, <1>3
<1>6. Len(read) # 1 => logStack # <<>>
  BY <1>1, <1>3, <1>5
<1>7. Len(read) # 1 => full \in Seq(Nat)
  <2> SUFFICES ASSUME Len(read) # 1 PROVE full \in Seq(Nat)
    OBVIOUS
  <2>1. logStack[L] \in Seq(Nat)
    BY <1>2, <1>6
  <2> HIDE DEF read, L
  <2> QED
    BY <1>3, <2>1, ConcatProperties
<1>8. /\ low \in Seq(Seq(Nat)) /\ Len(low) = L
      /\ \A k \in 1..L - 1 : low[k] = logStack[k]
      /\ Len(read) = 1 => low = logStack
      /\ Len(read) # 1 => low[L] = full
  <2>1. CASE Len(read) = 1
    BY <1>1, <2>1
  <2>2. CASE Len(read) # 1
    <3> HIDE DEF full, read, L
    <3>1. L \in 1..L /\ full \in Seq(Nat) /\ L \in Nat
      BY <1>2, <1>6, <1>7, <2>2
    <3>2. low = [logStack EXCEPT ![L] = full]
      BY <2>2
    <3>3. logStack \in [1..L -> Seq(Nat)]
      BY <1>1 DEF L
    <3>4. /\ low \in [1..L -> Seq(Nat)] /\ low[L] = full
          /\ \A k \in 1..L - 1 : low[k] = logStack[k]
      BY <3>1, <3>2, <3>3
    <3>5. low \in Seq(Seq(Nat)) /\ Len(low) = L
      BY <3>1, <3>4, FunctionIsSeq
    <3> QED
      BY <2>2, <3>4, <3>5
  <2> QED
    BY <2>1, <2>2
<1> HIDE DEF low, full, read
<1>9. <<e>> \in Seq(Nat)
  BY <1>3
<1>10. /\ Opened(read) \in Seq(Seq(Nat)) /\ Len(Opened(read)) = L + 1
       /\ Opened(read)[L + 1] = <<e>>
       /\ \A k \in 1..L : Opened(read)[k] = low[k]
  BY <1>4, <1>8, <1>9, AppendIs
<1>11. \A k \in 1..L - 1 : Opened(read)[k] = logStack[k]
  <2>1. \A k \in 1..L - 1 : k \in 1..L
    BY <1>2
  <2> QED
    BY <1>8, <1>10, <2>1
<1>12. ASSUME NEW S, L > 0, S \subseteq 1..pos, Listed(logStack[L], S)
       PROVE  Listed(Opened(read)[L], S \cup (pos + 1..e - 1))
  <2>1. L \in 1..L /\ logStack[L] \in Seq(Nat)
    BY <1>2, <1>12
  <2>2. CASE Len(read) = 1
    <3>1. pos + 1..e - 1 = {}
      <4>1. e = pos + 1
        BY <1>5, <2>2
      <4> QED
        BY <1>1, <4>1
    <3>2. S \cup (pos + 1..e - 1) = S
      BY <3>1
    <3> QED
      BY <1>8, <1>10, <1>12, <2>1, <2>2, <3>2
  <2>3. CASE Len(read) # 1
    <3>1. \A x \in S, y \in pos + 1..e - 1 : x < y
      BY <1>1, <1>3, <1>12
    <3>2. Listed(full, S \cup (pos + 1..e - 1))
      BY <1>3, <1>12, <2>1, <3>1, ListedConcat DEF full
    <3> QED
      BY <1>8, <1>10, <2>1, <2>3, <3>2
  <2> QED
    BY <2>2, <2>3
<1> QED
  BY <1>2, <1>10, <1>11, <1>12 DEF read

-----------------------------------------------------------------------------
(* Every variable keeps its type, and the walk leaves the runtime alone.    *)

LEMMA WritesAreTyped ==
  ASSUME TypeOK, NEW kind \in Log, kind # "Truncated", NEW call \in Nat, Write(kind, call)
  PROVE  lines' \in Seq([kind : Log, by : Nat])
BY LogGrows

LEMMA ExecuteIsTyped ==
  ASSUME TypeOK, RuntimeInv, Execute
  PROVE  TypeOK'
<1>1. UNCHANGED <<executed, iteratorVars, next, stack, logs, inner>>
  BY DEF Execute
<1>2. /\ calls' \in Seq([program : Programs, height : Nat])
      /\ Len(calls') <= MaxCalls
      /\ running' \in Seq(Nat)
      /\ lines' \in Seq([kind : Log, by : Nat])
      /\ Len(calls') \in Nat /\ Len(calls) \in Nat /\ Len(calls) <= Len(calls')
  <2>1. CASE \E program \in Programs : Invoke(program)
    <3>1. PICK program \in Programs : Invoke(program)
      BY <2>1
    <3> PICK id : id = Len(calls) + 1
      OBVIOUS
    <3>2. /\ calls' \in Seq([program : Programs, height : Nat])
          /\ Len(calls) \in Nat
          /\ Len(calls') = id /\ id <= MaxCalls
      BY <3>1, CallIsNew
    <3>3. id \in Nat /\ Len(calls) <= id
      BY <3>2
    <3>4. CASE UNCHANGED <<running, lines>>
      BY <3>2, <3>3, <3>4 DEF TypeOK
    <3>5. CASE running' = Append(running, id) /\ Write("Invoke", id)
      <4>1. "Invoke" \in Log /\ "Invoke" # "Truncated"
        BY DEF Log
      <4>2. lines' \in Seq([kind : Log, by : Nat])
        BY <3>3, <3>5, <4>1, WritesAreTyped
      <4>3. running' \in Seq(Nat)
        BY <3>3, <3>5, AppendIs DEF TypeOK
      <4> QED
        BY <3>2, <3>3, <4>2, <4>3
    <3> QED
      BY <3>1, <3>4, <3>5 DEF Invoke
  <2>2. CASE \/ \E kind \in {"Event", "Other"} : WriteInner(kind)
             \/ Return
    <3>1. PICK kind \in {"Event", "Other", "Success"} :
            /\ running # <<>> /\ Write(kind, Last(running)) /\ UNCHANGED calls
            /\ running' = running \/ running' = Front(running)
      BY <2>2 DEF WriteInner, Return
    <3>2. kind \in Log /\ kind # "Truncated"
      BY DEF Log
    <3>3. running \in Seq(Nat)
      BY DEF TypeOK
    <3>4. Last(running) \in Nat /\ Front(running) \in Seq(Nat)
      BY <3>1, <3>3, FrontIs
    <3>5. lines' \in Seq([kind : Log, by : Nat])
      BY <3>1, <3>2, <3>4, WritesAreTyped
    <3>6. Len(calls) \in Nat /\ Len(calls) <= Len(calls)
      BY CallsAre
    <3>7. /\ calls \in Seq([program : Programs, height : Nat])
          /\ Len(calls) <= MaxCalls
      BY DEF TypeOK
    <3> QED
      BY <3>1, <3>3, <3>4, <3>5, <3>6, <3>7
  <2> QED
    BY <2>1, <2>2 DEF Execute
<1>3. next' \in 1..Len(calls') + 1
  <2>1. next \in 1..Len(calls) + 1
    BY DEF TypeOK
  <2> QED
    BY <1>1, <1>2, <2>1
<1> QED
  BY <1>1, <1>2, <1>3 DEF TypeOK, iteratorVars

LEMMA StackIs ==
  ASSUME TypeOK, stack # <<>>
  PROVE  /\ Len(stack) \in Nat \ {0}
         /\ Front(stack) \in Seq(Nat)
         /\ Len(Front(stack)) = Len(stack) - 1
         /\ \A i \in 1..Len(stack) - 1 : Front(stack)[i] = stack[i]
         /\ Last(stack) = stack[Len(stack)] /\ Last(stack) \in Nat
         /\ \A x : x \in ToSet(stack) <=> x \in ToSet(Front(stack)) \/ x = Last(stack)
BY FrontIs DEF TypeOK

LEMMA CloseLastIsTyped ==
  ASSUME TypeOK, CloseLast
  PROVE  TypeOK'
<1>1. /\ stack # <<>> /\ stack' = Front(stack) /\ Close(Last(stack))
      /\ inner' = [inner EXCEPT ![IF stack' = <<>> THEN 0 ELSE Last(stack')] =
                     Append(@, Last(stack))]
      /\ UNCHANGED <<runtimeVars, next>>
  BY DEF CloseLast
<1>2. stack' \in Seq(Nat) /\ Last(stack) \in Nat
  BY <1>1, StackIs
<1>3. inner' \in [0..MaxCalls -> Seq(Nat)]
  <2>1. inner \in [0..MaxCalls -> Seq(Nat)]
    BY DEF TypeOK
  <2>2. \A i \in 0..MaxCalls : Append(inner[i], Last(stack)) \in Seq(Nat)
    BY <1>2, <2>1
  <2> QED
    BY <1>1, <2>1, <2>2
<1>4. /\ pos \in Nat /\ logStack \in Seq(Seq(Nat)) /\ is_truncated \in BOOLEAN /\ panicked \in BOOLEAN
      /\ logs \in [1..MaxCalls -> [some : BOOLEAN, lines : Seq(Nat)]]
  BY DEF TypeOK
<1>5. /\ pos' \in Nat /\ logStack' \in Seq(Seq(Nat))
      /\ is_truncated' \in BOOLEAN /\ panicked' \in BOOLEAN
      /\ logs' \in [1..MaxCalls -> [some : BOOLEAN, lines : Seq(Nat)]]
  <2> DEFINE call == Last(stack)
  <2>1. ASSUME NEW s \in Seq(Nat)
        PROVE  [logs EXCEPT ![call] = Some(s)] \in [1..MaxCalls -> [some : BOOLEAN, lines : Seq(Nat)]]
    BY <1>4 DEF Some
  <2>2. <<>> \in Seq(Nat)
    OBVIOUS
  <2>3. ASSUME NEW e, NextLine({"Invoke", "Truncated", "Success"}, e), logStack # <<>>
        PROVE  e \in Nat /\ Last(logStack) \o LinesTo(e) \in Seq(Nat) /\ Front(logStack) \in Seq(Seq(Nat))
    <3>1. e \in pos + 1..Len(lines)
      BY <2>3 DEF NextLine
    <3>2. e \in Nat /\ LinesTo(e) \in Seq(Nat)
      BY <3>1, LinesToIs
    <3>3. Last(logStack) \in Seq(Nat) /\ Front(logStack) \in Seq(Seq(Nat))
      BY <1>4, <2>3, FrontIs
    <3> QED
      BY <3>2, <3>3, ConcatProperties
  <2> HIDE DEF call
  <2>4. CASE UNCHANGED iteratorVars /\ (UNCHANGED logs \/ logs' = [logs EXCEPT ![call] = Some(<<>>)])
    BY <1>4, <2>1, <2>2, <2>4 DEF iteratorVars
  <2>5. CASE panicked' = TRUE /\ UNCHANGED <<pos, logStack, is_truncated, logs>>
    BY <1>4, <2>5
  <2>6. ASSUME NEW e, NextLine({"Invoke", "Truncated", "Success"}, e), logStack # <<>>,
               pos' = e, UNCHANGED panicked,
               \/ is_truncated' = TRUE /\ UNCHANGED <<logStack, logs>>
               \/ /\ logs' = [logs EXCEPT ![call] = Some(Last(logStack) \o LinesTo(e))]
                  /\ logStack' = Front(logStack)
                  /\ UNCHANGED is_truncated
        PROVE  /\ pos' \in Nat /\ logStack' \in Seq(Seq(Nat))
               /\ is_truncated' \in BOOLEAN /\ panicked' \in BOOLEAN
               /\ logs' \in [1..MaxCalls -> [some : BOOLEAN, lines : Seq(Nat)]]
    <3>1. e \in Nat /\ Last(logStack) \o LinesTo(e) \in Seq(Nat) /\ Front(logStack) \in Seq(Seq(Nat))
      BY <2>3, <2>6
    <3> QED
      BY <1>4, <2>1, <2>6, <3>1
  <2>7. Close(call) /\ call \in Nat
    BY <1>1, <1>2 DEF call
  <2> QED
    BY <2>4, <2>5, <2>6, <2>7, CloseIs
<1> QED
  BY <1>1, <1>2, <1>3, <1>5 DEF TypeOK, runtimeVars

LEMMA OpenNextIsTyped ==
  ASSUME TypeOK, OpenNext
  PROVE  TypeOK'
<1>1. /\ next <= Len(calls) /\ stack' = Append(stack, next) /\ next' = next + 1
      /\ Open(calls[next].program)
      /\ UNCHANGED <<runtimeVars, logs, inner>>
  BY DEF OpenNext
<1>2. /\ next \in 1..Len(calls) + 1 /\ Len(calls) \in Nat
  BY CallsAre DEF TypeOK
<1>3. next' \in 1..Len(calls') + 1 /\ next \in Nat
  BY <1>1, <1>2 DEF runtimeVars
<1>4. stack' \in Seq(Nat)
  BY <1>1, <1>3, AppendIs DEF TypeOK
<1>5. pos \in Nat /\ logStack \in Seq(Seq(Nat)) /\ is_truncated \in BOOLEAN /\ panicked \in BOOLEAN
  BY DEF TypeOK
<1>6. /\ pos' \in Nat /\ logStack' \in Seq(Seq(Nat))
      /\ is_truncated' \in BOOLEAN /\ panicked' \in BOOLEAN
  <2>1. ASSUME NEW e, NextLine({"Invoke", "Truncated"}, e), ~(e > pos + 1 /\ logStack = <<>>)
        PROVE  e \in Nat /\ Opened(LinesTo(e)) \in Seq(Seq(Nat))
    <3>1. e \in pos + 1..Len(lines)
      BY <2>1 DEF NextLine
    <3> QED
      BY <2>1, <3>1, LinesToIs, OpenedIs
  <2> QED
    BY <1>1, <1>5, <2>1, OpenIs DEF iteratorVars
<1> QED
  BY <1>1, <1>3, <1>4, <1>6 DEF TypeOK, runtimeVars

LEMMA TypeKept ==
  ASSUME TypeOK, RuntimeInv, [Next]_vars
  PROVE  TypeOK'
<1>1. CASE Commit
  BY <1>1 DEF Commit, TypeOK, iteratorVars
<1>2. CASE UNCHANGED vars
  BY <1>2 DEF TypeOK, vars, runtimeVars, iteratorVars
<1> QED
  BY <1>1, <1>2, ExecuteIsTyped, CloseLastIsTyped, OpenNextIsTyped DEF Next

LEMMA SameLogKeepsRuntime ==
  ASSUME UNCHANGED <<calls, running, lines>>
  PROVE  RuntimeInv /\ CommittedIsDone' => RuntimeInv'
<1>1. /\ Script' <=> Script
      /\ LogIsComplete' <=> LogIsComplete
      /\ RunningIsOpen' <=> RunningIsOpen
      /\ RunningAscends' <=> RunningAscends
      /\ EndedIsLeft' <=> EndedIsLeft
      /\ SilentCallsAreLeaves' <=> SilentCallsAreLeaves
  BY DEF Script, WritersAreInvoked, InvokedInOrder,
     SilentAfterEnd, InsideBeforeEnd, OutsideAfterEnd, SilentWhileInside, LogIsComplete,
     RunningIsOpen, RunningAscends, EndedIsLeft, SilentCallsAreLeaves,
     Logging, Inside, Invoked, Ended, WasInvoked, HasEnded, Height, Readable, Limited
<1> QED
  BY <1>1 DEF RuntimeInv

LEMMA RuntimeKept ==
  ASSUME TypeOK, RuntimeInv, [Next]_vars
  PROVE  RuntimeInv'
<1>1. CASE Execute
  BY <1>1, InvokeKeepsRuntime, WriteInnerKeepsRuntime, ReturnKeepsRuntime DEF Execute
<1>2. CASE UNCHANGED runtimeVars
  <2>1. CommittedIsDone'
    BY <1>2 DEF runtimeVars, RuntimeInv, CommittedIsDone
  <2> QED
    BY <1>2, <2>1, SameLogKeepsRuntime DEF runtimeVars
<1>3. CASE Commit
  BY <1>3, SameLogKeepsRuntime DEF Commit, CommittedIsDone
<1> QED
  BY <1>1, <1>2, <1>3 DEF Next, CloseLast, OpenNext, vars

-----------------------------------------------------------------------------
(* The tree of instructions is the tree of calls.                           *)

LEMMA CallerIs ==
  ASSUME TypeOK, NEW c \in 1..Len(calls)
  PROVE  /\ Caller(c) \in 0..c - 1
         /\ Caller(c) # 0 => Height(Caller(c)) < Height(c)
         /\ \A e \in Caller(c) + 1..c - 1 : Height(e) >= Height(c)
<1> DEFINE lower == {e \in 1..c - 1 : Height(e) < Height(c)}
<1>1. /\ Len(calls) \in Nat /\ c \in Nat \ {0} /\ c - 1 \in Nat
      /\ \A e \in 1..Len(calls) : Height(e) \in Nat
  BY CallsAre
<1>2. Caller(c) = IF lower = {} THEN 0 ELSE Max(lower)
  BY DEF Caller, Height
<1>3. lower \in SUBSET (0..c - 1) /\ lower \subseteq 1..c - 1
  BY <1>1
<1>4. \A e \in 1..c - 1 : e \in lower \/ Height(e) >= Height(c)
  <2>1. \A e \in 1..c - 1 : e \in 1..Len(calls)
    BY <1>1
  <2>2. \A x, y \in Nat : x < y \/ x >= y
    OBVIOUS
  <2> QED
    BY <1>1, <2>1, <2>2
<1>5. \A e \in lower : Height(e) < Height(c)
  OBVIOUS
<1> HIDE DEF lower
<1>6. CASE lower = {}
  BY <1>1, <1>2, <1>4, <1>6
<1>7. CASE lower # {}
  <2>1. Caller(c) \in lower /\ \A y \in lower : y <= Caller(c)
    BY <1>1, <1>2, <1>3, <1>7, GreatestOf
  <2>2. \A a \in 1..c - 1 : \A e \in a + 1..c - 1 : e \in 1..c - 1 /\ ~(e <= a)
    BY <1>1
  <2>3. \A e \in Caller(c) + 1..c - 1 : e \in 1..c - 1 /\ ~(e <= Caller(c))
    BY <1>3, <2>1, <2>2
  <2> QED
    BY <1>1, <1>3, <1>4, <1>5, <2>1, <2>3
<1> QED
  BY <1>6, <1>7

LEMMA CallerIsOnly ==
  ASSUME TypeOK, NEW c \in 1..Len(calls), NEW b \in 0..c - 1,
         b # 0 => Height(b) < Height(c),
         \A e \in b + 1..c - 1 : Height(e) >= Height(c)
  PROVE  Caller(c) = b
<1> DEFINE a == Caller(c)
<1>1. /\ Len(calls) \in Nat /\ c \in Nat \ {0} /\ b \in Nat
      /\ \A e \in 1..Len(calls) : Height(e) \in Nat
  BY CallsAre
<1>2. /\ a \in 0..c - 1
      /\ a # 0 => Height(a) < Height(c)
      /\ \A e \in a + 1..c - 1 : Height(e) >= Height(c)
  BY CallerIs
<1> HIDE DEF a
<1>3. \A x, y \in Nat : ~(x < y /\ x >= y)
  OBVIOUS
<1>4. ASSUME a < b PROVE FALSE
  <2>1. b \in a + 1..c - 1 /\ b # 0 /\ b \in 1..Len(calls)
    BY <1>1, <1>2, <1>4
  <2> QED
    BY <1>1, <1>2, <1>3, <2>1
<1>5. ASSUME b < a PROVE FALSE
  <2>1. a \in b + 1..c - 1 /\ a # 0 /\ a \in 1..Len(calls)
    BY <1>1, <1>2, <1>5
  <2> QED
    BY <1>1, <1>2, <1>3, <2>1
<1> QED
  BY <1>1, <1>2, <1>4, <1>5 DEF a

LEMMA SameCaller ==
  ASSUME UNCHANGED calls
  PROVE  \A c : Caller(c)' = Caller(c)
BY DEF Caller

\* Until the transaction is complete, nothing was walked.
LEMMA IdleTree ==
  ASSUME TypeOK', Idle', next' = 1, stack' = <<>>, inner' = [i \in 0..MaxCalls |-> <<>>]
  PROVE  TreeInv'
<1>1. \A c \in 1..Len(calls') : ~Closed(c)'
  BY DEF Closed
<1>2. ASSUME NEW i \in 0..Len(calls') PROVE ToSet(inner[i])' = {}
  <2>1. Len(calls') <= MaxCalls /\ Len(calls') \in Nat
    <3>1. calls' \in Seq([program : Programs, height : Nat]) /\ Len(calls') <= MaxCalls
      BY DEF TypeOK
    <3> QED
      BY <3>1, SeqIs
  <2>2. inner'[i] = <<>>
    BY <2>1
  <2> QED
    BY <2>2 DEF ToSet
<1>3. TreeIsCallTree'
  BY <1>1, <1>2 DEF TreeIsCallTree
<1>4. StackAscends' /\ StackIsPath'
  BY DEF StackAscends, StackIsPath
<1>5. NextIsAbove'
  BY DEF NextIsAbove, TopCall
<1> QED
  BY <1>3, <1>4, <1>5 DEF TreeInv

\* Opening puts the next call on top of those it is inside.
LEMMA OpenNextStack ==
  ASSUME TypeOK, TreeInv, OpenNext
  PROVE  /\ executed /\ next' = next + 1
         /\ UNCHANGED <<executed, calls, lines, running, logs, inner>>
         /\ next \in 1..Len(calls) /\ next \in Nat
         /\ Len(stack) \in Nat /\ Len(stack') = Len(stack) + 1
         /\ \A k \in 1..Len(stack) : stack'[k] = stack[k]
         /\ stack'[Len(stack) + 1] = next
         /\ \A x : x \in ToSet(stack)' <=> x \in ToSet(stack) \/ x = next
         /\ \A k \in 1..Len(stack) :
              /\ stack[k] \in 1..next - 1 /\ stack[k] < next
              /\ stack[k] \in 1..Len(calls) /\ stack[k] \in Nat
              /\ Caller(stack[k]) = IF k = 1 THEN 0 ELSE stack[k - 1]
              /\ \A c \in stack[k] + 1..next - 1 : Height(c) > Height(stack[k])
              /\ Height(next) > Height(stack[k])
         /\ TopCall \in 0..next - 1
         /\ TopCall # 0 => Height(TopCall) < Height(next)
         /\ Len(stack) > 0 => TopCall = stack[Len(stack)] /\ TopCall # 0
         /\ Len(stack) = 0 => TopCall = 0
         /\ \A c \in 1..Len(calls) : Closed(c)' <=> Closed(c)
<1> DEFINE n == next
           L == Len(stack)
<1>1. /\ executed /\ n <= Len(calls) /\ stack' = Append(stack, n) /\ next' = n + 1
      /\ stack # <<>> => ~Over(calls[n].height)
      /\ UNCHANGED <<executed, calls, lines, running, logs, inner>>
  BY DEF OpenNext, runtimeVars
<1>2. /\ Len(calls) \in Nat /\ n \in 1..Len(calls) /\ n \in Nat /\ n - 1 \in Nat /\ (n + 1) - 1 = n
      /\ \A c \in 1..Len(calls) : Height(c) \in Nat
  <2>1. n \in 1..Len(calls) + 1 /\ Len(calls) \in Nat
    BY NextIs
  <2> QED
    BY <1>1, <2>1, CallsAre
<1>3. /\ L \in Nat /\ Len(stack') = L + 1
      /\ \A k \in 1..L : stack'[k] = stack[k]
      /\ stack'[L + 1] = n
      /\ \A x : x \in ToSet(stack)' <=> x \in ToSet(stack) \/ x = n
  <2>1. stack \in Seq(Nat) /\ n \in Nat
    BY <1>2 DEF TypeOK
  <2>2. /\ L \in Nat /\ Len(Append(stack, n)) = L + 1
        /\ \A k \in 1..L : Append(stack, n)[k] = stack[k]
        /\ Append(stack, n)[L + 1] = n
        /\ \A x : x \in ToSet(Append(stack, n)) <=> x \in ToSet(stack) \/ x = n
    BY <2>1, AppendIs
  <2> QED
    BY <1>1, <2>2
<1>4. \A k : k \in 1..L + 1 <=> k \in 1..L \/ k = L + 1
  BY <1>3
<1>5. \A k \in 1..L : /\ stack[k] \in 1..n - 1 /\ stack[k] < n
                      /\ stack[k] \in 1..Len(calls) /\ stack[k] \in Nat
                      /\ Caller(stack[k]) = IF k = 1 THEN 0 ELSE stack[k - 1]
                      /\ \A c \in stack[k] + 1..n - 1 : Height(c) > Height(stack[k])
  BY <1>2 DEF TreeInv, StackIsPath
<1>6. /\ TopCall \in 0..n - 1
      /\ TopCall # 0 => Height(TopCall) < Height(n) /\ L \in 1..L /\ TopCall = stack[L]
      /\ L > 0 => TopCall = stack[L] /\ TopCall # 0
      /\ L = 0 => TopCall = 0
  <2>1. CASE stack = <<>>
    BY <1>2, <2>1 DEF TopCall
  <2>2. CASE stack # <<>>
    <3>1. L \in Nat \ {0} /\ Last(stack) = stack[L]
      BY <2>2, StackIs
    <3>2. TopCall = stack[L] /\ L \in 1..L
      BY <2>2, <3>1 DEF TopCall
    <3>3. ~(Height(stack[L]) >= Height(n))
      BY <1>1, <2>2, <3>1 DEF Over, Height
    <3>4. Height(stack[L]) < Height(n)
      BY <1>2, <1>5, <3>2, <3>3
    <3> QED
      BY <1>2, <1>5, <3>1, <3>2, <3>4
  <2> QED
    BY <2>1, <2>2
<1>7. \A k \in 1..L : Height(n) > Height(stack[k])
  <2> SUFFICES ASSUME NEW k \in 1..L PROVE Height(n) > Height(stack[k])
    OBVIOUS
  <2>1. TopCall = stack[L] /\ Height(TopCall) < Height(n) /\ L \in 1..L
    BY <1>3, <1>6
  <2>2. Height(TopCall) \in Nat /\ Height(n) \in Nat /\ Height(stack[k]) \in Nat
    BY <1>2, <1>5, <2>1
  <2>3. CASE k = L
    BY <2>1, <2>2, <2>3
  <2>4. CASE k < L
    <3>1. stack[k] < TopCall
      BY <2>1, <2>4 DEF TreeInv, StackAscends
    <3>2. TopCall \in stack[k] + 1..n - 1
      BY <1>2, <1>5, <2>1, <3>1
    <3>3. Height(TopCall) > Height(stack[k])
      BY <1>5, <3>2
    <3> QED
      BY <2>1, <2>2, <3>3
  <2> QED
    BY <1>3, <2>3, <2>4
<1>8. \A c \in 1..Len(calls) : Closed(c)' <=> Closed(c)
  <2>1. \A c \in 1..Len(calls) : c < n + 1 <=> c < n \/ c = n
    BY <1>2
  <2>2. n \in 1..Len(calls) /\ ~(n < n)
    BY <1>2
  <2> QED
    BY <1>1, <1>3, <2>1, <2>2 DEF Closed
<1> QED
  BY <1>1, <1>2, <1>3, <1>5, <1>6, <1>7, <1>8

LEMMA OpenNextKeepsTree ==
  ASSUME TypeOK, TreeInv, OpenNext
  PROVE  TreeInv'
<1> DEFINE n == next
           L == Len(stack)
<1>1. /\ executed /\ next' = n + 1 /\ UNCHANGED <<executed, calls, inner>>
      /\ n \in 1..Len(calls) /\ n \in Nat
      /\ L \in Nat /\ Len(stack') = L + 1
      /\ \A k \in 1..L : stack'[k] = stack[k]
      /\ stack'[L + 1] = n
  BY OpenNextStack
<1>2. /\ Len(calls) \in Nat /\ n <= Len(calls) /\ n - 1 \in Nat /\ (n + 1) - 1 = n
      /\ \A c \in n + 1..n : FALSE
  <2>1. Len(calls) \in Nat
    BY CallsAre
  <2> QED
    BY <1>1, <2>1
<1>3. \A k : k \in 1..L + 1 <=> k \in 1..L \/ k = L + 1
  BY <1>1
<1>4. \A k \in 1..L : /\ stack[k] \in 1..n - 1 /\ stack[k] < n /\ stack[k] \in Nat
                      /\ Caller(stack[k]) = IF k = 1 THEN 0 ELSE stack[k - 1]
                      /\ \A c \in stack[k] + 1..n - 1 : Height(c) > Height(stack[k])
                      /\ Height(n) > Height(stack[k])
  BY OpenNextStack
<1>5. /\ TopCall \in 0..n - 1
      /\ TopCall # 0 => Height(TopCall) < Height(n)
      /\ L > 0 => TopCall = stack[L] /\ TopCall # 0
      /\ L = 0 => TopCall = 0
  BY OpenNextStack
<1>6. Caller(n) = TopCall
  <2>1. \A c \in TopCall + 1..n - 1 : Height(c) >= Height(n)
    BY <1>2 DEF TreeInv, NextIsAbove
  <2> QED
    BY <1>1, <1>5, <2>1, CallerIsOnly
<1>7. StackAscends'
  <2>1. \A j, k \in 1..L : j < k => stack[j] < stack[k]
    BY DEF TreeInv, StackAscends
  <2>2. /\ \A k \in 1..L : ~(L + 1 < k)
        /\ ~(L + 1 < L + 1)
    BY <1>1
  <2>3. \A j, k \in 1..L + 1 : j < k => stack'[j] < stack'[k]
    BY <1>1, <1>3, <1>4, <2>1, <2>2
  <2> QED
    BY <1>1, <2>3 DEF StackAscends
<1>8. StackIsPath'
  <2> SUFFICES ASSUME NEW k \in 1..L + 1
               PROVE  /\ stack'[k] \in 1..n
                      /\ Caller(stack'[k]) = IF k = 1 THEN 0 ELSE stack'[k - 1]
                      /\ \A c \in stack'[k] + 1..n : Height(c) > Height(stack'[k])
    BY <1>1, <1>2 DEF StackIsPath, Caller, Height
  <2>1. CASE k \in 1..L
    <3>1. \A c \in stack[k] + 1..n : c \in stack[k] + 1..n - 1 \/ c = n
      BY <1>1, <1>4, <2>1
    <3>2. \A c \in stack[k] + 1..n : Height(c) > Height(stack[k])
      BY <1>4, <2>1, <3>1
    <3>3. stack[k] \in 1..n
      BY <1>1, <1>4, <2>1
    <3>4. stack'[k] = stack[k] /\ (k # 1 => k - 1 \in 1..L)
      BY <1>1, <2>1
    <3> QED
      BY <1>1, <1>4, <2>1, <3>2, <3>3, <3>4
  <2>2. CASE k = L + 1
    <3>1. stack'[k] = n /\ n \in 1..n
      BY <1>1, <2>2
    <3>2. TopCall = IF k = 1 THEN 0 ELSE stack'[k - 1]
      <4>1. CASE L = 0
        BY <1>5, <2>2, <4>1
      <4>2. CASE L > 0
        <5>1. k - 1 = L /\ L \in 1..L /\ k # 1
          BY <1>1, <2>2, <4>2
        <5> QED
          BY <1>1, <1>5, <4>2, <5>1
      <4> QED
        BY <1>1, <4>1, <4>2
    <3> QED
      BY <1>2, <1>6, <3>1, <3>2
  <2> QED
    BY <1>3, <2>1, <2>2
<1>9. NextIsAbove'
  <2>1. TopCall' = n
    BY <1>1 DEF TopCall
  <2> QED
    BY <1>1, <1>2, <2>1 DEF NextIsAbove
<1>10. TreeIsCallTree'
  <2>1. \A c \in 1..Len(calls) : Closed(c)' <=> Closed(c)
    BY OpenNextStack
  <2>2. \A c : Caller(c)' = Caller(c)
    BY <1>1, SameCaller
  <2> QED
    BY <1>1, <2>1, <2>2 DEF TreeInv, TreeIsCallTree
<1>11. Idle'
  BY <1>1 DEF Idle
<1> QED
  BY <1>7, <1>8, <1>9, <1>10, <1>11 DEF TreeInv

\* Closing takes the last call from the stack.
LEMMA CloseLastStack ==
  ASSUME TypeOK, TreeInv, CloseLast
  PROVE  /\ executed
         /\ UNCHANGED <<executed, calls, lines, running, next>>
         /\ next \in Nat
         /\ Len(stack) \in Nat \ {0} /\ Len(stack) \in 1..Len(stack) /\ Len(stack) - 1 \in Nat
         /\ stack' = Front(stack) /\ stack' \in Seq(Nat)
         /\ Len(stack') = Len(stack) - 1
         /\ \A k \in 1..Len(stack) - 1 :
              /\ stack'[k] = stack[k] /\ k \in 1..Len(stack) /\ k < Len(stack)
              /\ stack[k] < stack[Len(stack)]
         /\ Last(stack) = stack[Len(stack)]
         /\ stack[Len(stack)] \notin ToSet(stack)'
         /\ \A x : x \in ToSet(stack) <=> x \in ToSet(stack)' \/ x = stack[Len(stack)]
         /\ \A k \in 1..Len(stack) :
              /\ stack[k] \in 1..next - 1 /\ stack[k] < next
              /\ stack[k] \in 1..Len(calls) /\ stack[k] \in Nat
              /\ Caller(stack[k]) = IF k = 1 THEN 0 ELSE stack[k - 1]
              /\ \A c \in stack[k] + 1..next - 1 : Height(c) > Height(stack[k])
         /\ next <= Len(calls) => Height(stack[Len(stack)]) >= Height(next)
         /\ \A c : Closed(c)' <=> Closed(c) \/ c = stack[Len(stack)]
<1> DEFINE L == Len(stack)
           t == stack[L]
           n == next
<1>1. /\ executed /\ stack # <<>> /\ stack' = Front(stack)
      /\ n <= Len(calls) => Over(calls[n].height)
      /\ UNCHANGED <<executed, calls, lines, running, next>>
  BY DEF CloseLast, runtimeVars
<1>2. /\ L \in Nat \ {0} /\ L \in 1..L /\ L - 1 \in Nat
      /\ Len(stack') = L - 1
      /\ \A k \in 1..L - 1 : stack'[k] = stack[k] /\ k \in 1..L /\ k < L
      /\ Last(stack) = t /\ t \in Nat
      /\ \A x : x \in ToSet(stack) <=> x \in ToSet(stack)' \/ x = t
  <2>1. /\ L \in Nat \ {0}
        /\ Len(stack') = L - 1
        /\ \A k \in 1..L - 1 : stack'[k] = stack[k]
        /\ Last(stack) = t /\ t \in Nat
        /\ \A x : x \in ToSet(stack) <=> x \in ToSet(stack') \/ x = t
    BY <1>1, StackIs
  <2>2. L \in 1..L /\ L - 1 \in Nat /\ \A k \in 1..L - 1 : k \in 1..L /\ k < L
    BY <2>1
  <2> QED
    BY <2>1, <2>2
<1>3. /\ Len(calls) \in Nat /\ n \in 1..Len(calls) + 1 /\ n \in Nat /\ Len(calls) <= MaxCalls
      /\ \A c \in 1..Len(calls) : Height(c) \in Nat
  BY CallsAre, NextIs
<1>4. \A k \in 1..L : /\ stack[k] \in 1..n - 1 /\ stack[k] < n
                      /\ stack[k] \in 1..Len(calls) /\ stack[k] \in Nat
                      /\ Caller(stack[k]) = IF k = 1 THEN 0 ELSE stack[k - 1]
                      /\ \A c \in stack[k] + 1..n - 1 : Height(c) > Height(stack[k])
  BY <1>3 DEF TreeInv, StackIsPath
<1>5. n <= Len(calls) => Height(t) >= Height(n)
  BY <1>1, <1>2 DEF Over, Height
<1>6. \A k \in 1..L - 1 : stack[k] < t
  BY <1>2 DEF TreeInv, StackAscends
<1>7. stack' \in Seq(Nat)
  BY <1>1, StackIs
<1>8. t \notin ToSet(stack)'
  <2>1. \A k \in 1..L - 1 : stack'[k] < t /\ stack'[k] \in Nat
    BY <1>2, <1>4, <1>6
  <2>2. \A k \in 1..L - 1 : stack'[k] # t
    BY <1>2, <2>1
  <2>3. \A x : x \in ToSet(stack') <=> \E k \in 1..Len(stack') : stack'[k] = x
    BY <1>7, ToSetIs
  <2> QED
    BY <1>2, <2>2, <2>3
<1>9. \A c : Closed(c)' <=> Closed(c) \/ c = t
  BY <1>1, <1>2, <1>4, <1>8 DEF Closed
<1> QED
  BY <1>1, <1>2, <1>3, <1>4, <1>5, <1>6, <1>7, <1>8, <1>9

LEMMA CloseLastKeepsTree ==
  ASSUME TypeOK, TreeInv, CloseLast
  PROVE  TreeInv'
<1> DEFINE L == Len(stack)
           t == stack[L]
           n == next
<1>1. /\ executed /\ UNCHANGED <<executed, calls, next>>
      /\ L \in Nat \ {0} /\ L \in 1..L /\ L - 1 \in Nat
      /\ stack' \in Seq(Nat) /\ Len(stack') = L - 1
      /\ \A k \in 1..L - 1 : stack'[k] = stack[k] /\ k \in 1..L /\ k < L
      /\ Last(stack) = t
      /\ n <= Len(calls) => Height(t) >= Height(n)
  BY CloseLastStack
<1>2. inner' = [inner EXCEPT ![IF stack' = <<>> THEN 0 ELSE Last(stack')] = Append(@, t)]
  BY <1>1 DEF CloseLast
<1>3. /\ Len(calls) \in Nat /\ n \in 1..Len(calls) + 1 /\ n \in Nat /\ Len(calls) <= MaxCalls
      /\ \A c \in 1..Len(calls) : Height(c) \in Nat
  BY CallsAre, NextIs
<1>4. \A k \in 1..L : /\ stack[k] \in 1..n - 1 /\ stack[k] < n
                      /\ stack[k] \in 1..Len(calls) /\ stack[k] \in Nat
                      /\ Caller(stack[k]) = IF k = 1 THEN 0 ELSE stack[k - 1]
                      /\ \A c \in stack[k] + 1..n - 1 : Height(c) > Height(stack[k])
  BY CloseLastStack
<1>5. TopCall = t /\ t \in Nat
  BY <1>1, <1>4 DEF TopCall
<1>6. TopCall' = Caller(t) /\ (IF stack' = <<>> THEN 0 ELSE Last(stack')) = Caller(t)
  <2>2. stack' = <<>> <=> L = 1
    BY <1>1
  <2>3. CASE L = 1
    BY <1>1, <1>4, <2>2, <2>3 DEF TopCall
  <2>4. CASE L # 1
    <3>1. L - 1 \in 1..L - 1
      BY <1>1, <2>4
    <3>2. stack'[L - 1] = stack[L - 1] /\ Len(stack') = L - 1
      BY <1>1, <3>1
    <3>3. Caller(t) = stack[L - 1]
      BY <1>1, <1>4, <2>4
    <3> QED
      BY <2>2, <2>4, <3>2, <3>3 DEF TopCall, Last
  <2> QED
    BY <2>3, <2>4
<1>7. /\ t \in 1..Len(calls) /\ t < n
      /\ Caller(t) \in 0..t - 1
      /\ \A e \in Caller(t) + 1..t - 1 : Height(e) >= Height(t)
  BY <1>1, <1>4, CallerIs
<1> HIDE DEF t, L, n
<1>8. StackAscends'
  <2>1. \A j, k \in 1..L : j < k => stack[j] < stack[k]
    BY DEF TreeInv, StackAscends, L
  <2> QED
    BY <1>1, <2>1 DEF StackAscends
<1>9. StackIsPath'
  <2> SUFFICES ASSUME NEW k \in 1..L - 1
               PROVE  /\ stack'[k] \in 1..n - 1
                      /\ Caller(stack'[k]) = IF k = 1 THEN 0 ELSE stack'[k - 1]
                      /\ \A c \in stack'[k] + 1..n - 1 : Height(c) > Height(stack'[k])
    BY <1>1 DEF StackIsPath, Caller, Height, n
  <2>1. k # 1 => k - 1 \in 1..L - 1
    BY <1>1
  <2> QED
    BY <1>1, <1>4, <2>1
<1>10. NextIsAbove'
  <2> SUFFICES ASSUME n <= Len(calls), NEW c \in Caller(t) + 1..n - 1
               PROVE  Height(c) >= Height(n)
    BY <1>1, <1>6 DEF NextIsAbove, Height, n
  <2>1. \A e \in t + 1..n - 1 : Height(e) >= Height(n)
    BY <1>5 DEF TreeInv, NextIsAbove, n
  <2>2. c \in Caller(t) + 1..t - 1 \/ c = t \/ c \in t + 1..n - 1
    BY <1>3, <1>5, <1>7
  <2>3. c \in 1..Len(calls) /\ n \in 1..Len(calls)
    BY <1>3, <1>7
  <2>4. Height(c) \in Nat /\ Height(t) \in Nat /\ Height(n) \in Nat
    BY <1>3, <1>7, <2>3
  <2>5. CASE c \in Caller(t) + 1..t - 1
    <3>1. Height(c) >= Height(t) /\ Height(t) >= Height(n)
      BY <1>1, <1>7, <2>5
    <3> QED
      BY <2>4, <3>1
  <2> QED
    BY <1>1, <2>1, <2>2, <2>5
<1>11. TreeIsCallTree'
  <2>1. \A c : Closed(c)' <=> Closed(c) \/ c = t
    BY CloseLastStack DEF t, L
  <2>2. \A c : Caller(c)' = Caller(c)
    BY <1>1, SameCaller
  <2> SUFFICES ASSUME NEW i \in 0..Len(calls)
               PROVE  ToSet(inner[i])' = {c \in 1..Len(calls) : Closed(c)' /\ Caller(c) = i}
    BY <1>1, <2>2 DEF TreeIsCallTree
  <2>3. ToSet(inner[i]) = {c \in 1..Len(calls) : Closed(c) /\ Caller(c) = i}
    BY DEF TreeInv, TreeIsCallTree
  <2>4. inner \in [0..MaxCalls -> Seq(Nat)] /\ i \in 0..MaxCalls
    BY <1>3 DEF TypeOK
  <2>5. CASE i = Caller(t)
    <3>1. inner'[i] = Append(inner[i], t)
      BY <1>2, <1>6, <2>4, <2>5
    <3>2. \A x : x \in ToSet(inner'[i]) <=> x \in ToSet(inner[i]) \/ x = t
      <4>1. inner[i] \in Seq(Nat) /\ t \in Nat
        BY <1>5, <2>4
      <4> QED
        BY <3>1, <4>1, AppendIs
    <3> QED
      BY <1>7, <2>1, <2>3, <2>5, <3>2
  <2>6. CASE i # Caller(t)
    <3>1. inner'[i] = inner[i]
      BY <1>2, <1>6, <2>4, <2>6
    <3> QED
      BY <2>1, <2>3, <2>6, <3>1
  <2> QED
    BY <2>5, <2>6
<1>12. Idle'
  BY <1>1 DEF Idle
<1> QED
  BY <1>8, <1>9, <1>10, <1>11, <1>12 DEF TreeInv

LEMMA TreeKept ==
  ASSUME TypeOK, TypeOK', TreeInv, [Next]_vars
  PROVE  TreeInv'
<1>1. CASE Execute
  <2>1. ~executed /\ UNCHANGED <<executed, iteratorVars, next, stack, logs, inner>>
    BY <1>1 DEF Execute, Invoke, WriteInner, Return
  <2>2. Idle' /\ next' = 1 /\ stack' = <<>> /\ inner' = [i \in 0..MaxCalls |-> <<>>]
    BY <2>1 DEF TreeInv, Idle, iteratorVars
  <2> QED
    BY <2>2, IdleTree
<1>2. CASE Commit
  <2>1. /\ ~executed /\ executed'
        /\ UNCHANGED <<iteratorVars, next, stack, logs, inner>>
    BY <1>2 DEF Commit
  <2>2. Idle' /\ next' = 1 /\ stack' = <<>> /\ inner' = [i \in 0..MaxCalls |-> <<>>]
    BY <2>1 DEF TreeInv, Idle
  <2> QED
    BY <2>2, IdleTree
<1>3. CASE UNCHANGED vars
  <2>1. UNCHANGED <<executed, calls, pos, next, stack, logStack, is_truncated, logs, inner, panicked>>
    BY <1>3 DEF vars, runtimeVars, iteratorVars
  <2>2. Idle' /\ StackAscends'
    BY <2>1 DEF TreeInv, Idle, StackAscends
  <2>4. StackIsPath'
    BY <2>1 DEF TreeInv, StackIsPath, Caller, Height
  <2>5. NextIsAbove'
    BY <2>1 DEF TreeInv, NextIsAbove, TopCall, Height
  <2>3. TreeIsCallTree'
    BY <2>1 DEF TreeInv, TreeIsCallTree, Closed, Caller
  <2> QED
    BY <2>2, <2>3, <2>4, <2>5 DEF TreeInv
<1> QED
  BY <1>1, <1>2, <1>3, OpenNextKeepsTree, CloseLastKeepsTree DEF Next

-----------------------------------------------------------------------------
(* What the walk finds when it reads on.                                    *)

\* Up to the next line of a kind that ends the reading, everything is readable.
LEMMA ReadableTo ==
  ASSUME TypeOK, ReachedAreInvoked, NEW kinds, "Truncated" \in kinds, NEW e, NextLine(kinds, e)
  PROVE  /\ e \in Nat /\ e > pos
         /\ \A p \in pos + 1..e - 1 : p \in Readable
         /\ lines[e].kind # "Truncated" => e \in Readable
         /\ lines[e].kind = "Truncated" => \A p \in Readable : p < e
<1>1. /\ pos \in Nat /\ Len(lines) \in Nat
      /\ \A p \in Readable : p \in 1..Len(lines) /\ lines[p].kind # "Truncated"
      /\ \A p \in Readable : \A q \in 1..p : q \in Readable
  BY ReadableIs DEF TypeOK
<1>2. /\ e \in pos + 1..Len(lines) /\ e \in 1..Len(lines) /\ e \in Nat /\ e > pos
      /\ \A p \in pos + 1..e - 1 : lines[p].kind # "Truncated"
  BY <1>1 DEF NextLine
<1>3. \A q \in 1..pos : lines[q].kind # "Truncated"
  <2>1. pos \in Readable \/ 1..pos = {}
    BY <1>1 DEF ReachedAreInvoked
  <2> QED
    BY <1>1, <2>1
<1>4. \A q \in 1..e - 1 : lines[q].kind # "Truncated"
  <2>1. \A q \in 1..e - 1 : q \in 1..pos \/ q \in pos + 1..e - 1
    BY <1>1, <1>2
  <2> QED
    BY <1>2, <1>3, <2>1
<1>5. \A p \in pos + 1..e - 1 : p \in Readable
  <2>1. \A p \in pos + 1..e - 1 : p \in 1..Len(lines) /\ \A q \in 1..p : q \in 1..e - 1
    BY <1>1, <1>2
  <2> QED
    BY <1>4, <2>1 DEF Readable
<1>6. lines[e].kind # "Truncated" => e \in Readable
  <2>1. \A q \in 1..e : q \in 1..e - 1 \/ q = e
    BY <1>2
  <2> QED
    BY <1>2, <1>4, <2>1 DEF Readable
<1>7. ASSUME lines[e].kind = "Truncated", NEW p \in Readable PROVE p < e
  <2>1. ~(e \in 1..p)
    BY <1>1, <1>7
  <2> QED
    BY <1>1, <1>2, <2>1
<1> QED
  BY <1>2, <1>5, <1>6, <1>7

\* If no cut is ahead there is none at all.
LEMMA NoCutAhead ==
  ASSUME TypeOK, ReachedAreInvoked, \A p \in pos + 1..Len(lines) : lines[p].kind # "Truncated"
  PROVE  ~Limited
<1>1. /\ pos \in Nat /\ Len(lines) \in Nat
      /\ \A p \in Readable : p \in 1..Len(lines) /\ lines[p].kind # "Truncated"
      /\ \A p \in Readable : \A q \in 1..p : q \in Readable
  BY ReadableIs DEF TypeOK
<1>2. \A q \in 1..pos : lines[q].kind # "Truncated"
  <2>1. pos \in Readable \/ 1..pos = {}
    BY <1>1 DEF ReachedAreInvoked
  <2> QED
    BY <1>1, <2>1
<1>3. \A q \in 1..Len(lines) : q \in 1..pos \/ q \in pos + 1..Len(lines)
  BY <1>1
<1> QED
  BY <1>2, <1>3 DEF Limited

\* Until the next invocation, only open calls write.
LEMMA OpenCallsWrite ==
  ASSUME TypeOK, RuntimeInv, Reading, NEW q \in Readable, q > pos,
         \A p \in pos + 1..q : lines[p].kind # "Invoke"
  PROVE  lines[q].by \in Logging /\ lines[q].by \in ToSet(stack)
<1>1. /\ pos \in Nat /\ next \in Nat
      /\ \A p \in Readable : p \in Nat
  <2>1. \A p \in Readable : p \in 1..Len(lines)
    BY ReadableIs
  <2> QED
    BY <2>1, NextIs
<1>2. PICK c \in Logging : lines[q].by = c /\ Invoked(c, q)
  BY DEF RuntimeInv, Script, WritersAreInvoked
<1>3. PICK p \in Readable : p <= q /\ lines[p].kind = "Invoke" /\ lines[p].by = c
  BY <1>2 DEF Invoked
<1>4. p <= pos
  <2>1. p \in pos + 1..q \/ p <= pos
    BY <1>1, <1>3
  <2> QED
    BY <1>3, <2>1
<1>5. c < next /\ c \in Nat
  BY <1>3, <1>4, ReadableIs DEF Reading, ReachedAreInvoked
<1>6. c >= next \/ c \in ToSet(stack)
  BY <1>2 DEF Reading, ClosedAreRead
<1> QED
  BY <1>1, <1>2, <1>5, <1>6

\* Until the next invocation or the end of a call, only the last one writes.
LEMMA LastCallWrites ==
  ASSUME TypeOK, RuntimeInv, TreeInv, Reading, NEW q \in Readable, q > pos,
         \A p \in pos + 1..q : lines[p].kind # "Invoke",
         \A p \in pos + 1..q - 1 : lines[p].kind # "Success",
         stack # <<>>, stack[Len(stack)] \in Logging
  PROVE  lines[q].by = stack[Len(stack)]
<1> DEFINE L == Len(stack)
           t == stack[L]
<1>1. /\ pos \in Nat /\ next \in Nat
      /\ \A p \in Readable : p \in Nat
  <2>1. \A p \in Readable : p \in 1..Len(lines)
    BY ReadableIs
  <2> QED
    BY <2>1, NextIs
<1>2. L \in Nat \ {0} /\ L \in 1..L /\ stack \in Seq(Nat) /\ \A k \in 1..L : stack[k] \in Nat
  <2>1. stack \in Seq(Nat)
    BY DEF TypeOK
  <2> QED
    BY <2>1
<1>3. t < next
  BY <1>1, <1>2 DEF TreeInv, StackIsPath
<1>4. PICK k \in 1..L : stack[k] = lines[q].by
  BY <1>2, OpenCallsWrite, ToSetIs
<1> HIDE DEF t, L
<1>5. k = L \/ (k < L /\ stack[k] < t)
  <2>1. \A i, j \in 1..L : i < j => stack[i] < stack[j]
    BY DEF TreeInv, StackAscends, L
  <2> QED
    BY <1>2, <2>1 DEF t
<1>6. ASSUME stack[k] < t PROVE FALSE
  <2>1. t \in Logging /\ t \in Nat
    BY <1>2 DEF t, L
  <2>2. Invoked(t, pos)
    BY <1>3, <2>1 DEF Reading, ReachedAreInvoked
  <2>3. Invoked(t, q)
    BY <1>1, <2>2 DEF Invoked
  <2>4. t > lines[q].by
    BY <1>2, <1>4, <1>6, <2>1
  <2>5. Ended(t, q)
    BY <2>1, <2>3, <2>4 DEF RuntimeInv, Script, SilentWhileInside
  <2>6. ~Ended(t, pos)
    BY <1>2, <2>1 DEF Reading, OpenAreNotEnded, t, L
  <2>7. PICK r \in Readable : r <= q /\ lines[r].kind = "Success" /\ lines[r].by = t
    BY <2>5 DEF Ended
  <2>8. ~(r <= pos)
    BY <2>6, <2>7 DEF Ended
  <2>9. r \in pos + 1..q - 1 \/ r = q
    BY <1>1, <2>7, <2>8
  <2> QED
    BY <1>2, <1>4, <1>6, <2>1, <2>7, <2>9
<1> QED
  BY <1>4, <1>5, <1>6 DEF t, L

-----------------------------------------------------------------------------
(* A call opens.                                                            *)

\* Only a call that writes its lines makes others.
LEMMA LastCallIsLogging ==
  ASSUME TypeOK, RuntimeInv, TreeInv, OpenNext, stack # <<>>
  PROVE  stack[Len(stack)] \in Logging
<1> DEFINE t == stack[Len(stack)]
<1>1. /\ next \in 1..Len(calls) /\ next \in Nat
      /\ t \in 1..next - 1 /\ t \in 1..Len(calls) /\ t \in Nat
      /\ \A c \in t + 1..next - 1 : Height(c) > Height(t)
      /\ Height(next) > Height(t)
  <2>1. Len(stack) \in 1..Len(stack)
    BY StackIs
  <2> QED
    BY <2>1, OpenNextStack
<1> HIDE DEF t
<1>2. /\ Len(calls) \in Nat /\ t < Len(calls) /\ t + 1 \in 1..Len(calls)
      /\ t + 1 \in t + 1..next - 1 \/ t + 1 = next
  <2>1. Len(calls) \in Nat
    BY CallsAre
  <2> QED
    BY <1>1, <2>1
<1>3. Height(t + 1) > Height(t) /\ Height(t + 1) \in Nat /\ Height(t) \in Nat
  BY <1>1, <1>2, CallsAre
<1>4. ASSUME t \notin Logging PROVE FALSE
  <2>1. Height(t + 1) <= Height(t)
    BY <1>1, <1>2, <1>4 DEF RuntimeInv, SilentCallsAreLeaves
  <2> QED
    BY <1>3, <2>1
<1> QED
  BY <1>4 DEF t

\* So every open call has a list of lines.
LEMMA StacksAreEven ==
  ASSUME TypeOK, RuntimeInv, TreeInv, Reading, OpenNext
  PROVE  Len(logStack) = Len(stack) /\ \A k \in 1..Len(stack) : stack[k] \in Logging
<1> DEFINE L == Len(stack)
<1>1. Len(logStack) \in {L, L - 1} /\ \A k \in 1..L : stack[k] \in Logging <=> k <= Len(logStack)
  BY DEF Reading, LinesAreStacked
<1>2. logStack \in Seq(Seq(Nat)) /\ stack \in Seq(Nat)
  BY DEF TypeOK
<1>3. Len(logStack) \in Nat /\ L \in Nat
  BY <1>2
<1>4. CASE stack = <<>>
  BY <1>1, <1>3, <1>4
<1>5. CASE stack # <<>>
  <2>1. L \in 1..L /\ stack[L] \in Logging
    BY <1>5, StackIs, LastCallIsLogging
  <2> QED
    BY <1>1, <1>3, <2>1
<1> QED
  BY <1>4, <1>5

\* No call the next one is inside ends before it is invoked.
LEMMA NoEndBeforeOpen ==
  ASSUME TypeOK, RuntimeInv, TreeInv, Reading, OpenNext, next \in Logging,
         NEW q \in Readable, q > pos, \A p \in pos + 1..q : lines[p].kind # "Invoke"
  PROVE  lines[q].kind # "Success"
<1> SUFFICES ASSUME lines[q].kind = "Success" PROVE FALSE
  OBVIOUS
<1>1. /\ pos \in Nat /\ next \in Nat
      /\ \A p \in Readable : p \in Nat /\ lines[p].by \in Nat
  <2>1. \A p \in Readable : p \in 1..Len(lines) /\ lines[p].by \in Nat
    BY ReadableIs
  <2> QED
    BY <2>1, NextIs
<1>2. lines[q].by \in Logging /\ lines[q].by \in ToSet(stack)
  BY OpenCallsWrite
<1>3. PICK k \in 1..Len(stack) : stack[k] = lines[q].by
  <2>1. stack \in Seq(Nat)
    BY DEF TypeOK
  <2> QED
    BY <1>2, <2>1, ToSetIs
<1>4. PICK d : d = lines[q].by /\ d \in Logging /\ d \in Nat
  BY <1>1, <1>2
<1>5. /\ d < next
      /\ \A c \in d + 1..next - 1 : Height(c) > Height(d)
      /\ Height(next) > Height(d)
  BY <1>3, <1>4, OpenNextStack
<1>6. \A c \in d + 1..next : c \in d + 1..next - 1 \/ c = next
  BY <1>1, <1>4
<1>7. Inside(next, d)
  BY <1>5, <1>6 DEF Inside
<1>8. Invoked(next, q)
  BY <1>4, <1>7 DEF RuntimeInv, Script, InsideBeforeEnd
<1>9. PICK r \in Readable : r <= q /\ lines[r].kind = "Invoke" /\ lines[r].by = next
  BY <1>8 DEF Invoked
<1>10. r <= pos \/ r \in pos + 1..q
  BY <1>1, <1>9
<1>11. r <= pos => lines[r].by < next
  BY DEF Reading, ReachedAreInvoked
<1> QED
  BY <1>1, <1>9, <1>10, <1>11

LEMMA SameLog ==
  ASSUME UNCHANGED <<calls, lines>>
  PROVE  /\ Readable' = Readable
         /\ Logging' = Logging
         /\ Limited' <=> Limited
         /\ \A c : LinesOf(c)' = LinesOf(c)
         /\ \A c : EndedInLog(c)' <=> EndedInLog(c)
         /\ \A c : HasEnded(c) <=> EndedInLog(c)
         /\ \A c, p : Invoked(c, p)' <=> Invoked(c, p)
         /\ \A c, p : Ended(c, p)' <=> Ended(c, p)
<1>1. \A c : HasEnded(c) <=> EndedInLog(c)
  BY DEF HasEnded, EndedInLog, LinesOf
<1> QED
  BY <1>1 DEF Readable, Logging, Limited, EndedInLog, LinesOf, Invoked, Ended

LEMMA LogsKept ==
  ASSUME UNCHANGED <<calls, lines, logs>>, ~panicked, LogsAreOwn,
         \A c \in 1..Len(calls) : Closed(c)' <=> Closed(c)
  PROVE  LogsAreOwn'
<1>1. \A c : LinesOf(c)' = LinesOf(c) /\ (EndedInLog(c)' <=> EndedInLog(c))
  BY SameLog
<1> QED
  BY <1>1 DEF LogsAreOwn

LEMMA OpenNextKeepsLogs ==
  ASSUME TypeOK, TreeInv, WalkInv, OpenNext
  PROVE  LogsAreOwn' /\ NoLogsYet'
<1>1. LogsAreOwn'
  BY OpenNextStack, LogsKept DEF WalkInv
<1>2. NoLogsYet'
  <2>1. \A c \in 1..Len(calls) : c >= next + 1 \/ c = next => c >= next
    BY OpenNextStack
  <2> QED
    BY <2>1, OpenNextStack DEF WalkInv, NoLogsYet
<1> QED
  BY <1>1, <1>2

\* A cut that was read stays read.
LEMMA OpenNextTruncated ==
  ASSUME TypeOK, RuntimeInv, TreeInv, WalkInv, OpenNext, is_truncated
  PROVE  WalkInv'
<1>1. UNCHANGED iteratorVars
  BY DEF OpenNext, Open, Skips
<1>2. CutIsFinal'
  <2>1. \A c \in Logging : c >= next + 1 \/ c = next => c >= next
    BY OpenNextStack DEF Logging
  <2>2. CutIsFinal
    BY DEF WalkInv
  <2> QED
    BY <2>1, <2>2, OpenNextStack, SameLog DEF CutIsFinal
<1> QED
  BY <1>1, <1>2, OpenNextKeepsLogs DEF WalkInv, iteratorVars

\* A call that writes nothing takes no line.
LEMMA OpenNextSilent ==
  ASSUME TypeOK, RuntimeInv, TreeInv, WalkInv, OpenNext, ~is_truncated, next \notin Logging
  PROVE  WalkInv'
<1> DEFINE L == Len(stack)
<1>1. calls[next].program \in PROGRAMS_WITHOUT_LOGGING
  BY OpenNextStack DEF Logging
<1>2. UNCHANGED iteratorVars
  BY <1>1 DEF OpenNext, Open, Skips
<1>3. UNCHANGED <<pos, logStack, is_truncated, panicked>>
  BY <1>2 DEF iteratorVars
<1>4. /\ next' = next + 1 /\ next \in Nat /\ next \in 1..Len(calls)
      /\ L \in Nat /\ Len(stack') = L + 1
      /\ \A k \in 1..L : stack'[k] = stack[k]
      /\ stack'[L + 1] = next
      /\ \A x : x \in ToSet(stack)' <=> x \in ToSet(stack) \/ x = next
      /\ UNCHANGED <<calls, lines>>
  BY OpenNextStack
<1>5. /\ Readable' = Readable /\ Logging' = Logging
      /\ \A c, p : Invoked(c, p)' <=> Invoked(c, p)
      /\ \A c, p : Ended(c, p)' <=> Ended(c, p)
  BY <1>4, SameLog
<1>6. Reading /\ pos \in Nat
  BY DEF WalkInv, TypeOK
<1>7. /\ Logging \subseteq Nat
      /\ \A p \in Readable : lines[p].by \in Logging
  BY DEF Logging, RuntimeInv, Script, WritersAreInvoked
<1>8. \A c \in Logging : (c < next + 1 => c < next) /\ (c < next => c < next + 1)
                         /\ (c >= next => c >= next + 1)
  BY <1>4, <1>7
<1>9. ReachedAreInvoked'
  <2>1. ReachedAreInvoked
    BY <1>6 DEF Reading
  <2>2. pos' \in Readable' \cup {0}
    BY <1>3, <1>5, <2>1 DEF ReachedAreInvoked
  <2>3. \A c \in Logging' : c < next' => Invoked(c, pos)'
    <3> SUFFICES ASSUME NEW c \in Logging, c < next PROVE Invoked(c, pos)'
      BY <1>4, <1>5, <1>8
    <3>1. Invoked(c, pos)
      BY <2>1 DEF ReachedAreInvoked
    <3> QED
      BY <1>3, <1>4, <1>5, <3>1 DEF Invoked
  <2>4. \A p \in Readable' : p <= pos' => lines'[p].by < next'
    BY <1>3, <1>4, <1>5, <1>7, <1>8, <2>1 DEF ReachedAreInvoked
  <2> QED
    BY <2>2, <2>3, <2>4 DEF ReachedAreInvoked
<1>10. ClosedAreRead'
  BY <1>3, <1>4, <1>5, <1>6, <1>7, <1>8 DEF Reading, ClosedAreRead
<1>11. \A k : k \in 1..L + 1 <=> k \in 1..L \/ k = L + 1
  BY <1>4
<1>12. OpenAreNotEnded'
  <2> SUFFICES ASSUME NEW k \in 1..L, stack[k] \in Logging PROVE ~Ended(stack[k], pos)'
    BY <1>4, <1>5, <1>11 DEF OpenAreNotEnded, Ended
  <2>1. ~Ended(stack[k], pos)
    BY <1>6 DEF Reading, OpenAreNotEnded
  <2> QED
    BY <1>3, <1>4, <1>5, <2>1 DEF Ended
<1>13. Len(logStack) = L /\ \A k \in 1..L : stack[k] \in Logging
  BY <1>6, StacksAreEven
<1>14. LinesAreStacked'
  <2>1. \A k \in 1..L : Listed(logStack[k], LinesUpTo(stack[k], pos))
    BY <1>4, <1>6, <1>13 DEF Reading, LinesAreStacked
  <2>2. L \in {L + 1, (L + 1) - 1} /\ (\A k \in 1..L : k <= L) /\ ~(L + 1 <= L)
    BY <1>4
  <2>3. \A k \in 1..L + 1 : stack'[k] \in Logging' <=> k <= L
    BY <1>4, <1>5, <1>11, <1>13, <2>2
  <2> QED
    BY <1>3, <1>4, <1>5, <1>13, <2>1, <2>2, <2>3 DEF LinesAreStacked, LinesUpTo
<1> QED
  BY <1>3, <1>9, <1>10, <1>12, <1>14, OpenNextKeepsLogs DEF WalkInv, Reading

\* There is a line to read: the invocation, or the cut.
LEMMA OpenFindsLine ==
  ASSUME TypeOK, RuntimeInv, Reading, next \in Logging
  PROVE  \E p \in pos + 1..Len(lines) : lines[p].kind \in {"Invoke", "Truncated"}
<1> SUFFICES ASSUME \A p \in pos + 1..Len(lines) : lines[p].kind \notin {"Invoke", "Truncated"}
             PROVE  FALSE
  OBVIOUS
<1>1. /\ pos \in Nat /\ next \in Nat
      /\ \A p \in Readable : p \in 1..Len(lines)
      /\ Len(lines) \in Nat
  <2>1. next \in 1..Len(calls) + 1 /\ Len(calls) \in Nat /\ pos \in Nat
    BY CallsAre DEF TypeOK
  <2> QED
    BY <2>1, ReadableIs
<1>2. ~Limited
  BY NoCutAhead DEF Reading
<1>3. WasInvoked(next)
  BY <1>2 DEF RuntimeInv, LogIsComplete
<1>4. PICK r \in Readable : lines[r].kind = "Invoke" /\ lines[r].by = next
  BY <1>3 DEF WasInvoked
<1>5. r <= pos \/ r \in pos + 1..Len(lines)
  BY <1>1, <1>4
<1>6. r <= pos => lines[r].by < next
  BY DEF Reading, ReachedAreInvoked
<1> QED
  BY <1>1, <1>4, <1>5, <1>6

\* What is read before it, the calling instruction wrote.
LEMMA OpenReadsOwnCaller ==
  ASSUME TypeOK, RuntimeInv, TreeInv, Reading, OpenNext, next \in Logging,
         NEW e, NextLine({"Invoke", "Truncated"}, e), NEW q \in pos + 1..e - 1
  PROVE  /\ q \in Readable
         /\ lines[q].kind \notin {"Invoke", "Success"}
         /\ stack # <<>> /\ lines[q].by = stack[Len(stack)]
<1>1. pos \in Nat /\ e \in Nat /\ \A p \in pos + 1..e - 1 : p \in Readable
  BY ReadableTo DEF Reading, TypeOK
<1>2. q \in Readable /\ q > pos /\ q \in Nat
  BY <1>1
<1>3. ASSUME NEW r \in pos + 1..e - 1
      PROVE  /\ r \in Readable /\ r > pos /\ lines[r].kind # "Success"
             /\ \A p \in pos + 1..r : lines[p].kind # "Invoke"
  <2>1. r \in Readable /\ r > pos /\ \A p \in pos + 1..r : p \in pos + 1..e - 1
    BY <1>1
  <2>2. \A p \in pos + 1..r : lines[p].kind # "Invoke"
    BY <2>1 DEF NextLine
  <2> QED
    BY <2>1, <2>2, NoEndBeforeOpen
<1>4. \A p \in pos + 1..q - 1 : p \in pos + 1..e - 1
  BY <1>1
<1>5. stack # <<>>
  <2>1. lines[q].by \in ToSet(stack)
    BY <1>2, <1>3, OpenCallsWrite
  <2> QED
    BY <2>1 DEF ToSet
<1>6. stack[Len(stack)] \in Logging
  BY <1>5, LastCallIsLogging
<1>7. lines[q].by = stack[Len(stack)]
  BY <1>2, <1>3, <1>4, <1>5, <1>6, LastCallWrites
<1>8. q \in pos + 1..q
  BY <1>1
<1> QED
  BY <1>2, <1>3, <1>5, <1>7, <1>8

\* The cut is read.
LEMMA OpenNextCut ==
  ASSUME TypeOK, RuntimeInv, TreeInv, WalkInv, OpenNext, ~is_truncated, next \in Logging,
         NEW e, NextLine({"Invoke", "Truncated"}, e), lines[e].kind = "Truncated",
         UNCHANGED panicked, is_truncated' = TRUE
  PROVE  WalkInv'
<1>1. Reading /\ ~panicked
  BY DEF WalkInv
<1>2. CutIsFinal'
  <2> SUFFICES ASSUME NEW c \in Logging, c \in ToSet(stack) \/ c >= next, EndedInLog(c)
               PROVE  FALSE
    <3>1. \A c \in Logging : c >= next + 1 \/ c = next => c >= next
      BY OpenNextStack DEF Logging
    <3> QED
      BY <3>1, OpenNextStack, SameLog DEF CutIsFinal
  <2>1. PICK p \in Readable : lines[p].kind = "Success" /\ lines[p].by = c
    BY DEF EndedInLog, LinesOf
  <2>2. /\ e \in Nat /\ p < e /\ pos \in Nat /\ p \in Nat /\ c \in Nat /\ next \in Nat
    <3>1. e \in Nat /\ p < e
      BY <1>1, ReadableTo DEF Reading
    <3>2. p \in 1..Len(lines) /\ next \in Nat
      BY ReadableIs, OpenNextStack
    <3>3. pos \in Nat
      BY DEF TypeOK
    <3>4. c \in Nat
      BY DEF Logging
    <3> QED
      BY <3>1, <3>2, <3>3, <3>4
  <2>3. p \in pos + 1..e - 1 \/ p <= pos
    BY <2>2
  <2>4. CASE p \in pos + 1..e - 1
    BY <1>1, <2>1, <2>4, OpenReadsOwnCaller
  <2>5. CASE p <= pos
    <3>1. c < next
      BY <1>1, <2>1, <2>5 DEF Reading, ReachedAreInvoked
    <3>2. c \in ToSet(stack)
      BY <2>2, <3>1
    <3>3. PICK k \in 1..Len(stack) : stack[k] = c
      BY <3>2, ToSetIs DEF TypeOK
    <3>4. ~Ended(c, pos)
      BY <1>1, <3>3 DEF Reading, OpenAreNotEnded
    <3> QED
      BY <2>1, <2>5, <3>4 DEF Ended
  <2> QED
    BY <2>3, <2>4, <2>5
<1> QED
  BY <1>1, <1>2, OpenNextKeepsLogs DEF WalkInv

\* The invocation of the call is read.
LEMMA OpenNextInvoked ==
  ASSUME TypeOK, RuntimeInv, TreeInv, WalkInv, OpenNext, ~is_truncated, next \in Logging,
         NEW e, NextLine({"Invoke", "Truncated"}, e), lines[e].kind = "Invoke",
         ~(e > pos + 1 /\ logStack = <<>>),
         pos' = e, UNCHANGED <<panicked, is_truncated>>, logStack' = Opened(LinesTo(e))
  PROVE  WalkInv'
<1> DEFINE L == Len(stack)
           n == next
<1>1. Reading /\ ~panicked /\ pos \in Nat
  BY DEF WalkInv, TypeOK
<1>2. /\ next' = n + 1 /\ n \in Nat /\ n \in 1..Len(calls)
      /\ L \in Nat /\ Len(stack') = L + 1
      /\ \A k \in 1..L : stack'[k] = stack[k] /\ stack[k] < n /\ stack[k] \in Nat
      /\ stack'[L + 1] = n
      /\ \A x : x \in ToSet(stack)' <=> x \in ToSet(stack) \/ x = n
      /\ UNCHANGED <<calls, lines>>
  BY OpenNextStack
<1>3. /\ Readable' = Readable /\ Logging' = Logging
      /\ \A c, p : Invoked(c, p)' <=> Invoked(c, p)
      /\ \A c, p : Ended(c, p)' <=> Ended(c, p)
  BY <1>2, SameLog
<1>4. /\ Logging \subseteq Nat
      /\ \A p \in Readable : lines[p].by \in Logging /\ p \in Nat
  <2>1. \A p \in Readable : p \in 1..Len(lines)
    BY ReadableIs
  <2> QED
    BY <2>1 DEF Logging, RuntimeInv, Script, WritersAreInvoked
<1>5. e \in Nat /\ e > pos /\ e \in Readable /\ e \in pos + 1..Len(lines)
  BY <1>1, ReadableTo DEF Reading, NextLine
<1>6. \A q \in pos + 1..e - 1 :
        /\ q \in Readable /\ lines[q].kind \notin {"Invoke", "Success"}
        /\ L > 0 /\ L \in 1..L /\ lines[q].by = stack[L]
  <2> SUFFICES ASSUME NEW q \in pos + 1..e - 1
               PROVE  /\ q \in Readable /\ lines[q].kind \notin {"Invoke", "Success"}
                      /\ L > 0 /\ L \in 1..L /\ lines[q].by = stack[L]
    OBVIOUS
  <2>1. /\ q \in Readable /\ lines[q].kind \notin {"Invoke", "Success"}
        /\ stack # <<>> /\ lines[q].by = stack[L]
    BY <1>1, OpenReadsOwnCaller
  <2>2. L \in Nat \ {0}
    BY <2>1, StackIs
  <2> QED
    BY <2>1, <2>2
<1>7. \A p \in Readable : p <= e <=> p <= pos \/ p \in pos + 1..e - 1 \/ p = e
  BY <1>1, <1>4, <1>5
<1>8. /\ \A p \in Readable : p <= pos => lines[p].by < n
      /\ \A c \in Logging : c < n => Invoked(c, pos)
  BY <1>1 DEF Reading, ReachedAreInvoked
<1>9. lines[e].by = n
  <2>1. PICK d \in Logging : d = lines[e].by
    BY <1>4, <1>5
  <2>2. ASSUME d < n PROVE FALSE
    <3>1. PICK r \in Readable : r <= pos /\ lines[r].kind = "Invoke" /\ lines[r].by = d
      BY <1>8, <2>2 DEF Invoked
    <3>2. r < e
      BY <1>1, <1>4, <1>5, <3>1
    <3>3. lines[r].by < lines[e].by
      BY <1>5, <3>1, <3>2 DEF RuntimeInv, Script, InvokedInOrder
    <3> QED
      BY <1>4, <2>1, <3>1, <3>3
  <2>3. ASSUME n < d PROVE FALSE
    <3>1. Invoked(n, e)
      BY <1>5, <2>1, <2>3 DEF RuntimeInv, Script, InvokedInOrder
    <3>2. PICK r \in Readable : r <= e /\ lines[r].kind = "Invoke" /\ lines[r].by = n
      BY <3>1 DEF Invoked
    <3>3. r # e
      BY <1>2, <1>4, <2>1, <2>3, <3>2
    <3> QED
      BY <1>2, <1>6, <1>7, <1>8, <3>2, <3>3
  <2> QED
    BY <1>2, <1>4, <2>1, <2>2, <2>3
<1>10. Len(logStack) = L /\ \A k \in 1..L : stack[k] \in Logging
  BY <1>1, StacksAreEven
<1> HIDE DEF L, n
<1>11. ReachedAreInvoked'
  <2>1. \A c : Invoked(c, pos) => Invoked(c, e)
    <3>1. \A q \in Nat : q <= pos => q <= e
      BY <1>1, <1>5
    <3> QED
      BY <1>4, <3>1 DEF Invoked
  <2>2. Invoked(n, e)
    BY <1>5, <1>9 DEF Invoked
  <2>3. \A c \in Logging : c < n + 1 => c < n \/ c = n
    <3>1. \A x \in Nat : x < n + 1 => x < n \/ x = n
      BY <1>2
    <3> QED
      BY <1>4, <3>1
  <2>4. \A p \in Readable : p <= e => lines[p].by < n + 1
    <3>1. \A x \in Nat : x < n => x < n + 1
      BY <1>2
    <3>2. \A p \in Readable : p <= e => lines[p].by < n \/ lines[p].by = n
      BY <1>2, <1>6, <1>7, <1>8, <1>9
    <3>3. \A p \in Readable : lines[p].by \in Nat
      BY <1>4
    <3>4. n < n + 1
      BY <1>2
    <3> QED
      BY <3>1, <3>2, <3>3, <3>4
  <2>5. \A c \in Logging : c < n + 1 => Invoked(c, e)
    BY <1>8, <2>1, <2>2, <2>3
  <2> QED
    BY <1>2, <1>3, <1>5, <2>4, <2>5 DEF ReachedAreInvoked, Invoked
<1>12. ClosedAreRead'
  <2>1. \A p \in Readable : p > e => p > pos
    <3>1. \A p \in Nat : p > e => p > pos
      BY <1>1, <1>5
    <3> QED
      BY <1>4, <3>1
  <2>2. \A c \in Logging : c >= n => c >= n + 1 \/ c = n
    <3>1. \A x \in Nat : x >= n => x >= n + 1 \/ x = n
      BY <1>2
    <3> QED
      BY <1>4, <3>1
  <2> QED
    BY <1>1, <1>2, <1>3, <1>4, <2>1, <2>2 DEF Reading, ClosedAreRead, n
<1>13. \A k : k \in 1..L + 1 <=> k \in 1..L \/ k = L + 1
  BY <1>2
<1>14. \A p \in Readable : lines[p].kind = "Success" /\ p <= e => p <= pos
  BY <1>6, <1>7
<1>15. OpenAreNotEnded'
  <2> SUFFICES ASSUME NEW k \in 1..L + 1, Ended(stack'[k], e) PROVE FALSE
    BY <1>2, <1>3 DEF OpenAreNotEnded, Ended
  <2>1. PICK r \in Readable : r <= pos /\ lines[r].kind = "Success" /\ lines[r].by = stack'[k]
    BY <1>14 DEF Ended
  <2>2. CASE k \in 1..L
    <3>1. ~Ended(stack[k], pos)
      BY <1>1, <1>10, <2>2 DEF Reading, OpenAreNotEnded, L
    <3> QED
      BY <1>2, <2>1, <2>2, <3>1 DEF Ended
  <2>3. CASE k = L + 1
    BY <1>2, <1>8, <2>1, <2>3
  <2> QED
    BY <1>13, <2>2, <2>3
<1>16. /\ logStack' \in Seq(Seq(Nat)) /\ Len(logStack') = L + 1
       /\ logStack'[L + 1] = <<e>>
       /\ \A k \in 1..L - 1 : logStack'[k] = logStack[k]
       /\ \A S : L > 0 /\ S \subseteq 1..pos /\ Listed(logStack[L], S)
                 => Listed(logStack'[L], S \cup (pos + 1..e - 1))
  BY <1>5, <1>10, OpenedIs
<1>17. \A k \in 1..L : Listed(logStack[k], LinesUpTo(stack[k], pos))
  BY <1>1, <1>10 DEF Reading, LinesAreStacked
<1>18. ASSUME NEW k \in 1..L - 1 PROVE Listed(logStack'[k], LinesUpTo(stack'[k], e))
  <2>1. k \in 1..L /\ k < L /\ L \in 1..L
    BY <1>2
  <2>2. stack[k] # stack[L] /\ stack[k] # n
    BY <1>2, <2>1 DEF TreeInv, StackAscends, L
  <2>3. LinesUpTo(stack[k], e) = LinesUpTo(stack[k], pos)
    BY <1>6, <1>7, <1>9, <2>2 DEF LinesUpTo
  <2> QED
    BY <1>2, <1>16, <1>17, <2>1, <2>3
<1>19. ASSUME L > 0 PROVE Listed(logStack'[L], LinesUpTo(stack'[L], e))
  <2>1. L \in 1..L
    BY <1>2, <1>19
  <2>2. stack[L] # n
    BY <1>2, <2>1
  <2>3. LinesUpTo(stack[L], e) = LinesUpTo(stack[L], pos) \cup (pos + 1..e - 1)
    BY <1>6, <1>7, <1>9, <2>2 DEF LinesUpTo
  <2>4. LinesUpTo(stack[L], pos) \subseteq 1..pos
    <3>1. \A p \in Readable : p \in 1..Len(lines)
      BY ReadableIs
    <3> QED
      BY <1>1, <3>1 DEF LinesUpTo
  <2> QED
    BY <1>2, <1>16, <1>17, <1>19, <2>1, <2>3, <2>4
<1>20. Listed(logStack'[L + 1], LinesUpTo(stack'[L + 1], e))
  <2>1. LinesUpTo(n, e) = {e}
    <3>1. \A p \in Readable : p <= e /\ lines[p].by = n => p = e
      BY <1>2, <1>6, <1>7, <1>8
    <3> QED
      BY <1>5, <1>9, <3>1 DEF LinesUpTo
  <2>2. Listed(<<e>>, {e})
    BY DEF Listed, ToSet
  <2> QED
    BY <1>2, <1>16, <2>1, <2>2
<1>21. LinesAreStacked'
  <2>1. \A k \in 1..L : k \in 1..L - 1 \/ (k = L /\ L > 0)
    BY <1>2
  <2>2. \A k \in 1..L + 1 : Listed(logStack'[k], LinesUpTo(stack'[k], e))
    BY <1>13, <1>18, <1>19, <1>20, <2>1
  <2>3. \A k \in 1..L + 1 : stack'[k] \in Logging
    BY <1>2, <1>10, <1>13 DEF n
  <2>4. \A k \in 1..L + 1 : k <= L + 1
    BY <1>2
  <2> QED
    BY <1>2, <1>3, <1>16, <2>2, <2>3, <2>4 DEF LinesAreStacked, LinesUpTo
<1> QED
  BY <1>1, <1>11, <1>12, <1>15, <1>21, OpenNextKeepsLogs DEF WalkInv, Reading

LEMMA OpenNextKeepsWalk ==
  ASSUME TypeOK, RuntimeInv, TreeInv, WalkInv, OpenNext
  PROVE  WalkInv'
<1>1. CASE ~is_truncated /\ next \in Logging
  <2>1. Reading /\ calls[next].program \notin PROGRAMS_WITHOUT_LOGGING
    BY <1>1 DEF WalkInv, Logging
  <2>2. ~Skips(calls[next].program) /\ Open(calls[next].program)
    BY <1>1, <2>1 DEF Skips, OpenNext
  <2>3. \E p \in pos + 1..Len(lines) : lines[p].kind \in {"Invoke", "Truncated"}
    BY <1>1, <2>1, OpenFindsLine
  <2>4. PICK e : /\ NextLine({"Invoke", "Truncated"}, e)
                 /\ \/ /\ e > pos + 1 /\ logStack = <<>>
                       /\ panicked' = TRUE /\ UNCHANGED <<pos, logStack, is_truncated>>
                    \/ /\ ~(e > pos + 1 /\ logStack = <<>>)
                       /\ pos' = e /\ UNCHANGED panicked
                       /\ \/ /\ lines[e].kind = "Truncated"
                             /\ is_truncated' = TRUE /\ UNCHANGED logStack
                          \/ /\ lines[e].kind = "Invoke"
                             /\ UNCHANGED is_truncated /\ logStack' = Opened(LinesTo(e))
    BY <2>2, <2>3, OpenIs
  <2>5. ~(e > pos + 1 /\ logStack = <<>>)
    <3> SUFFICES ASSUME e > pos + 1, logStack = <<>> PROVE FALSE
      OBVIOUS
    <3>1. pos + 1 \in pos + 1..e - 1
      <4>1. pos \in Nat /\ Len(lines) \in Nat
        BY ReadableIs DEF TypeOK
      <4>2. e \in pos + 1..Len(lines)
        BY <2>4 DEF NextLine
      <4> QED
        BY <4>1, <4>2
    <3>2. stack # <<>>
      BY <1>1, <2>1, <2>4, <3>1, OpenReadsOwnCaller
    <3>3. Len(stack) \in Nat \ {0} /\ Len(logStack) = Len(stack)
      BY <2>1, <3>2, StackIs, StacksAreEven
    <3> QED
      BY <3>3
  <2> QED
    BY <1>1, <2>4, <2>5, OpenNextCut, OpenNextInvoked
<1> QED
  BY <1>1, OpenNextTruncated, OpenNextSilent

-----------------------------------------------------------------------------
(* A call is closed.                                                        *)

\* The closed call gets its lines, the others keep theirs.
LEMMA CloseLastKeepsLogs ==
  ASSUME TypeOK, TreeInv, WalkInv, CloseLast, NEW t, t = stack[Len(stack)],
         \A c \in 1..Len(calls) : c # t => logs'[c] = logs[c],
         IF t \notin Logging
         THEN logs'[t] = Some(<<>>)
         ELSE /\ logs'[t].some = EndedInLog(t)
              /\ logs'[t].some => Listed(logs'[t].lines, LinesOf(t))
  PROVE  LogsAreOwn' /\ NoLogsYet'
<1>1. /\ UNCHANGED <<calls, lines, next>>
      /\ t < next /\ t \in 1..Len(calls) /\ t \in Nat /\ next \in Nat
      /\ t \notin ToSet(stack)'
      /\ \A x : x \in ToSet(stack) <=> x \in ToSet(stack)' \/ x = t
      /\ \A c : Closed(c)' <=> Closed(c) \/ c = t
  BY CloseLastStack
<1>2. \A c : LinesOf(c)' = LinesOf(c) /\ (EndedInLog(c)' <=> EndedInLog(c))
  BY <1>1, SameLog
<1>3. \A c \in 1..Len(calls) : c \in Logging <=> calls[c].program \notin PROGRAMS_WITHOUT_LOGGING
  BY DEF Logging
<1>4. ~panicked /\ LogsAreOwn /\ NoLogsYet
  BY DEF WalkInv
<1>5. LogsAreOwn'
  <2> SUFFICES ASSUME NEW c \in 1..Len(calls), Closed(c)'
               PROVE  IF c \notin Logging THEN logs'[c] = Some(<<>>)
                      ELSE /\ logs'[c].some = EndedInLog(c)
                           /\ logs'[c].some => Listed(logs'[c].lines, LinesOf(c))
    BY <1>1, <1>2, <1>3 DEF LogsAreOwn
  <2>1. CASE c = t
    BY <2>1
  <2>2. CASE c # t
    <3>1. Closed(c) /\ logs'[c] = logs[c]
      BY <1>1, <2>2
    <3>2. IF c \notin Logging THEN logs[c] = Some(<<>>)
          ELSE /\ logs[c].some = EndedInLog(c)
               /\ logs[c].some => Listed(logs[c].lines, LinesOf(c))
      BY <1>3, <1>4, <3>1 DEF LogsAreOwn
    <3> QED
      BY <3>1, <3>2
  <2> QED
    BY <2>1, <2>2
<1>6. NoLogsYet'
  <2> SUFFICES ASSUME NEW c \in 1..Len(calls), c \in ToSet(stack)' \/ c >= next
               PROVE  logs'[c] = None
    BY <1>1 DEF NoLogsYet
  <2>1. c # t
    BY <1>1
  <2>2. c \in ToSet(stack) \/ c >= next
    BY <1>1
  <2> QED
    BY <1>4, <2>1, <2>2 DEF NoLogsYet
<1> QED
  BY <1>5, <1>6

\* A call that writes nothing takes no line.
LEMMA CloseLastSilent ==
  ASSUME TypeOK, RuntimeInv, TreeInv, WalkInv, CloseLast, stack[Len(stack)] \notin Logging
  PROVE  WalkInv'
<1> DEFINE L == Len(stack)
           t == stack[L]
<1>1. /\ UNCHANGED <<calls, lines, next>>
      /\ L \in Nat \ {0} /\ L \in 1..L /\ Last(stack) = t
      /\ Len(stack') = L - 1
      /\ \A k \in 1..L - 1 : stack'[k] = stack[k] /\ k \in 1..L
      /\ t \in 1..Len(calls) /\ t \in Nat
      /\ \A x : x \in ToSet(stack) <=> x \in ToSet(stack)' \/ x = t
  BY CloseLastStack
<1>2. /\ Readable' = Readable /\ Logging' = Logging
      /\ \A c : EndedInLog(c)' <=> EndedInLog(c)
      /\ \A c, p : Invoked(c, p)' <=> Invoked(c, p)
      /\ \A c, p : Ended(c, p)' <=> Ended(c, p)
  BY <1>1, SameLog
<1>3. calls[t].program \in PROGRAMS_WITHOUT_LOGGING /\ Close(t)
  BY <1>1 DEF Logging, CloseLast
<1>4. logs' = [logs EXCEPT ![t] = Some(<<>>)] /\ UNCHANGED <<pos, logStack, is_truncated, panicked>>
  BY <1>3 DEF Close, iteratorVars
<1>5. LogsAreOwn' /\ NoLogsYet'
  <2>1. Len(calls) <= MaxCalls /\ Len(calls) \in Nat
    BY CallsAre DEF TypeOK
  <2>2. \A c \in 1..Len(calls) : c \in 1..MaxCalls
    BY <2>1
  <2>3. logs \in [1..MaxCalls -> [some : BOOLEAN, lines : Seq(Nat)]]
    BY DEF TypeOK
  <2>4. logs'[t] = Some(<<>>) /\ \A c \in 1..Len(calls) : c # t => logs'[c] = logs[c]
    BY <1>1, <1>4, <2>2, <2>3
  <2> QED
    BY <2>4, CloseLastKeepsLogs
<1> HIDE DEF t, L
<1>6. CASE is_truncated
  <2>1. CutIsFinal
    BY <1>6 DEF WalkInv
  <2>2. CutIsFinal'
    BY <1>1, <1>2, <2>1 DEF CutIsFinal
  <2> QED
    BY <1>4, <1>5, <1>6, <2>2 DEF WalkInv
<1>7. CASE ~is_truncated
  <2>1. Reading
    BY <1>7 DEF WalkInv
  <2>2. ReachedAreInvoked'
    <3>1. ReachedAreInvoked
      BY <2>1 DEF Reading
    <3> QED
      BY <1>1, <1>2, <1>4, <3>1 DEF ReachedAreInvoked, Invoked
  <2>3. ClosedAreRead'
    <3>1. \A p \in Readable : lines[p].by \in Logging
      BY DEF RuntimeInv, Script, WritersAreInvoked
    <3>2. t \notin Logging
      BY DEF t, L
    <3> QED
      BY <1>1, <1>2, <1>4, <2>1, <3>1, <3>2 DEF Reading, ClosedAreRead
  <2>4. OpenAreNotEnded'
    <3>1. \A k \in 1..L : stack[k] \in Logging => ~Ended(stack[k], pos)
      BY <2>1 DEF Reading, OpenAreNotEnded, L
    <3> QED
      BY <1>1, <1>2, <1>4, <3>1 DEF OpenAreNotEnded, Ended
  <2>5. LinesAreStacked'
    <3>1. /\ Len(logStack) \in {L, L - 1}
          /\ \A k \in 1..L : stack[k] \in Logging <=> k <= Len(logStack)
          /\ \A k \in 1..Len(logStack) : Listed(logStack[k], LinesUpTo(stack[k], pos))
      BY <2>1 DEF Reading, LinesAreStacked, L
    <3>2. t \notin Logging /\ t = stack[L]
      BY DEF t, L
    <3>3. Len(logStack) = L - 1
      BY <1>1, <3>1, <3>2
    <3>4. /\ L - 1 \in {L - 1, L - 1 - 1}
          /\ \A k \in 1..L - 1 : stack'[k] \in Logging <=> k <= L - 1
          /\ \A k \in 1..L - 1 : Listed(logStack[k], LinesUpTo(stack'[k], pos))
      BY <1>1, <3>1, <3>3
    <3> QED
      BY <1>1, <1>2, <1>4, <3>3, <3>4 DEF LinesAreStacked, LinesUpTo
  <2> QED
    BY <1>4, <1>5, <1>7, <2>2, <2>3, <2>4, <2>5 DEF WalkInv, Reading
<1> QED
  BY <1>6, <1>7

\* After the cut, a call gets no lines.
LEMMA CloseLastTruncated ==
  ASSUME TypeOK, RuntimeInv, TreeInv, WalkInv, CloseLast, is_truncated,
         stack[Len(stack)] \in Logging
  PROVE  WalkInv'
<1> PICK t : t = stack[Len(stack)]
  OBVIOUS
<1>1. /\ UNCHANGED <<calls, lines, next>>
      /\ Last(stack) = t /\ t \in 1..Len(calls)
      /\ \A x : x \in ToSet(stack) <=> x \in ToSet(stack)' \/ x = t
  BY CloseLastStack
<1>2. Readable' = Readable /\ Logging' = Logging /\ \A c : EndedInLog(c)' <=> EndedInLog(c)
  BY <1>1, SameLog
<1>3. calls[t].program \notin PROGRAMS_WITHOUT_LOGGING /\ Close(t)
  BY <1>1 DEF Logging, CloseLast
<1>4. UNCHANGED <<logs, pos, logStack, is_truncated, panicked>>
  BY <1>3 DEF Close, iteratorVars
<1>5. CutIsFinal /\ NoLogsYet /\ ~panicked
  BY DEF WalkInv
<1>6. CutIsFinal'
  BY <1>1, <1>2, <1>5 DEF CutIsFinal
<1>7. logs[t] = None /\ ~EndedInLog(t)
  BY <1>1, <1>5 DEF CutIsFinal, NoLogsYet
<1>8. LogsAreOwn' /\ NoLogsYet'
  <2>1. logs'[t].some = EndedInLog(t) /\ ~logs'[t].some
    BY <1>4, <1>7 DEF None, EndedInLog
  <2> QED
    BY <1>4, <2>1, CloseLastKeepsLogs
<1> QED
  BY <1>4, <1>5, <1>6, <1>8 DEF WalkInv

\* An open call has not ended by pos.
LEMMA LastIsOpen ==
  ASSUME TypeOK, TreeInv, Reading, CloseLast, NEW t \in Logging, t = stack[Len(stack)],
         NEW r \in Readable, lines[r].kind = "Success", lines[r].by = t
  PROVE  r \in pos + 1..Len(lines)
<1>1. Len(stack) \in 1..Len(stack)
  BY CloseLastStack
<1>2. ~Ended(t, pos)
  BY <1>1 DEF Reading, OpenAreNotEnded
<1>3. ~(r <= pos)
  BY <1>2 DEF Ended
<1>4. r \in 1..Len(lines) /\ pos \in Nat /\ Len(lines) \in Nat
  BY ReadableIs DEF TypeOK
<1> QED
  BY <1>3, <1>4

\* There is a line to read.
LEMMA CloseFindsLine ==
  ASSUME TypeOK, RuntimeInv, TreeInv, Reading, CloseLast, stack[Len(stack)] \in Logging
  PROVE  \E p \in pos + 1..Len(lines) : lines[p].kind \in {"Invoke", "Truncated", "Success"}
<1> SUFFICES ASSUME \A p \in pos + 1..Len(lines) :
                      lines[p].kind \notin {"Invoke", "Truncated", "Success"}
             PROVE  FALSE
  OBVIOUS
<1> PICK t : t = stack[Len(stack)]
  OBVIOUS
<1>1. ~Limited
  BY NoCutAhead DEF Reading
<1>2. running = <<>>
  BY CloseLastStack DEF RuntimeInv, CommittedIsDone
<1>3. HasEnded(t)
  <2>1. t \notin ToSet(running)
    BY <1>2 DEF ToSet
  <2> QED
    BY <1>1, <2>1 DEF RuntimeInv, LogIsComplete
<1>4. PICK r \in Readable : lines[r].kind = "Success" /\ lines[r].by = t
  BY <1>3 DEF HasEnded
<1> QED
  BY <1>4, LastIsOpen

\* No other call is invoked before its end.
LEMMA CloseMeetsNoInvocation ==
  ASSUME TypeOK, RuntimeInv, TreeInv, Reading, CloseLast, stack[Len(stack)] \in Logging,
         NEW e, NextLine({"Invoke", "Truncated", "Success"}, e)
  PROVE  lines[e].kind # "Invoke"
<1> SUFFICES ASSUME lines[e].kind = "Invoke" PROVE FALSE
  OBVIOUS
<1> PICK t : t = stack[Len(stack)]
  OBVIOUS
<1>1. /\ pos \in Nat /\ e \in Nat /\ e > pos /\ e \in Readable
  BY ReadableTo DEF Reading, TypeOK
<1>2. /\ t < next /\ t \in Nat /\ next \in Nat /\ t \in 1..Len(calls)
      /\ next <= Len(calls) => Height(t) >= Height(next)
  BY CloseLastStack
<1>3. PICK d \in Logging : d = lines[e].by
  BY <1>1 DEF RuntimeInv, Script, WritersAreInvoked
<1>4. d \in 1..Len(calls) /\ d \in Nat /\ Len(calls) \in Nat
  <2>1. Len(calls) \in Nat /\ d \in 1..Len(calls)
    BY CallsAre DEF Logging
  <2> QED
    BY <2>1
<1>5. ASSUME d < next PROVE FALSE
  <2>1. PICK r \in Readable : r <= pos /\ lines[r].kind = "Invoke" /\ lines[r].by = d
    BY <1>5 DEF Reading, ReachedAreInvoked, Invoked
  <2>2. r \in Nat
    <3>1. r \in 1..Len(lines)
      BY ReadableIs
    <3> QED
      BY <3>1
  <2>3. r < e
    BY <1>1, <2>1, <2>2
  <2>4. lines[r].by < lines[e].by
    BY <1>1, <2>1, <2>3 DEF RuntimeInv, Script, InvokedInOrder
  <2> QED
    BY <1>3, <1>4, <2>1, <2>4
<1>6. next <= d
  BY <1>2, <1>4, <1>5
<1>7. next \in 1..Len(calls) /\ next \in t + 1..d /\ t < d
  BY <1>2, <1>4, <1>6
<1>8. ~(Height(next) > Height(t))
  <2>1. Height(next) \in Nat /\ Height(t) \in Nat
    BY <1>2, <1>7, CallsAre
  <2>2. Height(t) >= Height(next)
    BY <1>2, <1>4, <1>7
  <2> QED
    BY <2>1, <2>2
<1>9. ~Inside(d, t)
  BY <1>7, <1>8 DEF Inside
<1>10. Ended(t, e)
  BY <1>1, <1>3, <1>7, <1>9 DEF RuntimeInv, Script, OutsideAfterEnd
<1>11. PICK r \in Readable : r <= e /\ lines[r].kind = "Success" /\ lines[r].by = t
  BY <1>10 DEF Ended
<1>12. r \in pos + 1..Len(lines)
  BY <1>11, LastIsOpen
<1>13. r \in pos + 1..e - 1
  <2>1. r # e
    BY <1>11
  <2>2. r \in Nat /\ r >= pos + 1
    BY <1>1, <1>12
  <2> QED
    BY <1>1, <1>11, <2>1, <2>2
<1> QED
  BY <1>11, <1>13 DEF NextLine

\* What is read up to its end, the closed call wrote.
LEMMA CloseReadsOwn ==
  ASSUME TypeOK, RuntimeInv, TreeInv, Reading, CloseLast, NEW t \in Logging,
         t = stack[Len(stack)],
         NEW e, NextLine({"Invoke", "Truncated", "Success"}, e), lines[e].kind = "Success",
         NEW q \in pos + 1..e
  PROVE  q \in Readable /\ lines[q].by = t
<1>1. /\ pos \in Nat /\ e \in Nat /\ e \in Readable
      /\ \A p \in pos + 1..e - 1 : p \in Readable
  BY ReadableTo DEF Reading, TypeOK
<1>2. /\ q \in Readable /\ q > pos
      /\ \A p \in pos + 1..q : p \in pos + 1..e - 1 \/ p = e
      /\ \A p \in pos + 1..q - 1 : p \in pos + 1..e - 1
  <2>1. q \in pos + 1..e - 1 \/ q = e
    BY <1>1
  <2> QED
    BY <1>1, <2>1
<1>3. \A p \in pos + 1..e - 1 : lines[p].kind \notin {"Invoke", "Truncated", "Success"}
  BY DEF NextLine
<1>4. stack # <<>>
  BY DEF CloseLast
<1>5. /\ \A p \in pos + 1..q : lines[p].kind # "Invoke"
      /\ \A p \in pos + 1..q - 1 : lines[p].kind # "Success"
  BY <1>2, <1>3
<1> QED
  BY <1>2, <1>4, <1>5, LastCallWrites

\* The cut is read.
LEMMA CloseLastCut ==
  ASSUME TypeOK, RuntimeInv, TreeInv, WalkInv, CloseLast, ~is_truncated,
         stack[Len(stack)] \in Logging,
         NEW e, NextLine({"Invoke", "Truncated", "Success"}, e), lines[e].kind = "Truncated",
         UNCHANGED <<panicked, logs>>, is_truncated' = TRUE
  PROVE  WalkInv'
<1> PICK t : t = stack[Len(stack)]
  OBVIOUS
<1>1. /\ UNCHANGED <<calls, lines, next>>
      /\ t \in 1..Len(calls) /\ next \in Nat
      /\ \A x : x \in ToSet(stack) <=> x \in ToSet(stack)' \/ x = t
  BY CloseLastStack
<1>2. Readable' = Readable /\ Logging' = Logging /\ \A c : EndedInLog(c)' <=> EndedInLog(c)
  BY <1>1, SameLog
<1>3. Reading /\ NoLogsYet /\ ~panicked /\ pos \in Nat
  BY DEF WalkInv, TypeOK
<1>4. ASSUME NEW c \in Logging, c \in ToSet(stack) \/ c >= next, EndedInLog(c)
      PROVE  FALSE
  <2>1. PICK p \in Readable : lines[p].kind = "Success" /\ lines[p].by = c
    BY <1>4 DEF EndedInLog, LinesOf
  <2>2. e \in Nat /\ p < e /\ p \in Nat /\ c \in Nat
    <3>1. e \in Nat /\ p < e
      BY <1>3, ReadableTo DEF Reading
    <3>2. p \in 1..Len(lines)
      BY ReadableIs
    <3>3. c \in Nat
      BY DEF Logging
    <3> QED
      BY <3>1, <3>2, <3>3
  <2>3. p \in pos + 1..e - 1 \/ p <= pos
    BY <1>3, <2>2
  <2>4. CASE p \in pos + 1..e - 1
    BY <2>1, <2>4 DEF NextLine
  <2>5. CASE p <= pos
    <3>1. c < next
      BY <1>3, <2>1, <2>5 DEF Reading, ReachedAreInvoked
    <3>2. c \in ToSet(stack)
      BY <1>1, <1>4, <2>2, <3>1
    <3>3. PICK k \in 1..Len(stack) : stack[k] = c
      BY <3>2, ToSetIs DEF TypeOK
    <3>4. ~Ended(c, pos)
      BY <1>3, <3>3 DEF Reading, OpenAreNotEnded
    <3> QED
      BY <2>1, <2>5, <3>4 DEF Ended
  <2> QED
    BY <2>3, <2>4, <2>5
<1>5. CutIsFinal'
  BY <1>1, <1>2, <1>4 DEF CutIsFinal
<1>6. LogsAreOwn' /\ NoLogsYet'
  <2>1. logs[t] = None /\ ~EndedInLog(t)
    BY <1>1, <1>3, <1>4 DEF NoLogsYet
  <2>2. logs'[t].some = EndedInLog(t) /\ ~logs'[t].some
    BY <2>1 DEF None, EndedInLog
  <2> QED
    BY <2>2, CloseLastKeepsLogs
<1> QED
  BY <1>3, <1>5, <1>6 DEF WalkInv

\* The end of the call is read.
LEMMA CloseLastEnded ==
  ASSUME TypeOK, RuntimeInv, TreeInv, WalkInv, CloseLast, ~is_truncated,
         stack[Len(stack)] \in Logging,
         NEW e, NextLine({"Invoke", "Truncated", "Success"}, e), lines[e].kind = "Success",
         pos' = e, UNCHANGED <<panicked, is_truncated>>, logStack' = Front(logStack),
         logs' = [logs EXCEPT ![stack[Len(stack)]] = Some(Last(logStack) \o LinesTo(e))]
  PROVE  WalkInv'
<1> DEFINE L == Len(stack)
           t == stack[L]
<1>1. Reading /\ ~panicked /\ pos \in Nat
  BY DEF WalkInv, TypeOK
<1>2. /\ UNCHANGED <<calls, lines, next>> /\ next \in Nat
      /\ L \in Nat \ {0} /\ L \in 1..L /\ L - 1 \in Nat
      /\ Len(stack') = L - 1
      /\ \A k \in 1..L - 1 : stack'[k] = stack[k] /\ k \in 1..L /\ k < L /\ stack[k] < t
      /\ \A k \in 1..L : stack[k] \in Nat
      /\ t \in 1..Len(calls) /\ t < next
      /\ \A x : x \in ToSet(stack) <=> x \in ToSet(stack)' \/ x = t
  BY CloseLastStack
<1>3. /\ Readable' = Readable /\ Logging' = Logging
      /\ \A c, p : Invoked(c, p)' <=> Invoked(c, p)
      /\ \A c, p : Ended(c, p)' <=> Ended(c, p)
  BY <1>2, SameLog
<1>4. /\ Logging \subseteq Nat
      /\ \A p \in Readable : lines[p].by \in Logging /\ p \in Nat /\ p \in 1..Len(lines)
  <2>1. \A p \in Readable : p \in 1..Len(lines)
    BY ReadableIs
  <2> QED
    BY <2>1 DEF Logging, RuntimeInv, Script, WritersAreInvoked
<1>5. e \in Nat /\ e > pos /\ e \in Readable /\ e \in pos + 1..Len(lines) /\ e \in pos + 1..e
  <2>1. e \in Nat /\ e > pos /\ e \in Readable /\ e \in pos + 1..Len(lines)
    BY <1>1, ReadableTo DEF Reading, NextLine
  <2> QED
    BY <1>1, <2>1
<1>6. \A q \in pos + 1..e : q \in Readable /\ lines[q].by = t
  BY <1>1, CloseReadsOwn
<1>7. \A p \in Readable : p <= e <=> p <= pos \/ p \in pos + 1..e
  <2>1. \A p \in Nat : p <= e <=> p <= pos \/ p \in pos + 1..e
    BY <1>1, <1>5
  <2> QED
    BY <1>4, <2>1
<1>8. \A p \in Readable : lines[p].by = t => p <= e
  BY <1>5, <1>6 DEF RuntimeInv, Script, SilentAfterEnd
<1>9. /\ Len(logStack) = L
      /\ \A k \in 1..L : stack[k] \in Logging
      /\ \A k \in 1..L : Listed(logStack[k], LinesUpTo(stack[k], pos))
  <2>1. /\ Len(logStack) \in {L, L - 1}
        /\ \A k \in 1..L : stack[k] \in Logging <=> k <= Len(logStack)
        /\ \A k \in 1..Len(logStack) : Listed(logStack[k], LinesUpTo(stack[k], pos))
    BY <1>1 DEF Reading, LinesAreStacked
  <2> HIDE DEF L
  <2>2. Len(logStack) = L
    BY <1>2, <2>1 DEF L
  <2>3. \A k \in 1..L : k <= L
    BY <1>2
  <2> QED
    BY <2>1, <2>2, <2>3
<1>10. /\ Last(logStack) = logStack[L] /\ Last(logStack) \in Seq(Nat)
       /\ Len(logStack') = L - 1
       /\ \A k \in 1..L - 1 : logStack'[k] = logStack[k]
  <2> DEFINE Lists == Seq(Nat)
  <2>1. logStack \in Seq(Lists)
    BY DEF TypeOK
  <2>2. logStack # <<>>
    BY <1>2, <1>9
  <2> HIDE DEF Lists
  <2>3. /\ Last(logStack) = logStack[Len(logStack)] /\ Last(logStack) \in Lists
        /\ Len(Front(logStack)) = Len(logStack) - 1
        /\ \A k \in 1..Len(logStack) - 1 : Front(logStack)[k] = logStack[k]
    BY <2>1, <2>2, FrontIs
  <2> QED
    BY <1>9, <2>3 DEF Lists
<1>11. t \in Logging
  OBVIOUS
<1>12. /\ Last(logStack) \o LinesTo(e) \in Seq(Nat)
       /\ Listed(Last(logStack) \o LinesTo(e), LinesOf(t))
  <2>1. LinesTo(e) \in Seq(Nat) /\ Listed(LinesTo(e), pos + 1..e)
    BY <1>5, LinesToIs, LinesToListed
  <2>2. Listed(Last(logStack), LinesUpTo(t, pos))
    BY <1>2, <1>9, <1>10
  <2> HIDE DEF t, L
  <2>3. \A x \in LinesUpTo(t, pos), y \in pos + 1..e : x < y
    <3>1. \A x \in Nat, y \in pos + 1..e : x <= pos => x < y
      BY <1>1, <1>5
    <3> QED
      BY <1>4, <3>1 DEF LinesUpTo
  <2>4. LinesOf(t) = LinesUpTo(t, pos) \cup (pos + 1..e)
    BY <1>6, <1>7, <1>8 DEF LinesOf, LinesUpTo
  <2>5. Last(logStack) \in Seq(Nat)
    BY <1>10
  <2>6. /\ Last(logStack) \o LinesTo(e) \in Seq(Nat)
        /\ Listed(Last(logStack) \o LinesTo(e), LinesUpTo(t, pos) \cup (pos + 1..e))
    BY <2>1, <2>2, <2>3, <2>5, ListedConcat
  <2> QED
    BY <2>4, <2>6
<1> HIDE DEF t, L
<1>13. LogsAreOwn' /\ NoLogsYet'
  <2>1. Len(calls) <= MaxCalls /\ Len(calls) \in Nat
    BY CallsAre DEF TypeOK
  <2>2. \A c \in 1..Len(calls) : c \in 1..MaxCalls
    BY <2>1
  <2>3. logs \in [1..MaxCalls -> [some : BOOLEAN, lines : Seq(Nat)]]
    BY DEF TypeOK
  <2>4. /\ logs'[t] = Some(Last(logStack) \o LinesTo(e))
        /\ \A c \in 1..Len(calls) : c # t => logs'[c] = logs[c]
    BY <1>2, <2>2, <2>3 DEF t, L
  <2>5. EndedInLog(t) = TRUE
    BY <1>5, <1>6 DEF EndedInLog, LinesOf
  <2>6. logs'[t].some = EndedInLog(t) /\ Listed(logs'[t].lines, LinesOf(t))
    <3> PICK s : s = Last(logStack) \o LinesTo(e)
      OBVIOUS
    <3>1. logs'[t].some = TRUE /\ logs'[t].lines = s
      BY <2>4 DEF Some
    <3>2. Listed(s, LinesOf(t))
      BY <1>12
    <3> QED
      BY <2>5, <3>1, <3>2
  <2> QED
    BY <1>11, <2>4, <2>6, CloseLastKeepsLogs DEF t, L
<1>14. ReachedAreInvoked'
  <2>1. /\ \A p \in Readable : p <= pos => lines[p].by < next
        /\ \A c \in Logging : c < next => Invoked(c, pos)
    BY <1>1 DEF Reading, ReachedAreInvoked
  <2>2. \A c : Invoked(c, pos) => Invoked(c, e)
    <3>1. \A q \in Nat : q <= pos => q <= e
      BY <1>1, <1>5
    <3> QED
      BY <1>4, <3>1 DEF Invoked
  <2>3. \A p \in Readable : p <= e => lines[p].by < next
    BY <1>2, <1>6, <1>7, <2>1
  <2>4. \A c \in Logging : c < next => Invoked(c, e)
    BY <2>1, <2>2
  <2> QED
    BY <1>2, <1>3, <1>5, <2>3, <2>4 DEF ReachedAreInvoked, Invoked
<1>15. ClosedAreRead'
  <2>1. \A p \in Readable : p > e => p > pos /\ ~(p <= e)
    <3>1. \A p \in Nat : p > e => p > pos /\ ~(p <= e)
      BY <1>1, <1>5
    <3> QED
      BY <1>4, <3>1
  <2> QED
    BY <1>1, <1>2, <1>3, <1>8, <2>1 DEF Reading, ClosedAreRead
<1>16. \A k \in 1..L - 1 : stack[k] # t
  <2>1. t \in Nat
    BY <1>4, <1>11
  <2> QED
    BY <1>2, <2>1
<1>17. OpenAreNotEnded'
  <2> SUFFICES ASSUME NEW k \in 1..L - 1, Ended(stack[k], e) PROVE FALSE
    BY <1>2, <1>3 DEF OpenAreNotEnded, Ended
  <2>1. PICK r \in Readable : r <= e /\ lines[r].kind = "Success" /\ lines[r].by = stack[k]
    BY DEF Ended
  <2>2. r <= pos
    BY <1>6, <1>7, <1>16, <2>1
  <2>3. ~Ended(stack[k], pos)
    BY <1>1, <1>2, <1>9 DEF Reading, OpenAreNotEnded, L
  <2> QED
    BY <2>1, <2>2, <2>3 DEF Ended
<1>18. LinesAreStacked'
  <2>1. \A k \in 1..L - 1 : LinesUpTo(stack[k], e) = LinesUpTo(stack[k], pos)
    BY <1>6, <1>7, <1>16 DEF LinesUpTo
  <2>2. \A k \in 1..L - 1 : Listed(logStack'[k], LinesUpTo(stack'[k], e))
    BY <1>2, <1>9, <1>10, <2>1
  <2>3. \A k \in 1..L - 1 : stack'[k] \in Logging /\ k <= L - 1
    BY <1>2, <1>9
  <2> QED
    BY <1>2, <1>3, <1>10, <2>2, <2>3 DEF LinesAreStacked, LinesUpTo
<1> QED
  BY <1>1, <1>13, <1>14, <1>15, <1>17, <1>18 DEF WalkInv, Reading

LEMMA CloseLastKeepsWalk ==
  ASSUME TypeOK, RuntimeInv, TreeInv, WalkInv, CloseLast
  PROVE  WalkInv'
<1> PICK t : t = stack[Len(stack)]
  OBVIOUS
<1>1. CASE ~is_truncated /\ t \in Logging
  <2>1. Reading /\ calls[t].program \notin PROGRAMS_WITHOUT_LOGGING
    BY <1>1 DEF WalkInv, Logging
  <2>2. Close(t) /\ t \in Nat /\ Len(stack) \in 1..Len(stack)
    BY CloseLastStack DEF CloseLast
  <2>3. \E p \in pos + 1..Len(lines) : lines[p].kind \in {"Invoke", "Truncated", "Success"}
    BY <1>1, <2>1, CloseFindsLine
  <2>4. logStack # <<>>
    <3>1. Len(stack) <= Len(logStack)
      BY <1>1, <2>1, <2>2 DEF Reading, LinesAreStacked
    <3>2. Len(stack) \in Nat \ {0}
      BY CloseLastStack
    <3> QED
      BY <3>1, <3>2
  <2>5. PICK e : /\ NextLine({"Invoke", "Truncated", "Success"}, e)
                 /\ \/ /\ logStack = <<>> \/ lines[e].kind = "Invoke"
                       /\ panicked' = TRUE /\ UNCHANGED <<pos, logStack, is_truncated, logs>>
                    \/ /\ logStack # <<>>
                       /\ pos' = e /\ UNCHANGED panicked
                       /\ \/ /\ lines[e].kind = "Truncated"
                             /\ is_truncated' = TRUE /\ UNCHANGED <<logStack, logs>>
                          \/ /\ lines[e].kind = "Success"
                             /\ logs' = [logs EXCEPT ![t] = Some(Last(logStack) \o LinesTo(e))]
                             /\ logStack' = Front(logStack)
                             /\ UNCHANGED is_truncated
    BY <1>1, <2>1, <2>2, <2>3, CloseIs
  <2>6. lines[e].kind # "Invoke"
    BY <1>1, <2>1, <2>5, CloseMeetsNoInvocation
  <2> QED
    BY <1>1, <2>4, <2>5, <2>6, CloseLastCut, CloseLastEnded
<1> QED
  BY <1>1, CloseLastSilent, CloseLastTruncated

-----------------------------------------------------------------------------
(* The invariant holds, and with it the properties of the walk.             *)

\* Nothing is walked yet.
Unwalked ==
  /\ pos = 0 /\ next = 1
  /\ stack = <<>> /\ logStack = <<>>
  /\ ~is_truncated /\ ~panicked
  /\ logs = [i \in 1..MaxCalls |-> None]

LEMMA UnwalkedWalk == TypeOK /\ RuntimeInv /\ Unwalked => WalkInv
<1> SUFFICES ASSUME TypeOK, RuntimeInv, Unwalked PROVE WalkInv
  OBVIOUS
<1>1. /\ pos = 0 /\ next = 1
      /\ stack = <<>> /\ logStack = <<>>
      /\ ~is_truncated /\ ~panicked
      /\ logs = [i \in 1..MaxCalls |-> None]
  BY DEF Unwalked
<1>2. \A c \in 1..Len(calls) : c \in 1..MaxCalls /\ logs[c] = None /\ c \in Nat /\ ~(c < 1)
  <2>1. Len(calls) \in Nat /\ Len(calls) <= MaxCalls
    BY CallsAre DEF TypeOK
  <2>2. \A c \in 1..Len(calls) : c \in 1..MaxCalls /\ c \in Nat /\ ~(c < 1)
    BY <2>1
  <2> QED
    BY <1>1, <2>2
<1>3. \A c \in Logging : c \in 1..Len(calls) /\ c >= 1 /\ ~(c < 1)
  <2>1. Logging \subseteq 1..Len(calls)
    BY DEF Logging
  <2>2. \A c \in 1..Len(calls) : c >= 1
    OBVIOUS
  <2> QED
    BY <1>2, <2>1, <2>2
<1>4. \A p \in Readable : lines[p].by \in Logging /\ ~(p <= 0)
  <2>1. \A p \in Readable : p \in 1..Len(lines)
    BY ReadableIs
  <2>2. \A p \in 1..Len(lines) : ~(p <= 0)
    OBVIOUS
  <2>3. \A p \in Readable : lines[p].by \in Logging
    BY DEF RuntimeInv, Script, WritersAreInvoked
  <2> QED
    BY <2>1, <2>2, <2>3
<1>5. ReachedAreInvoked /\ ClosedAreRead
  BY <1>1, <1>3, <1>4 DEF ReachedAreInvoked, ClosedAreRead
<1>6. OpenAreNotEnded /\ LinesAreStacked
  BY <1>1 DEF OpenAreNotEnded, LinesAreStacked
<1>7. NoLogsYet
  BY <1>2 DEF NoLogsYet
<1>8. LogsAreOwn
  BY <1>1, <1>2 DEF LogsAreOwn, Closed
<1> QED
  BY <1>1, <1>5, <1>6, <1>7, <1>8 DEF WalkInv, Reading

LEMMA UnwalkedWalkNext == TypeOK' /\ RuntimeInv' /\ Unwalked' => WalkInv'
BY UnwalkedWalk, PTL

LEMMA WalkKept ==
  ASSUME TypeOK, TypeOK', RuntimeInv, RuntimeInv', TreeInv, WalkInv, [Next]_vars
  PROVE  WalkInv'
<1>1. CASE Execute \/ Commit
  <2>1. ~executed /\ UNCHANGED <<iteratorVars, next, stack, logs>>
    BY <1>1 DEF Execute, Commit, Invoke, WriteInner, Return
  <2>2. Unwalked'
    BY <2>1 DEF TreeInv, Idle, Unwalked, iteratorVars
  <2> QED
    BY <2>2, UnwalkedWalkNext
<1>2. CASE UNCHANGED vars
  <2>1. UNCHANGED <<executed, calls, lines, pos, next, stack, logStack, is_truncated, logs, panicked>>
    BY <1>2 DEF vars, runtimeVars, iteratorVars
  <2>2. /\ CutIsFinal' <=> CutIsFinal
        /\ ReachedAreInvoked' <=> ReachedAreInvoked
        /\ ClosedAreRead' <=> ClosedAreRead
        /\ OpenAreNotEnded' <=> OpenAreNotEnded
        /\ LinesAreStacked' <=> LinesAreStacked
        /\ NoLogsYet' <=> NoLogsYet
    BY <2>1, SameLog DEF CutIsFinal, ReachedAreInvoked, ClosedAreRead, OpenAreNotEnded,
       LinesAreStacked, LinesUpTo, NoLogsYet, Invoked, Ended
  <2>3. LogsAreOwn'
    <3>1. \A c : Closed(c)' <=> Closed(c)
      BY <2>1 DEF Closed
    <3> QED
      BY <2>1, <3>1, LogsKept DEF WalkInv
  <2> QED
    BY <2>1, <2>2, <2>3 DEF WalkInv, Reading
<1> QED
  BY <1>1, <1>2, OpenNextKeepsWalk, CloseLastKeepsWalk DEF Next

Inv == TypeOK /\ RuntimeInv /\ TreeInv /\ WalkInv

LEMMA InitHolds == Init => Inv
<1> SUFFICES ASSUME Init PROVE Inv
  OBVIOUS
<1>1. /\ executed = FALSE /\ calls = <<>> /\ running = <<>> /\ lines = <<>>
      /\ pos = 0 /\ next = 1 /\ stack = <<>> /\ logStack = <<>>
      /\ is_truncated = FALSE /\ panicked = FALSE
      /\ logs = [i \in 1..MaxCalls |-> None]
      /\ inner = [i \in 0..MaxCalls |-> <<>>]
  BY DEF Init
<1>2. TypeOK
  <2>1. logs \in [1..MaxCalls -> [some : BOOLEAN, lines : Seq(Nat)]]
    BY <1>1 DEF None
  <2>2. inner \in [0..MaxCalls -> Seq(Nat)]
    BY <1>1
  <2>3. Len(calls) = 0 /\ 0 <= MaxCalls /\ 1 \in 1..0 + 1
    BY <1>1
  <2> QED
    BY <1>1, <2>1, <2>2, <2>3 DEF TypeOK
<1>3. Readable = {} /\ Logging = {} /\ Len(calls) = 0 /\ Len(running) = 0
  BY <1>1 DEF Readable, Logging
<1>4. RuntimeInv
  <2>1. Script
    BY <1>3 DEF Script, WritersAreInvoked, InvokedInOrder, SilentAfterEnd,
       InsideBeforeEnd, OutsideAfterEnd, SilentWhileInside
  <2>2. LogIsComplete /\ RunningIsOpen /\ RunningAscends
    BY <1>3 DEF LogIsComplete, RunningIsOpen, RunningAscends
  <2>3. EndedIsLeft /\ SilentCallsAreLeaves
    BY <1>3 DEF EndedIsLeft, SilentCallsAreLeaves
  <2> QED
    BY <1>1, <2>1, <2>2, <2>3 DEF RuntimeInv, CommittedIsDone
<1>5. TreeInv
  <2>1. Idle
    BY <1>1 DEF Idle
  <2>2. StackAscends /\ StackIsPath /\ NextIsAbove
    BY <1>1, <1>3 DEF StackAscends, StackIsPath, NextIsAbove
  <2>3. TreeIsCallTree
    <3>1. \A i \in 0..0 : inner[i] = <<>>
      BY <1>1
    <3> QED
      BY <1>3, <3>1 DEF TreeIsCallTree, ToSet
  <2> QED
    BY <2>1, <2>2, <2>3 DEF TreeInv
<1>6. WalkInv
  BY <1>1, <1>2, <1>4, UnwalkedWalk DEF Unwalked
<1> QED
  BY <1>2, <1>4, <1>5, <1>6 DEF Inv

LEMMA InvHolds == Spec => []Inv
<1>1. Init => Inv
  BY InitHolds
<1>2. Inv /\ [Next]_vars => Inv'
  <2> SUFFICES ASSUME Inv, [Next]_vars PROVE Inv'
    OBVIOUS
  <2>1. TypeOK' /\ RuntimeInv'
    BY TypeKept, RuntimeKept DEF Inv
  <2>2. TreeInv' /\ WalkInv'
    BY <2>1, TreeKept, WalkKept DEF Inv
  <2> QED
    BY <2>1, <2>2 DEF Inv
<1> QED
  BY <1>1, <1>2, PTL DEF Spec

\* The two stacks, the tree and the logs keep the shape the Rust types give
\* them, and no index of a call or line leaves the transaction's.
THEOREM WalkTypeCorrect == Spec => []TypeOK
<1>1. Inv => TypeOK
  BY DEF Inv
<1> QED
  BY <1>1, InvHolds, PTL

\* A transaction that was executed leaves a readable log that tells its calls
\* as a story: calls are invoked in order, write only while nothing they made
\* runs, and end after everything inside them and before what is not.
THEOREM LogTellsTheCalls == Spec => []Script
<1>1. Inv => Script
  BY DEF Inv, RuntimeInv
<1> QED
  BY <1>1, InvHolds, PTL

\* LogStack's unwraps always find a line and a list of lines, and no call is
\* closed on the invocation of another, for transactions of any size, programs
\* that write nothing and a log cut at any line.
THEOREM WalkNeverPanics == Spec => []NeverPanics
<1>1. Inv => NeverPanics
  BY DEF Inv, WalkInv, NeverPanics
<1> QED
  BY <1>1, InvHolds, PTL

\* LogStack gives every closed call its own lines, all of them and in order; a
\* call whose end was cut off gets none.
THEOREM LogsStayOwn == Spec => []LogsAreOwn
<1>1. Inv => LogsAreOwn
  BY DEF Inv, WalkInv
<1> QED
  BY <1>1, InvHolds, PTL

\* Comparing stack heights only, the walk hangs every closed call below the one
\* that made it.
THEOREM TreeStaysCallTree == Spec => []TreeIsCallTree
<1>1. Inv => TreeIsCallTree
  BY DEF Inv, TreeInv
<1> QED
  BY <1>1, InvHolds, PTL

-----------------------------------------------------------------------------
(* The rows: children are closed in the order they were invoked.            *)

InnerAscends ==
  \A i \in 0..MaxCalls :
    /\ i > Len(calls) => inner[i] = <<>>
    /\ \A j, k \in 1..Len(inner[i]) : j < k => inner[i][j] < inner[i][k]
NoLogsNoLines == \A c \in 1..MaxCalls : ~logs[c].some => logs[c].lines = <<>>

RowsInv ==
  /\ InnerAscends
  /\ NoLogsNoLines

\* A call invoked after the last one of the stack is inside it.
LEMMA LastIsGreatestChild ==
  ASSUME TypeOK, TreeInv, CloseLast, NEW t, t = stack[Len(stack)],
         NEW c \in ToSet(inner[Caller(t)])
  PROVE  c \in Nat /\ c < t
<1>1. /\ t < next /\ t \in 1..Len(calls) /\ t \in Nat /\ next \in Nat
      /\ \A d \in t + 1..next - 1 : Height(d) > Height(t)
      /\ t \notin ToSet(stack)'
      /\ \A x : x \in ToSet(stack) <=> x \in ToSet(stack)' \/ x = t
      /\ t \in ToSet(stack)
  BY CloseLastStack
<1>2. Caller(t) \in 0..t - 1 /\ Len(calls) \in Nat /\ \A d \in 1..Len(calls) : Height(d) \in Nat
  BY <1>1, CallerIs, CallsAre
<1>3. Caller(t) \in 0..Len(calls)
  BY <1>1, <1>2
<1>4. c \in 1..Len(calls) /\ Closed(c) /\ Caller(c) = Caller(t)
  <2>1. ToSet(inner[Caller(t)]) = {d \in 1..Len(calls) : Closed(d) /\ Caller(d) = Caller(t)}
    BY <1>3 DEF TreeInv, TreeIsCallTree
  <2> QED
    BY <2>1
<1>5. c < next /\ c # t
  BY <1>1, <1>4 DEF Closed
<1>6. ASSUME c > t PROVE FALSE
  <2>1. Height(c) > Height(t)
    BY <1>1, <1>2, <1>4, <1>5, <1>6
  <2>2. \A e \in Caller(c) + 1..c - 1 : Height(e) >= Height(c)
    BY <1>4, CallerIs
  <2>3. t \in Caller(c) + 1..c - 1
    BY <1>1, <1>2, <1>4, <1>6
  <2>4. Height(t) >= Height(c) /\ Height(t) \in Nat /\ Height(c) \in Nat
    BY <1>1, <1>2, <1>4, <2>2, <2>3
  <2> QED
    BY <2>1, <2>4
<1> QED
  BY <1>1, <1>2, <1>4, <1>5, <1>6

LEMMA CloseLastKeepsOrder ==
  ASSUME TypeOK, TreeInv, InnerAscends, CloseLast
  PROVE  InnerAscends'
<1> DEFINE t == stack[Len(stack)]
           up == Caller(t)
<1>1. /\ UNCHANGED calls /\ t \in 1..Len(calls) /\ t \in Nat
      /\ Len(calls) \in Nat /\ Len(calls) <= MaxCalls
  BY CloseLastStack, NextIs
<1>2. up \in 0..t - 1
  BY <1>1, CallerIs
<1>3. inner' = [inner EXCEPT ![up] = Append(@, t)]
  <2>1. /\ Len(stack) \in Nat \ {0} /\ Len(stack') = Len(stack) - 1 /\ stack' \in Seq(Nat)
        /\ \A k \in 1..Len(stack) - 1 : stack'[k] = stack[k]
        /\ up = IF Len(stack) = 1 THEN 0 ELSE stack[Len(stack) - 1]
        /\ Last(stack) = t
    BY CloseLastStack
  <2>2. (IF stack' = <<>> THEN 0 ELSE Last(stack')) = up
    <3>1. stack' = <<>> <=> Len(stack) = 1
      BY <2>1
    <3>2. Len(stack) # 1 => Len(stack) - 1 \in 1..Len(stack) - 1
      BY <2>1
    <3> QED
      BY <2>1, <3>1, <3>2 DEF Last
  <2>3. inner' = [inner EXCEPT ![IF stack' = <<>> THEN 0 ELSE Last(stack')] = Append(@, Last(stack))]
    BY DEF CloseLast
  <2> QED
    BY <2>1, <2>2, <2>3
<1>4. inner \in [0..MaxCalls -> Seq(Nat)]
  BY DEF TypeOK
<1>5. \A c \in ToSet(inner[up]) : c \in Nat /\ c < t
  BY LastIsGreatestChild
<1> HIDE DEF t, up
<1> SUFFICES ASSUME NEW i \in 0..MaxCalls
             PROVE  /\ i > Len(calls) => inner'[i] = <<>>
                    /\ \A j, k \in 1..Len(inner'[i]) : j < k => inner'[i][j] < inner'[i][k]
  BY <1>1 DEF InnerAscends
<1>6. /\ i > Len(calls) => inner[i] = <<>>
      /\ \A j, k \in 1..Len(inner[i]) : j < k => inner[i][j] < inner[i][k]
  BY DEF InnerAscends
<1>7. CASE i # up
  BY <1>3, <1>4, <1>6, <1>7
<1>8. CASE i = up
  <2>1. inner'[i] = Append(inner[i], t) /\ inner[i] \in Seq(Nat)
    BY <1>3, <1>4, <1>8
  <2> DEFINE s == inner[i]
  <2>2. /\ Len(s) \in Nat /\ Len(Append(s, t)) = Len(s) + 1
        /\ \A k \in 1..Len(s) : Append(s, t)[k] = s[k]
        /\ Append(s, t)[Len(s) + 1] = t
    BY <1>1, <2>1, AppendIs
  <2>3. \A k \in 1..Len(s) : s[k] < t
    <3>1. \A k \in 1..Len(s) : s[k] \in ToSet(s)
      BY <2>1, ToSetIs
    <3> QED
      BY <1>5, <1>8, <3>1
  <2>4. ~(i > Len(calls))
    BY <1>1, <1>2, <1>8
  <2> HIDE DEF s
  <2>5. \A j, k \in 1..Len(s) + 1 : j < k => j \in 1..Len(s) /\ (k \in 1..Len(s) \/ k = Len(s) + 1)
    BY <2>2
  <2>6. \A j, k \in 1..Len(s) + 1 : j < k => Append(s, t)[j] < Append(s, t)[k]
    <3> SUFFICES ASSUME NEW j \in 1..Len(s) + 1, NEW k \in 1..Len(s) + 1, j < k
                 PROVE  Append(s, t)[j] < Append(s, t)[k]
      OBVIOUS
    <3>1. CASE k \in 1..Len(s)
      BY <1>6, <2>2, <2>5, <3>1 DEF s
    <3>2. CASE k = Len(s) + 1
      BY <2>2, <2>3, <2>5, <3>2
    <3> QED
      BY <2>5, <3>1, <3>2
  <2> QED
    BY <2>1, <2>2, <2>4, <2>6 DEF s
<1> QED
  BY <1>7, <1>8

LEMMA CloseLastKeepsNoLines ==
  ASSUME TypeOK, NoLogsNoLines, CloseLast
  PROVE  NoLogsNoLines'
<1>1. stack # <<>> /\ Close(Last(stack))
  BY DEF CloseLast
<1>2. Last(stack) \in Nat
  BY <1>1, StackIs
<1>3. logs \in [1..MaxCalls -> [some : BOOLEAN, lines : Seq(Nat)]]
  BY DEF TypeOK
<1>4. UNCHANGED logs \/ \E s : logs' = [logs EXCEPT ![Last(stack)] = Some(s)]
  BY <1>1, <1>2, CloseIs
<1> QED
  BY <1>3, <1>4 DEF NoLogsNoLines, Some

LEMMA RowsInvKept ==
  ASSUME Inv, Inv', RowsInv, [Next]_vars
  PROVE  RowsInv'
<1>1. TypeOK /\ TypeOK' /\ TreeInv /\ TreeInv'
  BY DEF Inv
<1>2. ASSUME Idle', ~executed' PROVE RowsInv'
  <2>1. InnerAscends'
    BY <1>2 DEF Idle, InnerAscends
  <2>2. NoLogsNoLines'
    BY <1>2 DEF Idle, NoLogsNoLines, None
  <2> QED
    BY <2>1, <2>2 DEF RowsInv
<1>3. CASE Execute
  <2>1. executed' = executed /\ ~executed
    BY <1>3 DEF Execute, Invoke, WriteInner, Return
  <2> QED
    BY <1>1, <1>2, <2>1 DEF TreeInv
<1>4. CASE Commit \/ OpenNext \/ UNCHANGED vars
  <2>1. UNCHANGED <<calls, logs, inner>>
    BY <1>4 DEF Commit, OpenNext, vars, runtimeVars
  <2> QED
    BY <2>1 DEF RowsInv, InnerAscends, NoLogsNoLines
<1>5. CASE CloseLast
  BY <1>1, <1>5, CloseLastKeepsOrder, CloseLastKeepsNoLines DEF RowsInv
<1> QED
  BY <1>3, <1>4, <1>5 DEF Next

LEMMA RowsInvHolds == Spec => [](Inv /\ RowsInv)
<1>1. Init => RowsInv
  BY DEF Init, RowsInv, InnerAscends, NoLogsNoLines, None
<1>2. Inv /\ Inv' /\ RowsInv /\ [Next]_vars => RowsInv'
  BY RowsInvKept
<1> QED
  BY <1>1, <1>2, InvHolds, PTL DEF Spec

-----------------------------------------------------------------------------
(* Flattening consecutive parts of a sequence of numbers.                   *)

\* a + 1, ..., b.
Span(a, b) == [n \in 1..b - a |-> a + n]

LEMMA SpanIs ==
  ASSUME NEW a \in Nat, NEW b \in Nat, a <= b
  PROVE  /\ Span(a, b) \in Seq(Nat)
         /\ Len(Span(a, b)) = b - a
         /\ \A n \in 1..b - a : Span(a, b)[n] = a + n
         /\ a = b => Span(a, b) = <<>>
<1>1. b - a \in Nat /\ Span(a, b) \in [1..b - a -> Nat]
  BY DEF Span
<1>2. Span(a, b) \in Seq(Nat) /\ Len(Span(a, b)) = b - a
  BY <1>1, FunctionIsSeq
<1> QED
  BY <1>2 DEF Span

LEMMA SpanStart ==
  ASSUME NEW a \in Nat
  PROVE  Span(a, a + 1) = <<a + 1>>
<1>1. a + 1 - a = 1 /\ \A n \in 1..1 : a + n = a + 1
  OBVIOUS
<1> QED
  BY <1>1 DEF Span

LEMMA SpanOfAll ==
  ASSUME NEW n \in Nat
  PROVE  Len(Span(0, n)) = n /\ \A k \in 1..n : Span(0, n)[k] = k
<1>1. 0 \in Nat /\ 0 <= n /\ n - 0 = n
  OBVIOUS
<1>2. Len(Span(0, n)) = n /\ \A k \in 1..n : Span(0, n)[k] = 0 + k
  BY <1>1, SpanIs
<1>3. \A k \in 1..n : 0 + k = k
  OBVIOUS
<1> QED
  BY <1>2, <1>3

LEMMA SpanConcat ==
  ASSUME NEW a \in Nat, NEW b \in Nat, NEW c \in Nat, a <= b, b <= c
  PROVE  Span(a, b) \o Span(b, c) = Span(a, c)
<1> DEFINE s == Span(a, b)
           t == Span(b, c)
           u == Span(a, c)
<1>0. a <= c
  OBVIOUS
<1>1. /\ s \in Seq(Nat) /\ Len(s) = b - a /\ \A n \in 1..b - a : s[n] = a + n
      /\ t \in Seq(Nat) /\ Len(t) = c - b /\ \A n \in 1..c - b : t[n] = b + n
      /\ u \in Seq(Nat) /\ Len(u) = c - a /\ \A n \in 1..c - a : u[n] = a + n
  BY <1>0, SpanIs
<1> HIDE DEF s, t, u
<1>2. /\ s \o t \in Seq(Nat)
      /\ Len(s \o t) = Len(s) + Len(t)
      /\ \A i \in 1..Len(s) + Len(t) :
           (s \o t)[i] = IF i <= Len(s) THEN s[i] ELSE t[i - Len(s)]
  BY <1>1, ConcatProperties
<1>3. b - a \in Nat /\ c - b \in Nat /\ (b - a) + (c - b) = c - a
  OBVIOUS
<1>4. ASSUME NEW i \in 1..c - a PROVE (s \o t)[i] = u[i]
  <2>1. CASE i <= b - a
    BY <1>1, <1>2, <1>3, <2>1
  <2>2. CASE ~(i <= b - a)
    <3>1. i - (b - a) \in 1..c - b /\ b + (i - (b - a)) = a + i
      BY <2>2
    <3>2. (s \o t)[i] = t[i - (b - a)]
      <4>1. i \in 1..Len(s) + Len(t) /\ Len(s) = b - a
        BY <1>1, <1>3
      <4> QED
        BY <1>2, <2>2, <4>1
    <3>3. t[i - (b - a)] = b + (i - (b - a)) /\ u[i] = a + i
      BY <1>1, <3>1
    <3> QED
      BY <3>1, <3>2, <3>3
  <2> QED
    BY <2>1, <2>2
<1>5. Len(s \o t) = c - a
  BY <1>1, <1>2, <1>3
<1>6. s \o t = u
  <2> DEFINE v == s \o t
  <2>1. v \in Seq(Nat) /\ Len(v) = c - a /\ \A i \in 1..c - a : v[i] = u[i]
    BY <1>2, <1>4, <1>5
  <2> HIDE DEF v
  <2>2. v = u
    BY <1>1, <2>1
  <2> QED
    BY <2>2 DEF v
<1> QED
  BY <1>6 DEF s, t, u

\* What holds of 1 and goes from each number to the next holds up to m.
LEMMA UpTo ==
  ASSUME NEW m \in Nat, NEW S, m > 0 => 1 \in S,
         \A k \in 1..m : k # 1 /\ k - 1 \in S => k \in S
  PROVE  1..m \subseteq S
<1> DEFINE T == (1..m) \ S
<1>1. T \in SUBSET Nat
  OBVIOUS
<1>2. ASSUME T # {} PROVE FALSE
  <2>1. Min(T) \in T /\ \A y \in T : Min(T) <= y
    <3> HIDE DEF T
    <3> QED
      BY <1>1, <1>2, LeastOf
  <2>2. PICK k \in T : \A y \in T : k <= y
    BY <2>1
  <2>3. k \in 1..m /\ k \notin S /\ k # 1
    BY <2>2
  <2>4. k - 1 \in 1..m /\ ~(k <= k - 1)
    BY <2>3
  <2>5. k - 1 \in S
    BY <2>2, <2>4
  <2> QED
    BY <2>3, <2>5
<1> QED
  BY <1>2

\* What holds of i whenever it holds of all above i holds down to 0.
LEMMA DownFrom ==
  ASSUME NEW n \in Nat, NEW S,
         \A i \in 0..n : (\A c \in i + 1..n : c \in S) => i \in S
  PROVE  0..n \subseteq S
<1> DEFINE T == (0..n) \ S
<1>1. T \in SUBSET (0..n)
  OBVIOUS
<1>2. ASSUME T # {} PROVE FALSE
  <2>1. Max(T) \in T /\ \A y \in T : y <= Max(T)
    <3> HIDE DEF T
    <3> QED
      BY <1>1, <1>2, GreatestOf
  <2>2. PICK k \in T : \A y \in T : y <= k
    BY <2>1
  <2>3. k \in 0..n /\ k \notin S
    BY <2>2
  <2>4. \A c \in k + 1..n : c \in 0..n /\ ~(c <= k)
    BY <2>3
  <2>5. \A c \in k + 1..n : c \in S
    BY <2>2, <2>4
  <2> QED
    BY <2>3, <2>5
<1> QED
  BY <1>2

\* The sequences are the parts into which the numbers in a cut a span.
Cuts(a, seqs, m) ==
  \A k \in 1..m : a[k - 1] <= a[k] /\ seqs[k] = Span(a[k - 1], a[k])

\* Put one after the other, the parts give the span back.
LEMMA FlattenSpans ==
  ASSUME NEW m \in Nat \ {0}, NEW a \in [0..m -> Nat], NEW seqs \in [1..m -> Seq(Nat)],
         Len(seqs) = m, Cuts(a, seqs, m)
  PROVE  FlattenSeq(seqs) = Span(a[0], a[m])
<1> DEFINE f == CHOOSE f : f = [i \in 1..m |-> IF i = 1 THEN seqs[i] ELSE f[i - 1] \o seqs[i]]
           g == [i \in 1..m |-> Span(a[0], a[i])]
<1>1. FlattenSeq(seqs) = f[m]
  BY DEF FlattenSeq
<1> HIDE DEF f
<1>2. \A k \in 0..m : a[k] \in Nat
  OBVIOUS
<1>3. \A k \in 1..m : a[0] <= a[k]
  <2> DEFINE S == {k \in 1..m : a[0] <= a[k]}
  <2>1. 1 \in S
    <3>1. 1 \in 1..m /\ 1 - 1 = 0
      OBVIOUS
    <3>2. a[1 - 1] <= a[1]
      BY <3>1 DEF Cuts
    <3> QED
      BY <3>1, <3>2
  <2>2. ASSUME NEW k \in 1..m, k # 1, k - 1 \in S PROVE k \in S
    <3>1. a[k - 1] \in Nat /\ a[k] \in Nat /\ a[0] \in Nat /\ a[0] <= a[k - 1]
      BY <1>2, <2>2
    <3>2. a[k - 1] <= a[k]
      BY DEF Cuts
    <3> QED
      BY <3>1, <3>2
  <2> HIDE DEF S
  <2>3. 1..m \subseteq S
    BY <2>1, <2>2, UpTo
  <2> QED
    BY <2>3 DEF S
<1>4. \A i \in 1..m : i # 1 => i - 1 \in 1..m /\ i - 1 \in 0..m /\ i \in 0..m
  OBVIOUS
<1>5. ASSUME NEW i \in 1..m, i # 1, NEW h, h[i - 1] = Span(a[0], a[i - 1])
      PROVE  h[i - 1] \o seqs[i] = Span(a[0], a[i])
  <2>1. a[0] \in Nat /\ a[i - 1] \in Nat /\ a[i] \in Nat /\ a[0] <= a[i - 1]
    BY <1>2, <1>3, <1>4, <1>5
  <2>2. a[i - 1] <= a[i] /\ seqs[i] = Span(a[i - 1], a[i])
    BY DEF Cuts
  <2>3. Span(a[0], a[i - 1]) \o Span(a[i - 1], a[i]) = Span(a[0], a[i])
    BY <2>1, <2>2, SpanConcat
  <2> QED
    BY <1>5, <2>2, <2>3
<1>6. seqs[1] = Span(a[0], a[1])
  <2>1. 1 \in 1..m /\ 1 - 1 = 0
    OBVIOUS
  <2>2. seqs[1] = Span(a[1 - 1], a[1])
    BY <2>1 DEF Cuts
  <2> QED
    BY <2>1, <2>2
<1>7. g = [i \in 1..m |-> IF i = 1 THEN seqs[i] ELSE g[i - 1] \o seqs[i]]
  <2>1. \A i \in 1..m : g[i] = Span(a[0], a[i])
    OBVIOUS
  <2> HIDE DEF g
  <2>2. \A i \in 1..m : Span(a[0], a[i]) = IF i = 1 THEN seqs[i] ELSE g[i - 1] \o seqs[i]
    BY <1>4, <1>5, <1>6, <2>1
  <2> QED
    BY <2>2 DEF g
<1> HIDE DEF g
<1>8. f = [i \in 1..m |-> IF i = 1 THEN seqs[i] ELSE f[i - 1] \o seqs[i]]
  BY <1>7 DEF f
<1>9. \A i \in 1..m : f[i] = IF i = 1 THEN seqs[i] ELSE f[i - 1] \o seqs[i]
  <2> DEFINE next_(i) == IF i = 1 THEN seqs[i] ELSE f[i - 1] \o seqs[i]
  <2>1. f = [i \in 1..m |-> next_(i)]
    BY <1>8
  <2> HIDE DEF next_
  <2>2. \A i \in 1..m : f[i] = next_(i)
    BY <2>1
  <2> QED
    BY <2>2 DEF next_
<1>10. \A k \in 1..m : f[k] = Span(a[0], a[k])
  <2> DEFINE S == {k \in 1..m : f[k] = Span(a[0], a[k])}
  <2>1. 1 \in S
    <3>1. 1 \in 1..m
      OBVIOUS
    <3> QED
      BY <1>6, <1>9, <3>1
  <2>2. ASSUME NEW k \in 1..m, k # 1, k - 1 \in S PROVE k \in S
    <3>1. f[k - 1] = Span(a[0], a[k - 1])
      BY <2>2
    <3>2. f[k - 1] \o seqs[k] = Span(a[0], a[k])
      BY <1>5, <2>2, <3>1
    <3> QED
      BY <1>9, <2>2, <3>2
  <2> HIDE DEF S
  <2>3. 1..m \subseteq S
    BY <2>1, <2>2, UpTo
  <2> QED
    BY <2>3 DEF S
<1> QED
  BY <1>1, <1>10

-----------------------------------------------------------------------------
(* The calls inside a call are the next ones up to Stop; those it made       *)
(* itself divide them.                                                       *)

Within(i) ==
  {c \in i..Len(calls) : \A d \in i + 1..c : i # 0 => Height(d) > Height(i)}
Stop(i) == Max(Within(i))
Children(i) == {c \in 1..Len(calls) : Caller(c) = i}

LEMMA StopIs ==
  ASSUME TypeOK, NEW i \in 0..Len(calls)
  PROVE  /\ Len(calls) \in Nat /\ i \in Nat
         /\ Stop(i) \in i..Len(calls) /\ Stop(i) \in Nat /\ i <= Stop(i)
         /\ \A d \in i + 1..Stop(i) : i # 0 => Height(d) > Height(i)
         /\ Stop(i) # Len(calls) =>
              i # 0 /\ Stop(i) + 1 \in 1..Len(calls) /\ Height(Stop(i) + 1) <= Height(i)
<1> DEFINE n == Len(calls)
<1>1. n \in Nat /\ \A c \in 1..n : Height(c) \in Nat
  BY CallsAre
<1>2. i \in Nat /\ i \in i..n /\ i + 1..i = {}
  BY <1>1
<1>3. i \in Within(i)
  BY <1>2 DEF Within
<1>4. Within(i) \in SUBSET (0..n)
  BY <1>1 DEF Within
<1>5. Stop(i) \in Within(i) /\ \A y \in Within(i) : y <= Stop(i)
  BY <1>1, <1>3, <1>4, GreatestOf DEF Stop
<1>6. Stop(i) \in i..n /\ \A d \in i + 1..Stop(i) : i # 0 => Height(d) > Height(i)
  BY <1>5 DEF Within
<1>7. ASSUME Stop(i) # n
      PROVE  i # 0 /\ Stop(i) + 1 \in 1..n /\ Height(Stop(i) + 1) <= Height(i)
  <2> DEFINE e == Stop(i) + 1
  <2>1. e \in i..n /\ e \in 1..n /\ ~(e <= Stop(i))
    BY <1>1, <1>2, <1>6, <1>7
  <2>2. \A d \in i + 1..e : d \in i + 1..Stop(i) \/ d = e
    BY <1>2, <1>6
  <2>3. e \notin Within(i)
    BY <1>5, <2>1
  <2>4. i # 0 /\ ~(Height(e) > Height(i))
    <3> HIDE DEF e
    <3> QED
      BY <1>6, <2>1, <2>2, <2>3 DEF Within
  <2>5. i \in 1..n
    BY <1>2, <2>4
  <2>6. Height(e) \in Nat /\ Height(i) \in Nat
    BY <1>1, <2>1, <2>5
  <2> QED
    BY <2>1, <2>4, <2>6
<1> QED
  BY <1>1, <1>2, <1>6, <1>7

LEMMA FirstChild ==
  ASSUME TypeOK, NEW i \in 0..Len(calls)
  PROVE  /\ \A c \in Children(i) : c \in i + 1..Stop(i)
         /\ i # Stop(i) => i + 1 \in Children(i)
<1> DEFINE n == Len(calls)
           e == Stop(i)
<1>1. n \in Nat /\ i \in Nat /\ \A c \in 1..n : Height(c) \in Nat
  BY CallsAre, StopIs
<1>2. /\ e \in i..n
      /\ \A d \in i + 1..e : i # 0 => Height(d) > Height(i)
      /\ e # n => i # 0 /\ e + 1 \in 1..n /\ Height(e + 1) <= Height(i)
  BY StopIs
<1> HIDE DEF e
<1>3. ASSUME NEW c \in Children(i) PROVE c \in i + 1..e
  <2>1. c \in 1..n /\ Caller(c) = i
    BY DEF Children
  <2>2. /\ i \in 0..c - 1
        /\ i # 0 => Height(i) < Height(c)
        /\ \A d \in i + 1..c - 1 : Height(d) >= Height(c)
    BY <2>1, CallerIs
  <2>3. ASSUME e < c PROVE FALSE
    <3>1. e # n /\ e + 1 \in i + 1..c
      BY <1>1, <1>2, <2>1, <2>3
    <3>2. i # 0 /\ e + 1 \in 1..n /\ Height(e + 1) <= Height(i)
      BY <1>2, <3>1
    <3>3. i \in 1..n
      BY <1>1, <3>2
    <3>4. Height(e + 1) \in Nat /\ Height(i) \in Nat /\ Height(c) \in Nat
      BY <1>1, <2>1, <3>2, <3>3
    <3>5. e + 1 \in i + 1..c - 1 \/ e + 1 = c
      BY <1>1, <1>2, <2>1, <3>1
    <3>6. Height(e + 1) >= Height(c)
      BY <2>2, <3>4, <3>5
    <3> QED
      BY <2>2, <3>2, <3>4, <3>6
  <2> QED
    BY <1>1, <1>2, <2>1, <2>2, <2>3
<1>4. ASSUME i # e PROVE i + 1 \in Children(i)
  <2>1. i + 1 \in 1..n /\ i + 1 \in i + 1..e /\ i \in 0..i + 1 - 1 /\ i + 1..i + 1 - 1 = {}
    BY <1>1, <1>2, <1>4
  <2>2. i # 0 => Height(i) < Height(i + 1)
    <3>1. i # 0 => i \in 1..n
      BY <1>1
    <3> QED
      BY <1>1, <1>2, <2>1, <3>1
  <2>3. Caller(i + 1) = i
    BY <2>1, <2>2, CallerIsOnly
  <2> QED
    BY <2>1, <2>3 DEF Children
<1> QED
  BY <1>3, <1>4 DEF e

LEMMA NextChild ==
  ASSUME TypeOK, NEW i \in 0..Len(calls), NEW c \in Children(i)
  PROVE  /\ c \in 1..Len(calls) /\ c \in Nat /\ i < c
         /\ c <= Stop(c) /\ Stop(c) <= Stop(i)
         /\ \A d \in Children(i) : d > c => d > Stop(c)
         /\ Stop(c) # Stop(i) => Stop(c) + 1 \in Children(i)
<1> DEFINE n == Len(calls)
           e == Stop(i)
           f == Stop(c)
<1>1. n \in Nat /\ i \in Nat /\ \A d \in 1..n : Height(d) \in Nat
  BY CallsAre, StopIs
<1>2. c \in 1..n /\ Caller(c) = i /\ c \in 0..n /\ c # 0
  BY <1>1 DEF Children
<1>3. /\ i \in 0..c - 1
      /\ i # 0 => Height(i) < Height(c)
      /\ \A d \in i + 1..c - 1 : Height(d) >= Height(c)
  BY <1>2, CallerIs
<1>4. /\ e \in i..n
      /\ \A d \in i + 1..e : i # 0 => Height(d) > Height(i)
      /\ e # n => i # 0 /\ e + 1 \in 1..n /\ Height(e + 1) <= Height(i)
  BY StopIs
<1>5. /\ f \in c..n
      /\ \A d \in c + 1..f : Height(d) > Height(c)
      /\ f # n => f + 1 \in 1..n /\ Height(f + 1) <= Height(c)
  BY <1>2, StopIs
<1>6. c \in i + 1..e
  BY FirstChild
<1> HIDE DEF e, f
<1>7. f <= e
  <2> SUFFICES ASSUME e < f PROVE FALSE
    BY <1>1, <1>4, <1>5
  <2>1. e # n /\ e + 1 \in c + 1..f
    BY <1>1, <1>4, <1>5, <1>6
  <2>2. i # 0 /\ e + 1 \in 1..n /\ Height(e + 1) <= Height(i) /\ Height(e + 1) > Height(c)
    BY <1>4, <1>5, <2>1
  <2>3. i \in 1..n
    BY <1>1, <2>2
  <2>4. Height(e + 1) \in Nat /\ Height(i) \in Nat /\ Height(c) \in Nat
    BY <1>1, <1>2, <2>2, <2>3
  <2> QED
    BY <1>3, <2>2, <2>4
<1>8. ASSUME NEW d \in Children(i), d > c PROVE d > f
  <2>1. d \in 1..n /\ Caller(d) = i
    BY DEF Children
  <2>2. \A k \in i + 1..d - 1 : Height(k) >= Height(d)
    BY <2>1, CallerIs
  <2>3. ASSUME d <= f PROVE FALSE
    <3>1. d \in c + 1..f /\ c \in i + 1..d - 1
      BY <1>1, <1>2, <1>3, <1>8, <2>1, <2>3
    <3>2. Height(d) > Height(c) /\ Height(c) >= Height(d)
      BY <1>5, <2>2, <3>1
    <3>3. Height(d) \in Nat /\ Height(c) \in Nat
      BY <1>1, <1>2, <2>1
    <3> QED
      BY <3>2, <3>3
  <2> QED
    BY <1>1, <1>5, <2>1, <2>3
<1>9. ASSUME f # e PROVE f + 1 \in Children(i)
  <2>1. f # n /\ f + 1 \in i + 1..e
    BY <1>1, <1>2, <1>4, <1>5, <1>6, <1>7, <1>9
  <2>2. f + 1 \in 1..n /\ Height(f + 1) <= Height(c)
    BY <1>5, <2>1
  <2>3. Height(f + 1) \in Nat /\ Height(c) \in Nat
    BY <1>1, <1>2, <2>2
  <2>4. i # 0 => Height(i) < Height(f + 1)
    <3>1. i # 0 => i \in 1..n
      BY <1>1
    <3> QED
      BY <1>1, <1>4, <2>1, <2>3, <3>1
  <2>5. ASSUME NEW d \in i + 1..f PROVE Height(d) >= Height(f + 1)
    <3>1. d \in i + 1..c - 1 \/ d = c \/ d \in c + 1..f
      BY <1>1, <1>2, <1>5
    <3>2. d \in 1..n
      BY <1>1, <1>5
    <3>3. Height(d) >= Height(c)
      BY <1>1, <1>2, <1>3, <1>5, <3>1, <3>2
    <3>4. Height(d) \in Nat
      BY <1>1, <3>2
    <3> QED
      BY <2>2, <2>3, <3>3, <3>4
  <2>6. i \in 0..f /\ f \in Nat
    BY <1>1, <1>2, <1>3, <1>5
  <2>7. Caller(f + 1) = i
    <3>1. PICK x \in 1..n : x = f + 1
      BY <2>2
    <3>2. x - 1 = f
      BY <2>6, <3>1
    <3>3. \A d \in i + 1..x - 1 : Height(d) >= Height(x)
      BY <2>5, <3>1, <3>2
    <3>4. i \in 0..x - 1 /\ (i # 0 => Height(i) < Height(x))
      BY <2>4, <2>6, <3>1, <3>2
    <3>5. Caller(x) = i
      BY <3>3, <3>4, CallerIsOnly
    <3> QED
      BY <3>1, <3>5
  <2> QED
    BY <2>2, <2>7 DEF Children
<1>10. c \in Nat /\ i < c /\ c <= f
  BY <1>1, <1>2, <1>3, <1>5
<1> QED
  BY <1>2, <1>7, <1>8, <1>9, <1>10 DEF e, f

\* The children of a call in order: the first is the next call, each further one
\* follows what is inside the one before, and the last ends the call.
LEMMA ChildrenTile ==
  ASSUME TypeOK, NEW i \in 0..Len(calls), NEW s \in Seq(Nat), Listed(s, Children(i))
  PROVE  /\ Len(s) \in Nat
         /\ \A k \in 1..Len(s) : s[k] \in Children(i)
         /\ i = Stop(i) <=> Len(s) = 0
         /\ Len(s) # 0 => s[1] = i + 1 /\ Stop(s[Len(s)]) = Stop(i)
         /\ \A k \in 1..Len(s) : k # 1 => s[k] = Stop(s[k - 1]) + 1
<1> DEFINE m == Len(s)
<1>1. /\ m \in Nat
      /\ \A x : x \in Children(i) <=> \E k \in 1..m : s[k] = x
      /\ \A j, k \in 1..m : j < k => s[j] < s[k]
      /\ \A k \in 1..m : s[k] \in Nat
  <2>1. m \in Nat /\ \A k \in 1..m : s[k] \in Nat
    BY SeqIs
  <2>2. \A x : x \in ToSet(s) <=> \E k \in 1..m : s[k] = x
    BY ToSetIs
  <2> QED
    BY <2>1, <2>2 DEF Listed
<1>2. \A k \in 1..m : s[k] \in Children(i)
  BY <1>1
<1>3. /\ i \in Nat /\ Stop(i) \in Nat
      /\ \A c \in Children(i) : c \in i + 1..Stop(i)
      /\ i # Stop(i) => i + 1 \in Children(i)
  BY StopIs, FirstChild
<1>4. \A c \in Children(i) :
        /\ c \in Nat /\ c <= Stop(c) /\ Stop(c) <= Stop(i) /\ Stop(c) \in Nat
        /\ \A d \in Children(i) : d > c => d > Stop(c)
        /\ Stop(c) # Stop(i) => Stop(c) + 1 \in Children(i)
  <2>1. ASSUME NEW c \in Children(i) PROVE Stop(c) \in Nat
    <3>1. c \in 0..Len(calls)
      BY CallsAre DEF Children
    <3> QED
      BY <3>1, StopIs
  <2> QED
    BY <2>1, NextChild
<1> HIDE DEF m
<1>5. i = Stop(i) <=> m = 0
  <2>1. ASSUME i = Stop(i), m # 0 PROVE FALSE
    <3>1. s[1] \in Children(i)
      BY <1>1, <1>2, <2>1
    <3> QED
      BY <1>3, <2>1, <3>1
  <2>2. ASSUME i # Stop(i), m = 0 PROVE FALSE
    BY <1>1, <1>3, <2>2
  <2> QED
    BY <2>1, <2>2
<1>6. \A j, k \in 1..m : s[j] < s[k] => j < k
  <2> SUFFICES ASSUME NEW j \in 1..m, NEW k \in 1..m, s[j] < s[k], ~(j < k) PROVE FALSE
    OBVIOUS
  <2>1. j = k \/ k < j
    BY <1>1
  <2>2. s[j] = s[k] \/ s[k] < s[j]
    BY <1>1, <2>1
  <2> QED
    BY <1>1, <2>2
<1>7. ASSUME m # 0 PROVE s[1] = i + 1
  <2>1. 1 \in 1..m /\ i # Stop(i)
    BY <1>1, <1>5, <1>7
  <2>2. PICK k \in 1..m : s[k] = i + 1
    BY <1>1, <1>3, <2>1
  <2>3. s[1] \in Children(i) /\ s[1] >= i + 1 /\ s[1] \in Nat
    BY <1>1, <1>2, <1>3, <2>1
  <2>4. ASSUME s[1] # i + 1 PROVE FALSE
    <3>1. s[k] < s[1]
      BY <1>3, <2>2, <2>3, <2>4
    <3>2. k < 1
      BY <1>6, <2>1, <3>1
    <3> QED
      BY <1>1, <3>2
  <2> QED
    BY <2>4
<1>8. ASSUME NEW j \in 1..m, Stop(s[j]) # Stop(i)
      PROVE  j + 1 \in 1..m /\ s[j + 1] = Stop(s[j]) + 1
  <2>1. /\ s[j] \in Children(i) /\ s[j] \in Nat /\ s[j] <= Stop(s[j]) /\ Stop(s[j]) \in Nat
        /\ Stop(s[j]) + 1 \in Children(i)
        /\ \A d \in Children(i) : d > s[j] => d > Stop(s[j])
    BY <1>2, <1>4, <1>8
  <2>2. PICK k \in 1..m : s[k] = Stop(s[j]) + 1
    BY <1>1, <2>1
  <2>3. s[j] < s[k]
    BY <2>1, <2>2
  <2>4. j < k
    BY <1>6, <2>3
  <2>5. j + 1 \in 1..m /\ j < j + 1
    BY <1>1, <2>4
  <2>6. s[j + 1] \in Children(i) /\ s[j + 1] > s[j] /\ s[j + 1] \in Nat
    BY <1>1, <1>2, <2>1, <2>5
  <2>7. s[j + 1] > Stop(s[j])
    BY <2>1, <2>6
  <2>8. ASSUME s[j + 1] # Stop(s[j]) + 1 PROVE FALSE
    <3>1. s[k] < s[j + 1]
      BY <2>1, <2>2, <2>6, <2>7, <2>8
    <3>2. k < j + 1
      BY <1>6, <2>5, <3>1
    <3> QED
      BY <1>1, <2>4, <3>2
  <2> QED
    BY <2>5, <2>8
<1>9. ASSUME m # 0 PROVE Stop(s[m]) = Stop(i)
  <2>1. m \in 1..m /\ m + 1 \notin 1..m
    BY <1>1, <1>9
  <2> QED
    BY <1>8, <2>1
<1>10. ASSUME NEW k \in 1..m, k # 1 PROVE s[k] = Stop(s[k - 1]) + 1
  <2>1. k - 1 \in 1..m /\ k - 1 < k /\ k - 1 + 1 = k
    BY <1>1, <1>10
  <2>2. s[k - 1] < s[k] /\ s[k - 1] \in Children(i) /\ s[k] \in Children(i)
    BY <1>1, <1>2, <2>1
  <2>3. s[k] > Stop(s[k - 1])
    <3>1. s[k] > s[k - 1]
      BY <1>1, <2>1, <2>2
    <3> QED
      BY <1>4, <2>2, <3>1
  <2>4. s[k] <= Stop(i) /\ s[k] \in Nat /\ Stop(s[k - 1]) \in Nat
    <3>1. s[k] \in i + 1..Stop(i)
      BY <1>3, <2>2
    <3>2. s[k] <= Stop(i)
      BY <1>3, <3>1
    <3>3. s[k] \in Nat
      BY <1>1
    <3>4. Stop(s[k - 1]) \in Nat
      BY <1>4, <2>2
    <3> QED
      BY <3>2, <3>3, <3>4
  <2>5. Stop(s[k - 1]) # Stop(i)
    BY <1>3, <2>3, <2>4
  <2> QED
    BY <1>8, <2>1, <2>5
<1> QED
  BY <1>1, <1>2, <1>5, <1>7, <1>9, <1>10 DEF m

-----------------------------------------------------------------------------
(* Flattened lists the calls in the order they were invoked.                 *)

\* If what is inside each child is listed in order, so is what is inside the call.
LEMMA FlattenChildren ==
  ASSUME TypeOK, NEW i \in 0..Len(calls), NEW s \in Seq(Nat), Listed(s, Children(i)), NEW f,
         \A c \in i + 1..Len(calls) : f[c] = Span(c, Stop(c))
  PROVE  FlattenSeq([n \in 1..Len(s) |-> <<s[n]>> \o f[s[n]]]) = Span(i, Stop(i))
<1> DEFINE m == Len(s)
           seqs == [n \in 1..m |-> <<s[n]>> \o f[s[n]]]
           a == [k \in 0..m |-> IF k = 0 THEN i ELSE Stop(s[k])]
<1>1. /\ m \in Nat
      /\ \A k \in 1..m : s[k] \in Children(i)
      /\ i = Stop(i) <=> m = 0
      /\ m # 0 => s[1] = i + 1 /\ Stop(s[m]) = Stop(i)
      /\ \A k \in 1..m : k # 1 => s[k] = Stop(s[k - 1]) + 1
  BY ChildrenTile
<1>2. i \in Nat /\ Len(calls) \in Nat /\ Stop(i) \in Nat
  BY StopIs
<1>3. \A k \in 1..m : /\ s[k] \in 1..Len(calls) /\ s[k] \in Nat /\ i < s[k]
                      /\ s[k] <= Stop(s[k]) /\ Stop(s[k]) \in Nat
  <2> SUFFICES ASSUME NEW c \in Children(i)
               PROVE  c \in 1..Len(calls) /\ c \in Nat /\ i < c /\ c <= Stop(c) /\ Stop(c) \in Nat
    BY <1>1
  <2>1. c \in 1..Len(calls) /\ c \in Nat /\ i < c /\ c <= Stop(c)
    BY NextChild
  <2>2. c \in 0..Len(calls)
    BY <1>2, <2>1
  <2>3. Stop(c) \in Nat
    BY <2>2, StopIs
  <2> QED
    BY <2>1, <2>3
<1>4. a[0] = i /\ \A k \in 1..m : a[k] = Stop(s[k])
  BY <1>1
<1>5. a \in [0..m -> Nat]
  BY <1>2, <1>3
<1>6. \A k \in 1..m : seqs[k] = <<s[k]>> \o f[s[k]]
  OBVIOUS
<1>7. DOMAIN seqs = 1..m
  OBVIOUS
<1> HIDE DEF m, a
<1>8. CASE m = 0
  <2>1. seqs = <<>>
    BY <1>7, <1>8
  <2>2. FlattenSeq(<<>>) = <<>>
    BY DEF FlattenSeq
  <2>3. Span(i, Stop(i)) = <<>>
    <3>1. i = Stop(i) /\ i <= i
      BY <1>1, <1>2, <1>8
    <3> QED
      BY <1>2, <3>1, SpanIs
  <2> HIDE DEF seqs
  <2>4. FlattenSeq(seqs) = Span(i, Stop(i))
    BY <2>1, <2>2, <2>3
  <2> QED
    BY <2>4 DEF seqs, m
<1>9. CASE m # 0
  <2>1. m \in Nat \ {0} /\ m \in 1..m
    BY <1>1, <1>9
  <2>2. ASSUME NEW k \in 1..m
        PROVE  a[k - 1] <= a[k] /\ seqs[k] = Span(a[k - 1], a[k]) /\ seqs[k] \in Seq(Nat)
    <3>1. s[k] = a[k - 1] + 1 /\ a[k - 1] \in Nat
      <4>1. CASE k = 1
        BY <1>1, <1>2, <1>4, <1>9, <4>1
      <4>2. CASE k # 1
        <5>1. k - 1 \in 1..m
          BY <1>1, <4>2
        <5> QED
          BY <1>1, <1>3, <1>4, <4>2, <5>1
      <4> QED
        BY <4>1, <4>2
    <3>2. s[k] \in i + 1..Len(calls) /\ s[k] <= a[k] /\ a[k] \in Nat
      BY <1>2, <1>3, <1>4
    <3>3. f[s[k]] = Span(s[k], a[k])
      BY <1>4, <3>2
    <3>4. <<s[k]>> = Span(a[k - 1], s[k])
      BY <3>1, SpanStart
    <3>5. s[k] \in Nat /\ a[k - 1] <= s[k] /\ a[k - 1] <= a[k]
      BY <1>3, <3>1, <3>2
    <3>6. Span(a[k - 1], s[k]) \o Span(s[k], a[k]) = Span(a[k - 1], a[k])
      BY <3>1, <3>2, <3>5, SpanConcat
    <3>7. seqs[k] = Span(a[k - 1], a[k])
      BY <1>6, <3>3, <3>4, <3>6
    <3>8. Span(a[k - 1], a[k]) \in Seq(Nat)
      BY <3>1, <3>2, <3>5, SpanIs
    <3> QED
      BY <3>5, <3>7, <3>8
  <2>3. seqs \in [1..m -> Seq(Nat)]
    <3> HIDE DEF seqs
    <3>1. seqs = [n \in 1..m |-> seqs[n]]
      BY DEF seqs
    <3> QED
      BY <2>2, <3>1
  <2>4. Len(seqs) = m
    <3> HIDE DEF seqs
    <3> QED
      BY <1>1, <2>3, FunctionIsSeq
  <2> HIDE DEF seqs
  <2>5. FlattenSeq(seqs) = Span(a[0], a[m])
    <3>1. Cuts(a, seqs, m)
      BY <2>2 DEF Cuts
    <3> QED
      BY <1>5, <2>1, <2>3, <2>4, <3>1, FlattenSpans
  <2>6. a[0] = i /\ a[m] = Stop(i)
    BY <1>1, <1>4, <1>9, <2>1
  <2>7. FlattenSeq(seqs) = Span(i, Stop(i))
    BY <2>5, <2>6
  <2> QED
    BY <2>7 DEF seqs, m
<1> QED
  BY <1>8, <1>9

\* When the walk is done, the children of a call are its inner instructions.
LEMMA InnerIsListed ==
  ASSUME Inv, RowsInv, Structured, NEW i \in 0..Len(calls)
  PROVE  inner[i] \in Seq(Nat) /\ Listed(inner[i], Children(i))
<1>1. TypeOK /\ TreeIsCallTree /\ InnerAscends
  BY DEF Inv, TreeInv, RowsInv
<1>2. Len(calls) \in Nat /\ Len(calls) <= MaxCalls /\ next \in Nat
  BY <1>1, NextIs
<1>3. i \in 0..MaxCalls /\ inner[i] \in Seq(Nat)
  <2>1. inner \in [0..MaxCalls -> Seq(Nat)]
    BY <1>1 DEF TypeOK
  <2>2. i \in 0..MaxCalls
    BY <1>2
  <2> QED
    BY <2>1, <2>2
<1>4. \A c \in 1..Len(calls) : Closed(c)
  <2>1. executed /\ next > Len(calls) /\ ToSet(stack) = {}
    BY DEF Structured, ToSet
  <2>2. \A c \in 1..Len(calls) : c < next
    BY <1>2, <2>1
  <2> QED
    BY <2>1, <2>2 DEF Closed
<1>5. ToSet(inner[i]) = Children(i)
  BY <1>1, <1>4 DEF TreeIsCallTree, Children
<1> QED
  BY <1>1, <1>3, <1>5 DEF InnerAscends, Listed

LEMMA FlattenedIsSpan ==
  ASSUME Inv, RowsInv, Structured
  PROVE  Flattened = Span(0, Len(calls))
<1> DEFINE N == Len(calls)
           Parts(f, i) == FlattenSeq([n \in 1..Len(inner[i]) |-> <<inner[i][n]>> \o f[inner[i][n]]])
           f == CHOOSE f : f = [i \in 0..MaxCalls |->
                  FlattenSeq([n \in 1..Len(inner[i]) |-> <<inner[i][n]>> \o f[inner[i][n]]])]
           g == [i \in 0..MaxCalls |-> IF i <= N THEN Span(i, Stop(i)) ELSE <<>>]
<1>1. TypeOK /\ InnerAscends
  BY DEF Inv, RowsInv
<1>2. N \in Nat /\ N <= MaxCalls /\ MaxCalls \in Nat
  BY <1>1, NextIs
<1>3. Flattened = f[0]
  BY DEF Flattened
<1>4. ASSUME NEW h, NEW i \in 0..N, \A c \in i + 1..N : h[c] = Span(c, Stop(c))
      PROVE  Parts(h, i) = Span(i, Stop(i))
  <2>1. inner[i] \in Seq(Nat) /\ Listed(inner[i], Children(i))
    BY InnerIsListed
  <2> QED
    BY <1>1, <1>4, <2>1, FlattenChildren
<1> HIDE DEF Parts
<1>5. g = [i \in 0..MaxCalls |-> Parts(g, i)]
  <2>1. \A i \in 0..MaxCalls : g[i] = IF i <= N THEN Span(i, Stop(i)) ELSE <<>>
    OBVIOUS
  <2> HIDE DEF g
  <2>2. \A i \in 0..N : \A c \in i + 1..N : g[c] = Span(c, Stop(c))
    BY <1>2, <2>1
  <2>3. ASSUME NEW i \in 0..MaxCalls
        PROVE  (IF i <= N THEN Span(i, Stop(i)) ELSE <<>>) = Parts(g, i)
    <3>1. CASE i <= N
      <4>1. i \in 0..N
        BY <1>2, <3>1
      <4> QED
        BY <1>4, <2>2, <3>1, <4>1
    <3>2. CASE ~(i <= N)
      <4>1. inner[i] = <<>>
        BY <1>1, <1>2, <3>2 DEF InnerAscends
      <4>2. Parts(g, i) = FlattenSeq(<<>>)
        BY <4>1 DEF Parts
      <4>3. FlattenSeq(<<>>) = <<>>
        BY DEF FlattenSeq
      <4> QED
        BY <3>2, <4>2, <4>3
    <3> QED
      BY <3>1, <3>2
  <2> QED
    BY <2>3 DEF g
<1> HIDE DEF g
<1>6. f = [i \in 0..MaxCalls |-> Parts(f, i)]
  BY <1>5 DEF Parts
<1> HIDE DEF f
<1>7. \A i \in 0..MaxCalls : f[i] = Parts(f, i)
  <2> DEFINE own(i) == Parts(f, i)
  <2>1. f = [i \in 0..MaxCalls |-> own(i)]
    BY <1>6
  <2> HIDE DEF own
  <2>2. \A i \in 0..MaxCalls : f[i] = own(i)
    BY <2>1
  <2> QED
    BY <2>2 DEF own
<1>8. \A i \in 0..N : f[i] = Span(i, Stop(i))
  <2> DEFINE S == {i \in 0..N : f[i] = Span(i, Stop(i))}
  <2>1. ASSUME NEW i \in 0..N, \A c \in i + 1..N : c \in S PROVE i \in S
    <3>1. \A c \in i + 1..N : f[c] = Span(c, Stop(c))
      BY <2>1
    <3>2. i \in 0..MaxCalls
      BY <1>2
    <3>3. f[i] = Span(i, Stop(i))
      BY <1>4, <1>7, <3>1, <3>2
    <3> QED
      BY <3>3
  <2> HIDE DEF S
  <2>2. 0..N \subseteq S
    BY <1>2, <2>1, DownFrom
  <2> QED
    BY <2>2 DEF S
<1>9. 0 \in 0..N /\ Stop(0) = N
  <2>1. 0 \in 0..N
    BY <1>2
  <2> QED
    BY <1>1, <2>1, StopIs
<1> QED
  BY <1>3, <1>8, <1>9

-----------------------------------------------------------------------------
(* The rows of a walk that is done.                                          *)

LEMMA EventsOfCall ==
  ASSUME Inv, RowsInv, Structured, NEW c \in 1..Len(calls)
  PROVE  /\ Events(c) # {} =>
              /\ FirstEvent(c) \in LinesOf(c)
              /\ lines[FirstEvent(c)].kind = "Event"
              /\ \A q \in LinesOf(c) : lines[q].kind = "Event" => FirstEvent(c) <= q
              /\ EndedInLog(c)
         /\ (\E p \in LinesOf(c) : lines[p].kind = "Event") /\ EndedInLog(c) => Events(c) # {}
<1> DEFINE s == logs[c].lines
<1>1. TypeOK /\ LogsAreOwn /\ ~panicked /\ NoLogsNoLines /\ WritersAreInvoked
  BY DEF Inv, WalkInv, RowsInv, RuntimeInv, Script
<1>2. c \in 1..MaxCalls /\ Closed(c)
  <2>1. Len(calls) \in Nat /\ Len(calls) <= MaxCalls /\ next \in Nat
    BY <1>1, NextIs
  <2>2. executed /\ next > Len(calls) /\ ToSet(stack) = {}
    BY DEF Structured, ToSet
  <2> QED
    BY <2>1, <2>2 DEF Closed
<1>3. s \in Seq(Nat) /\ logs[c].some \in BOOLEAN
  <2>1. logs \in [1..MaxCalls -> [some : BOOLEAN, lines : Seq(Nat)]]
    BY <1>1 DEF TypeOK
  <2> QED
    BY <1>2, <2>1
<1>4. Len(s) \in Nat /\ DOMAIN s = 1..Len(s) /\ \A k \in 1..Len(s) : s[k] \in Nat
  BY <1>3
<1>5. /\ Events(c) = {k \in 1..Len(s) : lines[s[k]].kind = "Event"}
      /\ FirstEvent(c) = s[Min(Events(c))]
  BY <1>4 DEF Events, FirstEvent
<1>6. IF c \notin Logging THEN s = <<>>
      ELSE logs[c].some = EndedInLog(c) /\ (logs[c].some => Listed(s, LinesOf(c)))
  BY <1>1, <1>2 DEF LogsAreOwn, Some, Logging
<1>7. ~logs[c].some => s = <<>>
  BY <1>1, <1>2 DEF NoLogsNoLines
<1>8. Listed(s, LinesOf(c)) =>
        /\ \A p : p \in LinesOf(c) <=> \E k \in 1..Len(s) : s[k] = p
        /\ \A j, k \in 1..Len(s) : j < k => s[j] < s[k]
  <2>1. \A p : p \in ToSet(s) <=> \E k \in 1..Len(s) : s[k] = p
    BY <1>3, ToSetIs
  <2> QED
    BY <2>1 DEF Listed
<1>9. LinesOf(c) # {} => c \in Logging
  BY <1>1 DEF WritersAreInvoked, LinesOf
<1> HIDE DEF s
<1>10. ASSUME Events(c) # {}
       PROVE  /\ FirstEvent(c) \in LinesOf(c)
              /\ lines[FirstEvent(c)].kind = "Event"
              /\ \A q \in LinesOf(c) : lines[q].kind = "Event" => FirstEvent(c) <= q
              /\ EndedInLog(c)
  <2>1. s # <<>>
    BY <1>4, <1>5, <1>10
  <2>2. c \in Logging /\ logs[c].some
    BY <1>6, <1>7, <2>1
  <2>3. EndedInLog(c) /\ Listed(s, LinesOf(c))
    BY <1>6, <2>2 DEF EndedInLog
  <2>4. Min(Events(c)) \in Events(c) /\ \A k \in Events(c) : Min(Events(c)) <= k
    <3>1. Events(c) \in SUBSET Nat
      BY <1>5
    <3> QED
      BY <1>10, <3>1, LeastOf
  <2>5. PICK k \in Events(c) : k = Min(Events(c)) /\ \A j \in Events(c) : k <= j
    BY <2>4
  <2>6. k \in 1..Len(s) /\ lines[s[k]].kind = "Event" /\ FirstEvent(c) = s[k]
    BY <1>5, <2>5
  <2>7. ASSUME NEW q \in LinesOf(c), lines[q].kind = "Event" PROVE s[k] <= q
    <3>1. PICK j \in 1..Len(s) : s[j] = q
      BY <1>8, <2>3
    <3>2. k <= j
      BY <1>5, <2>5, <2>7, <3>1
    <3>3. k = j \/ k < j
      BY <1>4, <2>6, <3>2
    <3> QED
      BY <1>4, <1>8, <2>3, <2>6, <3>1, <3>3
  <2> QED
    BY <1>8, <2>3, <2>6, <2>7
<1>11. ASSUME NEW p \in LinesOf(c), lines[p].kind = "Event", EndedInLog(c)
       PROVE  Events(c) # {}
  <2>1. Listed(s, LinesOf(c))
    BY <1>6, <1>9, <1>11 DEF EndedInLog
  <2>2. PICK k \in 1..Len(s) : s[k] = p
    BY <1>8, <2>1
  <2> QED
    BY <1>5, <1>11, <2>2
<1> QED
  BY <1>10, <1>11

LEMMA RowsAreEvents ==
  ASSUME Inv, RowsInv
  PROVE  EventsAreStored
<1> SUFFICES ASSUME Structured
             PROVE  Rows = {[ix_idx |-> lines[p].by, program_id |-> calls[lines[p].by].program,
                             line |-> p] :
                            p \in {p \in Readable :
                                     /\ lines[p].kind = "Event"
                                     /\ \A q \in LinesOf(lines[p].by) : lines[q].kind = "Event" => p <= q
                                     /\ EndedInLog(lines[p].by)
                                     /\ calls[lines[p].by].program \notin SYSTEM_PROGRAMS}}
  BY DEF EventsAreStored
<1> DEFINE N == Len(calls)
           Row(c, p) == [ix_idx |-> c, program_id |-> calls[c].program, line |-> p]
           Stored == {c \in 1..N : calls[c].program \notin SYSTEM_PROGRAMS /\ Events(c) # {}}
           First == {p \in Readable :
                       /\ lines[p].kind = "Event"
                       /\ \A q \in LinesOf(lines[p].by) : lines[q].kind = "Event" => p <= q
                       /\ EndedInLog(lines[p].by)
                       /\ calls[lines[p].by].program \notin SYSTEM_PROGRAMS}
<1>1. TypeOK /\ WritersAreInvoked
  BY DEF Inv, RuntimeInv, Script
<1>2. N \in Nat
  BY <1>1, NextIs
<1>3. Len(Flattened) = N /\ \A ix \in 1..N : Flattened[ix] = ix
  <2>1. Flattened = Span(0, N)
    BY FlattenedIsSpan
  <2>2. Len(Span(0, N)) = N /\ \A ix \in 1..N : Span(0, N)[ix] = ix
    BY <1>2, SpanOfAll
  <2> QED
    BY <2>1, <2>2
<1>4. Rows = {Row(c, FirstEvent(c)) : c \in Stored}
  BY <1>3 DEF Rows
<1>5. \A c \in 1..N :
        /\ Events(c) # {} =>
             /\ FirstEvent(c) \in LinesOf(c)
             /\ lines[FirstEvent(c)].kind = "Event"
             /\ \A q \in LinesOf(c) : lines[q].kind = "Event" => FirstEvent(c) <= q
             /\ EndedInLog(c)
        /\ (\E p \in LinesOf(c) : lines[p].kind = "Event") /\ EndedInLog(c) => Events(c) # {}
  BY EventsOfCall
<1>6. ASSUME NEW c \in Stored
      PROVE  FirstEvent(c) \in First /\ lines[FirstEvent(c)].by = c
  <2>1. FirstEvent(c) \in LinesOf(c) /\ c \in 1..N
    BY <1>5
  <2>2. FirstEvent(c) \in Readable /\ lines[FirstEvent(c)].by = c
    BY <2>1 DEF LinesOf
  <2> QED
    BY <1>5, <2>1, <2>2
<1>7. ASSUME NEW p \in First
      PROVE  lines[p].by \in Stored /\ FirstEvent(lines[p].by) = p
  <2> DEFINE c == lines[p].by
  <2>1. c \in 1..N /\ p \in LinesOf(c)
    BY <1>1 DEF WritersAreInvoked, Logging, LinesOf
  <2>2. /\ lines[p].kind = "Event" /\ EndedInLog(c)
        /\ \A q \in LinesOf(c) : lines[q].kind = "Event" => p <= q
    OBVIOUS
  <2>3. Events(c) # {} /\ c \in Stored
    BY <1>5, <2>1, <2>2
  <2>4. FirstEvent(c) \in LinesOf(c) /\ FirstEvent(c) <= p /\ p <= FirstEvent(c)
    BY <1>5, <2>1, <2>2, <2>3
  <2>5. p \in Nat /\ FirstEvent(c) \in Nat
    BY <1>1, <2>1, <2>4, ReadableIs DEF LinesOf
  <2>6. FirstEvent(c) = p
    BY <2>4, <2>5
  <2> QED
    BY <2>3, <2>6
<1> HIDE DEF Stored, First, Row
<1>8. {Row(c, FirstEvent(c)) : c \in Stored} = {Row(lines[p].by, p) : p \in First}
  BY <1>6, <1>7
<1> QED
  BY <1>4, <1>8 DEF Row, First

\* The rows of the events table are keyed by the place their instruction was
\* executed at, though it is found by flattening the tree again: each holds
\* the first event of its instruction, and no event is missing unless the log
\* was cut before its instruction ended.
THEOREM EventsStayStored == Spec => []EventsAreStored
<1>1. Inv /\ RowsInv => EventsAreStored
  BY RowsAreEvents
<1> QED
  BY <1>1, RowsInvHolds, PTL
=============================================================================
