----------------------------- MODULE LogStructuring -----------------------------
(***************************************************************************)
(* How the indexer finds out which instruction emitted which event         *)
(* (substreams/substream-utils/src/instruction.rs, and the rows made of it *)
(* in substreams/graph/src).  A transaction carries its calls, flattened,  *)
(* and one list of log lines for all of them; a stack of calls and a stack *)
(* of lines are walked together to put the two in relation.  The runtime   *)
(* that executes the calls and writes the lines is external: it cuts the   *)
(* list at a size limit, and some native programs write nothing at all.    *)
(***************************************************************************)
EXTENDS Integers, SequencesExt

CONSTANTS
  Programs,
  PROGRAMS_WITHOUT_LOGGING,   \* precompiles, which write no lines
  SYSTEM_PROGRAMS,            \* programs the indexer stores nothing of
  MaxCalls,                   \* bound: calls in a transaction
  MaxDepth,                   \* bound: height of the call stack
  MaxInner                    \* bound: lines besides invocations and successes

ASSUME ProgramsAssumption ==
  /\ PROGRAMS_WITHOUT_LOGGING \subseteq Programs
  /\ SYSTEM_PROGRAMS \subseteq Programs
  /\ MaxCalls \in Nat /\ MaxDepth \in Nat /\ MaxInner \in Nat

VARIABLES
  executed,       \* the transaction is complete, and was successful
  calls,          \* the flattened instructions: program and stack height
  running,        \* the calls on the runtime's stack
  lines,          \* the log; a line knows the call that wrote it
  pos,            \* how many lines the iterator has passed
  next,           \* the call the loop has reached
  stack,          \* instruction_stack
  logStack,       \* LogStack.stack, of line numbers
  is_truncated,
  logs,           \* for each closed call, its lines if it has any
  inner,          \* for each call, its inner instructions; at 0, the top ones
  panicked        \* an unwrap of nothing, or an unexpected invoke log

runtimeVars == <<executed, calls, running, lines>>
iteratorVars == <<pos, logStack, is_truncated, panicked>>
vars == <<runtimeVars, iteratorVars, next, stack, logs, inner>>

Log == {"Invoke", "Success", "Event", "Other", "Truncated"}
Some(s) == [some |-> TRUE, lines |-> s]
None == [some |-> FALSE, lines |-> <<>>]

Init ==
  /\ executed = FALSE
  /\ calls = <<>> /\ running = <<>> /\ lines = <<>>
  /\ pos = 0 /\ next = 1
  /\ stack = <<>> /\ logStack = <<>>
  /\ is_truncated = FALSE /\ panicked = FALSE
  /\ logs = [i \in 1..MaxCalls |-> None]
  /\ inner = [i \in 0..MaxCalls |-> <<>>]

-----------------------------------------------------------------------------
(* The runtime.                                                             *)

Limited == \E p \in 1..Len(lines) : lines[p].kind = "Truncated"
Line(kind, call) == [kind |-> kind, by |-> call]

\* The line that would pass the limit becomes "Log truncated"; after it, only
\* lines short enough still get in.
Write(kind, call) ==
  \/ lines' = Append(lines, Line(kind, call))
  \/ ~Limited /\ lines' = Append(lines, Line("Truncated", call))
  \/ Limited /\ UNCHANGED lines

Invoke(program) ==
  LET id == Len(calls) + 1
  IN  /\ ~executed
      /\ id <= MaxCalls /\ Len(running) < MaxDepth
      /\ calls' = Append(calls, [program |-> program, height |-> Len(running) + 1])
      /\ IF program \in PROGRAMS_WITHOUT_LOGGING
         THEN UNCHANGED <<running, lines>>
         ELSE running' = Append(running, id) /\ Write("Invoke", id)

WriteInner(kind) ==
  /\ ~executed /\ running # <<>>
  /\ Len(SelectSeq(lines, LAMBDA l : l.kind \in {"Event", "Other"})) < MaxInner
  /\ Write(kind, Last(running))
  /\ UNCHANGED <<calls, running>>

Return ==
  /\ ~executed /\ running # <<>>
  /\ Write("Success", Last(running))
  /\ running' = Front(running)
  /\ UNCHANGED calls

Execute ==
  /\ \/ \E program \in Programs : Invoke(program)
     \/ \E kind \in {"Event", "Other"} : WriteInner(kind)
     \/ Return
  /\ UNCHANGED <<executed, iteratorVars, next, stack, logs, inner>>

Commit ==
  /\ ~executed /\ running = <<>> /\ calls # <<>>
  /\ executed' = TRUE
  /\ UNCHANGED <<calls, running, lines, iteratorVars, next, stack, logs, inner>>

-----------------------------------------------------------------------------
(* LogStack.                                                                *)

\* The lines up to and including the next one of these kinds, if there is one.
Scanned(kinds) ==
  LET ends == {p \in pos + 1..Len(lines) : lines[p].kind \in kinds}
  IN  IF ends = {} THEN <<>> ELSE [n \in 1..Min(ends) - pos |-> pos + n]

Panic == panicked' = TRUE /\ UNCHANGED <<pos, logStack, is_truncated>>
Truncate ==
  /\ is_truncated' = TRUE
  /\ UNCHANGED <<logStack, panicked>>

SkipsWhenTruncated(program) == is_truncated
Skips(program) == program \in PROGRAMS_WITHOUT_LOGGING \/ is_truncated

\* What was read before an invocation belongs to the call that made it.
OpenedAsOwn(read) == Append(logStack, read)
Opened(read) ==
  Append(IF Len(read) = 1 THEN logStack
         ELSE [logStack EXCEPT ![Len(logStack)] = @ \o Front(read)],
         <<Last(read)>>)

Open(program) ==
  IF Skips(program) THEN UNCHANGED iteratorVars
  ELSE LET read == Scanned({"Invoke", "Truncated"})
       IN  IF read = <<>> \/ (Len(read) > 1 /\ logStack = <<>>) THEN Panic
           ELSE /\ pos' = Last(read)
                /\ IF lines[Last(read)].kind = "Truncated" THEN Truncate
                   ELSE /\ logStack' = Opened(read)
                        /\ UNCHANGED <<is_truncated, panicked>>

\* The lines of a call that has ended.
Close(call) ==
  IF calls[call].program \in PROGRAMS_WITHOUT_LOGGING
  THEN logs' = [logs EXCEPT ![call] = Some(<<>>)] /\ UNCHANGED iteratorVars
  ELSE IF is_truncated THEN UNCHANGED <<logs, iteratorVars>>
  ELSE LET read == Scanned({"Invoke", "Truncated", "Success"})
       IN  IF \/ read = <<>> \/ logStack = <<>>
              \/ lines[Last(read)].kind = "Invoke"
           THEN Panic /\ UNCHANGED logs
           ELSE /\ pos' = Last(read)
                /\ IF lines[Last(read)].kind = "Truncated"
                   THEN Truncate /\ UNCHANGED logs
                   ELSE /\ logs' = [logs EXCEPT ![call] = Some(Last(logStack) \o read)]
                        /\ logStack' = Front(logStack)
                        /\ UNCHANGED <<is_truncated, panicked>>

-----------------------------------------------------------------------------
(* structure_flattened_instructions_with_logs.                              *)

\* The last call is over when the next one is not inside it.
OverAbove(height) == calls[Last(stack)].height > height
Over(height) == calls[Last(stack)].height >= height

CloseLast ==
  /\ executed /\ ~panicked /\ stack # <<>>
  /\ next <= Len(calls) => Over(calls[next].height)
  /\ Close(Last(stack))
  /\ stack' = Front(stack)
  /\ inner' = [inner EXCEPT ![IF stack' = <<>> THEN 0 ELSE Last(stack')] =
                 Append(@, Last(stack))]
  /\ UNCHANGED <<runtimeVars, next>>

OpenNext ==
  /\ executed /\ ~panicked /\ next <= Len(calls)
  /\ stack # <<>> => ~Over(calls[next].height)
  /\ Open(calls[next].program)
  /\ stack' = Append(stack, next)
  /\ next' = next + 1
  /\ UNCHANGED <<runtimeVars, logs, inner>>

Next == Execute \/ Commit \/ CloseLast \/ OpenNext

Spec == Init /\ [][Next]_vars

-----------------------------------------------------------------------------
(* The rows of the events table.                                            *)

Structured == executed /\ ~panicked /\ next > Len(calls) /\ stack = <<>>

\* The instructions, each followed by its inner ones.
FlattenedInnerFirst ==
  LET below[i \in 0..MaxCalls] ==
        FlattenSeq([n \in 1..Len(inner[i]) |-> Append(below[inner[i][n]], inner[i][n])])
  IN  below[0]
Flattened ==
  LET below[i \in 0..MaxCalls] ==
        FlattenSeq([n \in 1..Len(inner[i]) |-> <<inner[i][n]>> \o below[inner[i][n]]])
  IN  below[0]

\* parse_logs_for_events takes the first line that decodes, if the call has lines.
Events(call) ==
  {k \in DOMAIN logs[call].lines : lines[logs[call].lines[k]].kind = "Event"}
FirstEvent(call) == logs[call].lines[Min(Events(call))]

\* A row is keyed by the instruction's place in the flattened list.
Rows ==
  {[ix_idx |-> ix, program_id |-> calls[Flattened[ix]].program,
    line |-> FirstEvent(Flattened[ix])] :
   ix \in {ix \in 1..Len(Flattened) :
             /\ calls[Flattened[ix]].program \notin SYSTEM_PROGRAMS
             /\ Events(Flattened[ix]) # {}}}

-----------------------------------------------------------------------------
\* The lines before the cut, and those of one call among them.
Readable ==
  {p \in 1..Len(lines) : \A q \in 1..p : lines[q].kind # "Truncated"}
LinesOf(call) == {p \in Readable : lines[p].by = call}
EndedInLog(call) == \E p \in LinesOf(call) : lines[p].kind = "Success"
\* The elements of a set of line numbers, in order.
Listed(s, S) ==
  /\ ToSet(s) = S
  /\ \A i, j \in 1..Len(s) : i < j => s[i] < s[j]
Closed(call) == executed /\ call < next /\ call \notin ToSet(stack)

\* The walk never runs out of lines and never meets an invocation where a call
\* should end, wherever the log was cut and whichever programs write nothing.
NeverPanics == ~panicked

\* LogStack gives each closed call exactly the lines it wrote, in order, not
\* those of the calls it made or of its siblings; a call whose end was cut off
\* gets none.
LogsAreOwn ==
  \A call \in 1..Len(calls) :
    Closed(call) /\ ~panicked =>
      IF calls[call].program \in PROGRAMS_WITHOUT_LOGGING
      THEN logs[call] = Some(<<>>)
      ELSE /\ logs[call].some = EndedInLog(call)
           /\ logs[call].some =>
                Listed(logs[call].lines, LinesOf(call))

\* The tree of instructions is the tree of calls: a closed instruction sits in
\* the one that was running when it was invoked.
Caller(call) ==
  LET lower == {c \in 1..call - 1 : calls[c].height < calls[call].height}
  IN  IF lower = {} THEN 0 ELSE Max(lower)
TreeIsCallTree ==
  \A i \in 0..Len(calls) :
    ToSet(inner[i]) = {c \in 1..Len(calls) : Closed(c) /\ Caller(c) = i}

\* A row of the events table is keyed by the place its instruction was executed
\* at and holds the first event that instruction emitted; each such event has
\* its row, unless the log was cut before the instruction ended.
EventsAreStored ==
  Structured =>
    Rows = {[ix_idx |-> lines[p].by, program_id |-> calls[lines[p].by].program,
             line |-> p] :
            p \in {p \in Readable :
                     /\ lines[p].kind = "Event"
                     /\ \A q \in LinesOf(lines[p].by) : lines[q].kind = "Event" => p <= q
                     /\ EndedInLog(lines[p].by)
                     /\ calls[lines[p].by].program \notin SYSTEM_PROGRAMS}}
=============================================================================
