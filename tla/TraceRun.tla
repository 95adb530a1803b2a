------------------------------ MODULE TraceRun ------------------------------
(***************************************************************************)
(* The trace file of spec_trace.py (main, lines 468-584) across runs.  A   *)
(* run appends a meta line, then the events and a summary of each prompt;  *)
(* a line sits in the file object's buffer until a flush or until the      *)
(* buffer is full.  A run may die at any point and is resumed with         *)
(* --start.  analyze_traces.load reads every line back (32-47).            *)
(*                                                                         *)
(* A line is a record with the prompt it speaks of.  A torn line is the    *)
(* beginning of one, without its newline; garbage is a line that was       *)
(* written behind a torn one and is no JSON.                               *)
(***************************************************************************)
EXTENDS Naturals, FiniteSets, SequencesExt

CONSTANTS
  Prompts,      \* number of prompts
  MaxEvents,    \* bound: events of one prompt
  MaxCrashes    \* bound: runs that die

ASSUME TraceAssumption == Prompts \in Nat /\ MaxEvents \in Nat /\ MaxCrashes \in Nat

VARIABLES
  events,     \* events[p]: the number of events of prompt p, the same in each run
  pc,         \* "open", "flush", "prompt", "closed" or "dead"
  pi,         \* prompts behind the run, which may have begun past the first
  step,       \* events of prompt pi written
  file,       \* the lines a dead process leaves
  buffer,     \* lines written but not flushed
  crashes

vars == <<events, pc, pi, step, file, buffer, crashes>>

Meta(start) == [type |-> "meta",    prompt |-> start, step |-> 0]
Event(p, s) == [type |-> "event",   prompt |-> p,     step |-> s]
Summary(p)  == [type |-> "summary", prompt |-> p,     step |-> 0]
Torn        == [type |-> "torn",    prompt |-> 0,     step |-> 0]
Garbage     == [type |-> "garbage", prompt |-> 0,     step |-> 0]

Readable(line) == line.type \notin {"torn", "garbage"}

\* The prompts with a summary in the file.
Summarised == {p \in 0..(Prompts - 1) : Contains(file, Summary(p))}

\* Lines written at the end of a file; the first continues a torn line.
Appended(f, lines) ==
  IF lines = <<>> \/ f = <<>> THEN f \o lines
  ELSE IF Last(f) = Torn
       THEN Front(f) \o <<IF Head(lines) = Torn THEN Torn ELSE Garbage>> \o Tail(lines)
       ELSE f \o lines

\* Slip: the file is opened with mode "w".
Truncated(f) == <<>>

\* open(out_path, "a")
Opened(f) == f

Init ==
  /\ events \in [0..(Prompts - 1) -> 0..MaxEvents]
  /\ pc = "open"
  /\ pi = 0 /\ step = 0
  /\ file = <<>> /\ buffer = <<>>
  /\ crashes = 0

WriteMeta ==
  /\ pc = "open"
  /\ file' = Opened(file)
  /\ buffer' = <<Meta(pi)>>
  /\ pc' = "flush"
  /\ UNCHANGED <<events, pi, step, crashes>>

\* Slip: the lines stay in the buffer.
FlushForgotten ==
  /\ pc = "flush"
  /\ pc' = "prompt"
  /\ UNCHANGED <<events, pi, step, file, buffer, crashes>>

Flush ==
  /\ pc = "flush"
  /\ file' = Appended(file, buffer) /\ buffer' = <<>>
  /\ pc' = "prompt"
  /\ UNCHANGED <<events, pi, step, crashes>>

\* run_prompt has returned; its events are written one by one ...
WriteEvent ==
  /\ pc = "prompt" /\ pi < Prompts
  /\ step < events[pi]
  /\ buffer' = Append(buffer, Event(pi, step + 1))
  /\ step' = step + 1
  /\ UNCHANGED <<events, pc, pi, file, crashes>>

\* Slip: the summary is written first and flushed with whatever there is.
SummaryAtOnce == TRUE

EventsWritten == step = events[pi]

\* ... and then the summary.
WriteSummary ==
  /\ pc = "prompt" /\ pi < Prompts
  /\ EventsWritten
  /\ buffer' = Append(buffer, Summary(pi))
  /\ pi' = pi + 1 /\ step' = 0
  /\ pc' = "flush"
  /\ UNCHANGED <<events, file, crashes>>

Close ==
  /\ pc = "prompt" /\ pi = Prompts
  /\ file' = Appended(file, buffer) /\ buffer' = <<>>
  /\ pc' = "closed"
  /\ UNCHANGED <<events, pi, step, crashes>>

\* The process dies, killed or by an exception.  A full buffer has been written
\* out before, wherever in a line that was, and the interpreter may still write
\* the rest: any part of what was not flushed may be in the file.  A line alone
\* does not fill the buffer.
Crash ==
  /\ pc \in {"open", "flush", "prompt"} /\ crashes < MaxCrashes
  /\ \E n \in 0..Len(buffer) :
       \/ file' = Appended(file, SubSeq(buffer, 1, n))
       \/ /\ n < Len(buffer) /\ Len(buffer) > 1
          /\ file' = Appended(file, Append(SubSeq(buffer, 1, n), Torn))
  /\ buffer' = <<>>
  /\ pc' = "dead"
  /\ crashes' = crashes + 1
  /\ UNCHANGED <<events, pi, step>>

\* Slip: the interrupted prompt counts as done.
PromptsBegun == Cardinality(Summarised) + 1

\* The operator's N: the prompts the file has a summary of.
PromptsDone == Cardinality(Summarised)

\* The script is run again with --start N.
Resume ==
  /\ pc = "dead"
  /\ pi' = PromptsDone /\ step' = 0
  /\ pc' = "open"
  /\ UNCHANGED <<events, file, buffer, crashes>>

Next ==
  \/ WriteMeta \/ Flush
  \/ WriteEvent \/ WriteSummary
  \/ Close
  \/ Crash \/ Resume

Spec == Init /\ [][Next]_vars

-----------------------------------------------------------------------------
\* A death loses the prompt in progress at most: the prompts behind the run are
\* in the file, in this run as in those it resumes (spec_trace.py:584).
FinishedPromptsSurvive == pc = "prompt" => \A p \in 0..(pi - 1) : p \in Summarised

\* No run damages a line an earlier one left: a resumed run adds to the file
\* (spec_trace.py:470).
LinesAreKept ==
  [][\A n \in 1..Len(file) : Readable(file[n]) => n <= Len(file') /\ file'[n] = file[n]]_vars

\* A summary vouches for its prompt: all the prompt's events stand before it, so
\* no total over summaries counts a prompt whose events are missing.  (Events
\* whose summary died with their run do stand in the file.)
SummaryCoversEvents ==
  \A n \in 1..Len(file) :
    file[n].type = "summary" =>
      \A s \in 1..events[file[n].prompt] :
        \E k \in 1..(n - 1) : file[k] = Event(file[n].prompt, s)

\* A run that closes its file leaves the events of every prompt in it, however
\* often it was interrupted before: a torn line costs the meta line written
\* behind it and nothing else.
NothingIsSkipped ==
  pc = "closed" =>
    \A p \in 0..(Prompts - 1) : \A s \in 1..events[p] : Contains(file, Event(p, s))

\* "resume after a disconnect; prompt_id stays absolute so traces concatenate
\* cleanly" (spec_trace.py:389-390): in the file of an interrupted and resumed
\* run each event is recorded once, as in the file of one run.
ConcatenatesCleanly ==
  pc = "closed" =>
    \A m, n \in 1..Len(file) : file[m].type = "event" /\ file[m] = file[n] => m = n
=============================================================================
