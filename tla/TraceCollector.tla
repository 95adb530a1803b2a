---------------------------- MODULE TraceCollector ----------------------------
(***************************************************************************)
(* JsonlTraceCollector.append (rejoin/analysis/trace_collector.py, lines   *)
(* 66-79): threads append traces to one file, each through a collector     *)
(* with a lock of its own.  A line that fits in the file object's buffer   *)
(* reaches the file in one write when the file is closed; of a longer one  *)
(* a piece is written at once and the rest, with the newline, at the end.  *)
(* Writes go to the end of the file, whoever makes them.                   *)
(***************************************************************************)
EXTENDS Naturals, Sequences, FiniteSets

CONSTANTS
  Threads,
  Collectors,
  None,        \* the owner of a free lock
  MaxCalls,    \* bound: appends of one thread
  MaxFaults    \* bound: failed operations and process deaths

ASSUME CollectorAssumption == MaxCalls \in Nat /\ MaxFaults \in Nat /\ None \notin Threads

VARIABLES
  collector,   \* the collector each thread uses
  long,        \* the threads whose lines do not fit in the buffer
  pc,          \* "idle", "lock", "write" or "close"
  calls,       \* appends each thread has begun
  lock,        \* the thread that holds each collector's lock, or None
  file,        \* what the writes have left in the file
  returned,    \* traces whose append has returned
  faults

setting == <<collector, long>>
vars == <<setting, pc, calls, lock, file, returned, faults>>

\* The trace a thread is appending, or appended last.
Trace(t) == <<t, calls[t]>>

\* What one write leaves: the beginning of a line, its end, or all of it.
Piece(trace, part) == [trace |-> trace, part |-> part]

Init ==
  /\ collector \in [Threads -> Collectors]
  /\ long \in SUBSET Threads
  /\ pc = [t \in Threads |-> "idle"]
  /\ calls = [t \in Threads |-> 0]
  /\ lock = [c \in Collectors |-> None]
  /\ file = <<>> /\ returned = {} /\ faults = 0

\* append begins: the line is formatted and the directory is there.
Call(t) ==
  /\ pc[t] = "idle" /\ calls[t] < MaxCalls
  /\ pc' = [pc EXCEPT ![t] = "lock"]
  /\ calls' = [calls EXCEPT ![t] = @ + 1]
  /\ UNCHANGED <<setting, lock, file, returned, faults>>

\* Slip: the lock is not waited for.
Unguarded(t) == TRUE

LockIsFree(t) == lock[collector[t]] = None

\* The file is opened behind the lock.
Acquire(t) ==
  /\ pc[t] = "lock" /\ LockIsFree(t)
  /\ lock' = [lock EXCEPT ![collector[t]] = t]
  /\ pc' = [pc EXCEPT ![t] = "write"]
  /\ UNCHANGED <<setting, calls, file, returned, faults>>

\* handle.write(line)
Write(t) ==
  /\ pc[t] = "write"
  /\ pc' = [pc EXCEPT ![t] = "close"]
  /\ file' = IF t \in long THEN Append(file, Piece(Trace(t), "head")) ELSE file
  /\ UNCHANGED <<setting, calls, lock, returned, faults>>

\* The newline is written, the file closed and the lock released.
Close(t) ==
  /\ pc[t] = "close"
  /\ file' = Append(file, Piece(Trace(t), IF t \in long THEN "tail" ELSE "whole"))
  /\ lock' = [lock EXCEPT ![collector[t]] = None]
  /\ pc' = [pc EXCEPT ![t] = "idle"]
  /\ returned' = returned \union {Trace(t)}
  /\ UNCHANGED <<setting, calls, faults>>

\* Serialising, or making the directory, raises before the lock is taken.
FailUnlocked(t) ==
  /\ pc[t] = "lock" /\ faults < MaxFaults
  /\ pc' = [pc EXCEPT ![t] = "idle"]
  /\ faults' = faults + 1
  /\ UNCHANGED <<setting, calls, lock, file, returned>>

\* Slip: an exception leaves the lock taken.
FailHoldingLock(t) ==
  /\ pc[t] \in {"write", "close"} /\ faults < MaxFaults
  /\ file' \in {file, Append(file, Piece(Trace(t), "head"))}
  /\ pc' = [pc EXCEPT ![t] = "idle"]
  /\ faults' = faults + 1
  /\ UNCHANGED <<setting, calls, lock, returned>>

\* Opening or writing raises: nothing was written, or a piece of the line, and
\* the with statements close the file and release the lock.
Fail(t) ==
  /\ pc[t] \in {"write", "close"} /\ faults < MaxFaults
  /\ file' \in {file, Append(file, Piece(Trace(t), "head"))}
  /\ lock' = [lock EXCEPT ![collector[t]] = None]
  /\ pc' = [pc EXCEPT ![t] = "idle"]
  /\ faults' = faults + 1
  /\ UNCHANGED <<setting, calls, returned>>

\* The process dies and is started again on the same file: whatever was in a
\* buffer is gone, and the collectors are new.
Restart ==
  /\ \E t \in Threads : pc[t] # "idle"
  /\ faults < MaxFaults
  /\ pc' = [t \in Threads |-> "idle"]
  /\ lock' = [c \in Collectors |-> None]
  /\ faults' = faults + 1
  /\ UNCHANGED <<setting, calls, file, returned>>

Proceed(t) == Acquire(t) \/ Write(t) \/ Close(t)

Next ==
  \/ \E t \in Threads : \/ Call(t) \/ Proceed(t)
                        \/ FailUnlocked(t) \/ Fail(t)
  \/ Restart

\* A thread in append is scheduled and no file operation blocks for ever.
Spec == Init /\ [][Next]_vars /\ \A t \in Threads : WF_vars(Proceed(t))

-----------------------------------------------------------------------------
\* Every variable has the type the code gives it.
TypeOK ==
  /\ collector \in [Threads -> Collectors] /\ long \subseteq Threads
  /\ pc \in [Threads -> {"idle", "lock", "write", "close"}]
  /\ calls \in [Threads -> Nat]
  /\ lock \in [Collectors -> Threads \union {None}]
  /\ file \in Seq([trace : Threads \X Nat, part : {"head", "tail", "whole"}])
  /\ returned \subseteq Threads \X Nat
  /\ faults \in Nat

\* One collector per path, or lines that one write can hold.
Guarded == long = {} \/ \A t, u \in Threads : collector[t] = collector[u]

\* The pieces of the trace stand together from place k on.
StandsAt(trace, k) ==
  \/ file[k] = Piece(trace, "whole")
  \/ /\ file[k] = Piece(trace, "head")
     /\ k < Len(file) /\ file[k + 1] = Piece(trace, "tail")

\* The trace is a line of the file that begins at place k: it is in one piece,
\* and what stands before it ended with a newline.
IsLine(trace, k) == StandsAt(trace, k) /\ (k > 1 => file[k - 1].part # "head")

\* The traces whose append returned and that no reader finds on a line.
Spoiled == {trace \in returned : ~ \E k \in 1..Len(file) : IsLine(trace, k)}

\* Behind one collector, or with lines that one write holds, each failed
\* operation and each process death spoils one returned trace at most, the one
\* written behind the torn line it leaves; where nothing failed, every returned
\* trace is a line of its own (trace_collector.py:73-79).  Of two collectors on
\* one path with longer lines it says nothing.
OneSpoiledPerFault == Guarded => Cardinality(Spoiled) <= faults

\* "Append one durable, independently parseable trace per line."
\* (trace_collector.py:67), without a condition: a trace whose append returned
\* is a line of the file.
OneTracePerLine == \A trace \in returned : \E k \in 1..Len(file) : IsLine(trace, k)

\* Whatever raises in whichever thread, every append comes to its end: no
\* exception leaves the lock behind (trace_collector.py:76-79).
EveryAppendEnds == \A t \in Threads : pc[t] # "idle" ~> pc[t] = "idle"
=============================================================================
