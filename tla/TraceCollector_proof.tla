------------------------ MODULE TraceCollector_proof ------------------------
(***************************************************************************)
(* Proof that failed appends and process deaths spoil one returned trace   *)
(* each at most while a path has one collector or its lines fit in the     *)
(* buffer, for any number of threads, appends and faults.                  *)
(***************************************************************************)
EXTENDS TraceCollector, FiniteSetTheorems, TLAPS

\* A thread that writes holds its collector's lock.
WritersHoldLock == \A t \in Threads : pc[t] \in {"write", "close"} => lock[collector[t]] = t

Continuing == \E t \in long : pc[t] = "close"

\* Between the two writes of a long line nothing else is written.
LongLinesGoOn ==
  \A t \in long : pc[t] = "close" =>
    Len(file) > 0 /\ file[Len(file)] = Piece(Trace(t), "head")

\* The line that is written next, or is being written, is joined to a torn one.
Torn ==
  \/ Continuing /\ Len(file) > 1 /\ file[Len(file) - 1].part = "head"
  \/ ~Continuing /\ Len(file) > 0 /\ file[Len(file)].part = "head"

\* The spoiled traces, and the one about to be, are paid for by faults.
Paid ==
  /\ IsFiniteSet(Spoiled)
  /\ Cardinality(Spoiled) <= faults
  /\ Torn => Cardinality(Spoiled) + 1 <= faults

IInv == WritersHoldLock /\ (Guarded => LongLinesGoOn /\ Paid)

-----------------------------------------------------------------------------
Pieces == [trace : Threads \X Nat, part : {"head", "tail", "whole"}]

\* What a write adds to the file, and what it leaves as it was.
LEMMA AppendedPiece ==
  ASSUME NEW f \in Seq(Pieces), NEW p \in Pieces
  PROVE  /\ Append(f, p) \in Seq(Pieces)
         /\ Len(f) \in Nat /\ Len(Append(f, p)) = Len(f) + 1
         /\ Append(f, p)[Len(f) + 1] = p
         /\ \A k \in 1..Len(f) : Append(f, p)[k] = f[k] /\ f[k] \in Pieces
  OBVIOUS

LEMMA PieceTyped ==
  ASSUME TypeOK, NEW t \in Threads
  PROVE  /\ Piece(Trace(t), "head") \in Pieces
         /\ Piece(Trace(t), "tail") \in Pieces
         /\ Piece(Trace(t), "whole") \in Pieces
         /\ Trace(t) \in Threads \X Nat
  BY DEF TypeOK, Trace, Piece, Pieces

\* Every variable keeps its type (trace_collector.py:69-79).
THEOREM CollectorTypes == Spec => []TypeOK
<1>1. Init => TypeOK
  BY CollectorAssumption DEF Init, TypeOK
<1>2. TypeOK /\ [Next]_vars => TypeOK'
  <2> SUFFICES ASSUME TypeOK, [Next]_vars PROVE TypeOK'
    OBVIOUS
  <2> USE DEF setting
  <2>0. file \in Seq(Pieces)
    BY DEF TypeOK, Pieces
  <2>1. ASSUME NEW t \in Threads, Call(t) PROVE TypeOK'
    BY <2>1 DEF Call, TypeOK
  <2>2. ASSUME NEW t \in Threads, Acquire(t) PROVE TypeOK'
    BY <2>2 DEF Acquire, TypeOK
  <2>3. ASSUME NEW t \in Threads, Write(t) PROVE TypeOK'
    <3>1. file' \in Seq(Pieces)
      BY <2>3, <2>0, PieceTyped, AppendedPiece DEF Write
    <3> QED
      BY <2>3, <3>1 DEF Write, Pieces, TypeOK
  <2>4. ASSUME NEW t \in Threads, Close(t) PROVE TypeOK'
    <3>1. file' \in Seq(Pieces)
      BY <2>4, <2>0, PieceTyped, AppendedPiece DEF Close
    <3>2. returned' \subseteq Threads \X Nat
      BY <2>4, PieceTyped DEF Close, TypeOK
    <3> QED
      BY <2>4, <3>1, <3>2 DEF Close, Pieces, TypeOK
  <2>5. ASSUME NEW t \in Threads, FailUnlocked(t) PROVE TypeOK'
    BY <2>5 DEF FailUnlocked, TypeOK
  <2>6. ASSUME NEW t \in Threads, Fail(t) PROVE TypeOK'
    <3>1. file' \in Seq(Pieces)
      BY <2>6, <2>0, PieceTyped, AppendedPiece DEF Fail
    <3> QED
      BY <2>6, <3>1 DEF Fail, Pieces, TypeOK
  <2>7. CASE Restart
    BY <2>7 DEF Restart, TypeOK
  <2>8. CASE UNCHANGED vars
    BY <2>8 DEF vars, TypeOK
  <2> QED
    BY <2>1, <2>2, <2>3, <2>4, <2>5, <2>6, <2>7, <2>8 DEF Next, Proceed
<1> QED
  BY <1>1, <1>2, PTL DEF Spec

-----------------------------------------------------------------------------
\* A step writes one piece at most, and a trace returns from Close alone.
LEMMA Steps ==
  ASSUME TypeOK, [Next]_vars
  PROVE  /\ UNCHANGED setting
         /\ file' = file \/ \E p \in Pieces : file' = Append(file, p)
         /\ returned' = returned \/ \E t \in Threads : Close(t)
<1>1. ASSUME NEW t \in Threads, Write(t) \/ Close(t) \/ Fail(t)
      PROVE  file' = file \/ \E p \in Pieces : file' = Append(file, p)
  BY <1>1, PieceTyped DEF Write, Close, Fail
<1> QED
  BY <1>1 DEF Next, Proceed, Call, Acquire, Write, Close, FailUnlocked, Fail, Restart, vars,
              setting

\* What has become a line stays one.
LEMMA LinesStay ==
  ASSUME TypeOK, file' = file \/ \E p \in Pieces : file' = Append(file, p),
         NEW trace, NEW k \in 1..Len(file), IsLine(trace, k)
  PROVE  k \in 1..Len(file') /\ IsLine(trace, k)'
<1>1. /\ Len(file) \in Nat /\ Len(file') >= Len(file) /\ Len(file') \in Nat
      /\ \A i \in 1..Len(file) : file'[i] = file[i]
  <2>1. file \in Seq(Pieces)
    BY DEF TypeOK, Pieces
  <2> QED
    BY <2>1, AppendedPiece
<1>2. /\ k < Len(file) => k < Len(file') /\ k + 1 \in 1..Len(file)
      /\ k > 1 => k - 1 \in 1..Len(file)
  BY <1>1
<1> QED
  BY <1>1, <1>2 DEF IsLine, StandsAt, Piece

\* Only a trace that returns in this step can be spoiled by it.
LEMMA SpoiledGrows ==
  ASSUME TypeOK, file' = file \/ \E p \in Pieces : file' = Append(file, p),
         NEW S, returned' \subseteq returned \union S
  PROVE  Spoiled' \subseteq Spoiled \union S
<1> SUFFICES ASSUME NEW trace \in returned, NEW k \in 1..Len(file), IsLine(trace, k)
             PROVE  \E i \in 1..Len(file') : IsLine(trace, i)'
  BY DEF Spoiled
<1> QED
  BY LinesStay

\* One more element counts one more at most.
LEMMA OneMore ==
  ASSUME NEW S, NEW x, IsFiniteSet(S), NEW T, T \subseteq S \union {x}
  PROVE  /\ IsFiniteSet(T) /\ Cardinality(T) <= Cardinality(S) + 1
         /\ Cardinality(T) \in Nat /\ Cardinality(S) \in Nat
<1>1. IsFiniteSet(S \union {x}) /\ Cardinality(S) \in Nat
  BY FS_AddElement, FS_CardinalityType
<1>2. Cardinality(S \union {x}) = IF x \in S THEN Cardinality(S) ELSE Cardinality(S) + 1
  BY FS_AddElement
<1>3. IsFiniteSet(T) /\ Cardinality(T) <= Cardinality(S \union {x})
  BY <1>1, FS_Subset
<1>4. Cardinality(T) \in Nat
  BY <1>3, FS_CardinalityType
<1> QED
  BY <1>1, <1>2, <1>3, <1>4

\* A step that spoils nothing and pays for a torn line keeps the account.
LEMMA NoneSpoiled ==
  ASSUME TypeOK, Paid, Spoiled' \subseteq Spoiled, faults' \in Nat,
         \/ faults' = faults /\ (Torn' => Torn)
         \/ faults' = faults + 1
  PROVE  Paid'
<1>1. /\ IsFiniteSet(Spoiled') /\ Cardinality(Spoiled') \in Nat
      /\ Cardinality(Spoiled') <= Cardinality(Spoiled) /\ Cardinality(Spoiled) \in Nat
  BY FS_Subset, FS_CardinalityType DEF Paid
<1>2. faults \in Nat
  BY DEF TypeOK
<1>3. CASE faults' = faults /\ (Torn' => Torn)
  BY <1>1, <1>2, <1>3 DEF Paid
<1>4. CASE faults' = faults + 1
  BY <1>1, <1>2, <1>4 DEF Paid
<1> QED
  BY <1>3, <1>4

\* Who writes behind a shared lock writes alone.
LEMMA Exclusive ==
  ASSUME TypeOK, WritersHoldLock, Guarded,
         NEW t \in Threads, pc[t] \in {"write", "close"},
         NEW u \in long, pc[u] \in {"write", "close"}
  PROVE  t = u
  BY DEF TypeOK, WritersHoldLock, Guarded

\* A thread that writes keeps the lock until it is done.
LEMMA LockStep ==
  ASSUME TypeOK, WritersHoldLock, [Next]_vars
  PROVE  WritersHoldLock'
<1> USE DEF WritersHoldLock, TypeOK, setting
<1>1. ASSUME NEW t \in Threads, Call(t) PROVE WritersHoldLock'
  BY <1>1 DEF Call
<1>2. ASSUME NEW t \in Threads, Acquire(t) PROVE WritersHoldLock'
  BY <1>2, CollectorAssumption DEF Acquire, LockIsFree
<1>3. ASSUME NEW t \in Threads, Write(t) PROVE WritersHoldLock'
  BY <1>3 DEF Write
<1>4. ASSUME NEW t \in Threads, Close(t) PROVE WritersHoldLock'
  BY <1>4 DEF Close
<1>5. ASSUME NEW t \in Threads, FailUnlocked(t) PROVE WritersHoldLock'
  BY <1>5 DEF FailUnlocked
<1>6. ASSUME NEW t \in Threads, Fail(t) PROVE WritersHoldLock'
  BY <1>6 DEF Fail
<1>7. CASE Restart
  BY <1>7 DEF Restart
<1>8. CASE UNCHANGED vars
  BY <1>8 DEF vars
<1> QED
  BY <1>1, <1>2, <1>3, <1>4, <1>5, <1>6, <1>7, <1>8 DEF Next, Proceed

-----------------------------------------------------------------------------
\* The line in progress stays last until it is continued.
LEMMA LongStep ==
  ASSUME TypeOK, WritersHoldLock, LongLinesGoOn, Guarded, [Next]_vars
  PROVE  LongLinesGoOn'
<1>0. file \in Seq(Pieces) /\ long' = long
  BY Steps DEF TypeOK, Pieces, setting
<1> SUFFICES ASSUME NEW t \in long, pc'[t] = "close"
             PROVE  (Len(file) > 0 /\ file[Len(file)] = Piece(Trace(t), "head"))'
  BY <1>0 DEF LongLinesGoOn
<1>1. t \in Threads
  BY DEF TypeOK
<1>2. CASE Write(t)
  <2>1. file' = Append(file, Piece(Trace(t), "head")) /\ Trace(t)' = Trace(t)
    BY <1>2 DEF Write, Trace
  <2>2. Len(file) \in Nat /\ Len(file') = Len(file) + 1
        /\ file'[Len(file) + 1] = Piece(Trace(t), "head")
    BY <1>0, <1>1, <2>1, PieceTyped, AppendedPiece
  <2> QED
    BY <2>1, <2>2 DEF Piece
<1>3. CASE ~Write(t)
  <2>1. pc[t] = "close" /\ ~Close(t) /\ ~Fail(t)
    BY <1>1, <1>3
       DEF Next, Proceed, Call, Acquire, Close, Write, FailUnlocked, Fail, Restart, vars, TypeOK
  <2>2. \A u \in Threads : pc[u] \in {"write", "close"} => u = t
    BY <2>1, Exclusive
  <2>3. file' = file /\ calls'[t] = calls[t]
    BY <1>1, <1>3, <2>1, <2>2
       DEF Next, Proceed, Call, Acquire, Write, Close, FailUnlocked, Fail, Restart, vars, TypeOK
  <2> QED
    BY <2>1, <2>3 DEF LongLinesGoOn, Trace, Piece
<1> QED
  BY <1>2, <1>3

\* The beginning of a long line is torn where the line before it was.
LEMMA WriteStep ==
  ASSUME TypeOK, WritersHoldLock, Guarded, NEW t \in Threads, Write(t), Torn'
  PROVE  Torn
<1>0. file \in Seq(Pieces) /\ Len(file) \in Nat /\ long' = long
  BY DEF TypeOK, Pieces, Write, setting
<1>1. pc[t] = "write" /\ ~Continuing
  BY Exclusive DEF Write, Continuing
<1>2. CASE t \in long
  <2>1. file' = Append(file, Piece(Trace(t), "head")) /\ Continuing'
    BY <1>0, <1>2 DEF Write, Continuing, TypeOK
  <2>2. /\ Len(file') = Len(file) + 1
        /\ \A k \in 1..Len(file) : file'[k] = file[k]
    BY <1>0, <2>1, PieceTyped, AppendedPiece
  <2>3. Len(file') > 1 /\ file'[Len(file') - 1].part = "head"
    BY <2>1 DEF Torn
  <2>4. Len(file) \in 1..Len(file) /\ Len(file') - 1 = Len(file)
    BY <1>0, <2>2, <2>3
  <2>5. file[Len(file)].part = "head"
    BY <2>2, <2>3, <2>4
  <2> QED
    BY <1>0, <1>1, <2>4, <2>5 DEF Torn
<1>3. CASE t \notin long
  <2>1. file' = file /\ ~Continuing'
    BY <1>0, <1>1, <1>3 DEF Write, Continuing, TypeOK
  <2> QED
    BY <1>1, <2>1 DEF Torn
<1> QED
  BY <1>2, <1>3

\* A line that is not joined to a torn one becomes a line of the file.
LEMMA Closed ==
  ASSUME TypeOK, WritersHoldLock, LongLinesGoOn, Guarded, NEW t \in Threads, Close(t),
         NEW trace, trace = Trace(t)
  PROVE  /\ ~Torn'
         /\ ~Torn => \E k \in 1..Len(file') : IsLine(trace, k)'
<1>0. file \in Seq(Pieces) /\ Len(file) \in Nat /\ long' = long /\ pc[t] = "close"
  BY DEF TypeOK, Pieces, Close, setting
<1>1. \A u \in long : pc[u] = "close" => u = t
  BY <1>0, Exclusive
<1>2. ~Continuing'
  BY <1>0, <1>1 DEF Close, Continuing, TypeOK
<1> DEFINE p == Piece(Trace(t), IF t \in long THEN "tail" ELSE "whole")
<1>3. file' = Append(file, p) /\ p \in Pieces /\ p.part # "head"
  BY PieceTyped DEF Close, Piece
<1>4. /\ Len(file') = Len(file) + 1 /\ file'[Len(file) + 1] = p
      /\ \A k \in 1..Len(file) : file'[k] = file[k]
  BY <1>0, <1>3, AppendedPiece
<1>5. ~Torn'
  BY <1>0, <1>2, <1>3, <1>4 DEF Torn
<1>6. ASSUME ~Torn, t \in long, NEW n \in Nat, n = Len(file)
      PROVE  n \in 1..Len(file') /\ IsLine(trace, n)'
  <2>1. Continuing /\ p = Piece(trace, "tail")
    BY <1>0, <1>6 DEF Continuing
  <2>2. n > 0 /\ file[n] = Piece(trace, "head")
    BY <1>0, <1>6 DEF LongLinesGoOn
  <2>3. n > 1 => file[n - 1].part # "head"
    BY <1>6, <2>1 DEF Torn
  <2>4. n \in 1..Len(file') /\ n \in 1..Len(file) /\ n < Len(file')
        /\ (n > 1 => n - 1 \in 1..Len(file))
    BY <1>0, <1>4, <1>6, <2>2
  <2>5. /\ file'[n] = Piece(trace, "head") /\ file'[n + 1] = Piece(trace, "tail")
        /\ n > 1 => file'[n - 1].part # "head"
    BY <1>4, <1>6, <2>1, <2>2, <2>3, <2>4
  <2> HIDE DEF p
  <2> QED
    BY <2>4, <2>5 DEF IsLine, StandsAt, Piece
<1>7. ASSUME ~Torn, t \notin long, NEW n \in Nat, n = Len(file) + 1
      PROVE  n \in 1..Len(file') /\ IsLine(trace, n)'
  <2>1. ~Continuing /\ p = Piece(trace, "whole")
    BY <1>1, <1>7 DEF Continuing
  <2>2. Len(file) > 0 => file[Len(file)].part # "head"
    BY <1>7, <2>1 DEF Torn
  <2>3. n \in 1..Len(file') /\ (n > 1 => n - 1 \in 1..Len(file) /\ n - 1 = Len(file))
    BY <1>0, <1>4, <1>7
  <2>4. /\ file'[n] = Piece(trace, "whole")
        /\ n > 1 => file'[n - 1].part # "head"
    BY <1>0, <1>4, <1>7, <2>1, <2>2, <2>3
  <2> HIDE DEF p
  <2> QED
    BY <2>3, <2>4 DEF IsLine, StandsAt, Piece
<1>8. ~Torn => \E k \in 1..Len(file') : IsLine(trace, k)'
  BY <1>0, <1>6, <1>7
<1> QED
  BY <1>5, <1>8

\* An append that returns spoils its own trace at most, and then the torn line
\* before it has been paid for.
LEMMA CloseStep ==
  ASSUME TypeOK, WritersHoldLock, LongLinesGoOn, Guarded, Paid, NEW t \in Threads, Close(t)
  PROVE  Paid'
<1>0. faults \in Nat /\ faults' = faults /\ returned' = returned \union {Trace(t)}
  BY DEF TypeOK, Close
<1>1. file' = file \/ \E p \in Pieces : file' = Append(file, p)
  BY PieceTyped DEF Close
<1>2. Spoiled' \subseteq Spoiled \union {Trace(t)}
  BY <1>0, <1>1, SpoiledGrows
<1>3. ~Torn'
  BY Closed
<1>4. CASE Torn
  <2>1. /\ IsFiniteSet(Spoiled') /\ Cardinality(Spoiled') <= Cardinality(Spoiled) + 1
        /\ Cardinality(Spoiled') \in Nat /\ Cardinality(Spoiled) \in Nat
    BY <1>2, OneMore DEF Paid
  <2> QED
    BY <1>0, <1>3, <1>4, <2>1 DEF Paid
<1>5. CASE ~Torn
  <2>1. Trace(t) \notin Spoiled'
    <3> SUFFICES ASSUME NEW trace, trace = Trace(t) PROVE trace \notin Spoiled'
      OBVIOUS
    <3>1. \E k \in 1..Len(file') : IsLine(trace, k)'
      BY <1>5, Closed
    <3> QED
      BY <3>1 DEF Spoiled
  <2>2. Spoiled' \subseteq Spoiled
    BY <1>2, <2>1
  <2> QED
    BY <1>0, <1>3, <2>2, NoneSpoiled
<1> QED
  BY <1>4, <1>5

\* Every step keeps the account.
LEMMA PaidStep ==
  ASSUME TypeOK, TypeOK', WritersHoldLock, LongLinesGoOn, Guarded, Paid, [Next]_vars
  PROVE  Paid'
<1>0. /\ file' = file \/ \E p \in Pieces : file' = Append(file, p)
      /\ faults' \in Nat /\ long' = long
  BY Steps DEF TypeOK, setting
<1>1. ASSUME returned' = returned PROVE Spoiled' \subseteq Spoiled
  <2>1. returned' \subseteq returned \union {}
    BY <1>1
  <2>2. Spoiled' \subseteq Spoiled \union {}
    BY <1>0, <2>1, SpoiledGrows
  <2> QED
    BY <2>2
<1>2. ASSUME NEW t \in Threads, Call(t) \/ Acquire(t) \/ FailUnlocked(t) PROVE Paid'
  <2>1. file' = file /\ returned' = returned
    BY <1>2 DEF Call, Acquire, FailUnlocked
  <2>2. Continuing' = Continuing
    BY <1>0, <1>2 DEF Call, Acquire, FailUnlocked, Continuing, TypeOK
  <2>3. Torn' => Torn
    BY <2>1, <2>2 DEF Torn
  <2>4. faults' = faults \/ faults' = faults + 1
    BY <1>2 DEF Call, Acquire, FailUnlocked
  <2> QED
    BY <1>0, <1>1, <2>1, <2>3, <2>4, NoneSpoiled
<1>3. ASSUME NEW t \in Threads, Write(t) PROVE Paid'
  <2>1. faults' = faults /\ returned' = returned
    BY <1>3 DEF Write
  <2>2. Torn' => Torn
    BY <1>3, WriteStep
  <2> QED
    BY <1>0, <1>1, <2>1, <2>2, NoneSpoiled
<1>4. ASSUME NEW t \in Threads, Close(t) PROVE Paid'
  BY <1>4, CloseStep
<1>5. ASSUME NEW t \in Threads, Fail(t) PROVE Paid'
  <2>1. faults' = faults + 1 /\ returned' = returned
    BY <1>5 DEF Fail
  <2> QED
    BY <1>0, <1>1, <2>1, NoneSpoiled
<1>6. CASE Restart
  <2>1. faults' = faults + 1 /\ returned' = returned
    BY <1>6 DEF Restart
  <2> QED
    BY <1>0, <1>1, <2>1, NoneSpoiled
<1>7. CASE UNCHANGED vars
  <2>1. file' = file /\ returned' = returned /\ faults' = faults /\ Torn' = Torn
    BY <1>7 DEF vars, setting, Torn, Continuing
  <2> QED
    BY <1>0, <1>1, <2>1, NoneSpoiled
<1> QED
  BY <1>2, <1>3, <1>4, <1>5, <1>6, <1>7 DEF Next, Proceed

\* The inductive invariant (trace_collector.py:73-79).
THEOREM CollectorInvariance == Spec => []IInv
<1>1. Init => IInv
  <2> SUFFICES ASSUME Init PROVE IInv
    OBVIOUS
  <2>1. WritersHoldLock /\ LongLinesGoOn
    BY DEF Init, WritersHoldLock, LongLinesGoOn
  <2>2. Spoiled = {} /\ ~Torn /\ faults = 0
    BY DEF Init, Spoiled, Torn
  <2> QED
    BY <2>1, <2>2, FS_EmptySet DEF IInv, Paid
<1>2. TypeOK /\ TypeOK' /\ IInv /\ [Next]_vars => IInv'
  <2> SUFFICES ASSUME TypeOK, TypeOK', IInv, [Next]_vars PROVE IInv'
    OBVIOUS
  <2>1. WritersHoldLock'
    BY LockStep DEF IInv
  <2>2. Guarded' => Guarded
    BY Steps DEF Guarded, setting
  <2>3. Guarded => LongLinesGoOn' /\ Paid'
    BY LongStep, PaidStep DEF IInv
  <2> QED
    BY <2>1, <2>2, <2>3 DEF IInv
<1> QED
  BY <1>1, <1>2, CollectorTypes, PTL DEF Spec

\* While a path has one collector, or no line is longer than the buffer, the
\* returned traces that are not lines of their own are no more than the failed
\* operations and process deaths (trace_collector.py:73-79).
THEOREM FaultsSpoilOneEach == Spec => []OneSpoiledPerFault
<1>1. IInv => OneSpoiledPerFault
  BY DEF IInv, Paid, OneSpoiledPerFault
<1> QED
  BY <1>1, CollectorInvariance, PTL
=============================================================================
