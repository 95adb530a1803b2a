---------------------------- MODULE TraceRun_proof ----------------------------
(***************************************************************************)
(* The trace file keeps its promises for any number of prompts, of events  *)
(* and of runs that die: finished prompts survive, a summary vouches for   *)
(* its prompt's events, a run that closes has skipped nothing, and no      *)
(* readable line is ever damaged.                                          *)
(***************************************************************************)
EXTENDS TraceRun, SequenceTheorems, FiniteSetTheorems, TLAPS

Line == [type   : {"meta", "event", "summary", "torn", "garbage"},
         prompt : Nat,
         step   : Nat]

RunIsTyped ==
  /\ events \in [0..(Prompts - 1) -> 0..MaxEvents]
  /\ pc \in {"open", "flush", "prompt", "closed", "dead"}
  /\ pi \in 0..Prompts /\ step \in Nat
  /\ file \in Seq(Line) /\ buffer \in Seq(Line)

\* Every summary among the lines has its prompt's events before it.
Covered(lines) ==
  \A n \in 1..Len(lines) :
    lines[n].type = "summary" =>
      \A s \in 1..events[lines[n].prompt] :
        \E k \in 1..(n - 1) : lines[k] = Event(lines[n].prompt, s)

\* A meta line is written on its own; it is what mends a torn line.
MetaAlone(lines) == Len(lines) = 1 /\ lines[1].type = "meta"

EndsWhole(lines) == lines = <<>> \/ lines[Len(lines)] # Torn

(***************************************************************************)
(* What the buffer holds: nothing, the meta line, the events written so    *)
(* far, or the events and the summary of the prompt that is now behind.    *)
(***************************************************************************)
EventsOf(p, n) ==
  Len(buffer) = n /\ \A s \in 1..n : buffer[s] = Event(p, s)

BlockOf(p, n) ==
  /\ Len(buffer) = n + 1
  /\ \A s \in 1..n : buffer[s] = Event(p, s)
  /\ buffer[n + 1] = Summary(p)

MetaIsPending == pc = "flush" /\ MetaAlone(buffer)

BlockIsPending ==
  pc = "flush" /\ pi > 0 /\ BlockOf(pi - 1, events[pi - 1]) /\ EndsWhole(file)

BufferHolds ==
  /\ pc \in {"open", "flush"} => step = 0
  /\ pc \in {"open", "dead", "closed"} => buffer = <<>>
  /\ pc = "flush" => MetaIsPending \/ BlockIsPending
  /\ pc = "prompt" => EventsOf(pi, step) /\ EndsWhole(file)

(***************************************************************************)
(* The prompts with a summary are always the first ones, and a run knows   *)
(* how many: this is why counting them is a right --start.                 *)
(***************************************************************************)
SummarisedUpTo(n) == Summarised = 0..(n - 1)

SummariesAreInOrder ==
  /\ pc \in {"open", "prompt", "closed"} \/ MetaIsPending => SummarisedUpTo(pi)
  /\ BlockIsPending => SummarisedUpTo(pi - 1)
  /\ pc = "dead" => \E n \in 0..Prompts : SummarisedUpTo(n)
  /\ pc = "closed" => pi = Prompts

IInv ==
  /\ RunIsTyped
  /\ Covered(file)
  /\ BufferHolds
  /\ SummariesAreInOrder

-----------------------------------------------------------------------------
LEMMA LinesTyped ==
  /\ Torn \in Line /\ Garbage \in Line
  /\ \A p \in Nat : Summary(p) \in Line /\ Meta(p) \in Line
  /\ \A p, s \in Nat : Event(p, s) \in Line
  BY DEF Line, Torn, Garbage, Summary, Meta, Event

LEMMA FirstLines ==
  ASSUME NEW f \in Seq(Line), NEW n \in 0..Len(f)
  PROVE  /\ SubSeq(f, 1, n) \in Seq(Line)
         /\ Len(SubSeq(f, 1, n)) = n
         /\ \A i \in 1..n : SubSeq(f, 1, n)[i] = f[i]
<1>1. \A i \in 1..n : f[i] \in Line
  BY ElementOfSeq
<1>2. Len(f) \in Nat
  BY LenProperties
<1> QED
  BY <1>1, <1>2, SubSeqProperties

\* Behind whole lines, or when nothing is written, lines are added as they are.
LEMMA PlainAppend ==
  ASSUME NEW f \in Seq(Line), NEW lines \in Seq(Line), EndsWhole(f) \/ lines = <<>>
  PROVE  /\ Appended(f, lines) \in Seq(Line)
         /\ Len(Appended(f, lines)) = Len(f) + Len(lines)
         /\ \A n \in 1..Len(f) : Appended(f, lines)[n] = f[n]
         /\ \A k \in 1..Len(lines) : Appended(f, lines)[Len(f) + k] = lines[k]
<1>1. Appended(f, lines) = f \o lines
  BY DEF Appended, EndsWhole, Last
<1>2. Len(f) \in Nat /\ Len(lines) \in Nat
  BY LenProperties
<1> DEFINE g == f \o lines
<1>3. /\ g \in Seq(Line) /\ Len(g) = Len(f) + Len(lines)
      /\ \A i \in 1..(Len(f) + Len(lines)) :
           g[i] = IF i <= Len(f) THEN f[i] ELSE lines[i - Len(f)]
  BY ConcatProperties
<1> HIDE DEF g
<1>4. \A n \in 1..Len(f) : g[n] = f[n]
  BY <1>2, <1>3
<1>5. \A k \in 1..Len(lines) : g[Len(f) + k] = lines[k]
  <2> TAKE k \in 1..Len(lines)
  <2>1. Len(f) + k \in 1..(Len(f) + Len(lines)) /\ ~(Len(f) + k <= Len(f))
        /\ (Len(f) + k) - Len(f) = k
    BY <1>2
  <2> QED
    BY <1>3, <2>1
<1> QED
  BY <1>1, <1>3, <1>4, <1>5 DEF g

\* A meta line written behind a torn line becomes garbage with it.
LEMMA MetaMends ==
  ASSUME NEW f \in Seq(Line), NEW lines \in Seq(Line), MetaAlone(lines), ~EndsWhole(f)
  PROVE  /\ Appended(f, lines) \in Seq(Line)
         /\ Len(f) \in Nat \ {0} /\ f[Len(f)] = Torn
         /\ Len(Appended(f, lines)) = Len(f)
         /\ \A n \in 1..(Len(f) - 1) : Appended(f, lines)[n] = f[n]
         /\ Appended(f, lines)[Len(f)] = Garbage
<1>1. Len(f) \in Nat \ {0} /\ f[Len(f)] = Torn /\ f # <<>> /\ Len(lines) = 1
  BY DEF EndsWhole, MetaAlone
<1>2. lines # <<>> /\ Head(lines) = lines[1] /\ Tail(lines) = <<>>
  <2>1. lines # <<>>
    <3> SUFFICES ASSUME lines = <<>>
                 PROVE  FALSE
      OBVIOUS
    <3>1. Len(lines) = 0
      BY EmptySeq, Zenon
    <3>2. Len(lines) = 1
      BY <1>1
    <3> QED
      BY ONLY <3>1, <3>2
  <2>2. Tail(lines) \in Seq(Line) /\ Len(Tail(lines)) = 0
    BY <1>1, <2>1, HeadTailProperties
  <2>3. Tail(lines) = <<>>
    BY <2>2, EmptySeq
  <2> QED
    BY <2>1, <2>3
<1>3. Head(lines) # Torn
  BY <1>2 DEF MetaAlone, Torn
<1> DEFINE front == SubSeq(f, 1, Len(f) - 1)
           g     == front \o <<Garbage>>
<1>4. Appended(f, lines) = g \o <<>>
  BY <1>1, <1>2, <1>3 DEF Appended, Last, Front
<1>5. front \in Seq(Line) /\ Len(front) = Len(f) - 1
      /\ \A i \in 1..(Len(f) - 1) : front[i] = f[i]
  <2>1. Len(f) - 1 \in 0..Len(f)
    BY <1>1
  <2> QED
    BY <2>1, FirstLines
<1> HIDE DEF front
<1>6. g \in Seq(Line) /\ Len(g) = (Len(f) - 1) + 1 /\ g[(Len(f) - 1) + 1] = Garbage
      /\ \A i \in 1..(Len(f) - 1) : g[i] = front[i]
  <2>1. Garbage \in Line
    BY LinesTyped
  <2>2. g = Append(front, Garbage)
    BY <1>5, <2>1, AppendIsConcat
  <2> HIDE DEF g
  <2>3. /\ g \in Seq(Line) /\ Len(g) = Len(front) + 1 /\ g[Len(front) + 1] = Garbage
        /\ \A i \in 1..Len(front) : g[i] = front[i]
    BY <1>5, <2>1, <2>2, AppendProperties
  <2> QED
    BY <1>5, <2>3
<1> HIDE DEF g
<1>7. Appended(f, lines) = g
  BY <1>4, <1>6, ConcatEmptySeq
<1>8. (Len(f) - 1) + 1 = Len(f)
  BY <1>1
<1> QED
  BY <1>1, <1>5, <1>6, <1>7, <1>8

\* What the proofs use of an append: no readable line is damaged, summaries stay
\* covered, and a summary is in the file if it was there or is now written.
LEMMA AppendedLines ==
  ASSUME NEW f \in Seq(Line), NEW lines \in Seq(Line),
         EndsWhole(f) \/ lines = <<>> \/ MetaAlone(lines)
  PROVE  /\ Appended(f, lines) \in Seq(Line)
         /\ \A n \in 1..Len(f) : Readable(f[n]) =>
              n <= Len(Appended(f, lines)) /\ Appended(f, lines)[n] = f[n]
         /\ Covered(f) /\ Covered(lines) => Covered(Appended(f, lines))
         /\ \A p : Contains(Appended(f, lines), Summary(p)) <=>
                     Contains(f, Summary(p)) \/ Contains(lines, Summary(p))
<1> DEFINE g == Appended(f, lines)
<1>0. Len(f) \in Nat /\ Len(lines) \in Nat
  BY LenProperties
<1>1. CASE EndsWhole(f) \/ lines = <<>>
  <2>1. /\ g \in Seq(Line)
        /\ Len(g) = Len(f) + Len(lines)
        /\ \A n \in 1..Len(f) : g[n] = f[n]
        /\ \A k \in 1..Len(lines) : g[Len(f) + k] = lines[k]
    BY <1>1, PlainAppend
  <2> HIDE DEF g
  <2>2. \A n \in 1..Len(g) : n \in 1..Len(f)
          \/ \E k \in 1..Len(lines) : n = Len(f) + k
    <3> TAKE n \in 1..Len(g)
    <3>1. CASE n <= Len(f)
      BY <1>0, <2>1, <3>1
    <3>2. CASE n > Len(f)
      <4>1. n - Len(f) \in 1..Len(lines) /\ n = Len(f) + (n - Len(f))
        BY <1>0, <2>1, <3>2
      <4> QED
        BY <4>1
    <3> QED
      BY <1>0, <2>1, <3>1, <3>2
  <2>3. \A n \in 1..Len(f) : n <= Len(g) /\ g[n] = f[n]
    BY <1>0, <2>1
  <2>4. ASSUME Covered(f), Covered(lines)
        PROVE  Covered(g)
    <3> SUFFICES ASSUME NEW n \in 1..Len(g), g[n].type = "summary",
                        NEW s \in 1..events[g[n].prompt]
                 PROVE  \E k \in 1..(n - 1) : g[k] = Event(g[n].prompt, s)
      BY DEF Covered
    <3>1. CASE n \in 1..Len(f)
      <4>1. g[n] = f[n]
        BY <2>1, <3>1
      <4>2. PICK k \in 1..(n - 1) : f[k] = Event(f[n].prompt, s)
        BY <2>4, <3>1, <4>1 DEF Covered
      <4>3. k \in 1..Len(f)
        BY <1>0, <3>1
      <4> QED
        BY <2>1, <4>1, <4>2, <4>3
    <3>2. CASE n \notin 1..Len(f)
      <4>1. PICK m \in 1..Len(lines) : n = Len(f) + m
        BY <2>2, <3>2
      <4>2. g[n] = lines[m]
        BY <2>1, <4>1
      <4>3. PICK k \in 1..(m - 1) : lines[k] = Event(lines[m].prompt, s)
        BY <2>4, <4>2 DEF Covered
      <4>4. k \in 1..Len(lines) /\ Len(f) + k \in 1..(n - 1)
        BY <1>0, <4>1
      <4>5. g[Len(f) + k] = lines[k]
        BY <2>1, <4>4
      <4> QED
        BY <4>2, <4>3, <4>4, <4>5
    <3> QED
      BY <3>1, <3>2
  <2>5. ASSUME NEW p
        PROVE  Contains(g, Summary(p)) <=> Contains(f, Summary(p)) \/ Contains(lines, Summary(p))
    <3>1. ASSUME Contains(g, Summary(p))
          PROVE  Contains(f, Summary(p)) \/ Contains(lines, Summary(p))
      <4>1. PICK n \in 1..Len(g) : g[n] = Summary(p)
        BY <3>1 DEF Contains
      <4> QED
        BY <2>1, <2>2, <4>1 DEF Contains
    <3>2. ASSUME Contains(f, Summary(p))
          PROVE  Contains(g, Summary(p))
      <4>1. PICK n \in 1..Len(f) : f[n] = Summary(p)
        BY <3>2 DEF Contains
      <4>2. n \in 1..Len(g)
        BY <1>0, <2>1
      <4> QED
        BY <2>1, <4>1, <4>2 DEF Contains
    <3>3. ASSUME Contains(lines, Summary(p))
          PROVE  Contains(g, Summary(p))
      <4>1. PICK k \in 1..Len(lines) : lines[k] = Summary(p)
        BY <3>3 DEF Contains
      <4>2. Len(f) + k \in 1..Len(g)
        BY <1>0, <2>1
      <4> QED
        BY <2>1, <4>1, <4>2 DEF Contains
    <3> QED
      BY <3>1, <3>2, <3>3
  <2> QED
    BY <2>1, <2>3, <2>4, <2>5 DEF g
<1>2. CASE MetaAlone(lines) /\ ~EndsWhole(f)
  <2>1. /\ g \in Seq(Line)
        /\ Len(f) \in Nat \ {0} /\ f[Len(f)] = Torn
        /\ Len(g) = Len(f)
        /\ \A n \in 1..(Len(f) - 1) : g[n] = f[n]
        /\ g[Len(f)] = Garbage
    BY <1>2, MetaMends
  <2> HIDE DEF g
  <2>2. ~Readable(f[Len(f)]) /\ f[Len(f)].type # "summary" /\ g[Len(f)].type # "summary"
    BY <2>1 DEF Readable, Torn, Garbage
  <2>3. \A n \in 1..Len(f) : n # Len(f) => n \in 1..(Len(f) - 1)
    BY <2>1
  <2>4. \A n \in 1..Len(f) : Readable(f[n]) => n <= Len(g) /\ g[n] = f[n]
    <3> TAKE n \in 1..Len(f)
    <3>1. n <= Len(g)
      BY <2>1
    <3> QED
      BY <2>1, <2>2, <2>3, <3>1
  <2>5. ASSUME Covered(f)
        PROVE  Covered(g)
    <3> SUFFICES ASSUME NEW n \in 1..Len(g), g[n].type = "summary",
                        NEW s \in 1..events[g[n].prompt]
                 PROVE  \E k \in 1..(n - 1) : g[k] = Event(g[n].prompt, s)
      BY DEF Covered
    <3>1. n \in 1..Len(f) /\ n \in 1..(Len(f) - 1) /\ g[n] = f[n]
      BY <2>1, <2>2, <2>3
    <3>2. PICK k \in 1..(n - 1) : f[k] = Event(f[n].prompt, s)
      BY <2>5, <3>1 DEF Covered
    <3>3. k \in 1..(Len(f) - 1)
      BY <2>1, <3>1
    <3> QED
      BY <2>1, <3>1, <3>2, <3>3
  <2>6. \A p : Summary(p).type = "summary"
    BY DEF Summary
  <2>7. \A p : Contains(lines, Summary(p)) => FALSE
    BY <1>2, <2>6 DEF Contains, MetaAlone
  <2>8. \A p : Contains(g, Summary(p)) <=> Contains(f, Summary(p))
    BY <2>1, <2>2, <2>3, <2>6 DEF Contains
  <2> QED
    BY <2>1, <2>4, <2>5, <2>7, <2>8 DEF g
<1> QED
  BY <1>1, <1>2

\* What a dying process has written of its buffer: the first lines, perhaps with
\* the beginning of the next one.
LEMMA FlushedPart ==
  ASSUME RunIsTyped, NEW n \in 0..Len(buffer), NEW lines,
         \/ lines = SubSeq(buffer, 1, n)
         \/ /\ n < Len(buffer) /\ Len(buffer) > 1
            /\ lines = Append(SubSeq(buffer, 1, n), Torn)
  PROVE  /\ lines \in Seq(Line)
         /\ Covered(buffer) => Covered(lines)
         /\ MetaAlone(buffer) => lines = <<>> \/ MetaAlone(lines)
         /\ \A p : Contains(lines, Summary(p)) => Contains(buffer, Summary(p))
<1> DEFINE first == SubSeq(buffer, 1, n)
<1>1. buffer \in Seq(Line) /\ Len(buffer) \in Nat /\ n \in Nat /\ n <= Len(buffer)
  BY LenProperties DEF RunIsTyped
<1>2. first \in Seq(Line) /\ Len(first) = n /\ \A i \in 1..n : first[i] = buffer[i]
  BY <1>1, FirstLines
<1> HIDE DEF first
<1>3. /\ lines \in Seq(Line) /\ Len(lines) \in Nat
      /\ \A i \in 1..Len(lines) :
           i \in 1..Len(buffer) /\ (lines[i] = buffer[i] \/ (i = n + 1 /\ lines[i] = Torn))
      /\ \A i \in 1..Len(lines) : i - 1 <= n
      /\ \A i \in 1..n : lines[i] = buffer[i]
  <2>1. CASE lines = first
    BY <1>1, <1>2, <2>1
  <2>2. CASE n < Len(buffer) /\ lines = Append(first, Torn)
    <3>1. /\ lines \in Seq(Line) /\ Len(lines) = n + 1
          /\ \A i \in 1..n : lines[i] = first[i]
          /\ lines[n + 1] = Torn
      BY <1>2, <2>2, LinesTyped, AppendProperties
    <3> QED
      BY <1>1, <1>2, <2>2, <3>1
  <2> QED
    BY <2>1, <2>2 DEF first
<1>4. \A i \in 1..Len(lines) : lines[i].type = "summary" => lines[i] = buffer[i]
  BY <1>3 DEF Torn
<1>5. ASSUME Covered(buffer)
      PROVE  Covered(lines)
  <2> SUFFICES ASSUME NEW i \in 1..Len(lines), lines[i].type = "summary",
                      NEW s \in 1..events[lines[i].prompt]
               PROVE  \E k \in 1..(i - 1) : lines[k] = Event(lines[i].prompt, s)
    BY DEF Covered
  <2>1. i \in 1..Len(buffer) /\ lines[i] = buffer[i]
    BY <1>3, <1>4
  <2>2. PICK k \in 1..(i - 1) : buffer[k] = Event(buffer[i].prompt, s)
    BY <1>5, <2>1 DEF Covered
  <2>3. k \in 1..n
    BY <1>1, <1>3, <2>1
  <2> QED
    BY <1>3, <2>1, <2>2, <2>3
<1>6. ASSUME MetaAlone(buffer)
      PROVE  lines = <<>> \/ MetaAlone(lines)
  <2>1. Len(buffer) = 1 /\ lines = first
    BY <1>6 DEF MetaAlone, first
  <2>2. CASE n = 0
    BY <1>2, <2>1, <2>2
  <2>3. CASE n = 1
    BY <1>2, <1>6, <2>1, <2>3 DEF MetaAlone
  <2> QED
    BY <1>1, <2>1, <2>2, <2>3
<1>7. ASSUME NEW p, Contains(lines, Summary(p))
      PROVE  Contains(buffer, Summary(p))
  <2>1. PICK i \in 1..Len(lines) : lines[i] = Summary(p)
    BY <1>7 DEF Contains
  <2>2. lines[i].type = "summary"
    BY <2>1 DEF Summary
  <2> QED
    BY <1>3, <1>4, <2>1, <2>2 DEF Contains
<1> QED
  BY <1>3, <1>5, <1>6, <1>7

\* The lines in the buffer cover their summary, which is of the prompt just left.
LEMMA BufferIsCovered ==
  ASSUME IInv
  PROVE  /\ Covered(buffer)
         /\ \A p : Contains(buffer, Summary(p)) <=> BlockIsPending /\ p = pi - 1
<1>1. RunIsTyped /\ BufferHolds /\ pi \in Nat /\ Len(buffer) \in Nat
  BY TraceAssumption, LenProperties DEF IInv, RunIsTyped
<1>0. /\ pc \in {"open", "dead", "closed", "flush", "prompt"}
      /\ \A p : Summary(p).type = "summary" /\ Summary(p).prompt = p
      /\ \A p, s : Event(p, s).type = "event" /\ Torn.type = "torn"
  BY DEF IInv, RunIsTyped, Summary, Event, Torn
<1>2. CASE BlockIsPending
  <2> DEFINE q == pi - 1
             n == events[q]
  <2>1. n \in Nat
    BY <1>1, <1>2, TraceAssumption DEF RunIsTyped, BlockIsPending
  <2>2. /\ Len(buffer) = n + 1
        /\ \A s \in 1..n : buffer[s] = Event(q, s)
        /\ buffer[n + 1] = Summary(q)
    BY <1>2 DEF BlockIsPending, BlockOf
  <2>3. \A i \in 1..Len(buffer) : buffer[i].type = "summary" => i = n + 1
    BY <1>0, <2>1, <2>2
  <2>4. Covered(buffer)
    <3> SUFFICES ASSUME NEW i \in 1..Len(buffer), buffer[i].type = "summary",
                        NEW s \in 1..events[buffer[i].prompt]
                 PROVE  \E k \in 1..(i - 1) : buffer[k] = Event(buffer[i].prompt, s)
      BY DEF Covered
    <3>1. i = n + 1 /\ buffer[i].prompt = q
      BY <1>0, <2>2, <2>3
    <3>2. s \in 1..n /\ s \in 1..(i - 1)
      BY <2>1, <3>1
    <3> QED
      BY <2>2, <3>1, <3>2
  <2>5. \A p : Contains(buffer, Summary(p)) <=> p = q
    <3>1. ASSUME NEW p, Contains(buffer, Summary(p))
          PROVE  p = q
      BY <1>0, <2>2, <2>3, <3>1 DEF Contains
    <3>2. Contains(buffer, Summary(q))
      BY <2>1, <2>2 DEF Contains
    <3> QED
      BY <3>1, <3>2
  <2> QED
    BY <1>2, <2>4, <2>5
<1>3. CASE ~BlockIsPending
  <2>1. \A i \in 1..Len(buffer) : buffer[i].type # "summary"
    <3>1. CASE pc \in {"open", "dead", "closed"}
      BY <1>1, <3>1 DEF BufferHolds
    <3>2. CASE MetaIsPending
      BY <3>2 DEF MetaIsPending, MetaAlone
    <3>3. CASE pc = "prompt"
      BY <1>0, <1>1, <3>3 DEF BufferHolds, EventsOf
    <3> QED
      BY <1>0, <1>1, <1>3, <3>1, <3>2, <3>3 DEF BufferHolds
  <2> QED
    BY <1>0, <1>3, <2>1 DEF Covered, Contains
<1> QED
  BY <1>2, <1>3

-----------------------------------------------------------------------------
LEMMA SummarisedIn ==
  ASSUME NEW p
  PROVE  p \in Summarised <=> p \in 0..(Prompts - 1) /\ Contains(file, Summary(p))
  BY DEF Summarised

LEMMA InitEstablishesIInv == Init => IInv
<1> SUFFICES ASSUME Init
             PROVE  IInv
  OBVIOUS
<1>1. RunIsTyped
  BY TraceAssumption DEF Init, RunIsTyped
<1>2. Covered(file) /\ BufferHolds
  BY DEF Init, Covered, BufferHolds
<1>3. Summarised = {}
  BY DEF Init, Summarised, Contains
<1>4. 0..(0 - 1) = {}
  OBVIOUS
<1>5. SummariesAreInOrder
  BY <1>3, <1>4 DEF Init, SummariesAreInOrder, SummarisedUpTo, MetaIsPending, BlockIsPending
<1> QED
  BY <1>1, <1>2, <1>5 DEF IInv

\* A step that leaves the file alone leaves what it holds.
LEMMA FileUnchanged ==
  ASSUME UNCHANGED <<events, file>>
  PROVE  /\ Covered(file)' <=> Covered(file)
         /\ Summarised' = Summarised
         /\ EndsWhole(file)' <=> EndsWhole(file)
  BY DEF Covered, Summarised, EndsWhole

LEMMA WriteMetaKeepsIInv ==
  ASSUME IInv, WriteMeta
  PROVE  IInv'
<1> USE DEF IInv
<1>1. /\ pc = "open" /\ UNCHANGED <<events, file, pi, step>>
      /\ buffer' = <<Meta(pi)>> /\ pc' = "flush"
  BY DEF WriteMeta, Opened
<1>2. Meta(pi) \in Line /\ Meta(pi).type = "meta"
  BY LinesTyped DEF RunIsTyped, Meta
<1>3. RunIsTyped'
  BY <1>1, <1>2 DEF RunIsTyped
<1>4. MetaAlone(buffer)' /\ MetaIsPending'
  BY <1>1, <1>2 DEF MetaAlone, MetaIsPending
<1>5. ~BlockIsPending'
  <2>1. ASSUME BlockIsPending'
        PROVE  FALSE
    <3> DEFINE n == events[pi - 1]
    <3>1. pi > 0 /\ Len(buffer') = n + 1 /\ buffer'[n + 1] = Summary(pi - 1)
      BY <1>1, <2>1 DEF BlockIsPending, BlockOf
    <3>2. n \in Nat
      BY <3>1, TraceAssumption DEF RunIsTyped
    <3>3. n + 1 = 1 /\ buffer'[1] = Meta(pi)
      BY <1>1, <3>1, <3>2
    <3> QED
      BY <1>2, <3>1, <3>3 DEF Summary
  <2> QED
    BY <2>1
<1>6. SummarisedUpTo(pi)'
  BY <1>1, FileUnchanged DEF SummariesAreInOrder, SummarisedUpTo
<1> QED
  BY <1>1, <1>3, <1>4, <1>5, <1>6, FileUnchanged DEF BufferHolds, SummariesAreInOrder

LEMMA WriteEventKeepsIInv ==
  ASSUME IInv, WriteEvent
  PROVE  IInv'
<1> USE DEF IInv
<1>1. /\ pc = "prompt" /\ pc' = "prompt" /\ UNCHANGED <<events, file, pi>>
      /\ buffer' = Append(buffer, Event(pi, step + 1)) /\ step' = step + 1
  BY DEF WriteEvent
<1>2. pi \in Nat /\ step \in Nat /\ buffer \in Seq(Line)
  BY TraceAssumption DEF RunIsTyped
<1>3. Event(pi, step + 1) \in Line
  BY <1>2, LinesTyped
<1>4. EventsOf(pi, step) /\ EndsWhole(file)
  BY <1>1 DEF BufferHolds
<1>5. /\ buffer' \in Seq(Line) /\ Len(buffer') = step + 1
      /\ \A s \in 1..step : buffer'[s] = Event(pi, s)
      /\ buffer'[step + 1] = Event(pi, step + 1)
  <2>1. Len(buffer) = step /\ \A s \in 1..step : buffer[s] = Event(pi, s)
    BY <1>4 DEF EventsOf
  <2> QED
    BY <1>1, <1>2, <1>3, <2>1, AppendProperties
<1>6. EventsOf(pi, step)'
  <2>1. \A s \in 1..(step + 1) : s \in 1..step \/ s = step + 1
    BY <1>2
  <2> QED
    BY <1>1, <1>5, <2>1 DEF EventsOf
<1>7. RunIsTyped'
  BY <1>1, <1>2, <1>5 DEF RunIsTyped
<1>8. SummariesAreInOrder'
  BY <1>1, FileUnchanged
     DEF SummariesAreInOrder, SummarisedUpTo, MetaIsPending, BlockIsPending
<1> QED
  BY <1>1, <1>4, <1>6, <1>7, <1>8, FileUnchanged DEF BufferHolds

LEMMA WriteSummaryKeepsIInv ==
  ASSUME IInv, WriteSummary
  PROVE  IInv'
<1> USE DEF IInv
<1>1. /\ pc = "prompt" /\ pc' = "flush" /\ UNCHANGED <<events, file>> /\ pi < Prompts
      /\ buffer' = Append(buffer, Summary(pi)) /\ pi' = pi + 1 /\ step' = 0
      /\ step = events[pi]
  BY DEF WriteSummary, EventsWritten
<1>2. /\ pi \in Nat /\ step \in Nat /\ buffer \in Seq(Line) /\ Summary(pi) \in Line
      /\ pi + 1 \in 0..Prompts /\ (pi + 1) - 1 = pi /\ pi + 1 > 0
  BY <1>1, TraceAssumption, LinesTyped DEF RunIsTyped
<1>3. EventsOf(pi, step) /\ EndsWhole(file) /\ SummarisedUpTo(pi)
  BY <1>1 DEF BufferHolds, SummariesAreInOrder
<1>4. /\ buffer' \in Seq(Line) /\ Len(buffer') = step + 1
      /\ \A s \in 1..step : buffer'[s] = Event(pi, s)
      /\ buffer'[step + 1] = Summary(pi)
  <2>1. Len(buffer) = step /\ \A s \in 1..step : buffer[s] = Event(pi, s)
    BY <1>3 DEF EventsOf
  <2> QED
    BY <1>1, <1>2, <2>1, AppendProperties
<1>5. RunIsTyped'
  BY <1>1, <1>2, <1>4 DEF RunIsTyped
<1>6. BlockIsPending'
  <2>1. events'[pi' - 1] = step /\ pi' - 1 = pi
    BY <1>1, <1>2
  <2> QED
    BY <1>1, <1>2, <1>3, <1>4, <2>1, FileUnchanged DEF BlockIsPending, BlockOf
<1>7. ~MetaIsPending'
  <2>1. ASSUME MetaIsPending'
        PROVE  FALSE
    <3>1. Len(buffer') = 1 /\ buffer'[1].type = "meta"
      BY <2>1 DEF MetaIsPending, MetaAlone
    <3>2. buffer'[1] = Summary(pi)
      BY <1>2, <1>4, <3>1
    <3> QED
      BY <3>1, <3>2 DEF Summary
  <2> QED
    BY <2>1
<1>8. SummarisedUpTo(pi - 1)'
  BY <1>1, <1>2, <1>3, FileUnchanged DEF SummarisedUpTo
<1> QED
  BY <1>1, <1>5, <1>6, <1>7, <1>8, FileUnchanged DEF BufferHolds, SummariesAreInOrder

-----------------------------------------------------------------------------
LEMMA FlushedEndsWhole ==
  ASSUME NEW f \in Seq(Line), NEW lines \in Seq(Line),
         EndsWhole(f) \/ MetaAlone(lines),
         Len(lines) \in Nat \ {0}, lines[Len(lines)] # Torn
  PROVE  EndsWhole(Appended(f, lines))
<1>1. Len(f) \in Nat
  BY LenProperties
<1>2. CASE EndsWhole(f)
  <2>1. /\ Len(Appended(f, lines)) = Len(f) + Len(lines)
        /\ Appended(f, lines)[Len(f) + Len(lines)] = lines[Len(lines)]
    BY <1>2, PlainAppend
  <2> QED
    BY <2>1 DEF EndsWhole
<1>3. CASE MetaAlone(lines) /\ ~EndsWhole(f)
  <2>1. Appended(f, lines)[Len(Appended(f, lines))] = Garbage
    BY <1>3, MetaMends
  <2> QED
    BY <2>1 DEF EndsWhole, Garbage, Torn
<1> QED
  BY <1>2, <1>3

\* The prompts with a summary, once lines have been written.
LEMMA SummarisedAfter ==
  ASSUME file \in Seq(Line), NEW lines \in Seq(Line), file' = Appended(file, lines),
         EndsWhole(file) \/ lines = <<>> \/ MetaAlone(lines)
  PROVE  Summarised' = Summarised
           \cup {p \in 0..(Prompts - 1) : Contains(lines, Summary(p))}
<1>1. \A p : Contains(file', Summary(p)) <=>
               Contains(file, Summary(p)) \/ Contains(lines, Summary(p))
  BY AppendedLines
<1> QED
  BY <1>1 DEF Summarised

LEMMA BufferIsWritable ==
  ASSUME IInv
  PROVE  EndsWhole(file) \/ buffer = <<>> \/ MetaAlone(buffer)
  BY DEF IInv, RunIsTyped, BufferHolds, MetaIsPending, BlockIsPending

LEMMA FlushKeepsIInv ==
  ASSUME IInv, Flush
  PROVE  IInv'
<1> USE DEF IInv
<1>1. /\ pc = "flush" /\ pc' = "prompt" /\ UNCHANGED <<events, pi, step>>
      /\ file' = Appended(file, buffer) /\ buffer' = <<>>
  BY DEF Flush
<1>2. /\ pi \in Nat /\ pi \in 0..Prompts /\ Prompts \in Nat /\ step = 0
      /\ file \in Seq(Line) /\ buffer \in Seq(Line)
      /\ EndsWhole(file) \/ buffer = <<>> \/ MetaAlone(buffer)
  BY <1>1, TraceAssumption, BufferIsWritable DEF RunIsTyped, BufferHolds
<1>3. file' \in Seq(Line) /\ Covered(file)'
  <2>1. Covered(buffer)
    BY BufferIsCovered
  <2>2. Appended(file, buffer) \in Seq(Line) /\ Covered(Appended(file, buffer))
    BY <1>2, <2>1, AppendedLines
  <2> QED
    BY <1>1, <2>2 DEF Covered
<1>4. RunIsTyped'
  BY <1>1, <1>3, EmptySeq DEF RunIsTyped
<1>5. MetaIsPending \/ BlockIsPending
  BY <1>1 DEF BufferHolds
<1>6. Len(buffer) \in Nat \ {0} /\ buffer[Len(buffer)] # Torn
      /\ (EndsWhole(file) \/ MetaAlone(buffer))
  <2>1. CASE MetaIsPending
    BY <2>1 DEF MetaIsPending, MetaAlone, Torn
  <2>2. CASE BlockIsPending
    <3>1. events[pi - 1] \in Nat
      BY <1>2, <2>2, TraceAssumption DEF RunIsTyped, BlockIsPending
    <3>2. Len(buffer) = events[pi - 1] + 1 /\ buffer[Len(buffer)] = Summary(pi - 1)
          /\ EndsWhole(file)
      BY <2>2 DEF BlockIsPending, BlockOf
    <3> QED
      BY <3>1, <3>2 DEF Summary, Torn
  <2> QED
    BY <1>5, <2>1, <2>2
<1>7. EndsWhole(file)'
  <2>1. EndsWhole(Appended(file, buffer))
    BY <1>2, <1>6, FlushedEndsWhole
  <2> QED
    BY <1>1, <2>1 DEF EndsWhole
<1>8. EventsOf(pi, step)'
  <2>1. Len(<<>>) = 0 /\ 1..0 = {}
    BY EmptySeq
  <2> QED
    BY <1>1, <1>2, <2>1 DEF EventsOf
<1>9. Summarised' = Summarised
        \cup {p \in 0..(Prompts - 1) : BlockIsPending /\ p = pi - 1}
  <2>1. \A p : Contains(buffer, Summary(p)) <=> BlockIsPending /\ p = pi - 1
    BY BufferIsCovered
  <2> QED
    BY <1>1, <1>2, <2>1, SummarisedAfter
<1>10. SummarisedUpTo(pi)'
  <2>1. CASE BlockIsPending
    <3>1. Summarised = 0..(pi - 2) /\ pi > 0
      <4>1. Summarised = 0..((pi - 1) - 1) /\ pi > 0
        BY <2>1 DEF SummariesAreInOrder, SummarisedUpTo, BlockIsPending
      <4> QED
        BY <1>2, <4>1
    <3>2. {p \in 0..(Prompts - 1) : BlockIsPending /\ p = pi - 1} = {pi - 1}
      BY <1>2, <2>1, <3>1
    <3>3. 0..(pi - 2) \cup {pi - 1} = 0..(pi - 1)
      BY <1>2, <3>1
    <3> QED
      BY <1>1, <1>9, <3>1, <3>2, <3>3 DEF SummarisedUpTo
  <2>2. CASE ~BlockIsPending
    <3>1. MetaIsPending /\ Summarised' = Summarised
      BY <1>5, <1>9, <2>2
    <3> QED
      BY <1>1, <3>1 DEF SummariesAreInOrder, SummarisedUpTo
  <2> QED
    BY <2>1, <2>2
<1> QED
  BY <1>1, <1>3, <1>4, <1>7, <1>8, <1>10
     DEF BufferHolds, SummariesAreInOrder, MetaIsPending, BlockIsPending

LEMMA CloseKeepsIInv ==
  ASSUME IInv, Close
  PROVE  IInv'
<1> USE DEF IInv
<1>1. /\ pc = "prompt" /\ pc' = "closed" /\ UNCHANGED <<events, pi, step>> /\ pi = Prompts
      /\ file' = Appended(file, buffer) /\ buffer' = <<>>
  BY DEF Close
<1>2. /\ file \in Seq(Line) /\ buffer \in Seq(Line)
      /\ EndsWhole(file) \/ buffer = <<>> \/ MetaAlone(buffer)
  BY BufferIsWritable DEF RunIsTyped
<1>3. file' \in Seq(Line) /\ Covered(file)'
  <2>1. Covered(buffer)
    BY BufferIsCovered
  <2>2. Appended(file, buffer) \in Seq(Line) /\ Covered(Appended(file, buffer))
    BY <1>2, <2>1, AppendedLines
  <2> QED
    BY <1>1, <2>2 DEF Covered
<1>4. RunIsTyped'
  BY <1>1, <1>3, EmptySeq DEF RunIsTyped
<1>5. Summarised' = Summarised
  <2>1. \A p : ~Contains(buffer, Summary(p))
    BY <1>1, BufferIsCovered DEF BlockIsPending
  <2> QED
    BY <1>1, <1>2, <2>1, SummarisedAfter
<1>6. SummarisedUpTo(pi)'
  BY <1>1, <1>5 DEF SummariesAreInOrder, SummarisedUpTo
<1> QED
  BY <1>1, <1>3, <1>4, <1>6
     DEF BufferHolds, SummariesAreInOrder, MetaIsPending, BlockIsPending

\* A death writes lines that can stand at the end of the file.
LEMMA CrashWrites ==
  ASSUME IInv, Crash
  PROVE  \E lines \in Seq(Line) :
           /\ file' = Appended(file, lines)
           /\ EndsWhole(file) \/ lines = <<>> \/ MetaAlone(lines)
           /\ Covered(buffer) => Covered(lines)
           /\ \A p : Contains(lines, Summary(p)) => Contains(buffer, Summary(p))
<1> USE DEF IInv
<1>1. pc \in {"open", "flush", "prompt"}
  BY DEF Crash
<1>2. PICK n \in 0..Len(buffer) : \E lines :
        /\ file' = Appended(file, lines)
        /\ \/ lines = SubSeq(buffer, 1, n)
           \/ /\ n < Len(buffer) /\ Len(buffer) > 1
              /\ lines = Append(SubSeq(buffer, 1, n), Torn)
  BY DEF Crash
<1>3. PICK lines :
        /\ file' = Appended(file, lines)
        /\ \/ lines = SubSeq(buffer, 1, n)
           \/ /\ n < Len(buffer) /\ Len(buffer) > 1
              /\ lines = Append(SubSeq(buffer, 1, n), Torn)
  BY <1>2
<1>4. /\ lines \in Seq(Line)
      /\ Covered(buffer) => Covered(lines)
      /\ MetaAlone(buffer) => lines = <<>> \/ MetaAlone(lines)
      /\ \A p : Contains(lines, Summary(p)) => Contains(buffer, Summary(p))
  BY <1>3, FlushedPart
<1>5. EndsWhole(file) \/ lines = <<>> \/ MetaAlone(lines)
  <2>1. CASE pc = "open"
    <3>1. buffer = <<>> /\ Len(buffer) = 0
      BY <2>1, EmptySeq DEF BufferHolds
    <3>2. lines = SubSeq(buffer, 1, 0)
      BY <1>3, <3>1
    <3> QED
      BY <3>2, SubSeqEmpty
  <2>2. CASE MetaIsPending
    BY <1>4, <2>2 DEF MetaIsPending
  <2>3. CASE BlockIsPending \/ pc = "prompt"
    BY <2>3 DEF BufferHolds, BlockIsPending
  <2> QED
    BY <1>1, <2>1, <2>2, <2>3 DEF BufferHolds
<1> QED
  BY <1>3, <1>4, <1>5

LEMMA CrashKeepsIInv ==
  ASSUME IInv, Crash
  PROVE  IInv'
<1> USE DEF IInv
<1>1. /\ pc \in {"open", "flush", "prompt"} /\ pc' = "dead"
      /\ UNCHANGED <<events, pi, step>> /\ buffer' = <<>>
  BY DEF Crash
<1>2. PICK lines \in Seq(Line) :
        /\ file' = Appended(file, lines)
        /\ EndsWhole(file) \/ lines = <<>> \/ MetaAlone(lines)
        /\ Covered(buffer) => Covered(lines)
        /\ \A p : Contains(lines, Summary(p)) => Contains(buffer, Summary(p))
  BY CrashWrites
<1>3. /\ pi \in Nat /\ pi \in 0..Prompts /\ Prompts \in Nat
      /\ file \in Seq(Line) /\ buffer \in Seq(Line)
  BY TraceAssumption DEF RunIsTyped
<1>4. file' \in Seq(Line) /\ Covered(file)'
  <2>1. Covered(lines)
    BY <1>2, BufferIsCovered
  <2>2. Appended(file, lines) \in Seq(Line) /\ Covered(Appended(file, lines))
    BY <1>2, <1>3, <2>1, AppendedLines
  <2> QED
    BY <1>1, <1>2, <2>2 DEF Covered
<1>5. RunIsTyped'
  BY <1>1, <1>4, EmptySeq DEF RunIsTyped
<1>6. \/ Summarised' = Summarised
      \/ BlockIsPending /\ Summarised' = Summarised \cup {pi - 1}
  <2> DEFINE new == {p \in 0..(Prompts - 1) : Contains(lines, Summary(p))}
  <2>1. Summarised' = Summarised \cup new
    BY <1>2, <1>3, SummarisedAfter
  <2>2. \A p \in new : BlockIsPending /\ p = pi - 1
    BY <1>2, BufferIsCovered
  <2>3. new = {} \/ (BlockIsPending /\ new = {pi - 1})
    BY <2>2
  <2> QED
    BY <2>1, <2>3
<1>7. \E m \in 0..Prompts : Summarised' = 0..(m - 1)
  <2>1. CASE BlockIsPending
    <3>1. Summarised = 0..((pi - 1) - 1) /\ pi > 0
      BY <2>1 DEF SummariesAreInOrder, SummarisedUpTo, BlockIsPending
    <3>2. pi - 1 \in 0..Prompts /\ 0..((pi - 1) - 1) \cup {pi - 1} = 0..(pi - 1)
      BY <1>3, <3>1
    <3> QED
      BY <1>3, <1>6, <3>1, <3>2
  <2>2. CASE ~BlockIsPending
    <3>1. Summarised = 0..(pi - 1)
      BY <1>1, <2>2 DEF SummariesAreInOrder, SummarisedUpTo, BufferHolds
    <3> QED
      BY <1>3, <1>6, <2>2, <3>1
  <2> QED
    BY <2>1, <2>2
<1> QED
  BY <1>1, <1>4, <1>5, <1>7
     DEF BufferHolds, SummariesAreInOrder, MetaIsPending, BlockIsPending, SummarisedUpTo

\* Counting the summaries of a file that holds the first n prompts gives n.
LEMMA ResumeKeepsIInv ==
  ASSUME IInv, Resume
  PROVE  IInv'
<1> USE DEF IInv
<1>1. /\ pc = "dead" /\ pc' = "open" /\ UNCHANGED <<events, file, buffer>>
      /\ pi' = Cardinality(Summarised) /\ step' = 0
  BY DEF Resume, PromptsDone
<1>2. PICK n \in 0..Prompts : Summarised = 0..(n - 1)
  BY <1>1 DEF SummariesAreInOrder, SummarisedUpTo
<1>3. Cardinality(0..(n - 1)) = n
  <2>1. n \in Int /\ 0 \in Int /\ n - 1 \in Int
    BY TraceAssumption
  <2>2. Cardinality(0..(n - 1)) = IF 0 > n - 1 THEN 0 ELSE (n - 1) - 0 + 1
    BY <2>1, FS_Interval
  <2> QED
    BY <2>1, <2>2, TraceAssumption
<1>4. pi' = n /\ SummarisedUpTo(pi)'
  BY <1>1, <1>2, <1>3, FileUnchanged DEF SummarisedUpTo
<1>5. RunIsTyped'
  BY <1>1, <1>4 DEF RunIsTyped
<1> QED
  BY <1>1, <1>4, <1>5, FileUnchanged
     DEF BufferHolds, SummariesAreInOrder, MetaIsPending, BlockIsPending

LEMMA StutterKeepsIInv ==
  ASSUME IInv, UNCHANGED vars
  PROVE  IInv'
  BY DEF vars, IInv, RunIsTyped, Covered, BufferHolds, EventsOf, BlockOf, MetaAlone, EndsWhole,
         MetaIsPending, BlockIsPending, SummariesAreInOrder, SummarisedUpTo, Summarised

LEMMA StepKeepsIInv == IInv /\ [Next]_vars => IInv'
  BY WriteMetaKeepsIInv, FlushKeepsIInv, WriteEventKeepsIInv, WriteSummaryKeepsIInv,
     CloseKeepsIInv, CrashKeepsIInv, ResumeKeepsIInv, StutterKeepsIInv DEF Next

\* The inductive invariant of the trace file.
THEOREM Invariance == Spec => []IInv
  BY InitEstablishesIInv, StepKeepsIInv, PTL DEF Spec

-----------------------------------------------------------------------------
\* However many runs died, the prompts behind a run have their summaries in the
\* file: a death loses the prompt in progress at most (spec_trace.py:584).
THEOREM Survival == Spec => []FinishedPromptsSurvive
<1>1. IInv => FinishedPromptsSurvive
  BY DEF IInv, SummariesAreInOrder, SummarisedUpTo, FinishedPromptsSurvive
<1> QED
  BY <1>1, Invariance, PTL

\* A summary in the file vouches for all the events of its prompt, for files that
\* any number of runs have written and torn.
THEOREM SummariesVouch == Spec => []SummaryCoversEvents
<1>1. IInv => SummaryCoversEvents
  BY DEF IInv, Covered, SummaryCoversEvents
<1> QED
  BY <1>1, Invariance, PTL

\* A run that closes its file leaves every event of every prompt in it.
THEOREM Completeness == Spec => []NothingIsSkipped
<1>1. IInv => NothingIsSkipped
  <2> SUFFICES ASSUME IInv, pc = "closed", NEW p \in 0..(Prompts - 1),
                      NEW s \in 1..events[p]
               PROVE  Contains(file, Event(p, s))
    BY DEF NothingIsSkipped
  <2>1. p \in Summarised
    BY DEF IInv, SummariesAreInOrder, SummarisedUpTo
  <2>2. PICK n \in 1..Len(file) : file[n] = Summary(p)
    BY <2>1 DEF Summarised, Contains
  <2>3. file[n].type = "summary" /\ file[n].prompt = p
    BY <2>2 DEF Summary
  <2>4. PICK k \in 1..(n - 1) : file[k] = Event(p, s)
    BY <2>3 DEF IInv, Covered
  <2>5. k \in 1..Len(file)
    <3>1. Len(file) \in Nat
      BY LenProperties DEF IInv, RunIsTyped
    <3> QED
      BY <3>1
  <2> QED
    BY <2>4, <2>5 DEF Contains
<1> QED
  BY <1>1, Invariance, PTL

\* No step of a run, of a death or of a resumed run damages a readable line
\* (spec_trace.py:470: the file is opened to append).
THEOREM Preservation == Spec => LinesAreKept
<1> DEFINE Kept ==
      \A n \in 1..Len(file) : Readable(file[n]) => n <= Len(file') /\ file'[n] = file[n]
<1>1. IInv /\ [Next]_vars => [Kept]_vars
  <2> SUFFICES ASSUME IInv, [Next]_vars
               PROVE  Kept
    OBVIOUS
  <2>1. file \in Seq(Line) /\ buffer \in Seq(Line) /\ Len(file) \in Nat
    BY LenProperties DEF IInv, RunIsTyped
  <2>2. CASE UNCHANGED file
    BY <2>1, <2>2
  <2>3. CASE Flush \/ Close
    <3>1. file' = Appended(file, buffer)
      BY <2>3 DEF Flush, Close
    <3> QED
      BY <2>1, <3>1, BufferIsWritable, AppendedLines
  <2>4. CASE Crash
    <3>1. PICK lines \in Seq(Line) : /\ file' = Appended(file, lines)
                                     /\ EndsWhole(file) \/ lines = <<>> \/ MetaAlone(lines)
      BY <2>4, CrashWrites
    <3> QED
      BY <2>1, <3>1, AppendedLines
  <2> QED
    BY <2>2, <2>3, <2>4
       DEF Next, vars, WriteMeta, Opened, WriteEvent, WriteSummary, Resume
<1> QED
  BY <1>1, Invariance, PTL DEF Spec, LinesAreKept
=============================================================================
