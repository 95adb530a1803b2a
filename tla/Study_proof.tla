----------------------------- MODULE Study_proof -----------------------------
(***************************************************************************)
(* Proofs about the study of trace_core.py, in two parts.                  *)
(*                                                                         *)
(* The prompt loop, for every draft function, target, prompt and           *)
(* instrumentation (Spec of PromptLoop): the two invariants every          *)
(* measurement rests on, that the cache holds the committed tokens but the *)
(* last and that the output is the target's greedy continuation, and then  *)
(* the measurements themselves.                                            *)
(*                                                                         *)
(* The study (StudySpec) is a run of the prompt loop and of the draft      *)
(* session, for every draft model, with the draft cache and without it,    *)
(* cross-checked or not; so what the prompt loop promises of its cache,    *)
(* its output and its measurements holds of the study, and the draft that  *)
(* was measured is the draft model's own.                                  *)
(***************************************************************************)
EXTENDS Study, GreedyPathTheorems

(***************************************************************************)
(* Sequences that are a front and a last element.                          *)
(***************************************************************************)
LEMMA FrontAndLast ==
  ASSUME NEW S, NEW s \in Seq(S), s # <<>>
  PROVE  /\ Front(s) \in Seq(S) /\ Len(Front(s)) = Len(s) - 1
         /\ Len(s) \in Nat \ {0}
         /\ <<Last(s)>> \in Seq(S) /\ Len(<<Last(s)>>) = 1
         /\ Front(s) \o <<Last(s)>> = s
<1> DEFINE n == Len(s)
           front == SubSeq(s, 1, n - 1)
           last == <<s[n]>>
<1>1. n \in Nat /\ n # 0
  BY LenProperties, EmptySeq
<1>2. front \in Seq(S) /\ Len(front) = n - 1 /\ \A i \in 1..(n - 1) : front[i] = s[i]
  <2>1. n - 1 \in 0..Len(s)
    BY <1>1
  <2> QED
    BY <2>1, PrefixProperties
<1>3. last \in Seq(S) /\ Len(last) = 1 /\ last[1] = s[n]
  <2>1. s[n] \in S
    BY <1>1, ElementOfSeq
  <2> QED
    BY <2>1
<1> HIDE DEF front, last
<1>4. /\ front \o last \in Seq(S) /\ Len(front \o last) = Len(front) + Len(last)
      /\ \A i \in 1..(Len(front) + Len(last)) :
           (front \o last)[i] = IF i <= Len(front) THEN front[i] ELSE last[i - Len(front)]
  BY <1>2, <1>3, ConcatProperties
<1> DEFINE w == front \o last
<1> HIDE DEF w, n
<1>5. /\ w \in Seq(S) /\ Len(w) = n
      /\ \A i \in 1..n : w[i] = IF i <= n - 1 THEN front[i] ELSE last[i - (n - 1)]
  BY <1>1, <1>2, <1>3, <1>4 DEF w
<1>6. \A i \in 1..n : w[i] = s[i]
  <2> SUFFICES ASSUME NEW i \in 1..n PROVE w[i] = s[i]
    OBVIOUS
  <2>1. CASE i <= n - 1
    BY <1>1, <1>2, <1>5, <2>1
  <2>2. CASE i = n
    <3>1. i - (n - 1) = 1 /\ ~(i <= n - 1)
      BY <1>1, <2>2
    <3> QED
      BY <1>3, <1>5, <2>2, <3>1
  <2> QED
    BY <1>1, <2>1, <2>2
<1>7. w = s
  BY <1>5, <1>6, SeqEqual DEF n
<1> QED
  BY <1>1, <1>2, <1>3, <1>7 DEF Front, Last, front, last, w, n

\* A slice from behind a prefix.
LEMMA DropOfConcat ==
  ASSUME NEW p \in Seq(Token), NEW g \in Seq(Token)
  PROVE  Drop(p \o g, Len(p)) = g
<1> DEFINE w == p \o g
           m == Len(p)
           n == Len(g)
           rest == SubSeq(w, m + 1, Len(w))
<1>1. m \in Nat /\ n \in Nat
  BY LenProperties
<1>2. /\ w \in Seq(Token) /\ Len(w) = m + n
      /\ \A i \in 1..(m + n) : w[i] = IF i <= m THEN p[i] ELSE g[i - m]
  BY ConcatProperties
<1> HIDE DEF w
<1>3. rest \in Seq(Token) /\ Len(rest) = n /\ \A i \in 1..n : rest[i] = w[m + i]
  <2>1. \A i \in (m + 1)..(m + n) : w[i] \in Token
    <3>1. \A i \in (m + 1)..(m + n) : i \in 1..Len(w)
      BY <1>1, <1>2
    <3> QED
      BY <1>2, <3>1, ElementOfSeq
  <2> QED
    BY <1>1, <1>2, <2>1, SubSeqProperties
<1> HIDE DEF rest, m, n
<1>4. \A i \in 1..n : rest[i] = g[i]
  <2> SUFFICES ASSUME NEW i \in 1..n PROVE rest[i] = g[i]
    OBVIOUS
  <2>1. m + i \in 1..(m + n) /\ ~(m + i <= m) /\ (m + i) - m = i
    BY <1>1
  <2> QED
    BY <1>2, <1>3, <2>1
<1>5. rest = g
  BY <1>3, <1>4, SeqEqual DEF n
<1> QED
  BY <1>5 DEF Drop, rest, w, m
\* Concatenations may be regrouped.
LEMMA Regrouped == \A S : \A p, s, u \in Seq(S) : p \o (s \o u) = (p \o s) \o u
BY ConcatAssociative
-----------------------------------------------------------------------------
(***************************************************************************)
(* The target session between two calls of the loop.                       *)
(***************************************************************************)
Between(c) == [cache |-> Front(c), cache_len |-> Len(c) - 1]

\* What a call with block b feeds it.
Fed(c, b) == <<Last(c)>> \o b

\* Feeding the last committed token and a block completes the cache by both.
LEMMA ForwardFromCommitted ==
  ASSUME NEW S, NEW c \in Seq(S), c # <<>>, NEW b \in Seq(S)
  PROVE  Forward(Between(c), <<Last(c)>> \o b) = [cache |-> c \o b, cache_len |-> Len(c) + Len(b)]
<1> DEFINE last == <<Last(c)>>
<1>1. /\ Front(c) \in Seq(S) /\ last \in Seq(S) /\ Len(last) = 1
      /\ Front(c) \o last = c /\ Len(c) \in Nat
  BY FrontAndLast
<1> HIDE DEF last
<1>2. Front(c) \o (last \o b) = c \o b
  <2>0. \A p, s, u \in Seq(S) : p \o (s \o u) = (p \o s) \o u
    BY Regrouped
  <2>1. Front(c) \o (last \o b) = (Front(c) \o last) \o b
    BY ONLY <1>1, b \in Seq(S), <2>0
  <2> QED
    BY <1>1, <2>1
<1>3. (Len(c) - 1) + Len(last \o b) = Len(c) + Len(b)
  <2>1. Len(last \o b) = Len(last) + Len(b) /\ Len(b) \in Nat
    BY <1>1, ConcatProperties, LenProperties
  <2> QED
    BY <1>1, <2>1
<1> QED
  BY <1>2, <1>3 DEF Forward, Between, last

\* Each row is the target's choice behind the committed tokens and the part of
\* the block before it.
LEMMA RowsOfCommitted ==
  ASSUME NEW t, NEW c \in Seq(Token), c # <<>>, NEW b \in Seq(Token),
         NEW rows \in Rows(t, Between(c), Fed(c, b))
  PROVE  /\ rows \in Seq(Token) /\ Len(rows) = Len(b) + 1 /\ Len(b) \in Nat
         /\ \A i \in 1..(Len(b) + 1) : rows[i] \in Greedy(t, c \o SubSeq(b, 1, i - 1))
<1> DEFINE last == <<Last(c)>>
           ids  == last \o b
           n    == Len(b)
<1>1. /\ Front(c) \in Seq(Token) /\ last \in Seq(Token) /\ Len(last) = 1
      /\ Front(c) \o last = c /\ Len(c) \in Nat /\ Len(Front(c)) = Len(c) - 1
  BY FrontAndLast
<1> HIDE DEF last
<1>2. ids \in Seq(Token) /\ Len(ids) = n + 1 /\ n \in Nat
  <2>1. ids \in Seq(Token) /\ Len(ids) = Len(last) + Len(b) /\ Len(b) \in Nat
    BY <1>1, ConcatProperties, LenProperties
  <2> QED
    BY <1>1, <2>1
<1>3. /\ rows \in [1..Len(ids) -> Token]
      /\ \A i \in 1..Len(ids) : rows[i] \in Row(t, Between(c), SubSeq(ids, 1, i))
  BY DEF Rows, Fed, last
<1> HIDE DEF ids, n
<1>4. ASSUME NEW i \in 1..(n + 1)
      PROVE  Front(c) \o SubSeq(ids, 1, i) = c \o SubSeq(b, 1, i - 1)
  <2> DEFINE part == SubSeq(b, 1, i - 1)
  <2>1. i - 1 \in 0..Len(b) /\ Len(last) + (i - 1) = i
    BY <1>1, <1>2 DEF n
  <2>2. SubSeq(ids, 1, Len(last) + (i - 1)) = last \o part
    BY <1>1, <2>1, PrefixOfConcatRight DEF ids
  <2>3. part \in Seq(Token)
    BY <2>1, PrefixProperties
  <2> HIDE DEF part
  <2>4. Front(c) \o (last \o part) = (Front(c) \o last) \o part
    BY ONLY <1>1, <2>3, ExtendedPrefix
  <2> QED
    BY <1>1, <2>1, <2>2, <2>4 DEF part
<1>5. \A fed : Row(t, Between(c), fed) = Greedy(t, Front(c) \o fed)
  BY <1>1 DEF Row, Between
<1>6. \A i \in 1..(n + 1) : rows[i] \in Greedy(t, c \o SubSeq(b, 1, i - 1))
  BY <1>2, <1>3, <1>4, <1>5
<1>7. rows \in Seq(Token) /\ Len(rows) = n + 1
  <2>1. n + 1 \in Nat
    BY <1>2
  <2> QED
    BY <1>2, <1>3, <2>1
<1> QED
  BY <1>2, <1>6, <1>7 DEF n

\* The tokens s a verified block adds: greedy behind the committed tokens, and
\* repeating the block up to their last.
GreedyBlock(t, c, b, a, s) ==
  /\ s \in Seq(Token) /\ Len(s) = a + 1
  /\ GreedyPath(t, c, s)
  /\ \A k \in 0..a : SubSeq(s, 1, k) = SubSeq(b, 1, k)

LEMMA AddedIsGreedy ==
  ASSUME NEW t, NEW c \in Seq(Token), c # <<>>, NEW b \in Seq(Token),
         NEW rows \in Rows(t, Between(c), Fed(c, b)),
         NEW a \in 0..Len(b), IsCommonPrefixLength(b, Front(rows), a)
  PROVE  GreedyBlock(t, c, b, a, Added(b, a, rows))
<1> DEFINE accepted == SubSeq(b, 1, a)
           token    == <<rows[a + 1]>>
           added    == accepted \o token
           n        == Len(b)
<1>1. /\ rows \in Seq(Token) /\ Len(rows) = n + 1 /\ n \in Nat
      /\ \A i \in 1..(n + 1) : rows[i] \in Greedy(t, c \o SubSeq(b, 1, i - 1))
  BY RowsOfCommitted
<1>2. a \in 0..n /\ a + 1 \in 1..(n + 1)
  BY <1>1
<1>3. \A i \in 1..a : b[i] = rows[i]
  <2>1. \A i \in 1..a : b[i] = Front(rows)[i]
    BY DEF IsCommonPrefixLength
  <2>2. n \in 0..Len(rows) /\ Len(rows) - 1 = n
    BY <1>1
  <2>3. \A i \in 1..n : Front(rows)[i] = rows[i]
    BY <1>1, <2>2, PrefixProperties DEF Front
  <2>4. \A i \in 1..a : i \in 1..n
    BY <1>1, <1>2
  <2> QED
    BY <2>1, <2>3, <2>4
<1>4. accepted \in Seq(Token) /\ Len(accepted) = a /\ \A i \in 1..a : accepted[i] = b[i]
  BY PrefixProperties
<1>5. token \in Seq(Token) /\ Len(token) = 1 /\ token[1] = rows[a + 1]
  <2>1. rows[a + 1] \in Token
    BY <1>1, <1>2, ElementOfSeq
  <2> QED
    BY <2>1
<1> HIDE DEF accepted, token
<1>6. /\ added \in Seq(Token) /\ Len(added) = Len(accepted) + Len(token)
      /\ \A i \in 1..(Len(accepted) + Len(token)) :
           added[i] = IF i <= Len(accepted) THEN accepted[i] ELSE token[i - Len(accepted)]
  BY <1>4, <1>5, ConcatProperties
<1>7. \A k \in 0..a : SubSeq(added, 1, k) = SubSeq(b, 1, k)
  <2> SUFFICES ASSUME NEW k \in 0..a PROVE SubSeq(added, 1, k) = SubSeq(b, 1, k)
    OBVIOUS
  <2>1. SubSeq(added, 1, k) = SubSeq(accepted, 1, k)
    BY <1>4, <1>5, PrefixOfConcatLeft
  <2>2. SubSeq(accepted, 1, k) = SubSeq(b, 1, k)
    BY PrefixOfPrefix DEF accepted
  <2> QED
    BY <2>1, <2>2
<1> HIDE DEF added, n
<1>8. Len(added) = a + 1 /\ \A i \in 1..(a + 1) : added[i] = rows[i]
  <2>1. a \in Nat
    BY <1>1, <1>2
  <2>2. Len(added) = a + 1
    BY <1>4, <1>5, <1>6
  <2>3. \A i \in 1..(a + 1) : added[i] = IF i <= a THEN accepted[i] ELSE token[i - a]
    BY <1>4, <1>5, <1>6
  <2>4. ASSUME NEW i \in 1..(a + 1) PROVE added[i] = rows[i]
    <3>1. CASE i <= a
      <4>1. i \in 1..a
        BY <2>1, <3>1
      <4> QED
        BY <1>3, <1>4, <2>3, <4>1
    <3>2. CASE ~(i <= a)
      <4>1. i = a + 1 /\ i - a = 1
        BY <2>1, <3>2
      <4> QED
        BY <1>5, <2>3, <3>2, <4>1
    <3> QED
      BY <3>1, <3>2
  <2> QED
    BY <2>2, <2>4
<1>9. GreedyPath(t, c, added)
  <2>1. ASSUME NEW i \in 1..(a + 1)
        PROVE  added[i] \in Greedy(t, c \o SubSeq(added, 1, i - 1))
    <3>1. i \in 1..(n + 1) /\ i - 1 \in 0..a
      BY <1>1, <1>2
    <3> QED
      BY <1>1, <1>7, <1>8, <3>1
  <2> QED
    BY <1>8, <2>1 DEF GreedyPath
<1> QED
  BY <1>6, <1>7, <1>8, <1>9 DEF GreedyBlock, Added, added, accepted, token

\* What is left of the cache when part of the block stays committed.
LEMMA CropOfCommitted ==
  ASSUME NEW c \in Seq(Token), c # <<>>, NEW b \in Seq(Token), NEW k \in 0..Len(b)
  PROVE  CropTo(Forward(Between(c), Fed(c, b)), Len(c) + k)
           = [cache |-> c \o SubSeq(b, 1, k), cache_len |-> Len(c) + k]
<1>1. Len(c) \in Nat /\ Len(b) \in Nat /\ Len(c \o b) = Len(c) + Len(b)
  BY ConcatProperties, LenProperties
<1>2. Take(c \o b, Len(c) + k) = SubSeq(c \o b, 1, Len(c) + k)
  <2>1. (IF Len(c) + k < Len(c \o b) THEN Len(c) + k ELSE Len(c \o b)) = Len(c) + k
    BY ONLY <1>1, k \in 0..Len(b), SMT
  <2> QED
    BY ONLY <2>1 DEF Take
<1>3. SubSeq(c \o b, 1, Len(c) + k) = c \o SubSeq(b, 1, k)
  BY PrefixOfConcatRight
<1>4. Forward(Between(c), Fed(c, b)) = [cache |-> c \o b, cache_len |-> Len(c) + Len(b)]
  BY ForwardFromCommitted DEF Fed
<1>5. CropTo([cache |-> c \o b, cache_len |-> Len(c) + Len(b)], Len(c) + k)
        = [cache |-> c \o SubSeq(b, 1, k), cache_len |-> Len(c) + k]
  BY <1>2, <1>3 DEF CropTo
<1> QED
  BY <1>4, <1>5

\* A branch pass leaves the session as it found it, whatever it feeds.
LEMMA BranchLeavesNoTrace ==
  ASSUME NEW S, NEW c \in Seq(S), c # <<>>, NEW b \in Seq(S)
  PROVE  BranchVerified(Between(c), Last(c), b) = Between(c)
<1>1. Forward(Between(c), <<Last(c)>> \o b) = [cache |-> c \o b, cache_len |-> Len(c) + Len(b)]
  BY ForwardFromCommitted
<1>2. /\ Len(c) \in Nat \ {0} /\ Len(b) \in Nat /\ Len(c \o b) = Len(c) + Len(b)
  BY FrontAndLast, ConcatProperties, LenProperties
<1>3. Take(c \o b, Len(c) - 1) = Front(c)
  <2>1. (IF Len(c) - 1 < Len(c \o b) THEN Len(c) - 1 ELSE Len(c \o b)) = Len(c) - 1
    BY ONLY <1>2, SMT
  <2>2. Take(c \o b, Len(c) - 1) = SubSeq(c \o b, 1, Len(c) - 1)
    BY ONLY <2>1 DEF Take
  <2>3. Len(c) - 1 \in 0..Len(c)
    BY <1>2
  <2> QED
    BY <2>2, <2>3, PrefixOfConcatLeft DEF Front
<1>4. Between(c).cache_len = Len(c) - 1
  BY DEF Between
<1>5. CropTo([cache |-> c \o b, cache_len |-> Len(c) + Len(b)], Len(c) - 1) = Between(c)
  BY <1>3 DEF CropTo, Between
<1> QED
  BY <1>1, <1>4, <1>5 DEF BranchVerified

\* The tokens after the commit of the first k tokens a verified block adds.
Committed(c, b, rows, a, k) == c \o Take(Added(b, a, rows), k)

\* Tokens w and session s that follow c: the new tokens are greedy behind the
\* old, and all tokens but the last are in the cache.
Extends(t, c, w, s) ==
  /\ \E piece \in Seq(Token) : w = c \o piece /\ GreedyPath(t, c, piece)
  /\ w # <<>>
  /\ s = Between(w)

LEMMA CommitCrops ==
  ASSUME NEW t, NEW c \in Seq(Token), c # <<>>, NEW b \in Seq(Token),
         NEW rows \in Rows(t, Between(c), Fed(c, b)),
         NEW a \in 0..Len(b), IsCommonPrefixLength(b, Front(rows), a), NEW k \in 1..(a + 1)
  PROVE  Extends(t, c, Committed(c, b, rows, a, k),
                 CropAfterCommit(Forward(Between(c), Fed(c, b)), Committed(c, b, rows, a, k), a))
<1> DEFINE added == Added(b, a, rows)
           piece == SubSeq(added, 1, k)
           w     == Committed(c, b, rows, a, k)
<1>1. /\ added \in Seq(Token) /\ Len(added) = a + 1
      /\ GreedyPath(t, c, added)
      /\ \A n \in 0..a : SubSeq(added, 1, n) = SubSeq(b, 1, n)
  <2>1. GreedyBlock(t, c, b, a, added)
    BY AddedIsGreedy
  <2> QED
    BY <2>1 DEF GreedyBlock
<1>2. /\ a \in Nat /\ Len(b) \in Nat /\ Len(c) \in Nat
      /\ k \in 0..Len(added) /\ k - 1 \in 0..a /\ k - 1 \in 0..Len(b) /\ k - 1 \in 0..k
  <2>1. Len(b) \in Nat /\ Len(c) \in Nat
    BY LenProperties
  <2> QED
    BY <1>1, <2>1
<1> HIDE DEF added
<1>3. Take(added, k) = piece
  <2>1. (IF k < Len(added) THEN k ELSE Len(added)) = k
    BY <1>2
  <2> QED
    BY <2>1 DEF Take
<1>4. /\ piece \in Seq(Token) /\ Len(piece) = k
      /\ SubSeq(piece, 1, k - 1) = SubSeq(b, 1, k - 1)
      /\ GreedyPath(t, c, piece)
  <2>1. piece \in Seq(Token) /\ Len(piece) = k
    BY <1>1, <1>2, PrefixProperties
  <2>2. SubSeq(piece, 1, k - 1) = SubSeq(added, 1, k - 1)
    BY <1>1, <1>2, PrefixOfPrefix
  <2>3. GreedyPath(t, c, piece)
    BY <1>1, <1>2, GreedyPathPrefix
  <2> QED
    BY <1>1, <1>2, <2>1, <2>2, <2>3
<1> HIDE DEF piece
<1>5. w = c \o piece
  BY <1>3 DEF added, Committed
<1> HIDE DEF w
<1>6. w \in Seq(Token) /\ Len(w) = Len(c) + k /\ w # <<>>
  <2>1. w \in Seq(Token) /\ Len(w) = Len(c) + k
    BY <1>4, <1>5, ConcatProperties
  <2>2. Len(w) # 0
    BY <1>2, <2>1
  <2>3. w # <<>>
    BY <2>2
  <2> QED
    BY <2>1, <2>3
<1>7. CropAfterCommit(Forward(Between(c), Fed(c, b)), w, a) = Between(w)
  <2>1. Len(w) - 1 = Len(c) + (k - 1)
    BY <1>2, <1>6
  <2>2. CropTo(Forward(Between(c), Fed(c, b)), Len(c) + (k - 1))
          = [cache |-> c \o SubSeq(b, 1, k - 1), cache_len |-> Len(c) + (k - 1)]
    BY <1>2, CropOfCommitted
  <2>3. SubSeq(c \o piece, 1, Len(c) + (k - 1)) = c \o SubSeq(piece, 1, k - 1)
    BY <1>2, <1>4, PrefixOfConcatRight
  <2>4. Front(w) = c \o SubSeq(b, 1, k - 1)
    BY <1>4, <1>5, <2>1, <2>3 DEF Front
  <2> QED
    BY <2>1, <2>2, <2>4 DEF Between, CropAfterCommit
<1> QED
  BY <1>4, <1>5, <1>6, <1>7 DEF w, Extends

(***************************************************************************)
(* Tokens c and session s, between two calls for target t and prompt p.    *)
(***************************************************************************)
OnPath(t, p, c, s) ==
  /\ c \in Seq(Token) /\ c # <<>>
  /\ s = Between(c)
  /\ \E g \in Seq(Token) : c = p \o g /\ GreedyPath(t, p, g)

LEMMA CommitKeeps ==
  ASSUME NEW t, NEW p \in Seq(Token), NEW c, NEW s, OnPath(t, p, c, s), NEW b \in Seq(Token),
         NEW rows \in Rows(t, s, Fed(c, b)),
         NEW a \in 0..Len(b), IsCommonPrefixLength(b, Front(rows), a), NEW k \in 1..(a + 1)
  PROVE  OnPath(t, p, Committed(c, b, rows, a, k),
                CropAfterCommit(Forward(s, Fed(c, b)), Committed(c, b, rows, a, k), a))
<1> DEFINE w == Committed(c, b, rows, a, k)
<1>1. c \in Seq(Token) /\ c # <<>> /\ s = Between(c)
  BY DEF OnPath
<1>2. /\ \E piece \in Seq(Token) : w = c \o piece /\ GreedyPath(t, c, piece)
      /\ w # <<>>
      /\ CropAfterCommit(Forward(s, Fed(c, b)), w, a) = Between(w)
  <2>1. Extends(t, c, w, CropAfterCommit(Forward(s, Fed(c, b)), w, a))
    BY <1>1, CommitCrops
  <2> QED
    BY <2>1 DEF Extends
<1> HIDE DEF w
<1>3. PICK g \in Seq(Token) : c = p \o g /\ GreedyPath(t, p, g)
  BY DEF OnPath
<1>4. PICK piece \in Seq(Token) : w = c \o piece /\ GreedyPath(t, c, piece)
  BY <1>2
<1>5. w \in Seq(Token)
  BY <1>1, <1>4, ConcatProperties
<1>6. g \o piece \in Seq(Token) /\ w = p \o (g \o piece) /\ GreedyPath(t, p, g \o piece)
  <2>1. p \o (g \o piece) = (p \o g) \o piece
    BY ExtendedPrefix
  <2>2. g \o piece \in Seq(Token)
    BY ConcatProperties
  <2>3. GreedyPath(t, p, g \o piece)
    BY <1>3, <1>4, GreedyPathConcat
  <2> QED
    BY <1>3, <1>4, <2>1, <2>2, <2>3
<1> QED
  BY <1>2, <1>5, <1>6 DEF OnPath, w
-----------------------------------------------------------------------------
(***************************************************************************)
(* The inductive invariant.  Neither of the two properties is inductive:   *)
(* what the verification reads is only the target's choice because the     *)
(* cache is right, and the cache is only right after the commit because    *)
(* the committed tokens repeat the block up to their last.                 *)
(***************************************************************************)
LInv ==
  /\ job \in Jobs
  /\ block \in Seq(Token) /\ acceptance \in Nat
  /\ OnPath(job.target, job.prompt, committed, session)

LEMMA InitInv == Init => LInv
<1> SUFFICES ASSUME Init PROVE LInv
  OBVIOUS
<1>1. /\ job \in Jobs /\ committed = job.prompt /\ block = <<>> /\ acceptance = 0
      /\ session = Prefill(Front(job.prompt))
  BY DEF Init
<1>2. committed \in Seq(Token) /\ committed # <<>>
  BY <1>1, JobsAreTyped
<1>3. session = Between(committed)
  <2>1. Front(committed) \in Seq(Token) /\ Len(Front(committed)) = Len(committed) - 1
        /\ Len(committed) \in Nat
    BY <1>2, FrontAndLast
  <2>2. <<>> \o Front(committed) = Front(committed)
    BY <2>1, ConcatEmptySeq
  <2>3. 0 + Len(Front(committed)) = Len(committed) - 1
    BY <2>1
  <2> QED
    BY <1>1, <2>2, <2>3 DEF Prefill, Forward, NewSession, Between
<1>4. <<>> \in Seq(Token) /\ committed = job.prompt \o <<>>
      /\ GreedyPath(job.target, job.prompt, <<>>)
  BY <1>1, <1>2, ConcatEmptySeq DEF GreedyPath
<1> QED
  BY <1>1, <1>2, <1>3, <1>4 DEF LInv, OnPath

\* A block drafted for the loop is a sequence of tokens.
LEMMA DraftKeeps ==
  ASSUME LInv, Draft PROVE LInv'
<1>1. block' \in Blocks /\ UNCHANGED <<job, committed, session, acceptance>>
  BY DEF Draft, DraftOf
<1>2. job.gamma \in Nat
  BY JobsAreTyped DEF LInv, OnPath
<1>3. block' \in Seq(Token)
  <2>1. CASE block' = <<>>
    BY <2>1
  <2>2. CASE block' # <<>>
    <3>1. PICK n \in 1..job.gamma : block' \in [1..n -> Token]
      BY <1>1, <2>2 DEF Blocks
    <3>2. n \in Nat
      BY <1>2, <3>1
    <3> QED
      BY <3>1, <3>2
  <2> QED
    BY <2>1, <2>2
<1> QED
  BY <1>1, <1>3 DEF LInv, OnPath

\* The commit of a verified block.
LEMMA VerifyKeeps ==
  ASSUME LInv, Verify PROVE LInv'
<1>1. /\ job \in Jobs /\ job.prompt \in Seq(Token) /\ block \in Seq(Token)
      /\ OnPath(job.target, job.prompt, committed, session)
  BY JobsAreTyped DEF LInv
<1>2. PICK rows \in Rows(job.target, session, Fed(committed, block)), a \in 0..Len(block) :
        /\ IsCommonPrefixLength(block, Front(rows), a) /\ acceptance' = a
        /\ \E k \in 1..(a + 1) :
             /\ committed' = Committed(committed, block, rows, a, k)
             /\ session' = CropAfterCommit(Forward(session, Fed(committed, block)),
                                           committed', a)
  BY DEF Verify, lastToken, Fed, Committed
<1>3. PICK k \in 1..(a + 1) :
        /\ committed' = Committed(committed, block, rows, a, k)
        /\ session' = CropAfterCommit(Forward(session, Fed(committed, block)), committed', a)
  BY <1>2
<1>4. IsCommonPrefixLength(block, Front(rows), a)
  BY <1>2
<1>5. OnPath(job.target, job.prompt, Committed(committed, block, rows, a, k),
             CropAfterCommit(Forward(session, Fed(committed, block)),
                             Committed(committed, block, rows, a, k), a))
  BY <1>1, <1>4, CommitKeeps
<1>6. OnPath(job.target, job.prompt, committed', session')
  BY <1>3, <1>5
<1>7. job' = job /\ block' = block /\ acceptance' \in Nat
  <2>1. acceptance' = a /\ a \in Nat
    BY <1>2
  <2> QED
    BY <2>1 DEF Verify
<1> QED
  BY <1>1, <1>6, <1>7 DEF LInv

\* The two passes that measure leave the session alone, whatever they feed.
LEMMA PassesKeep ==
  ASSUME LInv, ParanoidCheck \/ Escrow PROVE LInv'
<1>1. /\ committed \in Seq(Token) /\ committed # <<>> /\ block \in Seq(Token)
      /\ session = Between(committed) /\ acceptance \in Nat
  BY DEF LInv, OnPath
<1>2. CASE ParanoidCheck
  <2>1. PICK x : session' = BranchVerified(session, lastToken, <<x>>)
    BY <1>2 DEF ParanoidCheck
  <2>2. committed \in Seq(Token \union {x}) /\ <<x>> \in Seq(Token \union {x})
    BY <1>1
  <2>3. session' = session
    BY <1>1, <2>1, <2>2, BranchLeavesNoTrace DEF lastToken
  <2> QED
    BY <1>2, <2>3 DEF LInv, OnPath, ParanoidCheck
<1>3. CASE Escrow
  <2>1. session' = session \/ (Escrows /\ session' = BranchVerified(session, lastToken, escrow))
    BY <1>3 DEF Escrow
  <2>2. escrow \in Seq(Token)
    <3>1. Len(block) \in Nat /\ \A i \in (acceptance + 2)..Len(block) : block[i] \in Token
      <4>1. Len(block) \in Nat /\ \A i \in (acceptance + 2)..Len(block) : i \in 1..Len(block)
        BY <1>1, LenProperties
      <4> QED
        BY <1>1, <4>1, ElementOfSeq
    <3>2. (acceptance + 1) + 1 = acceptance + 2 /\ acceptance + 2 \in Int
      BY <1>1
    <3> QED
      BY <1>1, <3>1, <3>2, SubSeqProperties DEF escrow, Drop
  <2>3. session' = session
    BY <1>1, <2>1, <2>2, BranchLeavesNoTrace DEF lastToken
  <2>4. UNCHANGED <<job, committed>> /\ block' = <<>> /\ acceptance' = 0
    BY <1>3 DEF Escrow
  <2>5. block' \in Seq(Token)
    BY <2>4
  <2> QED
    BY <2>3, <2>4, <2>5 DEF LInv, OnPath
<1> QED
  BY <1>2, <1>3

LEMMA NextKeepsInv == LInv /\ [Next]_vars => LInv'
<1> SUFFICES ASSUME LInv, [Next]_vars PROVE LInv'
  OBVIOUS
<1>1. CASE Draft
  BY <1>1, DraftKeeps
<1>2. CASE Verify
  BY <1>2, VerifyKeeps
<1>3. CASE ParanoidCheck \/ Escrow
  BY <1>3, PassesKeep
<1>4. CASE LoopEnds \/ SkipCheck \/ Finish \/ UNCHANGED vars
  <2>1. UNCHANGED <<job, committed, session, block, acceptance>>
    BY <1>4 DEF LoopEnds, SkipCheck, Finish, vars
  <2> QED
    BY <2>1 DEF LInv, OnPath
<1> QED
  BY <1>1, <1>2, <1>3, <1>4 DEF Next

\* Invariant 1 of trace_core.py for every draft function: between two target
\* calls the cache holds the states of committed[:-1], and the session knows it.
THEOREM CacheHolds == Spec => []CacheInvariant
<1>1. LInv => CacheInvariant
  BY DEF LInv, OnPath, CacheInvariant, Between
<1> QED
  BY <1>1, InitInv, NextKeepsInv, PTL DEF Spec

\* The greedy output is read off the invariant.
LEMMA GreedyInv == LInv => OutputIsGreedy
<1> SUFFICES ASSUME LInv PROVE OutputIsGreedy
  OBVIOUS
<1>1. PICK g \in Seq(Token) :
        committed = job.prompt \o g /\ GreedyPath(job.target, job.prompt, g)
  BY DEF LInv, OnPath
<1>2. job.prompt \in Seq(Token)
  BY JobsAreTyped DEF LInv
<1>3. generated = g
  BY <1>1, <1>2, DropOfConcat DEF generated, prompt_len
<1> QED
  BY <1>1, <1>3 DEF OutputIsGreedy

\* run_prompt's docstring for every draft function: the output is the target's
\* greedy continuation of the prompt.
THEOREM OutputFollowsTarget == Spec => []OutputIsGreedy
BY GreedyInv, InitInv, NextKeepsInv, PTL DEF Spec
-----------------------------------------------------------------------------
(***************************************************************************)
(* The alignment of an escrow with a reference.                            *)
(***************************************************************************)
\* The targets in Untied choose one token; MC instances satisfy it, and it is
\* too large for TLC to evaluate as an assumption.
UntiedIsUnique ==
  \A t \in Untied : \A p \in Seq(Token) : \A x, y \in Greedy(t, p) : x = y

\* What a verification reads: the choices under the candidate's own prefixes.
Forced(t, p, cand, choices) ==
  /\ choices \in Seq(Token) /\ Len(choices) = Len(cand)
  /\ \A i \in 1..Len(cand) : choices[i] \in Greedy(t, p \o SubSeq(cand, 1, i - 1))

\* What a teacher-forced pass would accept of a candidate is how far it agrees
\* with the target's own continuation, as far as that is known.
LEMMA ForcedAgreesWithRealized ==
  ASSUME UntiedIsUnique, NEW t \in Untied, NEW p \in Seq(Token),
         NEW cand \in Seq(Token), NEW ref \in Seq(Token), GreedyPath(t, p, ref),
         NEW forced, Forced(t, p, cand, forced)
  PROVE  /\ FirstMismatch(cand, ref) <= FirstMismatch(cand, forced)
         /\ ~Censored(cand, ref) => FirstMismatch(cand, ref) = FirstMismatch(cand, forced)
<1> DEFINE n == FirstMismatch(cand, ref)
           f == FirstMismatch(cand, forced)
<1>0. /\ forced \in Seq(Token) /\ Len(forced) = Len(cand)
      /\ \A i \in 1..Len(cand) : forced[i] \in Greedy(t, p \o SubSeq(cand, 1, i - 1))
  BY DEF Forced
<1>1. /\ Matches(cand, ref, n) /\ \A k : Matches(cand, ref, k) => k <= n
      /\ Matches(cand, forced, f) /\ \A k : Matches(cand, forced, k) => k <= f
  BY <1>0, FirstMismatchIsGreatest
<1>2. Len(cand) \in Nat /\ Len(ref) \in Nat /\ n \in Nat /\ f \in Nat
  BY <1>1, LenProperties DEF Matches
<1>3. n < Len(cand) /\ n < Len(ref) => cand[n + 1] # ref[n + 1]
  BY MismatchBehind
<1> HIDE DEF n, f
<1>4. ASSUME NEW i \in 1..(n + 1), i <= Len(cand), i <= Len(ref)
      PROVE  forced[i] = ref[i]
  <2>1. i \in 1..Len(cand) /\ i \in 1..Len(ref) /\ i - 1 \in 0..n
        /\ i - 1 \in 0..Len(cand) /\ i - 1 \in 0..Len(ref)
    BY <1>2, <1>4
  <2>2. SubSeq(cand, 1, i - 1) = SubSeq(ref, 1, i - 1)
    <3> DEFINE u == SubSeq(cand, 1, i - 1)
               v == SubSeq(ref, 1, i - 1)
    <3>1. /\ u \in Seq(Token) /\ Len(u) = i - 1 /\ \A k \in 1..(i - 1) : u[k] = cand[k]
          /\ v \in Seq(Token) /\ Len(v) = i - 1 /\ \A k \in 1..(i - 1) : v[k] = ref[k]
      BY <2>1, PrefixProperties
    <3>2. \A k \in 1..(i - 1) : cand[k] = ref[k]
      BY <1>1, <1>2, <2>1 DEF Matches
    <3> HIDE DEF u, v
    <3>3. u = v
      BY <3>1, <3>2, SeqEqual
    <3> QED
      BY <3>3 DEF u, v
  <2>3. SubSeq(cand, 1, i - 1) \in Seq(Token)
    BY <2>1, PrefixProperties
  <2>4. p \o SubSeq(cand, 1, i - 1) \in Seq(Token)
    BY <2>3, ConcatProperties
  <2>5. ref[i] \in Greedy(t, p \o SubSeq(cand, 1, i - 1))
    BY <2>1, <2>2 DEF GreedyPath
  <2>6. forced[i] \in Greedy(t, p \o SubSeq(cand, 1, i - 1))
    BY <1>0, <2>1
  <2> QED
    BY <2>4, <2>5, <2>6 DEF UntiedIsUnique
<1>5. Matches(cand, forced, n)
  <2>1. n <= Len(cand) /\ n <= Len(ref) /\ \A i \in 1..n : cand[i] = ref[i]
    BY <1>1 DEF Matches
  <2>2. \A i \in 1..n : i \in 1..(n + 1) /\ i <= Len(cand) /\ i <= Len(ref)
    BY <1>2, <2>1
  <2>3. \A i \in 1..n : cand[i] = forced[i]
    BY <1>4, <2>1, <2>2
  <2> QED
    BY <1>0, <1>2, <2>1, <2>3 DEF Matches
<1>6. n <= f
  BY <1>1, <1>5
<1>7. ASSUME ~Censored(cand, ref) PROVE n = f
  <2>1. n = Len(cand) \/ (n < Len(cand) /\ n < Len(ref))
    BY <1>1, <1>2, <1>7 DEF Censored, Matches, n
  <2>2. CASE n = Len(cand)
    BY <1>1, <1>2, <1>6, <2>2 DEF Matches
  <2>3. CASE n < Len(cand) /\ n < Len(ref)
    <3>1. n + 1 \in 1..(n + 1) /\ n + 1 <= Len(cand) /\ n + 1 <= Len(ref)
      BY <1>2, <2>3
    <3>2. cand[n + 1] # forced[n + 1]
      BY <1>3, <1>4, <2>3, <3>1
    <3>3. FirstMismatch(cand, forced) = n
      BY <1>0, <1>5, <3>2, FirstMismatchIs
    <3> QED
      BY <3>3 DEF f
  <2> QED
    BY <2>1, <2>2, <2>3
<1> QED
  BY <1>6, <1>7 DEF n, f

\* References that agree as far as the candidate reaches are as good.
LEMMA ReferencesThatAgree ==
  ASSUME NEW S, NEW cand \in Seq(S), NEW ref \in Seq(S), NEW other \in Seq(S),
         Len(cand) <= Len(ref), Len(cand) <= Len(other),
         \A i \in 1..Len(cand) : ref[i] = other[i]
  PROVE  FirstMismatch(cand, ref) = FirstMismatch(cand, other)
<1> DEFINE SharedLengths(r) == {n \in 0..Len(cand) : n <= Len(r) /\ \A i \in 1..n : cand[i] = r[i]}
<1>1. Len(cand) \in Nat /\ Len(ref) \in Nat /\ Len(other) \in Nat
  BY LenProperties
<1>2. ASSUME NEW n \in 0..Len(cand)
      PROVE  (\A i \in 1..n : cand[i] = ref[i]) <=> (\A i \in 1..n : cand[i] = other[i])
  <2>1. \A i \in 1..n : i \in 1..Len(cand)
    BY <1>1
  <2> QED
    BY <2>1
<1>3. \A n \in 0..Len(cand) : n <= Len(ref) /\ n <= Len(other)
  BY <1>1
<1>4. SharedLengths(ref) = SharedLengths(other)
  BY <1>2, <1>3
<1> QED
  BY <1>4 DEF FirstMismatch

\* A record that is longer than the escrow by more than the longest bridge
\* serves the search as well as the whole continuation.
LEMMA BridgeWithinHorizon ==
  ASSUME NEW S, NEW cand \in Seq(S), NEW c \in Seq(S), NEW lo \in 0..Len(c),
         NEW h \in Nat, NEW bridge \in Nat, bridge < h
  PROVE  BestBridge(cand, Slice(c, lo, lo + Len(cand) + h), bridge)
           = BestBridge(cand, Drop(c, lo), bridge)
<1> DEFINE m    == Len(cand)
           rec  == Slice(c, lo, lo + m + h)
           rest == Drop(c, lo)
<1>1. m \in Nat /\ Len(c) \in Nat /\ lo \in Nat /\ lo <= Len(c)
  BY LenProperties
<1>2. rest \in Seq(S) /\ Len(rest) = Len(c) - lo /\ Len(rest) \in Nat
      /\ \A i \in 1..Len(rest) : rest[i] = c[lo + i]
  <2>1. rest \in Seq(S) /\ Len(rest) = Len(c) - lo
        /\ \A i \in 1..(Len(c) - lo) : rest[i] = c[lo + i]
    BY DropProperties
  <2> HIDE DEF rest
  <2> QED
    BY <1>1, <2>1
<1>3. /\ rec \in Seq(S)
      /\ Len(rec) = (IF lo + m + h < Len(c) THEN lo + m + h ELSE Len(c)) - lo
      /\ \A i \in 1..Len(rec) : rec[i] = c[lo + i]
  <2> DEFINE hi == lo + m + h
             end == IF hi < Len(c) THEN hi ELSE Len(c)
  <2>1. hi \in Nat /\ lo <= hi
    BY <1>1
  <2> HIDE DEF hi
  <2>2. /\ Slice(c, lo, hi) \in Seq(S) /\ Len(Slice(c, lo, hi)) = end - lo
        /\ \A i \in 1..(end - lo) : Slice(c, lo, hi)[i] = c[lo + i]
    BY <2>1, SliceProperties
  <2> QED
    BY <2>2 DEF hi
<1> HIDE DEF rec, rest, m
<1>4. CASE Len(rec) = Len(rest)
  <2>1. rec = rest
    BY <1>2, <1>3, <1>4, SeqEqual
  <2> QED
    BY <2>1 DEF rec, rest, m
<1>5. CASE Len(rec) # Len(rest)
  <2>1. Len(rec) = m + h /\ m + h < Len(rest)
    BY <1>1, <1>2, <1>3, <1>5
  <2>2. Min({bridge, Len(rec)}) = bridge /\ Min({bridge, Len(rest)}) = bridge
    <3>1. bridge <= Len(rec) /\ bridge <= Len(rest) /\ Len(rec) \in Nat
      BY <1>1, <1>2, <2>1
    <3> QED
      BY <1>2, <3>1, MinOfTwo
  <2>3. ASSUME NEW k \in 0..bridge
        PROVE  FirstMismatch(cand, Drop(rec, k)) = FirstMismatch(cand, Drop(rest, k))
    <3>1. k \in 0..Len(rec) /\ k \in 0..Len(rest)
      BY <1>1, <1>2, <2>1
    <3>2. /\ Drop(rec, k) \in Seq(S) /\ Len(Drop(rec, k)) = Len(rec) - k
          /\ \A i \in 1..(Len(rec) - k) : Drop(rec, k)[i] = rec[k + i]
      BY <1>3, <3>1, DropProperties
    <3>3. /\ Drop(rest, k) \in Seq(S) /\ Len(Drop(rest, k)) = Len(rest) - k
          /\ \A i \in 1..(Len(rest) - k) : Drop(rest, k)[i] = rest[k + i]
      BY <1>2, <3>1, DropProperties
    <3>4. m <= Len(rec) - k /\ m <= Len(rest) - k
      BY <1>1, <1>2, <2>1
    <3>5. \A i \in 1..m : Drop(rec, k)[i] = Drop(rest, k)[i]
      <4> SUFFICES ASSUME NEW i \in 1..m PROVE Drop(rec, k)[i] = Drop(rest, k)[i]
        OBVIOUS
      <4>1. /\ i \in 1..(Len(rec) - k) /\ i \in 1..(Len(rest) - k)
            /\ k + i \in 1..Len(rec) /\ k + i \in 1..Len(rest)
        BY <1>1, <1>2, <2>1, <3>4
      <4> QED
        BY <1>2, <1>3, <3>2, <3>3, <4>1
    <3> QED
      BY <3>2, <3>3, <3>4, <3>5, ReferencesThatAgree DEF m
  <2>4. [k \in 0..Min({bridge, Len(rec)}) |-> FirstMismatch(cand, Drop(rec, k))]
          = [k \in 0..Min({bridge, Len(rest)}) |-> FirstMismatch(cand, Drop(rest, k))]
    BY <2>2, <2>3
  <2> QED
    BY <2>4 DEF BestBridge, rec, rest, m
<1> QED
  BY <1>4, <1>5
-----------------------------------------------------------------------------
(***************************************************************************)
(* What one cycle commits, seen from its block: all of the accepted part,  *)
(* and one token more, which differs from the block's; only an EOS at the  *)
(* end of a block that was accepted whole costs the bonus.                 *)
(***************************************************************************)
LEMMA BlockProperties ==
  ASSUME job \in Jobs, NEW b \in Blocks, b # <<>>
  PROVE  /\ b \in Seq(Token) /\ Len(b) \in 1..job.gamma /\ job.gamma \in Nat
         /\ \A i \in 1..(Len(b) - 1) : b[i] \notin job.eos_ids
         /\ Len(b) = job.gamma \/ b[Len(b)] \in job.eos_ids
<1>1. job.gamma \in Nat
  BY JobsAreTyped
<1>2. /\ b \in UNION {[1..n -> Token] : n \in 1..job.gamma}
      /\ \A i \in 1..(Len(b) - 1) : b[i] \notin job.eos_ids
      /\ Len(b) = job.gamma \/ b[Len(b)] \in job.eos_ids
  BY DEF Blocks
<1>3. PICK n \in 1..job.gamma : b \in [1..n -> Token]
  BY <1>2
<1>4. n \in Nat /\ b \in Seq(Token) /\ Len(b) = n
  BY <1>1, <1>3
<1> QED
  BY <1>1, <1>2, <1>4

CommitOf(b, a, k, piece) ==
  /\ a \in 0..Len(b) /\ k \in 1..(a + 1)
  /\ piece \in Seq(Token) /\ Len(piece) = k
  /\ \A i \in 1..k : i <= a => piece[i] = b[i]
  /\ a < Len(b) => k = a + 1 /\ piece[k] # b[k]
  /\ k = a + 1 \/ (k = a /\ piece[k] \in job.eos_ids)
  /\ a = Len(b) /\ b[Len(b)] \in job.eos_ids => piece[k] \in job.eos_ids

LEMMA CommitOfBlock ==
  ASSUME NEW b \in Seq(Token), b # <<>>, \A i \in 1..(Len(b) - 1) : b[i] \notin job.eos_ids,
         NEW rows \in Seq(Token), Len(rows) = Len(b) + 1,
         NEW a \in 0..Len(b), IsCommonPrefixLength(b, Front(rows), a),
         NEW k \in 1..(a + 1), IsStopCut(Added(b, a, rows), job.eos_ids, k)
  PROVE  /\ CommitOf(b, a, k, Take(Added(b, a, rows), k))
         /\ Take(Added(b, a, rows), k)[k] = Added(b, a, rows)[k]
<1> DEFINE added == Added(b, a, rows)
           piece == Take(added, k)
           n     == Len(b)
<1>1. n \in Nat /\ n # 0 /\ a \in 0..n /\ a \in Nat /\ k \in Nat
  BY EmptySeq, LenProperties
<1>2. /\ Front(rows) \in Seq(Token) /\ Len(Front(rows)) = n
      /\ \A i \in 1..n : Front(rows)[i] = rows[i]
  <2>1. n \in 0..Len(rows) /\ Len(rows) - 1 = n
    BY <1>1
  <2> QED
    BY <2>1, PrefixProperties DEF Front
<1>3. /\ \A i \in 1..a : b[i] = rows[i]
      /\ a < n => b[a + 1] # rows[a + 1]
  BY <1>1, <1>2 DEF IsCommonPrefixLength
<1>4. /\ added \in Seq(Token) /\ Len(added) = a + 1
      /\ \A i \in 1..a : added[i] = b[i]
      /\ added[a + 1] = rows[a + 1]
  <2> DEFINE accepted == SubSeq(b, 1, a)
             token == <<rows[a + 1]>>
  <2>1. accepted \in Seq(Token) /\ Len(accepted) = a /\ \A i \in 1..a : accepted[i] = b[i]
    BY PrefixProperties
  <2>2. rows[a + 1] \in Token
    <3>1. a + 1 \in 1..Len(rows)
      BY <1>1
    <3> QED
      BY <3>1, ElementOfSeq
  <2>3. token \in Seq(Token) /\ Len(token) = 1 /\ token[1] = rows[a + 1]
    BY <2>2
  <2> HIDE DEF accepted, token
  <2>4. /\ accepted \o token \in Seq(Token) /\ Len(accepted \o token) = a + 1
        /\ \A i \in 1..(a + 1) : (accepted \o token)[i] =
                                   IF i <= a THEN accepted[i] ELSE token[i - a]
    <3>1. /\ accepted \o token \in Seq(Token)
          /\ Len(accepted \o token) = Len(accepted) + Len(token)
          /\ \A i \in 1..(Len(accepted) + Len(token)) : (accepted \o token)[i] =
               IF i <= Len(accepted) THEN accepted[i] ELSE token[i - Len(accepted)]
      <4>1. accepted \in Seq(Token) /\ token \in Seq(Token)
        BY <2>1, <2>3
      <4> QED
        BY ONLY <4>1, ConcatProperties
    <3> QED
      BY <2>1, <2>3, <3>1
  <2>5. added = accepted \o token
    BY DEF Added, accepted, token
  <2>6. a + 1 \in 1..(a + 1) /\ ~(a + 1 <= a) /\ (a + 1) - a = 1
    BY <1>1
  <2>7. \A i \in 1..a : i \in 1..(a + 1) /\ i <= a
    BY <1>1
  <2> HIDE DEF added
  <2> QED
    BY <2>1, <2>3, <2>4, <2>5, <2>6, <2>7
<1> HIDE DEF added
<1>5. /\ piece \in Seq(Token) /\ Len(piece) = k
      /\ \A i \in 1..k : piece[i] = added[i]
  <2>1. k \in 0..Len(added) /\ (IF k < Len(added) THEN k ELSE Len(added)) = k
    BY <1>1, <1>4
  <2>2. piece = SubSeq(added, 1, k)
    BY <2>1 DEF Take
  <2> QED
    BY <1>4, <2>1, <2>2, PrefixProperties
<1> HIDE DEF piece
<1>6. \A i \in 1..k : i <= a => piece[i] = b[i]
  BY <1>1, <1>4, <1>5
<1>7. \A i \in 1..(k - 1) : added[i] \notin job.eos_ids
  BY DEF IsStopCut, added
<1>8. k < a + 1 => added[k] \in job.eos_ids
  BY <1>4 DEF IsStopCut, added
<1>9. ASSUME k # a + 1 PROVE k = a /\ a = n /\ piece[k] \in job.eos_ids
  <2>1. k \in 1..a /\ k < a + 1 /\ k \in 1..k
    BY <1>1, <1>9
  <2>2. added[k] \in job.eos_ids /\ added[k] = b[k] /\ piece[k] = added[k]
    BY <1>4, <1>5, <1>8, <2>1
  <2>3. ~(k \in 1..(n - 1))
    BY <2>2
  <2> QED
    BY <1>1, <2>1, <2>2, <2>3
<1>10. ASSUME a < n PROVE k = a + 1 /\ piece[k] # b[k]
  <2>1. k = a + 1 /\ k \in 1..k
    BY <1>1, <1>9, <1>10
  <2> QED
    BY <1>3, <1>4, <1>5, <1>10, <2>1
<1>11. ASSUME a = n, b[n] \in job.eos_ids PROVE piece[k] \in job.eos_ids
  <2>1. CASE k = a + 1
    <3>1. a \in 1..(k - 1) /\ a \in 1..a
      BY <1>1, <1>11, <2>1
    <3> QED
      BY <1>4, <1>7, <1>11, <3>1
  <2> QED
    BY <1>9, <2>1
<1>12. piece[k] = added[k]
  BY <1>1, <1>5
<1>13. k = a + 1 \/ (k = a /\ piece[k] \in job.eos_ids)
  BY <1>9
<1> QED
  BY <1>5, <1>6, <1>10, <1>11, <1>12, <1>13 DEF CommitOf, piece, added

RowsRead(t, c, b, rows) ==
  rows \in Seq(Token) /\ Len(rows) = Len(b) + 1 /\ Forced(t, c, b, Front(rows))

LEMMA RowsAreRead ==
  ASSUME NEW t, NEW c \in Seq(Token), c # <<>>, NEW b \in Seq(Token),
         NEW rows \in Rows(t, Between(c), Fed(c, b))
  PROVE  RowsRead(t, c, b, rows)
<1>1. /\ rows \in Seq(Token) /\ Len(rows) = Len(b) + 1 /\ Len(b) \in Nat
      /\ \A i \in 1..(Len(b) + 1) : rows[i] \in Greedy(t, c \o SubSeq(b, 1, i - 1))
  BY RowsOfCommitted
<1>2. Len(b) \in 0..Len(rows) /\ Len(rows) - 1 = Len(b)
  BY <1>1
<1>3. /\ Front(rows) \in Seq(Token) /\ Len(Front(rows)) = Len(b)
      /\ \A i \in 1..Len(b) : Front(rows)[i] = rows[i]
  BY <1>1, <1>2, PrefixProperties DEF Front
<1>4. \A i \in 1..Len(b) : i \in 1..(Len(b) + 1)
  BY <1>1
<1> QED
  BY <1>1, <1>3, <1>4 DEF RowsRead, Forced

\* A step of Verify by what it commits.
Commits(a, k, piece) ==
  /\ CommitOf(block, a, k, piece)
  /\ committed' = committed \o piece
  /\ done' = (piece[k] \in job.eos_ids)
  /\ acceptance' = a
  /\ counters' = [counters EXCEPT !.cycles = @ + 1, !.main_passes = @ + 1, !.accepted = @ + a]
  /\ events' = IF pending = NoEvent THEN events
               ELSE Append(events, Paired(pending, a, Len(block)))

LEMMA VerifyCommits ==
  ASSUME LInv, Verify, block \in Blocks, block # <<>>
  PROVE  \E a, k, piece : Commits(a, k, piece)
<1>1. /\ job \in Jobs /\ committed \in Seq(Token) /\ committed # <<>>
      /\ session = Between(committed)
  BY DEF LInv, OnPath
<1>2. block \in Seq(Token) /\ \A i \in 1..(Len(block) - 1) : block[i] \notin job.eos_ids
  BY <1>1, BlockProperties
<1>3. PICK rows \in Rows(job.target, session, Fed(committed, block)), a \in 0..Len(block) :
        /\ IsCommonPrefixLength(block, Front(rows), a)
        /\ acceptance' = a
        /\ counters' = [counters EXCEPT !.cycles = @ + 1, !.main_passes = @ + 1,
                                        !.accepted = @ + a]
        /\ \E k \in 1..(a + 1) :
             /\ IsStopCut(Added(block, a, rows), job.eos_ids, k)
             /\ committed' = committed \o Take(Added(block, a, rows), k)
             /\ done' = (Added(block, a, rows)[k] \in job.eos_ids)
        /\ events' = IF pending = NoEvent THEN events
                     ELSE Append(events, Paired(pending, a, Len(block)))
  BY DEF Verify, lastToken, Fed
<1>4. PICK k \in 1..(a + 1) :
        /\ IsStopCut(Added(block, a, rows), job.eos_ids, k)
        /\ committed' = committed \o Take(Added(block, a, rows), k)
        /\ done' = (Added(block, a, rows)[k] \in job.eos_ids)
  BY <1>3
<1>5. rows \in Seq(Token) /\ Len(rows) = Len(block) + 1
  <2>1. rows \in Rows(job.target, Between(committed), Fed(committed, block))
    BY <1>1
  <2>2. RowsRead(job.target, committed, block, rows)
    BY <1>1, <1>2, <2>1, RowsAreRead
  <2> QED
    BY <2>2 DEF RowsRead
<1>6. /\ CommitOf(block, a, k, Take(Added(block, a, rows), k))
      /\ Take(Added(block, a, rows), k)[k] = Added(block, a, rows)[k]
  BY <1>2, <1>3, <1>4, <1>5, CommitOfBlock
<1>7. Commits(a, k, Take(Added(block, a, rows), k))
  BY <1>3, <1>4, <1>6 DEF Commits
<1> QED
  BY <1>7

\* The last of the committed tokens is the last of the piece.
LEMMA LastOfCommitted ==
  ASSUME NEW c \in Seq(Token), NEW piece \in Seq(Token), NEW k \in Nat \ {0}, Len(piece) = k
  PROVE  /\ c \o piece \in Seq(Token) /\ Len(c \o piece) = Len(c) + k
         /\ Last(c \o piece) = piece[k]
         /\ \A i \in 1..k : (c \o piece)[Len(c) + i] = piece[i]
<1> DEFINE w == c \o piece
<1>1. /\ w \in Seq(Token) /\ Len(w) = Len(c) + k /\ Len(c) \in Nat
      /\ \A i \in 1..(Len(c) + k) : w[i] = IF i <= Len(c) THEN c[i] ELSE piece[i - Len(c)]
  BY ConcatProperties, LenProperties
<1> HIDE DEF w
<1>2. ASSUME NEW i \in 1..k PROVE w[Len(c) + i] = piece[i]
  <2>1. Len(c) + i \in 1..(Len(c) + k) /\ ~(Len(c) + i <= Len(c)) /\ (Len(c) + i) - Len(c) = i
    BY <1>1
  <2> QED
    BY <1>1, <2>1
<1>3. Last(w) = piece[k]
  BY <1>1, <1>2 DEF Last
<1> QED
  BY <1>1, <1>2, <1>3 DEF w
-----------------------------------------------------------------------------
(***************************************************************************)
(* The invariant of the measurements.  An event is a claim about the       *)
(* continuation of its prefix, which the loop has not produced when the    *)
(* event is recorded: the invariant says what each event knows, in terms   *)
(* that later commits cannot change, and fill_alignment reads the rest off *)
(* the result.                                                             *)
(***************************************************************************)

\* An escrow behind the first committed_len of the tokens c: no EOS before its
\* last token nor just before it, and shorter than a draft.
Escrowed(j, e, c) ==
  /\ e.committed_len \in Len(j.prompt)..Len(c) /\ e.committed_len > 0
  /\ e.m \in Nat \ {0} /\ e.m < j.gamma /\ Len(e.suffix) = e.m
  /\ c[e.committed_len] \notin j.eos_ids
  /\ \A i \in 1..(e.m - 1) : e.suffix[i] \notin j.eos_ids

\* The reading of a branch pass: the target's choices under the escrow itself.
BranchRead(j, e, c) ==
  \E choices \in Seq(Token) :
    /\ Forced(j.target, SubSeq(c, 1, e.committed_len), e.suffix, choices)
    /\ e.L_survive_branch = FirstMismatch(e.suffix, choices)

Measured(j, e, c) ==
  e \in EventRecords /\ Escrowed(j, e, c) /\ (j.branch_verify => BranchRead(j, e, c))

\* Later commits change nothing about a measured event.
LEMMA MeasuredStays ==
  ASSUME NEW j, j.prompt \in Seq(Token), NEW c \in Seq(Token), NEW piece \in Seq(Token),
         NEW e, Measured(j, e, c)
  PROVE  Measured(j, e, c \o piece)
<1> DEFINE w == c \o piece
           n == e.committed_len
<1>1. /\ w \in Seq(Token) /\ Len(w) = Len(c) + Len(piece) /\ Len(c) \in Nat
      /\ Len(piece) \in Nat /\ Len(j.prompt) \in Nat
      /\ \A i \in 1..Len(c) : w[i] = c[i]
  <2>1. /\ w \in Seq(Token) /\ Len(w) = Len(c) + Len(piece)
        /\ \A i \in 1..(Len(c) + Len(piece)) :
             w[i] = IF i <= Len(c) THEN c[i] ELSE piece[i - Len(c)]
    BY ConcatProperties
  <2>2. Len(c) \in Nat /\ Len(piece) \in Nat /\ Len(j.prompt) \in Nat
    BY LenProperties
  <2> HIDE DEF w
  <2> QED
    BY <2>1, <2>2
<1>2. n \in Len(j.prompt)..Len(c) /\ n > 0 /\ n \in 1..Len(c) /\ n \in 0..Len(c)
  BY <1>1 DEF Measured, Escrowed
<1>3. SubSeq(w, 1, n) = SubSeq(c, 1, n)
  BY <1>2, PrefixOfConcatLeft
<1> HIDE DEF w
<1>4. Escrowed(j, e, w)
  BY <1>1, <1>2 DEF Measured, Escrowed
<1>5. BranchRead(j, e, c) => BranchRead(j, e, w)
  BY <1>3 DEF BranchRead
<1> QED
  BY <1>4, <1>5 DEF Measured, w

\* Typing of what the loop records.
Recording ==
  /\ pc \in {"loop", "verify", "check", "escrow", "finish", "done"}
  /\ done \in BOOLEAN
  /\ counters \in [cycles : Nat, main_passes : Nat, branch_passes : Nat, dropped : Nat,
                   checks : Nat, mismatches : Nat, accepted : Nat]
  /\ pending \in EventRecords \union {NoEvent}

\* What is known within a cycle: an EOS ends the loop, and only the first cycle
\* may follow one.
InCycle ==
  /\ done => lastToken \in job.eos_ids /\ pending = NoEvent
  /\ pc = "verify" => ~done /\ block \in Blocks /\ block # <<>>
  /\ pc \in {"check", "escrow"} =>
       /\ block \in Blocks /\ block # <<>> /\ acceptance \in 0..Len(block)
       /\ pending = NoEvent
       /\ done \/ lastToken \notin job.eos_ids

\* Committed tokens and branch passes are accounted for.
TokensAccounted ==
  \/ Len(committed) - Len(job.prompt) = counters.accepted + counters.cycles
  \/ /\ done
     /\ Len(committed) - Len(job.prompt) = counters.accepted + counters.cycles - 1

PassesAccounted ==
  job.branch_verify =>
    counters.branch_passes =
      Len(events) + IF pc = "done" THEN counters.dropped
                                   ELSE IF pending = NoEvent THEN 0 ELSE 1

Accounted == TokensAccounted /\ PassesAccounted

\* A pending event waits for a block drafted from where the loop stands.
PendingMeasured ==
  pending # NoEvent =>
    /\ Measured(job, pending, committed)
    /\ ~pending.L_fresh_censored
    /\ pending.committed_len = Len(committed)

\* A sequence of events: a fresh draft can only be censored in the last.
AllMeasured(j, evs, c, stopped) ==
  \A n \in 1..Len(evs) :
    /\ Measured(j, evs[n], c)
    /\ evs[n].L_fresh_censored => n = Len(evs) /\ stopped

\* The events while the loop runs, and behind fill_alignment.
EventsMeasured ==
  \E evs \in Seq(EventRecords) :
    /\ AllMeasured(job, evs, committed, done)
    /\ events = IF pc = "done" THEN [n \in 1..Len(evs) |-> Aligned(evs[n])] ELSE evs

EInv ==
  LInv /\ Recording /\ InCycle /\ Accounted /\ PendingMeasured /\ EventsMeasured

LEMMA InitEInv == Init => EInv
<1> SUFFICES ASSUME Init PROVE EInv
  OBVIOUS
<1>1. LInv
  BY InitInv
<1>2. /\ pc = "loop" /\ done = FALSE /\ pending = NoEvent /\ events = <<>>
      /\ committed = job.prompt
      /\ counters = [cycles |-> 0, main_passes |-> 0, branch_passes |-> 0, dropped |-> 0,
                     checks |-> 0, mismatches |-> 0, accepted |-> 0]
  BY DEF Init
<1>3. Recording /\ InCycle /\ PendingMeasured
  BY <1>2 DEF Recording, InCycle, PendingMeasured
<1>4. Len(committed) - prompt_len = 0
  <2>1. Len(committed) \in Nat
    BY <1>1, LenProperties DEF LInv, OnPath
  <2> QED
    BY <1>2, <2>1 DEF prompt_len
<1>5. Accounted
  BY <1>2, <1>4 DEF Accounted, TokensAccounted, PassesAccounted, prompt_len
<1>6. EventsMeasured
  <2>1. <<>> \in Seq(EventRecords) /\ AllMeasured(job, <<>>, committed, done)
    BY DEF AllMeasured
  <2> QED
    BY <1>2, <2>1 DEF EventsMeasured
<1> QED
  BY <1>1, <1>3, <1>5, <1>6 DEF EInv

\* The steps that commit, measure and finish nothing.
LEMMA IdleKeepsEInv ==
  ASSUME EInv, Draft \/ LoopEnds \/ SkipCheck \/ UNCHANGED vars PROVE EInv'
<1>1. LInv'
  <2>1. [Next]_vars
    BY DEF Next
  <2> QED
    BY <2>1, NextKeepsInv DEF EInv
<1>2. UNCHANGED <<job, committed, pending, events, counters, done, acceptance>>
  BY DEF Draft, DraftOf, LoopEnds, SkipCheck, vars
<1>3. (pc' = "done") = (pc = "done") /\ (Recording => Recording')
  BY <1>2 DEF Draft, DraftOf, LoopEnds, SkipCheck, vars, Recording
<1>4. Recording' /\ Accounted' /\ PendingMeasured'
  <2>1. Recording /\ Accounted /\ PendingMeasured
    BY DEF EInv
  <2> QED
    BY <1>2, <1>3, <2>1 DEF Accounted, TokensAccounted, PassesAccounted, PendingMeasured
<1>5. EventsMeasured'
  <2>1. PICK evs \in Seq(EventRecords) :
          /\ AllMeasured(job, evs, committed, done)
          /\ events = IF pc = "done" THEN [n \in 1..Len(evs) |-> Aligned(evs[n])] ELSE evs
    BY DEF EInv, EventsMeasured
  <2>2. AllMeasured(job', evs, committed', done')
    BY <1>2, <2>1
  <2>3. \A n \in 1..Len(evs) : Aligned(evs[n])' = Aligned(evs[n])
    BY <1>2 DEF Aligned, Realized
  <2>4. events' = IF pc' = "done" THEN [n \in 1..Len(evs) |-> Aligned(evs[n])'] ELSE evs
    BY <1>2, <1>3, <2>1, <2>3
  <2> QED
    BY <2>2, <2>4 DEF EventsMeasured
<1>6. InCycle'
  <2>1. InCycle
    BY DEF EInv
  <2>2. CASE Draft
    <3>1. ~done /\ block' \in Blocks /\ pc' = (IF block' = <<>> THEN "finish" ELSE "verify")
      BY <2>2 DEF Draft, DraftOf, More
    <3>2. Blocks' = Blocks /\ lastToken' = lastToken
      BY <1>2 DEF Blocks, lastToken
    <3> QED
      BY <1>2, <2>1, <3>1, <3>2 DEF InCycle
  <2>3. CASE LoopEnds
    BY <1>2, <2>1, <2>3 DEF InCycle, LoopEnds, lastToken
  <2>4. CASE SkipCheck
    BY <1>2, <2>1, <2>4 DEF InCycle, SkipCheck, lastToken, Blocks
  <2>5. CASE UNCHANGED vars
    BY <2>1, <2>5 DEF InCycle, vars, lastToken, Blocks
  <2> QED
    BY <2>2, <2>3, <2>4, <2>5
<1> QED
  BY <1>1, <1>4, <1>5, <1>6 DEF EInv

\* Pairing an event with a fresh draft leaves what it measured alone.
LEMMA PairedStaysMeasured ==
  ASSUME NEW j, NEW e, NEW c, Measured(j, e, c), NEW a \in Nat, NEW len
  PROVE  /\ Measured(j, Paired(e, a, len), c)
         /\ Paired(e, a, len).L_fresh = IF a < e.m THEN a ELSE e.m
         /\ Paired(e, a, len).L_fresh_censored = (a = len /\ len < e.m)
         /\ Paired(e, a, len).committed_len = e.committed_len
         /\ Paired(e, a, len).m = e.m
<1> DEFINE p == Paired(e, a, len)
<1>1. e \in EventRecords /\ Escrowed(j, e, c) /\ (j.branch_verify => BranchRead(j, e, c))
  BY DEF Measured
<1>2. e.m \in Nat
  BY <1>1 DEF EventRecords
<1>3. p \in EventRecords
  <2> DEFINE fresh == IF a < e.m THEN a ELSE e.m
             censored == (a = len /\ len < e.m)
  <2>1. fresh \in Int /\ censored \in BOOLEAN
    BY <1>2
  <2> HIDE DEF fresh, censored
  <2>2. [e EXCEPT !.L_fresh = fresh, !.L_fresh_censored = censored] \in EventRecords
    BY <1>1, <2>1 DEF EventRecords
  <2> QED
    BY <2>2 DEF fresh, censored, Paired
<1>4. /\ p.committed_len = e.committed_len /\ p.m = e.m /\ p.suffix = e.suffix
      /\ p.L_survive_branch = e.L_survive_branch
  BY <1>1 DEF EventRecords, Paired
<1>5. /\ p.L_fresh = IF a < e.m THEN a ELSE e.m
      /\ p.L_fresh_censored = (a = len /\ len < e.m)
  BY <1>1 DEF EventRecords, Paired
<1> HIDE DEF p
<1>6. Escrowed(j, p, c)
  BY <1>1, <1>4 DEF Escrowed
<1>7. j.branch_verify => BranchRead(j, p, c)
  BY <1>1, <1>4 DEF BranchRead
<1> QED
  BY <1>3, <1>4, <1>5, <1>6, <1>7 DEF Measured, p

\* The cycle's block is the fresh draft of the pending event.
LEMMA VerifyKeepsEInv ==
  ASSUME EInv, Verify PROVE EInv'
<1>1. /\ LInv /\ LInv' /\ pc = "verify" /\ pc' = "check" /\ job' = job /\ block' = block
      /\ pending' = NoEvent /\ ~done /\ block \in Blocks /\ block # <<>>
  <2>1. [Next]_vars
    BY DEF Next
  <2> QED
    BY <2>1, NextKeepsInv DEF EInv, Verify, InCycle
<1>2. PICK a, k, piece : Commits(a, k, piece)
  BY <1>1, VerifyCommits
<1>3. /\ CommitOf(block, a, k, piece)
      /\ committed' = committed \o piece
      /\ done' = (piece[k] \in job.eos_ids)
      /\ acceptance' = a
      /\ counters' = [counters EXCEPT !.cycles = @ + 1, !.main_passes = @ + 1,
                                      !.accepted = @ + a]
      /\ events' = IF pending = NoEvent THEN events
                   ELSE Append(events, Paired(pending, a, Len(block)))
  BY <1>2 DEF Commits
<1>4. /\ a \in 0..Len(block) /\ a \in Nat /\ k \in Nat \ {0} /\ k \in 1..k
      /\ piece \in Seq(Token) /\ Len(piece) = k
      /\ k = a + 1 \/ (k = a /\ piece[k] \in job.eos_ids)
      /\ a = Len(block) /\ block[Len(block)] \in job.eos_ids => piece[k] \in job.eos_ids
  BY <1>3 DEF CommitOf
<1>5. /\ job \in Jobs /\ job.prompt \in Seq(Token)
      /\ committed \in Seq(Token) /\ Len(committed) \in Nat
      /\ Len(job.prompt) \in Nat
  BY <1>1, JobsAreTyped, LenProperties DEF LInv, OnPath
<1>6. committed' \in Seq(Token) /\ Len(committed') = Len(committed) + k
      /\ lastToken' = piece[k]
  BY <1>3, <1>4, <1>5, LastOfCommitted DEF lastToken
<1>7. /\ block \in Seq(Token) /\ Len(block) \in 1..job.gamma /\ job.gamma \in Nat
      /\ Len(block) = job.gamma \/ block[Len(block)] \in job.eos_ids
  BY <1>1, <1>5, BlockProperties
<1>8. Recording'
  <2>1. counters.cycles + 1 \in Nat /\ counters.main_passes + 1 \in Nat
        /\ counters.accepted + a \in Nat
    BY <1>4 DEF EInv, Recording
  <2>2. counters' \in [cycles : Nat, main_passes : Nat, branch_passes : Nat, dropped : Nat,
                       checks : Nat, mismatches : Nat, accepted : Nat]
    BY <1>3, <2>1 DEF EInv, Recording
  <2>3. done' \in BOOLEAN
    BY <1>3
  <2> QED
    BY <1>1, <2>2, <2>3 DEF Recording
<1>9. InCycle'
  <2>1. Blocks' = Blocks
    BY <1>1 DEF Blocks
  <2> QED
    BY <1>1, <1>3, <1>4, <1>6, <2>1 DEF InCycle
<1>10. events \in Seq(EventRecords) /\ AllMeasured(job, events, committed, done)
  BY <1>1 DEF EInv, EventsMeasured
<1>11. Len(events) \in Nat
  BY <1>10, LenProperties
<1>12. pending # NoEvent =>
         /\ Measured(job, pending, committed) /\ ~pending.L_fresh_censored
         /\ pending.m \in Nat /\ pending.m < job.gamma
  BY DEF EInv, PendingMeasured, Measured, Escrowed
<1>13. events' \in Seq(EventRecords)
       /\ Len(events') = Len(events) + IF pending = NoEvent THEN 0 ELSE 1
  <2>1. CASE pending = NoEvent
    BY <1>3, <1>10, <1>11, <2>1
  <2>2. CASE pending # NoEvent
    <3>1. Paired(pending, a, Len(block)) \in EventRecords
      BY <1>4, <1>12, <2>2, PairedStaysMeasured DEF Measured
    <3> QED
      BY <1>3, <1>10, <2>2, <3>1
  <2> QED
    BY <2>1, <2>2
<1>14. Accounted'
  <2>1. Len(committed) - Len(job.prompt) = counters.accepted + counters.cycles
    BY <1>1 DEF EInv, Accounted, TokensAccounted
  <2>2. counters.accepted \in Nat /\ counters.cycles \in Nat
    BY DEF EInv, Recording
  <2>3. counters'.accepted = counters.accepted + a /\ counters'.cycles = counters.cycles + 1
    BY <1>3 DEF EInv, Recording
  <2>4. Len(committed') - Len(job.prompt) = counters.accepted + counters.cycles + k
    BY <1>4, <1>5, <1>6, <2>1
  <2>5. /\ k = a + 1 => Len(committed') - Len(job.prompt)
                           = counters'.accepted + counters'.cycles
        /\ k = a => Len(committed') - Len(job.prompt)
                       = counters'.accepted + counters'.cycles - 1
    <3>1. a \in Nat
      BY <1>4
    <3> QED
      <4>1. \A n, u, v : u = counters.accepted + a /\ v = counters.cycles + 1
                            /\ n = counters.accepted + counters.cycles + k =>
              (k = a + 1 => n = u + v) /\ (k = a => n = u + v - 1)
        BY ONLY <2>2, <3>1
      <4> QED
        BY ONLY <2>3, <2>4, <4>1, Zenon
  <2>6. k = a + 1 \/ (k = a /\ done')
    BY <1>3, <1>4
  <2>7. job.branch_verify => counters'.branch_passes = Len(events')
    <3>1. job.branch_verify => counters.branch_passes =
             Len(events) + IF pending = NoEvent THEN 0 ELSE 1
      BY <1>1 DEF EInv, Accounted, PassesAccounted
    <3>2. counters'.branch_passes = counters.branch_passes
      BY <1>3 DEF EInv, Recording
    <3> QED
      BY <1>13, <3>1, <3>2
  <2>8. Len(events') + (IF pc' = "done" THEN counters'.dropped
                        ELSE IF pending' = NoEvent THEN 0 ELSE 1) = Len(events')
    <3>1. Len(events') + 0 = Len(events')
      BY <1>13, LenProperties
    <3>2. pc' # "done"
      BY <1>1
    <3> QED
      BY <1>1, <3>1, <3>2
  <2>9. TokensAccounted'
    BY <1>1, <2>5, <2>6, Zenon DEF TokensAccounted
  <2>10. PassesAccounted'
    BY ONLY <1>1, <2>7, <2>8, Zenon DEF PassesAccounted
  <2> QED
    BY <2>9, <2>10 DEF Accounted
<1>15. PendingMeasured'
  BY <1>1 DEF PendingMeasured
<1>16. ASSUME NEW e, Measured(job, e, committed) PROVE Measured(job, e, committed')
  <2>1. Measured(job, e, committed \o piece)
    BY <1>4, <1>5, <1>16, MeasuredStays
  <2> QED
    BY <1>3, <2>1
<1>17. ASSUME NEW n \in 1..Len(events')
       PROVE  /\ Measured(job, events'[n], committed')
              /\ events'[n].L_fresh_censored => n = Len(events') /\ done'
  <2>1. CASE n <= Len(events)
    <3>1. n \in 1..Len(events)
      BY <1>11, <2>1
    <3>2. events'[n] = events[n]
      BY <1>3, <1>10, <3>1
    <3>3. Measured(job, events[n], committed) /\ ~events[n].L_fresh_censored
      BY <1>1, <1>10, <3>1 DEF AllMeasured
    <3> QED
      BY <1>16, <3>2, <3>3
  <2>2. CASE n > Len(events)
    <3>1. pending # NoEvent /\ n = Len(events) + 1 /\ n = Len(events')
      BY <1>11, <1>13, <2>2
    <3>2. events'[n] = Paired(pending, a, Len(block))
      BY <1>3, <1>10, <3>1
    <3>3. /\ Measured(job, events'[n], committed)
          /\ events'[n].L_fresh_censored = (a = Len(block) /\ Len(block) < pending.m)
      BY <1>4, <1>12, <3>1, <3>2, PairedStaysMeasured
    <3>4. ASSUME a = Len(block), Len(block) < pending.m PROVE done'
      <4>1. Len(block) # job.gamma
        BY <1>7, <1>12, <3>1, <3>4
      <4> QED
        BY <1>3, <1>4, <1>7, <3>4, <4>1
    <3> QED
      BY <1>16, <3>1, <3>3, <3>4
  <2> QED
    BY <1>11, <2>1, <2>2
<1>18. EventsMeasured'
  <2>1. AllMeasured(job', events', committed', done')
    BY <1>1, <1>17 DEF AllMeasured
  <2>2. pc' # "done"
    BY <1>1
  <2> QED
    BY <1>13, <2>1, <2>2 DEF EventsMeasured
<1> QED
  BY <1>1, <1>8, <1>9, <1>14, <1>15, <1>18 DEF EInv

\* The cache check counts, and nothing else.
LEMMA CheckKeepsEInv ==
  ASSUME EInv, ParanoidCheck PROVE EInv'
<1>1. /\ LInv' /\ pc = "check" /\ pc' = "escrow"
      /\ UNCHANGED <<job, committed, block, acceptance, pending, events, done>>
  <2>1. [Next]_vars
    BY DEF Next
  <2> QED
    BY <2>1, NextKeepsInv DEF EInv, ParanoidCheck
<1>2. PICK m \in {counters.mismatches, counters.mismatches + 1} :
        counters' = [counters EXCEPT !.checks = @ + 1, !.mismatches = m]
  <2>1. PICK g_full, g_cached :
          counters' = [counters EXCEPT !.checks = @ + 1,
                                       !.mismatches = IF g_full = g_cached THEN @ ELSE @ + 1]
    BY DEF ParanoidCheck
  <2> QED
    BY <2>1
<1>3. Recording'
  <2>1. counters.checks + 1 \in Nat /\ m \in Nat
    BY DEF EInv, Recording
  <2>2. counters' \in [cycles : Nat, main_passes : Nat, branch_passes : Nat, dropped : Nat,
                       checks : Nat, mismatches : Nat, accepted : Nat]
    BY <1>2, <2>1 DEF EInv, Recording
  <2> QED
    BY <1>1, <2>2 DEF EInv, Recording
<1>4. InCycle'
  BY <1>1 DEF EInv, InCycle, Blocks, lastToken
<1>5. Accounted'
  <2>1. /\ counters'.accepted = counters.accepted /\ counters'.cycles = counters.cycles
        /\ counters'.branch_passes = counters.branch_passes
    BY <1>2 DEF EInv, Recording
  <2> QED
    BY <1>1, <2>1 DEF EInv, Accounted, TokensAccounted, PassesAccounted
<1>6. PendingMeasured' /\ EventsMeasured'
  BY <1>1 DEF EInv, PendingMeasured, EventsMeasured
<1> QED
  BY <1>1, <1>3, <1>4, <1>5, <1>6 DEF EInv

\* What a rejection leaves.
LEMMA EscrowProperties ==
  ASSUME EInv, pc = "escrow", Escrows
  PROVE  /\ escrow \in Seq(Token) /\ Len(escrow) \in Nat \ {0} /\ Len(escrow) < job.gamma
         /\ \A i \in 1..(Len(escrow) - 1) : escrow[i] \notin job.eos_ids
<1>1. /\ job \in Jobs /\ block \in Blocks /\ block # <<>>
      /\ acceptance \in 0..Len(block) /\ acceptance + 1 < Len(block)
  BY DEF EInv, LInv, InCycle, Escrows
<1>2. /\ block \in Seq(Token) /\ Len(block) \in 1..job.gamma /\ job.gamma \in Nat
      /\ \A i \in 1..(Len(block) - 1) : block[i] \notin job.eos_ids
  BY <1>1, BlockProperties
<1> DEFINE n == acceptance + 1
<1>3. n \in 0..Len(block) /\ n \in Nat \ {0} /\ n < Len(block)
  BY <1>1, <1>2
<1>4. /\ escrow \in Seq(Token) /\ Len(escrow) = Len(block) - n
      /\ \A i \in 1..(Len(block) - n) : escrow[i] = block[n + i]
  BY <1>2, <1>3, DropProperties DEF escrow
<1> HIDE DEF n
<1>5. ASSUME NEW i \in 1..(Len(escrow) - 1) PROVE escrow[i] \notin job.eos_ids
  <2>1. n + i \in 1..(Len(block) - 1) /\ i \in 1..(Len(block) - n)
    BY <1>2, <1>3, <1>4
  <2> QED
    BY <1>2, <1>4, <2>1
<1>6. Len(escrow) \in Nat \ {0} /\ Len(escrow) < job.gamma
  <2>1. /\ Len(block) \in 1..job.gamma /\ job.gamma \in Nat /\ n \in Nat \ {0}
        /\ n < Len(block) /\ Len(escrow) = Len(block) - n
    BY <1>2, <1>3, <1>4
  <2> QED
    BY ONLY <2>1
<1> QED
  BY <1>4, <1>5, <1>6

\* The event of a rejection is measured by the branch pass, if there is one.
LEMMA EscrowKeepsEInv ==
  ASSUME EInv, Escrow PROVE EInv'
<1>1. /\ LInv /\ LInv' /\ pc = "escrow" /\ pc' = "loop" /\ pending = NoEvent
      /\ block' = <<>> /\ UNCHANGED <<job, committed, events, done>>
  <2>1. [Next]_vars
    BY DEF Next
  <2> QED
    BY <2>1, NextKeepsInv DEF EInv, Escrow, InCycle
<1>2. EventsMeasured'
  BY <1>1 DEF EInv, EventsMeasured
<1>3. CASE ~Escrows
  <2>1. UNCHANGED <<pending, counters>>
    BY <1>3 DEF Escrow
  <2> QED
    BY <1>1, <1>2, <2>1 DEF EInv, Recording, InCycle, Accounted, TokensAccounted,
                            PassesAccounted, PendingMeasured, lastToken
<1>4. CASE Escrows
  <2>1. /\ escrow \in Seq(Token) /\ Len(escrow) \in Nat \ {0} /\ Len(escrow) < job.gamma
        /\ \A i \in 1..(Len(escrow) - 1) : escrow[i] \notin job.eos_ids
    BY <1>1, <1>4, EscrowProperties
  <2>2. /\ committed \in Seq(Token) /\ committed # <<>> /\ session = Between(committed)
        /\ ~done /\ lastToken \notin job.eos_ids
        /\ acceptance \in Nat /\ counters.cycles \in Nat /\ job \in Jobs
    BY <1>1, <1>4 DEF EInv, LInv, OnPath, InCycle, Escrows, Recording
  <2>3. PICK rows \in IF job.branch_verify
                      THEN Rows(job.target, session, <<lastToken>> \o escrow)
                      ELSE {<<>>} :
          /\ pending' = [step |-> counters.cycles, committed_len |-> Len(committed),
                         a |-> acceptance, m |-> Len(escrow), suffix |-> escrow,
                         L_survive_branch |->
                           IF job.branch_verify THEN FirstMismatch(escrow, Front(rows))
                                                ELSE -1,
                         L_fresh |-> -1, L_fresh_censored |-> FALSE]
          /\ counters' = IF job.branch_verify
                         THEN [counters EXCEPT !.branch_passes = @ + 1] ELSE counters
    BY <1>4 DEF Escrow
  <2> DEFINE reading == IF job.branch_verify THEN FirstMismatch(escrow, Front(rows)) ELSE -1
  <2>4. job.branch_verify =>
          /\ Forced(job.target, committed, escrow, Front(rows))
          /\ Front(rows) \in Seq(Token)
    <3> SUFFICES ASSUME job.branch_verify
                 PROVE  /\ Forced(job.target, committed, escrow, Front(rows))
                        /\ Front(rows) \in Seq(Token)
      OBVIOUS
    <3>1. rows \in Rows(job.target, Between(committed), Fed(committed, escrow))
      BY <2>2, <2>3 DEF Fed, lastToken
    <3>2. RowsRead(job.target, committed, escrow, rows)
      BY <2>1, <2>2, <3>1, RowsAreRead
    <3> QED
      BY <3>2 DEF RowsRead, Forced
  <2>5. reading \in Int
    <3>1. CASE job.branch_verify
      <4>1. FirstMismatch(escrow, Front(rows)) \in Nat
        BY <2>1, <2>4, <3>1, FirstMismatchIsGreatest DEF Matches
      <4> QED
        BY <3>1, <4>1
    <3>2. CASE ~job.branch_verify
      BY <3>2
    <3> QED
      BY <3>1, <3>2
  <2>6. Len(committed) \in Nat \ {0}
    BY <2>2, EmptySeq
  <2>7. /\ pending'.committed_len = Len(committed) /\ pending'.m = Len(escrow)
        /\ pending'.suffix = escrow /\ pending'.L_survive_branch = reading
        /\ pending'.L_fresh_censored = FALSE
    BY <2>3
  <2>8. pending' \in EventRecords
    <3> HIDE DEF reading
    <3>1. [step |-> counters.cycles, committed_len |-> Len(committed),
           a |-> acceptance, m |-> Len(escrow), suffix |-> escrow,
           L_survive_branch |-> reading, L_fresh |-> -1, L_fresh_censored |-> FALSE]
            \in EventRecords
      BY <2>1, <2>2, <2>5, <2>6 DEF EventRecords
    <3> QED
      BY <2>3, <3>1 DEF reading
  <2>9. Escrowed(job, pending', committed)
    <3>1. Len(committed) \in Len(job.prompt)..Len(committed)
      <4>1. PICK g \in Seq(Token) : committed = job.prompt \o g
        BY <1>1 DEF LInv, OnPath
      <4>2. job.prompt \in Seq(Token)
        BY <2>2, JobsAreTyped
      <4>3. /\ Len(committed) = Len(job.prompt) + Len(g)
            /\ Len(job.prompt) \in Nat /\ Len(g) \in Nat
        BY <4>1, <4>2, ConcatProperties, LenProperties
      <4> QED
        BY <4>3
    <3>2. committed[Len(committed)] \notin job.eos_ids
      BY <2>2 DEF lastToken, Last
    <3> QED
      BY <2>1, <2>6, <2>7, <3>1, <3>2 DEF Escrowed
  <2>10. job.branch_verify => BranchRead(job, pending', committed)
    <3>1. SubSeq(committed, 1, Len(committed)) = committed
      BY <2>2, SubSeqFull
    <3> QED
      BY <2>4, <2>7, <3>1 DEF BranchRead
  <2>11. PendingMeasured'
    BY <1>1, <2>7, <2>8, <2>9, <2>10 DEF PendingMeasured, Measured
  <2>12. pending' # NoEvent
    BY <2>8, NoEventIsNone
  <2>13. /\ counters' \in [cycles : Nat, main_passes : Nat, branch_passes : Nat, dropped : Nat,
                           checks : Nat, mismatches : Nat, accepted : Nat]
         /\ counters'.accepted = counters.accepted /\ counters'.cycles = counters.cycles
         /\ job.branch_verify => counters'.branch_passes = counters.branch_passes + 1
    <3>1. counters.branch_passes + 1 \in Nat
      BY DEF EInv, Recording
    <3> QED
      BY <2>3, <3>1 DEF EInv, Recording
  <2>14. Recording'
    BY <1>1, <2>8, <2>13 DEF EInv, Recording
  <2>15. InCycle'
    BY <1>1, <2>2 DEF InCycle
  <2>16. TokensAccounted'
    BY <1>1, <2>13 DEF EInv, Accounted, TokensAccounted
  <2>17. PassesAccounted'
    <3>1. job.branch_verify => counters.branch_passes = Len(events) + 0
      BY <1>1 DEF EInv, Accounted, PassesAccounted
    <3>2. Len(events) \in Nat
      BY <1>1, LenProperties DEF EInv, EventsMeasured
    <3>3. job.branch_verify => counters'.branch_passes = Len(events) + 1
      BY <2>13, <3>1, <3>2
    <3>4. pc' # "done"
      BY <1>1
    <3> QED
      BY <1>1, <2>12, <3>3, <3>4 DEF PassesAccounted
  <2> QED
    BY <1>1, <1>2, <2>11, <2>14, <2>15, <2>16, <2>17 DEF EInv, Accounted
<1> QED
  BY <1>3, <1>4

\* The event that is still pending is counted and dropped.
LEMMA FinishKeepsEInv ==
  ASSUME EInv, Finish PROVE EInv'
<1>1. /\ LInv' /\ pc = "finish" /\ pc' = "done"
      /\ UNCHANGED <<job, committed, session, block, acceptance, pending, done>>
      /\ counters' = [counters EXCEPT !.dropped = IF pending = NoEvent THEN 0 ELSE 1]
      /\ events' = [n \in 1..Len(events) |-> Aligned(events[n])]
  <2>1. [Next]_vars
    BY DEF Next
  <2> QED
    BY <2>1, NextKeepsInv DEF EInv, Finish
<1> DEFINE left == IF pending = NoEvent THEN 0 ELSE 1
<1>2. left \in Nat
  OBVIOUS
<1>3. /\ counters' \in [cycles : Nat, main_passes : Nat, branch_passes : Nat, dropped : Nat,
                        checks : Nat, mismatches : Nat, accepted : Nat]
      /\ counters'.accepted = counters.accepted /\ counters'.cycles = counters.cycles
      /\ counters'.branch_passes = counters.branch_passes /\ counters'.dropped = left
  <2>1. counters' = [counters EXCEPT !.dropped = left]
    BY <1>1
  <2> HIDE DEF left
  <2> QED
    BY <1>2, <2>1 DEF EInv, Recording
<1>4. PICK evs \in Seq(EventRecords) : AllMeasured(job, evs, committed, done) /\ events = evs
  BY <1>1 DEF EInv, EventsMeasured
<1>5. \A n \in 1..Len(evs) : Aligned(evs[n])' = Aligned(evs[n])
  BY <1>1 DEF Aligned, Realized
<1>6. EventsMeasured'
  <2>1. events' = [n \in 1..Len(evs) |-> Aligned(evs[n])']
    BY <1>1, <1>4, <1>5
  <2>2. AllMeasured(job', evs, committed', done')
    BY <1>1, <1>4
  <2> QED
    BY <1>1, <2>1, <2>2 DEF EventsMeasured
<1>7. Recording' /\ InCycle'
  BY <1>1, <1>3 DEF EInv, Recording, InCycle, lastToken
<1>8. TokensAccounted'
  BY <1>1, <1>3 DEF EInv, Accounted, TokensAccounted
<1>9. PassesAccounted'
  <2>1. job.branch_verify => counters.branch_passes = Len(events) + left
    BY <1>1 DEF EInv, Accounted, PassesAccounted
  <2>2. Len(events') = Len(events)
    <3>1. Len(events) \in Nat
      BY <1>4, LenProperties
    <3> QED
      BY <1>1, <3>1
  <2> HIDE DEF left
  <2> QED
    BY <1>1, <1>3, <2>1, <2>2 DEF PassesAccounted
<1>10. PendingMeasured'
  BY <1>1 DEF EInv, PendingMeasured
<1> QED
  BY <1>1, <1>6, <1>7, <1>8, <1>9, <1>10 DEF EInv, Accounted

LEMMA NextKeepsEInv == EInv /\ [Next]_vars => EInv'
BY IdleKeepsEInv, VerifyKeepsEInv, CheckKeepsEInv, EscrowKeepsEInv, FinishKeepsEInv DEF Next
-----------------------------------------------------------------------------
(***************************************************************************)
(* What fill_alignment reads off the result.                               *)
(***************************************************************************)

\* What follows a prefix of a greedy path is greedy behind that prefix.
LEMMA GreedyPathRest ==
  ASSUME NEW t, NEW p \in Seq(Token), NEW g \in Seq(Token), GreedyPath(t, p, g),
         NEW c, c = p \o g, NEW n \in Len(p)..Len(c), NEW r \in Seq(Token),
         n + Len(r) <= Len(c), \A i \in 1..Len(r) : r[i] = c[n + i]
  PROVE  GreedyPath(t, SubSeq(c, 1, n), r)
<1>1. /\ c \in Seq(Token) /\ Len(c) = Len(p) + Len(g)
      /\ \A i \in 1..(Len(p) + Len(g)) : c[i] = IF i <= Len(p) THEN p[i] ELSE g[i - Len(p)]
  BY ConcatProperties
<1>2. Len(p) \in Nat /\ Len(g) \in Nat /\ Len(r) \in Nat /\ n \in Nat /\ n \in 0..Len(c)
  BY <1>1, LenProperties
<1>3. ASSUME NEW i \in 1..Len(r)
      PROVE  r[i] \in Greedy(t, SubSeq(c, 1, n) \o SubSeq(r, 1, i - 1))
  <2> DEFINE k == n + i - Len(p)
  <2>1. /\ k \in 1..Len(g) /\ k - 1 \in 0..Len(g) /\ i - 1 \in 0..Len(r)
        /\ n + i \in 1..(Len(p) + Len(g)) /\ ~(n + i <= Len(p))
        /\ Len(p) + (k - 1) = n + (i - 1) /\ n + (i - 1) \in 0..Len(c)
    BY <1>1, <1>2
  <2>2. r[i] = g[k]
    BY <1>1, <2>1
  <2>3. g[k] \in Greedy(t, p \o SubSeq(g, 1, k - 1))
    BY <2>1 DEF GreedyPath
  <2> HIDE DEF k
  <2>4. p \o SubSeq(g, 1, k - 1) = SubSeq(c, 1, n + (i - 1))
    <3>1. SubSeq(p \o g, 1, Len(p) + (k - 1)) = p \o SubSeq(g, 1, k - 1)
      BY <2>1, PrefixOfConcatRight
    <3> QED
      BY <2>1, <3>1
  <2> DEFINE u    == SubSeq(c, 1, n)
             v    == SubSeq(r, 1, i - 1)
             left == SubSeq(c, 1, n + (i - 1))
  <2>5. /\ u \in Seq(Token) /\ Len(u) = n /\ \A j \in 1..n : u[j] = c[j]
    BY <1>1, <1>2, PrefixProperties
  <2>6. /\ v \in Seq(Token) /\ Len(v) = i - 1 /\ \A j \in 1..(i - 1) : v[j] = r[j]
    BY <2>1, PrefixProperties
  <2>7. /\ left \in Seq(Token) /\ Len(left) = n + (i - 1)
        /\ \A j \in 1..(n + (i - 1)) : left[j] = c[j]
    BY <1>1, <2>1, PrefixProperties
  <2> HIDE DEF u, v, left
  <2>8. /\ u \o v \in Seq(Token) /\ Len(u \o v) = Len(u) + Len(v)
        /\ \A j \in 1..(Len(u) + Len(v)) :
             (u \o v)[j] = IF j <= Len(u) THEN u[j] ELSE v[j - Len(u)]
    <3>1. u \in Seq(Token) /\ v \in Seq(Token)
      BY <2>5, <2>6
    <3> QED
      BY ONLY <3>1, ConcatProperties
  <2> DEFINE w == u \o v
  <2> HIDE DEF w
  <2>9. /\ w \in Seq(Token) /\ Len(w) = n + (i - 1)
        /\ \A j \in 1..(n + (i - 1)) : w[j] = IF j <= n THEN u[j] ELSE v[j - n]
    BY <2>5, <2>6, <2>8 DEF w
  <2>10. ASSUME NEW j \in 1..(n + (i - 1)) PROVE left[j] = w[j]
    <3>1. CASE j <= n
      <4>1. j \in 1..n
        BY <1>2, <3>1
      <4> QED
        BY <2>5, <2>7, <2>9, <3>1, <4>1
    <3>2. CASE ~(j <= n)
      <4>1. j - n \in 1..(i - 1) /\ j - n \in 1..Len(r) /\ n + (j - n) = j
        BY <1>2, <3>2
      <4>2. v[j - n] = r[j - n] /\ r[j - n] = c[n + (j - n)]
        BY <2>6, <4>1
      <4> QED
        BY <2>7, <2>9, <3>2, <4>1, <4>2
    <3> QED
      BY <3>1, <3>2
  <2>11. left = w
    BY <2>7, <2>9, <2>10, SeqEqual
  <2> QED
    BY <2>2, <2>3, <2>4, <2>11 DEF left, u, v, w
<1> QED
  BY <1>3 DEF GreedyPath

\* The record of a measured event's continuation.
LEMMA RealizedProperties ==
  ASSUME LInv, NEW e \in EventRecords, Escrowed(job, e, committed)
  PROVE  /\ Realized(e) \in Seq(Token)
         /\ Len(Realized(e)) \in Nat /\ e.committed_len + Len(Realized(e)) <= Len(committed)
         /\ \A i \in 1..Len(Realized(e)) : Realized(e)[i] = committed[e.committed_len + i]
         /\ Len(Realized(e)) < e.m => e.committed_len + Len(Realized(e)) = Len(committed)
         /\ GreedyPath(job.target, SubSeq(committed, 1, e.committed_len), Realized(e))
<1> DEFINE lo   == e.committed_len
           hi   == lo + e.m + job.realized_horizon
           end  == IF hi < Len(committed) THEN hi ELSE Len(committed)
           real == Slice(committed, lo, hi)
<1>1. /\ committed \in Seq(Token) /\ Len(committed) \in Nat /\ job \in Jobs
      /\ job.prompt \in Seq(Token) /\ Len(job.prompt) \in Nat
      /\ job.realized_horizon \in Nat
  BY JobsAreTyped, LenProperties DEF LInv, OnPath
<1>2. e.m \in Nat \ {0} /\ lo \in Len(job.prompt)..Len(committed) /\ lo > 0
  BY DEF Escrowed
<1>3. lo \in 0..Len(committed) /\ hi \in Nat /\ lo <= hi /\ e.m <= hi - lo
  BY <1>1, <1>2
<1> HIDE DEF hi
<1>4. /\ real \in Seq(Token) /\ Len(real) = end - lo
      /\ \A i \in 1..(end - lo) : real[i] = committed[lo + i]
  <2>1. committed \in Seq(Token) /\ lo \in 0..Len(committed) /\ hi \in Nat /\ lo <= hi
    BY <1>1, <1>3
  <2> QED
    BY ONLY <2>1, SliceProperties, Zenon DEF real, end
<1> HIDE DEF real
<1>5. /\ Len(real) \in Nat /\ lo + Len(real) <= Len(committed)
      /\ \A i \in 1..Len(real) : real[i] = committed[lo + i]
      /\ Len(real) < e.m => lo + Len(real) = Len(committed)
  BY <1>1, <1>2, <1>3, <1>4
<1>6. PICK g \in Seq(Token) :
        committed = job.prompt \o g /\ GreedyPath(job.target, job.prompt, g)
  BY DEF LInv, OnPath
<1>7. GreedyPath(job.target, SubSeq(committed, 1, lo), real)
  BY <1>1, <1>2, <1>4, <1>5, <1>6, GreedyPathRest
<1> QED
  BY <1>4, <1>5, <1>7 DEF real, hi, Realized

\* What an aligned event reports.
LEMMA AlignedProperties ==
  ASSUME NEW e
  PROVE  /\ Aligned(e).L_survive = FirstMismatch(e.suffix, Realized(e))
         /\ Aligned(e).L_survive_censored = Censored(e.suffix, Realized(e))
         /\ Aligned(e).L_survive_branch = e.L_survive_branch
         /\ Aligned(e).L_fresh_censored = e.L_fresh_censored
         /\ Aligned(e).L_fresh = e.L_fresh /\ Aligned(e).m = e.m
         /\ Aligned(e).suffix = e.suffix /\ Aligned(e).committed_len = e.committed_len
         /\ <<Aligned(e).L_bridge, Aligned(e).bridge_k>>
              = BestBridge(e.suffix, Realized(e), job.max_bridge)
BY DEF Aligned, BestBridge, Best

\* Each event of the result is a measured event, aligned.
LEMMA ResultOfEvents ==
  ASSUME EInv, pc = "done", NEW n \in 1..Len(events)
  PROVE  \E e \in EventRecords :
           /\ Measured(job, e, committed) /\ events[n] = Aligned(e)
           /\ e.L_fresh_censored => n = Len(events) /\ done
<1>1. PICK evs \in Seq(EventRecords) :
        /\ AllMeasured(job, evs, committed, done)
        /\ events = [k \in 1..Len(evs) |-> Aligned(evs[k])]
  BY DEF EInv, EventsMeasured
<1>2. Len(evs) \in Nat /\ Len(events) = Len(evs)
  <2>1. Len(evs) \in Nat
    BY LenProperties
  <2> QED
    BY <1>1, <2>1
<1>3. n \in 1..Len(evs)
  BY <1>2
<1>4. evs[n] \in EventRecords /\ events[n] = Aligned(evs[n])
  BY <1>1, <1>3, ElementOfSeq
<1> QED
  BY <1>1, <1>2, <1>3, <1>4 DEF AllMeasured

\* The counters of PromptResult account for the result: two invariants of the
\* counters, one through the committed tokens, one through the events.
LEMMA CountersInv == EInv => CountersAccountForResult
<1> SUFFICES ASSUME EInv PROVE CountersAccountForResult
  OBVIOUS
<1>1. PICK g \in Seq(Token) : committed = job.prompt \o g
  BY DEF EInv, LInv, OnPath
<1>2. job.prompt \in Seq(Token)
  BY JobsAreTyped DEF EInv, LInv
<1>3. generated = g /\ Len(g) = Len(committed) - Len(job.prompt)
  <2>1. generated = g
    BY <1>1, <1>2, DropOfConcat DEF generated, prompt_len
  <2>2. Len(job.prompt \o g) = Len(job.prompt) + Len(g)
    BY <1>2, ConcatProperties
  <2>3. Len(job.prompt) \in Nat /\ Len(g) \in Nat
    BY <1>2, LenProperties
  <2> QED
    BY <1>1, <2>1, <2>2, <2>3
<1>4. TokensAccounted /\ PassesAccounted
  BY DEF EInv, Accounted
<1> QED
  <2>1. \/ Len(generated) = counters.accepted + counters.cycles
        \/ done /\ Len(generated) = counters.accepted + counters.cycles - 1
    BY <1>3, <1>4, Zenon DEF TokensAccounted
  <2>2. pc = "done" /\ job.branch_verify =>
          counters.branch_passes = Len(events) + counters.dropped
    BY <1>4 DEF PassesAccounted
  <2> QED
    BY ONLY <2>1, <2>2, Zenon DEF CountersAccountForResult

\* What PromptResult counts adds up: each cycle commits what it accepts and one
\* token, less what an EOS cuts, and each branch pass is an event or the dropped one.
THEOREM CountersAccount == Spec => []CountersAccountForResult
BY CountersInv, InitEInv, NextKeepsEInv, PTL DEF Spec

\* A fresh draft is shorter than the escrow only where it was accepted with its
\* EOS, and then no cycle follows (trace_core.py:292).
LEMMA FreshCensoredInv == EInv => FreshCensoredOnlyAtStop
<1> SUFFICES ASSUME EInv, NEW n \in 1..Len(events), events[n].L_fresh_censored
             PROVE  n = Len(events) /\ lastToken \in job.eos_ids
  BY DEF FreshCensoredOnlyAtStop
<1>1. n = Len(events) /\ done
  <2>1. CASE pc = "done"
    <3>1. PICK e \in EventRecords :
            /\ events[n] = Aligned(e)
            /\ e.L_fresh_censored => n = Len(events) /\ done
      BY <2>1, ResultOfEvents
    <3> QED
      BY <3>1, AlignedProperties
  <2>2. CASE pc # "done"
    <3>1. AllMeasured(job, events, committed, done)
      BY <2>2 DEF EInv, EventsMeasured
    <3> QED
      BY <3>1 DEF AllMeasured
  <2> QED
    BY <2>1, <2>2
<1> QED
  BY <1>1 DEF EInv, InCycle

\* "The fresh draft can only be censored if it EOS'd short of m"
\* (trace_core.py:292), at the last event of the prompt.
THEOREM FreshCensoredAtStop == Spec => []FreshCensoredOnlyAtStop
BY FreshCensoredInv, InitEInv, NextKeepsEInv, PTL DEF Spec

\* A continuation that ends at an EOS does not censor, as an escrow that matched
\* so far would have ended at the EOS as well; nor does the record's own length,
\* as it is cut no shorter than the escrow.
LEMMA CensoredInv == EInv => CensoredOnlyAtOpenEnd
<1> SUFFICES ASSUME EInv, pc = "done", NEW n \in 1..Len(events),
                    events[n].L_survive_censored
             PROVE  /\ lastToken \notin job.eos_ids
                    /\ Len(committed) - events[n].committed_len < events[n].m
  BY DEF CensoredOnlyAtOpenEnd
<1>1. PICK e \in EventRecords : Measured(job, e, committed) /\ events[n] = Aligned(e)
  BY ResultOfEvents
<1>2. e.suffix \in Seq(Token) /\ Escrowed(job, e, committed)
  BY <1>1 DEF EventRecords, Measured
<1> DEFINE real == Realized(e)
           lo   == e.committed_len
<1>3. /\ real \in Seq(Token)
      /\ Len(real) \in Nat /\ lo + Len(real) <= Len(committed)
      /\ \A i \in 1..Len(real) : real[i] = committed[lo + i]
      /\ Len(real) < e.m => lo + Len(real) = Len(committed)
  BY <1>2, RealizedProperties DEF EInv
<1>4. FirstMismatch(e.suffix, real) = Len(real) /\ Len(real) < Len(e.suffix)
  <2> HIDE DEF real
  <2>1. events[n].L_survive_censored = Censored(e.suffix, real)
    BY <1>1, AlignedProperties DEF real
  <2> QED
    BY <2>1 DEF Censored
<1>5. \A i \in 1..Len(real) : e.suffix[i] = real[i]
  BY <1>2, <1>3, <1>4, FirstMismatchIsGreatest DEF Matches
<1>6. /\ e.m = Len(e.suffix) /\ lo \in Nat
      /\ committed[lo] \notin job.eos_ids
      /\ \A i \in 1..(e.m - 1) : e.suffix[i] \notin job.eos_ids
      /\ e.m \in Nat
  BY <1>1, <1>2 DEF Escrowed, EventRecords
<1>7. events[n].committed_len = lo /\ events[n].m = e.m
  <2> HIDE DEF real
  <2> QED
    BY <1>1, AlignedProperties
<1> HIDE DEF real, lo
<1>8. lo + Len(real) = Len(committed) /\ Len(real) \in 0..(e.m - 1)
  BY <1>3, <1>4, <1>6
<1>9. lastToken = committed[lo + Len(real)]
  BY <1>8 DEF lastToken, Last
<1>10. lastToken \notin job.eos_ids
  <2>1. CASE Len(real) = 0
    <3>1. lo + Len(real) = lo
      BY <1>6, <2>1
    <3> QED
      BY <1>6, <1>9, <3>1
  <2>2. CASE Len(real) # 0
    <3>1. Len(real) \in 1..Len(real) /\ Len(real) \in 1..(e.m - 1)
      BY <1>3, <1>8, <2>2
    <3> QED
      BY <1>3, <1>5, <1>6, <1>9, <3>1
  <2> QED
    BY <2>1, <2>2
<1>11. Len(committed) - lo < e.m
  BY <1>3, <1>6, <1>8
<1> QED
  BY <1>7, <1>10, <1>11

\* Survival is censored only where a prompt stops without an EOS, less than an
\* escrow's length behind the event (trace_core.py:66-71).
THEOREM CensoredAtOpenEnd == Spec => []CensoredOnlyAtOpenEnd
BY CensoredInv, InitEInv, NextKeepsEInv, PTL DEF Spec

\* The recorded continuation is long enough for the bridge search
\* (trace_core.py:36-38).
LEMMA HorizonInv == EInv => HorizonSuffices
<1> SUFFICES ASSUME EInv, pc = "done", job.realized_horizon > job.max_bridge,
                    NEW n \in 1..Len(events)
             PROVE  <<events[n].L_bridge, events[n].bridge_k>>
                      = BestBridge(events[n].suffix,
                                   Drop(committed, events[n].committed_len), job.max_bridge)
  BY DEF HorizonSuffices
<1>1. PICK e \in EventRecords : Measured(job, e, committed) /\ events[n] = Aligned(e)
  BY ResultOfEvents
<1>2. /\ e.suffix \in Seq(Token) /\ e.committed_len \in Nat /\ e.m = Len(e.suffix)
      /\ e.committed_len <= Len(committed)
  BY <1>1 DEF EventRecords, Measured, Escrowed
<1>3. /\ committed \in Seq(Token) /\ Len(committed) \in Nat
      /\ job.realized_horizon \in Nat /\ job.max_bridge \in Nat
  BY JobsAreTyped, LenProperties DEF EInv, LInv, OnPath
<1>4. e.committed_len \in 0..Len(committed) /\ job.max_bridge < job.realized_horizon
  BY <1>2, <1>3
<1>5. BestBridge(e.suffix, Realized(e), job.max_bridge)
        = BestBridge(e.suffix, Drop(committed, e.committed_len), job.max_bridge)
  <2>1. Realized(e) = Slice(committed, e.committed_len,
                            e.committed_len + Len(e.suffix) + job.realized_horizon)
    BY <1>2 DEF Realized
  <2>2. BestBridge(e.suffix, Slice(committed, e.committed_len,
                     e.committed_len + Len(e.suffix) + job.realized_horizon), job.max_bridge)
          = BestBridge(e.suffix, Drop(committed, e.committed_len), job.max_bridge)
    <3>1. /\ e.suffix \in Seq(Token) /\ committed \in Seq(Token)
          /\ e.committed_len \in 0..Len(committed)
          /\ job.realized_horizon \in Nat /\ job.max_bridge \in Nat
          /\ job.max_bridge < job.realized_horizon
      BY <1>2, <1>3, <1>4
    <3> QED
      BY ONLY <3>1, BridgeWithinHorizon
  <2> QED
    BY <2>1, <2>2
<1> QED
  BY <1>1, <1>5, AlignedProperties

\* The bridge of the record is the bridge of the whole continuation.
THEOREM HorizonIsEnough == Spec => []HorizonSuffices
BY HorizonInv, InitEInv, NextKeepsEInv, PTL DEF Spec

\* Invariant 2 of trace_core.py for every prompt, draft function and escrow: on
\* targets that do not tie, the free measurement is the branch pass's.
LEMMA SurvivalInv ==
  ASSUME UntiedIsUnique
  PROVE  EInv => SurvivalIsFree
<1> SUFFICES ASSUME EInv, pc = "done", job.branch_verify, job.target \in Untied,
                    NEW n \in 1..Len(events)
             PROVE  IF events[n].L_survive_censored
                    THEN events[n].L_survive <= events[n].L_survive_branch
                    ELSE events[n].L_survive = events[n].L_survive_branch
  BY DEF SurvivalIsFree
<1>1. PICK e \in EventRecords : Measured(job, e, committed) /\ events[n] = Aligned(e)
  BY ResultOfEvents
<1>2. e.suffix \in Seq(Token) /\ Escrowed(job, e, committed) /\ e.committed_len \in Nat
  BY <1>1 DEF EventRecords, Measured
<1>3. PICK choices \in Seq(Token) :
        /\ Forced(job.target, SubSeq(committed, 1, e.committed_len), e.suffix, choices)
        /\ e.L_survive_branch = FirstMismatch(e.suffix, choices)
  BY <1>1 DEF Measured, BranchRead
<1> DEFINE real  == Realized(e)
           known == SubSeq(committed, 1, e.committed_len)
<1>4. real \in Seq(Token) /\ GreedyPath(job.target, known, real)
  BY <1>2, RealizedProperties DEF EInv
<1>5. known \in Seq(Token)
  <2>1. committed \in Seq(Token) /\ Len(committed) \in Nat
    BY LenProperties DEF EInv, LInv, OnPath
  <2>2. e.committed_len \in 0..Len(committed)
    BY <1>2, <2>1 DEF Escrowed
  <2> QED
    BY <2>1, <2>2, PrefixProperties
<1> HIDE DEF real, known
<1>6. Forced(job.target, known, e.suffix, choices)
  BY <1>3 DEF known
<1>7. /\ FirstMismatch(e.suffix, real) <= FirstMismatch(e.suffix, choices)
      /\ ~Censored(e.suffix, real) =>
           FirstMismatch(e.suffix, real) = FirstMismatch(e.suffix, choices)
  BY <1>2, <1>4, <1>5, <1>6, ForcedAgreesWithRealized
<1>8. /\ events[n].L_survive = FirstMismatch(e.suffix, real)
      /\ events[n].L_survive_censored = Censored(e.suffix, real)
      /\ events[n].L_survive_branch = FirstMismatch(e.suffix, choices)
  BY <1>1, <1>3, AlignedProperties DEF real
<1> QED
  BY <1>7, <1>8

\* Invariant 2 of trace_core.py, of every run of the prompt loop.
THEOREM SurvivalIsMeasuredFree ==
  ASSUME UntiedIsUnique
  PROVE  Spec => []SurvivalIsFree
BY SurvivalInv, InitEInv, NextKeepsEInv, PTL DEF Spec

-----------------------------------------------------------------------------
(***************************************************************************)
(* The study: its draft paths drive the prompt loop.                       *)
(***************************************************************************)

(***************************************************************************)
(* The draft session with what is proved of it: P is the instance D of     *)
(* Study, of the module with the proofs.                                   *)
(***************************************************************************)
P == INSTANCE DraftSession_proof WITH
  Models <- JobDrafters, Prompts <- JobPrompts,
  MaxLength <- MaxLength, MaxPrompts <- 1,
  model <- job.drafter, prompts <- 1,
  committed <- IF Driven THEN committed ELSE job.prompt,
  session <- draft_session,
  block <- IF Driven /\ pc = "verify" THEN block ELSE <<>>

LEMMA SessionIsAssumed == P!SessionAssumption
<1>1. \A p \in JobPrompts : p \in Seq(Token) /\ p # <<>>
  BY JobsAreTyped DEF JobPrompts
<1> QED
  BY <1>1, StudyAssumption

\* The operations of the two instances, one by one.
LEMMA SameSteps ==
  /\ \A s, ids : D!Step(s, ids) = P!Step(s, ids)
  /\ \A s : D!Picks(s) = P!Picks(s)
  /\ \A s, n : D!Crop(s, n) = P!Crop(s, n)
  /\ \A b : D!Finished(b) = P!Finished(b)
BY DEF D!Step, P!Step, D!Picks, P!Picks, D!Crop, P!Crop, D!Take, P!Take,
       D!Finished, P!Finished

LEMMA SamePriming ==
  /\ \A s, tokens : D!Primed(s, tokens) = P!Primed(s, tokens)
  /\ \A s, n : D!CropToCommitted(s, n) = P!CropToCommitted(s, n)
BY SameSteps DEF D!Primed, P!Primed, D!CropToCommitted, P!CropToCommitted

LEMMA SameDraftsFrom == \A s : D!DraftsFrom(s) = P!DraftsFrom(s)
BY SameSteps DEF D!DraftsFrom, P!DraftsFrom

LEMMA SameDrafts ==
  /\ \A tokens : D!UncachedDrafts(tokens) = P!UncachedDrafts(tokens)
  /\ \A s, tokens : D!Drafted(s, tokens) = P!Drafted(s, tokens)
  /\ \A s, tokens, agreed : D!Replayed(s, tokens, agreed) = P!Replayed(s, tokens, agreed)
<1>1. \A b : D!Front(b) = P!Front(b)
  BY DEF D!Front, P!Front
<1> QED
  BY <1>1, SameSteps, SamePriming, SameDraftsFrom
     DEF D!UncachedDrafts, P!UncachedDrafts, D!Drafted, P!Drafted, D!Replayed, P!Replayed

\* A draft of the session or of the uncached path is one run_prompt may be given.
LEMMA DraftsAreBlocks ==
  ASSUME job \in Jobs, Drafting
  PROVE  \A s : D!DraftsFrom(s) \subseteq Blocks
<1> SUFFICES ASSUME NEW s, NEW b \in D!DraftsFrom(s) PROVE b \in Blocks
  OBVIOUS
<1>1. job.gamma = gamma /\ job.eos_ids = eos /\ gamma \in Nat
  BY StudyAssumption, JobsAreTyped DEF Drafting
<1>2. PICK n \in 1..gamma :
        /\ b \in [1..n -> Token]
        /\ D!Finished(b)
        /\ \A k \in 1..(Len(b) - 1) : ~D!Finished(SubSeq(b, 1, k))
  BY DEF D!DraftsFrom
<1>3. n \in Nat /\ b \in Seq(Token) /\ Len(b) = n
  BY <1>1, <1>2
<1>4. \A k \in 1..(Len(b) - 1) : b[k] \notin job.eos_ids
  <2> SUFFICES ASSUME NEW k \in 1..(Len(b) - 1) PROVE b[k] \notin job.eos_ids
    OBVIOUS
  <2>1. k \in 0..Len(b) /\ k \in 1..k
    BY <1>3
  <2>2. Len(SubSeq(b, 1, k)) = k /\ SubSeq(b, 1, k)[k] = b[k]
    BY <1>3, <2>1, PrefixProperties
  <2>3. ~D!Finished(SubSeq(b, 1, k))
    BY <1>2
  <2> QED
    BY <1>1, <2>2, <2>3 DEF D!Finished
<1>5. Len(b) = job.gamma \/ b[Len(b)] \in job.eos_ids
  BY <1>1, <1>2 DEF D!Finished
<1>6. b \in UNION {[1..m -> Token] : m \in 1..job.gamma}
  BY <1>1, <1>2
<1> QED
  BY <1>4, <1>5, <1>6 DEF Blocks

\* Each step of the study is a step of the prompt loop or leaves it alone.
LEMMA StudyStep ==
  ASSUME job \in Jobs, [StudyNext]_studyVars
  PROVE  [Next]_vars
<1>1. CASE AnyDraft
  BY <1>1 DEF AnyDraft, Next
<1>2. CASE UncachedDraft
  <2>1. D!UncachedDrafts(committed) \subseteq Blocks
    BY <1>2, DraftsAreBlocks DEF UncachedDraft, D!UncachedDrafts
  <2>2. DraftOf(D!UncachedDrafts(committed))
    BY <1>2 DEF UncachedDraft
  <2>3. Draft
    BY <2>1, <2>2 DEF Draft, DraftOf
  <2> QED
    BY <2>3 DEF Next
<1>3. CASE CachedDraft
  <2>1. PICK d \in D!Drafted(draft_session, committed) : DraftOf({d.block})
    BY <1>3 DEF CachedDraft
  <2>2. d.block \in Blocks
    BY <1>3, <2>1, DraftsAreBlocks DEF CachedDraft, Driven, D!Drafted
  <2>3. Draft
    BY <2>1, <2>2 DEF Draft, DraftOf
  <2> QED
    BY <2>3 DEF Next
<1>4. CASE CrossCheck \/ UNCHANGED studyVars
  BY <1>4 DEF CrossCheck, studyVars
<1>5. CASE StudyVerify \/ RestOfCycle
  BY <1>5 DEF StudyVerify, RestOfCycle, Next
<1> QED
  BY <1>1, <1>2, <1>3, <1>4, <1>5 DEF StudyNext

LEMMA JobIsGiven == StudySpec => [](job \in Jobs)
<1>1. StudyInit => job \in Jobs
  BY DEF StudyInit, Init
<1>2. job \in Jobs /\ [StudyNext]_studyVars => (job \in Jobs)'
  <2> SUFFICES ASSUME job \in Jobs, [StudyNext]_studyVars PROVE job' = job
    OBVIOUS
  <2>1. [Next]_vars
    BY StudyStep
  <2> QED
    BY <2>1 DEF Next, Draft, DraftOf, LoopEnds, Verify, SkipCheck, ParanoidCheck, Escrow,
                Finish, vars
<1> QED
  BY <1>1, <1>2, PTL DEF StudySpec

\* Both draft paths return only blocks run_prompt is written for.
THEOREM StudyRunsPromptLoop == StudySpec => FollowsPromptLoop
<1>1. StudyInit => Init
  BY DEF StudyInit
<1>2. job \in Jobs /\ [StudyNext]_studyVars => [Next]_vars
  BY StudyStep
<1> QED
  BY <1>1, <1>2, JobIsGiven, PTL DEF StudySpec, FollowsPromptLoop

\* Through the draft cache or not, and whatever the draft session's cross-checks
\* find, the study's cache invariant holds.
THEOREM StudyKeepsCache == StudySpec => []CacheInvariant
<1>1. LInv => CacheInvariant
  BY DEF LInv, OnPath, CacheInvariant, Between
<1> QED
  BY <1>1, InitInv, NextKeepsInv, StudyRunsPromptLoop, PTL DEF FollowsPromptLoop

\* The study's output is the target's own greedy continuation.
THEOREM StudyFollowsTarget == StudySpec => []OutputIsGreedy
<1> QED
  BY GreedyInv, InitInv, NextKeepsInv, StudyRunsPromptLoop, PTL DEF FollowsPromptLoop
-----------------------------------------------------------------------------
(***************************************************************************)
(* The study is a run of the draft session: what the prompt loop commits   *)
(* is part of the last draft and one token, and a replay is asked for once *)
(* a cycle, of a draft that differs from the uncached one.                 *)
(***************************************************************************)
Crossed ==
  /\ cross \in [checks : Nat, bad : Nat]
  /\ pc = "verify" => Len(committed) - Len(job.prompt) < job.max_new
  /\ Driven /\ pc = "verify" /\ cross.checks = counters.cycles => replayed = <<>>

\* What the session shows of itself where it is driven.
LEMMA SessionOfStudy ==
  ASSUME EInv, P!DInv, Driven
  PROVE  /\ committed \in Seq(Token) /\ committed # <<>>
         /\ \E n \in 0..Len(committed) : draft_session = P!Holding(committed, n)
         /\ pc = "verify" => block \in P!UncachedDrafts(committed) /\ block # <<>>
BY DEF EInv, InCycle, P!DInv, P!SessionHoldsPrefix, P!DraftIsUncached

LEMMA InitSession == StudyInit => P!Init /\ Crossed
<1> SUFFICES ASSUME StudyInit PROVE P!Init /\ Crossed
  OBVIOUS
<1>1. /\ job \in Jobs /\ pc = "loop" /\ committed = job.prompt
      /\ draft_session = D!NewSession /\ primed = <<>> /\ replayed = <<>>
      /\ cross = [checks |-> 0, bad |-> 0]
  BY DEF StudyInit, Init
<1>2. P!Init
  BY <1>1 DEF P!Init, P!NewSession, D!NewSession, JobDrafters, JobPrompts
<1>3. Crossed
  BY <1>1 DEF Crossed
<1> QED
  BY <1>2, <1>3

\* A step the session does not see.
LEMMA Unseen ==
  ASSUME job' = job, UNCHANGED draftVars, pc # "verify", pc' # "verify",
         Driven => committed' = committed
  PROVE  UNCHANGED P!vars
BY DEF P!vars, Driven, Drafting, draftVars

\* A draft of the driven session is one of the uncached path.
LEMMA CachedIsUncached ==
  ASSUME EInv, P!DInv, Driven, NEW d \in D!Drafted(draft_session, committed)
  PROVE  d.block \in P!UncachedDrafts(committed) /\ d.block # <<>>
<1>1. /\ committed \in Seq(Token) /\ committed # <<>>
      /\ \E n \in 0..Len(committed) : draft_session = P!Holding(committed, n)
  BY SessionOfStudy
<1>2. d \in P!Drafted(draft_session, committed)
  BY SameDrafts
<1>3. d.block \in P!UncachedDrafts(committed)
  BY ONLY <1>1, <1>2, SessionIsAssumed, P!DraftThroughCache
<1>4. d.block # <<>>
  BY ONLY <1>1, <1>3, SessionIsAssumed, P!UncachedDraftsAreGreedy
<1> QED
  BY <1>3, <1>4

LEMMA CachedDraftDrives ==
  ASSUME EInv, P!DInv, CachedDraft
  PROVE  P!Draft
<1>1. Driven /\ pc = "loop" /\ UNCHANGED <<job, committed>> /\ replayed' = <<>>
  BY DEF CachedDraft, DraftOf
<1>2. PICK d \in D!Drafted(draft_session, committed) :
        /\ DraftOf({d.block}) /\ draft_session' = d.session /\ primed' = d.primed
  BY DEF CachedDraft
<1>3. d \in P!Drafted(draft_session, committed)
  BY <1>2, SameDrafts
<1>4. d.block # <<>>
  BY <1>1, CachedIsUncached
<1>5. block' = d.block /\ pc' = "verify" /\ Driven'
  BY <1>1, <1>2, <1>4 DEF DraftOf, Driven, Drafting
<1> QED
  BY <1>1, <1>2, <1>3, <1>5 DEF P!Draft

\* A greedy draft behind the tokens c, ended where it is finished.
IsDraft(t, c, b) ==
  /\ b \in Seq(Token) /\ b # <<>> /\ GreedyPath(t, c, b)
  /\ \A n \in 1..Len(b) : b[n] \in eos \/ n = gamma <=> n = Len(b)

LEMMA UncachedIsDraft ==
  ASSUME NEW c \in Seq(Token), NEW b \in P!UncachedDrafts(c)
  PROVE  IsDraft(job.drafter, c, b)
<1>1. /\ b \in Seq(Token) /\ b # <<>> /\ P!GreedyPath(job.drafter, c, b)
      /\ \A n \in 1..Len(b) : b[n] \in eos \/ n = gamma <=> n = Len(b)
  BY SessionIsAssumed, P!UncachedDraftsAreGreedy
<1> QED
  BY <1>1 DEF IsDraft, GreedyPath, P!GreedyPath

\* Of two finished drafts neither continues the other.
LEMMA MismatchOfDrafts ==
  ASSUME NEW t, NEW c, NEW b, NEW ref, IsDraft(t, c, b), IsDraft(t, c, ref), ref # b
  PROVE  /\ FirstMismatch(b, ref) \in 0..(Len(b) - 1)
         /\ FirstMismatch(b, ref) \in 0..(Len(ref) - 1)
         /\ IsCommonPrefixLength(b, ref, FirstMismatch(b, ref))
<1> DEFINE f == FirstMismatch(b, ref)
<1>1. /\ b \in Seq(Token) /\ ref \in Seq(Token)
      /\ \A n \in 1..Len(b) : b[n] \in eos \/ n = gamma <=> n = Len(b)
      /\ \A n \in 1..Len(ref) : ref[n] \in eos \/ n = gamma <=> n = Len(ref)
      /\ b # <<>> /\ ref # <<>>
  BY DEF IsDraft
<1>2. Len(b) \in Nat \ {0} /\ Len(ref) \in Nat \ {0}
  BY <1>1, EmptySeq, LenProperties
<1>3. f \in Nat /\ f <= Len(b) /\ f <= Len(ref) /\ \A i \in 1..f : b[i] = ref[i]
  BY <1>1, FirstMismatchIsGreatest DEF Matches
<1>4. f < Len(b) /\ f < Len(ref) => b[f + 1] # ref[f + 1]
  BY <1>1, MismatchBehind
<1> HIDE DEF f
<1>5. ASSUME f = Len(b) \/ f = Len(ref) PROVE FALSE
  <2>1. f \in 1..f /\ f \in 1..Len(b) /\ f \in 1..Len(ref)
    BY <1>2, <1>3, <1>5
  <2>2. Len(b) = Len(ref) /\ f = Len(b)
    BY <1>1, <1>3, <1>5, <2>1
  <2>3. ref = b
    BY <1>1, <1>3, <2>2, SeqEqual
  <2> QED
    BY <2>3
<1> QED
  BY <1>2, <1>3, <1>4, <1>5 DEF f, IsCommonPrefixLength

\* A model that does not tie drafts one thing.
LEMMA UntiedDraftsOnce ==
  ASSUME UntiedIsUnique, NEW t \in Untied, NEW c \in Seq(Token),
         NEW b, NEW ref, IsDraft(t, c, b), IsDraft(t, c, ref)
  PROVE  ref = b
<1> SUFFICES ASSUME ref # b PROVE FALSE
  OBVIOUS
<1> DEFINE f == FirstMismatch(b, ref)
<1>1. /\ f \in 0..(Len(b) - 1) /\ f \in 0..(Len(ref) - 1)
      /\ IsCommonPrefixLength(b, ref, f)
  BY MismatchOfDrafts
<1>2. /\ b \in Seq(Token) /\ ref \in Seq(Token)
      /\ GreedyPath(t, c, b) /\ GreedyPath(t, c, ref)
      /\ Len(b) \in Nat /\ Len(ref) \in Nat
  BY LenProperties DEF IsDraft
<1> HIDE DEF f
<1>3. /\ f + 1 \in 1..Len(b) /\ f + 1 \in 1..Len(ref) /\ (f + 1) - 1 = f
      /\ f \in 0..Len(b) /\ f \in 0..Len(ref)
  BY <1>1, <1>2
<1>4. b[f + 1] # ref[f + 1] /\ \A i \in 1..f : b[i] = ref[i]
  BY <1>1, <1>2 DEF IsCommonPrefixLength
<1>5. SubSeq(b, 1, f) = SubSeq(ref, 1, f) /\ SubSeq(b, 1, f) \in Seq(Token)
  <2> DEFINE u == SubSeq(b, 1, f)
             v == SubSeq(ref, 1, f)
  <2>1. /\ u \in Seq(Token) /\ Len(u) = f /\ \A i \in 1..f : u[i] = b[i]
        /\ v \in Seq(Token) /\ Len(v) = f /\ \A i \in 1..f : v[i] = ref[i]
    BY <1>2, <1>3, PrefixProperties
  <2> HIDE DEF u, v
  <2>2. u = v
    BY <1>4, <2>1, SeqEqual
  <2> QED
    BY <2>1, <2>2 DEF u, v
<1>6. c \o SubSeq(b, 1, f) \in Seq(Token)
  BY <1>5, ConcatProperties
<1>7. /\ b[f + 1] \in Greedy(t, c \o SubSeq(b, 1, f))
      /\ ref[f + 1] \in Greedy(t, c \o SubSeq(b, 1, f))
  BY <1>2, <1>3, <1>5 DEF GreedyPath
<1> QED
  BY <1>4, <1>6, <1>7 DEF UntiedIsUnique

LEMMA CrossCheckReplays ==
  ASSUME EInv, P!DInv, Crossed, CrossCheck
  PROVE  P!Replay \/ UNCHANGED P!vars
<1>1. /\ Driven /\ pc = "verify" /\ cross.checks = counters.cycles /\ UNCHANGED vars
  BY DEF CrossCheck, CrossCheckDue
<1>2. /\ committed \in Seq(Token) /\ block \in P!UncachedDrafts(committed) /\ block # <<>>
      /\ replayed = <<>> /\ UNCHANGED <<job, pc, committed, block>>
  BY <1>1, SessionOfStudy DEF Crossed, vars
<1>3. PICK ref \in D!UncachedDrafts(committed) :
        IF ref = block
        THEN /\ cross' = [cross EXCEPT !.checks = @ + 1]
             /\ UNCHANGED <<draft_session, primed, replayed>>
        ELSE LET agreed == SubSeq(block, 1, FirstMismatch(block, ref))
                 replay == D!Replayed(draft_session, committed, agreed)
             IN  /\ cross' = [checks |-> cross.checks + 1, bad |-> cross.bad + 1]
                 /\ draft_session' = replay.session /\ replayed' = replay.fed
                 /\ UNCHANGED primed
  BY DEF CrossCheck
<1>4. CASE ref = block
  BY <1>2, <1>3, <1>4 DEF P!vars, Driven, Drafting
<1>5. CASE ref # block
  <2> DEFINE n == FirstMismatch(block, ref)
  <2>1. ref \in P!UncachedDrafts(committed)
    BY SameDrafts
  <2>2. n \in 0..(Len(block) - 1) /\ IsCommonPrefixLength(block, ref, n)
    BY <1>2, <1>5, <2>1, UncachedIsDraft, MismatchOfDrafts
  <2>3. /\ draft_session' = P!Replayed(draft_session, committed, SubSeq(block, 1, n)).session
        /\ replayed' = P!Replayed(draft_session, committed, SubSeq(block, 1, n)).fed
        /\ UNCHANGED primed
    BY <1>3, <1>5, SameDrafts
  <2>4. P!IsCommonPrefixLength(block, ref, n)
    BY <2>2 DEF IsCommonPrefixLength, P!IsCommonPrefixLength
  <2> HIDE DEF n
  <2> QED
    BY <1>1, <1>2, <1>5, <2>1, <2>2, <2>3, <2>4 DEF P!Replay, Driven, Drafting
<1> QED
  BY <1>4, <1>5

\* What is committed is part of the block and one token more.
LEMMA PieceOfBlock ==
  ASSUME NEW b \in Seq(Token), NEW a, NEW k, NEW piece, CommitOf(b, a, k, piece)
  PROVE  /\ k - 1 \in 0..Len(b) /\ Len(piece) = k /\ k <= Len(b) + 1
         /\ piece[k] \in Token
         /\ piece = Append(SubSeq(b, 1, k - 1), piece[k])
<1>1. /\ a \in 0..Len(b) /\ k \in 1..(a + 1) /\ piece \in Seq(Token) /\ Len(piece) = k
      /\ \A i \in 1..k : i <= a => piece[i] = b[i]
  BY DEF CommitOf
<1>2. Len(b) \in Nat
  BY LenProperties
<1>3. k \in Nat \ {0} /\ k \in 1..k /\ k - 1 \in 0..Len(b) /\ k - 1 \in Nat /\ k <= Len(b) + 1
      /\ \A i \in 1..(k - 1) : i \in 1..k /\ i <= a
  BY <1>1, <1>2
<1>4. piece[k] \in Token
  BY <1>1, <1>3, ElementOfSeq
<1> DEFINE kept == SubSeq(b, 1, k - 1)
<1>5. kept \in Seq(Token) /\ Len(kept) = k - 1 /\ \A i \in 1..(k - 1) : kept[i] = b[i]
  BY <1>3, PrefixProperties
<1> HIDE DEF kept
<1>6. /\ Append(kept, piece[k]) \in Seq(Token)
      /\ Len(Append(kept, piece[k])) = k
      /\ Append(kept, piece[k])[k] = piece[k]
      /\ \A i \in 1..(k - 1) : Append(kept, piece[k])[i] = kept[i]
  BY <1>3, <1>4, <1>5, AppendProperties
<1>7. \A i \in 1..k : piece[i] = Append(kept, piece[k])[i]
  <2> SUFFICES ASSUME NEW i \in 1..k PROVE piece[i] = Append(kept, piece[k])[i]
    OBVIOUS
  <2>1. i = k \/ i \in 1..(k - 1)
    BY <1>3
  <2> QED
    BY <1>1, <1>3, <1>5, <1>6, <2>1
<1>8. piece = Append(kept, piece[k])
  BY <1>1, <1>6, <1>7, SeqEqual
<1> QED
  BY <1>1, <1>3, <1>4, <1>8 DEF kept

LEMMA VerifyDrives ==
  ASSUME EInv, P!DInv, Crossed, StudyVerify
  PROVE  P!Commit \/ UNCHANGED P!vars
<1>1. /\ Verify /\ UNCHANGED draftVars /\ pc = "verify" /\ pc' = "check" /\ job' = job
  BY DEF StudyVerify, Verify
<1>2. LInv /\ block \in Blocks /\ block # <<>>
  BY <1>1 DEF EInv, InCycle
<1>3. CASE ~Driven
  BY <1>1, <1>3 DEF P!vars, Driven, Drafting, draftVars
<1>4. CASE Driven
  <2>1. PICK a, k, piece : Commits(a, k, piece)
    BY <1>1, <1>2, VerifyCommits
  <2>2. committed' = committed \o piece /\ CommitOf(block, a, k, piece)
    BY <2>1 DEF Commits
  <2>3. /\ k - 1 \in 0..Len(block) /\ Len(piece) = k /\ k <= Len(block) + 1
        /\ piece[k] \in Token
        /\ piece = Append(SubSeq(block, 1, k - 1), piece[k])
    BY <1>2, <2>2, PieceOfBlock DEF LInv
  <2>4. Len(committed') <= MaxLength
    <3>1. /\ committed \in Seq(Token) /\ piece \in Seq(Token) /\ job.prompt \in Seq(Token)
          /\ job \in Jobs
      BY <1>2, <2>2, JobsAreTyped DEF LInv, OnPath, CommitOf
    <3>2. /\ Len(committed') = Len(committed) + k
          /\ Len(committed) \in Nat /\ Len(job.prompt) \in Nat
      BY <2>2, <2>3, <3>1, ConcatProperties, LenProperties
    <3>3. Len(block) <= gamma /\ Len(block) \in Nat /\ k <= Len(block) + 1
      BY <1>2, <1>4, <2>3, <3>1, BlockProperties, StudyAssumption DEF Driven, Drafting
    <3>4. /\ Len(job.prompt) + job.max_new + gamma <= MaxLength
          /\ job.max_new \in Int /\ MaxLength \in Nat /\ gamma \in Nat
      BY <1>4, <3>1, StudyAssumption, JobsAreTyped DEF Driven, Drafting
    <3>5. Len(committed) - Len(job.prompt) < job.max_new
      BY <1>1 DEF Crossed
    <3>6. \A c, p, m, g, l, n \in Int :
            p + m + g <= l /\ c - p < m /\ n <= g + 1 => c + n <= l
      OBVIOUS
    <3>7. k \in Int /\ k <= gamma + 1
      BY <2>3, <3>3, <3>4
    <3> QED
      BY <3>2, <3>4, <3>5, <3>6, <3>7
  <2>5. /\ (IF Driven THEN committed ELSE job.prompt) = committed
        /\ (IF Driven THEN committed ELSE job.prompt)' = committed'
        /\ (IF Driven /\ pc = "verify" THEN block ELSE <<>>) = block
        /\ (IF Driven /\ pc = "verify" THEN block ELSE <<>>)' = <<>>
    BY <1>1, <1>4 DEF Driven, Drafting
  <2>6. \E n \in 0..Len(block), token \in Token :
          committed' = committed \o Append(SubSeq(block, 1, n), token)
    BY <2>2, <2>3
  <2> QED
    BY <1>1, <1>2, <2>4, <2>5, <2>6 DEF P!Commit, draftVars
<1> QED
  BY <1>3, <1>4

\* Each step of the study is a step of the session or leaves it alone.
LEMMA SessionStep ==
  ASSUME EInv, P!DInv, Crossed, [StudyNext]_studyVars
  PROVE  [P!Next]_(P!vars)
<1>1. CASE AnyDraft \/ UncachedDraft
  <2>1. ~Driven /\ UNCHANGED <<job, draftVars>>
    BY <1>1 DEF AnyDraft, UncachedDraft, Draft, DraftOf, Driven, Drafting
  <2> QED
    BY <2>1 DEF P!vars, Driven, Drafting, draftVars
<1>2. CASE CachedDraft
  BY <1>2, CachedDraftDrives DEF P!Next
<1>3. CASE CrossCheck
  BY <1>3, CrossCheckReplays DEF P!Next
<1>4. CASE StudyVerify
  BY <1>4, VerifyDrives DEF P!Next
<1>5. CASE RestOfCycle
  <2>1. /\ UNCHANGED <<job, committed, draftVars>>
        /\ pc # "verify" /\ pc' # "verify"
    BY <1>5 DEF RestOfCycle, LoopEnds, SkipCheck, ParanoidCheck, Escrow, Finish
  <2> QED
    BY <2>1, Unseen
<1>6. CASE UNCHANGED studyVars
  BY <1>6 DEF studyVars, vars, draftVars, P!vars, Driven, Drafting
<1> QED
  BY <1>1, <1>2, <1>3, <1>4, <1>5, <1>6 DEF StudyNext

LEMMA CrossedStep ==
  ASSUME EInv, Crossed, [StudyNext]_studyVars
  PROVE  Crossed'
<1>1. CASE AnyDraft \/ UncachedDraft
  <2>1. ~Driven /\ UNCHANGED <<job, committed, draftVars>> /\ More
    BY <1>1 DEF AnyDraft, UncachedDraft, Draft, DraftOf, Driven, Drafting
  <2> QED
    BY <2>1 DEF Crossed, Driven, Drafting, draftVars, More, prompt_len
<1>2. CASE CachedDraft
  <2>1. UNCHANGED <<job, committed, cross>> /\ More /\ replayed' = <<>>
    BY <1>2 DEF CachedDraft, DraftOf
  <2> QED
    BY <2>1 DEF Crossed, More, prompt_len
<1>3. CASE CrossCheck
  <2>1. UNCHANGED vars /\ cross.checks = counters.cycles
        /\ (cross' = [cross EXCEPT !.checks = @ + 1]
             \/ cross' = [checks |-> cross.checks + 1, bad |-> cross.bad + 1])
    BY <1>3 DEF CrossCheck, CrossCheckDue
  <2>2. cross' \in [checks : Nat, bad : Nat] /\ cross'.checks = cross.checks + 1
    BY <2>1 DEF Crossed
  <2>3. cross'.checks # counters'.cycles
    BY <2>1, <2>2 DEF Crossed, vars
  <2> QED
    BY <2>1, <2>2, <2>3 DEF Crossed, vars
<1>4. CASE StudyVerify \/ RestOfCycle
  <2>1. UNCHANGED <<draftVars>> /\ pc' # "verify"
    BY <1>4 DEF StudyVerify, Verify, RestOfCycle, LoopEnds, SkipCheck, ParanoidCheck,
                Escrow, Finish
  <2> QED
    BY <2>1 DEF Crossed, draftVars
<1>5. CASE UNCHANGED studyVars
  BY <1>5 DEF studyVars, vars, draftVars, Crossed, Driven, Drafting
<1> QED
  BY <1>1, <1>2, <1>3, <1>4, <1>5 DEF StudyNext

\* The two instances take the same steps.
LEMMA SameActions ==
  /\ P!Init => D!Init
  /\ [P!Next]_(P!vars) => [D!Next]_(D!vars)
<1>1. P!Init => D!Init
  BY DEF P!Init, D!Init, P!NewSession, D!NewSession
<1>2. P!Draft => D!Draft
  BY SameDrafts DEF P!Draft, D!Draft
<1>3. P!Replay => D!Replay
  BY SameDrafts DEF P!Replay, D!Replay, P!IsCommonPrefixLength, D!IsCommonPrefixLength
<1>4. P!Commit => D!Commit
  BY DEF P!Commit, D!Commit
<1>5. P!NextPrompt => D!NextPrompt
  BY DEF P!NextPrompt, D!NextPrompt, P!Reset, D!Reset, P!NewSession, D!NewSession
<1>6. UNCHANGED P!vars => UNCHANGED D!vars
  BY DEF P!vars, D!vars
<1> QED
  BY <1>1, <1>2, <1>3, <1>4, <1>5, <1>6 DEF P!Next, D!Next

(***************************************************************************)
(* The invariant of the study: those of the prompt loop and of the draft   *)
(* session, each of which the other's step keeps.                          *)
(***************************************************************************)
CoreInv == EInv /\ P!DInv /\ Crossed

LEMMA InitCore == StudyInit => CoreInv
<1> SUFFICES ASSUME StudyInit PROVE CoreInv
  OBVIOUS
<1>1. EInv
  BY InitEInv DEF StudyInit
<1>2. P!DInv
  BY InitSession, SessionIsAssumed, P!InitDInv
<1> QED
  BY <1>1, <1>2, InitSession DEF CoreInv

LEMMA CoreStep ==
  ASSUME CoreInv, [StudyNext]_studyVars
  PROVE  CoreInv' /\ [Next]_vars /\ [P!Next]_(P!vars)
<1>1. [Next]_vars
  BY StudyStep DEF CoreInv, EInv, LInv
<1>2. EInv'
  BY <1>1, NextKeepsEInv DEF CoreInv
<1>3. [P!Next]_(P!vars)
  BY SessionStep DEF CoreInv
<1>4. P!DInv'
  BY <1>3, SessionIsAssumed, P!StepDInv DEF CoreInv
<1>5. Crossed'
  BY CrossedStep DEF CoreInv
<1> QED
  BY <1>1, <1>2, <1>3, <1>4, <1>5 DEF CoreInv

LEMMA CoreInvariance == StudySpec => []CoreInv
<1>1. CoreInv /\ [StudyNext]_studyVars => CoreInv'
  BY CoreStep
<1> QED
  BY <1>1, InitCore, PTL DEF StudySpec

\* The prompt loop keeps the contract the draft session is written against
\* ("committed is append-only within a prompt"), cross-checks and replays
\* included.
THEOREM StudyRunsDraftSession == StudySpec => FollowsDraftSession
<1>1. StudyInit => D!Init
  BY InitSession, SameActions
<1>2. CoreInv /\ [StudyNext]_studyVars => [D!Next]_(D!vars)
  BY CoreStep, SameActions
<1> QED
  BY <1>1, <1>2, CoreInvariance, PTL DEF StudySpec, FollowsDraftSession, D!Spec

-----------------------------------------------------------------------------
(***************************************************************************)
(* What the study measures of its draft model.  As in the prompt loop, the *)
(* invariant says what an event knows in terms later commits leave alone:  *)
(* a draft behind the event's prefix, and how far it was accepted.         *)
(***************************************************************************)
BlockIsDraft == Drafting /\ pc = "verify" => IsDraft(job.drafter, committed, block)

FreshOf(t, e, c) ==
  \E b, a :
    /\ IsDraft(t, SubSeq(c, 1, e.committed_len), b)
    /\ a \in 0..Len(b) /\ e.committed_len + a <= Len(c)
    /\ \A i \in 1..a : c[e.committed_len + i] = b[i]
    /\ a < Len(b) =>
         e.committed_len + a < Len(c) /\ c[e.committed_len + (a + 1)] # b[a + 1]
    /\ e.L_fresh = IF a < e.m THEN a ELSE e.m

FreshKnown ==
  Drafting => \A n \in 1..Len(events) : FreshOf(job.drafter, events[n], committed)

NothingRejected ==
  job.drafter = job.target /\ job.target \in Untied =>
    /\ pending = NoEvent /\ events = <<>>
    /\ pc \in {"check", "escrow"} => acceptance = Len(block)

\* Later commits change nothing about the fresh draft.
LEMMA FreshStays ==
  ASSUME NEW t, NEW e, NEW c \in Seq(Token), NEW piece \in Seq(Token),
         e.committed_len \in 0..Len(c), FreshOf(t, e, c)
  PROVE  FreshOf(t, e, c \o piece)
<1> DEFINE w == c \o piece
           n == e.committed_len
<1>1. /\ Len(w) = Len(c) + Len(piece) /\ Len(c) \in Nat /\ Len(piece) \in Nat
      /\ \A i \in 1..(Len(c) + Len(piece)) :
           w[i] = IF i <= Len(c) THEN c[i] ELSE piece[i - Len(c)]
  BY ConcatProperties, LenProperties
<1>2. SubSeq(w, 1, n) = SubSeq(c, 1, n)
  BY PrefixOfConcatLeft
<1> HIDE DEF w
<1>3. \A i \in 1..Len(c) : w[i] = c[i]
  BY <1>1
<1>4. PICK b, a :
        /\ IsDraft(t, SubSeq(c, 1, n), b)
        /\ a \in 0..Len(b) /\ n + a <= Len(c)
        /\ \A i \in 1..a : c[n + i] = b[i]
        /\ a < Len(b) => n + a < Len(c) /\ c[n + (a + 1)] # b[a + 1]
        /\ e.L_fresh = IF a < e.m THEN a ELSE e.m
  BY DEF FreshOf
<1>5. a \in Nat /\ n \in Nat
  <2>1. Len(b) \in Nat
    BY <1>4, LenProperties DEF IsDraft
  <2> QED
    BY <1>1, <1>4, <2>1
<1>6. n + a <= Len(w) /\ (n + a < Len(c) => n + a < Len(w))
  BY <1>1, <1>4, <1>5
<1>7. \A i \in 1..a : w[n + i] = b[i]
  <2> SUFFICES ASSUME NEW i \in 1..a PROVE w[n + i] = b[i]
    OBVIOUS
  <2>1. n + i \in 1..Len(c)
    BY <1>1, <1>4, <1>5
  <2> QED
    BY <1>3, <1>4, <2>1
<1>8. a < Len(b) => w[n + (a + 1)] # b[a + 1]
  <2> SUFFICES ASSUME a < Len(b) PROVE w[n + (a + 1)] # b[a + 1]
    OBVIOUS
  <2>1. n + (a + 1) \in 1..Len(c)
    BY <1>1, <1>4, <1>5
  <2> QED
    BY <1>3, <1>4, <2>1
<1> QED
  BY <1>2, <1>4, <1>6, <1>7, <1>8 DEF FreshOf, w

\* The block of the cycle behind an event is its fresh draft.
LEMMA FreshIsRecorded ==
  ASSUME NEW t, NEW e \in EventRecords, NEW c \in Seq(Token), NEW b, NEW a, NEW k, NEW piece,
         e.committed_len = Len(c), IsDraft(t, c, b), CommitOf(b, a, k, piece)
  PROVE  FreshOf(t, Paired(e, a, Len(b)), c \o piece)
<1> DEFINE w == c \o piece
           n == Len(c)
           p == Paired(e, a, Len(b))
<1>1. /\ b \in Seq(Token) /\ a \in 0..Len(b) /\ k \in 1..(a + 1)
      /\ piece \in Seq(Token) /\ Len(piece) = k
      /\ \A i \in 1..k : i <= a => piece[i] = b[i]
      /\ a < Len(b) => k = a + 1 /\ piece[k] # b[k]
      /\ k = a + 1 \/ k = a
  BY DEF IsDraft, CommitOf
<1>2. Len(b) \in Nat /\ n \in Nat /\ a \in Nat /\ k \in Nat \ {0} /\ k \in 1..k
  <2>1. Len(b) \in Nat /\ n \in Nat
    BY <1>1, LenProperties
  <2> QED
    BY <1>1, <2>1
<1>3. /\ Len(w) = n + k
      /\ \A i \in 1..k : w[n + i] = piece[i]
  BY <1>1, <1>2, LastOfCommitted
<1>4. SubSeq(w, 1, n) = c
  <2>1. n \in 0..Len(c)
    BY <1>2
  <2>2. SubSeq(w, 1, n) = SubSeq(c, 1, n)
    BY <1>1, <2>1, PrefixOfConcatLeft
  <2> QED
    BY <2>2, SubSeqFull
<1>5. /\ p.committed_len = n /\ p.m = e.m
      /\ p.L_fresh = IF a < e.m THEN a ELSE e.m
  BY DEF Paired, EventRecords
<1> HIDE DEF w, n, p
<1>6. \A i \in 1..a : w[n + i] = b[i]
  <2> SUFFICES ASSUME NEW i \in 1..a PROVE w[n + i] = b[i]
    OBVIOUS
  <2>1. i \in 1..k /\ i <= a
    BY <1>1, <1>2
  <2> QED
    BY <1>1, <1>3, <2>1
<1>7. n + a <= Len(w)
  BY <1>1, <1>2, <1>3
<1>8. a < Len(b) => n + a < Len(w) /\ w[n + (a + 1)] # b[a + 1]
  BY <1>1, <1>2, <1>3
<1> QED
  BY <1>1, <1>4, <1>5, <1>6, <1>7, <1>8 DEF FreshOf, w, p

\* A model that does not tie would have drafted what was measured.
LEMMA FreshIsUnique ==
  ASSUME UntiedIsUnique, NEW t \in Untied, NEW e, NEW c \in Seq(Token),
         e.committed_len \in 0..Len(c), e.m \in Nat, FreshOf(t, e, c),
         NEW draft, IsDraft(t, Take(c, e.committed_len), draft)
  PROVE  e.L_fresh = Min({e.m, FirstMismatch(draft, Drop(c, e.committed_len))})
<1> DEFINE n == e.committed_len
           rest == Drop(c, n)
<1>1. Len(c) \in Nat /\ n \in Nat /\ n <= Len(c)
  BY LenProperties
<1>2. PICK b, a :
        /\ IsDraft(t, SubSeq(c, 1, n), b)
        /\ a \in 0..Len(b) /\ n + a <= Len(c)
        /\ \A i \in 1..a : c[n + i] = b[i]
        /\ a < Len(b) => n + a < Len(c) /\ c[n + (a + 1)] # b[a + 1]
        /\ e.L_fresh = IF a < e.m THEN a ELSE e.m
  BY DEF FreshOf
<1>3. Take(c, n) = SubSeq(c, 1, n)
  <2>1. (IF n < Len(c) THEN n ELSE Len(c)) = n
    BY <1>1
  <2> QED
    BY <2>1 DEF Take
<1>4. SubSeq(c, 1, n) \in Seq(Token)
  BY PrefixProperties
<1>5. draft = b
  BY <1>2, <1>3, <1>4, UntiedDraftsOnce
<1>6. /\ rest \in Seq(Token) /\ Len(rest) = Len(c) - n
      /\ \A i \in 1..(Len(c) - n) : rest[i] = c[n + i]
  BY DropProperties
<1> HIDE DEF rest, n
<1>7. b \in Seq(Token) /\ Len(b) \in Nat /\ a \in Nat
  <2>1. b \in Seq(Token) /\ Len(b) \in Nat
    BY <1>2, LenProperties DEF IsDraft
  <2> QED
    BY <1>2, <2>1
<1>8. Matches(b, rest, a)
  <2>1. a <= Len(b) /\ a <= Len(rest)
    BY <1>1, <1>2, <1>6, <1>7
  <2>2. \A i \in 1..a : i \in 1..(Len(c) - n)
    BY <1>1, <1>2, <1>7
  <2> QED
    BY <1>2, <1>6, <1>7, <2>1, <2>2 DEF Matches
<1>9. a = Len(b) \/ b[a + 1] # rest[a + 1]
  <2>1. a < Len(b) => a + 1 \in 1..(Len(c) - n)
    BY <1>1, <1>2, <1>7
  <2> QED
    BY <1>2, <1>6, <1>7, <2>1
<1>10. FirstMismatch(draft, rest) = a
  BY <1>5, <1>6, <1>7, <1>8, <1>9, FirstMismatchIs
<1>11. Min({e.m, a}) = IF e.m <= a THEN e.m ELSE a
  BY <1>7, MinOfTwo
<1>12. e.L_fresh = Min({e.m, a})
  BY <1>2, <1>7, <1>11
<1> QED
  BY <1>10, <1>12 DEF rest, n

-----------------------------------------------------------------------------
(***************************************************************************)
(* The steps of the study keep all of this.                                *)
(***************************************************************************)
LEMMA BlockStep ==
  ASSUME CoreInv, BlockIsDraft, [StudyNext]_studyVars
  PROVE  BlockIsDraft'
<1>1. committed \in Seq(Token)
  BY DEF CoreInv, EInv, LInv, OnPath
<1>2. CASE UncachedDraft
  <2>1. block' \in P!UncachedDrafts(committed) /\ UNCHANGED <<job, committed>>
    BY <1>2, SameDrafts DEF UncachedDraft, DraftOf
  <2>2. IsDraft(job.drafter, committed, block')
    BY <1>1, <2>1, UncachedIsDraft
  <2> QED
    BY <2>1, <2>2 DEF BlockIsDraft, Drafting
<1>3. CASE CachedDraft
  <2>1. PICK d \in D!Drafted(draft_session, committed) : DraftOf({d.block})
    BY <1>3 DEF CachedDraft
  <2>2. block' = d.block /\ UNCHANGED <<job, committed>> /\ Driven
    BY <1>3, <2>1 DEF DraftOf, CachedDraft
  <2>3. block' \in P!UncachedDrafts(committed)
    BY <2>2, CachedIsUncached DEF CoreInv
  <2>4. IsDraft(job.drafter, committed, block')
    BY <1>1, <2>3, UncachedIsDraft
  <2> QED
    BY <2>2, <2>4 DEF BlockIsDraft, Drafting
<1>4. CASE AnyDraft
  BY <1>4 DEF AnyDraft, Draft, DraftOf, BlockIsDraft, Drafting
<1>5. CASE CrossCheck \/ UNCHANGED studyVars
  BY <1>5 DEF CrossCheck, studyVars, vars, BlockIsDraft, Drafting
<1>6. CASE StudyVerify \/ RestOfCycle
  <2>1. pc' # "verify"
    BY <1>6 DEF StudyVerify, Verify, RestOfCycle, LoopEnds, SkipCheck, ParanoidCheck,
                Escrow, Finish
  <2> QED
    BY <2>1 DEF BlockIsDraft
<1> QED
  BY <1>2, <1>3, <1>4, <1>5, <1>6 DEF StudyNext

\* Where an event's prefix ends, while the loop runs and in the result.
LEMMA EventPlaces ==
  ASSUME EInv
  PROVE  /\ committed \in Seq(Token)
         /\ \A n \in 1..Len(events) :
              events[n].committed_len \in 0..Len(committed) /\ events[n].m \in Nat
         /\ pc # "done" => events \in Seq(EventRecords)
<1>1. /\ committed \in Seq(Token) /\ Len(committed) \in Nat /\ Len(job.prompt) \in Nat
  BY JobsAreTyped, LenProperties DEF EInv, LInv, OnPath
<1>2. \A e : Measured(job, e, committed) =>
               e.committed_len \in 0..Len(committed) /\ e.m \in Nat
  <2> SUFFICES ASSUME NEW e, Measured(job, e, committed)
               PROVE  e.committed_len \in 0..Len(committed) /\ e.m \in Nat
    OBVIOUS
  <2>1. e.committed_len \in Len(job.prompt)..Len(committed) /\ e.m \in Nat
    BY DEF Measured, Escrowed
  <2> QED
    BY <1>1, <2>1
<1>3. CASE pc = "done"
  <2> SUFFICES ASSUME NEW n \in 1..Len(events)
               PROVE  events[n].committed_len \in 0..Len(committed) /\ events[n].m \in Nat
    BY <1>1, <1>3
  <2>1. PICK e \in EventRecords : Measured(job, e, committed) /\ events[n] = Aligned(e)
    BY <1>3, ResultOfEvents
  <2>2. events[n].committed_len = e.committed_len /\ events[n].m = e.m
    BY <2>1, AlignedProperties
  <2> QED
    BY <1>2, <2>1, <2>2
<1>4. CASE pc # "done"
  <2>1. events \in Seq(EventRecords) /\ AllMeasured(job, events, committed, done)
    BY <1>4 DEF EInv, EventsMeasured
  <2> QED
    BY <1>1, <1>2, <2>1 DEF AllMeasured
<1> QED
  BY <1>3, <1>4

LEMMA VerifyKeepsFresh ==
  ASSUME CoreInv, BlockIsDraft, FreshKnown, Verify, Drafting
  PROVE  FreshKnown'
<1>1. /\ EInv /\ LInv /\ pc = "verify" /\ job' = job /\ block \in Blocks /\ block # <<>>
      /\ IsDraft(job.drafter, committed, block)
  BY DEF CoreInv, EInv, InCycle, BlockIsDraft, Verify
<1>2. PICK a, k, piece : Commits(a, k, piece)
  BY <1>1, VerifyCommits
<1>3. /\ CommitOf(block, a, k, piece) /\ piece \in Seq(Token)
      /\ committed' = committed \o piece
      /\ events' = IF pending = NoEvent THEN events
                   ELSE Append(events, Paired(pending, a, Len(block)))
  BY <1>2 DEF Commits, CommitOf
<1>4. /\ committed \in Seq(Token) /\ events \in Seq(EventRecords)
      /\ \A n \in 1..Len(events) : events[n].committed_len \in 0..Len(committed)
  BY <1>1, EventPlaces
<1>5. \A n \in 1..Len(events) : FreshOf(job.drafter, events[n], committed \o piece)
  <2> SUFFICES ASSUME NEW n \in 1..Len(events)
               PROVE  FreshOf(job.drafter, events[n], committed \o piece)
    OBVIOUS
  <2>1. FreshOf(job.drafter, events[n], committed)
    BY DEF FreshKnown
  <2> QED
    BY <1>3, <1>4, <2>1, FreshStays
<1>6. CASE pending = NoEvent
  BY <1>1, <1>3, <1>5, <1>6 DEF FreshKnown, Drafting
<1>7. CASE pending # NoEvent
  <2> DEFINE p == Paired(pending, a, Len(block))
  <2>1. pending \in EventRecords /\ pending.committed_len = Len(committed)
    BY <1>1, <1>7 DEF EInv, PendingMeasured, Measured
  <2>2. FreshOf(job.drafter, p, committed \o piece)
    BY <1>1, <1>3, <1>4, <2>1, FreshIsRecorded
  <2>3. /\ events' = Append(events, p)
        /\ Len(events') = Len(events) + 1 /\ Len(events) \in Nat
        /\ events'[Len(events) + 1] = p
        /\ \A n \in 1..Len(events) : events'[n] = events[n]
    <3> DEFINE S == EventRecords \union {p}
    <3>1. events \in Seq(S) /\ p \in S
      BY <1>4
    <3> HIDE DEF p, S
    <3>2. /\ Len(Append(events, p)) = Len(events) + 1
          /\ Append(events, p)[Len(events) + 1] = p
          /\ \A n \in 1..Len(events) : Append(events, p)[n] = events[n]
          /\ Len(events) \in Nat
      BY <3>1, AppendProperties, LenProperties
    <3> QED
      BY <1>3, <1>7, <3>2 DEF p
  <2> HIDE DEF p
  <2>4. \A n \in 1..Len(events') : n \in 1..Len(events) \/ n = Len(events) + 1
    BY <2>3
  <2>5. \A n \in 1..Len(events') : FreshOf(job.drafter, events'[n], committed \o piece)
    BY <1>5, <2>2, <2>3, <2>4
  <2>6. job'.drafter = job.drafter
    BY <1>1
  <2> QED
    BY <1>3, <2>5, <2>6 DEF FreshKnown
<1> QED
  BY <1>6, <1>7

LEMMA FreshStep ==
  ASSUME CoreInv, BlockIsDraft, FreshKnown, [StudyNext]_studyVars
  PROVE  FreshKnown'
<1>1. CASE AnyDraft \/ UncachedDraft \/ CachedDraft \/ CrossCheck \/ UNCHANGED studyVars
  <2>1. UNCHANGED <<job, committed, events>>
    BY <1>1 DEF AnyDraft, Draft, UncachedDraft, CachedDraft, DraftOf, CrossCheck, studyVars,
                vars
  <2> QED
    BY <2>1 DEF FreshKnown, Drafting
<1>2. CASE StudyVerify
  <2>1. Verify /\ job' = job
    BY <1>2 DEF StudyVerify, Verify
  <2>2. CASE Drafting
    BY <2>1, <2>2, VerifyKeepsFresh
  <2>3. CASE ~Drafting
    BY <2>1, <2>3 DEF FreshKnown, Drafting
  <2> QED
    BY <2>2, <2>3
<1>3. CASE RestOfCycle
  <2>1. CASE Finish
    <3>1. /\ UNCHANGED <<job, committed>>
          /\ events' = [n \in 1..Len(events) |-> Aligned(events[n])]
      BY <2>1 DEF Finish
    <3>2. Len(events) \in Nat
      <4>1. pc # "done" /\ EInv
        BY <2>1 DEF Finish, CoreInv
      <4> QED
        BY <4>1, EventPlaces, LenProperties
    <3>3. Len(events') = Len(events) /\ \A n \in 1..Len(events) : events'[n] = Aligned(events[n])
      BY <3>1, <3>2
    <3>4. \A e : FreshOf(job.drafter, e, committed) => FreshOf(job.drafter, Aligned(e), committed)
      BY AlignedProperties DEF FreshOf
    <3> QED
      BY <3>1, <3>3, <3>4 DEF FreshKnown, Drafting
  <2>2. CASE LoopEnds \/ SkipCheck \/ ParanoidCheck \/ Escrow
    <3>1. UNCHANGED <<job, committed, events>>
      BY <2>2 DEF LoopEnds, SkipCheck, ParanoidCheck, Escrow
    <3> QED
      BY <3>1 DEF FreshKnown, Drafting
  <2> QED
    BY <1>3, <2>1, <2>2 DEF RestOfCycle
<1> QED
  BY <1>1, <1>2, <1>3 DEF StudyNext

\* A target that does not tie accepts all of its own draft.
LEMMA AcceptsItsOwn ==
  ASSUME UntiedIsUnique, LInv, Verify, block \in Blocks, block # <<>>,
         job.target \in Untied, GreedyPath(job.target, committed, block)
  PROVE  acceptance' = Len(block)
<1>1. /\ job \in Jobs /\ committed \in Seq(Token) /\ committed # <<>>
      /\ session = Between(committed)
  BY DEF LInv, OnPath
<1>2. block \in Seq(Token) /\ Len(block) \in Nat
  BY <1>1, BlockProperties, LenProperties
<1>3. PICK rows \in Rows(job.target, session, Fed(committed, block)), a \in 0..Len(block) :
        IsCommonPrefixLength(block, Front(rows), a) /\ acceptance' = a
  BY DEF Verify, lastToken, Fed
<1>4. RowsRead(job.target, committed, block, rows)
  <2>1. rows \in Rows(job.target, Between(committed), Fed(committed, block))
    BY <1>1
  <2> QED
    BY <1>1, <1>2, <2>1, RowsAreRead
<1>5. /\ Len(Front(rows)) = Len(block)
      /\ \A i \in 1..Len(block) :
           Front(rows)[i] \in Greedy(job.target, committed \o SubSeq(block, 1, i - 1))
  BY <1>4 DEF RowsRead, Forced
<1>6. ASSUME a < Len(block) PROVE FALSE
  <2>1. a + 1 \in 1..Len(block) /\ (a + 1) - 1 = a /\ a \in 0..Len(block)
    BY <1>2, <1>6
  <2>2. block[a + 1] # Front(rows)[a + 1]
    BY <1>3, <1>5, <1>6 DEF IsCommonPrefixLength
  <2>3. SubSeq(block, 1, a) \in Seq(Token)
    BY <1>2, <2>1, PrefixProperties
  <2>4. committed \o SubSeq(block, 1, a) \in Seq(Token)
    BY <1>1, <2>3, ConcatProperties
  <2>5. /\ block[a + 1] \in Greedy(job.target, committed \o SubSeq(block, 1, a))
        /\ Front(rows)[a + 1] \in Greedy(job.target, committed \o SubSeq(block, 1, a))
    BY <1>5, <2>1 DEF GreedyPath
  <2>6. \A x, y \in Greedy(job.target, committed \o SubSeq(block, 1, a)) : x = y
    BY <2>4, Zenon DEF UntiedIsUnique
  <2> QED
    BY <2>2, <2>5, <2>6, Zenon
<1> QED
  BY <1>2, <1>3, <1>6

LEMMA RejectStep ==
  ASSUME UntiedIsUnique, CoreInv, BlockIsDraft, NothingRejected, [StudyNext]_studyVars
  PROVE  NothingRejected'
<1>0. job' = job
  BY CoreStep DEF Next, Draft, DraftOf, LoopEnds, Verify, SkipCheck, ParanoidCheck, Escrow,
                  Finish, vars
<1> SUFFICES ASSUME job.drafter = job.target, job.target \in Untied
             PROVE  /\ pending' = NoEvent /\ events' = <<>>
                    /\ pc' \in {"check", "escrow"} => acceptance' = Len(block')
  BY <1>0 DEF NothingRejected
<1>1. /\ pending = NoEvent /\ events = <<>>
      /\ pc \in {"check", "escrow"} => acceptance = Len(block)
  BY DEF NothingRejected
<1>2. Drafting
  BY AnyDraftsIsNone DEF Drafting
<1>3. CASE AnyDraft \/ UncachedDraft \/ CachedDraft
  <2>1. UNCHANGED <<pending, events>> /\ pc' \in {"finish", "verify"}
    BY <1>3 DEF AnyDraft, Draft, UncachedDraft, CachedDraft, DraftOf
  <2> QED
    BY <1>1, <2>1
<1>4. CASE CrossCheck \/ UNCHANGED studyVars
  BY <1>1, <1>4 DEF CrossCheck, studyVars, vars
<1>5. CASE StudyVerify
  <2>1. Verify /\ LInv /\ pc = "verify" /\ block' = block
    BY <1>5 DEF StudyVerify, Verify, CoreInv, EInv
  <2>2. block \in Blocks /\ block # <<>> /\ IsDraft(job.drafter, committed, block)
    BY <1>2, <2>1 DEF CoreInv, EInv, InCycle, BlockIsDraft
  <2>3. acceptance' = Len(block)
    BY <2>1, <2>2, AcceptsItsOwn DEF IsDraft
  <2>4. pending' = NoEvent /\ events' = events
    BY <1>1, <2>1 DEF Verify
  <2> QED
    BY <1>1, <2>1, <2>3, <2>4
<1>6. CASE RestOfCycle
  <2>1. CASE LoopEnds \/ SkipCheck \/ ParanoidCheck
    BY <1>1, <2>1 DEF LoopEnds, SkipCheck, ParanoidCheck
  <2>2. CASE Escrow
    <3>1. ~Escrows
      <4>1. acceptance = Len(block) /\ block \in Seq(Token)
        BY <1>1, <2>2 DEF Escrow, CoreInv, EInv, LInv
      <4>2. ~(acceptance < Len(block))
        BY <4>1, LenProperties
      <4> QED
        BY <4>2 DEF Escrows
    <3> QED
      BY <1>1, <2>2, <3>1 DEF Escrow
  <2>3. CASE Finish
    <3>1. events' = [n \in 1..Len(events) |-> Aligned(events[n])] /\ UNCHANGED pending
          /\ pc' = "done"
      BY <2>3 DEF Finish
    <3>2. events' = <<>>
      BY <1>1, <3>1
    <3> QED
      BY <1>1, <3>1, <3>2
  <2> QED
    BY <1>6, <2>1, <2>2, <2>3 DEF RestOfCycle
<1> QED
  BY <1>3, <1>4, <1>5, <1>6 DEF StudyNext

\* On a target that does not tie, the cached prediction is the cache-free one.
LEMMA CachedPredictionIsFull ==
  ASSUME UntiedIsUnique, LInv, job.target \in Untied,
         NEW x \in Greedy(job.target, committed),
         NEW y \in Row(job.target, session, <<lastToken>>)
  PROVE  x = y
<1>1. /\ committed \in Seq(Token) /\ committed # <<>> /\ session = Between(committed)
  BY DEF LInv, OnPath
<1>2. /\ Len(Front(committed)) = Len(committed) - 1
      /\ Front(committed) \o <<lastToken>> = committed
  BY <1>1, FrontAndLast DEF lastToken
<1>3. /\ session.cache = Front(committed) /\ session.cache_len = Len(session.cache)
  BY <1>1, <1>2 DEF Between
<1>4. y \in Greedy(job.target, committed)
  BY <1>2, <1>3 DEF Row
<1>5. \A u, v \in Greedy(job.target, committed) : u = v
  BY <1>1, Zenon DEF UntiedIsUnique
<1> QED
  BY <1>4, <1>5, Zenon

LEMMA QuietStep ==
  ASSUME UntiedIsUnique, CoreInv, BlockIsDraft, ChecksAreQuiet, [StudyNext]_studyVars
  PROVE  ChecksAreQuiet'
<1>0. /\ committed \in Seq(Token) /\ LInv
      /\ counters \in [cycles : Nat, main_passes : Nat, branch_passes : Nat, dropped : Nat,
                       checks : Nat, mismatches : Nat, accepted : Nat]
      /\ cross \in [checks : Nat, bad : Nat]
  BY DEF CoreInv, EInv, LInv, OnPath, Recording, Crossed
<1>1. job' = job
  BY CoreStep DEF Next, Draft, DraftOf, LoopEnds, Verify, SkipCheck, ParanoidCheck, Escrow,
                  Finish, vars
<1>2. job.target \in Untied => counters'.mismatches = counters.mismatches
  <2>1. CASE AnyDraft \/ UncachedDraft \/ CachedDraft \/ CrossCheck \/ UNCHANGED studyVars
    BY <2>1 DEF AnyDraft, Draft, UncachedDraft, CachedDraft, DraftOf, CrossCheck, studyVars,
                vars
  <2>2. CASE StudyVerify
    <3>1. LInv /\ Verify /\ block \in Blocks /\ block # <<>>
      BY <1>0, <2>2 DEF StudyVerify, CoreInv, EInv, InCycle, Verify
    <3>2. PICK a, k, piece : Commits(a, k, piece)
      BY <3>1, VerifyCommits
    <3> QED
      BY <1>0, <3>2 DEF Commits
  <2>3. CASE ParanoidCheck
    <3>1. PICK g_full \in Greedy(job.target, committed),
               g_cached \in Row(job.target, session, <<lastToken>>) :
            counters' = [counters EXCEPT !.checks = @ + 1,
                            !.mismatches = IF g_full = g_cached THEN @ ELSE @ + 1]
      BY <2>3 DEF ParanoidCheck
    <3>2. job.target \in Untied => g_full = g_cached
      BY <1>0, CachedPredictionIsFull
    <3> QED
      BY <1>0, <3>1, <3>2
  <2>4. CASE LoopEnds \/ SkipCheck \/ Escrow \/ Finish
    <3>1. \/ counters' = counters
          \/ counters' = [counters EXCEPT !.branch_passes = @ + 1]
          \/ \E x : counters' = [counters EXCEPT !.dropped = x]
      BY <2>4 DEF LoopEnds, SkipCheck, Escrow, Finish
    <3> QED
      BY <1>0, <3>1
  <2> QED
    BY <2>1, <2>2, <2>3, <2>4 DEF StudyNext, RestOfCycle
<1>3. Drafting /\ job.drafter \in Untied => cross'.bad = cross.bad
  <2>1. CASE CrossCheck
    <3> SUFFICES ASSUME Drafting, job.drafter \in Untied PROVE cross'.bad = cross.bad
      OBVIOUS
    <3>1. PICK ref \in D!UncachedDrafts(committed) :
            IF ref = block THEN cross' = [cross EXCEPT !.checks = @ + 1] ELSE TRUE
      BY <2>1 DEF CrossCheck
    <3>2. IsDraft(job.drafter, committed, ref)
      BY <1>0, SameDrafts, UncachedIsDraft
    <3>3. IsDraft(job.drafter, committed, block)
      BY <2>1 DEF BlockIsDraft, CrossCheck, CrossCheckDue
    <3>4. ref = block
      BY <1>0, <3>2, <3>3, UntiedDraftsOnce
    <3> QED
      BY <1>0, <3>1, <3>4
  <2>2. CASE ~CrossCheck
    <3>1. cross' = cross
      BY <2>2 DEF StudyNext, AnyDraft, UncachedDraft, CachedDraft, StudyVerify, RestOfCycle,
                  studyVars, draftVars
    <3> QED
      BY <3>1
  <2> QED
    BY <2>1, <2>2
<1> QED
  BY <1>1, <1>2, <1>3 DEF ChecksAreQuiet, Drafting

LEMMA BlocksAreDrafts == StudySpec => [](CoreInv /\ BlockIsDraft)
<1>1. StudyInit => CoreInv /\ BlockIsDraft
  BY InitCore DEF StudyInit, Init, BlockIsDraft
<1>2. CoreInv /\ BlockIsDraft /\ [StudyNext]_studyVars => (CoreInv /\ BlockIsDraft)'
  BY CoreStep, BlockStep
<1> QED
  BY <1>1, <1>2, PTL DEF StudySpec

\* The self-checks raise no false alarm: on models that do not tie the cached
\* prediction is the cache-free one, the target's and the draft model's.
THEOREM StudyChecksAreQuiet ==
  ASSUME UntiedIsUnique
  PROVE  StudySpec => []ChecksAreQuiet
<1>1. StudyInit => ChecksAreQuiet
  BY DEF StudyInit, Init, ChecksAreQuiet
<1>2. CoreInv /\ BlockIsDraft /\ ChecksAreQuiet /\ [StudyNext]_studyVars => ChecksAreQuiet'
  BY QuietStep
<1> QED
  BY <1>1, <1>2, BlocksAreDrafts, PTL DEF StudySpec

\* --self-test: a model that drafts for itself and does not tie never has an event,
\* pending or recorded, through the draft cache or not.
THEOREM SelfTestRejectsNothing ==
  ASSUME UntiedIsUnique
  PROVE  StudySpec => []SelfTestNeverRejects
<1>1. StudyInit => NothingRejected
  BY DEF StudyInit, Init, NothingRejected
<1>2. CoreInv /\ BlockIsDraft /\ NothingRejected /\ [StudyNext]_studyVars => NothingRejected'
  BY RejectStep
<1>3. NothingRejected => SelfTestNeverRejects
  BY DEF NothingRejected, SelfTestNeverRejects
<1> QED
  BY <1>1, <1>2, <1>3, BlocksAreDrafts, PTL DEF StudySpec

\* The paired comparison is fair ("this cycle's block IS the fresh draft from the
\* same corrected prefix", trace_core.py:288): what is measured a cycle later is
\* what a model that does not tie would have drafted at the event, uncached.
THEOREM PairingIsFair ==
  ASSUME UntiedIsUnique
  PROVE  StudySpec => []FreshIsTheDraft
<1>1. StudyInit => FreshKnown
  BY DEF StudyInit, Init, FreshKnown
<1>2. CoreInv /\ BlockIsDraft /\ FreshKnown /\ [StudyNext]_studyVars => FreshKnown'
  BY FreshStep
<1>3. CoreInv /\ FreshKnown => FreshIsTheDraft
  <2> SUFFICES ASSUME CoreInv, FreshKnown, Drafting, job.drafter \in Untied,
                      NEW n \in 1..Len(events),
                      NEW draft \in D!UncachedDrafts(Take(committed, events[n].committed_len))
               PROVE  events[n].L_fresh
                        = Min({events[n].m,
                               FirstMismatch(draft, Drop(committed, events[n].committed_len))})
    BY DEF FreshIsTheDraft
  <2>1. /\ committed \in Seq(Token)
        /\ events[n].committed_len \in 0..Len(committed) /\ events[n].m \in Nat
    BY EventPlaces DEF CoreInv
  <2>2. FreshOf(job.drafter, events[n], committed)
    BY DEF FreshKnown
  <2>3. Take(committed, events[n].committed_len) \in Seq(Token)
    <3>1. (IF events[n].committed_len < Len(committed)
           THEN events[n].committed_len ELSE Len(committed)) = events[n].committed_len
      BY <2>1, LenProperties
    <3> QED
      BY <2>1, <3>1, PrefixProperties DEF Take
  <2>4. IsDraft(job.drafter, Take(committed, events[n].committed_len), draft)
    BY <2>3, SameDrafts, UncachedIsDraft
  <2> QED
    BY <2>1, <2>2, <2>4, FreshIsUnique
<1> QED
  BY <1>1, <1>2, <1>3, BlocksAreDrafts, PTL DEF StudySpec

\* What the prompt loop measures and counts is as sound in the study, whichever
\* draft path it takes.
THEOREM StudyMeasures ==
  StudySpec => [](/\ CountersAccountForResult /\ FreshCensoredOnlyAtStop
                  /\ CensoredOnlyAtOpenEnd /\ HorizonSuffices)
<1>1. CoreInv => /\ CountersAccountForResult /\ FreshCensoredOnlyAtStop
                 /\ CensoredOnlyAtOpenEnd /\ HorizonSuffices
  BY CountersInv, FreshCensoredInv, CensoredInv, HorizonInv DEF CoreInv
<1> QED
  BY <1>1, CoreInvariance, PTL

\* Invariant 2 of trace_core.py in the study.
THEOREM StudyMeasuresSurvival ==
  ASSUME UntiedIsUnique
  PROVE  StudySpec => []SurvivalIsFree
<1>1. CoreInv => SurvivalIsFree
  BY SurvivalInv DEF CoreInv
<1> QED
  BY <1>1, CoreInvariance, PTL

=============================================================================
