-------------------------- MODULE GreedyPathTheorems --------------------------
(***************************************************************************)
(* Lemmas about the operators of Verification: prefixes of sequences,      *)
(* greedy paths, and the blocks a verification justifies committing; about *)
(* the alignment functions, whose least and greatest elements stand in for *)
(* induction; and about sums over finite sets.                             *)
(***************************************************************************)
EXTENDS Verification, Alignment, SequenceTheorems, FiniteSetTheorems, WellFoundedInduction, TLAPS

-----------------------------------------------------------------------------
(***************************************************************************)
(* tokens[:n].                                                             *)
(***************************************************************************)

\* The first n elements of a sequence.
LEMMA PrefixProperties ==
  ASSUME NEW S, NEW s \in Seq(S), NEW n \in 0..Len(s)
  PROVE  /\ SubSeq(s, 1, n) \in Seq(S)
         /\ Len(SubSeq(s, 1, n)) = n
         /\ \A i \in 1..n : SubSeq(s, 1, n)[i] = s[i]
<1>1. \A i \in 1..n : s[i] \in S
  BY ElementOfSeq
<1>2. Len(s) \in Nat
  BY LenProperties
<1> QED
  BY <1>1, <1>2, SubSeqProperties

\* A prefix of a prefix.
LEMMA PrefixOfPrefix ==
  ASSUME NEW S, NEW s \in Seq(S), NEW n \in 0..Len(s), NEW k \in 0..n
  PROVE  SubSeq(SubSeq(s, 1, n), 1, k) = SubSeq(s, 1, k)
<1> DEFINE left == SubSeq(SubSeq(s, 1, n), 1, k)
           right == SubSeq(s, 1, k)
<1>1. Len(s) \in Nat /\ k \in 0..Len(s)
  BY LenProperties
<1>2. /\ left \in Seq(S) /\ Len(left) = k
      /\ \A i \in 1..k : left[i] = s[i]
  BY <1>1, PrefixProperties
<1>3. /\ right \in Seq(S) /\ Len(right) = k
      /\ \A i \in 1..k : right[i] = s[i]
  BY <1>1, PrefixProperties
<1> HIDE DEF left, right
<1>4. left = right
  BY <1>2, <1>3, SeqEqual
<1> QED
  BY <1>4 DEF left, right

\* A prefix of a concatenation that ends in its first part.
LEMMA PrefixOfConcatLeft ==
  ASSUME NEW S, NEW s \in Seq(S), NEW u \in Seq(S), NEW k \in 0..Len(s)
  PROVE  SubSeq(s \o u, 1, k) = SubSeq(s, 1, k)
<1> DEFINE left == SubSeq(s \o u, 1, k)
           right == SubSeq(s, 1, k)
<1>1. /\ Len(s) \in Nat /\ Len(u) \in Nat
      /\ s \o u \in Seq(S) /\ Len(s \o u) = Len(s) + Len(u)
      /\ \A i \in 1..Len(s) : (s \o u)[i] = s[i]
  BY LenProperties, ConcatProperties
<1>2. /\ left \in Seq(S) /\ Len(left) = k
      /\ \A i \in 1..k : left[i] = s[i]
  BY <1>1, PrefixProperties
<1>3. /\ right \in Seq(S) /\ Len(right) = k
      /\ \A i \in 1..k : right[i] = s[i]
  BY <1>1, PrefixProperties
<1> HIDE DEF left, right
<1>4. left = right
  BY <1>2, <1>3, SeqEqual
<1> QED
  BY <1>4 DEF left, right

\* A prefix of a concatenation that reaches its second part.
LEMMA PrefixOfConcatRight ==
  ASSUME NEW S, NEW s \in Seq(S), NEW u \in Seq(S), NEW k \in 0..Len(u)
  PROVE  SubSeq(s \o u, 1, Len(s) + k) = s \o SubSeq(u, 1, k)
<1> DEFINE left == SubSeq(s \o u, 1, Len(s) + k)
           right == s \o SubSeq(u, 1, k)
<1>1. /\ Len(s) \in Nat /\ Len(u) \in Nat
      /\ s \o u \in Seq(S) /\ Len(s \o u) = Len(s) + Len(u)
      /\ \A i \in 1..(Len(s) + Len(u)) :
            (s \o u)[i] = IF i <= Len(s) THEN s[i] ELSE u[i - Len(s)]
  BY LenProperties, ConcatProperties
<1>2. /\ left \in Seq(S) /\ Len(left) = Len(s) + k
      /\ \A i \in 1..(Len(s) + k) : left[i] = (s \o u)[i]
  BY <1>1, PrefixProperties
<1>3. /\ SubSeq(u, 1, k) \in Seq(S) /\ Len(SubSeq(u, 1, k)) = k
      /\ \A i \in 1..k : SubSeq(u, 1, k)[i] = u[i]
  BY PrefixProperties
<1>4. /\ right \in Seq(S) /\ Len(right) = Len(s) + k
      /\ \A i \in 1..(Len(s) + k) :
            right[i] = IF i <= Len(s) THEN s[i] ELSE SubSeq(u, 1, k)[i - Len(s)]
  BY <1>3, ConcatProperties
<1> HIDE DEF left, right
<1>5. ASSUME NEW i \in 1..(Len(s) + k)
      PROVE  left[i] = right[i]
  <2>1. CASE i <= Len(s)
    BY <1>1, <1>2, <1>4, <2>1
  <2>2. CASE i > Len(s)
    <3>1. /\ i - Len(s) \in 1..k /\ i \in 1..(Len(s) + Len(u)) /\ ~(i <= Len(s))
      BY <1>1, <2>2
    <3>2. left[i] = u[i - Len(s)]
      BY <1>1, <1>2, <3>1
    <3>3. right[i] = SubSeq(u, 1, k)[i - Len(s)]
      BY <1>4, <3>1
    <3> QED
      BY <1>3, <3>1, <3>2, <3>3
  <2> QED
    BY <1>1, <2>1, <2>2
<1>6. left = right
  BY <1>2, <1>4, <1>5, SeqEqual
<1> QED
  BY <1>6 DEF left, right

-----------------------------------------------------------------------------
(***************************************************************************)
(* Greedy paths.                                                           *)
(***************************************************************************)

\* What a stop token or a budget cuts off leaves a greedy path.
LEMMA GreedyPathPrefix ==
  ASSUME NEW t, NEW p, NEW s \in Seq(Token), NEW n \in 0..Len(s),
         GreedyPath(t, p, s)
  PROVE  GreedyPath(t, p, SubSeq(s, 1, n))
<1> DEFINE cut == SubSeq(s, 1, n)
<1>1. /\ Len(s) \in Nat
      /\ cut \in Seq(Token) /\ Len(cut) = n /\ \A i \in 1..n : cut[i] = s[i]
  BY LenProperties, PrefixProperties
<1>2. ASSUME NEW i \in 1..n
      PROVE  cut[i] \in Greedy(t, p \o SubSeq(cut, 1, i - 1))
  <2>1. SubSeq(cut, 1, i - 1) = SubSeq(s, 1, i - 1)
    BY PrefixOfPrefix
  <2>2. s[i] \in Greedy(t, p \o SubSeq(s, 1, i - 1))
    <3>1. i \in 1..Len(s)
      BY <1>1
    <3> QED
      BY <3>1 DEF GreedyPath
  <2> QED
    BY <1>1, <2>1, <2>2
<1> QED
  BY <1>1, <1>2 DEF GreedyPath

\* The prefix after two more pieces of output.
LEMMA ExtendedPrefix ==
  \A p, s, u \in Seq(Token) : p \o (s \o u) = (p \o s) \o u
BY ConcatAssociative

\* A greedy path is continued by a greedy path under the longer prefix.
LEMMA GreedyPathConcat ==
  ASSUME NEW t, NEW p \in Seq(Token), NEW s \in Seq(Token), NEW u \in Seq(Token),
         GreedyPath(t, p, s), GreedyPath(t, p \o s, u)
  PROVE  GreedyPath(t, p, s \o u)
<1> DEFINE whole == s \o u
<1>1. /\ Len(s) \in Nat /\ Len(u) \in Nat
      /\ whole \in Seq(Token) /\ Len(whole) = Len(s) + Len(u)
      /\ \A i \in 1..(Len(s) + Len(u)) :
            whole[i] = IF i <= Len(s) THEN s[i] ELSE u[i - Len(s)]
  BY LenProperties, ConcatProperties
<1>2. ASSUME NEW i \in 1..Len(s)
      PROVE  whole[i] \in Greedy(t, p \o SubSeq(whole, 1, i - 1))
  <2>1. SubSeq(whole, 1, i - 1) = SubSeq(s, 1, i - 1)
    BY <1>1, PrefixOfConcatLeft
  <2>2. s[i] \in Greedy(t, p \o SubSeq(s, 1, i - 1))
    BY DEF GreedyPath
  <2>3. whole[i] = s[i]
    BY <1>1
  <2> QED
    BY <2>1, <2>2, <2>3
<1>3. ASSUME NEW i \in 1..Len(u)
      PROVE  whole[Len(s) + i] \in Greedy(t, p \o SubSeq(whole, 1, Len(s) + i - 1))
  <2>1. i - 1 \in 0..Len(u) /\ Len(s) + i - 1 = Len(s) + (i - 1)
    BY <1>1
  <2>2. SubSeq(whole, 1, Len(s) + i - 1) = s \o SubSeq(u, 1, i - 1)
    BY <2>1, PrefixOfConcatRight
  <2>3. p \o (s \o SubSeq(u, 1, i - 1)) = (p \o s) \o SubSeq(u, 1, i - 1)
    <3>1. SubSeq(u, 1, i - 1) \in Seq(Token)
      BY <2>1, PrefixProperties
    <3> QED
      BY <3>1, ExtendedPrefix
  <2>4. u[i] \in Greedy(t, (p \o s) \o SubSeq(u, 1, i - 1))
    BY DEF GreedyPath
  <2>5. whole[Len(s) + i] = u[i]
    <3>1. Len(s) + i \in 1..(Len(s) + Len(u)) /\ ~(Len(s) + i <= Len(s))
          /\ (Len(s) + i) - Len(s) = i
      BY <1>1
    <3> HIDE DEF whole
    <3> QED
      BY <1>1, <3>1
  <2> QED
    BY <2>2, <2>3, <2>4, <2>5
<1>4. ASSUME NEW i \in 1..Len(whole)
      PROVE  whole[i] \in Greedy(t, p \o SubSeq(whole, 1, i - 1))
  <2>1. CASE i <= Len(s)
    BY <1>1, <1>2, <2>1
  <2>2. CASE i > Len(s)
    <3>1. i - Len(s) \in 1..Len(u) /\ Len(s) + (i - Len(s)) = i
      BY <1>1, <2>2
    <3> QED
      BY <1>3, <3>1
  <2> QED
    BY <1>1, <2>1, <2>2
<1> QED
  BY <1>4 DEF GreedyPath
-----------------------------------------------------------------------------
(***************************************************************************)
(* What a verification justifies committing.                               *)
(***************************************************************************)

\* The parts of a VerificationResult.
LEMMA VerificationProperties ==
  ASSUME NEW t, NEW p, NEW c \in Seq(Token), NEW v \in VerifyGreedy(t, p, c)
  PROVE  /\ v \in Verifications
         /\ v.candidate_tokens = c
         /\ v.greedy_match_length \in 0..Len(c)
         /\ v.target_tokens \in Seq(Token) /\ Len(v.target_tokens) = Len(c)
         /\ \A i \in 1..Len(c) :
               v.target_tokens[i] \in Greedy(t, p \o SubSeq(c, 1, i - 1))
         /\ \A i \in 1..v.greedy_match_length : c[i] = v.target_tokens[i]
<1>1. /\ v.candidate_tokens = c
      /\ v.greedy_match_length \in 0..Len(c)
      /\ v.target_tokens \in TeacherForced(t, p, c)
      /\ IsCommonPrefixLength(c, v.target_tokens, v.greedy_match_length)
      /\ v = [candidate_tokens |-> v.candidate_tokens, target_tokens |-> v.target_tokens,
              greedy_match_length |-> v.greedy_match_length]
  BY DEF VerifyGreedy
<1>2. /\ v.target_tokens \in [1..Len(c) -> Token]
      /\ \A i \in 1..Len(c) :
            v.target_tokens[i] \in Greedy(t, p \o SubSeq(c, 1, i - 1))
  BY <1>1 DEF TeacherForced
<1>3. Len(c) \in Nat
  BY LenProperties
<1>4. v.target_tokens \in Seq(Token) /\ Len(v.target_tokens) = Len(c)
  BY <1>2, <1>3
<1>5. v \in Verifications
  BY <1>1, <1>3, <1>4 DEF Verifications
<1>6. \A i \in 1..v.greedy_match_length : c[i] = v.target_tokens[i]
  BY <1>1 DEF IsCommonPrefixLength
<1> QED
  BY <1>1, <1>2, <1>4, <1>5, <1>6

\* The matched prefix of a candidate is a greedy path, however wrong the rest
\* of the candidate is.
LEMMA MatchedPrefixIsGreedy ==
  ASSUME NEW t, NEW p, NEW c \in Seq(Token), NEW v \in VerifyGreedy(t, p, c)
  PROVE  GreedyPath(t, p, SubSeq(c, 1, v.greedy_match_length))
<1> DEFINE m       == v.greedy_match_length
           matched == SubSeq(c, 1, m)
<1>1. /\ Len(c) \in Nat /\ m \in 0..Len(c)
      /\ \A i \in 1..m : c[i] = v.target_tokens[i]
      /\ \A i \in 1..Len(c) : v.target_tokens[i] \in Greedy(t, p \o SubSeq(c, 1, i - 1))
  BY LenProperties, VerificationProperties
<1>2. Len(matched) = m /\ \A i \in 1..m : matched[i] = c[i]
  BY <1>1, PrefixProperties
<1>3. ASSUME NEW i \in 1..m
      PROVE  matched[i] \in Greedy(t, p \o SubSeq(matched, 1, i - 1))
  <2>1. i \in 1..Len(c) /\ i - 1 \in 0..m
    BY <1>1
  <2>2. SubSeq(matched, 1, i - 1) = SubSeq(c, 1, i - 1)
    BY <1>1, <2>1, PrefixOfPrefix
  <2>3. matched[i] = v.target_tokens[i]
    BY <1>1, <1>2
  <2> QED
    BY <1>1, <2>1, <2>2, <2>3
<1> QED
  BY <1>2, <1>3 DEF GreedyPath

\* Accepted prefix and correction, or the whole candidate: never empty, never
\* longer than the candidate, and a greedy path.
LEMMA OrdinaryCommitIsGreedy ==
  ASSUME NEW t, NEW p \in Seq(Token), NEW c \in Seq(Token), c # <<>>,
         NEW v \in VerifyGreedy(t, p, c)
  PROVE  /\ OrdinaryCommit(v) \in Seq(Token)
         /\ Len(OrdinaryCommit(v)) \in 1..Len(c)
         /\ GreedyPath(t, p, OrdinaryCommit(v))
<1> DEFINE m        == v.greedy_match_length
           accepted == SubSeq(c, 1, m)
<1>1. /\ v.candidate_tokens = c /\ m \in 0..Len(c)
      /\ v.target_tokens \in Seq(Token) /\ Len(v.target_tokens) = Len(c)
      /\ \A i \in 1..Len(c) : v.target_tokens[i] \in Greedy(t, p \o SubSeq(c, 1, i - 1))
  BY VerificationProperties
<1>2. Len(c) \in Nat /\ Len(c) > 0
  BY EmptySeq, LenProperties
<1>3. accepted \in Seq(Token) /\ Len(accepted) = m /\ GreedyPath(t, p, accepted)
  BY <1>1, PrefixProperties, MatchedPrefixIsGreedy
<1>4. CASE FullyMatches(v)
  <2>1. m = Len(c)
    BY <1>1, <1>4 DEF FullyMatches
  <2>2. accepted = c
    BY <2>1, SubSeqFull
  <2> QED
    <3>1. OrdinaryCommit(v) = c
      BY <1>1, <1>4 DEF OrdinaryCommit
    <3>2. GreedyPath(t, p, c)
      BY <1>3, <2>2
    <3> QED
      BY <1>2, <3>1, <3>2
<1>5. CASE ~FullyMatches(v)
  <2> DEFINE correction == TargetCorrection(v)
  <2>1. m + 1 \in 1..Len(c)
    BY <1>1, <1>2, <1>5 DEF FullyMatches
  <2>2. correction \in Token /\ correction \in Greedy(t, p \o accepted)
    <3>1. correction = v.target_tokens[m + 1]
      BY DEF TargetCorrection
    <3>2. v.target_tokens[m + 1] \in Greedy(t, p \o SubSeq(c, 1, (m + 1) - 1))
      BY <1>1, <2>1
    <3>3. (m + 1) - 1 = m
      BY <1>1
    <3>4. v.target_tokens[m + 1] \in Token
      BY <1>1, <2>1, ElementOfSeq
    <3> QED
      BY <3>1, <3>2, <3>3, <3>4
  <2>3. OrdinaryCommit(v) = accepted \o <<correction>>
    BY <1>1, <1>5 DEF OrdinaryCommit
  <2>4. <<correction>> \in Seq(Token) /\ Len(<<correction>>) = 1
    BY <2>2
  <2>5. GreedyPath(t, p \o accepted, <<correction>>)
    <3> HIDE DEF correction, accepted
    <3>1. p \o accepted \in Seq(Token)
      BY <1>3, ConcatProperties
    <3>2. SubSeq(<<correction>>, 1, 0) = <<>>
      BY SubSeqEmpty
    <3>3. (p \o accepted) \o <<>> = p \o accepted
      BY <3>1, ConcatEmptySeq
    <3>4. <<correction>>[1] = correction
      OBVIOUS
    <3>5. ASSUME NEW i \in 1..1
          PROVE  <<correction>>[i]
                   \in Greedy(t, (p \o accepted) \o SubSeq(<<correction>>, 1, i - 1))
      <4>1. i = 1 /\ i - 1 = 0
        OBVIOUS
      <4>2. SubSeq(<<correction>>, 1, i - 1) = <<>>
        BY <3>2, <4>1
      <4>3. (p \o accepted) \o SubSeq(<<correction>>, 1, i - 1) = p \o accepted
        BY <3>3, <4>2
      <4> QED
        BY <2>2, <3>4, <4>1, <4>3
    <3> QED
      BY <2>4, <3>5 DEF GreedyPath
  <2>6. GreedyPath(t, p, accepted \o <<correction>>)
    BY <1>3, <2>4, <2>5, GreedyPathConcat
  <2>7. /\ accepted \o <<correction>> \in Seq(Token)
        /\ Len(accepted \o <<correction>>) = m + 1
    BY <1>3, <2>4, ConcatProperties
  <2> QED
    BY <2>1, <2>3, <2>6, <2>7
<1> QED
  BY <1>4, <1>5

-----------------------------------------------------------------------------
(***************************************************************************)
(* Each set of natural numbers has a least element, by well-founded        *)
(* induction.                                                              *)
(***************************************************************************)
Less == {p \in Nat \X Nat : p[1] < p[2]}

LEMMA LessIsWellFounded == IsWellFoundedOn(Less, Nat)
<1>1. OpToRel(<, Nat) = Less
  BY DEF OpToRel, Less
<1> QED
  BY <1>1, NatLessThanWellFounded

LEMMA LeastElement ==
  ASSUME NEW T, T \subseteq Nat, T # {}
  PROVE  \E m \in T : \A k \in T : m <= k
<1>1. PICK m \in T : \A k \in T : <<k, m>> \notin Less
  BY LessIsWellFounded, WFMin
<1>2. ASSUME NEW k \in T PROVE m <= k
  <2>1. k \in Nat /\ m \in Nat
    OBVIOUS
  <2>2. <<k, m>> \in Nat \X Nat /\ <<k, m>>[1] = k /\ <<k, m>>[2] = m
    BY <2>1
  <2>3. ~(k < m)
    BY <1>1, <2>2 DEF Less
  <2> QED
    BY <2>1, <2>3
<1> QED
  BY <1>2

\* Two greedy paths of a target that never ties agree as far as both go.
LEMMA PathsAgree ==
  ASSUME NEW t, NEW p \in Seq(Token), NEW s \in Seq(Token), NEW u \in Seq(Token),
         \A q \in Seq(Token) : \A x, y \in Greedy(t, q) : x = y,
         GreedyPath(t, p, s), GreedyPath(t, p, u)
  PROVE  \A i \in 1..Len(s) : i <= Len(u) => s[i] = u[i]
<1> DEFINE T == {i \in 1..Len(s) : i <= Len(u) /\ s[i] # u[i]}
<1> SUFFICES ASSUME T # {} PROVE FALSE
  OBVIOUS
<1>1. Len(s) \in Nat /\ Len(u) \in Nat
  BY LenProperties
<1>2. T \subseteq Nat
  BY <1>1
<1>3. PICK m \in T : \A k \in T : m <= k
  BY <1>2, LeastElement
<1>4. /\ m \in 1..Len(s) /\ m \in 1..Len(u) /\ s[m] # u[m]
      /\ m - 1 \in 0..Len(s) /\ m - 1 \in 0..Len(u)
  BY <1>1
<1>5. \A i \in 1..(m - 1) : s[i] = u[i]
  <2> SUFFICES ASSUME NEW i \in 1..(m - 1), s[i] # u[i] PROVE FALSE
    OBVIOUS
  <2>1. i \in T /\ ~(m <= i)
    BY <1>1, <1>4
  <2> QED
    BY <1>3, <2>1
<1> HIDE DEF T
<1>6. SubSeq(s, 1, m - 1) = SubSeq(u, 1, m - 1) /\ SubSeq(s, 1, m - 1) \in Seq(Token)
  <2> DEFINE left  == SubSeq(s, 1, m - 1)
             right == SubSeq(u, 1, m - 1)
  <2>1. /\ left \in Seq(Token) /\ Len(left) = m - 1 /\ \A i \in 1..(m - 1) : left[i] = s[i]
        /\ right \in Seq(Token) /\ Len(right) = m - 1 /\ \A i \in 1..(m - 1) : right[i] = u[i]
    BY <1>4, PrefixProperties
  <2> HIDE DEF left, right
  <2>2. left = right
    BY <1>5, <2>1, SeqEqual
  <2> QED
    BY <2>1, <2>2 DEF left, right
<1>7. p \o SubSeq(s, 1, m - 1) \in Seq(Token)
  BY <1>6, ConcatProperties
<1>8. /\ s[m] \in Greedy(t, p \o SubSeq(s, 1, m - 1))
      /\ u[m] \in Greedy(t, p \o SubSeq(s, 1, m - 1))
  BY <1>4, <1>6 DEF GreedyPath
<1>9. \A q \in Seq(Token) : \A x, y \in Greedy(t, q) : x = y
  OBVIOUS
<1> QED
  BY ONLY <1>4, <1>7, <1>8, <1>9, Zenon

-----------------------------------------------------------------------------
(***************************************************************************)
(* The alignment of an escrow with a reference.  Max and Min of the        *)
(* community modules are choices, so that they exist has to be shown.      *)
(***************************************************************************)
LEMMA GreatestElement ==
  ASSUME NEW n \in Nat, NEW T, T \subseteq 0..n, T # {}
  PROVE  Max(T) \in T /\ \A k \in T : k <= Max(T)
<1> DEFINE U == {n - k : k \in T}
<1>1. U \subseteq Nat /\ U # {}
  OBVIOUS
<1>2. PICK u \in U : \A v \in U : u <= v
  BY <1>1, LeastElement
<1>3. PICK k \in T : u = n - k
  BY <1>2
<1>4. \A l \in T : k >= l
  BY <1>2, <1>3
<1>5. \E x \in T : \A y \in T : x >= y
  BY <1>4
<1> QED
  BY <1>5 DEF Max

LEMMA MinOfTwo ==
  ASSUME NEW x \in Nat, NEW y \in Nat
  PROVE  Min({x, y}) = IF x <= y THEN x ELSE y
<1> DEFINE least == IF x <= y THEN x ELSE y
<1>1. least \in {x, y} /\ \A z \in {x, y} : least <= z
  OBVIOUS
<1>2. \E z \in {x, y} : \A u \in {x, y} : z =< u
  BY <1>1
<1>3. Min({x, y}) \in {x, y} /\ \A u \in {x, y} : Min({x, y}) =< u
  BY <1>2 DEF Min
<1> QED
  BY <1>3

\* The first n elements of a candidate are those of the reference.
Matches(cand, ref, n) ==
  /\ n \in Nat /\ n <= Len(cand) /\ n <= Len(ref)
  /\ \A i \in 1..n : cand[i] = ref[i]

\* FirstMismatch is the greatest such length.
LEMMA FirstMismatchIsGreatest ==
  ASSUME NEW S, NEW cand \in Seq(S), NEW ref \in Seq(S)
  PROVE  /\ Matches(cand, ref, FirstMismatch(cand, ref))
         /\ \A k : Matches(cand, ref, k) => k <= FirstMismatch(cand, ref)
<1> DEFINE T == {n \in 0..Len(cand) : n <= Len(ref) /\ \A i \in 1..n : cand[i] = ref[i]}
<1>1. Len(cand) \in Nat /\ Len(ref) \in Nat
  BY LenProperties
<1>2. T \subseteq 0..Len(cand) /\ 0 \in T
  BY <1>1
<1>3. Max(T) \in T /\ \A k \in T : k <= Max(T)
  BY <1>1, <1>2, GreatestElement
<1>4. \A k : Matches(cand, ref, k) <=> k \in T
  BY <1>1 DEF Matches
<1>5. FirstMismatch(cand, ref) = Max(T)
  BY DEF FirstMismatch
<1> QED
  BY <1>3, <1>4, <1>5

\* A match that ends at a difference, or with either sequence, is the greatest.
LEMMA FirstMismatchIs ==
  ASSUME NEW S, NEW cand \in Seq(S), NEW ref \in Seq(S), NEW n,
         Matches(cand, ref, n),
         n = Len(cand) \/ n = Len(ref) \/ cand[n + 1] # ref[n + 1]
  PROVE  FirstMismatch(cand, ref) = n
<1> DEFINE f == FirstMismatch(cand, ref)
<1>1. /\ f \in Nat /\ f <= Len(cand) /\ f <= Len(ref)
      /\ \A i \in 1..f : cand[i] = ref[i]
      /\ n <= f
  BY FirstMismatchIsGreatest DEF Matches
<1>2. n \in Nat /\ Len(cand) \in Nat /\ Len(ref) \in Nat
  BY LenProperties DEF Matches
<1>3. ~(n < f)
  <2> SUFFICES ASSUME n < f PROVE FALSE
    OBVIOUS
  <2>1. n # Len(cand) /\ n # Len(ref) /\ n + 1 \in 1..f
    BY <1>1, <1>2
  <2> QED
    BY <1>1, <2>1
<1> QED
  BY <1>1, <1>2, <1>3

\* A match that is not the whole of either sequence ends at a difference.
LEMMA MismatchBehind ==
  ASSUME NEW S, NEW cand \in Seq(S), NEW ref \in Seq(S),
         FirstMismatch(cand, ref) < Len(cand), FirstMismatch(cand, ref) < Len(ref)
  PROVE  cand[FirstMismatch(cand, ref) + 1] # ref[FirstMismatch(cand, ref) + 1]
<1> DEFINE f == FirstMismatch(cand, ref)
<1>1. Matches(cand, ref, f) /\ \A k : Matches(cand, ref, k) => k <= f
  BY FirstMismatchIsGreatest
<1>2. f \in Nat /\ Len(cand) \in Nat /\ Len(ref) \in Nat
  BY <1>1, LenProperties DEF Matches
<1>3. f < Len(cand) /\ f < Len(ref)
  OBVIOUS
<1> HIDE DEF f
<1>4. ASSUME cand[f + 1] = ref[f + 1] PROVE Matches(cand, ref, f + 1)
  BY <1>1, <1>2, <1>3, <1>4 DEF Matches
<1> QED
  BY <1>1, <1>2, <1>4 DEF f

\* What tokens[lo:hi] holds.
LEMMA SliceProperties ==
  ASSUME NEW S, NEW c \in Seq(S), NEW lo \in 0..Len(c), NEW hi \in Nat, lo <= hi
  PROVE  LET end == IF hi < Len(c) THEN hi ELSE Len(c)
         IN  /\ Slice(c, lo, hi) \in Seq(S)
             /\ Len(Slice(c, lo, hi)) = end - lo
             /\ \A i \in 1..(end - lo) : Slice(c, lo, hi)[i] = c[lo + i]
<1> DEFINE end == IF hi < Len(c) THEN hi ELSE Len(c)
<1>1. Len(c) \in Nat /\ lo \in Nat /\ end \in Nat /\ lo <= end /\ end <= Len(c)
  BY LenProperties
<1> HIDE DEF end
<1>2. \A i \in (lo + 1)..end : c[i] \in S
  <2>1. \A i \in (lo + 1)..end : i \in 1..Len(c)
    BY <1>1
  <2> QED
    BY <2>1, ElementOfSeq
<1> DEFINE s == SubSeq(c, lo + 1, end)
<1>3. /\ s \in Seq(S)
      /\ Len(s) = IF lo + 1 <= end THEN end - (lo + 1) + 1 ELSE 0
      /\ \A i \in 1..(end - (lo + 1) + 1) : s[i] = c[(lo + 1) + i - 1]
  <2>1. lo + 1 \in Int /\ end \in Int
    BY <1>1
  <2> QED
    BY <1>2, <2>1, SubSeqProperties
<1> HIDE DEF s
<1>4. Len(s) = end - lo
  BY <1>1, <1>3
<1>5. \A i \in 1..(end - lo) : s[i] = c[lo + i]
  <2> SUFFICES ASSUME NEW i \in 1..(end - lo) PROVE s[i] = c[lo + i]
    OBVIOUS
  <2>1. i \in 1..(end - (lo + 1) + 1) /\ (lo + 1) + i - 1 = lo + i
    BY <1>1
  <2> QED
    BY <1>3, <2>1
<1> QED
  BY <1>3, <1>4, <1>5 DEF s, end, Slice

LEMMA DropProperties ==
  ASSUME NEW S, NEW c \in Seq(S), NEW n \in 0..Len(c)
  PROVE  /\ Drop(c, n) \in Seq(S) /\ Len(Drop(c, n)) = Len(c) - n
         /\ \A i \in 1..(Len(c) - n) : Drop(c, n)[i] = c[n + i]
<1>1. Len(c) \in Nat /\ n <= Len(c)
  BY LenProperties
<1>2. (IF Len(c) < Len(c) THEN Len(c) ELSE Len(c)) = Len(c)
  OBVIOUS
<1>3. Slice(c, n, Len(c)) = Drop(c, n)
  BY <1>2 DEF Slice, Drop
<1> QED
  BY <1>1, <1>2, <1>3, SliceProperties

\* The best of some lengths is one of them and none is better.
LEMMA BestIsGreatest ==
  ASSUME NEW n \in Nat, NEW m \in Nat, NEW length, length \in [0..n -> 0..m]
  PROVE  /\ \E k \in 0..n : Best(length)[1] = length[k]
         /\ \A k \in 0..n : length[k] <= Best(length)[1]
<1> DEFINE T == {length[k] : k \in DOMAIN length}
<1>1. T \subseteq 0..m /\ T # {} /\ DOMAIN length = 0..n
  <2>1. 0 \in 0..n
    OBVIOUS
  <2> QED
    BY <2>1
<1>2. Max(T) \in T /\ \A k \in T : k <= Max(T)
  BY <1>1, GreatestElement
<1>3. Best(length)[1] = Max(T)
  BY DEF Best
<1> QED
  BY <1>1, <1>2, <1>3

\* A match of two remainders is a common run of the wholes.
LEMMA MatchIsRun ==
  ASSUME NEW S, NEW cand \in Seq(S), NEW ref \in Seq(S),
         NEW j \in 0..Len(cand), NEW k \in 0..Len(ref)
  PROVE  LET f == FirstMismatch(Drop(cand, j), Drop(ref, k))
         IN  f \in 0..Len(cand) /\ IsCommonRun(cand, ref, f, j, k)
<1> DEFINE c == Drop(cand, j)
           r == Drop(ref, k)
           f == FirstMismatch(c, r)
<1>1. /\ c \in Seq(S) /\ Len(c) = Len(cand) - j
      /\ \A i \in 1..(Len(cand) - j) : c[i] = cand[j + i]
  BY DropProperties
<1>2. /\ r \in Seq(S) /\ Len(r) = Len(ref) - k
      /\ \A i \in 1..(Len(ref) - k) : r[i] = ref[k + i]
  BY DropProperties
<1> HIDE DEF c, r
<1>3. f \in Nat /\ f <= Len(c) /\ f <= Len(r) /\ \A i \in 1..f : c[i] = r[i]
  <2>1. c \in Seq(S) /\ r \in Seq(S)
    BY <1>1, <1>2
  <2>2. Matches(c, r, f)
    BY <2>1, FirstMismatchIsGreatest
  <2> HIDE DEF f
  <2> QED
    BY <2>2 DEF Matches
<1>4. Len(cand) \in Nat /\ Len(ref) \in Nat
  BY LenProperties
<1> HIDE DEF f
<1>5. f \in 0..Len(cand) /\ j + f <= Len(cand) /\ k + f <= Len(ref)
  BY <1>1, <1>2, <1>3, <1>4
<1>6. \A i \in 1..f : cand[j + i] = ref[k + i]
  <2> SUFFICES ASSUME NEW i \in 1..f PROVE cand[j + i] = ref[k + i]
    OBVIOUS
  <2>1. i \in 1..(Len(cand) - j) /\ i \in 1..(Len(ref) - k)
    BY <1>3, <1>4, <1>5
  <2>2. c[i] = cand[j + i] /\ r[i] = ref[k + i]
    BY <1>1, <1>2, <2>1
  <2> QED
    BY <1>3, <2>2
<1> QED
  BY <1>5, <1>6 DEF IsCommonRun, f, c, r

LEMMA DropNothing ==
  ASSUME NEW S, NEW c \in Seq(S)
  PROVE  Drop(c, 0) = c
<1>1. /\ Drop(c, 0) \in Seq(S) /\ Len(Drop(c, 0)) = Len(c) - 0
      /\ \A i \in 1..(Len(c) - 0) : Drop(c, 0)[i] = c[0 + i]
  <2>1. 0 \in 0..Len(c)
    BY LenProperties
  <2> QED
    BY <2>1, DropProperties
<1>2. Len(c) \in Nat
  BY LenProperties
<1>3. Len(Drop(c, 0)) = Len(c) /\ \A i \in 1..Len(c) : Drop(c, 0)[i] = c[i]
  BY <1>1, <1>2
<1> QED
  BY <1>1, <1>3, SeqEqual

\* There is a longest common run, and a first one of these.
LEMMA LongestRunExists ==
  ASSUME NEW s, NEW u, Len(s) \in Nat, Len(u) \in Nat
  PROVE  LET r == LongestCommonRun(s, u)
         IN  /\ r[1] \in Nat
             /\ \A n \in Nat, i \in 0..Len(s), j \in 0..Len(u) :
                  IsCommonRun(s, u, n, i, j) => n <= r[1]
<1> DEFINE Lengths == {n \in 0..Len(s) : \E i \in 0..Len(s), j \in 0..Len(u) :
                                           IsCommonRun(s, u, n, i, j)}
<1>1. Lengths \subseteq 0..Len(s) /\ 0 \in Lengths
  BY DEF IsCommonRun
<1>2. PICK n \in Lengths : \A k \in Lengths : k <= n
  <2>1. Max(Lengths) \in Lengths /\ \A k \in Lengths : k <= Max(Lengths)
    BY <1>1, GreatestElement
  <2> QED
    BY <2>1
<1> DEFINE Starts == {i \in 0..Len(s) : \E j \in 0..Len(u) : IsCommonRun(s, u, n, i, j)}
<1>3. PICK x \in Starts : \A i \in Starts : x <= i
  <2>1. Starts \subseteq Nat /\ Starts # {}
    BY <1>2
  <2> QED
    BY <2>1, LeastElement
<1> DEFINE Others == {j \in 0..Len(u) : IsCommonRun(s, u, n, x, j)}
<1>4. PICK y \in Others : \A j \in Others : y <= j
  <2>1. Others \subseteq Nat /\ Others # {}
    BY <1>3
  <2> QED
    BY <2>1, LeastElement
<1> DEFINE First(r) == /\ IsCommonRun(s, u, r[1], r[2], r[3])
                       /\ \A i \in 0..Len(s), j \in 0..Len(u) :
                            /\ ~IsCommonRun(s, u, r[1] + 1, i, j)
                            /\ IsCommonRun(s, u, r[1], i, j) =>
                                 r[2] < i \/ (r[2] = i /\ r[3] <= j)
           Triples == (0..Len(s)) \X (0..Len(s)) \X (0..Len(u))
<1>5. \E r \in Triples : First(r)
  <2>1. n \in 0..Len(s) /\ x \in 0..Len(s) /\ y \in 0..Len(u) /\ IsCommonRun(s, u, n, x, y)
    BY <1>1, <1>2, <1>3, <1>4
  <2>2. ASSUME NEW i \in 0..Len(s), NEW j \in 0..Len(u) PROVE ~IsCommonRun(s, u, n + 1, i, j)
    <3>1. ASSUME IsCommonRun(s, u, n + 1, i, j) PROVE n + 1 \in Lengths
      <4>1. n + 1 \in 0..Len(s)
        BY <2>1, <3>1 DEF IsCommonRun
      <4> QED
        BY <3>1, <4>1
    <3> QED
      BY <1>2, <2>1, <3>1
  <2>3. ASSUME NEW i \in 0..Len(s), NEW j \in 0..Len(u), IsCommonRun(s, u, n, i, j)
        PROVE  x < i \/ (x = i /\ y <= j)
    <3>1. x <= i
      BY <1>3, <2>3
    <3>2. x = i => y <= j
      BY <1>4, <2>3
    <3> QED
      BY <2>1, <3>1, <3>2
  <2> HIDE DEF Lengths, Starts, Others
  <2>4. <<n, x, y>> \in Triples /\ First(<<n, x, y>>)
    BY <2>1, <2>2, <2>3
  <2> QED
    BY <2>4
<1> HIDE DEF Lengths, Starts, Others
<1> DEFINE r == LongestCommonRun(s, u)
<1>6. r \in Triples /\ First(r)
  <2> DEFINE chosen == CHOOSE c \in Triples : First(c)
  <2>1. chosen \in Triples /\ First(chosen)
    BY <1>5
  <2>2. r = chosen
    BY DEF LongestCommonRun
  <2> HIDE DEF chosen, r, First
  <2> QED
    BY <2>1, <2>2
<1> HIDE DEF r
<1>7. ASSUME NEW k \in Nat, NEW i \in 0..Len(s), NEW j \in 0..Len(u), IsCommonRun(s, u, k, i, j)
      PROVE  k <= r[1]
  <2>1. r[1] \in Nat /\ ~IsCommonRun(s, u, r[1] + 1, i, j)
    BY <1>6
  <2>2. ASSUME r[1] < k PROVE IsCommonRun(s, u, r[1] + 1, i, j)
    <3>1. i + k <= Len(s) /\ j + k <= Len(u) /\ \A d \in 1..k : s[i + d] = u[j + d]
      BY <1>7 DEF IsCommonRun
    <3>2. r[1] \in Nat /\ k \in Nat /\ i \in Nat /\ j \in Nat /\ r[1] + 1 <= k
      BY <1>7, <2>1, <2>2
    <3>3. i + (r[1] + 1) <= Len(s) /\ j + (r[1] + 1) <= Len(u)
      BY <3>1, <3>2
    <3>4. \A d \in 1..(r[1] + 1) : d \in 1..k
      BY <3>2
    <3> QED
      BY <3>1, <3>3, <3>4 DEF IsCommonRun
  <2> QED
    BY <2>1, <2>2
<1> QED
  BY <1>6, <1>7 DEF r

\* Attached whole, behind a bridge, trimmed, or with slack on both sides: each
\* freedom finds no shorter a match.
LEMMA AlignmentsNest ==
  ASSUME NEW S, NEW cand \in Seq(S), NEW ref \in Seq(S), NEW n \in Nat
  PROVE  LET whole  == FirstMismatch(cand, ref)
             bridge == BestBridge(cand, ref, n)[1]
             trim   == BestTrim(cand, ref, n)[1]
             run    == LongestCommonRun(cand, ref)[1]
         IN  /\ whole \in Nat /\ bridge \in Nat /\ trim \in Nat /\ run \in Nat
             /\ whole <= bridge /\ bridge <= run
             /\ whole <= trim /\ trim <= run
<1> DEFINE run      == LongestCommonRun(cand, ref)[1]
           bridges  == [k \in 0..Min({n, Len(ref)}) |-> FirstMismatch(cand, Drop(ref, k))]
           trims    == [j \in 0..Min({n, Len(cand)}) |-> FirstMismatch(Drop(cand, j), ref)]
<1>1. Len(cand) \in Nat /\ Len(ref) \in Nat
  BY LenProperties
<1>2. /\ Min({n, Len(ref)}) \in Nat /\ Min({n, Len(ref)}) <= Len(ref)
      /\ Min({n, Len(cand)}) \in Nat /\ Min({n, Len(cand)}) <= Len(cand)
  BY <1>1, MinOfTwo
<1>3. /\ run \in Nat
      /\ \A k \in Nat, i \in 0..Len(cand), j \in 0..Len(ref) :
           IsCommonRun(cand, ref, k, i, j) => k <= run
  BY <1>1, LongestRunExists
<1>4. Drop(cand, 0) = cand /\ Drop(ref, 0) = ref
  BY DropNothing
<1> HIDE DEF run
<1>5. \A j \in 0..Len(cand), k \in 0..Len(ref) :
        LET f == FirstMismatch(Drop(cand, j), Drop(ref, k)) IN f \in 0..Len(cand) /\ f <= run
  <2> SUFFICES ASSUME NEW j \in 0..Len(cand), NEW k \in 0..Len(ref)
               PROVE  LET f == FirstMismatch(Drop(cand, j), Drop(ref, k))
                      IN  f \in 0..Len(cand) /\ f <= run
    OBVIOUS
  <2> DEFINE f == FirstMismatch(Drop(cand, j), Drop(ref, k))
  <2>1. f \in 0..Len(cand) /\ IsCommonRun(cand, ref, f, j, k)
    BY MatchIsRun
  <2> HIDE DEF f
  <2>2. f <= run
    BY <1>1, <1>3, <2>1
  <2> QED
    BY <2>1, <2>2 DEF f
<1>6. 0 \in 0..Len(cand) /\ 0 \in 0..Len(ref)
  BY <1>1
<1>7. /\ \A k \in 0..Min({n, Len(ref)}) : bridges[k] \in 0..Len(cand) /\ bridges[k] <= run
      /\ bridges[0] = FirstMismatch(cand, ref)
  <2>1. \A k \in 0..Min({n, Len(ref)}) : k \in 0..Len(ref)
    BY <1>1, <1>2
  <2>2. \A k \in 0..Min({n, Len(ref)}) : bridges[k] = FirstMismatch(Drop(cand, 0), Drop(ref, k))
    BY <1>4
  <2>3. 0 \in 0..Min({n, Len(ref)})
    BY <1>2
  <2> HIDE DEF bridges
  <2> QED
    BY <1>4, <1>5, <1>6, <2>1, <2>2, <2>3
<1>8. /\ \A j \in 0..Min({n, Len(cand)}) : trims[j] \in 0..Len(cand) /\ trims[j] <= run
      /\ trims[0] = FirstMismatch(cand, ref)
  <2>1. \A j \in 0..Min({n, Len(cand)}) : j \in 0..Len(cand)
    BY <1>1, <1>2
  <2>2. \A j \in 0..Min({n, Len(cand)}) : trims[j] = FirstMismatch(Drop(cand, j), Drop(ref, 0))
    BY <1>4
  <2>3. 0 \in 0..Min({n, Len(cand)})
    BY <1>2
  <2> HIDE DEF trims
  <2> QED
    BY <1>4, <1>5, <1>6, <2>1, <2>2, <2>3
<1>9. /\ bridges \in [0..Min({n, Len(ref)}) -> 0..Len(cand)]
      /\ trims \in [0..Min({n, Len(cand)}) -> 0..Len(cand)]
  BY <1>7, <1>8
<1>10. BestBridge(cand, ref, n) = Best(bridges) /\ BestTrim(cand, ref, n) = Best(trims)
  BY DEF BestBridge, BestTrim
<1> HIDE DEF bridges, trims
<1>11. /\ \E k \in 0..Min({n, Len(ref)}) : Best(bridges)[1] = bridges[k]
       /\ \A k \in 0..Min({n, Len(ref)}) : bridges[k] <= Best(bridges)[1]
  BY <1>1, <1>2, <1>9, BestIsGreatest
<1>12. /\ \E j \in 0..Min({n, Len(cand)}) : Best(trims)[1] = trims[j]
       /\ \A j \in 0..Min({n, Len(cand)}) : trims[j] <= Best(trims)[1]
  BY <1>1, <1>2, <1>9, BestIsGreatest
<1>13. 0 \in 0..Min({n, Len(ref)}) /\ 0 \in 0..Min({n, Len(cand)})
  BY <1>2
<1>14. /\ Best(bridges)[1] \in 0..Len(cand) /\ Best(bridges)[1] <= run
       /\ bridges[0] <= Best(bridges)[1] /\ bridges[0] \in 0..Len(cand)
  BY <1>7, <1>11, <1>13
<1>15. /\ Best(trims)[1] \in 0..Len(cand) /\ Best(trims)[1] <= run
       /\ trims[0] <= Best(trims)[1]
  BY <1>8, <1>12, <1>13
<1> QED
  BY <1>1, <1>3, <1>7, <1>8, <1>10, <1>14, <1>15 DEF run

-----------------------------------------------------------------------------
(***************************************************************************)
(* Sums.  MapThenSumSet evaluates a recursive function on subsets; that    *)
(* there is one, and only one, has to be shown by induction on their size. *)
(***************************************************************************)
Total(g, S) == MapThenSumSet(LAMBDA x : g[x], S)

\* The body of the recursive function of MapThenFoldSet.
SumBody(T, g, s) ==
  IF s = {} THEN 0 ELSE LET x == CHOOSE x \in s : TRUE IN g[x] + T[s \ {x}]

IsFold(T, g, S) == T = [s \in SUBSET S |-> SumBody(T, g, s)]

Fold(g, S) == CHOOSE T : IsFold(T, g, S)

\* What holds of a set if it holds of it without any one of its elements holds
\* of all subsets of a finite set.
LEMMA SubsetInduction ==
  ASSUME NEW S, IsFiniteSet(S), NEW U,
         \A s \in SUBSET S : (\A x \in s : s \ {x} \in U) => s \in U
  PROVE  \A s \in SUBSET S : s \in U
<1> DEFINE Bad   == {s \in SUBSET S : s \notin U}
           Sizes == {Cardinality(s) : s \in Bad}
<1>1. \A s \in SUBSET S : IsFiniteSet(s) /\ Cardinality(s) \in Nat
  BY FS_Subset, FS_CardinalityType
<1>2. ASSUME Bad # {} PROVE FALSE
  <2>1. Sizes \subseteq Nat /\ Sizes # {}
    BY <1>1, <1>2
  <2>2. PICK n \in Sizes : \A k \in Sizes : n <= k
    BY <2>1, LeastElement
  <2>3. PICK s \in Bad : n = Cardinality(s)
    BY <2>2
  <2>4. ASSUME NEW x \in s PROVE s \ {x} \in U
    <3>1. Cardinality(s \ {x}) = n - 1
      BY <1>1, <2>3, FS_RemoveElement
    <3>2. n - 1 \notin Sizes
      BY <2>1, <2>2
    <3>3. s \ {x} \in SUBSET S
      BY <2>3
    <3> QED
      BY <3>1, <3>2, <3>3
  <2> QED
    BY <2>3, <2>4
<1> QED
  BY <1>2

LEMMA FoldExists ==
  ASSUME NEW S, IsFiniteSet(S), NEW g, \A x \in S : g[x] \in Int
  PROVE  \E T : IsFold(T, g, S)
<1> DEFINE Upto(n) == {s \in SUBSET S : Cardinality(s) <= n}
           Partial(T, n) == /\ T \in [Upto(n) -> Int]
                            /\ \A s \in Upto(n) : T[s] = SumBody(T, g, s)
           Missing == {n \in Nat : ~ \E T : Partial(T, n)}
<1>1. \A s \in SUBSET S : IsFiniteSet(s) /\ Cardinality(s) \in Nat
  BY FS_Subset, FS_CardinalityType
<1>2. 0 \notin Missing
  <2>1. \A s \in Upto(0) : s = {}
    BY <1>1, FS_EmptySet
  <2>2. Partial([s \in Upto(0) |-> 0], 0)
    BY <2>1 DEF SumBody
  <2> QED
    BY <2>2
<1>3. ASSUME NEW n \in Nat, NEW T, Partial(T, n) PROVE \E R : Partial(R, n + 1)
  <2> DEFINE R == [s \in Upto(n + 1) |-> SumBody(T, g, s)]
  <2>1. \A s \in Upto(n) : s \in Upto(n + 1) /\ R[s] = T[s]
    BY <1>1, <1>3
  <2>2. ASSUME NEW s \in Upto(n + 1), s # {}
        PROVE  LET x == CHOOSE x \in s : TRUE
               IN  x \in S /\ s \ {x} \in Upto(n)
    <3> DEFINE x == CHOOSE x \in s : TRUE
    <3>1. x \in s
      BY <2>2
    <3> HIDE DEF x
    <3>2. Cardinality(s \ {x}) = Cardinality(s) - 1
      BY <1>1, <3>1, FS_RemoveElement
    <3>3. x \in S /\ s \ {x} \in Upto(n)
      BY <1>1, <3>1, <3>2
    <3> QED
      BY <3>3 DEF x
  <2>3. ASSUME NEW s \in Upto(n + 1)
        PROVE  SumBody(T, g, s) \in Int /\ SumBody(T, g, s) = SumBody(R, g, s)
    <3>1. CASE s = {}
      BY <3>1 DEF SumBody
    <3>2. CASE s # {}
      <4> DEFINE x == CHOOSE x \in s : TRUE
      <4>1. x \in S /\ s \ {x} \in Upto(n)
        BY <2>2, <3>2
      <4>2. SumBody(T, g, s) = g[x] + T[s \ {x}] /\ SumBody(R, g, s) = g[x] + R[s \ {x}]
        BY <3>2 DEF SumBody
      <4> HIDE DEF x, R
      <4>3. T[s \ {x}] \in Int
        BY <1>3, <4>1
      <4> QED
        BY <2>1, <4>1, <4>2, <4>3
    <3> QED
      BY <3>1, <3>2
  <2>4. Partial(R, n + 1)
    BY <2>3
  <2> QED
    BY <2>4
<1> HIDE DEF Partial
<1>4. Missing = {}
  <2> SUFFICES ASSUME Missing # {} PROVE FALSE
    OBVIOUS
  <2>1. Missing \subseteq Nat
    OBVIOUS
  <2>2. PICK n \in Missing : \A k \in Missing : n <= k
    BY <2>1, LeastElement
  <2>3. n \in Nat /\ ~ \E R : Partial(R, n)
    BY <2>2
  <2> HIDE DEF Missing
  <2>4. n - 1 \in Nat /\ n - 1 \notin Missing /\ n - 1 + 1 = n
    BY <1>2, <2>2, <2>3
  <2>5. \E R : Partial(R, n - 1)
    BY <2>4 DEF Missing
  <2>6. \E R : Partial(R, n - 1 + 1)
    BY <1>3, <2>4, <2>5
  <2> QED
    BY <2>3, <2>4, <2>6
<1> USE DEF Partial
<1>5. PICK T : Partial(T, Cardinality(S))
  BY <1>1, <1>4
<1>6. Upto(Cardinality(S)) = SUBSET S
  BY FS_Subset
<1>7. T = [s \in SUBSET S |-> SumBody(T, g, s)]
  BY <1>5, <1>6
<1> QED
  BY <1>7 DEF IsFold

\* Two folds agree where both are defined.
LEMMA FoldsAgree ==
  ASSUME NEW S, IsFiniteSet(S), NEW r \in SUBSET S, NEW g, NEW T, NEW R,
         IsFold(T, g, S), IsFold(R, g, r)
  PROVE  \A s \in SUBSET r : T[s] = R[s]
<1> DEFINE U == {s \in SUBSET r : T[s] = R[s]}
<1>1. IsFiniteSet(r)
  BY FS_Subset
<1>2. ASSUME NEW s \in SUBSET r PROVE T[s] = SumBody(T, g, s) /\ R[s] = SumBody(R, g, s)
  BY DEF IsFold
<1>3. ASSUME NEW s \in SUBSET r, \A x \in s : s \ {x} \in U PROVE s \in U
  <2>1. CASE s = {}
    BY <1>2, <2>1 DEF SumBody
  <2>2. CASE s # {}
    <3> DEFINE x == CHOOSE x \in s : TRUE
    <3>1. x \in s
      BY <2>2
    <3>2. T[s] = g[x] + T[s \ {x}] /\ R[s] = g[x] + R[s \ {x}]
      BY <1>2, <2>2 DEF SumBody
    <3> HIDE DEF x
    <3> QED
      BY <1>3, <3>1, <3>2
  <2> QED
    BY <2>1, <2>2
<1> HIDE DEF U
<1>4. \A s \in SUBSET r : s \in U
  BY <1>1, <1>3, SubsetInduction
<1> QED
  BY <1>4 DEF U

\* A fold of integers is an integer, and the elements may be added up in any
\* order.
LEMMA FoldRemoves ==
  ASSUME NEW S, IsFiniteSet(S), NEW g, \A x \in S : g[x] \in Int, NEW T, IsFold(T, g, S)
  PROVE  /\ T[{}] = 0
         /\ \A s \in SUBSET S : T[s] \in Int
         /\ \A s \in SUBSET S : \A y \in s : T[s] = g[y] + T[s \ {y}]
<1> DEFINE U == {s \in SUBSET S : T[s] \in Int}
           V == {s \in SUBSET S : \A y \in s : T[s] = g[y] + T[s \ {y}]}
<1>1. \A s \in SUBSET S : T[s] = SumBody(T, g, s)
  BY DEF IsFold
<1>2. T[{}] = 0
  BY <1>1 DEF SumBody
<1>3. ASSUME NEW s \in SUBSET S, s # {}
      PROVE  \E c \in s : T[s] = g[c] + T[s \ {c}]
  <2> DEFINE c == CHOOSE c \in s : TRUE
  <2>1. c \in s
    BY <1>3
  <2>2. T[s] = g[c] + T[s \ {c}]
    BY <1>1, <1>3 DEF SumBody
  <2> HIDE DEF c
  <2> QED
    BY <2>1, <2>2
<1>4. ASSUME NEW s \in SUBSET S, \A x \in s : s \ {x} \in U PROVE s \in U
  <2>1. CASE s = {}
    BY <1>2, <2>1
  <2>2. CASE s # {}
    <3>1. PICK c \in s : T[s] = g[c] + T[s \ {c}]
      BY <1>3, <2>2
    <3>2. T[s \ {c}] \in Int /\ g[c] \in Int
      BY <1>4
    <3> QED
      BY <3>1, <3>2
  <2> QED
    BY <2>1, <2>2
<1>5. \A s \in SUBSET S : T[s] \in Int
  <2> HIDE DEF U
  <2>1. \A s \in SUBSET S : s \in U
    BY <1>4, SubsetInduction
  <2> QED
    BY <2>1 DEF U
<1>6. ASSUME NEW s \in SUBSET S, \A x \in s : s \ {x} \in V PROVE s \in V
  <2>1. ASSUME NEW y \in s PROVE T[s] = g[y] + T[s \ {y}]
    <3>1. PICK c \in s : T[s] = g[c] + T[s \ {c}]
      BY <1>3
    <3>2. CASE y # c
      <4> DEFINE rest == (s \ {y}) \ {c}
      <4>1. y \in s \ {c} /\ c \in s \ {y} /\ (s \ {c}) \ {y} = rest /\ rest \in SUBSET S
        BY <3>2
      <4>2. T[s \ {c}] = g[y] + T[rest] /\ T[s \ {y}] = g[c] + T[rest]
        BY <1>6, <4>1
      <4>3. T[rest] \in Int /\ g[y] \in Int /\ g[c] \in Int
        BY <1>5, <4>1
      <4> HIDE DEF rest
      <4> QED
        BY <3>1, <4>2, <4>3
    <3> QED
      BY <3>1, <3>2
  <2> QED
    BY <2>1
<1>7. \A s \in SUBSET S : \A y \in s : T[s] = g[y] + T[s \ {y}]
  <2> HIDE DEF V
  <2>1. \A s \in SUBSET S : s \in V
    BY <1>6, SubsetInduction
  <2> QED
    BY <2>1 DEF V
<1> QED
  BY <1>2, <1>5, <1>7

\* What is chosen as the sum's function is a fold.
LEMMA TotalIsFold ==
  ASSUME NEW S, IsFiniteSet(S), NEW g, \A x \in S : g[x] \in Int
  PROVE  /\ IsFold(Fold(g, S), g, S)
         /\ Total(g, S) = Fold(g, S)[S]
<1>1. IsFold(Fold(g, S), g, S)
  BY FoldExists, Zenon DEF Fold
<1>2. Total(g, S) = Fold(g, S)[S]
  BY DEF Total, MapThenSumSet, MapThenFoldSet, Fold, IsFold, SumBody
<1> QED
  BY <1>1, <1>2

\* A sum over a set, and what an element adds to it.
LEMMA TotalProperties ==
  ASSUME NEW S, IsFiniteSet(S), NEW g, \A x \in S : g[x] \in Int
  PROVE  /\ Total(g, {}) = 0
         /\ Total(g, S) \in Int
         /\ \A s \in SUBSET S : Total(g, s) \in Int
         /\ \A s \in SUBSET S : \A y \in s : Total(g, s) = g[y] + Total(g, s \ {y})
<1>1. \A s \in SUBSET S : Total(g, s) = Fold(g, S)[s]
  <2> SUFFICES ASSUME NEW s \in SUBSET S PROVE Total(g, s) = Fold(g, S)[s]
    OBVIOUS
  <2>1. IsFiniteSet(s) /\ \A x \in s : g[x] \in Int
    BY FS_Subset
  <2>2. IsFold(Fold(g, s), g, s) /\ Total(g, s) = Fold(g, s)[s]
    BY <2>1, TotalIsFold
  <2>3. IsFold(Fold(g, S), g, S)
    BY TotalIsFold
  <2>4. \A r \in SUBSET s : Fold(g, S)[r] = Fold(g, s)[r]
    BY <2>2, <2>3, FoldsAgree
  <2> QED
    BY <2>2, <2>4
<1>2. /\ Fold(g, S)[{}] = 0
      /\ \A s \in SUBSET S : Fold(g, S)[s] \in Int
      /\ \A s \in SUBSET S : \A y \in s : Fold(g, S)[s] = g[y] + Fold(g, S)[s \ {y}]
  <2> DEFINE T == Fold(g, S)
  <2>1. IsFold(T, g, S)
    BY TotalIsFold
  <2> HIDE DEF T
  <2>2. T[{}] = 0
    BY <2>1, FoldRemoves
  <2>3. \A s \in SUBSET S : T[s] \in Int
    BY <2>1, FoldRemoves
  <2>4. ASSUME NEW s \in SUBSET S, NEW y \in s PROVE T[s] = g[y] + T[s \ {y}]
    BY <2>1, FoldRemoves
  <2> QED
    BY <2>2, <2>3, <2>4 DEF T
<1>3. \A s \in SUBSET S : \A y \in s : s \ {y} \in SUBSET S
  OBVIOUS
<1> QED
  BY <1>1, <1>2, <1>3

\* Larger summands make no smaller sum.
LEMMA TotalIsMonotone ==
  ASSUME NEW S, IsFiniteSet(S), NEW f, NEW g,
         \A x \in S : f[x] \in Int /\ g[x] \in Int /\ f[x] <= g[x]
  PROVE  Total(f, S) <= Total(g, S)
<1> DEFINE U == {s \in SUBSET S : Total(f, s) <= Total(g, s)}
<1>1. ASSUME NEW h, \A x \in S : h[x] \in Int
      PROVE  /\ Total(h, {}) = 0
             /\ \A s \in SUBSET S : Total(h, s) \in Int
             /\ \A s \in SUBSET S : \A y \in s : Total(h, s) = h[y] + Total(h, s \ {y})
  BY ONLY IsFiniteSet(S), <1>1, TotalProperties
<1>2. ASSUME NEW s \in SUBSET S, \A x \in s : s \ {x} \in U PROVE s \in U
  <2>1. CASE s = {}
    BY <1>1, <2>1
  <2>2. CASE s # {}
    <3>1. PICK y \in s : TRUE
      BY <2>2
    <3>2. Total(f, s \ {y}) <= Total(g, s \ {y}) /\ s \ {y} \in SUBSET S
      BY <1>2, <3>1
    <3>3. /\ Total(f, s) = f[y] + Total(f, s \ {y}) /\ Total(f, s \ {y}) \in Int
          /\ Total(g, s) = g[y] + Total(g, s \ {y}) /\ Total(g, s \ {y}) \in Int
      BY <1>1, <3>1, <3>2
    <3>4. f[y] \in Int /\ g[y] \in Int /\ f[y] <= g[y]
      BY <3>1
    <3> QED
      BY <3>2, <3>3, <3>4
  <2> QED
    BY <2>1, <2>2
<1> HIDE DEF U
<1>3. \A s \in SUBSET S : s \in U
  BY <1>2, SubsetInduction
<1> QED
  BY <1>3 DEF U

\* Where each element gains at least one, more elements gain as much more.
LEMMA TotalOfMore ==
  ASSUME NEW S, IsFiniteSet(S), NEW g, \A x \in S : g[x] \in Int,
         NEW m \in SUBSET S, \A x \in S \ m : g[x] >= 1
  PROVE  Total(g, S) >= Total(g, m) + Cardinality(S \ m)
<1> DEFINE U == {s \in SUBSET S : Total(g, s) >= Total(g, s \cap m) + Cardinality(s \ m)}
<1>1. /\ Total(g, {}) = 0
      /\ \A s \in SUBSET S : Total(g, s) \in Int
      /\ \A s \in SUBSET S : \A y \in s : Total(g, s) = g[y] + Total(g, s \ {y})
  BY TotalProperties
<1>2. ASSUME NEW s \in SUBSET S, \A x \in s : s \ {x} \in U PROVE s \in U
  <2>1. CASE s = {}
    BY <1>1, <2>1, FS_EmptySet
  <2>2. CASE s # {}
    <3>1. PICK y \in s : TRUE
      BY <2>2
    <3>2. /\ Total(g, s \ {y}) >= Total(g, (s \ {y}) \cap m) + Cardinality((s \ {y}) \ m)
          /\ Total(g, s) = g[y] + Total(g, s \ {y})
      BY <1>1, <1>2, <3>1
    <3>3. IsFiniteSet(s \ m) /\ Cardinality(s \ m) \in Nat
      BY FS_Subset, FS_CardinalityType
    <3>4. /\ Total(g, s \ {y}) \in Int /\ Total(g, (s \ {y}) \cap m) \in Int
          /\ Total(g, s \cap m) \in Int /\ g[y] \in Int
      BY <1>1, <3>1
    <3>5. CASE y \in m
      <4>1. (s \ {y}) \cap m = (s \cap m) \ {y} /\ (s \ {y}) \ m = s \ m
            /\ y \in s \cap m /\ s \cap m \in SUBSET S
        BY <3>1, <3>5
      <4>2. Total(g, s \cap m) = g[y] + Total(g, (s \cap m) \ {y})
        BY <1>1, <4>1
      <4>3. Total(g, s \ {y}) >= Total(g, (s \cap m) \ {y}) + Cardinality(s \ m)
        BY <3>2, <4>1
      <4>4. Total(g, (s \cap m) \ {y}) \in Int
        BY <3>4, <4>1
      <4>5. Total(g, s) >= Total(g, s \cap m) + Cardinality(s \ m)
        BY ONLY <3>2, <3>3, <3>4, <4>2, <4>3, <4>4
      <4> QED
        BY <4>5
    <3>6. CASE y \notin m
      <4>1. (s \ {y}) \cap m = s \cap m /\ (s \ {y}) \ m = (s \ m) \ {y} /\ y \in s \ m
        BY <3>1, <3>6
      <4>2. Cardinality((s \ m) \ {y}) = Cardinality(s \ m) - 1
        BY <3>3, <4>1, FS_RemoveElement
      <4>3. g[y] >= 1
        BY <3>1, <3>6
      <4>4. Total(g, s \ {y}) >= Total(g, s \cap m) + Cardinality((s \ m) \ {y})
        BY <3>2, <4>1
      <4>5. Total(g, s) >= Total(g, s \cap m) + Cardinality(s \ m)
        BY ONLY <3>2, <3>3, <3>4, <4>2, <4>3, <4>4
      <4> QED
        BY <4>5
    <3> QED
      BY <3>5, <3>6
  <2> QED
    BY <2>1, <2>2
<1> HIDE DEF U
<1>3. \A s \in SUBSET S : s \in U
  BY <1>2, SubsetInduction
<1>4. S \cap m = m
  OBVIOUS
<1> QED
  BY <1>3, <1>4 DEF U

\* Elements that gain nothing do not count.
LEMMA TotalOfGainers ==
  ASSUME NEW S, IsFiniteSet(S), NEW g, \A x \in S : g[x] \in Int,
         NEW m \in SUBSET S, \A x \in S \ m : g[x] = 0
  PROVE  Total(g, S) = Total(g, m)
<1> DEFINE U == {s \in SUBSET S : Total(g, s) = Total(g, s \cap m)}
<1>1. /\ Total(g, {}) = 0
      /\ \A s \in SUBSET S : Total(g, s) \in Int
      /\ \A s \in SUBSET S : \A y \in s : Total(g, s) = g[y] + Total(g, s \ {y})
  BY ONLY IsFiniteSet(S), \A x \in S : g[x] \in Int, TotalProperties
<1>2. ASSUME NEW s \in SUBSET S, \A x \in s : s \ {x} \in U PROVE s \in U
  <2>1. CASE s = {}
    BY <1>1, <2>1
  <2>2. CASE s # {}
    <3>1. PICK y \in s : TRUE
      BY <2>2
    <3>2. /\ Total(g, s \ {y}) = Total(g, (s \ {y}) \cap m)
          /\ Total(g, s) = g[y] + Total(g, s \ {y})
          /\ s \cap m \in SUBSET S /\ Total(g, s \cap m) \in Int
      BY <1>1, <1>2, <3>1
    <3>3. CASE y \in m
      <4>1. (s \ {y}) \cap m = (s \cap m) \ {y} /\ y \in s \cap m
        BY <3>1, <3>3
      <4> QED
        BY <1>1, <3>2, <4>1
    <3>4. CASE y \notin m
      <4>1. (s \ {y}) \cap m = s \cap m /\ g[y] = 0
        BY <3>1, <3>4
      <4>2. Total(g, s) = Total(g, s \cap m)
        BY <3>2, <4>1
      <4> QED
        BY <4>2
    <3> QED
      BY <3>3, <3>4
  <2> QED
    BY <2>1, <2>2
<1> HIDE DEF U
<1>3. \A s \in SUBSET S : s \in U
  BY <1>2, SubsetInduction
<1>4. S \cap m = m
  OBVIOUS
<1> QED
  BY <1>3, <1>4 DEF U

\* A fold of integers ends in their sum.
LEMMA FoldIsTotal ==
  ASSUME NEW S, IsFiniteSet(S), NEW g, \A x \in S : g[x] \in Int, NEW R, IsFold(R, g, S)
  PROVE  R[S] = Total(g, S)
<1>1. IsFold(Fold(g, S), g, S) /\ Total(g, S) = Fold(g, S)[S]
  BY TotalIsFold
<1>2. S \in SUBSET S
  OBVIOUS
<1> QED
  BY <1>1, <1>2, FoldsAgree

\* Equal summands make equal sums.
LEMMA TotalAgrees ==
  ASSUME NEW S, IsFiniteSet(S), NEW f, NEW g, \A x \in S : g[x] \in Int /\ f[x] = g[x]
  PROVE  Total(f, S) = Total(g, S)
<1>1. Total(f, S) <= Total(g, S) /\ Total(g, S) <= Total(f, S)
  BY TotalIsMonotone
<1>2. Total(f, S) \in Int /\ Total(g, S) \in Int
  BY TotalProperties
<1> QED
  BY <1>1, <1>2

\* One summand more.
LEMMA TotalOfNext ==
  ASSUME NEW n \in Nat, NEW f, NEW g,
         \A i \in 1..n : f[i] = g[i], \A i \in 1..(n + 1) : g[i] \in Int
  PROVE  Total(g, 1..(n + 1)) = Total(f, 1..n) + g[n + 1]
<1> DEFINE S == 1..(n + 1)
           R == 1..n
<1>1. IsFiniteSet(S) /\ IsFiniteSet(R) /\ n + 1 \in S /\ S \ {n + 1} = R /\ R \in SUBSET S
  BY FS_Interval
<1>2. \A x \in R : g[x] \in Int /\ f[x] = g[x]
  OBVIOUS
<1>3. \A x \in S : g[x] \in Int
  OBVIOUS
<1> HIDE DEF S, R
<1>4. Total(g, S) = g[n + 1] + Total(g, S \ {n + 1}) /\ Total(g, R) \in Int
  <2>1. S \in SUBSET S
    OBVIOUS
  <2> QED
    BY <1>1, <1>3, <2>1, TotalProperties
<1>5. Total(f, R) = Total(g, R)
  BY <1>1, <1>2, TotalAgrees
<1>6. Total(g, S) = Total(f, R) + g[n + 1]
  <2>1. Total(g, S) = g[n + 1] + Total(f, R)
    <3>1. S \ {n + 1} = R
      BY <1>1
    <3> QED
      BY ONLY <1>4, <1>5, <3>1, Zenon
  <2>2. g[n + 1] \in Int /\ Total(f, R) \in Int
    BY <1>1, <1>3, <1>4, <1>5
  <2> QED
    BY <2>1, <2>2
<1> QED
  BY <1>6 DEF S, R
=============================================================================
