-------------------------- MODULE DraftSession_proof --------------------------
(***************************************************************************)
(* The draft cache is transparent, for every draft model, block length,    *)
(* prompt and number of cycles and prompts, and whatever is committed in   *)
(* between: it holds a prefix of what is committed, and what is drafted    *)
(* through it could have been drafted without it.                          *)
(***************************************************************************)
EXTENDS DraftSession, GreedyPathTheorems

(***************************************************************************)
(* A session that holds the first n of the tokens c.                       *)
(***************************************************************************)
Holding(c, n) == [cache |-> SubSeq(c, 1, n), cache_len |-> n]

LEMMA HoldingAll ==
  ASSUME NEW c \in Seq(Token)
  PROVE  Holding(c, Len(c)) = [cache |-> c, cache_len |-> Len(c)]
BY SubSeqFull DEF Holding

\* Priming backs off to a proper prefix and feeds the rest, which is not empty.
LEMMA PrimedHolding ==
  ASSUME NEW c \in Seq(Token), c # <<>>, NEW n \in 0..Len(c)
  PROVE  \E kept \in 0..(Len(c) - 1) :
           Primed(Holding(c, n), c) = <<Holding(c, kept), SubSeq(c, kept + 1, Len(c))>>
<1> DEFINE kept == IF n < Len(c) THEN n ELSE Len(c) - 1
<1>1. Len(c) \in Nat \ {0}
  BY EmptySeq
<1>2. kept \in 0..(Len(c) - 1) /\ kept \in 0..n
  BY <1>1
<1>3. Crop(Holding(c, n), kept) = Holding(c, kept)
  <2>1. CASE kept < n
    <3>1. SubSeq(c, 1, n) \in Seq(Token) /\ Len(SubSeq(c, 1, n)) = n
      BY PrefixProperties
    <3>2. Take(SubSeq(c, 1, n), kept) = SubSeq(SubSeq(c, 1, n), 1, kept)
      BY <2>1, <3>1 DEF Take
    <3>3. SubSeq(SubSeq(c, 1, n), 1, kept) = SubSeq(c, 1, kept)
      BY <1>2, PrefixOfPrefix
    <3> QED
      BY <2>1, <3>2, <3>3 DEF Crop, Holding
  <2>2. CASE ~(kept < n)
    <3>1. kept = n
      BY <1>1, <1>2, <2>2
    <3> QED
      BY <2>2, <3>1 DEF Crop, Holding
  <2> QED
    BY <2>1, <2>2
<1>4. Primed(Holding(c, n), c) = <<Crop(Holding(c, n), kept), SubSeq(c, kept + 1, Len(c))>>
  BY DEF Primed, Holding
<1> QED
  BY <1>2, <1>3, <1>4

\* What is fed behind a prefix is appended to it.
LEMMA StepCompletes ==
  ASSUME NEW c \in Seq(Token), c # <<>>, NEW kept \in 0..(Len(c) - 1)
  PROVE  /\ Step(Holding(c, kept), SubSeq(c, kept + 1, Len(c))) = Holding(c, Len(c))
         /\ SubSeq(c, kept + 1, Len(c)) # <<>>
<1> DEFINE rest == SubSeq(c, kept + 1, Len(c))
<1>1. Len(c) \in Nat \ {0}
  BY EmptySeq
<1>2. SubSeq(c, 1, kept) \o rest = c
  <2>1. kept \in (1 - 1)..Len(c) /\ 1 \in 1..(Len(c) + 1) /\ Len(c) \in kept..Len(c)
    BY <1>1
  <2>2. SubSeq(c, 1, kept) \o rest = SubSeq(c, 1, Len(c))
    BY <2>1, ConcatAdjacentSubSeq
  <2> QED
    BY <2>2, SubSeqFull
<1>3. Len(rest) = Len(c) - kept
  <2>1. kept + 1 \in Int /\ Len(c) \in Int /\ kept + 1 <= Len(c)
        /\ \A i \in (kept + 1)..Len(c) : i \in 1..Len(c)
    BY <1>1
  <2>2. \A i \in (kept + 1)..Len(c) : c[i] \in Token
    BY <2>1, ElementOfSeq
  <2>3. Len(rest) = Len(c) - (kept + 1) + 1
    BY <2>1, <2>2, SubSeqProperties
  <2> QED
    BY <1>1, <2>3
<1> HIDE DEF rest
<1>4. kept + Len(rest) = Len(c) /\ Len(rest) # 0
  BY <1>1, <1>3
<1>5. rest # <<>>
  BY <1>4
<1>6. Step(Holding(c, kept), rest) = [cache |-> c, cache_len |-> Len(c)]
  BY <1>2, <1>4 DEF Step, Holding
<1> QED
  BY <1>5, <1>6, HoldingAll DEF rest

\* The crop at the end of a draft or a replay takes back what it fed.
LEMMA CropTakesBack ==
  ASSUME NEW c \in Seq(Token), NEW b \in Seq(Token)
  PROVE  CropToCommitted(Step(Holding(c, Len(c)), b), Len(c)) = Holding(c, Len(c))
<1> DEFINE s == [cache |-> c \o b, cache_len |-> Len(c) + Len(b)]
<1>1. Step(Holding(c, Len(c)), b) = s
  <2>1. Holding(c, Len(c)).cache = c /\ Holding(c, Len(c)).cache_len = Len(c)
    BY HoldingAll
  <2> QED
    BY <2>1 DEF Step
<1>2. /\ Len(c) \in Nat /\ Len(b) \in Nat
      /\ Len(c \o b) = Len(c) + Len(b)
  BY LenProperties, ConcatProperties
<1>3. CASE Len(b) = 0
  <2>1. b = <<>>
    BY <1>3, EmptySeq
  <2>2. c \o b = c
    BY <2>1, ConcatEmptySeq
  <2>3. s.cache = c /\ s.cache_len = Len(c) /\ s = [cache |-> c, cache_len |-> Len(c)]
    BY <1>2, <1>3, <2>2
  <2>4. Crop(s, Len(c)) = s
    BY <1>2, <2>3 DEF Crop
  <2> QED
    BY <1>1, <2>3, <2>4, HoldingAll DEF CropToCommitted
<1>4. CASE Len(b) # 0
  <2>1. Len(c) < Len(c) + Len(b)
    BY <1>2, <1>4
  <2>2. Take(c \o b, Len(c)) = SubSeq(c \o b, 1, Len(c))
    BY <1>2, <2>1 DEF Take
  <2>3. SubSeq(c \o b, 1, Len(c)) = SubSeq(c, 1, Len(c))
    <3>1. Len(c) \in 0..Len(c)
      BY <1>2
    <3> QED
      BY <3>1, PrefixOfConcatLeft
  <2>4. Crop(s, Len(c)) = [cache |-> SubSeq(c, 1, Len(c)), cache_len |-> Len(c)]
    BY <2>1, <2>2, <2>3 DEF Crop
  <2> QED
    BY <1>1, <2>4 DEF CropToCommitted, Holding
<1> QED
  BY <1>3, <1>4

-----------------------------------------------------------------------------
(***************************************************************************)
(* A draft through the cache is one of the uncached path, and leaves the   *)
(* cache with all that is committed in it.                                 *)
(***************************************************************************)
LEMMA DraftThroughCache ==
  ASSUME NEW c \in Seq(Token), c # <<>>, NEW n \in 0..Len(c),
         NEW d \in Drafted(Holding(c, n), c)
  PROVE  /\ d.block \in UncachedDrafts(c)
         /\ d.session = Holding(c, Len(c))
         /\ d.primed # <<>>
<1>1. PICK kept \in 0..(Len(c) - 1) :
        Primed(Holding(c, n), c) = <<Holding(c, kept), SubSeq(c, kept + 1, Len(c))>>
  BY PrimedHolding
<1> DEFINE new == SubSeq(c, kept + 1, Len(c))
           full == Holding(c, Len(c))
<1>2. Step(Holding(c, kept), new) = full /\ new # <<>>
  BY StepCompletes
<1>3. Primed(Holding(c, n), c)[1] = Holding(c, kept) /\ Primed(Holding(c, n), c)[2] = new
  BY <1>1
<1> HIDE DEF new, full
<1>4. PICK b \in DraftsFrom(full) :
        d = [block |-> b, primed |-> new,
             session |-> CropToCommitted(Step(full, Front(b)), Len(c))]
  BY <1>2, <1>3 DEF Drafted
<1>5. b \in UncachedDrafts(c)
  BY <1>4, HoldingAll DEF UncachedDrafts, full
<1>6. Front(b) \in Seq(Token)
  <2>1. PICK k \in 1..gamma : b \in [1..k -> Token]
    BY <1>4 DEF DraftsFrom
  <2>2. k \in Nat /\ k - 1 \in 0..k
    BY <2>1, SessionAssumption
  <2>3. b \in Seq(Token) /\ Len(b) = k
    BY <2>1, <2>2
  <2> QED
    BY <2>2, <2>3, PrefixProperties DEF Front
<1>7. CropToCommitted(Step(full, Front(b)), Len(c)) = full
  BY <1>6, CropTakesBack DEF full
<1> QED
  BY <1>2, <1>4, <1>5, <1>7 DEF full

\* What the uncached path drafts is what --check-draft-cache expects of a draft.
LEMMA UncachedDraftsAreGreedy ==
  ASSUME NEW c \in Seq(Token), NEW b \in UncachedDrafts(c)
  PROVE  /\ b \in Seq(Token) /\ b # <<>>
         /\ GreedyPath(model, c, b)
         /\ Len(b) <= gamma
         /\ \A n \in 1..Len(b) : b[n] \in eos \/ n = gamma <=> n = Len(b)
<1> DEFINE full == [cache |-> c, cache_len |-> Len(c)]
<1>1. PICK k \in 1..gamma : b \in [1..k -> Token]
  BY DEF UncachedDrafts, DraftsFrom
<1>2. k \in Nat /\ k >= 1 /\ k <= gamma /\ b \in Seq(Token) /\ Len(b) = k
  BY <1>1, SessionAssumption
<1>3. /\ Finished(b)
      /\ \A n \in 1..(Len(b) - 1) : ~Finished(SubSeq(b, 1, n))
      /\ \A n \in 1..Len(b) : b[n] \in Picks(Step(full, SubSeq(b, 1, n - 1)))
  BY DEF UncachedDrafts, DraftsFrom
<1>4. GreedyPath(model, c, b)
  <2> SUFFICES ASSUME NEW n \in 1..Len(b)
               PROVE  b[n] \in Greedy(model, c \o SubSeq(b, 1, n - 1))
    BY DEF GreedyPath
  <2> DEFINE part == SubSeq(b, 1, n - 1)
  <2>1. part \in Seq(Token)
    <3>1. n - 1 \in 0..Len(b)
      BY <1>2
    <3> QED
      BY <1>2, <3>1, PrefixProperties
  <2>2. Len(c \o part) = Len(c) + Len(part)
    BY <2>1, ConcatProperties
  <2>3. b[n] \in Picks(Step(full, part))
    BY <1>3
  <2> HIDE DEF part
  <2>4. /\ Step(full, part).cache = c \o part
        /\ Step(full, part).cache_len = Len(c) + Len(part)
    BY DEF Step
  <2>5. b[n] \in Greedy(model, c \o part)
    BY ONLY <2>2, <2>3, <2>4 DEF Picks
  <2> QED
    BY <2>5 DEF part
<1>5. \A n \in 1..Len(b) : b[n] \in eos \/ n = gamma <=> n = Len(b)
  <2> SUFFICES ASSUME NEW n \in 1..Len(b)
               PROVE  (b[n] \in eos \/ n = gamma) <=> n = Len(b)
    OBVIOUS
  <2>1. CASE n = Len(b)
    BY <1>3, <2>1 DEF Finished
  <2>2. CASE n # Len(b)
    <3>1. n \in 1..(Len(b) - 1) /\ n \in 0..Len(b) /\ n \in 1..n
      BY <1>2, <2>2
    <3>2. Len(SubSeq(b, 1, n)) = n /\ SubSeq(b, 1, n)[n] = b[n]
      BY <1>2, <3>1, PrefixProperties
    <3>3. ~Finished(SubSeq(b, 1, n))
      BY <1>3, <3>1
    <3> QED
      BY <2>2, <3>2, <3>3 DEF Finished
  <2> QED
    BY <2>1, <2>2
<1>6. b # <<>>
  BY <1>2
<1> QED
  BY <1>2, <1>4, <1>5, <1>6

\* A replay leaves the cache as a draft does.
LEMMA ReplayThroughCache ==
  ASSUME NEW c \in Seq(Token), c # <<>>, NEW n \in 0..Len(c), NEW b \in Seq(Token)
  PROVE  Replayed(Holding(c, n), c, b).session = Holding(c, Len(c))
<1>1. PICK kept \in 0..(Len(c) - 1) :
        Primed(Holding(c, n), c) = <<Holding(c, kept), SubSeq(c, kept + 1, Len(c))>>
  BY PrimedHolding
<1> DEFINE new == SubSeq(c, kept + 1, Len(c))
<1>2. Step(Holding(c, kept), new) = Holding(c, Len(c))
  BY StepCompletes
<1>3. Primed(Holding(c, n), c)[1] = Holding(c, kept) /\ Primed(Holding(c, n), c)[2] = new
  BY <1>1
<1> HIDE DEF new
<1>4. Replayed(Holding(c, n), c, b)
        = [fed |-> new, session |-> CropToCommitted(Step(Holding(c, Len(c)), b), Len(c))]
  BY <1>2, <1>3 DEF Replayed
<1> QED
  BY <1>4, CropTakesBack

\* The last token alone.
LEMMA LastAlone ==
  ASSUME NEW c \in Seq(Token), NEW n \in 1..Len(c)
  PROVE  SubSeq(c, n, n) = <<c[n]>>
<1>1. n \in Int /\ n - n + 1 = 1 /\ n + 1 - 1 = n /\ c[n] \in Token
  BY LenProperties, ElementOfSeq
<1>2. SubSeq(c, n, n) \in Seq(Token) /\ Len(SubSeq(c, n, n)) = 1 /\ SubSeq(c, n, n)[1] = c[n]
  <2>1. ASSUME NEW m \in Int, NEW k \in Int, \A i \in m..k : c[i] \in Token
        PROVE  /\ SubSeq(c, m, k) \in Seq(Token)
               /\ Len(SubSeq(c, m, k)) = IF m <= k THEN k - m + 1 ELSE 0
               /\ \A i \in 1..(k - m + 1) : SubSeq(c, m, k)[i] = c[m + i - 1]
    BY <2>1, SubSeqProperties
  <2>2. \A i \in n..n : c[i] \in Token
    BY <1>1
  <2>3. /\ SubSeq(c, n, n) \in Seq(Token)
        /\ Len(SubSeq(c, n, n)) = IF n <= n THEN n - n + 1 ELSE 0
        /\ \A i \in 1..(n - n + 1) : SubSeq(c, n, n)[i] = c[n + i - 1]
    BY <1>1, <2>1, <2>2, Zenon
  <2> QED
    BY <1>1, <2>3
<1>3. /\ <<c[n]>> \in Seq(Token) /\ Len(<<c[n]>>) = 1
      /\ <<c[n]>>[1] = c[n]
  BY <1>1
<1>4. \A i \in 1..Len(SubSeq(c, n, n)) : SubSeq(c, n, n)[i] = <<c[n]>>[i]
  BY <1>2, <1>3
<1> QED
  BY <1>2, <1>3, <1>4, SeqEqual

\* A replay from the full cache backs off by the last token and feeds it.
LEMMA ReplayBacksOff ==
  ASSUME NEW c \in Seq(Token), c # <<>>, NEW b \in Seq(Token)
  PROVE  Replayed(Holding(c, Len(c)), c, b).fed = <<c[Len(c)]>>
<1>1. /\ Len(c) \in Nat \ {0} /\ Holding(c, Len(c)).cache_len = Len(c)
      /\ Len(c) \in 1..Len(c) /\ (Len(c) - 1) + 1 = Len(c)
  <2>1. Len(c) \in Nat \ {0}
    BY LenProperties, EmptySeq
  <2> QED
    BY <2>1 DEF Holding
<1>2. Primed(Holding(c, Len(c)), c)[2] = SubSeq(c, (Len(c) - 1) + 1, Len(c))
  <2>1. \A m : Holding(c, m).cache_len = m
    BY DEF Holding
  <2>2. ~(Len(c) < Len(c))
    BY <1>1
  <2>3. Primed(Holding(c, Len(c)), c)[2]
          = SubSeq(c, (IF Len(c) < Len(c) THEN Len(c) ELSE Len(c) - 1) + 1, Len(c))
    BY <2>1 DEF Primed
  <2> QED
    BY <2>2, <2>3, Zenon
<1>3. SubSeq(c, Len(c), Len(c)) = <<c[Len(c)]>>
  BY <1>1, LastAlone
<1>4. Replayed(Holding(c, Len(c)), c, b).fed = Primed(Holding(c, Len(c)), c)[2]
  BY DEF Replayed
<1> QED
  BY <1>1, <1>2, <1>3, <1>4

-----------------------------------------------------------------------------
(***************************************************************************)
(* The inductive invariant.  What the session holds is a prefix of the     *)
(* committed tokens, all of them behind a draft; from that a draft is as   *)
(* good as an uncached one, which is what is remembered of it.             *)
(***************************************************************************)
SessionHoldsPrefix == \E n \in 0..Len(committed) : session = Holding(committed, n)

DraftIsUncached ==
  block # <<>> =>
    /\ session = Holding(committed, Len(committed))
    /\ primed # <<>>
    /\ block \in UncachedDrafts(committed)
    /\ replayed \in {<<>>, <<committed[Len(committed)]>>}

DInv ==
  /\ committed \in Seq(Token) /\ committed # <<>>
  /\ SessionHoldsPrefix
  /\ DraftIsUncached

\* Each prompt begins with an empty cache.
LEMMA NewPromptInv ==
  ASSUME NEW c \in Prompts
  PROVE  c \in Seq(Token) /\ c # <<>> /\ NewSession = Holding(c, 0) /\ 0 \in 0..Len(c)
<1>1. c \in Seq(Token) /\ c # <<>> /\ Len(c) \in Nat
  BY SessionAssumption, LenProperties
<1>2. SubSeq(c, 1, 0) = <<>>
  BY SubSeqEmpty
<1> QED
  BY <1>1, <1>2 DEF NewSession, Holding

LEMMA InitDInv == Init => DInv
<1> SUFFICES ASSUME Init PROVE DInv
  OBVIOUS
<1>1. committed \in Prompts /\ session = NewSession /\ block = <<>>
  BY DEF Init
<1> QED
  BY <1>1, NewPromptInv DEF DInv, SessionHoldsPrefix, DraftIsUncached

\* The session of a prefix is one of whatever continues it.
LEMMA StillHolding ==
  ASSUME NEW c \in Seq(Token), NEW w \in Seq(Token), NEW n \in 0..Len(c)
  PROVE  Holding(c \o w, n) = Holding(c, n)
BY PrefixOfConcatLeft DEF Holding

LEMMA StepDInv == DInv /\ [Next]_vars => DInv'
<1> SUFFICES ASSUME DInv, [Next]_vars PROVE DInv'
  OBVIOUS
<1>1. committed \in Seq(Token) /\ committed # <<>> /\ Len(committed) \in Nat
  BY LenProperties DEF DInv
<1>2. PICK n \in 0..Len(committed) : session = Holding(committed, n)
  BY DEF DInv, SessionHoldsPrefix
<1>3. CASE Draft
  <2>1. PICK d \in Drafted(session, committed) :
          block' = d.block /\ session' = d.session /\ primed' = d.primed
    BY <1>3 DEF Draft
  <2>2. /\ d.block \in UncachedDrafts(committed)
        /\ d.session = Holding(committed, Len(committed)) /\ d.primed # <<>>
    BY <1>1, <1>2, <2>1, DraftThroughCache
  <2>3. UNCHANGED <<model, committed>> /\ replayed' = <<>>
    BY <1>3 DEF Draft
  <2>4. UncachedDrafts(committed)' = UncachedDrafts(committed)
    BY <2>3 DEF UncachedDrafts, DraftsFrom, Picks
  <2> QED
    BY <1>1, <2>1, <2>2, <2>3, <2>4 DEF DInv, SessionHoldsPrefix, DraftIsUncached
<1>4. CASE Replay
  <2>1. block # <<>> /\ UNCHANGED <<model, committed, block, primed>>
    BY <1>4 DEF Replay
  <2>2. PICK k \in 0..(Len(block) - 1) :
          /\ session' = Replayed(session, committed, SubSeq(block, 1, k)).session
          /\ replayed' = Replayed(session, committed, SubSeq(block, 1, k)).fed
    BY <1>4 DEF Replay
  <2>3. block \in UncachedDrafts(committed) /\ primed # <<>>
    BY <2>1 DEF DInv, DraftIsUncached
  <2>4. SubSeq(block, 1, k) \in Seq(Token)
    <3>1. block \in Seq(Token) /\ Len(block) \in Nat
      BY <1>1, <2>3, UncachedDraftsAreGreedy, LenProperties
    <3>2. k \in 0..Len(block)
      BY <3>1
    <3> QED
      BY <3>1, <3>2, PrefixProperties
  <2>5. session' = Holding(committed, Len(committed))
    BY <1>1, <1>2, <2>2, <2>4, ReplayThroughCache
  <2>6. replayed' = <<committed[Len(committed)]>>
    <3>1. session = Holding(committed, Len(committed))
      BY <2>1 DEF DInv, DraftIsUncached
    <3> QED
      BY <1>1, <2>2, <2>4, <3>1, ReplayBacksOff
  <2>7. UncachedDrafts(committed)' = UncachedDrafts(committed)
    BY <2>1 DEF UncachedDrafts, DraftsFrom, Picks
  <2> QED
    BY <1>1, <2>1, <2>3, <2>5, <2>6, <2>7 DEF DInv, SessionHoldsPrefix, DraftIsUncached
<1>5. CASE Commit
  <2>1. PICK k \in 0..Len(block), token \in Token :
          committed' = committed \o Append(SubSeq(block, 1, k), token)
    BY <1>5 DEF Commit
  <2> DEFINE w == Append(SubSeq(block, 1, k), token)
  <2>2. w \in Seq(Token) /\ w # <<>>
    <3>1. block \in Seq(Token)
      BY <1>1, <1>5, UncachedDraftsAreGreedy DEF DInv, DraftIsUncached, Commit
    <3>2. SubSeq(block, 1, k) \in Seq(Token)
      BY <3>1, PrefixProperties
    <3> QED
      BY <3>2, AppendProperties
  <2> HIDE DEF w
  <2>3. committed \o w \in Seq(Token) /\ Len(committed \o w) = Len(committed) + Len(w)
        /\ Len(w) \in Nat
    BY <1>1, <2>2, ConcatProperties, LenProperties
  <2>4. committed \o w # <<>>
    BY <1>1, <2>2, ConcatEqualIffEmpty
  <2>5. Holding(committed \o w, n) = Holding(committed, n) /\ n \in 0..Len(committed \o w)
    BY <1>1, <2>2, <2>3, StillHolding
  <2>6. committed' = committed \o w
    BY <2>1 DEF w
  <2>7. session' = session /\ block' = <<>>
    BY <1>5 DEF Commit
  <2> QED
    BY <1>2, <2>3, <2>4, <2>5, <2>6, <2>7 DEF DInv, SessionHoldsPrefix, DraftIsUncached
<1>6. CASE NextPrompt
  <2>1. committed' \in Prompts /\ session' = NewSession /\ block' = <<>>
    BY <1>6 DEF NextPrompt, Reset
  <2> QED
    BY <2>1, NewPromptInv DEF DInv, SessionHoldsPrefix, DraftIsUncached
<1>7. CASE UNCHANGED vars
  <2>1. UNCHANGED <<model, committed, session, block, primed, replayed>>
    BY <1>7 DEF vars
  <2>2. UncachedDrafts(committed)' = UncachedDrafts(committed)
    BY <2>1 DEF UncachedDrafts, DraftsFrom, Picks
  <2> QED
    BY <2>1, <2>2 DEF DInv, SessionHoldsPrefix, DraftIsUncached
<1> QED
  BY <1>3, <1>4, <1>5, <1>6, <1>7 DEF Next

THEOREM SessionInvariance == Spec => []DInv
BY InitDInv, StepDInv, PTL DEF Spec

\* "the cache never needs to be rewound past the committed prefix": it holds the
\* states of a prefix of the committed tokens and knows how many.
THEOREM CacheHoldsPrefix == Spec => []CacheIsCommittedPrefix
<1>1. DInv => CacheIsCommittedPrefix
  <2> SUFFICES ASSUME DInv PROVE CacheIsCommittedPrefix
    OBVIOUS
  <2>1. committed \in Seq(Token) /\ Len(committed) \in Nat
    BY LenProperties DEF DInv
  <2>2. PICK n \in 0..Len(committed) : session = Holding(committed, n)
    BY DEF DInv, SessionHoldsPrefix
  <2>3. session.cache = SubSeq(committed, 1, n) /\ session.cache_len = n
    BY <2>2 DEF Holding
  <2>4. Len(session.cache) = n /\ SubSeq(session.cache, 1, n) = SubSeq(committed, 1, n)
    <3>1. n \in 0..n
      BY <2>1
    <3> QED
      BY <2>1, <2>3, <3>1, PrefixProperties, PrefixOfPrefix
  <2> QED
    BY <2>1, <2>3, <2>4 DEF CacheIsCommittedPrefix, IsPrefix
<1> QED
  BY <1>1, SessionInvariance, PTL

\* No draft feeds a token twice, a replay feeds the last one again and nothing
\* else, and no call of the model gets an empty input (spec_trace.py:174-192).
THEOREM NothingIsFedTwice == Spec => []FeedsOnlyNewTokens
<1>1. DInv => FeedsOnlyNewTokens
  BY HoldingAll DEF DInv, DraftIsUncached, FeedsOnlyNewTokens
<1> QED
  BY <1>1, SessionInvariance, PTL

\* The cached draft is an uncached one: a greedy continuation of what is
\* committed that is over at gamma tokens or at its first stop token.
THEOREM CacheIsTransparent == Spec => []DraftMatchesUncached
<1>1. DInv => DraftMatchesUncached
  BY UncachedDraftsAreGreedy DEF DInv, DraftIsUncached, DraftMatchesUncached
<1> QED
  BY <1>1, SessionInvariance, PTL
=============================================================================
