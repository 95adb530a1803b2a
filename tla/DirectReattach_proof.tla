------------------------- MODULE DirectReattach_proof -------------------------
(***************************************************************************)
(* generate_rejoin is exact for every target, every draft, every request   *)
(* and outputs of any length: the invariants of DirectReattach hold of its *)
(* specification, its counters keep their accounts, and it implements      *)
(* GreedyDecoding.  Behind the facade of Decoder all of this still holds,  *)
(* the rejoinability measurement predicts what the loop reuses, and the    *)
(* traces of its steps add up to its result.                               *)
(***************************************************************************)
EXTENDS Decoder, GreedyPathTheorems

(***************************************************************************)
(* The inductive invariant.  Exact alone is not inductive: the loop passes *)
(* "prefix" to the models and returns "generated", so the two must agree,  *)
(* and between its calls a round carries facts that the commit relies on.  *)
(***************************************************************************)
PrefixIsContext == prefix = req.prefix \o generated

BlockInRange ==
  pc \in {"verify", "reverify", "commit"} => Len(proposed) \in 1..remaining

InitialIsGenuine ==
  pc \in {"reverify", "commit"} => initial \in VerifyGreedy(req.target, prefix, proposed)

MismatchBeforeReverify == pc = "reverify" => ~FullyMatches(initial)

ResultIsJustified ==
  pc = "commit" =>
    /\ Len(result.committed_tokens) \in 1..Len(proposed)
    /\ GreedyPath(req.target, prefix, result.committed_tokens)

IInv ==
  /\ TypeOK
  /\ req \in Requests
  /\ PrefixIsContext
  /\ Exact
  /\ BlockInRange
  /\ InitialIsGenuine
  /\ MismatchBeforeReverify
  /\ ResultIsJustified

-----------------------------------------------------------------------------
\* The second verification can only add tokens that follow the target's greedy
\* choices under the repaired prefix; the fallback needs no second verification.
LEMMA RejoinedCommitIsGreedy ==
  ASSUME NEW t, NEW p \in Seq(Token), NEW c \in Seq(Token), c # <<>>,
         NEW v1 \in VerifyGreedy(t, p, c), ~FullyMatches(v1),
         NEW v2 \in VerifyGreedy(t, p \o Accepted(v1), RepairedCandidate(v1))
  PROVE  /\ v2 \in Verifications
         /\ RejoinedCommit(v1, v2) \in Seq(Token)
         /\ Len(RejoinedCommit(v1, v2)) \in 1..Len(c)
         /\ GreedyPath(t, p, RejoinedCommit(v1, v2))
<1> DEFINE m        == v1.greedy_match_length
           accepted == SubSeq(c, 1, m)
           suffix   == SubSeq(c, m + 2, Len(c))
           repaired == <<TargetCorrection(v1)>> \o suffix
<1>1. /\ v1.candidate_tokens = c /\ m \in 0..Len(c)
      /\ v1.target_tokens \in Seq(Token) /\ Len(v1.target_tokens) = Len(c)
  BY VerificationProperties
<1>2. Len(c) \in Nat /\ m + 1 \in 1..Len(c)
  BY <1>1, LenProperties DEF FullyMatches
<1>3. accepted \in Seq(Token) /\ Len(accepted) = m /\ GreedyPath(t, p, accepted)
  BY <1>1, PrefixProperties, MatchedPrefixIsGreedy
<1>4. TargetCorrection(v1) \in Token
  BY <1>1, <1>2, ElementOfSeq DEF TargetCorrection
<1>5. suffix \in Seq(Token) /\ Len(suffix) = Len(c) - m - 1
  <2>1. \A i \in (m + 2)..Len(c) : c[i] \in Token
    BY <1>1, <1>2, ElementOfSeq
  <2> QED
    BY <1>1, <1>2, <2>1, SubSeqProperties
<1>6. repaired \in Seq(Token) /\ Len(repaired) = Len(c) - m
  <2> DEFINE correction == <<TargetCorrection(v1)>>
  <2>1. correction \in Seq(Token) /\ Len(correction) = 1
    BY <1>4
  <2> HIDE DEF correction, suffix
  <2>2. correction \o suffix \in Seq(Token) /\ Len(correction \o suffix) = 1 + Len(suffix)
    BY <1>5, <2>1, ConcatProperties
  <2>3. 1 + Len(suffix) = Len(c) - m
    BY <1>1, <1>2, <1>5
  <2> QED
    BY <2>2, <2>3 DEF correction
<1>7. Accepted(v1) = accepted /\ RepairedCandidate(v1) = repaired
  BY <1>1 DEF Accepted, RepairedCandidate, RetainedSuffix
<1> HIDE DEF accepted, suffix, repaired
<1>8. v2 \in VerifyGreedy(t, p \o accepted, repaired)
  BY <1>7
<1>9. /\ v2 \in Verifications /\ v2.candidate_tokens = repaired
      /\ v2.greedy_match_length \in 0..Len(repaired)
  BY <1>6, <1>8, VerificationProperties
<1>10. CASE v2.greedy_match_length = 0
  BY <1>9, <1>10, OrdinaryCommitIsGreedy DEF RejoinedCommit
<1>11. CASE v2.greedy_match_length # 0
  <2> DEFINE matched == SubSeq(repaired, 1, v2.greedy_match_length)
  <2>1. /\ matched \in Seq(Token) /\ Len(matched) = v2.greedy_match_length
        /\ GreedyPath(t, p \o accepted, matched)
    BY <1>6, <1>8, <1>9, PrefixProperties, MatchedPrefixIsGreedy
  <2>2. RejoinedCommit(v1, v2) = accepted \o matched
    BY <1>7, <1>9, <1>11 DEF RejoinedCommit
  <2> HIDE DEF matched
  <2>3. GreedyPath(t, p, accepted \o matched)
    BY <1>3, <2>1, GreedyPathConcat
  <2>4. accepted \o matched \in Seq(Token) /\ Len(accepted \o matched) = m + Len(matched)
    BY <1>3, <2>1, ConcatProperties
  <2>5. m + Len(matched) \in 1..Len(c)
    <3>1. Len(matched) \in 1..(Len(c) - m)
      BY <1>1, <1>2, <1>6, <1>9, <1>11, <2>1
    <3> HIDE DEF m
    <3> QED
      BY <1>1, <1>2, <3>1
  <2> QED
    BY <1>9, <2>2, <2>3, <2>4, <2>5
<1> QED
  BY <1>10, <1>11

\* What is committed of a justified block, cut at the budget and at a stop.
LEMMA CutBlockProperties ==
  ASSUME NEW t, NEW p, NEW tokens \in Seq(Token), GreedyPath(t, p, tokens),
         NEW n \in Nat, Len(tokens) <= n, NEW k \in 1..Len(tokens)
  PROVE  /\ Take(tokens, n) = tokens
         /\ SubSeq(tokens, 1, k) \in Seq(Token) /\ Len(SubSeq(tokens, 1, k)) = k
         /\ GreedyPath(t, p, SubSeq(tokens, 1, k))
<1>1. Len(tokens) \in Nat
  BY LenProperties
<1>2. Take(tokens, n) = SubSeq(tokens, 1, Len(tokens))
  BY <1>1 DEF Take
<1>3. k \in 0..Len(tokens)
  BY <1>1
<1> QED
  BY <1>2, <1>3, SubSeqFull, PrefixProperties, GreedyPathPrefix

-----------------------------------------------------------------------------
\* The request's prefix and an empty output satisfy the invariant.
LEMMA InitEstablishesIInv == Init => IInv
<1> SUFFICES ASSUME Init PROVE IInv
  OBVIOUS
<1>1. req.prefix \in Seq(Token)
  BY RequestsAreTyped DEF Init
<1>2. <<>> \in Seq(Token) /\ Len(<<>>) = 0
  BY EmptySeq
<1>3. TypeOK
  <2>1. /\ prefix \in Seq(Token) /\ generated \in Seq(Token) /\ proposed \in Seq(Token)
    BY <1>1, <1>2 DEF Init
  <2>2. /\ initial \in Verifications \union {None} /\ result \in StepResults \union {None}
    BY DEF Init
  <2>3. error \in Errors
    BY DEF Init, Errors
  <2> QED
    BY <2>1, <2>2, <2>3 DEF Init, TypeOK
<1>4. PrefixIsContext
  BY <1>1, ConcatEmptySeq DEF Init, PrefixIsContext
<1>5. Exact
  BY <1>2 DEF Init, Exact, GreedyPath
<1> QED
  BY <1>3, <1>4, <1>5 DEF Init, IInv, BlockInRange, InitialIsGenuine,
     MismatchBeforeReverify, ResultIsJustified

\* The raising actions leave everything but pc and error alone.
LEMMA RaiseKeepsIInv ==
  ASSUME IInv, NEW what \in Errors, Raise(what)
  PROVE  IInv'
<1> USE DEF IInv, Raise, text, counters, round
<1>1. TypeOK'
  BY DEF TypeOK
<1>2. PrefixIsContext' /\ Exact'
  BY DEF PrefixIsContext, Exact
<1>3. BlockInRange' /\ InitialIsGenuine' /\ MismatchBeforeReverify' /\ ResultIsJustified'
  BY DEF BlockInRange, InitialIsGenuine, MismatchBeforeReverify, ResultIsJustified
<1> QED
  BY <1>1, <1>2, <1>3

\* A proposal that passed the round's checks fits the remaining budget.
LEMMA DraftKeepsIInv ==
  ASSUME IInv, Draft
  PROVE  IInv'
<1> USE DEF IInv, Draft, DraftDue, RoundDue, text, counters
<1>1. /\ req.max_new_tokens \in Int /\ req.draft_block_size \in Int
      /\ Len(generated) \in Nat
  BY RequestsAreTyped, LenProperties DEF TypeOK
<1>2. draftLength \in Int /\ draftLength <= remaining
  BY <1>1 DEF draftLength, remaining
<1>3. proposed' \in Seq(Token) /\ proposed' # <<>> /\ Len(proposed') \in 1..draftLength
  <2>1. PICK k \in 0..(draftLength + 1) : proposed' \in [1..k -> Token]
    BY DEF Proposals
  <2>2. proposed' \in Seq(Token) /\ proposed' # <<>> /\ Len(proposed') <= draftLength
    BY <2>1
  <2>3. Len(proposed') \in Nat \ {0}
    BY <2>2, EmptySeq
  <2> QED
    BY <1>2, <2>2, <2>3
<1>4. TypeOK'
  BY <1>3 DEF TypeOK
<1>5. PrefixIsContext' /\ Exact'
  BY DEF PrefixIsContext, Exact
<1>6. BlockInRange'
  BY <1>1, <1>2, <1>3 DEF BlockInRange, remaining
<1>7. InitialIsGenuine' /\ MismatchBeforeReverify' /\ ResultIsJustified'
  BY DEF InitialIsGenuine, MismatchBeforeReverify, ResultIsJustified
<1> QED
  BY <1>4, <1>5, <1>6, <1>7

\* A StepResult built from its parts.
LEMMA StepResultType ==
  ASSUME NEW committed \in Seq(Token), NEW v1 \in Verifications,
         NEW v2 \in Verifications \union {None}
  PROVE  /\ StepResult(committed, v1, v2) \in StepResults
         /\ StepResult(committed, v1, v2) # None
         /\ StepResult(committed, v1, v2).committed_tokens = committed
<1>1. StepResult(committed, v1, v2) \in StepResults
  BY DEF StepResult, StepResults, Verifications
<1>2. StepResult(committed, v1, v2) # None
  BY <1>1, NoneIsNoResult
<1> QED
  BY <1>1, <1>2 DEF StepResult

\* The first verification settles the round, or leaves a mismatch to repair.
LEMMA VerifyKeepsIInv ==
  ASSUME IInv, Verify
  PROVE  IInv'
<1> USE DEF text, counters
<1>1. /\ pc = "verify" /\ prefix \in Seq(Token) /\ proposed \in Seq(Token)
      /\ Len(proposed) \in 1..remaining /\ proposed # <<>>
  BY DEF IInv, TypeOK, BlockInRange, Verify
<1>2. /\ initial' \in VerifyGreedy(req.target, prefix, proposed)
      /\ UNCHANGED <<req, error, text, counters, proposed, ordinary>>
  BY DEF Verify
<1>3. initial' \in Verifications /\ initial' # None
  BY <1>1, <1>2, VerificationProperties, NoneIsNoResult
<1>4. PrefixIsContext' /\ Exact' /\ InitialIsGenuine' /\ req' \in Requests
  BY <1>2 DEF IInv, PrefixIsContext, Exact, InitialIsGenuine
<1>5. BlockInRange'
  BY <1>1, <1>2 DEF BlockInRange, remaining
<1>6. CASE /\ result' = StepResult(OrdinaryCommit(initial'), initial', None)
           /\ pc' = "commit"
  <2>1. /\ OrdinaryCommit(initial') \in Seq(Token)
        /\ Len(OrdinaryCommit(initial')) \in 1..Len(proposed)
        /\ GreedyPath(req.target, prefix, OrdinaryCommit(initial'))
    BY <1>1, <1>2, OrdinaryCommitIsGreedy
  <2>2. /\ result' \in StepResults /\ result' # None
        /\ result'.committed_tokens = OrdinaryCommit(initial')
    BY <1>3, <1>6, <2>1, StepResultType
  <2>3. TypeOK'
    BY <1>2, <1>3, <1>6, <2>2 DEF IInv, TypeOK
  <2>4. ResultIsJustified'
    BY <1>2, <2>1, <2>2 DEF ResultIsJustified
  <2>5. MismatchBeforeReverify'
    BY <1>6 DEF MismatchBeforeReverify
  <2> QED
    BY <1>4, <1>5, <2>3, <2>4, <2>5 DEF IInv
<1>7. CASE ~FullyMatches(initial') /\ pc' = "reverify" /\ UNCHANGED result
  <2>1. TypeOK'
    BY <1>2, <1>3, <1>7 DEF IInv, TypeOK
  <2>2. ResultIsJustified' /\ MismatchBeforeReverify'
    BY <1>7 DEF ResultIsJustified, MismatchBeforeReverify
  <2> QED
    BY <1>4, <1>5, <2>1, <2>2 DEF IInv
<1> QED
  BY <1>6, <1>7 DEF Verify

\* Whatever the second verification says, the block it justifies is greedy.
LEMMA ReverifyKeepsIInv ==
  ASSUME IInv, Reverify
  PROVE  IInv'
<1> USE DEF text, counters
<1>1. /\ prefix \in Seq(Token) /\ proposed \in Seq(Token) /\ pc = "reverify"
      /\ Len(proposed) \in 1..remaining
      /\ initial \in VerifyGreedy(req.target, prefix, proposed) /\ ~FullyMatches(initial)
  BY DEF IInv, TypeOK, BlockInRange, InitialIsGenuine, MismatchBeforeReverify, Reverify
<1>2. proposed # <<>> /\ initial \in Verifications
  BY <1>1, EmptySeq, VerificationProperties
<1>3. PICK v2 \in VerifyGreedy(req.target, RepairedPrefix, RepairedCandidate(initial)) :
        result' = StepResult(RejoinedCommit(initial, v2), initial, v2)
  BY DEF Reverify
<1>4. /\ pc' = "commit"
      /\ UNCHANGED <<req, error, text, counters, proposed, initial, ordinary>>
  BY DEF Reverify
<1>5. v2 \in VerifyGreedy(req.target, prefix \o Accepted(initial), RepairedCandidate(initial))
  BY DEF RepairedPrefix
<1>6. /\ v2 \in Verifications
      /\ RejoinedCommit(initial, v2) \in Seq(Token)
      /\ Len(RejoinedCommit(initial, v2)) \in 1..Len(proposed)
      /\ GreedyPath(req.target, prefix, RejoinedCommit(initial, v2))
  BY <1>1, <1>2, <1>5, RejoinedCommitIsGreedy
<1>7. /\ result' \in StepResults /\ result' # None
      /\ result'.committed_tokens = RejoinedCommit(initial, v2)
  BY <1>2, <1>3, <1>6, StepResultType
<1>8. TypeOK'
  BY <1>4, <1>7 DEF IInv, TypeOK, Reverify
<1>9. ResultIsJustified'
  BY <1>4, <1>6, <1>7 DEF ResultIsJustified
<1>10. /\ PrefixIsContext' /\ Exact' /\ InitialIsGenuine' /\ MismatchBeforeReverify'
       /\ req' \in Requests
  BY <1>1, <1>4 DEF IInv, PrefixIsContext, Exact, InitialIsGenuine, MismatchBeforeReverify
<1>11. BlockInRange'
  BY <1>1, <1>4 DEF BlockInRange, remaining
<1> QED
  BY <1>8, <1>9, <1>10, <1>11 DEF IInv

\* Counters stay natural numbers when one is added to another.
LEMMA SumIsNat == \A m, n \in Nat : m + n \in Nat
OBVIOUS

\* What a commit adds to the counters is natural.
LEMMA CommitCounts ==
  ASSUME NEW r \in StepResults, NEW k \in Nat
  PROVE  /\ r.target_invocations \in Nat /\ Len(r.draft_tokens) \in Nat
         /\ Len(r.committed_tokens) \in Nat
         /\ ReusedInCommit(r, k) \in Nat
<1>1. /\ r.draft_tokens \in Seq(Token) /\ r.committed_tokens \in Seq(Token)
      /\ r.target_invocations \in {1, 2}
      /\ r.initial_verification \in Verifications
      /\ r.rejoin_verification \in Verifications \union {None}
  BY DEF StepResults
<1>2. r.initial_verification.greedy_match_length \in Nat
  BY <1>1 DEF Verifications
<1>3. \A n \in Int : NonNegative(n) \in Nat
  BY DEF NonNegative
<1>4. ReusedSuffixTokens(r) \in Nat
  <2>1. CASE r.rejoin_verification = None
    BY <2>1 DEF ReusedSuffixTokens
  <2>2. CASE r.rejoin_verification # None
    <3>1. r.rejoin_verification.greedy_match_length - 1 \in Int
      BY <1>1, <2>2 DEF Verifications
    <3> QED
      BY <1>3, <2>2, <3>1 DEF ReusedSuffixTokens
  <2> QED
    BY <2>1, <2>2
<1>5. NonNegative(k - r.initial_verification.greedy_match_length - 1) \in Nat
  BY <1>2, <1>3
<1>6. ReusedInCommit(r, k) \in Nat
  BY <1>4, <1>5 DEF ReusedInCommit
<1> QED
  BY <1>1, <1>6, LenProperties

\* The committed block extends the output along the greedy path, and the next
\* round starts from the same tokens the caller will get.
LEMMA CommitKeepsIInv ==
  ASSUME IInv, Commit
  PROVE  IInv'
<1>1. /\ pc = "commit"
      /\ prefix \in Seq(Token) /\ generated \in Seq(Token) /\ proposed \in Seq(Token)
      /\ prefix = req.prefix \o generated
      /\ result \in StepResults
      /\ Len(proposed) \in 1..remaining
      /\ Len(result.committed_tokens) \in 1..Len(proposed)
      /\ GreedyPath(req.target, prefix, result.committed_tokens)
      /\ GreedyPath(req.target, req.prefix, generated)
  BY DEF IInv, TypeOK, PrefixIsContext, Exact, BlockInRange, ResultIsJustified, Commit
<1>2. req.prefix \in Seq(Token) /\ req.max_new_tokens \in Int
  BY RequestsAreTyped DEF IInv
<1>3. Len(generated) \in Nat /\ Len(proposed) \in Nat /\ remaining \in Nat
  BY <1>1, <1>2, LenProperties DEF remaining
<1> DEFINE tokens       == result.committed_tokens
           block        == Take(tokens, remaining)
           committed(k) == SubSeq(block, 1, k)
<1>4. tokens \in Seq(Token) /\ Len(tokens) <= remaining
  BY <1>1, <1>3 DEF StepResults
<1>5. PICK k \in 1..Len(tokens) :
        /\ generated' = generated \o committed(k)
        /\ prefix' = prefix \o committed(k)
        /\ steps' = steps + 1
        /\ target_invocations' = target_invocations + result.target_invocations
        /\ proposed_count' = proposed_count + Len(result.draft_tokens)
        /\ reused_count' = reused_count + ReusedInCommit(result, k)
        /\ pc' = IF block[k] \in req.stop_token_ids THEN "returned" ELSE "loop"
  BY DEF Commit
<1>6. PICK o \in 1..Len(proposed) : ordinary' = ordinary + o
  BY DEF Commit
<1>7. /\ proposed' = <<>> /\ initial' = None /\ result' = None
      /\ UNCHANGED <<req, error>>
  BY DEF Commit
<1>8. /\ committed(k) \in Seq(Token) /\ Len(committed(k)) = k
      /\ GreedyPath(req.target, prefix, committed(k))
  BY <1>1, <1>3, <1>4, CutBlockProperties
<1> HIDE DEF committed
<1>9. generated' \in Seq(Token) /\ prefix' \in Seq(Token)
  BY <1>1, <1>5, <1>8, ConcatProperties
<1>10. PrefixIsContext'
  <2>1. (req.prefix \o generated) \o committed(k) = req.prefix \o (generated \o committed(k))
    <3>1. req.prefix \in Seq(Token) /\ generated \in Seq(Token) /\ committed(k) \in Seq(Token)
      BY <1>1, <1>2, <1>8
    <3> QED
      BY ONLY <3>1, ExtendedPrefix, Zenon
  <2> QED
    BY <1>1, <1>5, <1>7, <2>1 DEF PrefixIsContext
<1>11. Exact'
  <2>1. GreedyPath(req.target, req.prefix, generated \o committed(k))
    BY <1>1, <1>2, <1>8, GreedyPathConcat
  <2> QED
    BY <1>5, <1>7, <2>1 DEF Exact
<1>12. TypeOK'
  <2>1. k \in Nat /\ pc' \in {"loop", "returned"}
    BY <1>5
  <2>2. /\ result.target_invocations \in Nat /\ Len(result.draft_tokens) \in Nat
        /\ ReusedInCommit(result, k) \in Nat
    <3>1. result \in StepResults
      BY <1>1
    <3> QED
      BY ONLY <2>1, <3>1, CommitCounts
  <2>3. /\ steps \in Nat /\ target_invocations \in Nat
        /\ proposed_count \in Nat /\ reused_count \in Nat
        /\ ordinary \in Nat
    BY DEF IInv, TypeOK
  <2>5. steps' \in Nat /\ ordinary' \in Nat
    <3>1. o \in Nat
      BY <1>3
    <3> QED
      BY <1>5, <1>6, <2>3, <3>1
  <2>6. target_invocations' \in Nat /\ proposed_count' \in Nat
    <3>1. /\ target_invocations' = target_invocations + result.target_invocations
          /\ proposed_count' = proposed_count + Len(result.draft_tokens)
      BY <1>5
    <3> QED
      BY ONLY <2>2, <2>3, <3>1, SumIsNat
  <2>7. reused_count' \in Nat
    <3>1. reused_count' = reused_count + ReusedInCommit(result, k)
      BY <1>5
    <3> QED
      BY ONLY <2>2, <2>3, <3>1, SumIsNat
  <2>4. proposed' \in Seq(Token)
    BY <1>7, EmptySeq
  <2> QED
    BY <1>7, <1>9, <2>1, <2>4, <2>5, <2>6, <2>7 DEF IInv, TypeOK
<1>13. pc' \notin {"verify", "reverify", "commit"} /\ req' \in Requests
  BY <1>5, <1>7 DEF IInv
<1> QED
  BY <1>10, <1>11, <1>12, <1>13 DEF IInv, BlockInRange, InitialIsGenuine,
     MismatchBeforeReverify, ResultIsJustified

\* One case per action of the loop.
LEMMA StepKeepsIInv == IInv /\ [Next]_vars => IInv'
<1> SUFFICES ASSUME IInv, [Next]_vars PROVE IInv'
  OBVIOUS
<1> USE DEF text, counters, round
<1>1. ASSUME Start \/ Return PROVE IInv'
  <2>1. /\ pc' \in {"loop", "returned"}
        /\ UNCHANGED <<req, error, text, counters, round, ordinary>>
    BY <1>1 DEF Start, Return
  <2>2. TypeOK' /\ PrefixIsContext' /\ Exact' /\ req' \in Requests
    BY <2>1 DEF IInv, TypeOK, PrefixIsContext, Exact
  <2> QED
    BY <2>1, <2>2 DEF IInv, BlockInRange, InitialIsGenuine, MismatchBeforeReverify,
       ResultIsJustified
<1>2. ASSUME RejectRequest \/ ExceedMaxSteps \/ RejectRound \/ RejectProposal \/ CallRaises
      PROVE  IInv'
  <2>1. PICK what \in Errors : Raise(what)
    BY <1>2 DEF RejectRequest, ExceedMaxSteps, RejectRound, RejectProposal, CallRaises, Errors
  <2> QED
    BY <2>1, RaiseKeepsIInv
<1>3. CASE Draft
  BY <1>3, DraftKeepsIInv
<1>4. CASE Verify
  BY <1>4, VerifyKeepsIInv
<1>5. CASE Reverify
  BY <1>5, ReverifyKeepsIInv
<1>6. CASE Commit
  BY <1>6, CommitKeepsIInv
<1>7. CASE UNCHANGED vars
  BY <1>7 DEF vars, IInv, TypeOK, PrefixIsContext, Exact, BlockInRange, InitialIsGenuine,
     MismatchBeforeReverify, ResultIsJustified, remaining
<1> QED
  BY <1>1, <1>2, <1>3, <1>4, <1>5, <1>6, <1>7 DEF Next

-----------------------------------------------------------------------------
\* The invariant holds in every reachable state.
THEOREM Invariance == Spec => []IInv
BY InitEstablishesIInv, StepKeepsIInv, PTL DEF Spec

\* Type correctness of generate_rejoin's state.
THEOREM TypeCorrect == Spec => []TypeOK
<1>1. IInv => TypeOK
  BY DEF IInv
<1> QED
  BY <1>1, Invariance, PTL

\* generate_rejoin is exact: whatever the draft proposes, and also when the
\* target is not deterministic, the output follows the target's greedy choices.
THEOREM Exactness == Spec => []Exact
<1>1. IInv => Exact
  BY DEF IInv
<1> QED
  BY <1>1, Invariance, PTL

\* No block is longer than the budget that is left, so committed_tokens[:remaining]
\* cuts nothing.
THEOREM BudgetFits == Spec => []BlockFitsBudget
<1>1. IInv => BlockFitsBudget
  <2> SUFFICES ASSUME IInv, pc = "commit"
               PROVE  Len(result.committed_tokens) <= remaining
    BY DEF BlockFitsBudget
  <2>1. /\ Len(proposed) \in 1..remaining
        /\ Len(result.committed_tokens) \in 1..Len(proposed)
    BY DEF IInv, BlockInRange, ResultIsJustified
  <2>2. remaining \in Int
    <3>1. req.max_new_tokens \in Int /\ Len(generated) \in Nat
      BY RequestsAreTyped, LenProperties DEF IInv, TypeOK
    <3> QED
      BY <3>1 DEF remaining
  <2> QED
    BY <2>1, <2>2
<1> QED
  BY <1>1, Invariance, PTL

-----------------------------------------------------------------------------
(***************************************************************************)
(* generate_rejoin implements the promise of GreedyDecoding: each commit   *)
(* extends the promised output, a return or a raise is one of the          *)
(* promise's, and every other step of the loop is invisible to the caller. *)
(***************************************************************************)

\* The steps of the loop its caller does not see.
LEMMA QuietStepStutters ==
  ASSUME UNCHANGED <<req, generated>>,
         pc \notin {"returned", "raised"}, pc' \notin {"returned", "raised"}
  PROVE  UNCHANGED Promise!vars
BY DEF Promise!vars, Status

LEMMA ReturnImplements ==
  ASSUME Return
  PROVE  Promise!Return
BY DEF Return, text, Promise!Return, Status

LEMMA RaiseImplements ==
  ASSUME NEW what, Raise(what), pc \notin {"returned", "raised"}
  PROVE  Promise!Raise
BY DEF Raise, text, Promise!Raise, Status

\* A justified block, cut at the budget and at a stop, extends the promised
\* output, whichever loop commits it.
LEMMA BlockExtends ==
  ASSUME req.prefix \in Seq(Token), req.max_new_tokens \in Int,
         generated \in Seq(Token), prefix = req.prefix \o generated,
         GreedyPath(req.target, req.prefix, generated),
         NEW tokens \in Seq(Token), GreedyPath(req.target, prefix, tokens),
         Len(tokens) <= remaining,
         NEW k, IsStopCut(tokens, req.stop_token_ids, k),
         generated' = generated \o SubSeq(tokens, 1, k),
         UNCHANGED req, Status = "running",
         Status' = IF tokens[k] \in req.stop_token_ids THEN "returned" ELSE "running"
  PROVE  Promise!Extend /\ generated' \in Seq(Token)
<1> DEFINE stops  == req.stop_token_ids
           g      == Len(generated)
           cut    == SubSeq(tokens, 1, k)
<1>1. /\ g \in Nat /\ Len(tokens) \in Nat
      /\ k \in 1..Len(tokens) /\ k \in 0..Len(tokens) /\ k \in Nat /\ k >= 1
      /\ req.max_new_tokens \in Int /\ k <= req.max_new_tokens - g
  BY LenProperties DEF IsStopCut, remaining
<1>2. cut \in Seq(Token) /\ Len(cut) = k /\ \A i \in 1..k : cut[i] = tokens[i]
  BY <1>1, PrefixProperties
<1>3. /\ generated' = generated \o cut
      /\ UNCHANGED req
      /\ Status = "running" /\ Status' = IF tokens[k] \in stops THEN "returned" ELSE "running"
  OBVIOUS
<1>4. \A i \in 1..(k - 1) : tokens[i] \notin stops
  BY DEF IsStopCut
<1>5. GreedyPath(req.target, req.prefix, generated')
  <2>1. GreedyPath(req.target, prefix, cut)
    BY <1>1, GreedyPathPrefix
  <2> HIDE DEF cut
  <2>2. GreedyPath(req.target, req.prefix, generated \o cut)
    BY <1>2, <2>1, GreedyPathConcat
  <2> QED
    BY <1>3, <2>2
<1> HIDE DEF cut
<1>6. /\ generated' \in Seq(Token) /\ Len(generated') = g + k
      /\ \A i \in 1..(g + k) : generated'[i] = IF i <= g THEN generated[i] ELSE cut[i - g]
  <2>1. /\ generated \o cut \in Seq(Token)
        /\ Len(generated \o cut) = Len(generated) + Len(cut)
        /\ \A i \in 1..(Len(generated) + Len(cut)) :
             (generated \o cut)[i] =
                IF i <= Len(generated) THEN generated[i] ELSE cut[i - Len(generated)]
    BY <1>2, ConcatProperties
  <2>2. Len(cut) = k
    BY <1>2
  <2> QED
    BY <1>3, <2>1, <2>2
<1>7. SubSeq(generated', 1, Len(generated)) = generated
  <2>1. Len(generated) \in 0..Len(generated)
    BY <1>1 DEF g
  <2> QED
    BY <1>2, <1>3, <2>1, PrefixOfConcatLeft, SubSeqFull
<1> HIDE DEF g
<1>8. \A i \in (g + 1)..(g + k) : generated'[i] = tokens[i - g]
  <2> SUFFICES ASSUME NEW i \in (g + 1)..(g + k) PROVE generated'[i] = tokens[i - g]
    OBVIOUS
  <2>1. i \in 1..(g + k) /\ ~(i <= g) /\ i - g \in 1..k
    BY <1>1
  <2> QED
    BY <1>2, <1>6, <2>1
<1>9. \A i \in (g + 1)..(g + k) :
         generated'[i] \in Greedy(req.target, req.prefix \o SubSeq(generated', 1, i - 1))
  <2>1. \A i \in 1..Len(generated') :
          generated'[i] \in Greedy(req.target, req.prefix \o SubSeq(generated', 1, i - 1))
    BY <1>5 DEF GreedyPath
  <2>2. \A i \in (g + 1)..(g + k) : i \in 1..Len(generated')
    BY <1>1, <1>6
  <2> QED
    BY <2>1, <2>2
<1>10. \A i \in (g + 1)..(g + k - 1) : generated'[i] \notin stops
  <2> SUFFICES ASSUME NEW i \in (g + 1)..(g + k - 1) PROVE generated'[i] \notin stops
    OBVIOUS
  <2>1. i \in (g + 1)..(g + k) /\ i - g \in 1..(k - 1)
    BY <1>1
  <2> QED
    BY <1>4, <1>8, <2>1
<1>11. generated'[g + k] = tokens[k]
  <2>1. g + k \in (g + 1)..(g + k) /\ (g + k) - g = k
    BY <1>1
  <2> QED
    BY <1>8, <2>1
<1>12. g < g + k /\ g + k <= req.max_new_tokens
  BY <1>1
<1>13. Promise!Extend
  <2>1. Status' = IF generated'[g + k] \in stops THEN "returned" ELSE "running"
    BY <1>3, <1>11
  <2>2. UNCHANGED req /\ Status = "running" /\ Len(generated') = g + k
    BY <1>3, <1>6
  <2>3. /\ Len(generated) < Len(generated') /\ Len(generated') <= req.max_new_tokens
        /\ Status' = IF generated'[Len(generated')] \in stops THEN "returned" ELSE "running"
    BY ONLY <1>12, <2>1, <2>2 DEF g
  <2>4. \A i \in (Len(generated) + 1)..Len(generated') :
          generated'[i] \in Greedy(req.target, req.prefix \o SubSeq(generated', 1, i - 1))
    BY ONLY <1>9, <2>2 DEF g
  <2>5. \A i \in (Len(generated) + 1)..(Len(generated') - 1) : generated'[i] \notin stops
    BY ONLY <1>1, <1>10, <2>2 DEF g
  <2> QED
    BY ONLY <1>7, <2>2, <2>3, <2>4, <2>5 DEF Promise!Extend
<1> QED
  BY <1>6, <1>13

\* A committed block extends the output by at least a token, within the budget,
\* along the target's choices and up to the first stop token.
LEMMA CommitImplements ==
  ASSUME IInv, Commit
  PROVE  Promise!Extend
<1> DEFINE tokens == result.committed_tokens
           block  == Take(tokens, remaining)
           stops  == req.stop_token_ids
<1>1. /\ pc = "commit" /\ result \in StepResults
      /\ generated \in Seq(Token) /\ prefix = req.prefix \o generated
      /\ Len(proposed) \in 1..remaining /\ Len(tokens) \in 1..Len(proposed)
      /\ GreedyPath(req.target, prefix, tokens)
      /\ GreedyPath(req.target, req.prefix, generated)
  BY DEF Commit, IInv, TypeOK, BlockInRange, ResultIsJustified, PrefixIsContext, Exact
<1>2. PICK k \in 1..Len(tokens) :
        /\ IsStopCut(block, stops, k)
        /\ generated' = generated \o SubSeq(block, 1, k)
        /\ pc' = IF block[k] \in stops THEN "returned" ELSE "loop"
  BY DEF Commit
<1>3. UNCHANGED req
  BY DEF Commit
<1>4. /\ req.prefix \in Seq(Token) /\ req.max_new_tokens \in Int
      /\ Len(generated) \in Nat /\ Len(proposed) \in Nat
      /\ remaining = req.max_new_tokens - Len(generated)
  BY <1>1, RequestsAreTyped, LenProperties DEF IInv, TypeOK, remaining
<1>5. tokens \in Seq(Token) /\ remaining \in Nat /\ Len(tokens) <= remaining
  BY <1>1, <1>4 DEF StepResults
<1>6. block = tokens
  BY <1>1, <1>5, CutBlockProperties
<1>7. /\ generated' = generated \o SubSeq(tokens, 1, k)
      /\ IsStopCut(tokens, stops, k)
      /\ pc' = IF tokens[k] \in stops THEN "returned" ELSE "loop"
  BY <1>2, <1>6
<1> HIDE DEF tokens
<1>8. Status = "running" /\ Status' = IF tokens[k] \in stops THEN "returned" ELSE "running"
  BY <1>1, <1>7 DEF Status
<1> QED
  BY <1>1, <1>3, <1>4, <1>5, <1>7, <1>8, BlockExtends

\* One case per action of the loop.
LEMMA StepImplements ==
  ASSUME IInv, [Next]_vars
  PROVE  [Promise!Next]_(Promise!vars)
<1>1. ASSUME Start \/ Draft \/ Verify \/ Reverify PROVE UNCHANGED Promise!vars
  <2>1. UNCHANGED <<req, generated>>
    BY <1>1 DEF Start, Draft, Verify, Reverify, text
  <2>2. pc \in {"start", "loop", "verify", "reverify"}
        /\ pc' \in {"loop", "verify", "reverify", "commit"}
    BY <1>1 DEF Start, Draft, DraftDue, RoundDue, Verify, Reverify
  <2> QED
    BY <2>1, <2>2, QuietStepStutters
<1>2. CASE Return
  BY <1>2, ReturnImplements DEF Promise!Next
<1>3. ASSUME RejectRequest \/ ExceedMaxSteps \/ RejectRound \/ RejectProposal \/ CallRaises
      PROVE  Promise!Next
  <2>1. PICK what \in Errors : Raise(what)
    BY <1>3 DEF RejectRequest, ExceedMaxSteps, RejectRound, RejectProposal, CallRaises, Errors
  <2>2. pc \notin {"returned", "raised"}
    BY <1>3 DEF RejectRequest, ExceedMaxSteps, RejectRound, RejectProposal, CallRaises,
       DraftDue, RoundDue
  <2> QED
    BY <2>1, <2>2, RaiseImplements DEF Promise!Next
<1>4. CASE Commit
  BY <1>4, CommitImplements DEF Promise!Next
<1>5. CASE UNCHANGED vars
  BY <1>5 DEF vars, text, Promise!vars, Status
<1> QED
  BY <1>1, <1>2, <1>3, <1>4, <1>5 DEF Next

-----------------------------------------------------------------------------
\* The loop implements the promise: what TLC shows for the instances of the run,
\* for every vocabulary, target, draft and request.
THEOREM Refinement == Spec => ImplementsPromise
<1>1. Init => Promise!Init
  BY DEF Init, Promise!Init, Status
<1>2. IInv /\ [Next]_vars => [Promise!Next]_(Promise!vars)
  BY StepImplements
<1> QED
  BY <1>1, <1>2, Invariance, PTL DEF Spec, ImplementsPromise, Promise!Spec

-----------------------------------------------------------------------------
(***************************************************************************)
(* What generate_rejoin reports is true for every target, draft and        *)
(* request: the reuse counter counts exactly the tokens reattachment       *)
(* added, the counters bound each other, and a step budget of              *)
(* max_new_tokens is never exceeded.                                       *)
(*                                                                         *)
(* The accounts are inductive with what a round's result says of its       *)
(* block: a reattached block repeats the ordinary one and goes on by what  *)
(* the second verification matched behind the correction.                  *)
(***************************************************************************)
Reattached(r) == r.rejoin_verification # None /\ r.rejoin_verification.greedy_match_length > 0

OrdinaryResult(r) == ~Reattached(r) /\ r.committed_tokens = OrdinaryCommit(initial)

ReattachedResult(r) ==
  LET m == initial.greedy_match_length
  IN  /\ Reattached(r)
      /\ Len(OrdinaryCommit(initial)) = m + 1
      /\ Len(r.committed_tokens) = m + r.rejoin_verification.greedy_match_length
      /\ \A i \in 1..(m + 1) : r.committed_tokens[i] = OrdinaryCommit(initial)[i]

BlockInSize ==
  pc \in {"verify", "reverify", "commit"} => Len(proposed) <= req.draft_block_size

ResultIsAccounted ==
  pc = "commit" =>
    /\ result.draft_tokens = proposed
    /\ result.initial_verification = initial
    /\ result.target_invocations = IF result.rejoin_verification = None THEN 1 ELSE 2
    /\ result.rejoin_verification # None =>
         result.rejoin_verification.greedy_match_length \in 0..Len(proposed)
    /\ OrdinaryResult(result) \/ ReattachedResult(result)

AInv ==
  /\ WorkAccounting
  /\ ReuseIsExtraTokens
  /\ MaxStepsSuffices
  /\ BlockInSize
  /\ ResultIsAccounted

-----------------------------------------------------------------------------
\* Two blocks, one of which repeats the other and goes on, have the same stop
\* cut, unless the longer one is cut where the shorter one is over.
LEMMA CutsAgree ==
  ASSUME NEW b \in Seq(Token), NEW o \in Seq(Token), Len(o) <= Len(b),
         \A i \in 1..Len(o) : b[i] = o[i],
         NEW stops, NEW k, NEW n, IsStopCut(b, stops, k), IsStopCut(o, stops, n)
  PROVE  n = IF k <= Len(o) THEN k ELSE Len(o)
<1>1. Len(b) \in Nat /\ Len(o) \in Nat
  BY LenProperties
<1>2. /\ k \in 1..Len(b) /\ \A i \in 1..(k - 1) : b[i] \notin stops
      /\ k < Len(b) => b[k] \in stops
  BY DEF IsStopCut
<1>3. /\ n \in 1..Len(o) /\ \A i \in 1..(n - 1) : o[i] \notin stops
      /\ n < Len(o) => o[n] \in stops
  BY DEF IsStopCut
<1>4. ~(n < k /\ n < Len(o))
  <2> SUFFICES ASSUME n < k, n < Len(o) PROVE FALSE
    OBVIOUS
  <2>1. n \in 1..(k - 1) /\ n \in 1..Len(o)
    BY <1>1, <1>2, <1>3
  <2> QED
    BY <1>2, <1>3, <2>1
<1>5. ~(k < n)
  <2> SUFFICES ASSUME k < n PROVE FALSE
    OBVIOUS
  <2>1. k \in 1..(n - 1) /\ k \in 1..Len(o) /\ k < Len(b)
    BY <1>1, <1>2, <1>3
  <2> QED
    BY <1>2, <1>3, <2>1
<1> QED
  BY <1>1, <1>2, <1>3, <1>4, <1>5

\* The reuse counted for a cut is what the cut keeps beyond the correction.
LEMMA ReuseOfCut ==
  ASSUME NEW r \in StepResults, NEW m \in Nat, r.initial_verification.greedy_match_length = m,
         NEW k \in Nat
  PROVE  /\ ~Reattached(r) => ReusedInCommit(r, k) = 0
         /\ Reattached(r) =>
              /\ k <= m + 1 => ReusedInCommit(r, k) = 0
              /\ m + 1 < k /\ k <= m + r.rejoin_verification.greedy_match_length =>
                   ReusedInCommit(r, k) = k - (m + 1)
<1> DEFINE j == r.rejoin_verification.greedy_match_length
<1>1. r.rejoin_verification # None => j \in Nat
  BY DEF StepResults, Verifications
<1>2. \A n \in Int : NonNegative(n) = IF n > 0 THEN n ELSE 0
  BY DEF NonNegative
<1>3. CASE ~Reattached(r)
  <2>1. ReusedSuffixTokens(r) = 0
    BY <1>1, <1>2, <1>3 DEF Reattached, ReusedSuffixTokens
  <2> QED
    BY <1>2, <1>3, <2>1 DEF ReusedInCommit
<1>4. CASE Reattached(r)
  <2>1. ReusedSuffixTokens(r) = j - 1 /\ j \in Nat /\ j > 0
    BY <1>1, <1>2, <1>4 DEF Reattached, ReusedSuffixTokens
  <2>2. NonNegative(k - m - 1) = IF k <= m + 1 THEN 0 ELSE k - (m + 1)
    BY <1>2
  <2> HIDE DEF j
  <2>3. ReusedInCommit(r, k) = IF j - 1 < NonNegative(k - m - 1) THEN j - 1
                                                                 ELSE NonNegative(k - m - 1)
    BY <2>1 DEF ReusedInCommit
  <2> QED
    BY <1>4, <2>1, <2>2, <2>3 DEF j
<1> QED
  BY <1>3, <1>4

\* The counters after one round more.
LEMMA RoundAccounts ==
  ASSUME NEW s \in Nat, NEW g \in Nat, NEW p \in Nat, NEW t \in Nat, NEW u \in Nat,
         NEW size \in Nat, NEW k \in Nat, NEW l \in Nat, NEW passes \in {1, 2}, NEW reuse \in Nat,
         s <= g, g <= p, s <= t, t <= 2 * s, u <= (t - s) * (size - 1),
         1 <= k, k <= l, l <= size,
         passes = 1 => reuse = 0, passes = 2 => reuse <= l - 1
  PROVE  /\ s + 1 <= g + k /\ g + k <= p + l
         /\ s + 1 <= t + passes /\ t + passes <= 2 * (s + 1)
         /\ u + reuse <= ((t + passes) - (s + 1)) * (size - 1)
<1> DEFINE x == size - 1
           n == t - s
<1>1. x \in Nat /\ n \in Nat /\ reuse <= x
  OBVIOUS
<1> HIDE DEF x
<1>2. (n + 1) * x = n * x + x /\ n * x \in Nat
  BY <1>1
<1>3. CASE passes = 1
  <2>1. (t + passes) - (s + 1) = n
    BY <1>3
  <2> QED
    BY <1>3, <2>1 DEF x
<1>4. CASE passes = 2
  <2>1. (t + passes) - (s + 1) = n + 1
    BY <1>4
  <2>2. u + reuse <= (n + 1) * x
    <3>1. u <= n * x
      BY DEF x
    <3> HIDE DEF n
    <3> QED
      BY <1>1, <1>2, <3>1
  <2> QED
    BY <1>4, <2>1, <2>2 DEF x
<1> QED
  BY <1>3, <1>4

-----------------------------------------------------------------------------
\* What a concatenation holds on either side of the seam.
LEMMA ConcatSeam ==
  ASSUME NEW s \in Seq(Token), NEW u \in Seq(Token), NEW m \in Nat, Len(s) = m,
         Len(u) \in Nat \ {0}
  PROVE  /\ s \o u \in Seq(Token)
         /\ Len(s \o u) = m + Len(u)
         /\ \A i \in 1..m : (s \o u)[i] = s[i]
         /\ (s \o u)[m + 1] = u[1]
<1>1. /\ s \o u \in Seq(Token) /\ Len(s \o u) = Len(s) + Len(u)
      /\ \A i \in 1..(Len(s) + Len(u)) :
            (s \o u)[i] = IF i <= Len(s) THEN s[i] ELSE u[i - Len(s)]
  BY ConcatProperties
<1> DEFINE w == s \o u
           n == Len(u)
<1> HIDE DEF w, n
<1>2. \A i \in 1..(m + n) : w[i] = IF i <= m THEN s[i] ELSE u[i - m]
  BY <1>1 DEF w, n
<1>3. n \in Nat /\ n >= 1
  BY DEF n
<1>4. \A i \in 1..m : w[i] = s[i]
  BY ONLY <1>2, <1>3, m \in Nat
<1>5. w[m + 1] = u[(m + 1) - m] /\ (m + 1) - m = 1
  BY ONLY <1>2, <1>3, m \in Nat
<1>6. w[m + 1] = u[1]
  BY <1>5
<1> QED
  BY <1>1, <1>4, <1>6 DEF w

\* The reattached block of v1 and v2 against the ordinary block of v1: v2 matched
\* at most l tokens, and both blocks agree up to the correction.
RepeatsOrdinary(v1, v2, l) ==
  /\ Len(OrdinaryCommit(v1)) = v1.greedy_match_length + 1
  /\ Len(RejoinedCommit(v1, v2)) = v1.greedy_match_length + v2.greedy_match_length
  /\ v2.greedy_match_length <= l
  /\ \A i \in 1..(v1.greedy_match_length + 1) :
        RejoinedCommit(v1, v2)[i] = OrdinaryCommit(v1)[i]

\* A reattached block repeats the ordinary one up to the correction.
LEMMA ReattachedRepeatsOrdinary ==
  ASSUME NEW t, NEW p \in Seq(Token), NEW c \in Seq(Token),
         NEW v1 \in VerifyGreedy(t, p, c), ~FullyMatches(v1),
         NEW v2 \in VerifyGreedy(t, p \o Accepted(v1), RepairedCandidate(v1)),
         v2.greedy_match_length # 0
  PROVE  RepeatsOrdinary(v1, v2, Len(c))
<1> DEFINE m          == v1.greedy_match_length
           accepted   == SubSeq(c, 1, m)
           correction == <<TargetCorrection(v1)>>
           suffix     == SubSeq(c, m + 2, Len(c))
           repaired   == correction \o suffix
           j          == v2.greedy_match_length
           matched    == SubSeq(repaired, 1, j)
<1>1. /\ v1.candidate_tokens = c /\ m \in 0..Len(c)
      /\ v1.target_tokens \in Seq(Token) /\ Len(v1.target_tokens) = Len(c)
  BY VerificationProperties
<1>2. Len(c) \in Nat /\ m + 1 \in 1..Len(c)
  BY <1>1, LenProperties DEF FullyMatches
<1>3. accepted \in Seq(Token) /\ Len(accepted) = m
  BY <1>1, PrefixProperties
<1>4. correction \in Seq(Token) /\ Len(correction) = 1 /\ correction[1] = TargetCorrection(v1)
  <2>1. TargetCorrection(v1) \in Token
    BY <1>1, <1>2, ElementOfSeq DEF TargetCorrection
  <2> QED
    BY <2>1
<1>5. suffix \in Seq(Token) /\ Len(suffix) = Len(c) - m - 1
  <2>1. \A i \in (m + 2)..Len(c) : c[i] \in Token
    BY <1>1, <1>2, ElementOfSeq
  <2> QED
    BY <1>1, <1>2, <2>1, SubSeqProperties
<1>6. Accepted(v1) = accepted /\ RepairedCandidate(v1) = repaired
  BY <1>1 DEF Accepted, RepairedCandidate, RetainedSuffix
<1> HIDE DEF accepted, correction, suffix
<1>7. /\ repaired \in Seq(Token) /\ Len(repaired) = Len(c) - m
      /\ repaired[1] = TargetCorrection(v1)
  <2> DEFINE n == Len(suffix)
  <2>1. n \in Nat
    BY <1>5, LenProperties
  <2>2. /\ repaired \in Seq(Token) /\ Len(repaired) = Len(correction) + Len(suffix)
        /\ \A i \in 1..(Len(correction) + Len(suffix)) :
             repaired[i] = IF i <= Len(correction) THEN correction[i]
                                                   ELSE suffix[i - Len(correction)]
    BY <1>4, <1>5, ConcatProperties
  <2> HIDE DEF repaired, n
  <2>3. \A i \in 1..(1 + n) : repaired[i] = IF i <= 1 THEN correction[i] ELSE suffix[i - 1]
    BY <1>4, <2>2 DEF n
  <2>4. repaired[1] = correction[1]
    BY ONLY <2>1, <2>3
  <2>5. /\ repaired \in Seq(Token) /\ Len(repaired) = Len(correction) + Len(suffix)
        /\ repaired[1] = correction[1]
    BY <2>2, <2>4
  <2>6. Len(repaired) = 1 + (Len(c) - m - 1) /\ 1 + (Len(c) - m - 1) = Len(c) - m
    BY <1>1, <1>2, <1>4, <1>5, <2>5
  <2> QED
    BY <1>4, <2>5, <2>6
<1> HIDE DEF repaired
<1>8. /\ v2.candidate_tokens = repaired /\ j \in 1..Len(repaired)
  BY <1>6, <1>7, VerificationProperties
<1>9. matched \in Seq(Token) /\ Len(matched) = j /\ matched[1] = TargetCorrection(v1)
  <2>1. j \in 0..Len(repaired) /\ 1 \in 1..j
    BY <1>7, <1>8, LenProperties
  <2> QED
    BY <1>7, <2>1, PrefixProperties
<1>10. RejoinedCommit(v1, v2) = accepted \o matched
  BY <1>6, <1>8 DEF RejoinedCommit
<1>11. OrdinaryCommit(v1) = accepted \o correction
  BY <1>1 DEF OrdinaryCommit, accepted, correction
<1> HIDE DEF m, j, matched
<1>12. /\ Len(accepted \o matched) = m + j
       /\ Len(accepted \o correction) = m + 1
       /\ \A i \in 1..(m + 1) : (accepted \o matched)[i] = (accepted \o correction)[i]
  <2>1. m \in Nat /\ Len(matched) \in Nat \ {0} /\ Len(correction) \in Nat \ {0}
    BY <1>1, <1>4, <1>7, <1>8, <1>9, LenProperties
  <2>2. /\ Len(accepted \o matched) = m + Len(matched)
        /\ \A i \in 1..m : (accepted \o matched)[i] = accepted[i]
        /\ (accepted \o matched)[m + 1] = matched[1]
    <3>1. /\ accepted \in Seq(Token) /\ Len(accepted) = m /\ m \in Nat
          /\ matched \in Seq(Token) /\ Len(matched) \in Nat \ {0}
      BY <1>3, <1>9, <2>1
    <3> QED
      BY ONLY <3>1, ConcatSeam, SMTT(30)
  <2>3. /\ Len(accepted \o correction) = m + Len(correction)
        /\ \A i \in 1..m : (accepted \o correction)[i] = accepted[i]
        /\ (accepted \o correction)[m + 1] = correction[1]
    <3>1. /\ accepted \in Seq(Token) /\ Len(accepted) = m /\ m \in Nat
          /\ correction \in Seq(Token) /\ Len(correction) \in Nat \ {0}
      BY <1>3, <1>4, <2>1
    <3> HIDE DEF accepted, correction
    <3> QED
      BY ONLY <3>1, ConcatSeam, SMTT(30)
  <2> DEFINE long  == accepted \o matched
             short == accepted \o correction
  <2> HIDE DEF long, short
  <2>4. \A i \in 1..m : long[i] = short[i]
    BY <2>2, <2>3 DEF long, short
  <2>5. long[m + 1] = short[m + 1]
    BY <1>4, <1>9, <2>2, <2>3 DEF long, short
  <2>6. \A i \in 1..(m + 1) : long[i] = short[i]
    <3>1. \A i \in 1..(m + 1) : i \in 1..m \/ i = m + 1
      BY <2>1
    <3> QED
      BY <2>4, <2>5, <3>1
  <2> QED
    BY <1>4, <1>9, <2>2, <2>3, <2>6 DEF long, short
<1>13. j <= Len(c)
  BY <1>1, <1>2, <1>7, <1>8
<1> QED
  BY <1>10, <1>11, <1>12, <1>13 DEF RepeatsOrdinary, m, j

-----------------------------------------------------------------------------
LEMMA InitEstablishesAInv == Init => AInv
<1> SUFFICES ASSUME Init PROVE AInv
  OBVIOUS
<1>1. Len(<<>>) = 0 /\ req.draft_block_size \in Int
  BY EmptySeq, RequestsAreTyped DEF Init
<1> QED
  BY <1>1 DEF Init, AInv, WorkAccounting, ReuseIsExtraTokens, MaxStepsSuffices, BlockInSize,
     ResultIsAccounted

\* What stays when neither the text, the counters nor the error change.
LEMMA QuietStepKeepsAccounts ==
  ASSUME AInv, UNCHANGED <<req, error, text, counters, ordinary>>
  PROVE  WorkAccounting' /\ ReuseIsExtraTokens' /\ MaxStepsSuffices'
BY DEF AInv, text, counters, WorkAccounting, ReuseIsExtraTokens, MaxStepsSuffices

\* Only the step limit raises the error that MaxStepsSuffices is about, and a
\* loop that has taken max_steps rounds has generated as many tokens.
LEMMA RaiseKeepsAInv ==
  ASSUME IInv, AInv, NEW what \in Errors, Raise(what),
         what = "exceeded max_steps" => RoundDue /\ StepLimitReached
  PROVE  AInv'
<1>1. /\ error' = what /\ pc' = "raised"
      /\ UNCHANGED <<req, text, counters, round, ordinary>>
  BY DEF Raise
<1>2. WorkAccounting' /\ ReuseIsExtraTokens'
  BY <1>1 DEF AInv, text, counters, WorkAccounting, ReuseIsExtraTokens
<1>3. MaxStepsSuffices'
  <2> SUFFICES ASSUME what = "exceeded max_steps" PROVE req.max_steps < req.max_new_tokens
    BY <1>1 DEF MaxStepsSuffices
  <2>1. /\ steps <= Len(generated) /\ Len(generated) < req.max_new_tokens
        /\ steps >= req.max_steps
    BY DEF AInv, WorkAccounting, RoundDue, StepLimitReached
  <2>2. /\ steps \in Nat /\ Len(generated) \in Nat
        /\ req.max_new_tokens \in Int /\ req.max_steps \in Int
    BY RequestsAreTyped, LenProperties DEF IInv, TypeOK
  <2> DEFINE length == Len(generated)
  <2> HIDE DEF length
  <2>3. /\ steps <= length /\ length < req.max_new_tokens /\ req.max_steps <= steps
        /\ steps \in Nat /\ length \in Nat
        /\ req.max_new_tokens \in Int /\ req.max_steps \in Int
    BY <2>1, <2>2 DEF length
  <2> QED
    BY ONLY <2>3, SMT
<1> QED
  BY <1>1, <1>2, <1>3 DEF AInv, BlockInSize, ResultIsAccounted

LEMMA DraftKeepsAInv ==
  ASSUME IInv, AInv, Draft
  PROVE  AInv'
<1>1. pc' = "verify" /\ UNCHANGED <<req, error, text, counters, ordinary>>
  BY DEF Draft
<1>2. Len(proposed') <= draftLength
  BY DEF Draft
<1>3. draftLength <= req.draft_block_size /\ draftLength \in Int
  <2>1. /\ req.max_new_tokens \in Int /\ req.draft_block_size \in Int
        /\ Len(generated) \in Nat
    BY RequestsAreTyped, LenProperties DEF IInv, TypeOK
  <2> QED
    BY <2>1 DEF draftLength, remaining
<1>4. Len(proposed') \in Nat
  <2>1. proposed' \in Seq(Token)
    BY DraftKeepsIInv DEF IInv, TypeOK
  <2> QED
    BY <2>1, LenProperties
<1>5. BlockInSize'
  <2>1. req.draft_block_size \in Int
    BY RequestsAreTyped DEF IInv
  <2> QED
    BY <1>1, <1>2, <1>3, <1>4, <2>1 DEF BlockInSize
<1> QED
  BY <1>1, <1>5, QuietStepKeepsAccounts DEF AInv, ResultIsAccounted

\* The fields of a StepResult.
LEMMA StepResultFields ==
  ASSUME NEW committed, NEW v1, NEW v2
  PROVE  LET r == StepResult(committed, v1, v2)
         IN  /\ r.committed_tokens = committed
             /\ r.draft_tokens = v1.candidate_tokens
             /\ r.initial_verification = v1
             /\ r.rejoin_verification = v2
             /\ r.target_invocations = IF v2 = None THEN 1 ELSE 2
BY DEF StepResult

LEMMA VerifyKeepsAInv ==
  ASSUME IInv, AInv, Verify
  PROVE  AInv'
<1>1. /\ pc = "verify" /\ proposed \in Seq(Token)
      /\ initial' \in VerifyGreedy(req.target, prefix, proposed)
      /\ UNCHANGED <<req, error, text, counters, proposed, ordinary>>
  BY DEF Verify, IInv, TypeOK
<1>2. BlockInSize'
  BY <1>1 DEF AInv, BlockInSize
<1>3. WorkAccounting' /\ ReuseIsExtraTokens' /\ MaxStepsSuffices'
  BY <1>1, QuietStepKeepsAccounts
<1>4. ResultIsAccounted'
  <2> SUFFICES ASSUME pc' = "commit" PROVE ResultIsAccounted'
    BY DEF ResultIsAccounted
  <2>1. result' = StepResult(OrdinaryCommit(initial'), initial', None)
    BY DEF Verify
  <2>2. initial'.candidate_tokens = proposed
    BY <1>1, VerificationProperties
  <2>3. /\ result'.committed_tokens = OrdinaryCommit(initial')
        /\ result'.draft_tokens = proposed' /\ result'.initial_verification = initial'
        /\ result'.rejoin_verification = None /\ result'.target_invocations = 1
    BY <1>1, <2>1, <2>2, StepResultFields
  <2> QED
    BY <2>3 DEF ResultIsAccounted, OrdinaryResult, Reattached
<1> QED
  BY <1>2, <1>3, <1>4 DEF AInv

LEMMA ReverifyKeepsAInv ==
  ASSUME IInv, AInv, Reverify
  PROVE  AInv'
<1>1. /\ pc = "reverify" /\ prefix \in Seq(Token) /\ proposed \in Seq(Token)
      /\ initial \in VerifyGreedy(req.target, prefix, proposed) /\ ~FullyMatches(initial)
  BY DEF Reverify, IInv, TypeOK, InitialIsGenuine, MismatchBeforeReverify
<1>2. UNCHANGED <<req, error, text, counters, proposed, initial, ordinary>>
  BY DEF Reverify
<1>3. PICK v2 \in VerifyGreedy(req.target, RepairedPrefix, RepairedCandidate(initial)) :
        result' = StepResult(RejoinedCommit(initial, v2), initial, v2)
  BY DEF Reverify
<1>4. v2 \in VerifyGreedy(req.target, prefix \o Accepted(initial), RepairedCandidate(initial))
  BY DEF RepairedPrefix
<1>5. proposed # <<>>
  BY <1>1, EmptySeq DEF IInv, BlockInRange
<1>6. v2 \in Verifications /\ v2 # None /\ v2.greedy_match_length \in Nat
  <2>1. v2 \in Verifications
    BY <1>1, <1>4, <1>5, RejoinedCommitIsGreedy
  <2> QED
    BY <2>1, NoneIsNoResult DEF Verifications
<1>7. /\ result'.committed_tokens = RejoinedCommit(initial, v2)
      /\ result'.draft_tokens = proposed' /\ result'.initial_verification = initial'
      /\ result'.rejoin_verification = v2 /\ result'.target_invocations = 2
  <2>1. initial.candidate_tokens = proposed
    BY <1>1, VerificationProperties
  <2> QED
    BY <1>2, <1>3, <1>6, <2>1, StepResultFields
<1>8. /\ v2.greedy_match_length \in 0..Len(proposed')
      /\ OrdinaryResult(result)' \/ ReattachedResult(result)'
  <2>1. Len(proposed) \in Nat
    BY <1>1, LenProperties
  <2>2. CASE v2.greedy_match_length = 0
    <3>1. RejoinedCommit(initial, v2) = OrdinaryCommit(initial)
      BY <2>2 DEF RejoinedCommit
    <3> QED
      BY <1>2, <1>7, <2>1, <2>2, <3>1 DEF OrdinaryResult, Reattached
  <2>3. CASE v2.greedy_match_length # 0
    <3>1. /\ Len(OrdinaryCommit(initial)) = initial.greedy_match_length + 1
          /\ Len(RejoinedCommit(initial, v2))
               = initial.greedy_match_length + v2.greedy_match_length
          /\ v2.greedy_match_length <= Len(proposed)
          /\ \A i \in 1..(initial.greedy_match_length + 1) :
               RejoinedCommit(initial, v2)[i] = OrdinaryCommit(initial)[i]
      <4>1. RepeatsOrdinary(initial, v2, Len(proposed))
        BY <1>1, <1>4, <2>3, ReattachedRepeatsOrdinary
      <4> QED
        BY <4>1 DEF RepeatsOrdinary
    <3>2. v2.greedy_match_length > 0
      BY <1>6, <2>3
    <3> QED
      BY <1>2, <1>6, <1>7, <2>1, <3>1, <3>2 DEF ReattachedResult, Reattached
  <2> QED
    BY <2>2, <2>3
<1>9. ResultIsAccounted'
  BY <1>6, <1>7, <1>8 DEF ResultIsAccounted
<1>10. BlockInSize'
  BY <1>1, <1>2 DEF AInv, BlockInSize
<1> QED
  BY <1>2, <1>9, <1>10, QuietStepKeepsAccounts DEF AInv

\* The cuts of the committed block and of the ordinary one differ by what the
\* round counts as reused.
LEMMA CutsDifferByReuse ==
  ASSUME NEW r \in StepResults, OrdinaryResult(r) \/ ReattachedResult(r),
         r.initial_verification = initial, NEW l \in Nat \ {0},
         initial.greedy_match_length \in Nat, OrdinaryCommit(initial) \in Seq(Token),
         r.rejoin_verification # None => r.rejoin_verification.greedy_match_length \in 0..l,
         NEW stops, NEW k, NEW n,
         IsStopCut(r.committed_tokens, stops, k), IsStopCut(OrdinaryCommit(initial), stops, n)
  PROVE  /\ k = n + ReusedInCommit(r, k)
         /\ ReusedInCommit(r, k) \in Nat
         /\ r.rejoin_verification = None => ReusedInCommit(r, k) = 0
         /\ ReusedInCommit(r, k) <= l - 1
<1> DEFINE b == r.committed_tokens
           o == OrdinaryCommit(initial)
           m == initial.greedy_match_length
           reuse == ReusedInCommit(r, k)
<1>1. b \in Seq(Token) /\ o \in Seq(Token) /\ Len(b) \in Nat /\ Len(o) \in Nat
  BY LenProperties DEF StepResults
<1>2. k \in 1..Len(b) /\ n \in 1..Len(o)
  BY DEF IsStopCut
<1>3. k \in Nat /\ n \in Nat /\ m \in Nat
  BY <1>1, <1>2
<1>4. /\ ~Reattached(r) => reuse = 0
      /\ Reattached(r) =>
           /\ k <= m + 1 => reuse = 0
           /\ m + 1 < k /\ k <= m + r.rejoin_verification.greedy_match_length =>
                reuse = k - (m + 1)
  BY <1>3, ReuseOfCut
<1>5. r.rejoin_verification = None => ~Reattached(r)
  BY DEF Reattached
<1> HIDE DEF b, o, m, reuse
<1>6. CASE OrdinaryResult(r)
  <2>1. ~Reattached(r) /\ b = o
    BY <1>6 DEF OrdinaryResult, b, o
  <2>2. n = IF k <= Len(o) THEN k ELSE Len(o)
    <3>1. Len(o) <= Len(b) /\ \A i \in 1..Len(o) : b[i] = o[i]
      BY <1>1, <2>1
    <3>2. IsStopCut(b, stops, k) /\ IsStopCut(o, stops, n)
      BY DEF b, o
    <3> QED
      BY ONLY <1>1, <3>1, <3>2, CutsAgree
  <2>3. n = k
    BY <1>1, <1>2, <2>1, <2>2
  <2>4. k = n + reuse /\ reuse \in Nat /\ reuse = 0 /\ reuse <= l - 1
    BY <1>3, <1>4, <2>1, <2>3
  <2> QED
    BY <2>4 DEF reuse
<1>7. CASE ReattachedResult(r)
  <2> DEFINE j == r.rejoin_verification.greedy_match_length
  <2>1. /\ Reattached(r) /\ Len(o) = m + 1 /\ Len(b) = m + j
        /\ \A i \in 1..(m + 1) : b[i] = o[i]
    BY <1>7 DEF ReattachedResult, b, o, m
  <2>2. j \in 0..l /\ j > 0
    BY <2>1 DEF Reattached
  <2> HIDE DEF j
  <2>3. n = IF k <= Len(o) THEN k ELSE Len(o)
    <3>1. Len(o) <= Len(b) /\ \A i \in 1..Len(o) : b[i] = o[i]
      BY <1>3, <2>1, <2>2
    <3>2. IsStopCut(b, stops, k) /\ IsStopCut(o, stops, n)
      BY DEF b, o
    <3> QED
      BY ONLY <1>1, <3>1, <3>2, CutsAgree
  <2>4. k <= m + j
    BY <1>2, <1>3, <2>1, <2>2
  <2>5. /\ k <= m + 1 => reuse = 0
        /\ m + 1 < k => reuse = k - (m + 1)
    BY <1>4, <2>1, <2>4 DEF j
  <2>6. k = n + reuse /\ reuse \in Nat /\ reuse <= l - 1
    <3>1. n = IF k <= m + 1 THEN k ELSE m + 1
      BY <2>1, <2>3
    <3> QED
      BY ONLY <1>3, <2>2, <2>4, <2>5, <3>1, l \in Nat \ {0}, SMT
  <2> QED
    BY <1>5, <2>1, <2>6 DEF reuse
<1> QED
  BY <1>6, <1>7

LEMMA CommitKeepsAInv ==
  ASSUME IInv, AInv, Commit
  PROVE  AInv'
<1> DEFINE l      == Len(proposed)
           passes == result.target_invocations
           tokens == result.committed_tokens
           block  == Take(tokens, remaining)
<1>1. /\ pc = "commit" /\ result \in StepResults /\ proposed \in Seq(Token)
      /\ initial \in VerifyGreedy(req.target, prefix, proposed)
      /\ l \in 1..remaining /\ Len(tokens) \in 1..l /\ l <= req.draft_block_size
      /\ GreedyPath(req.target, prefix, tokens)
  BY DEF Commit, IInv, AInv, TypeOK, BlockInRange, InitialIsGenuine, ResultIsJustified, BlockInSize
<1>2. /\ result.draft_tokens = proposed /\ result.initial_verification = initial
      /\ passes = IF result.rejoin_verification = None THEN 1 ELSE 2
      /\ result.rejoin_verification # None =>
           result.rejoin_verification.greedy_match_length \in 0..l
      /\ OrdinaryResult(result) \/ ReattachedResult(result)
  BY <1>1 DEF AInv, ResultIsAccounted
<1>3. PICK k \in 1..Len(tokens) :
        /\ IsStopCut(block, req.stop_token_ids, k)
        /\ generated' = generated \o SubSeq(block, 1, k)
        /\ steps' = steps + 1
        /\ target_invocations' = target_invocations + passes
        /\ proposed_count' = proposed_count + Len(result.draft_tokens)
        /\ reused_count' = reused_count + ReusedInCommit(result, k)
        /\ pc' = IF block[k] \in req.stop_token_ids THEN "returned" ELSE "loop"
  BY DEF Commit
<1>4. PICK n \in 1..l :
        /\ IsStopCut(OrdinaryCommit(initial), req.stop_token_ids, n)
        /\ ordinary' = ordinary + n
  BY DEF Commit
<1>5. UNCHANGED <<req, error>>
  BY DEF Commit
<1>6. /\ req.draft_block_size \in Int /\ req.max_new_tokens \in Int
      /\ Len(generated) \in Nat /\ l \in Nat /\ generated \in Seq(Token)
      /\ steps \in Nat /\ target_invocations \in Nat /\ proposed_count \in Nat
      /\ reused_count \in Nat /\ ordinary \in Nat
  BY <1>1, RequestsAreTyped, LenProperties DEF IInv, TypeOK
<1>7. tokens \in Seq(Token) /\ remaining \in Nat /\ l \in Nat \ {0} /\ k \in Nat
  BY <1>1, <1>6 DEF StepResults, remaining
<1>8. block = tokens /\ SubSeq(block, 1, k) \in Seq(Token) /\ Len(SubSeq(block, 1, k)) = k
  <2>1. Len(tokens) <= remaining
    BY <1>1, <1>7
  <2> QED
    BY <1>1, <1>7, <2>1, CutBlockProperties
<1>9. /\ OrdinaryCommit(initial) \in Seq(Token) /\ initial.greedy_match_length \in Nat
  <2>1. proposed # <<>> /\ prefix \in Seq(Token)
    BY <1>1, EmptySeq DEF IInv, TypeOK
  <2>2. initial.greedy_match_length \in 0..l
    BY <1>1, VerificationProperties
  <2> QED
    BY <1>1, <1>6, <2>1, <2>2, OrdinaryCommitIsGreedy
<1> DEFINE reuse == ReusedInCommit(result, k)
<1>10. /\ k = n + reuse /\ reuse \in Nat /\ reuse <= l - 1
       /\ result.rejoin_verification = None => reuse = 0
  <2>1. /\ IsStopCut(result.committed_tokens, req.stop_token_ids, k)
        /\ IsStopCut(OrdinaryCommit(initial), req.stop_token_ids, n)
    BY <1>3, <1>4, <1>8
  <2>2. result \in StepResults /\ result.initial_verification = initial /\ l \in Nat \ {0}
    BY <1>1, <1>2, <1>7
  <2>3. /\ OrdinaryResult(result) \/ ReattachedResult(result)
        /\ result.rejoin_verification # None =>
             result.rejoin_verification.greedy_match_length \in 0..l
    BY <1>2
  <2> HIDE DEF l
  <2> QED
    BY ONLY <1>9, <2>1, <2>2, <2>3, CutsDifferByReuse, Zenon
<1>11. passes \in {1, 2} /\ (passes = 1 => reuse = 0)
  BY <1>2, <1>10
<1> DEFINE g == Len(generated)
<1>12. Len(generated') = g + k
  BY <1>3, <1>6, <1>8, ConcatProperties
<1>13. /\ steps' = steps + 1 /\ target_invocations' = target_invocations + passes
       /\ proposed_count' = proposed_count + l /\ reused_count' = reused_count + reuse
       /\ ordinary' = ordinary + n
  BY <1>2, <1>3, <1>4
<1>14. 1 <= k /\ k <= l /\ k \in Nat /\ n \in Nat
  BY <1>1, <1>6, <1>7
<1> DEFINE size == req.draft_block_size
<1>15. size \in Nat /\ l <= size /\ g \in Nat
  BY <1>1, <1>6, <1>7
<1> HIDE DEF l, passes, reuse, g, size
<1>16. WorkAccounting'
  <2>1. /\ steps <= g /\ g <= proposed_count /\ steps <= target_invocations
        /\ target_invocations <= 2 * steps
        /\ reused_count <= (target_invocations - steps) * (size - 1)
    BY DEF AInv, WorkAccounting, g, size
  <2>2. /\ steps + 1 <= g + k /\ g + k <= proposed_count + l
        /\ steps + 1 <= target_invocations + passes
        /\ target_invocations + passes <= 2 * (steps + 1)
        /\ reused_count + reuse <= ((target_invocations + passes) - (steps + 1)) * (size - 1)
    BY ONLY <1>6, <1>7, <1>10, <1>11, <1>14, <1>15, <2>1, RoundAccounts
  <2>3. size = req'.draft_block_size
    BY <1>5 DEF size
  <2> QED
    BY <1>12, <1>13, <2>2, <2>3 DEF WorkAccounting
<1>17. ReuseIsExtraTokens'
  <2>1. g = ordinary + reused_count
    BY DEF AInv, ReuseIsExtraTokens, g
  <2>2. g + k = (ordinary + n) + (reused_count + reuse)
    BY ONLY <1>6, <1>10, <1>14, <1>15, <2>1, SMT
  <2> QED
    BY <1>12, <1>13, <2>2 DEF ReuseIsExtraTokens
<1>18. MaxStepsSuffices'
  BY <1>5 DEF AInv, MaxStepsSuffices
<1>19. pc' \notin {"verify", "reverify", "commit"}
  BY <1>3
<1> QED
  BY <1>16, <1>17, <1>18, <1>19 DEF AInv, BlockInSize, ResultIsAccounted

\* One case per action of the loop.
LEMMA StepKeepsAInv == IInv /\ AInv /\ [Next]_vars => AInv'
<1> SUFFICES ASSUME IInv, AInv, [Next]_vars PROVE AInv'
  OBVIOUS
<1>1. ASSUME Start \/ Return PROVE AInv'
  <2>1. /\ pc' \in {"loop", "returned"}
        /\ UNCHANGED <<req, error, text, counters, ordinary>>
    BY <1>1 DEF Start, Return
  <2> QED
    BY <2>1, QuietStepKeepsAccounts DEF AInv, BlockInSize, ResultIsAccounted
<1>2. ASSUME RejectRequest \/ ExceedMaxSteps \/ RejectRound \/ RejectProposal \/ CallRaises
      PROVE  AInv'
  <2>1. PICK what \in Errors : /\ Raise(what)
                               /\ what = "exceeded max_steps" => RoundDue /\ StepLimitReached
    BY <1>2 DEF RejectRequest, ExceedMaxSteps, RejectRound, RejectProposal, CallRaises, Errors
  <2> QED
    BY <2>1, RaiseKeepsAInv
<1>3. CASE Draft
  BY <1>3, DraftKeepsAInv
<1>4. CASE Verify
  BY <1>4, VerifyKeepsAInv
<1>5. CASE Reverify
  BY <1>5, ReverifyKeepsAInv
<1>6. CASE Commit
  BY <1>6, CommitKeepsAInv
<1>7. ASSUME UNCHANGED vars PROVE AInv'
  <2>1. UNCHANGED <<req, pc, error, text, counters, round, ordinary>>
    BY <1>7 DEF vars
  <2> QED
    BY <2>1, QuietStepKeepsAccounts DEF round, AInv, BlockInSize, ResultIsAccounted,
       OrdinaryResult, ReattachedResult
<1> QED
  BY <1>1, <1>2, <1>3, <1>4, <1>5, <1>6, <1>7 DEF Next

-----------------------------------------------------------------------------
LEMMA AccountsInvariance == Spec => []AInv
BY InitEstablishesAInv, StepKeepsAInv, Invariance, PTL DEF Spec

\* The counters of a result bound each other, whatever the models answered.
THEOREM Accounts == Spec => []WorkAccounting
<1>1. AInv => WorkAccounting
  BY DEF AInv
<1> QED
  BY <1>1, AccountsInvariance, PTL

\* The reuse counter counts exactly the tokens reattachment added, also when a
\* stop token cuts the block and when the target contradicts itself.
THEOREM ReuseCounted == Spec => []ReuseIsExtraTokens
<1>1. AInv => ReuseIsExtraTokens
  BY DEF AInv
<1> QED
  BY <1>1, AccountsInvariance, PTL

\* A step budget of max_new_tokens is never exceeded.
THEOREM BudgetSuffices == Spec => []MaxStepsSuffices
<1>1. AInv => MaxStepsSuffices
  BY DEF AInv
<1> QED
  BY <1>1, AccountsInvariance, PTL

-----------------------------------------------------------------------------
(***************************************************************************)
(* The measurement of rejoinability.py and the second pass of              *)
(* rejoin_exact_step ask the same question of a target that does not tie.  *)
(*                                                                         *)
(* UntiedIsUnique speaks of every prefix, so it is a hypothesis of the     *)
(* theorem and not an assumption for TLC to evaluate.                      *)
(***************************************************************************)
UntiedIsUnique ==
  \A t \in Untied : \A q \in Seq(Token) : \A x, y \in Greedy(t, q) : x = y

\* The length of the common prefix is one number.
LEMMA CommonPrefixIsUnique ==
  ASSUME NEW s, NEW u, Len(s) \in Nat, Len(u) \in Nat, NEW m \in Nat, NEW n \in Nat,
         IsCommonPrefixLength(s, u, m), IsCommonPrefixLength(s, u, n)
  PROVE  m = n
<1>1. ~(m < n)
  BY DEF IsCommonPrefixLength
<1>2. ~(n < m)
  BY DEF IsCommonPrefixLength
<1> QED
  BY <1>1, <1>2

\* A target that does not tie has one answer to a verification.
LEMMA UntiedVerifiesOnce ==
  ASSUME UntiedIsUnique, NEW t \in Untied, NEW p \in Seq(Token), NEW c \in Seq(Token),
         NEW v \in VerifyGreedy(t, p, c), NEW w \in VerifyGreedy(t, p, c)
  PROVE  v = w
<1>1. /\ v.target_tokens \in Seq(Token) /\ Len(v.target_tokens) = Len(c)
      /\ w.target_tokens \in Seq(Token) /\ Len(w.target_tokens) = Len(c)
      /\ v.greedy_match_length \in 0..Len(c) /\ w.greedy_match_length \in 0..Len(c)
      /\ Len(c) \in Nat
  BY VerificationProperties, LenProperties
<1>2. ASSUME NEW i \in 1..Len(c)
      PROVE  v.target_tokens[i] = w.target_tokens[i]
  <2>1. SubSeq(c, 1, i - 1) \in Seq(Token)
    BY <1>1, PrefixProperties
  <2>2. p \o SubSeq(c, 1, i - 1) \in Seq(Token)
    BY <2>1, ConcatProperties
  <2>3. /\ v.target_tokens[i] \in Greedy(t, p \o SubSeq(c, 1, i - 1))
        /\ w.target_tokens[i] \in Greedy(t, p \o SubSeq(c, 1, i - 1))
    BY VerificationProperties
  <2> QED
    BY <2>2, <2>3 DEF UntiedIsUnique
<1>3. v.target_tokens = w.target_tokens
  BY <1>1, <1>2, SeqEqual
<1>4. /\ IsCommonPrefixLength(c, v.target_tokens, v.greedy_match_length)
      /\ IsCommonPrefixLength(c, w.target_tokens, w.greedy_match_length)
  BY DEF VerifyGreedy
<1>5. v.greedy_match_length = w.greedy_match_length
  BY <1>1, <1>3, <1>4, CommonPrefixIsUnique
<1> QED
  BY <1>3, <1>5 DEF VerifyGreedy

\* The correction may be the end of the prefix or the beginning of the candidate.
LEMMA CorrectionMovesOver ==
  ASSUME NEW q \in Seq(Token), NEW x \in Token, NEW s \in Seq(Token), NEW i \in 0..Len(s)
  PROVE  q \o SubSeq(<<x>> \o s, 1, i + 1) = Append(q, x) \o SubSeq(s, 1, i)
<1>1. <<x>> \in Seq(Token) /\ Len(<<x>>) = 1
  OBVIOUS
<1>2. SubSeq(s, 1, i) \in Seq(Token) /\ i \in Nat
  BY PrefixProperties, LenProperties
<1>3. SubSeq(<<x>> \o s, 1, 1 + i) = <<x>> \o SubSeq(s, 1, i)
  <2> DEFINE one == <<x>>
  <2>1. one \in Seq(Token) /\ Len(one) = 1
    BY <1>1
  <2> HIDE DEF one
  <2>2. SubSeq(one \o s, 1, Len(one) + i) = one \o SubSeq(s, 1, i)
    BY <2>1, PrefixOfConcatRight
  <2> QED
    BY <2>1, <2>2 DEF one
<1>4. q \o (<<x>> \o SubSeq(s, 1, i)) = (q \o <<x>>) \o SubSeq(s, 1, i)
  BY <1>1, <1>2, ExtendedPrefix
<1>5. Append(q, x) = q \o <<x>>
  BY AppendIsConcat
<1>6. i + 1 = 1 + i
  BY <1>2
<1> QED
  BY <1>3, <1>4, <1>5, <1>6

\* Forced together with its correction, a suffix matches one token further than
\* behind it: the correction itself (rejoinability.py:61-62, direct_reattach.py:61-63).
LEMMA MeasuredAsReattached ==
  ASSUME UntiedIsUnique, NEW t \in Untied, NEW p \in Seq(Token), NEW c \in Seq(Token),
         NEW v \in VerifyGreedy(t, p, c), ~FullyMatches(v),
         NEW r \in VerifyGreedy(t, p \o Accepted(v), RepairedCandidate(v)),
         NEW w \in VerifyGreedy(t, MeasuredPrefix(p, v), RetainedSuffix(v))
  PROVE  r.greedy_match_length = w.greedy_match_length + 1
<1> DEFINE m        == v.greedy_match_length
           accepted == SubSeq(c, 1, m)
           suffix   == SubSeq(c, m + 2, Len(c))
           x        == TargetCorrection(v)
           repaired == <<x>> \o suffix
           q        == p \o accepted
<1>1. /\ v.candidate_tokens = c /\ m \in 0..Len(c)
      /\ v.target_tokens \in Seq(Token) /\ Len(v.target_tokens) = Len(c)
  BY VerificationProperties
<1>2. Len(c) \in Nat /\ m + 1 \in 1..Len(c)
  BY <1>1, LenProperties DEF FullyMatches
<1>3. accepted \in Seq(Token) /\ q \in Seq(Token)
  BY <1>1, PrefixProperties, ConcatProperties
<1>4. x \in Token /\ x \in Greedy(t, q)
  <2>1. x = v.target_tokens[m + 1] /\ (m + 1) - 1 = m
    BY <1>1 DEF TargetCorrection
  <2>2. v.target_tokens[m + 1] \in Greedy(t, p \o SubSeq(c, 1, (m + 1) - 1))
    BY <1>2, VerificationProperties
  <2> QED
    BY <1>1, <1>2, <2>1, <2>2, ElementOfSeq
<1>5. suffix \in Seq(Token)
  <2>1. \A i \in (m + 2)..Len(c) : c[i] \in Token
    BY <1>1, <1>2, ElementOfSeq
  <2> QED
    BY <1>1, <1>2, <2>1, SubSeqProperties
<1>6. /\ Accepted(v) = accepted /\ RetainedSuffix(v) = suffix
      /\ RepairedCandidate(v) = repaired /\ MeasuredPrefix(p, v) = Append(q, x)
  BY <1>1 DEF Accepted, RepairedCandidate, RetainedSuffix, MeasuredPrefix
<1> HIDE DEF m, accepted, suffix, x, q
<1>7. /\ repaired \in Seq(Token) /\ Len(repaired) = Len(suffix) + 1
      /\ Len(suffix) \in Nat
      /\ repaired[1] = x /\ \A i \in 1..Len(suffix) : repaired[i + 1] = suffix[i]
  <2> DEFINE one == <<x>>
  <2>1. one \in Seq(Token) /\ Len(one) = 1 /\ one[1] = x
    BY <1>4
  <2> HIDE DEF one
  <2>2. /\ one \o suffix \in Seq(Token) /\ Len(one \o suffix) = Len(one) + Len(suffix)
        /\ \A i \in 1..(Len(one) + Len(suffix)) :
             (one \o suffix)[i] = IF i <= Len(one) THEN one[i] ELSE suffix[i - Len(one)]
    BY <1>5, <2>1, ConcatProperties
  <2>3. Len(suffix) \in Nat
    BY <1>5, LenProperties
  <2>4. (one \o suffix)[1] = x
    BY <2>1, <2>2, <2>3
  <2>5. ASSUME NEW i \in 1..Len(suffix) PROVE (one \o suffix)[i + 1] = suffix[i]
    <3>1. /\ i + 1 \in 1..(Len(one) + Len(suffix))
          /\ ~(i + 1 <= Len(one)) /\ (i + 1) - Len(one) = i
      BY <2>1, <2>3
    <3> QED
      BY <2>2, <3>1
  <2> QED
    BY <2>1, <2>2, <2>3, <2>4, <2>5 DEF one
<1> HIDE DEF repaired
<1>8. r \in VerifyGreedy(t, q, repaired) /\ w \in VerifyGreedy(t, Append(q, x), suffix)
  BY <1>6 DEF q
<1> DEFINE forced   == r.target_tokens
           measured == w.target_tokens
<1>9. /\ forced \in Seq(Token) /\ Len(forced) = Len(suffix) + 1
      /\ r.greedy_match_length \in 0..Len(repaired)
      /\ \A i \in 1..Len(repaired) : forced[i] \in Greedy(t, q \o SubSeq(repaired, 1, i - 1))
      /\ IsCommonPrefixLength(repaired, forced, r.greedy_match_length)
  <2>1. IsCommonPrefixLength(repaired, forced, r.greedy_match_length)
    BY <1>8 DEF VerifyGreedy
  <2>2. /\ forced \in Seq(Token) /\ Len(forced) = Len(repaired)
        /\ r.greedy_match_length \in 0..Len(repaired)
    BY <1>7, <1>8, VerificationProperties
  <2>3. \A i \in 1..Len(repaired) : forced[i] \in Greedy(t, q \o SubSeq(repaired, 1, i - 1))
    BY <1>7, <1>8, VerificationProperties
  <2> QED
    BY <1>7, <2>1, <2>2, <2>3
<1>10. /\ measured \in Seq(Token) /\ Len(measured) = Len(suffix)
       /\ w.greedy_match_length \in 0..Len(suffix)
       /\ \A i \in 1..Len(suffix) :
            measured[i] \in Greedy(t, Append(q, x) \o SubSeq(suffix, 1, i - 1))
       /\ IsCommonPrefixLength(suffix, measured, w.greedy_match_length)
  <2>1. IsCommonPrefixLength(suffix, measured, w.greedy_match_length)
    BY <1>8 DEF VerifyGreedy
  <2> QED
    BY <1>5, <1>8, <2>1, VerificationProperties
<1> HIDE DEF forced, measured
<1>11. forced[1] = x
  <2>1. SubSeq(repaired, 1, 0) = <<>> /\ q \o <<>> = q
    BY <1>3, <1>7, SubSeqEmpty, ConcatEmptySeq
  <2>2. forced[1] \in Greedy(t, q \o SubSeq(repaired, 1, 1 - 1)) /\ 1 - 1 = 0
    BY <1>7, <1>9
  <2> QED
    BY <1>3, <1>4, <2>1, <2>2 DEF UntiedIsUnique
<1>12. ASSUME NEW i \in 1..Len(suffix)
       PROVE  forced[i + 1] = measured[i]
  <2>1. /\ i + 1 \in 1..Len(repaired) /\ i - 1 \in 0..Len(suffix)
        /\ (i + 1) - 1 = i /\ (i - 1) + 1 = i
    BY <1>7
  <2>2. q \o SubSeq(repaired, 1, i) = Append(q, x) \o SubSeq(suffix, 1, i - 1)
    <3>1. q \o SubSeq(<<x>> \o suffix, 1, (i - 1) + 1)
            = Append(q, x) \o SubSeq(suffix, 1, i - 1)
      BY <1>3, <1>4, <1>5, <2>1, CorrectionMovesOver
    <3> QED
      BY <2>1, <3>1 DEF repaired
  <2>3. Append(q, x) \o SubSeq(suffix, 1, i - 1) \in Seq(Token)
    <3>1. Append(q, x) \in Seq(Token) /\ SubSeq(suffix, 1, i - 1) \in Seq(Token)
      BY <1>3, <1>4, <1>5, <2>1, AppendProperties, PrefixProperties
    <3> QED
      BY <3>1, ConcatProperties
  <2>4. forced[i + 1] \in Greedy(t, q \o SubSeq(repaired, 1, i))
    BY <1>9, <2>1
  <2>5. measured[i] \in Greedy(t, Append(q, x) \o SubSeq(suffix, 1, i - 1))
    BY <1>10
  <2> QED
    BY <2>2, <2>3, <2>4, <2>5 DEF UntiedIsUnique
<1> DEFINE n == w.greedy_match_length
<1>13. IsCommonPrefixLength(repaired, forced, n + 1)
  <2>1. /\ n \in 0..Len(suffix) /\ \A i \in 1..n : suffix[i] = measured[i]
        /\ n < Len(suffix) => suffix[n + 1] # measured[n + 1]
    BY <1>10 DEF IsCommonPrefixLength
  <2> HIDE DEF n
  <2>2. n + 1 <= Len(repaired) /\ n + 1 <= Len(forced)
    BY <1>7, <1>9, <2>1
  <2>3. ASSUME NEW i \in 1..(n + 1) PROVE repaired[i] = forced[i]
    <3>1. CASE i = 1
      BY <1>7, <1>11, <3>1
    <3>2. CASE i # 1
      <4>1. i - 1 \in 1..n /\ i - 1 \in 1..Len(suffix) /\ (i - 1) + 1 = i
        BY <1>7, <2>1, <3>2
      <4>2. repaired[(i - 1) + 1] = suffix[i - 1] /\ forced[(i - 1) + 1] = measured[i - 1]
        BY <1>7, <1>12, <4>1
      <4> QED
        BY <2>1, <4>1, <4>2
    <3> QED
      BY <3>1, <3>2
  <2>4. ASSUME n + 1 < Len(repaired) PROVE repaired[(n + 1) + 1] # forced[(n + 1) + 1]
    <3>1. n + 1 \in 1..Len(suffix) /\ n < Len(suffix)
      BY <1>7, <2>1, <2>4
    <3> QED
      BY <1>7, <1>12, <2>1, <3>1
  <2> QED
    BY <2>2, <2>3, <2>4 DEF IsCommonPrefixLength
<1>14. /\ n + 1 \in Nat /\ r.greedy_match_length \in Nat
       /\ Len(repaired) \in Nat /\ Len(forced) \in Nat
  BY <1>7, <1>9, <1>10
<1> QED
  BY <1>9, <1>13, <1>14, CommonPrefixIsUnique

-----------------------------------------------------------------------------
(***************************************************************************)
(* RejoinDecoder: the observer that traces a round changes nothing of the  *)
(* loop, so what is proved of the loop holds behind the facade.            *)
(***************************************************************************)

\* What the result of a round says of its second pass.
RejoinIsGenuine ==
  pc = "commit" /\ result.rejoin_verification # None =>
    /\ ~FullyMatches(initial)
    /\ result.rejoin_verification \in
         VerifyGreedy(req.target, RepairedPrefix, RepairedCandidate(initial))

MInv == IInv /\ AInv /\ RejoinIsGenuine

LEMMA InitEstablishesMInv == DecoderInit => MInv
BY InitEstablishesIInv, InitEstablishesAInv DEF DecoderInit, MInv, Init, RejoinIsGenuine

LEMMA DecoderStepIsLoopStep == [DecoderNext]_decoderVars => [Next]_vars
BY DEF DecoderNext, ObservedCommit, Unobserved, Next, decoderVars

LEMMA StepKeepsMInv == MInv /\ [Next]_vars => MInv'
<1> SUFFICES ASSUME MInv, [Next]_vars PROVE MInv'
  OBVIOUS
<1>1. IInv' /\ AInv'
  BY StepKeepsIInv, StepKeepsAInv DEF MInv
<1>2. RejoinIsGenuine'
  <2>1. CASE Verify
    <3>1. pc' = "commit" => result' = StepResult(OrdinaryCommit(initial'), initial', None)
      BY <2>1 DEF Verify
    <3> QED
      BY <3>1, StepResultFields DEF RejoinIsGenuine
  <2>2. CASE Reverify
    <3>1. /\ ~FullyMatches(initial) /\ UNCHANGED <<req, prefix, initial>>
      BY <2>2 DEF Reverify, MInv, IInv, MismatchBeforeReverify, text
    <3>2. PICK v2 \in VerifyGreedy(req.target, RepairedPrefix, RepairedCandidate(initial)) :
            result' = StepResult(RejoinedCommit(initial, v2), initial, v2)
      BY <2>2 DEF Reverify
    <3>3. result'.rejoin_verification = v2
      BY <3>2, StepResultFields
    <3> QED
      BY <3>1, <3>2, <3>3 DEF RejoinIsGenuine, RepairedPrefix
  <2>3. CASE pc' # "commit"
    BY <2>3 DEF RejoinIsGenuine
  <2>4. CASE UNCHANGED vars
    BY <2>4 DEF vars, text, round, MInv, RejoinIsGenuine, RepairedPrefix
  <2>5. Next => Verify \/ Reverify \/ pc' # "commit"
    BY DEF Next, Start, RejectRequest, Return, ExceedMaxSteps, RejectRound, Draft,
           RejectProposal, Commit, CallRaises, Raise
  <2> QED
    BY <2>1, <2>2, <2>3, <2>4, <2>5
<1> QED
  BY <1>1, <1>2 DEF MInv

LEMMA DecoderInvariance == DecoderSpec => []MInv
<1>1. MInv /\ [DecoderNext]_decoderVars => MInv'
  BY DecoderStepIsLoopStep, StepKeepsMInv
<1> QED
  BY <1>1, InitEstablishesMInv, PTL DEF DecoderSpec

\* Behind the facade the loop is exact, keeps its accounts and its step budget
\* suffices, also when a configuration leaves max_steps to the default.
THEOREM FacadeKeepsLoop ==
  DecoderSpec => [](TypeOK /\ Exact /\ ReuseIsExtraTokens /\ WorkAccounting /\ MaxStepsSuffices)
<1>1. MInv => TypeOK /\ Exact /\ ReuseIsExtraTokens /\ WorkAccounting /\ MaxStepsSuffices
  BY DEF MInv, IInv, AInv
<1> QED
  BY <1>1, DecoderInvariance, PTL

\* On a target that does not tie, what measure_direct_rejoinability says of a
\* round's block is what the runtime finds and reuses, for every prefix, block
\* and request.
THEOREM MeasurementPredicts ==
  ASSUME UntiedIsUnique
  PROVE  DecoderSpec => []MeasurementPredictsReuse
<1>1. ASSUME MInv, pc = "commit", req.target \in Untied, NEW m \in Rejoinability(prefix, proposed)
      PROVE  /\ m.suffix_length = StepTrace(result).suffix_length
             /\ m.mismatch_index = StepTrace(result).first_mismatch_position
             /\ result.rejoin_verification # None =>
                  m.direct_survival_length = StepTrace(result).direct_survival_length
  <2>1. /\ prefix \in Seq(Token) /\ proposed \in Seq(Token)
        /\ initial \in VerifyGreedy(req.target, prefix, proposed)
        /\ result.initial_verification = initial
    BY <1>1 DEF MInv, IInv, AInv, TypeOK, InitialIsGenuine, ResultIsAccounted
  <2>2. /\ StepTrace(result).suffix_length = SuffixLength(initial)
        /\ StepTrace(result).first_mismatch_position
             = IF FullyMatches(initial) THEN None ELSE initial.greedy_match_length
        /\ StepTrace(result).direct_survival_length = ReusedSuffixTokens(result)
    BY <2>1 DEF StepTrace
  <2>3. PICK v \in VerifyGreedy(req.target, prefix, proposed) :
          IF FullyMatches(v)
          THEN m = [fully_accepted |-> TRUE, draft_length |-> Len(proposed),
                    mismatch_index |-> None, suffix_length |-> 0,
                    direct_survival_length |-> 0]
          ELSE \E w \in VerifyGreedy(req.target, MeasuredPrefix(prefix, v), RetainedSuffix(v)) :
                 m = [fully_accepted |-> FALSE, draft_length |-> Len(proposed),
                      mismatch_index |-> v.greedy_match_length,
                      suffix_length |-> SuffixLength(v),
                      direct_survival_length |-> w.greedy_match_length]
    BY <1>1 DEF Rejoinability
  <2>4. v = initial
    BY <1>1, <2>1, UntiedVerifiesOnce
  <2>5. CASE FullyMatches(initial)
    <3>1. result.rejoin_verification = None
      BY <1>1, <2>5 DEF MInv, RejoinIsGenuine
    <3> QED
      BY <2>2, <2>3, <2>4, <2>5, <3>1 DEF SuffixLength
  <2>6. CASE ~FullyMatches(initial)
    <3>1. PICK w \in VerifyGreedy(req.target, MeasuredPrefix(prefix, initial),
                                  RetainedSuffix(initial)) :
            m = [fully_accepted |-> FALSE, draft_length |-> Len(proposed),
                 mismatch_index |-> initial.greedy_match_length,
                 suffix_length |-> SuffixLength(initial),
                 direct_survival_length |-> w.greedy_match_length]
      BY <2>3, <2>4, <2>6
    <3>2. ASSUME result.rejoin_verification # None
          PROVE  w.greedy_match_length = ReusedSuffixTokens(result)
      <4>1. result.rejoin_verification \in
              VerifyGreedy(req.target, prefix \o Accepted(initial), RepairedCandidate(initial))
        BY <1>1, <3>2 DEF MInv, RejoinIsGenuine, RepairedPrefix
      <4>2. result.rejoin_verification.greedy_match_length = w.greedy_match_length + 1
        BY <1>1, <2>1, <2>6, <4>1, MeasuredAsReattached
      <4>3. w.greedy_match_length \in Nat
        BY DEF VerifyGreedy
      <4> QED
        BY <3>2, <4>2, <4>3 DEF ReusedSuffixTokens, NonNegative
    <3> QED
      BY <2>2, <2>6, <3>1, <3>2
  <2> QED
    BY <2>5, <2>6
<1>2. MInv => MeasurementPredictsReuse
  BY <1>1 DEF MeasurementPredictsReuse
<1> QED
  BY <1>2, DecoderInvariance, PTL
-----------------------------------------------------------------------------
(***************************************************************************)
(* The collected traces.  Their sums are those of the counters, term by    *)
(* term; while the loop runs no cut has dropped a token of any round.      *)
(***************************************************************************)
TraceRecords ==
  [draft_length            : Nat,
   first_mismatch_position : Nat \union {None},
   suffix_length           : Nat,
   direct_survival_length  : Nat,
   attempted_rejoin        : BOOLEAN,
   tokens_committed        : Nat,
   target_invocations      : Nat]

Summed == {"draft_length", "direct_survival_length", "tokens_committed", "target_invocations"}

Column(tr, field) == [n \in DOMAIN tr |-> tr[n][field]]

TotalOf(tr, field) == Total(Column(tr, field), DOMAIN tr)

SoundTrace(t) ==
  /\ t.direct_survival_length <= t.suffix_length
  /\ t.first_mismatch_position = None => t.suffix_length = 0

TracesAreSound ==
  traces \in Seq(TraceRecords) /\ \A n \in DOMAIN traces : SoundTrace(traces[n])

CountersAreTotals ==
  /\ Len(traces) = steps
  /\ TotalOf(traces, "target_invocations") = target_invocations
  /\ TotalOf(traces, "draft_length") = proposed_count

NothingIsLost ==
  /\ TotalOf(traces, "tokens_committed") >= Len(generated)
  /\ TotalOf(traces, "direct_survival_length") >= reused_count
  /\ pc \notin {"returned", "raised"} =>
       /\ TotalOf(traces, "tokens_committed") = Len(generated)
       /\ TotalOf(traces, "direct_survival_length") = reused_count

TInv == TracesAreSound /\ CountersAreTotals /\ NothingIsLost

-----------------------------------------------------------------------------
\* A trace's columns are of naturals, and one trace more is one summand more.
LEMMA TotalOfAppend ==
  ASSUME NEW tr \in Seq(TraceRecords), NEW x \in TraceRecords, NEW field \in Summed
  PROVE  /\ TotalOf(tr, field) \in Int
         /\ TotalOf(Append(tr, x), field) = TotalOf(tr, field) + x[field]
<1>1. \A t \in TraceRecords : t[field] \in Nat
  BY DEF TraceRecords, Summed
<1> DEFINE n    == Len(tr)
           more == Append(tr, x)
<1>2. /\ n \in Nat /\ DOMAIN tr = 1..n /\ \A i \in 1..n : tr[i] \in TraceRecords
      /\ Len(more) = n + 1 /\ DOMAIN more = 1..(n + 1)
      /\ \A i \in 1..n : more[i] = tr[i]
      /\ more[n + 1] = x
  <2>1. /\ n \in Nat /\ DOMAIN tr = 1..n /\ \A i \in 1..n : tr[i] \in TraceRecords
    BY LenProperties, ElementOfSeq
  <2>2. /\ more \in Seq(TraceRecords) /\ Len(more) = n + 1
        /\ \A i \in 1..n : more[i] = tr[i]
        /\ more[n + 1] = x
    BY AppendProperties
  <2>3. DOMAIN more = 1..(n + 1)
    BY <2>2, LenProperties
  <2> QED
    BY <2>1, <2>2, <2>3
<1> HIDE DEF n, more
<1> DEFINE f == Column(tr, field)
           g == Column(more, field)
<1>3. /\ \A i \in 1..n : f[i] = g[i] /\ f[i] \in Int
      /\ \A i \in 1..(n + 1) : g[i] \in Int
      /\ g[n + 1] = x[field]
  <2>1. \A i \in 1..n : f[i] = tr[i][field]
    BY <1>2 DEF Column
  <2>2. \A i \in 1..(n + 1) : g[i] = more[i][field]
    BY <1>2 DEF Column
  <2>3. \A i \in 1..(n + 1) : i \in 1..n \/ i = n + 1
    BY <1>2
  <2>4. n + 1 \in 1..(n + 1) /\ \A i \in 1..n : i \in 1..(n + 1)
    BY <1>2
  <2> HIDE DEF f, g
  <2>5. \A i \in 1..n : f[i] = g[i] /\ f[i] \in Int
    BY <1>1, <1>2, <2>1, <2>2, <2>4
  <2>6. g[n + 1] = x[field] /\ x[field] \in Int
    BY <1>1, <1>2, <2>2, <2>4
  <2> QED
    BY <2>3, <2>5, <2>6
<1>4. TotalOf(tr, field) = Total(f, 1..n) /\ TotalOf(more, field) = Total(g, 1..(n + 1))
  BY <1>2, Zenon DEF TotalOf
<1> HIDE DEF f, g
<1>5. Total(g, 1..(n + 1)) = Total(f, 1..n) + g[n + 1]
  BY <1>2, <1>3, TotalOfNext
<1>6. Total(f, 1..n) \in Int
  <2> DEFINE S == 1..n
  <2>1. IsFiniteSet(S) /\ \A i \in S : f[i] \in Int
    BY <1>2, <1>3, FS_Interval
  <2> HIDE DEF S
  <2>2. Total(f, S) \in Int
    BY ONLY <2>1, TotalProperties
  <2> QED
    BY <2>2 DEF S
<1>7. TotalOf(more, field) = TotalOf(tr, field) + x[field]
  BY <1>3, <1>4, <1>5
<1> QED
  BY <1>4, <1>6, <1>7 DEF more

\* No traces, no totals.
LEMMA TotalOfNone ==
  ASSUME NEW field
  PROVE  TotalOf(<<>>, field) = 0
<1>1. DOMAIN <<>> = {}
  BY EmptySeq
<1> DEFINE f == Column(<<>>, field)
<1>2. TotalOf(<<>>, field) = Total(f, {})
  BY <1>1 DEF TotalOf
<1> HIDE DEF f
<1>3. IsFiniteSet({}) /\ \A x \in {} : f[x] \in Int
  BY FS_EmptySet
<1>4. Total(f, {}) = 0
  BY ONLY <1>3, TotalProperties
<1> QED
  BY <1>2, <1>4

\* What the observer keeps of a round that is about to be committed.
LEMMA StepTraceIsSound ==
  ASSUME MInv, pc = "commit"
  PROVE  /\ StepTrace(result) \in TraceRecords /\ SoundTrace(StepTrace(result))
         /\ StepTrace(result).target_invocations = result.target_invocations
         /\ StepTrace(result).draft_length = Len(result.draft_tokens)
         /\ StepTrace(result).tokens_committed = Len(result.committed_tokens)
         /\ StepTrace(result).direct_survival_length = ReusedSuffixTokens(result)
<1> DEFINE t == StepTrace(result)
           c == proposed
           m == initial.greedy_match_length
           w == result.rejoin_verification
<1>1. /\ result \in StepResults /\ result.initial_verification = initial
      /\ prefix \in Seq(Token) /\ c \in Seq(Token)
      /\ initial \in VerifyGreedy(req.target, prefix, c)
      /\ w # None => /\ ~FullyMatches(initial)
                     /\ w \in VerifyGreedy(req.target, RepairedPrefix, RepairedCandidate(initial))
  BY DEF MInv, IInv, AInv, TypeOK, InitialIsGenuine, ResultIsAccounted, RejoinIsGenuine
<1>2. /\ t.target_invocations = result.target_invocations
      /\ t.draft_length = Len(result.draft_tokens)
      /\ t.tokens_committed = Len(result.committed_tokens)
      /\ t.direct_survival_length = ReusedSuffixTokens(result)
      /\ t.suffix_length = SuffixLength(initial)
      /\ t.first_mismatch_position = IF FullyMatches(initial) THEN None ELSE m
  BY <1>1 DEF StepTrace
<1>3. /\ result.target_invocations \in Nat
      /\ Len(result.draft_tokens) \in Nat /\ Len(result.committed_tokens) \in Nat
  BY <1>1, CommitCounts
<1>4. initial.candidate_tokens = c /\ m \in 0..Len(c) /\ Len(c) \in Nat
  BY <1>1, VerificationProperties, LenProperties
<1>5. ASSUME ~FullyMatches(initial)
      PROVE  /\ SuffixLength(initial) = Len(RetainedSuffix(initial))
             /\ RetainedSuffix(initial) \in Seq(Token)
  <2>1. m + 1 \in 1..Len(c)
    BY <1>4, <1>5 DEF FullyMatches
  <2>2. \A i \in (m + 2)..Len(c) : c[i] \in Token
    BY <1>1, <1>4, <2>1, ElementOfSeq
  <2>3. SubSeq(c, m + 2, Len(c)) \in Seq(Token)
    BY <1>1, <1>4, <2>1, <2>2, SubSeqProperties
  <2> QED
    BY <1>4, <1>5, <2>3 DEF SuffixLength, RetainedSuffix
<1>6. SuffixLength(initial) \in Nat
  BY <1>5, LenProperties DEF SuffixLength
<1>7. ReusedSuffixTokens(result) \in Nat /\ ReusedSuffixTokens(result) <= SuffixLength(initial)
  <2>1. CASE w = None
    BY <1>6, <2>1 DEF ReusedSuffixTokens
  <2>2. CASE w # None
    <3> DEFINE suffix   == RetainedSuffix(initial)
               repaired == RepairedCandidate(initial)
    <3>1. suffix \in Seq(Token) /\ Len(suffix) \in Nat /\ SuffixLength(initial) = Len(suffix)
      BY <1>1, <1>5, <2>2, LenProperties
    <3>2. TargetCorrection(initial) \in Token
      <4>1. m + 1 \in 1..Len(c)
        BY <1>1, <1>4, <2>2 DEF FullyMatches
      <4>2. initial.target_tokens \in Seq(Token) /\ Len(initial.target_tokens) = Len(c)
        BY <1>1, VerificationProperties
      <4> QED
        BY <4>1, <4>2, ElementOfSeq DEF TargetCorrection
    <3>3. repaired \in Seq(Token) /\ Len(repaired) = 1 + Len(suffix)
      <4> DEFINE one == <<TargetCorrection(initial)>>
      <4>1. one \in Seq(Token) /\ Len(one) = 1 /\ repaired = one \o suffix
        BY <3>2 DEF RepairedCandidate
      <4> HIDE DEF one, suffix, repaired
      <4>2. one \o suffix \in Seq(Token) /\ Len(one \o suffix) = Len(one) + Len(suffix)
        BY ONLY <3>1, <4>1, ConcatProperties
      <4> QED
        BY <4>1, <4>2
    <3> HIDE DEF suffix, repaired
    <3>4. w.greedy_match_length \in 0..Len(repaired)
      BY <1>1, <2>2, <3>3, VerificationProperties DEF repaired
    <3> QED
      BY <2>2, <3>1, <3>3, <3>4 DEF ReusedSuffixTokens, NonNegative
  <2> QED
    BY <2>1, <2>2
<1>8. t \in TraceRecords
  <2>1. (w # None) \in BOOLEAN
    OBVIOUS
  <2>2. t.first_mismatch_position \in Nat \union {None}
    BY <1>2, <1>4
  <2> QED
    BY <1>1, <1>2, <1>3, <1>6, <1>7, <2>1, <2>2 DEF StepTrace, TraceRecords
<1>9. SoundTrace(t)
  <2>1. FullyMatches(initial) => SuffixLength(initial) = 0
    BY DEF SuffixLength
  <2>2. ~FullyMatches(initial) => t.first_mismatch_position # None
    BY <1>2, <1>4, NoneIsNoNumber
  <2> QED
    BY <1>2, <1>7, <2>1, <2>2 DEF SoundTrace
<1> HIDE DEF t
<1> QED
  BY <1>2, <1>8, <1>9 DEF t

\* No reuse is cut away unless a token is.
LEMMA ReuseOfCommit ==
  ASSUME MInv, pc = "commit", NEW k \in 1..Len(result.committed_tokens)
  PROVE  /\ ReusedInCommit(result, k) <= ReusedSuffixTokens(result)
         /\ ReusedInCommit(result, k) \in Nat /\ ReusedSuffixTokens(result) \in Nat
         /\ k = Len(result.committed_tokens) =>
              ReusedInCommit(result, k) = ReusedSuffixTokens(result)
<1> DEFINE m == initial.greedy_match_length
           j == result.rejoin_verification.greedy_match_length
<1>1. /\ result \in StepResults /\ result.initial_verification = initial
      /\ initial \in Verifications
      /\ OrdinaryResult(result) \/ ReattachedResult(result)
      /\ result.committed_tokens \in Seq(Token)
  <2>1. /\ result \in StepResults /\ result.initial_verification = initial
        /\ OrdinaryResult(result) \/ ReattachedResult(result)
    BY DEF MInv, IInv, AInv, TypeOK, ResultIsAccounted
  <2> QED
    BY <2>1 DEF StepResults
<1>2. m \in Nat /\ k \in Nat /\ Len(result.committed_tokens) \in Nat
  BY <1>1, LenProperties DEF Verifications
<1>3. ReusedInCommit(result, k) \in Nat
  BY <1>1, <1>2, CommitCounts
<1>4. result.rejoin_verification # None => j \in Nat
  BY <1>1 DEF StepResults, Verifications
<1>5. ReusedSuffixTokens(result) = IF Reattached(result) THEN j - 1 ELSE 0
  BY <1>4 DEF ReusedSuffixTokens, NonNegative, Reattached
<1>6. CASE ~Reattached(result)
  <2>1. ReusedInCommit(result, k) = 0
    BY <1>1, <1>2, <1>6, ReuseOfCut
  <2> QED
    BY <1>5, <1>6, <2>1
<1>7. CASE Reattached(result)
  <2>1. j \in Nat /\ j > 0 /\ ReusedSuffixTokens(result) = j - 1
    BY <1>4, <1>5, <1>7 DEF Reattached
  <2>2. Len(result.committed_tokens) = m + j
    BY <1>1, <1>7 DEF OrdinaryResult, ReattachedResult
  <2>3. /\ k <= m + 1 => ReusedInCommit(result, k) = 0
        /\ m + 1 < k /\ k <= m + j => ReusedInCommit(result, k) = k - (m + 1)
    BY <1>1, <1>2, <1>7, ReuseOfCut
  <2>4. k <= m + j
    BY <2>2
  <2> HIDE DEF m, j
  <2> QED
    BY <1>2, <1>3, <2>1, <2>2, <2>3, <2>4
<1> QED
  BY <1>6, <1>7

-----------------------------------------------------------------------------
LEMMA InitEstablishesTInv == DecoderInit => TInv
<1> SUFFICES ASSUME DecoderInit PROVE TInv
  OBVIOUS
<1>1. /\ traces = <<>> /\ steps = 0 /\ target_invocations = 0
      /\ proposed_count = 0 /\ reused_count = 0 /\ generated = <<>>
  BY DEF DecoderInit, Init
<1>2. /\ traces \in Seq(TraceRecords) /\ Len(traces) = 0 /\ DOMAIN traces = {}
      /\ Len(generated) = 0
  BY <1>1, EmptySeq
<1>3. \A field : TotalOf(traces, field) = 0
  BY <1>1, TotalOfNone
<1> QED
  BY <1>1, <1>2, <1>3 DEF TInv, TracesAreSound, CountersAreTotals, NothingIsLost

\* A step that commits nothing and does not resume a finished run keeps the accounts.
LEMMA QuietStepKeepsTInv ==
  ASSUME TInv, UNCHANGED <<traces, generated, counters>>,
         pc' \notin {"returned", "raised"} => pc \notin {"returned", "raised"}
  PROVE  TInv'
<1>1. TracesAreSound'
  BY DEF TInv, TracesAreSound
<1>2. CountersAreTotals' /\ NothingIsLost'
  BY DEF TInv, CountersAreTotals, NothingIsLost, counters
<1> QED
  BY <1>1, <1>2 DEF TInv

\* The observed round adds its trace before the loop cuts its block.
LEMMA ObservedCommitKeepsTInv ==
  ASSUME MInv, TInv, ObservedCommit
  PROVE  TInv'
<1> DEFINE t      == StepTrace(result)
           tokens == result.committed_tokens
           block  == Take(tokens, remaining)
<1>1. /\ pc = "commit" /\ Commit /\ traces' = Append(traces, t)
  BY DEF ObservedCommit, Commit
<1>2. /\ t \in TraceRecords /\ SoundTrace(t)
      /\ t.target_invocations = result.target_invocations
      /\ t.draft_length = Len(result.draft_tokens)
      /\ t.tokens_committed = Len(tokens)
      /\ t.direct_survival_length = ReusedSuffixTokens(result)
  BY <1>1, StepTraceIsSound
<1>3. PICK k \in 1..Len(tokens) :
        /\ IsStopCut(block, req.stop_token_ids, k)
        /\ generated' = generated \o SubSeq(block, 1, k)
        /\ steps' = steps + 1
        /\ target_invocations' = target_invocations + result.target_invocations
        /\ proposed_count' = proposed_count + Len(result.draft_tokens)
        /\ reused_count' = reused_count + ReusedInCommit(result, k)
        /\ pc' = IF block[k] \in req.stop_token_ids THEN "returned" ELSE "loop"
  BY <1>1 DEF Commit
<1>4. /\ generated \in Seq(Token) /\ Len(generated) \in Nat
      /\ steps \in Nat /\ target_invocations \in Nat
      /\ proposed_count \in Nat /\ reused_count \in Nat
      /\ tokens \in Seq(Token) /\ Len(tokens) \in Nat /\ Len(tokens) <= remaining
      /\ remaining \in Nat /\ GreedyPath(req.target, prefix, tokens)
  <2>1. /\ generated \in Seq(Token) /\ steps \in Nat /\ target_invocations \in Nat
        /\ proposed_count \in Nat /\ reused_count \in Nat
        /\ result \in StepResults /\ req.max_new_tokens \in Int
        /\ GreedyPath(req.target, prefix, tokens)
        /\ Len(tokens) \in 1..Len(proposed) /\ Len(proposed) \in 1..remaining
        /\ proposed \in Seq(Token)
    BY <1>1, RequestsAreTyped DEF MInv, IInv, TypeOK, ResultIsJustified, BlockInRange
  <2>2. tokens \in Seq(Token)
    BY <2>1 DEF StepResults
  <2>3. Len(generated) \in Nat /\ Len(tokens) \in Nat /\ Len(proposed) \in Nat
    BY <2>1, <2>2, LenProperties
  <2> QED
    BY <2>1, <2>2, <2>3 DEF remaining
<1>5. block = tokens /\ SubSeq(block, 1, k) \in Seq(Token) /\ Len(SubSeq(block, 1, k)) = k
  BY <1>4, CutBlockProperties
<1>6. Len(generated') = Len(generated) + k
  BY <1>3, <1>4, <1>5, ConcatProperties
<1>7. pc' = "loop" => k = Len(tokens)
  BY <1>3, <1>4, <1>5 DEF IsStopCut
<1>8. pc' \in {"loop", "returned"}
  BY <1>3
<1>9. /\ ReusedInCommit(result, k) <= ReusedSuffixTokens(result)
      /\ ReusedInCommit(result, k) \in Nat /\ ReusedSuffixTokens(result) \in Nat
      /\ k = Len(tokens) => ReusedInCommit(result, k) = ReusedSuffixTokens(result)
  BY <1>1, ReuseOfCommit
<1> HIDE DEF t, tokens, block
<1>10. traces \in Seq(TraceRecords)
  BY DEF TInv, TracesAreSound
<1>11. ASSUME NEW field \in Summed
       PROVE  /\ TotalOf(traces, field) \in Int
              /\ TotalOf(traces', field) = TotalOf(traces, field) + t[field]
  BY <1>1, <1>2, <1>10, TotalOfAppend
<1>12. TracesAreSound'
  <2>1. /\ traces' \in Seq(TraceRecords) /\ Len(traces') = Len(traces) + 1
        /\ \A i \in 1..Len(traces) : traces'[i] = traces[i]
        /\ traces'[Len(traces) + 1] = t
    BY <1>1, <1>2, <1>10, AppendProperties
  <2>2. Len(traces) \in Nat /\ DOMAIN traces = 1..Len(traces) /\ DOMAIN traces' = 1..Len(traces')
    BY <1>10, <2>1, LenProperties
  <2>3. \A i \in DOMAIN traces : SoundTrace(traces[i])
    BY DEF TInv, TracesAreSound
  <2>4. ASSUME NEW i \in DOMAIN traces' PROVE SoundTrace(traces'[i])
    <3>1. CASE i \in 1..Len(traces)
      BY <2>1, <2>2, <2>3, <3>1
    <3>2. CASE i = Len(traces) + 1
      BY ONLY <1>2, <2>1, <3>2, Zenon
    <3> QED
      BY <2>1, <2>2, <2>4, <3>1, <3>2
  <2> QED
    BY <2>1, <2>4 DEF TracesAreSound
<1>13. CountersAreTotals'
  <2>1. /\ Len(traces) = steps
        /\ TotalOf(traces, "target_invocations") = target_invocations
        /\ TotalOf(traces, "draft_length") = proposed_count
    BY DEF TInv, CountersAreTotals
  <2>2. Len(traces') = Len(traces) + 1
    BY <1>1, <1>2, <1>10, AppendProperties
  <2>3. TotalOf(traces', "target_invocations") = target_invocations'
    BY <1>2, <1>3, <1>11, <2>1 DEF Summed
  <2>4. TotalOf(traces', "draft_length") = proposed_count'
    BY <1>2, <1>3, <1>11, <2>1 DEF Summed
  <2> QED
    BY <1>3, <2>1, <2>2, <2>3, <2>4 DEF CountersAreTotals
<1>14. NothingIsLost'
  <2>1. /\ TotalOf(traces, "tokens_committed") = Len(generated)
        /\ TotalOf(traces, "direct_survival_length") = reused_count
    BY <1>1 DEF TInv, NothingIsLost
  <2>2. /\ TotalOf(traces', "tokens_committed") = Len(generated) + Len(tokens)
        /\ TotalOf(traces', "direct_survival_length") = reused_count + ReusedSuffixTokens(result)
    BY <1>2, <1>11, <2>1 DEF Summed
  <2>3. /\ TotalOf(traces', "tokens_committed") >= Len(generated')
        /\ TotalOf(traces', "direct_survival_length") >= reused_count'
    BY <1>3, <1>4, <1>6, <1>9, <2>2
  <2>4. pc' \notin {"returned", "raised"} =>
          /\ TotalOf(traces', "tokens_committed") = Len(generated')
          /\ TotalOf(traces', "direct_survival_length") = reused_count'
    BY <1>3, <1>4, <1>6, <1>7, <1>8, <1>9, <2>2
  <2> QED
    BY <2>3, <2>4 DEF NothingIsLost
<1> QED
  BY <1>12, <1>13, <1>14 DEF TInv

LEMMA StepKeepsTInv == MInv /\ TInv /\ [DecoderNext]_decoderVars => TInv'
<1> SUFFICES ASSUME MInv, TInv, [DecoderNext]_decoderVars PROVE TInv'
  OBVIOUS
<1>1. CASE ObservedCommit
  BY <1>1, ObservedCommitKeepsTInv
<1>2. CASE Unobserved
  <2>1. UNCHANGED <<traces, generated, counters>>
    BY <1>2 DEF Unobserved, Start, RejectRequest, Return, ExceedMaxSteps, RejectRound, Draft,
       RejectProposal, Verify, Reverify, CallRaises, Raise, text
  <2>2. pc \notin {"returned", "raised"}
    BY <1>2 DEF Unobserved, Start, RejectRequest, Return, ExceedMaxSteps, RejectRound, Draft,
       RejectProposal, Verify, Reverify, CallRaises, RoundDue, DraftDue
  <2> QED
    BY <2>1, <2>2, QuietStepKeepsTInv
<1>3. CASE UNCHANGED decoderVars
  BY <1>3, QuietStepKeepsTInv DEF decoderVars, vars, text
<1> QED
  BY <1>1, <1>2, <1>3 DEF DecoderNext

\* SumOf adds up a column of the traces.
LEMMA SumOfIsTotal ==
  ASSUME TracesAreSound, NEW field \in Summed
  PROVE  SumOf(field) = TotalOf(traces, field)
<1> DEFINE S    == DOMAIN traces
           g    == Column(traces, field)
           P(T) == T = [s \in SUBSET S |->
                          IF s = {} THEN 0
                          ELSE LET x == CHOOSE x \in s : TRUE
                               IN  traces[x][field] + T[s \ {x}]]
           R == CHOOSE T : P(T)
<1>1. SumOf(field) = R[S]
  BY DEF SumOf, MapThenSumSet, MapThenFoldSet
<1>2. /\ IsFiniteSet(S)
      /\ \A x \in S : g[x] = traces[x][field] /\ g[x] \in Int
  <2>1. \A t \in TraceRecords : t[field] \in Int
    BY DEF TraceRecords, Summed
  <2>2. S = 1..Len(traces) /\ Len(traces) \in Nat /\ \A x \in S : traces[x] \in TraceRecords
    BY LenProperties, ElementOfSeq DEF TracesAreSound
  <2>3. IsFiniteSet(S)
    BY <2>2, FS_Interval
  <2> QED
    BY <2>1, <2>2, <2>3 DEF Column
<1>3. \A s \in SUBSET S : s # {} => (CHOOSE x \in s : TRUE) \in S
  OBVIOUS
<1> HIDE DEF g
<1>4. \A T : P(T) <=> IsFold(T, g, S)
  BY <1>2, <1>3 DEF IsFold, SumBody
<1> HIDE DEF P
<1>5. P(R)
  BY <1>2, <1>4, FoldExists
<1> HIDE DEF R
<1>6. R[S] = Total(g, S)
  BY <1>2, <1>4, <1>5, FoldIsTotal
<1> QED
  BY <1>1, <1>6 DEF g, TotalOf

\* The observer's traces account for the result the caller gets: the counters
\* exactly, the tokens and the reuse up to what the stop cut dropped of the last
\* block, and no trace claims more reuse than its suffix is long.
THEOREM TracesAccount == DecoderSpec => []TracesAccountForResult
<1>1. DecoderSpec => []TInv
  BY DecoderInvariance, InitEstablishesTInv, StepKeepsTInv, PTL DEF DecoderSpec
<1>2. ASSUME TInv PROVE TracesAccountForResult
  <2>1. ASSUME NEW field \in Summed PROVE SumOf(field) = TotalOf(traces, field)
    BY <1>2, SumOfIsTotal DEF TInv
  <2>2. /\ SumOf("target_invocations") = TotalOf(traces, "target_invocations")
        /\ SumOf("draft_length") = TotalOf(traces, "draft_length")
        /\ SumOf("tokens_committed") = TotalOf(traces, "tokens_committed")
        /\ SumOf("direct_survival_length") = TotalOf(traces, "direct_survival_length")
    BY <2>1 DEF Summed
  <2> QED
    BY <1>2, <2>2 DEF TInv, TracesAreSound, CountersAreTotals, NothingIsLost, SoundTrace,
       TracesAccountForResult
<1> QED
  BY <1>1, <1>2, PTL
=============================================================================
