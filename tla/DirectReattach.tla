--------------------------- MODULE DirectReattach ---------------------------
(***************************************************************************)
(* rejoin/runtime/direct_reattach.py: generate_rejoin and the round it     *)
(* repeats, rejoin_exact_step.  A round drafts a block, verifies it, and on *)
(* a mismatch repairs the block with the target's correction and verifies  *)
(* the retained suffix a second time under the repaired prefix.            *)
(*                                                                         *)
(* One action per call the code makes to a model adapter or the observer:  *)
(* pc says which call is next.  Every such call may raise.                 *)
(***************************************************************************)
EXTENDS Verification

CONSTANTS
  Requests,   \* arguments of generate_rejoin
  None        \* Python's None

ASSUME RequestsAreTyped ==
  \A r \in Requests :
    /\ r.prefix \in Seq(Token)
    /\ r.max_new_tokens \in Int /\ r.draft_block_size \in Int
    /\ r.min_suffix_length \in Int /\ r.max_steps \in Int

VARIABLES
  req,                \* the request being served
  pc,                 \* next call of the loop
  error,              \* what was raised, or "none"
  prefix,             \* prompt and output, the context of the next round
  generated,          \* the output
  steps,              \* rounds committed
  target_invocations,
  proposed_count,
  reused_count,
  proposed,           \* this round's draft block
  initial,            \* this round's first VerificationResult
  result,             \* this round's RejoinStepResult
  \* History of the run, not kept by the code:
  ordinary            \* tokens ordinary speculation commits from these blocks

text     == <<prefix, generated>>
counters == <<steps, target_invocations, proposed_count, reused_count>>
round    == <<proposed, initial, result>>
vars     == <<req, pc, error, text, counters, round, ordinary>>

Errors == {"none", "invalid request", "exceeded max_steps", "invalid round",
           "malformed proposal", "raised by a callee"}

remaining   == req.max_new_tokens - Len(generated)

\* Slip: the last block is as long as any other.
draftLengthUncapped == req.draft_block_size

draftLength == IF req.draft_block_size < remaining THEN req.draft_block_size
                                                   ELSE remaining

(***************************************************************************)
(* RejoinStepResult and its reused_suffix_tokens property.                 *)
(***************************************************************************)
StepResults ==
  [committed_tokens     : Seq(Token),
   draft_tokens         : Seq(Token),
   initial_verification : Verifications,
   rejoin_verification  : Verifications \union {None},
   target_invocations   : {1, 2}]

ASSUME NoneIsNoResult == None \notin Verifications /\ None \notin StepResults

\* Slip: the second target pass is not counted.
StepResultOnePass(committed, v1, v2) ==
  [committed_tokens     |-> committed,
   draft_tokens         |-> v1.candidate_tokens,
   initial_verification |-> v1,
   rejoin_verification  |-> v2,
   target_invocations   |-> 1]

StepResult(committed, v1, v2) ==
  [committed_tokens     |-> committed,
   draft_tokens         |-> v1.candidate_tokens,
   initial_verification |-> v1,
   rejoin_verification  |-> v2,
   target_invocations   |-> IF v2 = None THEN 1 ELSE 2]

\* Slip: max(0, n) forgotten.
Unclamped(n) == n

NonNegative(n) == IF n > 0 THEN n ELSE 0

ReusedSuffixTokens(r) ==
  IF r.rejoin_verification = None THEN 0
  ELSE NonNegative(r.rejoin_verification.greedy_match_length - 1)

(***************************************************************************)
(* A mismatch at index m splits the block into the accepted tokens, the    *)
(* rejected one and the retained suffix; the repaired candidate has the    *)
(* correction in the rejected token's place.                               *)
(***************************************************************************)
Accepted(v) == SubSeq(v.candidate_tokens, 1, v.greedy_match_length)

RetainedSuffix(v) ==
  SubSeq(v.candidate_tokens, v.greedy_match_length + 2, Len(v.candidate_tokens))

RepairedCandidate(v) == <<TargetCorrection(v)>> \o RetainedSuffix(v)

\* Slip: the suffix is reattached through its first mismatch.
RejoinedThroughMismatch(v1, v2) ==
  IF v2.greedy_match_length = 0
  THEN OrdinaryCommit(v1)
  ELSE Accepted(v1) \o Take(v2.candidate_tokens, v2.greedy_match_length + 1)

\* The block a second verification v2 of the repaired candidate justifies.  A
\* target that contradicts its own correction gets the ordinary fallback.
RejoinedCommit(v1, v2) ==
  IF v2.greedy_match_length = 0
  THEN OrdinaryCommit(v1)
  ELSE Accepted(v1) \o SubSeq(v2.candidate_tokens, 1, v2.greedy_match_length)

\* Slip: the suffix is verified under the prefix the draft saw.
StalePrefix == prefix

\* The prefix the correction was chosen under.
RepairedPrefix == prefix \o Accepted(initial)

\* Slip: the limit counts target passes, of which a round may make two.
InvocationLimitReached == target_invocations >= req.max_steps

StepLimitReached == steps >= req.max_steps

-----------------------------------------------------------------------------
Init ==
  /\ req \in Requests
  /\ pc = "start"
  /\ error = "none"
  /\ prefix = req.prefix
  /\ generated = <<>>
  /\ steps = 0 /\ target_invocations = 0 /\ proposed_count = 0 /\ reused_count = 0
  /\ proposed = <<>> /\ initial = None /\ result = None
  /\ ordinary = 0

Raise(what) ==
  /\ pc' = "raised"
  /\ error' = what
  /\ UNCHANGED <<req, text, counters, round, ordinary>>

ValidRequest == req.max_new_tokens >= 0 /\ req.max_steps > 0

Start ==
  /\ pc = "start"
  /\ ValidRequest
  /\ pc' = "loop"
  /\ UNCHANGED <<req, error, text, counters, round, ordinary>>

RejectRequest == pc = "start" /\ ~ValidRequest /\ Raise("invalid request")

Return ==
  /\ pc = "loop"
  /\ Len(generated) >= req.max_new_tokens
  /\ pc' = "returned"
  /\ UNCHANGED <<req, error, text, counters, round, ordinary>>

RoundDue == pc = "loop" /\ Len(generated) < req.max_new_tokens

ExceedMaxSteps ==
  /\ RoundDue
  /\ StepLimitReached
  /\ Raise("exceeded max_steps")

ValidRound == draftLength > 0 /\ req.min_suffix_length >= 0

RejectRound ==
  /\ RoundDue
  /\ ~StepLimitReached
  /\ ~ValidRound
  /\ Raise("invalid round")

\* The draft adapter is asked for draftLength tokens.
DraftDue == RoundDue /\ ~StepLimitReached /\ ValidRound

Draft ==
  /\ DraftDue
  /\ proposed' \in {p \in Proposals(draftLength) : p # <<>> /\ Len(p) <= draftLength}
  /\ pc' = "verify"
  /\ UNCHANGED <<req, error, text, counters, initial, result, ordinary>>

RejectProposal ==
  /\ DraftDue
  /\ \E p \in Proposals(draftLength) : p = <<>> \/ Len(p) > draftLength
  /\ Raise("malformed proposal")

\* The first verification settles the round, unless it leaves a suffix worth
\* a second one.
Verify ==
  /\ pc = "verify"
  /\ initial' \in VerifyGreedy(req.target, prefix, proposed)
  /\ \/ /\ \/ FullyMatches(initial')
           \/ Len(RetainedSuffix(initial')) < req.min_suffix_length
        /\ result' = StepResult(OrdinaryCommit(initial'), initial', None)
        /\ pc' = "commit"
     \/ /\ ~FullyMatches(initial')
        /\ Len(RetainedSuffix(initial')) >= req.min_suffix_length
        /\ pc' = "reverify"
        /\ UNCHANGED result
  /\ UNCHANGED <<req, error, text, counters, proposed, ordinary>>

\* Slip: a round whose correction was contradicted is drafted again.
ReverifyOrRetry ==
  /\ pc = "reverify"
  /\ \E v2 \in VerifyGreedy(req.target, RepairedPrefix, RepairedCandidate(initial)) :
        IF v2.greedy_match_length = 0
        THEN /\ pc' = "loop"
             /\ proposed' = <<>> /\ initial' = None /\ result' = None
        ELSE /\ pc' = "commit"
             /\ result' = StepResult(RejoinedCommit(initial, v2), initial, v2)
             /\ UNCHANGED <<proposed, initial>>
  /\ UNCHANGED <<req, error, text, counters, ordinary>>

Reverify ==
  /\ pc = "reverify"
  /\ \E v2 \in VerifyGreedy(req.target, RepairedPrefix, RepairedCandidate(initial)) :
        result' = StepResult(RejoinedCommit(initial, v2), initial, v2)
  /\ pc' = "commit"
  /\ UNCHANGED <<req, error, text, counters, proposed, initial, ordinary>>

\* Slip: what the suffix matched is counted, kept by the stop cut or not.
ReusedInResult(r, k) == ReusedSuffixTokens(r)

\* Reused tokens counted for a block cut to k tokens.
ReusedInCommit(r, k) ==
  LET beyond == NonNegative(k - r.initial_verification.greedy_match_length - 1)
  IN  IF ReusedSuffixTokens(r) < beyond THEN ReusedSuffixTokens(r) ELSE beyond

\* The observer has seen the result; the block is cut at the budget and at the
\* first stop token, then committed and accounted for.
Commit ==
  /\ pc = "commit"
  /\ \E k \in 1..Len(result.committed_tokens) :
       LET block     == Take(result.committed_tokens, remaining)
           committed == SubSeq(block, 1, k)
       IN  /\ IsStopCut(block, req.stop_token_ids, k)
           /\ generated' = generated \o committed
           /\ prefix' = prefix \o committed
           /\ steps' = steps + 1
           /\ target_invocations' = target_invocations + result.target_invocations
           /\ proposed_count' = proposed_count + Len(result.draft_tokens)
           /\ reused_count' = reused_count + ReusedInCommit(result, k)
           /\ pc' = IF block[k] \in req.stop_token_ids THEN "returned" ELSE "loop"
  /\ \E k \in 1..Len(proposed) :
       /\ IsStopCut(OrdinaryCommit(initial), req.stop_token_ids, k)
       /\ ordinary' = ordinary + k
  /\ proposed' = <<>> /\ initial' = None /\ result' = None
  /\ UNCHANGED <<req, error>>

\* An adapter or the observer raises; the exception leaves generate_rejoin and
\* the tokens generated so far are lost to the caller.
CallRaises ==
  /\ DraftDue \/ pc \in {"verify", "reverify", "commit"}
  /\ Raise("raised by a callee")

Next ==
  \/ Start \/ RejectRequest \/ Return
  \/ ExceedMaxSteps \/ RejectRound
  \/ Draft \/ RejectProposal
  \/ Verify \/ Reverify \/ Commit
  \/ CallRaises

\* The loop runs in its caller's thread and no call blocks for ever.
Spec == Init /\ [][Next]_vars /\ WF_vars(Next)

-----------------------------------------------------------------------------
\* Every variable has the type the code gives it, and a round's results are
\* there when the loop reads them.
TypeOK ==
  /\ pc \in {"start", "loop", "verify", "reverify", "commit", "returned", "raised"}
  /\ error \in Errors
  /\ prefix \in Seq(Token) /\ generated \in Seq(Token) /\ proposed \in Seq(Token)
  /\ steps \in Nat /\ target_invocations \in Nat
  /\ proposed_count \in Nat /\ reused_count \in Nat
  /\ ordinary \in Nat
  /\ initial \in Verifications \union {None}
  /\ result \in StepResults \union {None}
  /\ pc = "verify" => proposed # <<>>
  /\ pc \in {"reverify", "commit"} => initial # None
  /\ pc = "commit" => result # None

\* Retained tokens are never trusted: whatever the draft proposes and however
\* often the suffix is reattached, the output follows the target's greedy
\* choices under the repaired prefix (README: "Committed tokens always follow
\* target-greedy behavior").
Exact == GreedyPath(req.target, req.prefix, generated)

\* reused_suffix_tokens counts exactly what reattachment added to the output:
\* the tokens an ordinary speculative round, cut at its own stop token, would
\* not have committed (direct_reattach.py:125-132).
ReuseIsExtraTokens == Len(generated) = ordinary + reused_count

\* The slice committed_tokens[:remaining] never cuts: no accepted, corrected or
\* reattached block is longer than what the request still allows, so the
\* counters taken from the uncut result describe the tokens committed.
BlockFitsBudget == pc = "commit" => Len(result.committed_tokens) <= remaining

\* The aggregate counters bound each other: every round commits a token the
\* draft proposed a slot for, every reuse was paid for by a second target
\* pass, and a pass can salvage at most a block minus its rejected token.
WorkAccounting ==
  /\ steps <= Len(generated) /\ Len(generated) <= proposed_count
  /\ steps <= target_invocations /\ target_invocations <= 2 * steps
  /\ reused_count <= (target_invocations - steps) * (req.draft_block_size - 1)

\* A step budget of max_new_tokens always suffices: the loop makes progress in
\* every round, so "exceeded max_steps" reports a budget below the request.
MaxStepsSuffices ==
  error = "exceeded max_steps" => req.max_steps < req.max_new_tokens

\* Each generation ends: it returns, or it raises.
Terminates == <>(pc \in {"returned", "raised"})

Status == IF pc \in {"returned", "raised"} THEN pc ELSE "running"

Promise == INSTANCE GreedyDecoding WITH output <- generated, status <- Status

\* The loop implements the promise of GreedyDecoding: it never takes a token
\* back, never emits one past a stop token or the budget, and returns exactly
\* when the output is complete.
ImplementsPromise == Promise!Spec
=============================================================================
