----------------------------- MODULE Speculative -----------------------------
(***************************************************************************)
(* rejoin/runtime/speculative.py: generate_speculative and its round       *)
(* speculative_step, the baseline that discards everything after the first *)
(* mismatch.  One action per call of a model adapter.                      *)
(***************************************************************************)
EXTENDS Verification

CONSTANTS
  Requests   \* arguments of generate_speculative

VARIABLES
  req,             \* the request being served
  pc,              \* next call of the loop
  error,           \* what was raised, or "none"
  prefix,          \* prompt and output, the context of the next round
  generated,       \* the output
  steps,           \* rounds committed
  proposed_count,
  proposed         \* this round's draft block

vars == <<req, pc, error, prefix, generated, steps, proposed_count, proposed>>

remaining   == req.max_new_tokens - Len(generated)
draftLength == IF req.draft_block_size < remaining THEN req.draft_block_size
                                                   ELSE remaining

Init ==
  /\ req \in Requests
  /\ pc = "start"
  /\ error = "none"
  /\ prefix = req.prefix
  /\ generated = <<>> /\ proposed = <<>>
  /\ steps = 0 /\ proposed_count = 0

Raise(what) ==
  /\ pc' = "raised"
  /\ error' = what
  /\ UNCHANGED <<req, prefix, generated, steps, proposed_count, proposed>>

ValidRequest ==
  /\ req.max_new_tokens >= 0
  /\ req.draft_block_size > 0
  /\ req.max_steps > 0

Start ==
  /\ pc = "start"
  /\ ValidRequest
  /\ pc' = "loop"
  /\ UNCHANGED <<req, error, prefix, generated, steps, proposed_count, proposed>>

RejectRequest == pc = "start" /\ ~ValidRequest /\ Raise("invalid request")

Return ==
  /\ pc = "loop"
  /\ Len(generated) >= req.max_new_tokens
  /\ pc' = "returned"
  /\ UNCHANGED <<req, error, prefix, generated, steps, proposed_count, proposed>>

RoundDue == pc = "loop" /\ Len(generated) < req.max_new_tokens

ExceedMaxSteps == RoundDue /\ steps >= req.max_steps /\ Raise("exceeded max_steps")

\* The step's own test of draft_length cannot fail behind ValidRequest.
DraftDue == RoundDue /\ steps < req.max_steps

Draft ==
  /\ DraftDue
  /\ proposed' \in {p \in Proposals(draftLength) : p # <<>> /\ Len(p) <= draftLength}
  /\ pc' = "verify"
  /\ UNCHANGED <<req, error, prefix, generated, steps, proposed_count>>

RejectProposal ==
  /\ DraftDue
  /\ \E p \in Proposals(draftLength) : p = <<>> \/ Len(p) > draftLength
  /\ Raise("malformed proposal")

\* Slip: the block is cut after the rejected token instead of before it.
ThroughRejected(v) == Take(v.candidate_tokens, v.greedy_match_length + 1)

Committed(v) == OrdinaryCommit(v)

\* Verification, the stop cut and the commit follow without another call.
VerifyAndCommit ==
  /\ pc = "verify"
  /\ \E v \in VerifyGreedy(req.target, prefix, proposed), k \in 1..Len(proposed) :
       LET block     == Take(Committed(v), remaining)
           committed == SubSeq(block, 1, k)
       IN  /\ IsStopCut(block, req.stop_token_ids, k)
           /\ generated' = generated \o committed
           /\ prefix' = prefix \o committed
           /\ pc' = IF block[k] \in req.stop_token_ids THEN "returned" ELSE "loop"
  /\ steps' = steps + 1
  /\ proposed_count' = proposed_count + Len(proposed)
  /\ proposed' = <<>>
  /\ UNCHANGED <<req, error>>

\* An adapter raises; generate_speculative lets the exception through.
CallRaises == (DraftDue \/ pc = "verify") /\ Raise("raised by a callee")

Next ==
  \/ Start \/ RejectRequest \/ Return
  \/ ExceedMaxSteps
  \/ Draft \/ RejectProposal
  \/ VerifyAndCommit
  \/ CallRaises

\* The loop runs in its caller's thread and no call blocks for ever.
Spec == Init /\ [][Next]_vars /\ WF_vars(Next)
=============================================================================
