------------------------------- MODULE Decoder -------------------------------
(***************************************************************************)
(* RejoinDecoder (rejoin/api.py, rejoin/config.py) in front of             *)
(* generate_rejoin, with an observer that keeps a StepTrace of each round  *)
(* (rejoin/analysis/trace_collector.py), and the offline measurement of    *)
(* the same rounds (rejoin/analysis/rejoinability.py).                     *)
(***************************************************************************)
EXTENDS DirectReattach, FiniteSetsExt

CONSTANTS
  Configs,   \* arguments of DecoderConfig
  Calls,     \* arguments of generate
  Untied     \* the targets whose choice is unique under every prefix

ASSUME NoneIsNoNumber == None \notin Int

VARIABLE traces   \* the steps traced so far

decoderVars == <<vars, traces>>

\* DecoderConfig.__post_init__: no other configuration exists.
ValidConfig(c) ==
  /\ c.draft_block_size > 0
  /\ c.min_suffix_length >= 0
  /\ c.max_steps # None => c.max_steps > 0

DefaultMaxSteps == 1000000

\* The request generate passes on.
RequestOf(c, call) ==
  [target            |-> call.target,
   prefix            |-> call.prefix,
   max_new_tokens    |-> call.max_new_tokens,
   draft_block_size  |-> c.draft_block_size,
   min_suffix_length |-> c.min_suffix_length,
   stop_token_ids    |-> c.stop_token_ids,
   max_steps         |-> IF c.max_steps = None THEN DefaultMaxSteps ELSE c.max_steps]

\* The Requests of the loop behind the facade.
DecoderRequests ==
  {RequestOf(c, call) : c \in {c \in Configs : ValidConfig(c)}, call \in Calls}

-----------------------------------------------------------------------------
SuffixLength(v) == IF FullyMatches(v) THEN 0 ELSE Len(RetainedSuffix(v))

\* Slip: the trace says what ordinary speculation would have done.
StepTraceUnrepaired(r) ==
  [draft_length            |-> Len(r.draft_tokens),
   first_mismatch_position |-> r.initial_verification.greedy_match_length,
   suffix_length           |-> SuffixLength(r.initial_verification),
   direct_survival_length  |-> ReusedSuffixTokens(r),
   attempted_rejoin        |-> r.rejoin_verification # None,
   tokens_committed        |-> Len(OrdinaryCommit(r.initial_verification)),
   target_invocations      |-> r.target_invocations]

\* StepTrace.from_step
StepTrace(r) ==
  [draft_length            |-> Len(r.draft_tokens),
   first_mismatch_position |-> IF FullyMatches(r.initial_verification) THEN None
                               ELSE r.initial_verification.greedy_match_length,
   suffix_length           |-> SuffixLength(r.initial_verification),
   direct_survival_length  |-> ReusedSuffixTokens(r),
   attempted_rejoin        |-> r.rejoin_verification # None,
   tokens_committed        |-> Len(r.committed_tokens),
   target_invocations      |-> r.target_invocations]

\* Slip: the suffix is teacher-forced without the correction before it.
WithoutCorrection(p, v) == p \o Accepted(v)

\* Here, unlike in the runtime, the correction is part of the prefix.
MeasuredPrefix(p, v) == Append(p \o Accepted(v), TargetCorrection(v))

\* What measure_direct_rejoinability may return for the block.
Rejoinability(p, block) ==
  UNION
    {IF FullyMatches(v)
     THEN {[fully_accepted |-> TRUE, draft_length |-> Len(block), mismatch_index |-> None,
            suffix_length |-> 0, direct_survival_length |-> 0]}
     ELSE {[fully_accepted |-> FALSE, draft_length |-> Len(block),
            mismatch_index |-> v.greedy_match_length, suffix_length |-> SuffixLength(v),
            direct_survival_length |-> w.greedy_match_length] :
             w \in VerifyGreedy(req.target, MeasuredPrefix(p, v), RetainedSuffix(v))} :
       v \in VerifyGreedy(req.target, p, block)}

-----------------------------------------------------------------------------
DecoderInit == Init /\ traces = <<>>

\* The observer is called with the round's result before the loop commits it.
ObservedCommit == Commit /\ traces' = Append(traces, StepTrace(result))

Unobserved ==
  /\ \/ Start \/ RejectRequest \/ Return
     \/ ExceedMaxSteps \/ RejectRound
     \/ Draft \/ RejectProposal
     \/ Verify \/ Reverify
     \/ CallRaises
  /\ UNCHANGED traces

DecoderNext == ObservedCommit \/ Unobserved

DecoderSpec == DecoderInit /\ [][DecoderNext]_decoderVars /\ WF_decoderVars(DecoderNext)

-----------------------------------------------------------------------------
SumOf(field) == MapThenSumSet(LAMBDA n : traces[n][field], DOMAIN traces)

\* The traces add up to the result: the counters exactly, the tokens and the
\* reuse unless the stop token cut the last block.  And the salvage ratio of
\* every trace is defined (metrics/salvage.py:7-8).
TracesAccountForResult ==
  /\ Len(traces) = steps
  /\ SumOf("target_invocations") = target_invocations
  /\ SumOf("draft_length") = proposed_count
  /\ SumOf("tokens_committed") >= Len(generated)
  /\ SumOf("direct_survival_length") >= reused_count
  /\ pc = "loop" => /\ SumOf("tokens_committed") = Len(generated)
                    /\ SumOf("direct_survival_length") = reused_count
  /\ \A n \in DOMAIN traces :
       /\ traces[n].direct_survival_length <= traces[n].suffix_length
       /\ traces[n].first_mismatch_position = None => traces[n].suffix_length = 0

\* On an exact target the offline measurement predicts what the runtime reuses:
\* forcing the suffix behind the correction and forcing it together with the
\* correction are the same question (rejoinability.py:61-62 and
\* direct_reattach.py:61-63).
MeasurementPredictsReuse ==
  pc = "commit" /\ req.target \in Untied =>
    \A m \in Rejoinability(prefix, proposed) :
      /\ m.suffix_length = StepTrace(result).suffix_length
      /\ m.mismatch_index = StepTrace(result).first_mismatch_position
      /\ result.rejoin_verification # None =>
           m.direct_survival_length = StepTrace(result).direct_survival_length
=============================================================================
