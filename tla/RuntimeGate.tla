----------------------------- MODULE RuntimeGate -----------------------------
(***************************************************************************)
(* The exactness gate: one request is served by each runtime in turn, as   *)
(* in tests/test_runtime.py (test_all_runtimes_match_target_greedy, which  *)
(* compares the tokens with assertEqual), and the outputs are compared     *)
(* with assert_exact_match (metrics/exactness.py).  A runtime starts from  *)
(* fresh local state and leaves only its tokens.                           *)
(***************************************************************************)
EXTENDS Verification

CONSTANTS
  Requests, None,
  Untied   \* the targets whose choice is unique under every prefix

ASSUME RequestsAreTyped ==
  \A r \in Requests :
    /\ r.prefix \in Seq(Token)
    /\ r.max_new_tokens \in Int /\ r.draft_block_size \in Int
    /\ r.min_suffix_length \in Int /\ r.max_steps \in Int

VARIABLES
  req, pc, error, prefix, generated, steps, target_invocations,
  proposed_count, reused_count, proposed, initial, result, ordinary,
  running,   \* the runtime that serves the request, "compare", or the verdict
  outputs    \* tokens returned by each runtime, or None

Runtimes == {"target_greedy", "speculative", "rejoin"}

TargetGreedy == INSTANCE Autoregressive
Ordinary == INSTANCE Speculative
Rejoin == INSTANCE DirectReattach

ASSUME NoneIsNoResult == None \notin Verifications /\ None \notin Rejoin!StepResults

ASSUME NoneIsNoNumber == None \notin Int

locals == <<pc, error, prefix, generated, steps, target_invocations, proposed_count,
            reused_count, proposed, initial, result, ordinary>>
vars == <<req, locals, running, outputs>>

Init ==
  /\ Rejoin!Init
  /\ running = "target_greedy"
  /\ outputs = [runtime \in Runtimes |-> None]

TargetGreedyStep ==
  /\ running = "target_greedy"
  /\ TargetGreedy!Next
  /\ UNCHANGED <<error, steps, target_invocations, proposed_count, reused_count,
                 proposed, initial, result, ordinary, running, outputs>>

SpeculativeStep ==
  /\ running = "speculative"
  /\ Ordinary!Next
  /\ UNCHANGED <<target_invocations, reused_count, initial, result, ordinary,
                 running, outputs>>

RejoinStep ==
  /\ running = "rejoin"
  /\ Rejoin!Next
  /\ UNCHANGED <<running, outputs>>

NextRuntime ==
  [target_greedy |-> "speculative", speculative |-> "rejoin", rejoin |-> "compare"]

\* The tokens of the result are kept, everything else of the call is gone.
Collect ==
  /\ running \in Runtimes
  /\ pc = "returned"
  /\ outputs' = [outputs EXCEPT ![running] = generated]
  /\ running' = NextRuntime[running]
  /\ UNCHANGED req
  /\ pc' = "start" /\ error' = "none"
  /\ prefix' = req.prefix /\ generated' = <<>>
  /\ steps' = 0 /\ target_invocations' = 0 /\ proposed_count' = 0 /\ reused_count' = 0
  /\ proposed' = <<>> /\ initial' = None /\ result' = None
  /\ ordinary' = 0

\* Raises unless every position and the lengths agree.
ExactMatch(actual, expected) ==
  /\ Len(actual) = Len(expected)
  /\ \A i \in 1..Len(actual) : actual[i] = expected[i]

AssertExactMatch ==
  /\ running = "compare"
  /\ running' = IF /\ ExactMatch(outputs["speculative"], outputs["target_greedy"])
                   /\ ExactMatch(outputs["rejoin"], outputs["target_greedy"])
                THEN "match" ELSE "mismatch"
  /\ UNCHANGED <<req, locals, outputs>>

Next == TargetGreedyStep \/ SpeculativeStep \/ RejoinStep \/ Collect \/ AssertExactMatch

Spec == Init /\ [][Next]_vars

-----------------------------------------------------------------------------
\* On an exact target the gate is never red: three different loops, with any
\* drafts, stop at the same token of the same continuation.
GateNeverFails == running = "mismatch" => req.target \notin Untied

Status == IF pc \in {"returned", "raised"} THEN pc ELSE "running"

Promise == INSTANCE GreedyDecoding WITH output <- generated, status <- Status

\* Each runtime implements the promise of GreedyDecoding, whatever the draft
\* proposes, also when the target ties and when a request is refused or a call
\* raises (autoregressive.py:10-35, speculative.py:44-89, direct_reattach.py:79-142).
RuntimesImplementPromise ==
  [][running' = running => [Promise!Next]_(Promise!vars)]_vars
=============================================================================
