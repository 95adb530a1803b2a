--------------------------- MODULE GreedyDecoding ---------------------------
(***************************************************************************)
(* What every decoding runtime of rejoin/ promises its caller: the output  *)
(* only ever grows, each token is the target's greedy choice under the     *)
(* prompt and the output before it, no token follows a stop token, and a   *)
(* runtime that returns has emitted a stop token or exactly the tokens it  *)
(* was asked for.  A runtime may also raise, and then returns nothing.     *)
(*                                                                         *)
(* Stated in rejoin_speculative_decoding_design_roadmap.md section 7.2 and *)
(* in the docstrings of rejoin/runtime; RuntimeGate and DirectReattach     *)
(* show that their loops implement it.                                     *)
(***************************************************************************)
EXTENDS Verification

CONSTANT Requests   \* the generation requests a caller may make

VARIABLES
  req,      \* the request: target, prefix, max_new_tokens, stop_token_ids, ...
  output,   \* the tokens generated so far
  status    \* "running", "returned" or "raised"

vars == <<req, output, status>>

Init ==
  /\ req \in Requests
  /\ output = <<>>
  /\ status = "running"

\* Commit a non-empty block; it ends the generation iff it ends in a stop token.
Extend ==
  /\ status = "running"
  /\ Len(output) < Len(output')
  /\ Len(output') <= req.max_new_tokens
  /\ SubSeq(output', 1, Len(output)) = output
  /\ \A i \in (Len(output) + 1)..Len(output') :
        output'[i] \in Greedy(req.target, req.prefix \o SubSeq(output', 1, i - 1))
  /\ \A i \in (Len(output) + 1)..(Len(output') - 1) :
        output'[i] \notin req.stop_token_ids
  /\ status' = IF output'[Len(output')] \in req.stop_token_ids
               THEN "returned" ELSE "running"
  /\ UNCHANGED req

Return ==
  /\ status = "running"
  /\ Len(output) >= req.max_new_tokens
  /\ status' = "returned"
  /\ UNCHANGED <<req, output>>

Raise ==
  /\ status = "running"
  /\ status' = "raised"
  /\ UNCHANGED <<req, output>>

Next == Extend \/ Return \/ Raise

Spec == Init /\ [][Next]_vars
=============================================================================
