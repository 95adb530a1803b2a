--------------------------- MODULE Autoregressive ---------------------------
(***************************************************************************)
(* rejoin/runtime/autoregressive.py: generate_target_greedy, the reference *)
(* the speculative runtimes are compared with.                             *)
(***************************************************************************)
EXTENDS Verification

CONSTANTS
  Requests   \* arguments of generate_target_greedy

VARIABLES
  req,         \* the request being served
  pc,          \* "start", "loop", "returned" or "raised"
  prefix,      \* prompt and output
  generated    \* the output; also the step and invocation count

vars == <<req, pc, prefix, generated>>

Init ==
  /\ req \in Requests
  /\ pc = "start"
  /\ prefix = req.prefix
  /\ generated = <<>>

Start ==
  /\ pc = "start"
  /\ pc' = IF req.max_new_tokens >= 0 THEN "loop" ELSE "raised"
  /\ UNCHANGED <<req, prefix, generated>>

TokenDue == pc = "loop" /\ Len(generated) < req.max_new_tokens

\* One call of greedy_next, appended; a stop token breaks the loop.
GreedyNext ==
  /\ TokenDue
  /\ \E token \in Greedy(req.target, prefix) :
       /\ generated' = Append(generated, token)
       /\ prefix' = Append(prefix, token)
       /\ pc' = IF token \in req.stop_token_ids THEN "returned" ELSE "loop"
  /\ UNCHANGED req

Return ==
  /\ pc = "loop"
  /\ Len(generated) >= req.max_new_tokens
  /\ pc' = "returned"
  /\ UNCHANGED <<req, prefix, generated>>

\* greedy_next raises and the exception leaves generate_target_greedy.
CallRaises ==
  /\ TokenDue
  /\ pc' = "raised"
  /\ UNCHANGED <<req, prefix, generated>>

Next == Start \/ GreedyNext \/ Return \/ CallRaises

\* The loop runs in its caller's thread and no call blocks for ever.
Spec == Init /\ [][Next]_vars /\ WF_vars(Next)

=============================================================================
