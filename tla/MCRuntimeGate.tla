---------------------------- MODULE MCRuntimeGate ----------------------------
(***************************************************************************)
(* Small instances of RuntimeGate: targets that look at the last token and *)
(* at whether the output has begun, exact or not, some stop tokens, block  *)
(* sizes on both sides of the output's length, and requests at and past    *)
(* the edges of what each runtime accepts.                                 *)
(***************************************************************************)
EXTENDS RuntimeGate, SequencesExt

CONSTANTS a, b   \* tokens

MCToken == {a, b}

LastView(p) == IF p = <<>> THEN <<0, a>> ELSE <<Len(p), Last(p)>>
Views == {<<0, a>>} \union ((1..2) \X MCToken)
MCUntied == [Views -> {{x} : x \in MCToken}]
TieTargets ==
  {t \in [Views -> {{a}, {b}, {a, b}}] : t[<<0, a>>] = {a, b} /\ t[<<1, b>>] = {a}}
MCGreedy(t, p) == t[LastView(p)]

Request(t, max_new, block, min_suffix, stops, max_steps) ==
  [target |-> t, prefix |-> <<>>, max_new_tokens |-> max_new,
   draft_block_size |-> block, min_suffix_length |-> min_suffix,
   stop_token_ids |-> stops, max_steps |-> max_steps]

ExactRequests ==
  {Request(t, 3, block, 0, stops, 9) : t \in MCUntied, block \in {2, 3}, stops \in {{}, {b}}}
TieRequests == {Request(t, 3, 3, 0, {b}, 9) : t \in TieTargets}
EdgeRequests ==
  {Request(t, max_new, block, min_suffix, {b}, max_steps) :
     t \in {t \in TieTargets : t[<<1, a>>] = {a, b} /\ t[<<2, a>>] = {a}},
     max_new \in {-1, 0, 2}, block \in {0, 1}, min_suffix \in {-1, 0}, max_steps \in {0, 1, 9}}

MCRequests == ExactRequests \union TieRequests \union EdgeRequests
=============================================================================
