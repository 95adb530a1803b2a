------------------------------ MODULE MCDecoder ------------------------------
(***************************************************************************)
(* Small instances of Decoder and of the loop behind it: requests that     *)
(* pass through the facade, from configurations on both sides of what      *)
(* DecoderConfig accepts, and direct calls of generate_rejoin, also at and *)
(* past the edges of what it accepts.  A target is a table from what it    *)
(* looks at to the tokens it may pick.                                     *)
(***************************************************************************)
EXTENDS Decoder, SequencesExt

CONSTANTS a, b   \* tokens

MCToken == {a, b}

\* Every exact target for an output of three tokens after an empty prompt: the
\* choice looks at the whole prefix of at most two tokens.
Histories == BoundedSeq(MCToken, 2)
ExactTargets == [Histories -> {{x} : x \in MCToken}]

ExactRequests ==
  [target : ExactTargets, prefix : {<<>>}, max_new_tokens : {3},
   draft_block_size : {1, 3}, min_suffix_length : {0, 2},
   stop_token_ids : {{}, {b}}, max_steps : {2, 9}]

\* Targets that look at the position and the last token, exact ones and ones
\* that may be certain or tied at each.
LastView(p) == IF p = <<>> THEN <<0, a>> ELSE <<Min({Len(p), 2}), Last(p)>>
Views == {<<0, a>>} \union ((1..2) \X MCToken)
LastTargets == {t \in [Views -> {{x} : x \in MCToken}] : t[<<0, a>>] = {a}}
TieTargets == [Views -> {{a}, {a, b}}]

TieRequests ==
  [target : TieTargets, prefix : {<<>>}, max_new_tokens : {4},
   draft_block_size : {4}, min_suffix_length : {0},
   stop_token_ids : {{a}, {b}}, max_steps : {9}]

MCConfigs ==
  [draft_block_size : {0, 3}, min_suffix_length : {-1, 0, 1},
   stop_token_ids : {{}, {b}}, max_steps : {None, 0, 2}]

MCCalls ==
  [target : LastTargets, prefix : {<<>>}, max_new_tokens : {-1, 4}]

\* Targets that may tie and look at the last token alone, after a prompt of one.
EdgeTargets == [MCToken -> {{a}, {b}, {a, b}}]

EdgeRequests ==
  [target : EdgeTargets, prefix : {<<a>>}, max_new_tokens : {-1, 0, 1, 3},
   draft_block_size : {-1, 0, 2, 3}, min_suffix_length : {-1, 0, 1},
   stop_token_ids : {{b}}, max_steps : {-1, 0, 1, 3}]

MCRequests == DecoderRequests \union ExactRequests \union TieRequests \union EdgeRequests

MCUntied == ExactTargets \union LastTargets

MCGreedy(t, p) ==
  t[IF DOMAIN t = MCToken THEN Last(p)
    ELSE IF DOMAIN t = Histories THEN Take(p, 2) ELSE LastView(p)]
=============================================================================
