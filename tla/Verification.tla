---------------------------- MODULE Verification ----------------------------
(***************************************************************************)
(* The values the decoding runtimes of rejoin/ exchange with their model   *)
(* adapters: teacher-forced verification (rejoin/types.py,                 *)
(* rejoin/models/base.py) and the stop-token cut of a committed block      *)
(* (rejoin/runtime/_generation.py).                                        *)
(*                                                                         *)
(* Token sequences are 1-indexed here and 0-indexed in the code, so        *)
(* tokens[: n] is SubSeq(tokens, 1, n).                                    *)
(***************************************************************************)
EXTENDS Integers, Sequences

CONSTANTS
  Token,         \* the vocabulary
  Greedy(_, _)   \* Greedy(t, p): the tokens target t may pick under prefix p

(***************************************************************************)
(* greedy_next(prefix) returns an element of Greedy(t, prefix).  An exact  *)
(* target has one choice per prefix.  A set with more elements is a near   *)
(* tie: the argmax depends on the batch or cache shape of the call, so two *)
(* calls under one prefix may disagree.                                    *)
(***************************************************************************)

\* One past the last index both sequences share, bounded by both lengths.
IsCommonPrefixLength(left, right, n) ==
  /\ n <= Len(left) /\ n <= Len(right)
  /\ \A i \in 1..n : left[i] = right[i]
  /\ n < Len(left) /\ n < Len(right) => left[n + 1] # right[n + 1]

Verifications ==
  [candidate_tokens    : Seq(Token),
   target_tokens       : Seq(Token),
   greedy_match_length : Nat]

\* target_tokens of a teacher-forced pass: prediction i is made under the
\* prefix followed by the CANDIDATE's first i - 1 tokens.
TeacherForced(t, prefix, candidate) ==
  LET choices == [i \in 1..Len(candidate) |-> Greedy(t, prefix \o SubSeq(candidate, 1, i - 1))]
  IN  {targets \in [1..Len(candidate) -> Token] :
         \A i \in 1..Len(candidate) : targets[i] \in choices[i]}

\* Every VerificationResult that verify_greedy can return for this candidate.
VerifyGreedy(t, prefix, candidate) ==
  {v \in [candidate_tokens    : {candidate},
          target_tokens       : TeacherForced(t, prefix, candidate),
          greedy_match_length : 0..Len(candidate)] :
     IsCommonPrefixLength(candidate, v.target_tokens, v.greedy_match_length)}

FullyMatches(v) == v.greedy_match_length = Len(v.candidate_tokens)

\* The target token at the first mismatch; defined when ~FullyMatches(v).
TargetCorrection(v) == v.target_tokens[v.greedy_match_length + 1]

\* Slip: a stop token is looked for at the end of the block only.
IsWholeBlock(tokens, stops, k) == k = Len(tokens)

\* truncate_at_stop keeps the first k tokens: through the first stop token, or
\* all of them.  k is unique for a non-empty block; the cut reports "stopped"
\* exactly when its last token is a stop token.
IsStopCut(tokens, stops, k) ==
  /\ k \in 1..Len(tokens)
  /\ \A i \in 1..(k - 1) : tokens[i] \notin stops
  /\ k < Len(tokens) => tokens[k] \in stops

\* tokens[:n] for n >= 0: a slice never runs past the end.
Take(tokens, n) == SubSeq(tokens, 1, IF n < Len(tokens) THEN n ELSE Len(tokens))

\* What one verification alone justifies committing: the accepted prefix and
\* the target's correction, or the whole candidate when nothing mismatched.
OrdinaryCommit(v) ==
  IF FullyMatches(v)
  THEN v.candidate_tokens
  ELSE SubSeq(v.candidate_tokens, 1, v.greedy_match_length) \o <<TargetCorrection(v)>>

-----------------------------------------------------------------------------
(***************************************************************************)
(* What "follows target-greedy decoding" means: token i is a choice of the *)
(* target under the prefix and the tokens before i.                        *)
(***************************************************************************)
GreedyPath(t, prefix, tokens) ==
  \A i \in 1..Len(tokens) :
    tokens[i] \in Greedy(t, prefix \o SubSeq(tokens, 1, i - 1))

\* Proposals a DraftModel may return when asked for n tokens: any tokens at
\* all, and, from an adapter that breaks its contract, none or one too many.
Proposals(n) == UNION {[1..k -> Token] : k \in 0..(n + 1)}
=============================================================================
