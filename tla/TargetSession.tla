---------------------------- MODULE TargetSession ----------------------------
(***************************************************************************)
(* HFTargetSession (studies/phase0/spec_trace.py, lines 45-115), the       *)
(* target model behind a KV cache that is cropped behind the library's     *)
(* back.  A session is a record: cache is the tokens whose states the      *)
(* cache holds, cache_len the length the session believes it has, from     *)
(* which positions and the attention mask are computed.                    *)
(***************************************************************************)
EXTENDS Verification

NewSession == [cache |-> <<>>, cache_len |-> 0]

\* _forward: the fed tokens' states are appended to the cache.
Forward(s, ids) ==
  [cache |-> s.cache \o ids, cache_len |-> s.cache_len + Len(ids)]

\* The argmax of the row of the last fed token.  With positions that do not
\* match the cache the logits are garbage.
Row(t, s, fed) ==
  IF s.cache_len = Len(s.cache) THEN Greedy(t, s.cache \o fed) ELSE Token

\* The argmax of every row of a forward.
Rows(t, s, ids) ==
  {g \in [1..Len(ids) -> Token] : \A i \in 1..Len(ids) : g[i] \in Row(t, s, SubSeq(ids, 1, i))}

Prefill(ids) == Forward(NewSession, ids)

\* A crop beyond the cache leaves the cache alone but not cache_len.
CropTo(s, n) == [cache |-> Take(s.cache, n), cache_len |-> n]

\* branch_verify leaves the session as it found it.
BranchVerified(s, last, block) == CropTo(Forward(s, <<last>> \o block), s.cache_len)
=============================================================================
