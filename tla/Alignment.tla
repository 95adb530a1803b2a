------------------------------ MODULE Alignment ------------------------------
(***************************************************************************)
(* studies/phase0/trace_core.py, lines 42-142: how an escrowed suffix is   *)
(* aligned with the target's realized continuation.  The loops are stated  *)
(* by what they return; CommonRun.tla has the table of longest_common_run  *)
(* step by step.                                                           *)
(***************************************************************************)
EXTENDS Integers, Sequences, FiniteSetsExt

\* tokens[n:] for n >= 0.
Drop(tokens, n) == SubSeq(tokens, n + 1, Len(tokens))

\* tokens[lo:hi] for 0 <= lo; a slice never runs past the end.
Slice(tokens, lo, hi) ==
  SubSeq(tokens, lo + 1, IF hi < Len(tokens) THEN hi ELSE Len(tokens))

\* Both loops of first_mismatch and prefix_match: the length of the longest
\* common prefix.
FirstMismatch(cand, ref) ==
  Max({n \in 0..Len(cand) : n <= Len(ref) /\ \A i \in 1..n : cand[i] = ref[i]})

\* The reference ran out before the candidate did.
Censored(cand, ref) ==
  FirstMismatch(cand, ref) = Len(ref) /\ Len(ref) < Len(cand)

\* The best of the candidate lengths, and the first index that reaches it.
Best(length) ==
  LET n == Max({length[k] : k \in DOMAIN length})
  IN  <<n, Min({k \in DOMAIN length : length[k] = n})>>

\* Slip: the search starts with a bridge of one token.
BridgeOfOneOrMore(suffix, realized, max_bridge) ==
  IF max_bridge = 0 \/ realized = <<>> THEN <<0, 0>>
  ELSE Best([k \in 1..Min({max_bridge, Len(realized)}) |->
               FirstMismatch(suffix, Drop(realized, k))])

\* <<length, k>>: the whole escrow after a bridge of k realized tokens.
BestBridge(suffix, realized, max_bridge) ==
  Best([k \in 0..Min({max_bridge, Len(realized)}) |->
          FirstMismatch(suffix, Drop(realized, k))])

\* <<length, j>>: the escrow trimmed at the front, attached at once.
BestTrim(suffix, realized, max_trim) ==
  Best([j \in 0..Min({max_trim, Len(suffix)}) |->
          FirstMismatch(Drop(suffix, j), realized)])

\* A common run of n tokens starts at offset i of a and j of b.
IsCommonRun(a, b, n, i, j) ==
  /\ i + n <= Len(a) /\ j + n <= Len(b)
  /\ \A d \in 1..n : a[i + d] = b[j + d]

\* What longest_common_run returns: a longest run, the first one in the order
\* of the table; <<0, 0, 0>> when nothing is shared.
LongestCommonRun(a, b) ==
  CHOOSE r \in (0..Len(a)) \X (0..Len(a)) \X (0..Len(b)) :
    /\ IsCommonRun(a, b, r[1], r[2], r[3])
    /\ \A i \in 0..Len(a), j \in 0..Len(b) :
         /\ ~IsCommonRun(a, b, r[1] + 1, i, j)
         /\ IsCommonRun(a, b, r[1], i, j) => r[2] < i \/ (r[2] = i /\ r[3] <= j)
=============================================================================
