---------------------------- MODULE NullAlignment ----------------------------
(***************************************************************************)
(* null_alignment (studies/phase0/analyze_traces.py, lines 61-89), the     *)
(* chance control of the study: each escrow is paired with the realized    *)
(* continuation of another event.  The indices are shuffled and then gone  *)
(* through once; an index still in its own place is swapped with another.  *)
(***************************************************************************)
EXTENDS Alignment

CONSTANTS
  Traces,       \* the events of a domain, as sequences
  Shuffles(_)   \* the orders rng.shuffle may put n indices in

IsPermutation(f, n) ==
  /\ f \in [1..n -> 1..n]
  /\ \A x, y \in 1..n : f[x] = f[y] => x = y

ASSUME ShufflesAssumption ==
  \A trace \in Traces :
    /\ Len(trace) \in Nat
    /\ \A f \in Shuffles(Len(trace)) : IsPermutation(f, Len(trace))

VARIABLES
  ev,      \* the events
  order,   \* event k is paired with the continuation of event order[k]
  i        \* the next index of the pass, 0 before the shuffle

nullVars == <<ev, order, i>>

NullInit == ev \in Traces /\ order = <<>> /\ i = 0

Shuffle ==
  /\ i = 0 /\ Len(ev) >= 2
  /\ order' \in Shuffles(Len(ev))
  /\ i' = 1
  /\ UNCHANGED ev

Keep ==
  /\ i \in 1..Len(ev) /\ order[i] # i
  /\ i' = i + 1
  /\ UNCHANGED <<ev, order>>

\* Slip: the partner is any index, the index itself too.
AnyIndex == 1..Len(ev)

OtherIndices == 1..Len(ev) \ {i}

Swap ==
  /\ i \in 1..Len(ev) /\ order[i] = i
  /\ \E j \in OtherIndices :
       order' = [order EXCEPT ![i] = order[j], ![j] = order[i]]
  /\ i' = i + 1
  /\ UNCHANGED ev

Derange == Shuffle \/ Keep \/ Swap

NullSpec == NullInit /\ [][Derange]_nullVars

\* The pairs that can be measured, and what they give.
NullPairs == {k \in 1..Len(ev) : ev[k].suffix_ids # <<>> /\ ev[order[k]].realized_ids # <<>>}

NullBridge(k) == BestBridge(ev[k].suffix_ids, ev[order[k]].realized_ids, 8)[1]
NullRun(k)    == LongestCommonRun(ev[k].suffix_ids, ev[order[k]].realized_ids)[1]

-----------------------------------------------------------------------------
\* "same escrows, same continuations, wrong pairings" (analyze_traces.py:66-67):
\* behind the pass each continuation is used once and no event has its own; a
\* swap never moves an index back to its own place, whichever partner it drew.
WrongPairings ==
  i > Len(ev) =>
    IsPermutation(order, Len(ev)) /\ \A k \in 1..Len(ev) : order[k] # k
=============================================================================
