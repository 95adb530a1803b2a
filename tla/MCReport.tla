------------------------------- MODULE MCReport -------------------------------
(***************************************************************************)
(* Small instances of Report and, beside it, of the table its events'      *)
(* common runs come from: one event with any short escrow and continuation *)
(* and some events of a few kinds in any order; all pairs of sequences of  *)
(* at most four tokens over two tokens, and of at most three over three.   *)
(***************************************************************************)
EXTENDS Report, CommonRun, SequencesExt

CONSTANTS x, y, z   \* tokens

\* An event as run_prompt and fill_alignment leave it.
EventOf(suffix, realized, fresh, at, rejected, entropy) ==
  [suffix_ids |-> suffix, realized_ids |-> realized, m |-> Len(suffix), a |-> at,
   L_fresh |-> fresh, L_survive |-> FirstMismatch(suffix, realized),
   L_bridge |-> BestBridge(suffix, realized, 8)[1],
   lcs_len |-> LongestCommonRun(suffix, realized)[1],
   rejected |-> rejected, correction |-> "word", entropy |-> entropy, p_rejected |-> 10]

Short == BoundedSeq({x, y}, 4) \ {<<>>}

SingleEvents ==
  {<<EventOf(s, r, fresh, 0, "word", None)>> : s \in Short, r \in Short, fresh \in 0..1}

\* An escrow whole, shifted by one token, or gone; a fresh draft as long or not.
Kinds ==
  {EventOf(<<x, x, y, y>>, <<x, x, y, y>>, 0, 0, "word", 60),
   EventOf(<<y, x>>, <<x, y>>, 0, 2, "digits", 60),
   EventOf(<<y, y, x, x, x>>, <<x, x, x>>, 1, 4, "fence", None),
   EventOf(<<x, y>>, <<x, y>>, 2, 0, "word", 3),
   [EventOf(<<y>>, <<x>>, 0, 1, "blank", 3) EXCEPT !.correction = "blank"]}

\* A schema 1 event: no ids and no alignment.
Old == [EventOf(<<x>>, <<x>>, 0, 0, "word", 3) EXCEPT
          !.suffix_ids = <<>>, !.realized_ids = <<>>, !.L_bridge = None, !.lcs_len = None]

MCTraces == SingleEvents \union [1..3 -> Kinds] \union [1..4 -> Kinds] \union {<<Old, Old>>}

MCShuffles(n) == {f \in [1..n -> 1..n] : \A p, q \in 1..n : f[p] = f[q] => p = q}

MCTotals == {<<6, 3>>, <<30, 6>>, <<60, 6>>}

\* A domain large enough for the table as it is: 40 events of 2 kinds, won by
\* one token and by four.
Forty == {[k \in 1..40 |-> IF k % 2 = 0 THEN EventOf(<<y, x>>, <<x, y>>, 0, 2, "digits", 60)
                            ELSE EventOf(<<x, x, y, y>>, <<x, x, y, y>>, 0, 0, "word", 60)]}
Rotation(n) == {[k \in 1..n |-> (k % n) + 1]}
FortyTotals == {<<800, 80>>}

Few == BoundedSeq({x, y}, 4) \union BoundedSeq({x, y, z}, 3)

MCPairs == Few \X Few
NoPairs == {}

-----------------------------------------------------------------------------
\* A report behind which no table is filled, and a table with no report.
NoTable ==
  /\ a = <<>> /\ b = <<>> /\ row = 1 /\ column = 1
  /\ prev = <<>> /\ cur = <<>> /\ best = <<0, 0, 0>>

NoReport ==
  /\ ev = <<Old>> /\ order = <<>> /\ i = 0
  /\ totals = None /\ pc = "done" /\ gains = <<>> /\ verdicts = {} /\ rows = {}

AnalysisInit ==
  \/ Init /\ NoTable
  \/ RunInit /\ NoReport

AnalysisNext ==
  \/ Next /\ UNCHANGED runVars
  \/ RunNext /\ UNCHANGED vars

AnalysisSpec == AnalysisInit /\ [][AnalysisNext]_<<vars, runVars>>
=============================================================================
