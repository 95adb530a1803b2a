------------------------------ MODULE CommonRun ------------------------------
(***************************************************************************)
(* longest_common_run (studies/phase0/trace_core.py, lines 120-142): the   *)
(* table of common runs, filled row by row in two rows of memory.  One     *)
(* action per cell and one per row.                                        *)
(***************************************************************************)
EXTENDS Alignment

CONSTANTS
  Pairs   \* the pairs <<a, b>> it is called with

ASSUME PairsAreSequences ==
  \A pair \in Pairs : Len(pair[1]) \in Nat /\ Len(pair[2]) \in Nat

VARIABLES
  a, b,    \* the sequences
  row, column,   \* the next cell
  prev,    \* the finished row: prev[y] for the run ending at a[row-1] and b[y]
  cur,     \* the row being filled
  best     \* <<length, start in a, start in b>>

runVars == <<a, b, row, column, prev, cur, best>>

EmptyRow == [y \in 0..Len(b) |-> 0]

RunInit ==
  /\ \E pair \in Pairs : a = pair[1] /\ b = pair[2]
  /\ row = 1 /\ column = 1
  /\ prev = EmptyRow /\ cur = EmptyRow
  /\ best = <<0, 0, 0>>

\* An empty sequence returns at once, any other pair behind the last row.
Returned == a = <<>> \/ b = <<>> \/ row > Len(a)

\* Slip: the run is continued along the row instead of the diagonal.
RunInRow == IF a[row] = b[column] THEN cur[column - 1] + 1 ELSE 0

\* The run that ends in this cell.
Run == IF a[row] = b[column] THEN prev[column - 1] + 1 ELSE 0

\* Slip: a later run of the same length replaces the first.
AsGood(run) == run >= best[1]

Better(run) == run > best[1]

Cell ==
  /\ ~Returned /\ column <= Len(b)
  /\ cur' = [cur EXCEPT ![column] = Run]
  /\ best' = IF Better(Run) THEN <<Run, row - Run, column - Run>> ELSE best
  /\ column' = column + 1
  /\ UNCHANGED <<a, b, row, prev>>

EndRow ==
  /\ ~Returned /\ column > Len(b)
  /\ prev' = cur /\ cur' = EmptyRow
  /\ row' = row + 1 /\ column' = 1
  /\ UNCHANGED <<a, b, best>>

RunNext == Cell \/ EndRow

RunSpec == RunInit /\ [][RunNext]_runVars

-----------------------------------------------------------------------------
\* n is the length of the longest common run ending at a[x] and b[y].
IsRunEndingAt(x, y, n) ==
  /\ IsCommonRun(a, b, n, x - n, y - n)
  /\ n < x /\ n < y => a[x - n] # b[y - n]

\* Both rows hold run lengths: two rows are memory enough because a run only
\* ever continues the diagonal above it (trace_core.py:131-140).
RowsHoldRuns ==
  ~Returned =>
    /\ \A y \in 1..(column - 1) : cur[y] <= row /\ cur[y] <= y /\ IsRunEndingAt(row, y, cur[y])
    /\ row > 1 => \A y \in 1..Len(b) :
                  prev[y] < row /\ prev[y] <= y /\ IsRunEndingAt(row - 1, y, prev[y])

\* The result is a longest run and, of those, the first in the order of the
\* table; this is the operator PromptLoop uses (trace_core.py:120-142).
ReturnsLongestRun == Returned => best = LongestCommonRun(a, b)
=============================================================================
