----------------------------- MODULE Report_proof -----------------------------
(***************************************************************************)
(* What the reports of the study rest on: the chance control pairs no      *)
(* event with itself, for any number of events and any shuffle; the        *)
(* break-even rule of the economics is exact; the attachments nest; what   *)
(* is said to pay does, and no gate beats the oracle while a pass is       *)
(* cheap; and the two-row table of longest_common_run finds the first      *)
(* longest run of any two sequences.                                       *)
(***************************************************************************)
EXTENDS Report, CommonRun, GreedyPathTheorems

\* The indices behind the pass are deranged, all of them are permuted.
NullInv ==
  /\ ev \in Traces /\ i \in 0..(Len(ev) + 1)
  /\ i > 0 => /\ IsPermutation(order, Len(ev))
              /\ \A k \in 1..(i - 1) : order[k] # k

\* Exchanging two values of a permutation gives a permutation.
LEMMA Exchange ==
  ASSUME NEW n \in Nat, NEW f, IsPermutation(f, n), NEW x \in 1..n, NEW y \in 1..n
  PROVE  IsPermutation([f EXCEPT ![x] = f[y], ![y] = f[x]], n)
<1> DEFINE g == [f EXCEPT ![x] = f[y], ![y] = f[x]]
<1>1. f \in [1..n -> 1..n] /\ \A p, q \in 1..n : f[p] = f[q] => p = q
  BY DEF IsPermutation
<1>2. /\ g \in [1..n -> 1..n] /\ g[y] = f[x] /\ g[x] = f[y]
      /\ \A k \in 1..n : k # x /\ k # y => g[k] = f[k]
  BY <1>1
<1>3. \A p, q \in 1..n : g[p] = g[q] => p = q
  BY <1>1, <1>2
<1> QED
  BY <1>2, <1>3 DEF IsPermutation

\* A step of the pass puts the index it looks at in another's place and no
\* earlier one back in its own (analyze_traces.py:76-79).
LEMMA DerangeStep ==
  ASSUME NullInv, Derange
  PROVE  NullInv'
<1>1. Len(ev) \in Nat /\ ev' = ev
  BY ShufflesAssumption DEF NullInv, Derange, Shuffle, Keep, Swap
<1>2. CASE Shuffle
  BY <1>1, <1>2, ShufflesAssumption DEF NullInv, Shuffle
<1>3. CASE Keep
  BY <1>1, <1>3 DEF NullInv, Keep
<1>4. CASE Swap
  <2>1. /\ i \in 1..Len(ev) /\ order[i] = i /\ i' = i + 1
        /\ IsPermutation(order, Len(ev)) /\ \A k \in 1..(i - 1) : order[k] # k
    BY <1>1, <1>4 DEF NullInv, Swap
  <2>2. PICK j \in OtherIndices : order' = [order EXCEPT ![i] = order[j], ![j] = order[i]]
    BY <1>4 DEF Swap
  <2>3. j \in 1..Len(ev) /\ j # i
    BY DEF OtherIndices
  <2>4. IsPermutation(order', Len(ev))
    BY <1>1, <2>1, <2>2, <2>3, Exchange
  <2>5. /\ order \in [1..Len(ev) -> 1..Len(ev)]
        /\ \A p, q \in 1..Len(ev) : order[p] = order[q] => p = q
    BY <2>1 DEF IsPermutation
  <2>6. \A k \in 1..i : order'[k] # k
    <3> SUFFICES ASSUME NEW k \in 1..i PROVE order'[k] # k
      OBVIOUS
    <3>1. k \in 1..Len(ev)
      BY <1>1, <2>1
    <3>2. CASE k = i
      BY <2>1, <2>2, <2>3, <2>5, <3>2
    <3>3. CASE k = j
      BY <2>1, <2>2, <2>3, <2>5, <3>3
    <3>4. CASE k # i /\ k # j
      <4>1. order'[k] = order[k] /\ k \in 1..(i - 1)
        BY <1>1, <2>1, <2>2, <2>3, <2>5, <3>1, <3>4
      <4> QED
        BY <2>1, <4>1
    <3> QED
      BY <3>2, <3>3, <3>4
  <2> QED
    BY <1>1, <2>1, <2>4, <2>6 DEF NullInv
<1> QED
  BY <1>2, <1>3, <1>4 DEF Derange

\* No event is paired with its own continuation and each is used once, for any
\* number of events and whatever is drawn (analyze_traces.py:66-67).
THEOREM ChanceControl == Spec => []WrongPairings
<1>1. Init => NullInv
  BY ShufflesAssumption DEF Init, NullInit, NullInv
<1>2. NullInv /\ [Next]_vars => NullInv'
  <2> SUFFICES ASSUME NullInv, [Next]_vars PROVE NullInv'
    OBVIOUS
  <2>1. CASE NullStep
    BY <2>1, DerangeStep DEF NullStep
  <2>2. CASE UNCHANGED nullVars
    BY <2>2 DEF nullVars, NullInv
  <2> QED
    BY <2>1, <2>2 DEF Next, NullDone, Economics, GateReport, vars
<1>3. NullInv => WrongPairings
  <2> SUFFICES ASSUME NullInv, i > Len(ev)
               PROVE  IsPermutation(order, Len(ev)) /\ \A k \in 1..Len(ev) : order[k] # k
    BY DEF WrongPairings
  <2>1. Len(ev) \in Nat
    BY ShufflesAssumption DEF NullInv
  <2>2. i = Len(ev) + 1
    BY <2>1 DEF NullInv
  <2> QED
    BY <2>1, <2>2 DEF NullInv
<1> QED
  BY <1>1, <1>2, <1>3, PTL DEF Spec

-----------------------------------------------------------------------------
\* "(N + f.E.g_sel) / (P + c.f.E) > N/P <=> g_sel > c.T" (analyze_traces.py:98):
\* for any totals, cost, number of selected events and gain, the rate rises
\* exactly if the mean gain clears the threshold.
THEOREM BreakEven ==
  ASSUME NEW t, t[1] \in Int, t[2] \in Int, NEW c \in Int, NEW k \in Int, NEW gained \in Int
  PROVE  Clears(c, gained, k, t) <=> Faster(Rate(c, gained, k, t), t)
<1>1. t[1] \in Int /\ t[2] \in Int
  OBVIOUS
<1> DEFINE N == t[1]
           P == t[2]
<1>2. /\ (100 * (N + gained)) * P = 100 * (N * P) + gained * 100 * P
      /\ N * (100 * P + c * k) = 100 * (N * P) + c * k * N
  BY <1>1
<1>3. gained * 100 * P \in Int /\ c * k * N \in Int /\ 100 * (N * P) \in Int
  BY <1>1
<1>4. gained * 100 * P > c * k * N <=>
        100 * (N * P) + gained * 100 * P > 100 * (N * P) + c * k * N
  BY <1>3
<1> QED
  BY <1>2, <1>4 DEF Clears, Faster, Rate

-----------------------------------------------------------------------------
(***************************************************************************)
(* longest_common_run, whose result the report reads from the events.      *)
(***************************************************************************)
IsRow(r) == r \in [0..Len(b) -> Nat] /\ r[0] = 0

\* The row above is empty for the first row; after the last row, or without
\* one, the position is at the beginning of a row that is not filled.
TableIsTyped ==
  /\ Len(a) \in Nat /\ Len(b) \in Nat
  /\ row \in 1..(Len(a) + 1) /\ column \in 1..(Len(b) + 1)
  /\ row > Len(a) => column = 1
  /\ IsRow(prev) /\ IsRow(cur)
  /\ a = <<>> => Len(a) = 0
  /\ b = <<>> => Len(b) = 0

\* Both rows hold run lengths, also when the table is complete.
RowsHold ==
  /\ \A y \in 1..(column - 1) : cur[y] <= row /\ cur[y] <= y /\ IsRunEndingAt(row, y, cur[y])
  /\ row = 1 => \A y \in 1..Len(b) : prev[y] = 0
  /\ row > 1 => \A y \in 1..Len(b) :
                  prev[y] < row /\ prev[y] <= y /\ IsRunEndingAt(row - 1, y, prev[y])

\* The cells that have been filled.
Filled(x, y) == x < row \/ (x = row /\ y < column)

\* A run of n tokens that ends in a cell that has been filled.
RunSeen(x, y, n) ==
  /\ x \in 1..Len(a) /\ y \in 1..Len(b) /\ Filled(x, y)
  /\ n \in Nat /\ n <= x /\ n <= y /\ IsCommonRun(a, b, n, x - n, y - n)

\* No run seen is longer than the best one, and none of its length is earlier.
BestIsFirst ==
  /\ best \in Nat \X Nat \X Nat
  /\ IsCommonRun(a, b, best[1], best[2], best[3])
  /\ best[1] = 0 => best[2] = 0 /\ best[3] = 0
  /\ best[1] > 0 => Filled(best[2] + best[1], best[3] + best[1])
  /\ \A x, y, n : RunSeen(x, y, n) =>
       /\ n <= best[1]
       /\ n = best[1] /\ n > 0 =>
            best[2] + n < x \/ (best[2] + n = x /\ best[3] + n <= y)

CInv == TableIsTyped /\ RowsHold /\ BestIsFirst

LEMMA InitEstablishesCInv == RunInit => CInv
<1> SUFFICES ASSUME RunInit PROVE CInv
  OBVIOUS
<1>1. /\ Len(a) \in Nat /\ Len(b) \in Nat
      /\ row = 1 /\ column = 1 /\ best = <<0, 0, 0>>
      /\ prev = [k \in 0..Len(b) |-> 0] /\ cur = [k \in 0..Len(b) |-> 0]
  BY PairsAreSequences DEF RunInit, EmptyRow
<1>2. TableIsTyped
  <2>1. (a = <<>> => Len(a) = 0) /\ (b = <<>> => Len(b) = 0)
    BY EmptySeq
  <2> QED
    BY <1>1, <2>1 DEF TableIsTyped, IsRow
<1>3. RowsHold
  BY <1>1 DEF RowsHold
<1>4. \A x, y, n : ~RunSeen(x, y, n)
  BY <1>1 DEF RunSeen, Filled
<1>5. BestIsFirst
  BY <1>1, <1>4 DEF BestIsFirst, IsCommonRun
<1> QED
  BY <1>2, <1>3, <1>5 DEF CInv

\* The run that ends in a cell continues the one that ends on the diagonal above.
LEMMA RunIsRun ==
  ASSUME CInv, row <= Len(a), column <= Len(b)
  PROVE  /\ Run \in Nat /\ Run <= row /\ Run <= column
         /\ IsRunEndingAt(row, column, Run)
<1>1. /\ Len(a) \in Nat /\ Len(b) \in Nat /\ row \in 1..Len(a) /\ column \in 1..Len(b)
      /\ column - 1 \in 0..Len(b) /\ prev[0] = 0 /\ prev[column - 1] \in Nat
  BY DEF CInv, TableIsTyped, IsRow
<1>2. CASE a[row] # b[column]
  BY <1>1, <1>2 DEF Run, IsRunEndingAt, IsCommonRun
<1>3. CASE a[row] = b[column]
  <2> DEFINE p == prev[column - 1]
  <2>1. Run = p + 1 /\ p \in Nat
    BY <1>1, <1>3 DEF Run
  <2>2. CASE row = 1 \/ column = 1
    <3>1. p = 0
      BY <1>1, <2>2 DEF CInv, RowsHold
    <3>2. \A d \in 1..1 : a[row - 1 + d] = b[column - 1 + d]
      BY <1>1, <1>3
    <3> QED
      BY <1>1, <2>1, <2>2, <3>1, <3>2 DEF IsRunEndingAt, IsCommonRun
  <2>3. CASE row > 1 /\ column > 1
    <3>1. /\ p < row /\ p <= column - 1
          /\ IsRunEndingAt(row - 1, column - 1, p)
      BY <1>1, <2>3 DEF CInv, RowsHold
    <3> HIDE DEF p
    <3>2. /\ \A d \in 1..p : a[(row - 1 - p) + d] = b[(column - 1 - p) + d]
          /\ p < row - 1 /\ p < column - 1 => a[row - 1 - p] # b[column - 1 - p]
      BY <3>1 DEF IsRunEndingAt, IsCommonRun
    <3>3. row - (p + 1) = row - 1 - p /\ column - (p + 1) = column - 1 - p
      BY <1>1, <2>1
    <3>4. ASSUME NEW d \in 1..(p + 1)
          PROVE  a[row - (p + 1) + d] = b[column - (p + 1) + d]
      <4>1. CASE d \in 1..p
        BY <3>2, <3>3, <4>1
      <4>2. CASE d = p + 1
        <5>1. row - (p + 1) + d = row /\ column - (p + 1) + d = column
          BY <1>1, <2>1, <4>2
        <5> QED
          BY <1>3, <5>1
      <4> QED
        BY <2>1, <4>1, <4>2
    <3>5. p + 1 < row /\ p + 1 < column => a[row - (p + 1)] # b[column - (p + 1)]
      BY <1>1, <2>1, <3>2, <3>3
    <3> QED
      BY <1>1, <2>1, <3>1, <3>4, <3>5 DEF IsRunEndingAt, IsCommonRun
  <2> QED
    BY <1>1, <2>2, <2>3
<1> QED
  BY <1>2, <1>3

\* No common run that ends in the same cell is longer.
LEMMA RunEndingIsLongest ==
  ASSUME NEW x \in Nat, NEW y \in Nat, NEW n \in Nat, NEW m \in Nat, m <= x, m <= y,
         IsRunEndingAt(x, y, n), IsCommonRun(a, b, m, x - m, y - m)
  PROVE  m <= n
<1> SUFFICES ASSUME n < m PROVE FALSE
  OBVIOUS
<1>1. a[x - n] # b[y - n]
  BY DEF IsRunEndingAt
<1>2. m - n \in 1..m /\ x - m + (m - n) = x - n /\ y - m + (m - n) = y - n
  OBVIOUS
<1>3. a[x - m + (m - n)] = b[y - m + (m - n)]
  BY <1>2 DEF IsCommonRun
<1> QED
  BY <1>1, <1>2, <1>3

\* Filling a cell adds it to the runs seen and changes no other.
LEMMA CellKeepsCInv ==
  ASSUME CInv, Cell
  PROVE  CInv'
<1> DEFINE run == Run
<1>1. /\ row <= Len(a) /\ column <= Len(b) /\ UNCHANGED <<a, b, row, prev>>
      /\ cur' = [cur EXCEPT ![column] = run] /\ column' = column + 1
      /\ best' = IF run > best[1] THEN <<run, row - run, column - run>> ELSE best
  <2>1. row <= Len(a)
    BY DEF Cell, Returned, CInv, TableIsTyped
  <2> QED
    BY <2>1 DEF Cell, Better
<1>2. /\ Len(a) \in Nat /\ Len(b) \in Nat /\ row \in 1..Len(a) /\ column \in 1..Len(b)
      /\ cur \in [0..Len(b) -> Nat] /\ best \in Nat \X Nat \X Nat
      /\ a # <<>> /\ b # <<>>
  BY <1>1 DEF CInv, TableIsTyped, IsRow, BestIsFirst
<1>3. run \in Nat /\ run <= row /\ run <= column /\ IsRunEndingAt(row, column, run)
  BY <1>1, RunIsRun
<1> HIDE DEF run
<1>4. /\ cur' \in [0..Len(b) -> Nat] /\ cur'[column] = run
      /\ \A y \in 0..Len(b) : y # column => cur'[y] = cur[y]
  BY <1>1, <1>2, <1>3
<1>5. TableIsTyped'
  BY <1>1, <1>2, <1>4 DEF CInv, TableIsTyped, IsRow
<1>6. RowsHold'
  <2>1. ASSUME NEW y \in 1..column
        PROVE  cur'[y] <= row /\ cur'[y] <= y /\ IsRunEndingAt(row, y, cur'[y])
    <3>1. CASE y = column
      BY <1>3, <1>4, <3>1
    <3>2. CASE y # column
      <4>1. y \in 1..(column - 1) /\ y \in 0..Len(b)
        BY <1>2, <3>2
      <4> QED
        BY <1>4, <3>2, <4>1 DEF CInv, RowsHold
    <3> QED
      BY <3>1, <3>2
  <2>2. 1..(column' - 1) = 1..column
    BY <1>1, <1>2
  <2>3. \A x, y, n : IsRunEndingAt(x, y, n)' <=> IsRunEndingAt(x, y, n)
    BY <1>1 DEF IsRunEndingAt, IsCommonRun
  <2>4. \A y \in 1..(column' - 1) :
          cur'[y] <= row' /\ cur'[y] <= y /\ IsRunEndingAt(row, y, cur[y])'
    BY <1>1, <2>1, <2>2, <2>3
  <2>5. /\ row' = 1 => \A y \in 1..Len(b') : prev'[y] = 0
        /\ row' > 1 => \A y \in 1..Len(b') :
             prev'[y] < row' /\ prev'[y] <= y /\ IsRunEndingAt(row - 1, y, prev[y])'
    BY <1>1, <2>3 DEF CInv, RowsHold
  <2> QED
    BY <2>4, <2>5 DEF RowsHold
<1>7. \A x \in Nat, y \in Nat : Filled(x, y)' <=> Filled(x, y) \/ (x = row /\ y = column)
  BY <1>1, <1>2 DEF Filled
<1>8. ASSUME NEW x, NEW y, NEW n, RunSeen(x, y, n)'
      PROVE  RunSeen(x, y, n) \/ (x = row /\ y = column /\ n \in Nat /\ n <= run)
  <2>1. /\ x \in 1..Len(a) /\ y \in 1..Len(b) /\ Filled(x, y)'
        /\ n \in Nat /\ n <= x /\ n <= y /\ IsCommonRun(a, b, n, x - n, y - n)
    BY <1>1, <1>8 DEF RunSeen, IsCommonRun
  <2>2. CASE Filled(x, y)
    BY <2>1, <2>2 DEF RunSeen
  <2>3. CASE x = row /\ y = column
    BY <1>3, <2>1, <2>3, RunEndingIsLongest
  <2> QED
    BY <1>7, <2>1, <2>2, <2>3
<1>9. BestIsFirst'
  <2>1. ASSUME NEW x, NEW y, NEW n, RunSeen(x, y, n)
        PROVE  /\ n \in Nat /\ n <= best[1]
               /\ n = best[1] /\ n > 0 =>
                    best[2] + n < x \/ (best[2] + n = x /\ best[3] + n <= y)
    BY <2>1 DEF CInv, BestIsFirst, RunSeen
  <2>2. CASE run > best[1]
    <3>1. best' = <<run, row - run, column - run>>
      BY <1>1, <2>2
    <3>2. best' \in Nat \X Nat \X Nat
      BY <1>2, <1>3, <3>1
    <3>3. IsCommonRun(a, b, run, row - run, column - run)
      BY <1>3 DEF IsRunEndingAt
    <3>4. /\ (row - run) + run = row /\ (column - run) + run = column
          /\ row' = row /\ column < column'
      BY <1>1, <1>2, <1>3
    <3>5. run > 0
      BY <1>2, <1>3, <2>2
    <3>6. ASSUME NEW x, NEW y, NEW n, RunSeen(x, y, n)'
          PROVE  /\ n <= run
                 /\ n = run /\ n > 0 =>
                      (row - run) + n < x \/ ((row - run) + n = x /\ (column - run) + n <= y)
      <4>1. CASE RunSeen(x, y, n)
        <5>1. n \in Nat /\ n <= best[1]
          BY <2>1, <4>1
        <5> QED
          BY <1>2, <1>3, <2>2, <5>1
      <4>2. CASE x = row /\ y = column /\ n \in Nat /\ n <= run
        BY <3>4, <1>2, <4>2
      <4> QED
        BY <1>8, <3>6, <4>1, <4>2
    <3>7. best'[1] = run /\ best'[2] = row - run /\ best'[3] = column - run
      BY <3>1
    <3>8. IsCommonRun(a, b, best[1], best[2], best[3])'
      BY <1>1, <3>3, <3>7 DEF IsCommonRun
    <3>9. Filled(best[2] + best[1], best[3] + best[1])'
      BY <3>4, <3>7 DEF Filled
    <3> QED
      BY <3>2, <3>5, <3>6, <3>7, <3>8, <3>9 DEF BestIsFirst
  <2>3. CASE ~(run > best[1])
    <3>1. best' = best /\ run <= best[1] /\ best[1] \in Nat /\ best[2] \in Nat /\ best[3] \in Nat
      BY <1>1, <1>2, <1>3, <2>3
    <3>2. ASSUME best[1] > 0 PROVE Filled(best[2] + best[1], best[3] + best[1])'
      BY <1>7, <3>1, <3>2 DEF CInv, BestIsFirst
    <3>3. ASSUME NEW x, NEW y, NEW n, RunSeen(x, y, n)'
          PROVE  /\ n <= best[1]
                 /\ n = best[1] /\ n > 0 =>
                      best[2] + n < x \/ (best[2] + n = x /\ best[3] + n <= y)
      <4>1. CASE RunSeen(x, y, n)
        BY <2>1, <4>1
      <4>2. CASE x = row /\ y = column /\ n \in Nat /\ n <= run
        <5>1. n <= best[1]
          BY <1>3, <3>1, <4>2
        <5>2. ASSUME n = best[1], n > 0
              PROVE  best[2] + n < x \/ (best[2] + n = x /\ best[3] + n <= y)
          <6>1. Filled(best[2] + n, best[3] + n)
            BY <3>1, <5>2 DEF CInv, BestIsFirst
          <6> QED
            BY <1>2, <3>1, <4>2, <6>1 DEF Filled
        <5> QED
          BY <5>1, <5>2
      <4> QED
        BY <1>8, <3>3, <4>1, <4>2
    <3> QED
      BY <1>1, <3>1, <3>2, <3>3 DEF CInv, BestIsFirst, IsCommonRun
  <2> QED
    BY <2>2, <2>3
<1> QED
  BY <1>5, <1>6, <1>9 DEF CInv

\* A finished row becomes the row above; the cells filled are the same.
LEMMA EndRowKeepsCInv ==
  ASSUME CInv, EndRow
  PROVE  CInv'
<1>1. /\ row <= Len(a) /\ column > Len(b) /\ UNCHANGED <<a, b, best>>
      /\ prev' = cur /\ cur' = [k \in 0..Len(b) |-> 0] /\ row' = row + 1 /\ column' = 1
  BY DEF EndRow, Returned, EmptyRow, CInv, TableIsTyped
<1>2. /\ Len(a) \in Nat /\ Len(b) \in Nat /\ row \in 1..Len(a) /\ column = Len(b) + 1
      /\ IsRow(cur)
  BY <1>1 DEF CInv, TableIsTyped
<1>3. TableIsTyped'
  BY <1>1, <1>2 DEF CInv, TableIsTyped, IsRow
<1>4. RowsHold'
  <2>1. \A y \in 1..Len(b) : cur[y] <= row /\ cur[y] <= y /\ IsRunEndingAt(row, y, cur[y])
    BY <1>2 DEF CInv, RowsHold
  <2>2. \A y \in 1..Len(b) : cur[y] < row + 1
    BY <1>2, <2>1 DEF IsRow
  <2>3. row' - 1 = row /\ row' # 1 /\ 1..(column' - 1) = {}
    BY <1>1, <1>2
  <2> QED
    BY <1>1, <2>1, <2>2, <2>3 DEF RowsHold, IsRunEndingAt, IsCommonRun
<1>5. \A x \in Nat : \A y \in 1..Len(b) : Filled(x, y)' <=> Filled(x, y)
  BY <1>1, <1>2 DEF Filled
<1>6. ASSUME NEW x, NEW y, NEW n PROVE RunSeen(x, y, n)' <=> RunSeen(x, y, n)
  <2>1. IsCommonRun(a, b, n, x - n, y - n)' <=> IsCommonRun(a, b, n, x - n, y - n)
    BY <1>1 DEF IsCommonRun
  <2>2. x \in 1..Len(a) /\ y \in 1..Len(b) => (Filled(x, y)' <=> Filled(x, y))
    BY <1>2, <1>5
  <2> QED
    BY <1>1, <2>1, <2>2 DEF RunSeen
<1>7. best[1] > 0 => Filled(best[2] + best[1], best[3] + best[1])'
  <2> SUFFICES ASSUME best[1] > 0 PROVE Filled(best[2] + best[1], best[3] + best[1])'
    OBVIOUS
  <2>1. /\ best \in Nat \X Nat \X Nat
        /\ IsCommonRun(a, b, best[1], best[2], best[3])
        /\ Filled(best[2] + best[1], best[3] + best[1])
    BY DEF CInv, BestIsFirst
  <2>2. best[2] + best[1] \in Nat /\ best[3] + best[1] \in 1..Len(b)
    BY <1>2, <2>1 DEF IsCommonRun
  <2> QED
    BY <1>1, <1>5, <2>1, <2>2
<1>8. BestIsFirst'
  BY <1>1, <1>6, <1>7 DEF CInv, BestIsFirst, IsCommonRun
<1> QED
  BY <1>3, <1>4, <1>8 DEF CInv

LEMMA StepKeepsCInv == CInv /\ [RunNext]_runVars => CInv'
<1>1. ASSUME CInv, UNCHANGED runVars PROVE CInv'
  <2>1. UNCHANGED <<a, b, row, column, prev, cur, best>>
    BY <1>1 DEF runVars
  <2>2. TableIsTyped' /\ RowsHold'
    BY <1>1, <2>1 DEF CInv, TableIsTyped, IsRow, RowsHold, IsRunEndingAt, IsCommonRun
  <2>3. /\ \A x, y : Filled(x, y)' <=> Filled(x, y)
        /\ \A x, y, n : RunSeen(x, y, n)' <=> RunSeen(x, y, n)
    BY <2>1 DEF Filled, RunSeen, IsCommonRun
  <2>4. BestIsFirst'
    BY <1>1, <2>1, <2>3 DEF CInv, BestIsFirst, IsCommonRun
  <2> QED
    BY <2>2, <2>4 DEF CInv
<1> QED
  BY <1>1, CellKeepsCInv, EndRowKeepsCInv DEF RunNext

\* The table holds the lengths of the runs that end in its cells, for sequences
\* of any length: two rows are memory enough (trace_core.py:131-140).
THEOREM TableIsRight == RunSpec => []RowsHoldRuns
<1>1. RunInit => CInv
  BY InitEstablishesCInv
<1>2. CInv /\ [RunNext]_runVars => CInv'
  BY StepKeepsCInv
<1>3. CInv => RowsHoldRuns
  BY DEF CInv, RowsHold, RowsHoldRuns
<1> QED
  BY <1>1, <1>2, <1>3, PTL DEF RunSpec

-----------------------------------------------------------------------------
\* The first longest run of two sequences is one triple, so LongestCommonRun is
\* the one that is found.
LEMMA FirstLongestIsChosen ==
  ASSUME NEW s, NEW u, NEW r \in (0..Len(s)) \X (0..Len(s)) \X (0..Len(u)),
         Len(s) \in Nat, Len(u) \in Nat,
         IsCommonRun(s, u, r[1], r[2], r[3]),
         \A x \in 0..Len(s), y \in 0..Len(u) :
           /\ ~IsCommonRun(s, u, r[1] + 1, x, y)
           /\ IsCommonRun(s, u, r[1], x, y) => r[2] < x \/ (r[2] = x /\ r[3] <= y)
  PROVE  r = LongestCommonRun(s, u)
<1> DEFINE S == (0..Len(s)) \X (0..Len(s)) \X (0..Len(u))
           First(q) ==
             /\ IsCommonRun(s, u, q[1], q[2], q[3])
             /\ \A x \in 0..Len(s), y \in 0..Len(u) :
                  /\ ~IsCommonRun(s, u, q[1] + 1, x, y)
                  /\ IsCommonRun(s, u, q[1], x, y) => q[2] < x \/ (q[2] = x /\ q[3] <= y)
<1>1. LongestCommonRun(s, u) = CHOOSE q \in S : First(q)
  BY DEF LongestCommonRun
<1>2. r \in S /\ First(r)
  OBVIOUS
<1>3. \A k, n \in Nat : k < n =>
        \A x, y : IsCommonRun(s, u, n, x, y) /\ x \in Nat /\ y \in Nat
                    => IsCommonRun(s, u, k + 1, x, y)
  <2> SUFFICES ASSUME NEW k \in Nat, NEW n \in Nat, k < n, NEW x \in Nat, NEW y \in Nat,
                      IsCommonRun(s, u, n, x, y)
               PROVE  IsCommonRun(s, u, k + 1, x, y)
    OBVIOUS
  <2>1. /\ x + n <= Len(s) /\ y + n <= Len(u)
        /\ \A d \in 1..n : s[x + d] = u[y + d]
    BY DEF IsCommonRun
  <2>2. k + 1 <= n /\ k + 1 \in Nat /\ Len(s) \in Nat /\ Len(u) \in Nat
    OBVIOUS
  <2>3. x + (k + 1) <= Len(s) /\ y + (k + 1) <= Len(u) /\ \A d \in 1..(k + 1) : d \in 1..n
    BY ONLY <2>1, <2>2, x \in Nat, y \in Nat, n \in Nat
  <2>4. \A d \in 1..(k + 1) : s[x + d] = u[y + d]
    BY ONLY <2>1, <2>3
  <2> QED
    BY ONLY <2>3, <2>4 DEF IsCommonRun
<1>4. ASSUME NEW p \in S, NEW q \in S, First(p), First(q)
      PROVE  /\ p[1] <= q[1]
             /\ p[1] = q[1] => p[2] < q[2] \/ (p[2] = q[2] /\ p[3] <= q[3])
  <2>1. /\ p[1] \in Nat /\ p[2] \in 0..Len(s) /\ p[3] \in 0..Len(u)
        /\ q[1] \in Nat /\ q[2] \in 0..Len(s) /\ q[3] \in 0..Len(u)
    BY <1>4
  <2>2. ~(q[1] < p[1])
    BY <1>3, <1>4, <2>1
  <2> QED
    BY <1>4, <2>1, <2>2
<1>5. ASSUME NEW q \in S, First(q) PROVE q = r
  <2>1. /\ q[1] <= r[1] /\ r[1] <= q[1]
        /\ q[1] = r[1] => q[2] < r[2] \/ (q[2] = r[2] /\ q[3] <= r[3])
        /\ q[1] = r[1] => r[2] < q[2] \/ (r[2] = q[2] /\ r[3] <= q[3])
    BY <1>2, <1>4, <1>5
  <2> HIDE DEF First
  <2> QED
    BY <1>2, <2>1
<1> HIDE DEF S, First
<1> QED
  BY <1>1, <1>2, <1>5

\* When the table is complete every cell has been filled.
LEMMA AllCellsFilled ==
  ASSUME CInv, Returned, NEW x \in 1..Len(a), NEW y \in 1..Len(b)
  PROVE  Filled(x, y)
BY DEF CInv, TableIsTyped, Returned, Filled

\* longest_common_run returns a longest run and, of those, the first one, which
\* is what PromptLoop takes it to return, for sequences of any length.
THEOREM FindsLongestRun == RunSpec => []ReturnsLongestRun
<1>1. RunInit => CInv
  BY InitEstablishesCInv
<1>2. CInv /\ [RunNext]_runVars => CInv'
  BY StepKeepsCInv
<1>3. ASSUME CInv, Returned PROVE best = LongestCommonRun(a, b)
  <2>1. /\ Len(a) \in Nat /\ Len(b) \in Nat /\ best \in Nat \X Nat \X Nat
        /\ IsCommonRun(a, b, best[1], best[2], best[3])
        /\ best[1] = 0 => best[2] = 0 /\ best[3] = 0
    BY <1>3 DEF CInv, TableIsTyped, BestIsFirst
  <2>2. best \in (0..Len(a)) \X (0..Len(a)) \X (0..Len(b))
    BY <2>1 DEF IsCommonRun
  <2>3. ASSUME NEW n \in Nat \ {0}, NEW x \in 0..Len(a), NEW y \in 0..Len(b),
               IsCommonRun(a, b, n, x, y)
        PROVE  /\ n <= best[1]
               /\ n = best[1] => best[2] < x \/ (best[2] = x /\ best[3] <= y)
    <3>1. /\ x + n \in 1..Len(a) /\ y + n \in 1..Len(b)
          /\ (x + n) - n = x /\ (y + n) - n = y
      BY <2>1, <2>3 DEF IsCommonRun
    <3>2. RunSeen(x + n, y + n, n)
      BY <1>3, <2>3, <3>1, AllCellsFilled DEF RunSeen
    <3>3. /\ n <= best[1]
          /\ n = best[1] => best[2] + n < x + n \/ (best[2] + n = x + n /\ best[3] + n <= y + n)
      BY <1>3, <3>2 DEF CInv, BestIsFirst
    <3> QED
      BY <2>1, <3>3
  <2>4. ASSUME NEW x \in 0..Len(a), NEW y \in 0..Len(b)
        PROVE  /\ ~IsCommonRun(a, b, best[1] + 1, x, y)
               /\ IsCommonRun(a, b, best[1], x, y) =>
                    best[2] < x \/ (best[2] = x /\ best[3] <= y)
    <3>1. ~IsCommonRun(a, b, best[1] + 1, x, y)
      BY <2>1, <2>3
    <3>2. CASE best[1] = 0
      BY <2>1, <3>1, <3>2
    <3>3. CASE best[1] # 0
      BY <2>1, <2>3, <3>1, <3>3
    <3> QED
      BY <3>2, <3>3
  <2> QED
    BY <2>1, <2>2, <2>4, FirstLongestIsChosen
<1>4. CInv => ReturnsLongestRun
  BY <1>3 DEF ReturnsLongestRun
<1> QED
  BY <1>1, <1>2, <1>4, PTL DEF RunSpec

-----------------------------------------------------------------------------
(***************************************************************************)
(* Gains, verdicts and gates.                                              *)
(***************************************************************************)

\* What the selected events win by trimming.
TrimGains == [k \in Events |-> TrimGain(k)]
Won(mask) == Total(TrimGains, mask)
SumOfGains(mask) == SumOver(mask, TrimGain)

\* Sequences are aligned alike whatever set their elements are said to be of.
LEMMA RungsOfPair ==
  ASSUME NEW s, NEW u, s \in Seq(Range(s)), u \in Seq(Range(u))
  PROVE  LET whole  == FirstMismatch(s, u)
             bridge == BestBridge(s, u, 8)[1]
             trim   == BestTrim(s, u, 8)[1]
             run    == LongestCommonRun(s, u)[1]
         IN  /\ whole \in Nat /\ bridge \in Nat /\ trim \in Nat /\ run \in Nat
             /\ whole <= bridge /\ bridge <= run
             /\ whole <= trim /\ trim <= run
<1> DEFINE S == Range(s) \union Range(u)
<1>1. s \in Seq(S) /\ u \in Seq(S)
  <2>1. \A k \in 1..Len(s) : s[k] \in Range(s)
    BY ElementOfSeq
  <2>2. \A k \in 1..Len(u) : u[k] \in Range(u)
    BY ElementOfSeq
  <2> QED
    BY <2>1, <2>2
<1> HIDE DEF S
<1> QED
  BY <1>1, AlignmentsNest

\* The lengths recorded of an event, and what it wins by each attachment.
LEMMA RungsOfEvent ==
  ASSUME ev \in Traces, HasAlignment, NEW k \in Events
  PROVE  /\ ev[k].L_survive \in Nat /\ ev[k].L_fresh \in Nat
         /\ ev[k].L_bridge \in Nat /\ ev[k].lcs_len \in Nat /\ Trimmed(k) \in Nat
         /\ ev[k].L_survive <= ev[k].L_bridge /\ ev[k].L_bridge <= ev[k].lcs_len
         /\ ev[k].L_survive <= Trimmed(k) /\ Trimmed(k) <= ev[k].lcs_len
<1> DEFINE s == ev[k].suffix_ids
           u == ev[k].realized_ids
<1>1. /\ ev[k].L_survive \in Nat /\ ev[k].L_fresh \in Nat
      /\ s \in Seq(Range(s)) /\ u \in Seq(Range(u))
      /\ ev[k].L_survive = FirstMismatch(s, u)
      /\ ev[k].L_bridge = BestBridge(s, u, 8)[1]
      /\ ev[k].lcs_len = LongestCommonRun(s, u)[1]
  BY EventsAreRecorded DEF HasAlignment, Events
<1>2. Trimmed(k) = BestTrim(s, u, 8)[1]
  BY DEF Trimmed
<1> HIDE DEF s, u
<1> QED
  BY <1>1, <1>2, RungsOfPair

LEMMA GainIsMonotone ==
  ASSUME NEW x \in Nat, NEW y \in Nat, x <= y, NEW fresh \in Nat
  PROVE  /\ GainOver(x, fresh) \in Nat /\ GainOver(y, fresh) \in Nat
         /\ GainOver(x, fresh) <= GainOver(y, fresh)
BY DEF GainOver

LEMMA GainIsNatural ==
  ASSUME NEW x \in Nat, NEW fresh \in Nat
  PROVE  GainOver(x, fresh) \in Nat
BY DEF GainOver

LEMMA EventsAreFinite ==
  ASSUME ev \in Traces
  PROVE  IsFiniteSet(Events)
BY ShufflesAssumption, FS_Interval DEF Events

\* What a set of events wins by trimming.
LEMMA WonIsSum ==
  ASSUME ev \in Traces, HasAlignment, NEW mask \in SUBSET Events
  PROVE  SumOfGains(mask) = Won(mask)
<1> DEFINE P(T) == T = [s \in SUBSET mask |->
                          IF s = {} THEN 0
                          ELSE LET x == CHOOSE x \in s : TRUE IN TrimGain(x) + T[s \ {x}]]
           R == CHOOSE T : P(T)
<1>1. SumOfGains(mask) = R[mask]
  BY DEF SumOfGains, SumOver, MapThenSumSet, MapThenFoldSet
<1>2. IsFiniteSet(mask) /\ \A x \in mask : TrimGains[x] = TrimGain(x) /\ TrimGains[x] \in Int
  <2>1. \A x \in mask : TrimGain(x) \in Nat
    BY RungsOfEvent, GainIsMonotone DEF TrimGain
  <2> QED
    BY <2>1, EventsAreFinite, FS_Subset DEF TrimGains
<1>3. \A s \in SUBSET mask : s # {} => (CHOOSE x \in s : TRUE) \in mask
  OBVIOUS
<1>4. \A T : P(T) <=> IsFold(T, TrimGains, mask)
  BY <1>2, <1>3 DEF IsFold, SumBody
<1> HIDE DEF P
<1>5. P(R)
  BY <1>2, <1>4, FoldExists
<1> HIDE DEF R
<1>6. R[mask] = Total(TrimGains, mask)
  BY <1>2, <1>4, <1>5, FoldIsTotal
<1> QED
  BY <1>1, <1>6 DEF Won

\* What all events win by attaching whole,
LEMMA OffsetIsSum ==
  ASSUME ev \in Traces
  PROVE  OffsetGain = Total([k \in Events |-> GainOver(ev[k].L_survive, ev[k].L_fresh)], Events)
<1> DEFINE g == [k \in Events |-> GainOver(ev[k].L_survive, ev[k].L_fresh)]
           P(T) == T = [s \in SUBSET Events |->
                          IF s = {} THEN 0
                          ELSE LET x == CHOOSE x \in s : TRUE
                               IN  GainOver(ev[x].L_survive, ev[x].L_fresh) + T[s \ {x}]]
           R == CHOOSE T : P(T)
<1>1. OffsetGain = R[Events]
  BY DEF OffsetGain, SumOver, MapThenSumSet, MapThenFoldSet
<1>2. /\ IsFiniteSet(Events)
      /\ \A x \in Events : g[x] = GainOver(ev[x].L_survive, ev[x].L_fresh) /\ g[x] \in Int
  <2>1. \A x \in Events : ev[x].L_survive \in Nat /\ ev[x].L_fresh \in Nat
    BY EventsAreRecorded DEF Events
  <2> QED
    BY <2>1, EventsAreFinite, GainIsNatural
<1>3. \A s \in SUBSET Events : s # {} => (CHOOSE x \in s : TRUE) \in Events
  OBVIOUS
<1>4. \A T : P(T) <=> IsFold(T, g, Events)
  BY <1>2, <1>3 DEF IsFold, SumBody
<1> HIDE DEF P, g
<1>5. P(R)
  BY <1>2, <1>4, FoldExists
<1> HIDE DEF R
<1>6. R[Events] = Total(g, Events)
  BY <1>2, <1>4, <1>5, FoldIsTotal
<1> QED
  BY <1>1, <1>6 DEF g

\* by bridging,
LEMMA BridgeIsSum ==
  ASSUME ev \in Traces, HasAlignment
  PROVE  BridgeGain = Total([k \in Events |-> GainOver(ev[k].L_bridge, ev[k].L_fresh)], Events)
<1> DEFINE g == [k \in Events |-> GainOver(ev[k].L_bridge, ev[k].L_fresh)]
           P(T) == T = [s \in SUBSET Events |->
                          IF s = {} THEN 0
                          ELSE LET x == CHOOSE x \in s : TRUE
                               IN  GainOver(ev[x].L_bridge, ev[x].L_fresh) + T[s \ {x}]]
           R == CHOOSE T : P(T)
<1>1. BridgeGain = R[Events]
  BY DEF BridgeGain, SumOver, MapThenSumSet, MapThenFoldSet
<1>2. /\ IsFiniteSet(Events)
      /\ \A x \in Events : g[x] = GainOver(ev[x].L_bridge, ev[x].L_fresh) /\ g[x] \in Int
  <2>1. \A x \in Events : ev[x].L_bridge \in Nat /\ ev[x].L_fresh \in Nat
    BY RungsOfEvent
  <2> QED
    BY <2>1, EventsAreFinite, GainIsNatural
<1>3. \A s \in SUBSET Events : s # {} => (CHOOSE x \in s : TRUE) \in Events
  OBVIOUS
<1>4. \A T : P(T) <=> IsFold(T, g, Events)
  BY <1>2, <1>3 DEF IsFold, SumBody
<1> HIDE DEF P, g
<1>5. P(R)
  BY <1>2, <1>4, FoldExists
<1> HIDE DEF R
<1>6. R[Events] = Total(g, Events)
  BY <1>2, <1>4, <1>5, FoldIsTotal
<1> QED
  BY <1>1, <1>6 DEF g

\* and with slack on both sides.
LEMMA TwoSidedIsSum ==
  ASSUME ev \in Traces, HasAlignment
  PROVE  TwoSidedGain = Total([k \in Events |-> GainOver(ev[k].lcs_len, ev[k].L_fresh)], Events)
<1> DEFINE g == [k \in Events |-> GainOver(ev[k].lcs_len, ev[k].L_fresh)]
           P(T) == T = [s \in SUBSET Events |->
                          IF s = {} THEN 0
                          ELSE LET x == CHOOSE x \in s : TRUE
                               IN  GainOver(ev[x].lcs_len, ev[x].L_fresh) + T[s \ {x}]]
           R == CHOOSE T : P(T)
<1>1. TwoSidedGain = R[Events]
  BY DEF TwoSidedGain, SumOver, MapThenSumSet, MapThenFoldSet
<1>2. /\ IsFiniteSet(Events)
      /\ \A x \in Events : g[x] = GainOver(ev[x].lcs_len, ev[x].L_fresh) /\ g[x] \in Int
  <2>1. \A x \in Events : ev[x].lcs_len \in Nat /\ ev[x].L_fresh \in Nat
    BY RungsOfEvent
  <2> QED
    BY <2>1, EventsAreFinite, GainIsNatural
<1>3. \A s \in SUBSET Events : s # {} => (CHOOSE x \in s : TRUE) \in Events
  OBVIOUS
<1>4. \A T : P(T) <=> IsFold(T, g, Events)
  BY <1>2, <1>3 DEF IsFold, SumBody
<1> HIDE DEF P, g
<1>5. P(R)
  BY <1>2, <1>4, FoldExists
<1> HIDE DEF R
<1>6. R[Events] = Total(g, Events)
  BY <1>2, <1>4, <1>5, FoldIsTotal
<1> QED
  BY <1>1, <1>6 DEF g

LEMMA WonIsInteger ==
  ASSUME ev \in Traces, HasAlignment, NEW mask \in SUBSET Events
  PROVE  /\ IsFiniteSet(mask) /\ Cardinality(mask) \in Nat
         /\ \A k \in Events : TrimGains[k] \in Nat
         /\ Won(mask) \in Int
<1>1. IsFiniteSet(Events) /\ IsFiniteSet(mask) /\ Cardinality(mask) \in Nat
  BY EventsAreFinite, FS_Subset, FS_CardinalityType
<1>2. \A k \in Events : TrimGains[k] \in Nat
  BY RungsOfEvent, GainIsNatural DEF TrimGains, TrimGain
<1>3. Total(TrimGains, mask) \in Int
  BY <1>1, <1>2, TotalProperties
<1> QED
  BY <1>1, <1>2, <1>3 DEF Won

-----------------------------------------------------------------------------
(***************************************************************************)
(* The invariant: what the gains are bound by is settled when they are     *)
(* computed; each verdict and row was computed from the totals; a row's    *)
(* sum is taken over the events of its mask.                               *)
(***************************************************************************)
GainsNest ==
  /\ \A name \in DOMAIN gains : gains[name] \in Int
  /\ HasAlignment => /\ gains.offset <= gains.bridge /\ gains.bridge <= gains.two_sided
                     /\ gains.offset <= gains.trim /\ gains.trim <= gains.two_sided

VerdictsAreComputed ==
  \A v \in verdicts :
    /\ totals \in Totals
    /\ \E c \in Int, gained \in Int : /\ v.rate = Rate(c, gained, Len(ev), totals)
                                      /\ v.pays <=> Clears(c, gained, Len(ev), totals)

RowsAreComputed ==
  \A r \in rows :
    /\ totals \in Totals /\ HasAlignment
    /\ r.mask \in SUBSET Events
    /\ r.rate = Rate(GateCost, Won(r.mask), Cardinality(r.mask), totals)
    /\ r.clears <=> Clears(GateCost, Won(r.mask), Cardinality(r.mask), totals)

RInv ==
  /\ NullInv /\ totals \in Totals \union {None}
  /\ pc = "gates" => totals # None /\ HasAlignment
  /\ GainsNest /\ VerdictsAreComputed /\ RowsAreComputed

\* The gains of the four attachments, summed up event by event.
LEMMA InitEstablishesRInv == Init => RInv
<1> SUFFICES ASSUME Init PROVE RInv
  OBVIOUS
<1>1. NullInv /\ ev \in Traces /\ totals \in Totals \union {None} /\ pc # "gates"
      /\ verdicts = {} /\ rows = {} /\ gains = Gains
  BY ShufflesAssumption DEF Init, NullInit, NullInv
<1> DEFINE offset == [k \in Events |-> GainOver(ev[k].L_survive, ev[k].L_fresh)]
           bridge == [k \in Events |-> GainOver(ev[k].L_bridge, ev[k].L_fresh)]
           double == [k \in Events |-> GainOver(ev[k].lcs_len, ev[k].L_fresh)]
<1>2. IsFiniteSet(Events)
  BY <1>1, EventsAreFinite
<1>3. OffsetGain \in Int
  <2>1. \A k \in Events : offset[k] \in Int
    <3>1. \A k \in Events : ev[k].L_survive \in Nat /\ ev[k].L_fresh \in Nat
      BY <1>1, EventsAreRecorded DEF Events
    <3> QED
      BY <3>1, GainIsNatural
  <2>2. OffsetGain = Total(offset, Events)
    BY <1>1, OffsetIsSum
  <2> HIDE DEF offset
  <2> QED
    BY <1>2, <2>1, <2>2, TotalProperties
<1>4. CASE ~HasAlignment
  <2>1. Gains = [offset |-> OffsetGain]
    BY <1>4 DEF Gains
  <2>2. \A name \in DOMAIN gains : gains[name] \in Int
    BY <1>1, <1>3, <2>1
  <2> QED
    BY <1>1, <1>4, <2>2 DEF RInv, GainsNest, VerdictsAreComputed, RowsAreComputed
<1>5. CASE HasAlignment
  <2>1. ASSUME NEW k \in Events
        PROVE  /\ offset[k] \in Int /\ bridge[k] \in Int
               /\ TrimGains[k] \in Int /\ double[k] \in Int
               /\ offset[k] <= bridge[k] /\ bridge[k] <= double[k]
               /\ offset[k] <= TrimGains[k] /\ TrimGains[k] <= double[k]
    <3>1. /\ ev[k].L_survive \in Nat /\ ev[k].L_fresh \in Nat
          /\ ev[k].L_bridge \in Nat /\ ev[k].lcs_len \in Nat /\ Trimmed(k) \in Nat
          /\ ev[k].L_survive <= ev[k].L_bridge /\ ev[k].L_bridge <= ev[k].lcs_len
          /\ ev[k].L_survive <= Trimmed(k) /\ Trimmed(k) <= ev[k].lcs_len
      BY <1>1, <1>5, RungsOfEvent
    <3>2. /\ offset[k] = GainOver(ev[k].L_survive, ev[k].L_fresh)
          /\ bridge[k] = GainOver(ev[k].L_bridge, ev[k].L_fresh)
          /\ TrimGains[k] = GainOver(Trimmed(k), ev[k].L_fresh)
          /\ double[k] = GainOver(ev[k].lcs_len, ev[k].L_fresh)
      BY DEF TrimGains, TrimGain
    <3> QED
      BY <3>1, <3>2 DEF GainOver
  <2>2. /\ OffsetGain = Total(offset, Events) /\ BridgeGain = Total(bridge, Events)
        /\ SumOfGains(Events) = Total(TrimGains, Events)
        /\ TwoSidedGain = Total(double, Events)
    BY <1>1, <1>5, OffsetIsSum, BridgeIsSum, TwoSidedIsSum, WonIsSum DEF Won
  <2> HIDE DEF offset, bridge, double
  <2>3. /\ Total(offset, Events) \in Int /\ Total(bridge, Events) \in Int
        /\ Total(TrimGains, Events) \in Int /\ Total(double, Events) \in Int
    BY <1>2, <2>1, TotalProperties
  <2>4. /\ Total(offset, Events) <= Total(bridge, Events)
        /\ Total(bridge, Events) <= Total(double, Events)
        /\ Total(offset, Events) <= Total(TrimGains, Events)
        /\ Total(TrimGains, Events) <= Total(double, Events)
    BY <1>2, <2>1, TotalIsMonotone
  <2>5. Gains = [offset |-> OffsetGain, bridge |-> BridgeGain,
                 trim |-> SumOfGains(Events), two_sided |-> TwoSidedGain]
    BY <1>5 DEF Gains, SumOfGains
  <2>6. GainsNest
    BY <1>1, <2>2, <2>3, <2>4, <2>5 DEF GainsNest
  <2> QED
    BY <1>1, <2>6 DEF RInv, VerdictsAreComputed, RowsAreComputed
<1> QED
  BY <1>4, <1>5

\* The report changes no event, and what it reads of the events stays the same.
LEMMA EventsStay ==
  ASSUME ev' = ev
  PROVE  /\ HasAlignment' = HasAlignment /\ Events' = Events
         /\ TrimGains' = TrimGains /\ Oracle' = Oracle
<1>1. HasAlignment' = HasAlignment /\ Events' = Events
  BY DEF HasAlignment, Events
<1>2. ASSUME NEW k PROVE TrimGain(k)' = TrimGain(k)
  BY DEF TrimGain, Trimmed
<1> QED
  BY <1>1, <1>2 DEF TrimGains, Oracle

LEMMA StepKeepsRInv == RInv /\ [Next]_vars => RInv'
<1> SUFFICES ASSUME RInv, [Next]_vars PROVE RInv'
  OBVIOUS
<1>1. NullInv' /\ ev' = ev /\ totals' = totals /\ gains' = gains
  <2>1. CASE NullStep
    BY <2>1, DerangeStep DEF RInv, NullStep, Derange, Shuffle, Keep, Swap
  <2>2. CASE ~NullStep
    <3>1. UNCHANGED nullVars /\ totals' = totals /\ gains' = gains
      BY <2>2 DEF Next, vars, NullDone, Economics, GateReport
    <3> QED
      BY <3>1 DEF RInv, NullInv, nullVars
  <2> QED
    BY <2>1, <2>2
<1>2. HasAlignment' = HasAlignment /\ Events' = Events /\ TrimGains' = TrimGains
  BY <1>1, EventsStay
<1>3. GainsNest'
  BY <1>1, <1>2 DEF RInv, GainsNest
<1>4. CASE Economics
  <2>1. rows' = rows /\ pc' = IF totals # None /\ HasAlignment THEN "gates" ELSE "done"
    BY <1>4 DEF Economics
  <2>2. ASSUME NEW v \in verdicts'
        PROVE  /\ totals # None
               /\ \E c \in CostModels, name \in DOMAIN gains :
                    v = [rate |-> Rate(c, gains[name], Len(ev), totals),
                         pays |-> Clears(c, gains[name], Len(ev), totals)]
    BY <1>4, <2>2 DEF Economics
  <2>3. ASSUME NEW v \in verdicts'
        PROVE  /\ totals \in Totals
               /\ \E c \in Int, gained \in Int :
                    /\ v.rate = Rate(c, gained, Len(ev), totals)
                    /\ v.pays <=> Clears(c, gained, Len(ev), totals)
    <3>1. PICK c \in CostModels, name \in DOMAIN gains :
            v = [rate |-> Rate(c, gains[name], Len(ev), totals),
                 pays |-> Clears(c, gains[name], Len(ev), totals)]
      BY <2>2
    <3>2. c \in Int /\ gains[name] \in Int
      BY <3>1 DEF CostModels, RInv, GainsNest
    <3>3. v.rate = Rate(c, gains[name], Len(ev), totals)
          /\ (v.pays <=> Clears(c, gains[name], Len(ev), totals))
      BY <3>1
    <3>4. totals \in Totals
      BY <2>2 DEF RInv
    <3> QED
      BY <3>2, <3>3, <3>4
  <2>4. VerdictsAreComputed'
    BY <1>1, <2>3 DEF VerdictsAreComputed
  <2>5. RowsAreComputed'
    BY <1>1, <1>2, <2>1 DEF RInv, RowsAreComputed, Won
  <2>6. (pc = "gates" => totals # None /\ HasAlignment)'
    BY <1>1, <1>2, <2>1
  <2> QED
    BY <1>1, <1>3, <2>4, <2>5, <2>6 DEF RInv
<1>5. CASE GateReport
  <2>1. /\ verdicts' = verdicts /\ pc' = "done"
        /\ totals # None /\ totals \in Totals /\ HasAlignment /\ ev \in Traces
    BY <1>5 DEF GateReport, RInv, NullInv
  <2>2. RowsAreComputed'
    <3> SUFFICES ASSUME NEW r \in rows'
                 PROVE  /\ r.mask \in SUBSET Events
                        /\ r.rate = Rate(GateCost, Won(r.mask), Cardinality(r.mask), totals)
                        /\ r.clears <=> Clears(GateCost, Won(r.mask), Cardinality(r.mask), totals)
      BY <1>1, <1>2, <2>1 DEF RowsAreComputed, Won
    <3>1. PICK mask \in Gates : r = Row(mask)
      BY <1>5 DEF GateReport
    <3>2. mask \in SUBSET Events
      BY DEF Gates, Oracle
    <3>3. SumOfGains(mask) = Won(mask)
      BY <2>1, <3>2, WonIsSum
    <3>4. r = [mask |-> mask, rate |-> Rate(GateCost, Won(mask), Cardinality(mask), totals),
               clears |-> Clears(GateCost, Won(mask), Cardinality(mask), totals)]
      BY <3>1, <3>3 DEF Row, SumOfGains
    <3> QED
      BY <3>2, <3>4
  <2>3. VerdictsAreComputed'
    BY <1>1, <2>1 DEF RInv, VerdictsAreComputed
  <2> QED
    BY <1>1, <1>3, <2>1, <2>2, <2>3 DEF RInv
<1>6. CASE NullStep \/ NullDone \/ UNCHANGED vars
  <2>1. verdicts' = verdicts /\ rows' = rows /\ (pc' = pc \/ pc' = "economics")
    BY <1>6 DEF NullStep, NullDone, vars
  <2>2. VerdictsAreComputed' /\ RowsAreComputed'
    BY <1>1, <1>2, <2>1 DEF RInv, VerdictsAreComputed, RowsAreComputed, Won
  <2> QED
    BY <1>1, <1>2, <1>3, <2>1, <2>2 DEF RInv
<1> QED
  BY <1>4, <1>5, <1>6 DEF Next

LEMMA ReportInvariance == Spec => []RInv
BY InitEstablishesRInv, StepKeepsRInv, PTL DEF Spec

\* Trimming and bridging win no less than attaching whole, slack on both sides
\* no less than either, for any events; the chance control is bound by the same
\* ceiling, whatever was shuffled (analyze_traces.py:205-251).
THEOREM AttachmentsNest == Spec => []RungsNest
<1>1. ASSUME RInv, HasAlignment, pc # "null", i > Len(ev), NEW k \in NullPairs
      PROVE  NullBridge(k) <= NullRun(k)
  <2>1. k \in Events /\ Len(ev) \in Nat /\ ev \in Traces
    BY <1>1, ShufflesAssumption DEF NullPairs, Events, RInv, NullInv
  <2>2. IsPermutation(order, Len(ev))
    BY <1>1, <2>1 DEF RInv, NullInv
  <2>3. order[k] \in Events
    BY <2>1, <2>2 DEF IsPermutation, Events
  <2> DEFINE s == ev[k].suffix_ids
             u == ev[order[k]].realized_ids
  <2>4. s \in Seq(Range(s)) /\ u \in Seq(Range(u))
    BY <1>1, <2>1, <2>3, EventsAreRecorded DEF HasAlignment, Events
  <2>5. NullBridge(k) = BestBridge(s, u, 8)[1] /\ NullRun(k) = LongestCommonRun(s, u)[1]
    BY DEF NullBridge, NullRun
  <2> HIDE DEF s, u
  <2> QED
    BY <2>4, <2>5, RungsOfPair
<1>2. RInv => RungsNest
  BY <1>1 DEF RInv, GainsNest, RungsNest
<1> QED
  BY <1>2, ReportInvariance, PTL

\* What is said to pay, for a cost model or for a gate, is what raises the
\* throughput, for all events and totals (analyze_traces.py:95-103).
THEOREM VerdictsAreRight == Spec => []VerdictsMatchRates
<1>1. ASSUME RInv, NEW v \in verdicts PROVE v.pays <=> Faster(v.rate, totals)
  <2>1. PICK c \in Int, gained \in Int : /\ v.rate = Rate(c, gained, Len(ev), totals)
                                         /\ v.pays <=> Clears(c, gained, Len(ev), totals)
    BY <1>1 DEF RInv, VerdictsAreComputed
  <2>2. totals[1] \in Int /\ totals[2] \in Int
    BY <1>1, TotalsAssumption DEF RInv, VerdictsAreComputed
  <2>3. Len(ev) \in Int
    BY <1>1, ShufflesAssumption DEF RInv, NullInv
  <2> QED
    BY <2>1, <2>2, <2>3, BreakEven
<1>2. ASSUME RInv, NEW r \in rows PROVE r.clears <=> Faster(r.rate, totals)
  <2>1. /\ r.rate = Rate(GateCost, Won(r.mask), Cardinality(r.mask), totals)
        /\ r.clears <=> Clears(GateCost, Won(r.mask), Cardinality(r.mask), totals)
    BY <1>2 DEF RInv, RowsAreComputed
  <2>2. totals[1] \in Int /\ totals[2] \in Int
    BY <1>2, TotalsAssumption DEF RInv, RowsAreComputed
  <2>3. Won(r.mask) \in Int /\ Cardinality(r.mask) \in Int /\ GateCost \in Int
    BY <1>2, WonIsInteger DEF RInv, NullInv, RowsAreComputed, GateCost
  <2> QED
    BY <2>1, <2>2, <2>3, BreakEven
<1>3. RInv => VerdictsMatchRates
  BY <1>1, <1>2 DEF VerdictsMatchRates
<1> QED
  BY <1>3, ReportInvariance, PTL

\* The arithmetic of the ceiling: the oracle's pass wins a tokens in b hundredths
\* of passes; a gate selects at least k - d of its events, and each of the d it
\* misses is a token lost and c hundredths saved.
LEMMA CheapIsWorthwhile ==
  ASSUME NEW a1 \in Nat, NEW b1 \in Nat, NEW a2 \in Int, NEW b2 \in Nat,
         NEW c \in Nat, NEW d \in Nat,
         a2 + d <= a1, b1 <= b2 + c * d, c * a1 <= b1
  PROVE  a2 * b1 <= a1 * b2
<1>1. a2 * b1 <= (a1 - d) * b1
  OBVIOUS
<1>2. (a1 - d) * b1 = a1 * b1 - d * b1
  OBVIOUS
<1>3. a1 * b1 <= a1 * (b2 + c * d)
  OBVIOUS
<1>4. a1 * (b2 + c * d) = a1 * b2 + d * (c * a1)
  OBVIOUS
<1>5. d * (c * a1) <= d * b1
  OBVIOUS
<1> QED
  BY <1>1, <1>2, <1>3, <1>4, <1>5

\* What any gate wins beside the oracle: it misses d of the winning events, and
\* with each at least a token; what it selects beyond them wins nothing.
LEMMA OracleAndGate ==
  ASSUME ev \in Traces, HasAlignment, NEW mask \in SUBSET Events
  PROVE  \E d \in Nat : /\ Won(mask) + d <= Won(Oracle)
                        /\ Cardinality(Oracle) <= Cardinality(mask) + d
<1> DEFINE both   == mask \intersect Oracle
           missed == Oracle \ mask
<1>1. Oracle \in SUBSET Events /\ both \in SUBSET Events /\ missed \in SUBSET Events
  BY DEF Oracle
<1>2. /\ IsFiniteSet(mask) /\ IsFiniteSet(Oracle) /\ IsFiniteSet(both) /\ IsFiniteSet(missed)
      /\ Cardinality(mask) \in Nat /\ Cardinality(Oracle) \in Nat
      /\ Cardinality(both) \in Nat /\ Cardinality(missed) \in Nat
  BY <1>1, WonIsInteger
<1>3. /\ \A k \in Events : TrimGains[k] \in Nat
      /\ Won(mask) \in Int /\ Won(Oracle) \in Int /\ Won(both) \in Int
  BY <1>1, WonIsInteger
<1>4. \A k \in Events : IF k \in Oracle THEN TrimGains[k] >= 1 ELSE TrimGains[k] = 0
  <2>1. \A k \in Events : k \in Oracle <=> TrimGains[k] > 0
    BY DEF Oracle, TrimGains
  <2> QED
    BY <1>3, <2>1
<1>5. Won(mask) = Won(both)
  <2>1. both \in SUBSET mask /\ \A k \in mask \ both : TrimGains[k] = 0
    BY <1>4
  <2>2. \A k \in mask : TrimGains[k] \in Int
    BY <1>3
  <2> HIDE DEF both
  <2> QED
    BY <1>2, <2>1, <2>2, TotalOfGainers DEF Won
<1>6. Won(Oracle) >= Won(both) + Cardinality(missed)
  <2>1. both \in SUBSET Oracle /\ Oracle \ both = missed
    OBVIOUS
  <2>2. \A k \in Oracle : TrimGains[k] \in Int /\ TrimGains[k] >= 1
    BY <1>1, <1>3, <1>4
  <2> HIDE DEF both, missed
  <2>3. Total(TrimGains, Oracle) >= Total(TrimGains, both) + Cardinality(Oracle \ both)
    BY <1>2, <2>1, <2>2, TotalOfMore
  <2> QED
    BY <2>1, <2>3 DEF Won
<1>7. Cardinality(Oracle) <= Cardinality(mask) + Cardinality(missed)
  <2>1. Oracle = both \union missed /\ both \intersect missed = {} /\ both \in SUBSET mask
    OBVIOUS
  <2> HIDE DEF both, missed
  <2>2. Cardinality(Oracle) = Cardinality(both) + Cardinality(missed)
    <3>1. Cardinality(both \union missed)
            = Cardinality(both) + Cardinality(missed) - Cardinality(both \intersect missed)
      BY ONLY <1>2, FS_Union
    <3>2. Cardinality({}) = 0
      BY FS_EmptySet
    <3>3. Cardinality(both \union missed) = Cardinality(Oracle)
      BY ONLY <2>1, Zenon
    <3>4. Cardinality(both \intersect missed) = Cardinality({})
      BY ONLY <2>1, Zenon
    <3> QED
      BY <1>2, <3>1, <3>2, <3>3, <3>4
  <2>3. Cardinality(both) <= Cardinality(mask)
    BY <1>2, <2>1, FS_Subset
  <2> QED
    BY <1>2, <2>2, <2>3
<1> HIDE DEF both, missed
<1> QED
  BY <1>2, <1>3, <1>5, <1>6, <1>7

\* Where a branch pass costs no more than one token at the rate the oracle
\* reaches, no gate beats the oracle, for any events and totals: the report's
\* claim (analyze_traces.py:149-150) with the condition it needs.
THEOREM OracleIsTheCeiling == Spec => []OracleIsCeilingWhenCheap
<1>1. ASSUME RInv, NEW o \in rows, NEW r \in rows,
             o.mask = Oracle, GateCost * o.rate[1] <= 100 * o.rate[2]
      PROVE  ~Faster(r.rate, o.rate)
  <2>1. /\ ev \in Traces /\ HasAlignment /\ totals \in Totals /\ r.mask \in SUBSET Events
        /\ o.rate = Rate(GateCost, Won(Oracle), Cardinality(Oracle), totals)
        /\ r.rate = Rate(GateCost, Won(r.mask), Cardinality(r.mask), totals)
    BY <1>1 DEF RInv, NullInv, RowsAreComputed
  <2> DEFINE x1 == Won(Oracle)
             k1 == Cardinality(Oracle)
             x2 == Won(r.mask)
             k2 == Cardinality(r.mask)
             n  == totals[1]
             p  == totals[2]
  <2>2. n \in Nat /\ p \in Nat
    BY <2>1, TotalsAssumption
  <2>3. x1 \in Int /\ k1 \in Nat /\ x2 \in Int /\ k2 \in Nat
    <3>1. Oracle \in SUBSET Events
      BY DEF Oracle
    <3> QED
      BY <2>1, <3>1, WonIsInteger
  <2>4. PICK d \in Nat : x2 + d <= x1 /\ k1 <= k2 + d
    BY <2>1, OracleAndGate
  <2>5. x1 >= 0
    <3>1. {} \in SUBSET Events /\ Won({}) = 0 /\ Cardinality({}) = 0
      BY <2>1, WonIsInteger, EventsAreFinite, TotalProperties, FS_EmptySet DEF Won
    <3>2. PICK e \in Nat : Won({}) + e <= x1
      BY <2>1, <3>1, OracleAndGate
    <3> QED
      BY <2>3, <3>1, <3>2
  <2>6. /\ o.rate[1] = 100 * (n + x1) /\ o.rate[2] = 100 * p + 12 * k1
        /\ r.rate[1] = 100 * (n + x2) /\ r.rate[2] = 100 * p + 12 * k2
    BY <2>1 DEF Rate, GateCost
  <2>7. 12 * (100 * (n + x1)) <= 100 * (100 * p + 12 * k1)
    BY <1>1, <2>6 DEF GateCost
  <2> HIDE DEF x1, k1, x2, k2, n, p
  <2>8. (n + x2) * (100 * p + 12 * k1) <= (n + x1) * (100 * p + 12 * k2)
    <3>1. n + x1 \in Nat /\ n + x2 \in Int
          /\ 100 * p + 12 * k1 \in Nat /\ 100 * p + 12 * k2 \in Nat
      BY <2>2, <2>3, <2>5
    <3>2. /\ (n + x2) + d <= n + x1
          /\ 100 * p + 12 * k1 <= (100 * p + 12 * k2) + 12 * d
          /\ 12 * (n + x1) <= 100 * p + 12 * k1
      BY <2>2, <2>3, <2>4, <2>7
    <3> QED
      BY <3>1, <3>2, CheapIsWorthwhile
  <2> DEFINE left  == (n + x2) * (100 * p + 12 * k1)
             right == (n + x1) * (100 * p + 12 * k2)
  <2>9. left \in Int /\ right \in Int
    BY <2>2, <2>3
  <2>10. /\ (100 * (n + x2)) * (100 * p + 12 * k1) = 100 * left
         /\ (100 * (n + x1)) * (100 * p + 12 * k2) = 100 * right
    BY <2>2, <2>3
  <2>11. Faster(r.rate, o.rate) <=> 100 * left > 100 * right
    BY <2>6, <2>10 DEF Faster
  <2>12. left <= right
    BY <2>8
  <2> HIDE DEF left, right
  <2> QED
    BY <2>9, <2>11, <2>12
<1>2. RInv => OracleIsCeilingWhenCheap
  BY <1>1 DEF OracleIsCeilingWhenCheap
<1> QED
  BY <1>2, ReportInvariance, PTL
=============================================================================
