-------------------------------- MODULE Report --------------------------------
(***************************************************************************)
(* The decisions of studies/phase0/analyze_traces.py for one domain:       *)
(* report_domain's gains per way of attaching an escrow, its chance        *)
(* control, its economics (lines 166-314) and gate_report (92-151).        *)
(*                                                                         *)
(* A mean over k events is kept as the sum and k, a rate as numerator and  *)
(* denominator, costs and probabilities in hundredths: comparisons are of  *)
(* integer products and exact.                                             *)
(***************************************************************************)
EXTENDS NullAlignment

CONSTANTS
  Totals,        \* <<new tokens, main passes>> over the summaries
  MinSelected,   \* events a gate must select to be reported; 20 in the code
  None           \* Python's None

\* A run that recorded an event made a target pass, and each pass a token.
ASSUME TotalsAssumption ==
  /\ \A t \in Totals : t[1] \in Nat /\ t[2] \in Nat \ {0} /\ t[1] >= t[2]
  /\ MinSelected \in Nat \ {0}

\* An event has been compared with a fresh draft and, unless it is one of
\* schema 1, aligned by fill_alignment (trace_core.py:361-369).
ASSUME EventsAreRecorded ==
  \A trace \in Traces : \A k \in 1..Len(trace) :
    LET e == trace[k]
    IN  /\ e.L_survive \in Nat /\ e.L_fresh \in Nat
        /\ e.L_bridge # None =>
             /\ e.suffix_ids \in Seq(Range(e.suffix_ids))
             /\ e.realized_ids \in Seq(Range(e.realized_ids))
             /\ e.L_survive = FirstMismatch(e.suffix_ids, e.realized_ids)
             /\ e.L_bridge = BestBridge(e.suffix_ids, e.realized_ids, 8)[1]
             /\ e.lcs_len = LongestCommonRun(e.suffix_ids, e.realized_ids)[1]

VARIABLES
  totals,     \* the totals, or None without a summary
  pc,         \* "null", "economics", "gates" or "done"
  gains,      \* per attachment: the tokens it wins over a redraft
  verdicts,   \* lines of the economics block
  rows        \* lines of the gate table

vars == <<nullVars, totals, pc, gains, verdicts, rows>>

\* Schema 1 traces have no alignment fields.
HasAlignment == \A k \in 1..Len(ev) : ev[k].L_bridge # None

\* The escrow is used only where it beats the redraft.
GainOver(length, fresh) == IF length > fresh THEN length - fresh ELSE 0

SumOver(set, value(_)) == MapThenSumSet(value, set)
Events == 1..Len(ev)

Trimmed(k) == BestTrim(ev[k].suffix_ids, ev[k].realized_ids, 8)[1]
TrimGain(k) == GainOver(Trimmed(k), ev[k].L_fresh)

OffsetGain   == SumOver(Events, LAMBDA k : GainOver(ev[k].L_survive, ev[k].L_fresh))
BridgeGain   == SumOver(Events, LAMBDA k : GainOver(ev[k].L_bridge, ev[k].L_fresh))
TwoSidedGain == SumOver(Events, LAMBDA k : GainOver(ev[k].lcs_len, ev[k].L_fresh))

Gains ==
  IF HasAlignment
  THEN [offset |-> OffsetGain, bridge |-> BridgeGain,
        trim |-> SumOver(Events, TrimGain), two_sided |-> TwoSidedGain]
  ELSE [offset |-> OffsetGain]

-----------------------------------------------------------------------------
\* k events selected, their gains summed up, at c hundredths of a pass each.
Rate(c, gained, k, t) == <<100 * (t[1] + gained), 100 * t[2] + c * k>>

Faster(r, s) == r[1] * s[2] > s[1] * r[2]

\* The mean gain clears g_min = c.T.
Clears(c, gained, k, t) == gained * 100 * t[2] > c * k * t[1]

CostModels == {100, 12, 0}
GateCost == 12

Class(e) ==
  IF e.rejected = "blank" /\ e.correction = "blank" THEN "whitespace"
  ELSE IF "fence" \in {e.rejected, e.correction} THEN "format"
  ELSE IF "digits" \in {e.rejected, e.correction} THEN "numeric"
  ELSE "semantic"

OrZero(x) == IF x = None THEN 0 ELSE x

\* Slip: a tie counts as a win.
OracleWithTies == {k \in Events : Trimmed(k) >= ev[k].L_fresh}

\* The events on which trimming wins.
Oracle == {k \in Events : TrimGain(k) > 0}

\* The events each gate selects.
Gates ==
  {Oracle}
  \union {{k \in Events : Class(ev[k]) = c} : c \in {"whitespace", "numeric", "format", "semantic"}}
  \union {{k \in Events : ev[k].m >= t} : t \in {4, 8, 12}}
  \union {{k \in Events : ev[k].a >= t} : t \in {2, 4, 8}}
  \union {{k \in Events : OrZero(ev[k].entropy) >= t} : t \in {5, 50, 100}}
  \union {{k \in Events : OrZero(ev[k].entropy) < t} : t \in {5, 50, 100}}
  \union {{k \in Events : OrZero(ev[k].p_rejected) >= t} : t \in {5, 20, 40}}

Reported(mask) ==
  Cardinality(mask) >= MinSelected /\ 200 * Cardinality(mask) >= Len(ev)

\* Slip: every event pays for a branch pass, selected or not.
RowPayingForAll(mask) ==
  LET gained == SumOver(mask, TrimGain)
  IN  [mask |-> mask, rate |-> Rate(GateCost, gained, Len(ev), totals),
       clears |-> Clears(GateCost, gained, Cardinality(mask), totals)]

Row(mask) ==
  LET gained == SumOver(mask, TrimGain)
  IN  [mask |-> mask, rate |-> Rate(GateCost, gained, Cardinality(mask), totals),
       clears |-> Clears(GateCost, gained, Cardinality(mask), totals)]

-----------------------------------------------------------------------------
Init ==
  /\ NullInit
  /\ totals \in Totals \union {None}
  /\ gains = Gains
  /\ pc = IF HasAlignment /\ Len(ev) >= 2 THEN "null" ELSE "economics"
  /\ verdicts = {} /\ rows = {}

NullStep == pc = "null" /\ Derange /\ UNCHANGED <<totals, pc, gains, verdicts, rows>>

NullDone ==
  /\ pc = "null" /\ i > Len(ev)
  /\ pc' = "economics"
  /\ UNCHANGED <<nullVars, totals, gains, verdicts, rows>>

Economics ==
  /\ pc = "economics"
  /\ verdicts' = IF totals = None THEN {}
                 ELSE {[rate |-> Rate(c, gains[name], Len(ev), totals),
                        pays |-> Clears(c, gains[name], Len(ev), totals)] :
                          c \in CostModels, name \in DOMAIN gains}
  /\ pc' = IF totals # None /\ HasAlignment THEN "gates" ELSE "done"
  /\ UNCHANGED <<nullVars, totals, gains, rows>>

GateReport ==
  /\ pc = "gates"
  /\ rows' = {Row(mask) : mask \in {m \in Gates : Reported(m)}}
  /\ pc' = "done"
  /\ UNCHANGED <<nullVars, totals, gains, verdicts>>

Next == NullStep \/ NullDone \/ Economics \/ GateReport

Spec == Init /\ [][Next]_vars

-----------------------------------------------------------------------------
\* Each freedom an attachment is given adds to what it can win: trimming or
\* bridging wins no less than attaching whole, slack on both sides no less than
\* either ("Ceiling: both-sided oracle", analyze_traces.py:251).  The chance
\* control is bound by the same ceiling.
RungsNest ==
  HasAlignment =>
    /\ gains.offset <= gains.bridge /\ gains.bridge <= gains.two_sided
    /\ gains.offset <= gains.trim /\ gains.trim <= gains.two_sided
    /\ pc # "null" /\ i > Len(ev) => \A k \in NullPairs : NullBridge(k) <= NullRun(k)

\* What is said to pay, and a gate said to clear g_min, raises the throughput,
\* and nothing else does: coverage is no part of the threshold although it is
\* part of the rate (analyze_traces.py:95-103).
VerdictsMatchRates ==
  /\ \A v \in verdicts : v.pays <=> Faster(v.rate, totals)
  /\ \A r \in rows : r.clears <=> Faster(r.rate, totals)

\* "ORACLE is the ceiling for ANY gate: it selects exactly the events that win"
\* (analyze_traces.py:149-150).
OracleIsCeiling ==
  \A o, r \in rows : o.mask = Oracle => ~Faster(r.rate, o.rate)

\* It is where a branch pass costs no more than the one token that a winning
\* event wins at least, at the rate the oracle reaches.
OracleIsCeilingWhenCheap ==
  \A o, r \in rows :
    o.mask = Oracle /\ GateCost * o.rate[1] <= 100 * o.rate[2] => ~Faster(r.rate, o.rate)
=============================================================================
