# A TLA+ model of Rejoin

This directory holds TLA+ specifications of the decoding runtimes of `rejoin/`
and of the measurements and reports of `studies/phase0/`, the TLC configurations
that check them on small instances, and proofs checked by TLAPS. A definition is
translated from the code; `PROJECT.json` names its lines.

## 1. Inventory

| Component | State it keeps | Operations | Interacts with | What is hard |
|---|---|---|---|---|
| Target verification (`models/base.py`, `types.py`) | none | `verify_greedy`, the properties of `VerificationResult` | called once or twice a round | the second call is made under another prefix; an argmax can depend on the shape of the call |
| Stop cut (`runtime/_generation.py`) | none | `truncate_at_stop`, `validate_generation_request` | all runtimes | first stop token inside a multi-token commit |
| Runtimes (`runtime/*.py`) | prefix, output, step and work counters, all local to a call | `generate_target_greedy`, `generate_speculative`, `generate_rejoin` | adapters and the observer are called back and may raise | exactness for every draft; cuts by budget, limit and stop; counters under a cut; progress |
| Exactness gate (`metrics/exactness.py`, `tests/test_runtime.py`) | the outputs compared | `assert_exact_match` | the three runtimes | three loops, one result |
| Facade (`api.py`, `config.py`) | a configuration | `generate` | rejoin runtime | `max_steps or 1_000_000`; which checks are whose |
| Rejoinability (`analysis/rejoinability.py`), salvage (`metrics/salvage.py`) | none | pure functions | the runtime's results | the suffix is forced behind the correction, in the runtime together with it |
| Step trace collector (`analysis/trace_collector.py`) | a path and a lock | `StepTrace.from_step`, `append` | observer, other threads | the lock is the collector's, not the file's; exceptions and deaths inside `append` |
| Escrow alignment (`trace_core.py:42-142`) | none | `first_mismatch`, `prefix_match`, `best_bridge`, `best_trim`, `longest_common_run` | prompt loop, reports | censoring, ties, two-row table |
| Target session (`spec_trace.py:45-115`) | KV cache and its believed length | `prefill`, `verify`, `branch_verify`, `crop_to`, `paranoid_check` | prompt loop | the cache is cropped behind the library's back |
| Prompt loop (`trace_core.py:192-369`) | committed tokens, pending event, counts | `run_prompt`, `fill_alignment` | both sessions | deferred pairing over the EOS cut, free survival measurement |
| Draft session (`spec_trace.py:121-263`) | KV cache over the cycles of a prompt | `reset`, `draft`, `logits_at`, the uncached path, the divergence report | prompt loop, driver | stale cache, replay |
| Driver (`spec_trace.py:380-590`) | counts of the cross-check | the draft function, the write order, `--start`, `--self-test` | all of the study | contracts nobody checks at run time |
| Trace file (`spec_trace.py:468-584`, `analyze_traces.py:32-47`) | a JSONL file, a buffer | append, flush, resume, `load` | driver, reports | death between flushes, resume |
| Reports (`analyze_traces.py`) | none | `null_alignment`, `report_domain`, `gate_report` | read the trace file | the chance control must be a derangement; verdicts must agree with rates |

What makes each correct, in a sentence: a runtime's output is the target's
greedy continuation, cut at the first stop token or at the budget, and its
counters say what happened; a trace whose `append` returned is a line of its own
(given one collector per path and no failure, section 4);
the target session's cache is what the prompt loop thinks it is, so that survival
can be read off the continuation; an event is paired with the draft from its own
corrected prefix; the draft cache never holds another prompt's or a rejected
token; a finished prompt's lines survive a death; a report calls worthwhile what
raises the throughput and nothing else. The hazards, each with its line and the
properties that would catch it, are listed in `PROJECT.json`.

## 2. Modules

```
Verification ---- Autoregressive, Speculative, DirectReattach
  |                     |   (each implements GreedyDecoding)   |
  |                     \------ RuntimeGate            Decoder-/
  |
  +-- TargetSession --- PromptLoop --- Study     TraceRun   TraceCollector
  |   Alignment ------/     DraftSession-/
  |      \-- CommonRun
  |      \-- NullAlignment --- Report
  |
  +-- GreedyPathTheorems --- DirectReattach_proof --- RuntimeGate_proof
         |                      (of Decoder)
         |-- DraftSession_proof --- Study_proof
         \-- Report_proof (of Report, CommonRun)
      TraceCollector_proof, TraceRun_proof
```

**The runtimes.**

* **Verification** - the values the runtimes exchange. `Greedy(t, p)` is the set
  of tokens a target may pick under a prefix: a singleton is an exact target,
  more tokens are a near tie that each call may break differently. `VerifyGreedy`
  is the set of results a teacher-forced pass may return, `IsStopCut` is
  `truncate_at_stop`, `GreedyPath` is what "follows target-greedy decoding"
  means. `Proposals` are the drafts an adapter may return, malformed ones
  included.
* **Autoregressive, Speculative, DirectReattach** - one module per runtime, one
  action per call of an adapter or the observer; `pc` is the next call. The
  Python locals are the variables of the same names. A round of
  `generate_rejoin` is `Draft`, `Verify`, `Reverify` and `Commit`; every call may
  raise (`CallRaises`), and raising ends the generation without a result.
  `ordinary` is a history variable: what ordinary speculation would have
  committed from the same blocks.
* **GreedyDecoding** - the promise of a runtime: the output grows by non-empty
  greedy blocks, stops behind its first stop token, and is returned exactly when
  it is complete. `ImplementsPromise` of DirectReattach and
  `RuntimesImplementPromise` of RuntimeGate are its specification under
  refinement mappings.
* **RuntimeGate** - composes the three runtimes by INSTANCE on shared variables:
  they serve one request in turn, each from fresh locals, and
  `assert_exact_match` compares them. (`tests/test_runtime.py` serves its
  requests in the same way and compares with `assertEqual`.)
* **Decoder** - `RejoinDecoder` and `DecoderConfig` in front of `generate_rejoin`
  (`DecoderRequests` is what valid configurations make of a call), with an
  observer that keeps the `StepTrace` of every round, and
  `measure_direct_rejoinability` as the set of results it may return for a block.
* **TraceCollector** - threads that append traces to one file, each through a
  collector of its choice. A short line reaches the file in one write when it is
  closed, a line longer than the buffer in two; any file operation may raise, and
  the process may die and be started again on the same file.

**The study.**

* **Alignment, CommonRun** - the alignment functions by what they return, and
  `longest_common_run` as the table it fills, one action per cell. The operator
  `LongestCommonRun` that PromptLoop uses is what CommonRun shows of the table.
* **TargetSession** - the KV cache as the tokens whose states it holds and the
  length the session believes in. If the two differ the logits are garbage.
* **PromptLoop** - `run_prompt` and `fill_alignment`. A cycle is `Draft`,
  `Verify` (verify, pair, commit, cut, crop), `SkipCheck` or `ParanoidCheck`, and
  `Escrow` with its optional branch pass; `Finish` drops the pending event and
  fills in the alignment. The draft function is the set `Blocks`: any block that
  is as long as it may be or ends at an EOS, or nothing.
* **DraftSession** - the draft cache over cycles and prompts, with any commits in
  between. The tokens a draft, and a replay, fed before its first choice are kept
  as history.
* **Study** - composes the two: the driver's draft function, through the draft
  session or the uncached path, with the cross-check of `--check-draft-cache`
  between draft and verification, and `run_prompt` behind it. The draft session
  is an INSTANCE of DraftSession on Study's variables. `FollowsPromptLoop` says
  that both draft paths return only blocks the loop is written for (the rest of
  the loop is the same), `FollowsDraftSession` that what the loop commits extends
  what the session drafted from.
* **TraceRun** - the trace file over runs that die and are resumed. A line is in
  the buffer until it is flushed; a death leaves any part of the buffer behind,
  which covers both a buffer that filled up earlier and an interpreter that
  flushes on its way out. The operator resumes at the first prompt without a
  summary.
* **NullAlignment, Report** - the chance pairing index by index, and what one
  domain's report decides: the gains of the four attachments, the economics
  block, and the gate table. Rates are fractions, costs and probabilities are
  hundredths, and comparisons are of integer products.

**MC...** are the small instances and their bounds, **..._proof** and
**GreedyPathTheorems** the proofs (section 5). GreedyPathTheorems holds what
several of them need: lemmas about sequences and greedy paths, the alignment
functions, and sums.

Operators marked "Slip" are plausible bugs. None is used by a specification; each
shows that a property notices the bug when the definition below it is replaced
by it (`PROJECT.json`, "mutants").

## 3. Runs

| Run | Instance | What it shows |
|---|---|---|
| decoder | direct calls: all 128 exact targets that read the whole prefix, outputs of 3, blocks of 1 and 3; 32 position-and-last-token targets with ties, outputs of 4 in one block; negative, zero and small arguments on targets that tie. Through the facade: configurations on both sides of what is accepted, exact position-and-last-token targets, blocks of 3, outputs of 4 | TypeOK, Exact, ReuseIsExtraTokens, BlockFitsBudget, WorkAccounting, MaxStepsSuffices, TracesAccountForResult, MeasurementPredictsReuse, ImplementsPromise, Terminates |
| gate | all exact targets that read the last token and whether the output has begun, targets with ties, requests at the edges of what each runtime accepts | GateNeverFails, RuntimesImplementPromise |
| study | four kinds of jobs: any drafts with every measurement on; drafters through the cache, cross-checked; self-tests; models that tie, cached and not; no budget and empty drafts | the two invariants of trace_core.py, OutputIsGreedy, alignment, pairing, counts, the two contracts, self-checks, Terminates |
| eos_censors | the same | **violated**: a prompt that an EOS ends too soon censors its last events |
| draft_session | models with ties, two prompts of up to 4 tokens, blocks of 2 | the cache is a prefix of what is committed; the cached draft is an uncached one; no draft feeds a token twice, a replay feeds the last one |
| draft_replay | the same | **violated**: `logits_at` makes the call `draft` made |
| trace_run | 3 prompts, at most 2 events, at most 3 deaths | finished prompts survive, no line is damaged, nothing is skipped |
| trace_resume | 2 prompts, 1 death | **violated**: a resumed run's file holds each event once |
| collector | 2 threads, 2 collectors, 2 appends each, 2 failures or deaths | OneSpoiledPerFault (with one collector per path or short lines), EveryAppendEnds |
| collector_lines | the same with 1 failure or death | **violated**: each returned trace is a line |
| analysis | one event with any escrow and continuation of up to 4 tokens over 2; every sequence of 3 or 4 events of 5 kinds; old-schema events; every shuffle, every partner. Beside it the table of common runs, for all pairs of sequences of up to 4 tokens over 2 and 3 over 3 | WrongPairings, RungsNest, VerdictsMatchRates, OracleIsCeilingWhenCheap; RowsHoldRuns, ReturnsLongestRun |
| gate_oracle | 40 events, 20 won by one token and 20 by four, 800 tokens in 80 passes, the code's own threshold of 20 events | **violated**: no gate beats the oracle |

**Why the bounds are enough.** A round of the runtimes has four interesting
places for a cut (accepted prefix, correction, reattached suffix, none) and two
outcomes of the second pass; a block of three tokens has them all, a block of
four adds a suffix that is cut in its middle. A second and third round only start
from another prefix, which the targets that read the whole prefix distinguish. In
the study's runs the models read the parity of the context's length and of the
number of one token, so that one token left in a cache, or missing from it,
changes what they say. An escrow needs a block of at least two tokens, a censored
one three. Two threads and two collectors are what it takes for one line to be
written into another; two faults allow one in the line and one after it. The
bounds of DraftSession (`MaxLength`, `MaxPrompts`), TraceRun (`MaxEvents`,
`MaxCrashes`) and TraceCollector (`MaxCalls`, `MaxFaults`) are constants with
those names; the analysis run reports gates from 2 events on (`MinSelected`, 20
in the code) so that small domains fill the table; the other modules are bounded
by their requests and jobs. `CHECK_DEADLOCK FALSE` is set everywhere because
every one of these programs ends.

**Fairness.** The runtimes, `run_prompt` and the study are single-threaded loops,
and model calls return or raise: `WF_vars(Next)` says no more than that the
caller's thread keeps running. In TraceCollector each thread is scheduled while
it is in `append` (`WF_vars(Proceed(t))`), which excludes a file operation that
hangs and a lock that is never handed over; nothing makes a thread call `append`
and nothing makes an operation fail. The other modules state no liveness: nothing makes an
operator resume a dead run.

## 4. Findings

A run marked **violated** checks what a docstring, a help text or the report says,
and finds a behaviour of the code that does otherwise.

* `eos_censors`: `prefix_match` is documented to report censoring "when a prompt
  ends (EOS or max_new) fewer than `len(cand)` tokens after an event"
  (`trace_core.py:62-63`; the study's README, 194-196 and 359-361, says the same
  of short generations). An EOS does not censor. A draft ends at its own EOS, so
  an EOS can only be the last token of an escrow, and a continuation that ends at
  one before the escrow's end mismatches it there: the survival is known exactly.
  `CensoredOnlyAtOpenEnd` says what does censor: a prompt that stops without an
  EOS, for its budget or for a draft function with nothing to say, fewer than m
  tokens behind the event.
* `collector_lines`: `JsonlTraceCollector` promises "one durable, independently
  parseable trace per line" (`trace_collector.py:67`). An append that fails, or
  whose process dies, behind part of a line leaves no newline, and the next trace
  is joined to it, though its own append returned. And the lock is the
  collector's, not the path's: two collectors on one path join traces that are
  longer than the file object's buffer, without any failure. The instance holds
  both cases and TLC reports one of them; with one collector (`Collectors = {c1}`)
  it is the first, with no fault (`MaxFaults = 0`) the second. `OneSpoiledPerFault`
  is what remains: with one collector per path, or with lines that one write holds
  (`Guarded`), each fault spoils one returned trace at most, so none where nothing
  fails.
* `draft_replay`: the docstring of `logits_at` (`spec_trace.py:170`) says it
  "Replays exactly what `draft` does, so the result is the vector that actually
  chose the token". Behind a draft the cache covers all committed tokens, so the
  replay backs off one position and feeds one token, where the draft fed the
  tokens of the last cycle, or a whole prompt, in one chunk. The tokens seen are
  the same; the call is not, and the file itself holds that the split decides the
  last bits (lines 215-216), which is what the report on a near tie compares.
* `trace_resume`: the help of `--start` (389-390) says that traces "concatenate
  cleanly". Events of the interrupted prompt that reached the file stay there and
  are written again; `load` keeps both.
* `gate_oracle`: the report calls ORACLE "the ceiling for ANY gate"
  (`analyze_traces.py:149-150`), because it selects exactly the events that win.
  A row, however, charges each selected event a fraction of a pass. Where that
  costs more than one token, leaving out the events that win one token is better
  than selecting them. `OracleIsCeilingWhenCheap` states when the claim does hold.

Not divergences, but visible in the model:

* a line torn by a death is continued by the meta line of the resumed run, and
  `load` stops at the joined line, which is no JSON (`analyze_traces.py:39`). No
  event or summary is ever joined to it (`NothingIsSkipped`, `LinesAreKept`), so
  deleting the line loses nothing but a meta line;
* a prompt overshoots `--max-new` by up to gamma tokens (the study's README says
  gamma + 1);
* `generate_rejoin`, unlike `generate_speculative`, rejects a bad block size only
  when a round is due, so not at all for `max_new_tokens = 0`;
* the draft session's crop at the end of a draft changes no draft: what is left
  too long is cropped when the next draft begins. What it does decide is how many tokens
  the next draft feeds (`FeedsOnlyNewTokens`).

## 5. Proofs

**`generate_rejoin`**, for every vocabulary, every `Greedy` (deterministic or
not), every set of typed requests and outputs of any length:

* `DirectReattach_proof`: `TypeCorrect`, `Exactness` (the output is a greedy path
  of the target) and `BudgetFits` (the slice `[:remaining]` never cuts). `Exact`
  is not inductive: the loop passes `prefix` to the models and returns
  `generated`, and a round carries facts from call to call. `IInv` adds
  `PrefixIsContext` (the two agree), `BlockInRange` (a proposal fits the remaining
  budget), `InitialIsGenuine` and `MismatchBeforeReverify` (the first verification
  is one of this prefix and block, and there is a correction when the second is
  made), and `ResultIsJustified` (the block to commit is a greedy path, no longer
  than the proposal). A matched prefix of a candidate is a greedy path whatever
  follows it (`MatchedPrefixIsGreedy`); accepted prefix and correction are one
  (`OrdinaryCommitIsGreedy`); a greedy path continued under the longer prefix is
  one (`GreedyPathConcat`), which is what reattachment does; and what a cut
  leaves is one (`GreedyPathPrefix`).
* `ReuseCounted`, `Accounts` and `BudgetSuffices`, of the same module, from
  `AInv`. The argument compares two cuts of the same round: the reattached block
  repeats the ordinary one up to the correction, so either the stop token falls
  within both and nothing was reused, or the two cuts differ by exactly the
  tokens reattached and kept, which is what `ReusedInCommit` counts. A step limit
  that is reached means that every one of `max_steps` rounds has committed a
  token.
* `Refinement`, `Spec => ImplementsPromise`. A commit is an `Extend` (by `IInv`),
  a return a `Return`, every raise a `Raise`, and all other steps stutter.

**The facade and the measurement** (`DirectReattach_proof`). `FacadeKeepsLoop`:
an observed generation behind `RejoinDecoder` only takes steps of the loop, so it
keeps `IInv` and `AInv`, for any configuration. `MeasurementPredicts`: what
`measure_direct_rejoinability` says of a block is what the round finds and reuses.
`MInv` adds `RejoinIsGenuine`, that a result's second verification is one of the
repaired candidate, the correction at its head (`RepairedCandidate`). The
measurement instead puts the correction at the end of the prefix: moving it over
shortens the matched prefix by exactly one (`CorrectionMovesOver`), and a target
whose choices are unique has one answer to each (`UntiedVerifiesOnce`).
`TracesAccount`: the traces add up to the result. `TInv` keeps the sums term by
term, exact while the loop runs; the last round may be cut at a stop token, and
then loses tokens and reuse together (`ReuseOfCommit`). A trace's reuse is at
most its suffix because the second candidate is the correction and the suffix.

**The exactness gate** (`RuntimeGate_proof`). `RuntimesArePromised`: each of the
three runtimes takes only steps of `GreedyDecoding`. `GInv` says what the promise
has kept so far (`OutputIsPromised`: a greedy path within the budget, with no
token behind a stop token, complete when returned), what each runtime's own
variables hold while it runs (for the rejoin loop `IInv`, through the instance
`P` of `DirectReattach_proof`), and that the outputs collected are complete.
`GateIsGreen`: two greedy paths of a target whose choices are unique agree as far
as both reach (`PathsAgree`), and of two complete outputs neither goes on where
the other ends (`CompleteIsNotShorter`), so the three outputs are one, whatever
was drafted. The gate is thus green because of the promise and not because the
three loops resemble each other.

**`append`** (`TraceCollector_proof`), for any threads, faults and number of
appends: `FaultsSpoilOneEach`, `Spec => []OneSpoiledPerFault`, under the condition
`Guarded` that is part of the property. The count of spoiled traces is not
inductive: a torn line costs nothing until a later trace is joined to it. `IInv`
keeps the account one step ahead (`Paid`): the spoiled traces, and one more while
the line in progress, or the next, stands behind a torn one (`Torn`), are paid for
by faults. For that a thread that writes must hold its collector's lock
(`WritersHoldLock`) and nothing may come between the two writes of a long line
(`LongLinesGoOn`). A line of the file stays one, as a file only grows (`LinesStay`).

**The trace file** (`TraceRun_proof`), for any number of prompts, events and
deaths: `Survival`, `SummariesVouch`, `Completeness` and `Preservation`. A death
leaves any part of the buffer behind, so what the buffer holds has to be known
as well: `IInv` says what it can hold at each call (`BufferHolds`: nothing, a
meta line, or one prompt's events so far and behind them its summary), that a
summary in the file has all events of its prompt before it (`Covered`), and that
the prompts summarised are an initial segment of all of them
(`SummariesAreInOrder`), which makes the first prompt without a summary the
right one to resume at. The line a death tears is completed by the meta line of
the next run, so no event or summary is ever lost in it.

**The draft session** (`DraftSession_proof`), for any commits in between:
`CacheHoldsPrefix`, `NothingIsFedTwice` and `CacheIsTransparent`. `DInv` follows
the cache through the steps of a cycle: a prefix of what is committed at rest,
all of it behind a draft, so that a replay backs off by the last token
(`ReplayBacksOff`); a draft that starts there is one the model could have
made without a cache (`UncachedDraftsAreGreedy`).

**`run_prompt`** (`Study_proof`, first part), for every draft function, target
and instrumentation:

* `CacheHolds` and `OutputFollowsTarget`. Neither is inductive alone: what a
  verification reads is the target's choice only while the cache is right, and
  the crop leaves the right cache only because the committed tokens repeat the
  block up to their last. `LInv` says both. Branch passes and paranoid checks
  leave the session as it was, whatever they feed (`BranchLeavesNoTrace`).
* `CountersAccount`, `FreshCensoredAtStop`, `CensoredAtOpenEnd`, `HorizonIsEnough`
  and `SurvivalIsMeasuredFree`, from one invariant `EInv` about the events: where
  in the output an event's corrected prefix ends, that only the last event can
  still be unpaired, what its branch pass said of its escrow, and that a short
  fresh draft was accepted up to an EOS. The alignment functions return the least
  or the longest of something; that there is one is `LeastElement`, induction on
  the naturals for one set. `SurvivalIsMeasuredFree` is the study's central claim:
  the branch pass forces the escrow behind the corrected prefix, the continuation
  is a greedy path behind the same prefix, and where choices are unique a forced
  and a free path agree up to the first mismatch of either.

**The study** (`Study_proof`, second part), for every draft model, cached or not,
cross-checked or not. `StudyRunsPromptLoop` and `StudyRunsDraftSession`: the
blocks either draft path returns are blocks the loop may be given, and the loop
only ever appends to what was drafted from. With them, and with `CoreInv` (both invariants, and the two
sides' agreement on what is committed), the theorems of the parts hold of the
whole (`StudyKeepsCache`, `StudyFollowsTarget`, `StudyMeasures`,
`StudyMeasuresSurvival`), and what only the whole can say is proved:
`StudyChecksAreQuiet`, `SelfTestRejectsNothing` (a drafter that is its own target
matches every token, so no event is ever pending; the property, like the program's
self-test, sees events only) and `PairingIsFair` (what an
event records of the next cycle's block stays the drafter's answer behind the
event's prefix, over all later commits: `FreshOf`).

**`longest_common_run`** (`Report_proof`), for sequences of any length:
`TableIsRight` and `FindsLongestRun`. `CInv` says of both rows that a cell holds
the length of the run that ends in it, which two rows can say because a run only
continues the diagonal, and that `best` is the longest of the runs that end in a
filled cell and the first of these in the table's order (`BestIsFirst`). Every
common run ends in some cell, so behind the last row `best` is what
`LongestCommonRun` chooses, the operator `PromptLoop` is modelled with.

**The reports** (`Report_proof`), for any number of events and any shuffle:

* `ChanceControl`, the chance control is a permutation without a fixed point (the
  pass keeps all earlier indices deranged, also where a swap reaches back), and
  `BreakEven`, a mean gain above cost times throughput is exactly what raises the
  throughput.
* `AttachmentsNest`, from the alignments of a single event: a bridge or a trim
  can always be empty, and what either matches is a common run, which
  `longest_common_run` cannot miss (`AlignmentsNest`). The report sums this over
  the events, as it is and in the chance control.
* `VerdictsAreRight` and `OracleIsTheCeiling`. `RInv` says which fold each number
  of the report is. For the oracle, drop from any gate the events it pays for and
  wins nothing of, then add those it misses: each of them wins at least one
  token and costs one pass (`TotalOfMore`), which is an improvement when a pass
  costs no more than a token at the oracle's rate (`CheapIsWorthwhile`). Without
  that condition the claim is wrong (section 4).

Sums are folds over recursive functions of the community modules. That such a
function exists and does not depend on the order of the elements is proved here,
by induction on the subsets of a finite set (`SubsetInduction`, `FoldExists`,
`FoldRemoves`); what is then used of a sum is that an element adds its summand
(`TotalProperties`).

Assumptions on the constants: `RequestsAreTyped`, `NoneIsNoResult`,
`JobsAreTyped`, `NoEventIsNone`, `StudyAssumption`, `AnyDraftsIsNone`,
`SessionAssumption`, `CollectorAssumption`, `ShufflesAssumption`,
`TotalsAssumption`, `PairsAreSequences`, `NoneIsNoNumber`, `EventsAreRecorded`:
arguments have the annotated types, None is no result, no number and no event, a
prompt is not empty, a recorded event is as `run_prompt` and `fill_alignment`
leave it, one positive `--gamma` and one set of stop tokens
serve a run, no prompt and its output outgrow `MaxLength` (the bound of the draft
session's `committed`), a shuffle permutes. TLC evaluates all of them.

Two hypotheses are stated in the theorems that need them, because they speak of
every prefix and TLC cannot evaluate them: `TargetsPickTokens` (a target picks
tokens of the vocabulary; only the gate's theorems need it) and `UntiedIsUnique`
(a target in `Untied` has at most one choice under each prefix; needed by
`GateIsGreen`, `MeasurementPredicts`, `SurvivalIsMeasuredFree`, `StudyMeasuresSurvival`,
`StudyChecksAreQuiet`, `SelfTestRejectsNothing` and `PairingIsFair`, whose
properties are about such targets). The instances satisfy both: their targets are
functions of a view of the prefix into sets of tokens, and `MCUntied` are those
into singletons.

Only model-checked: liveness under fairness, that is `Terminates` of the
facade and of the study, and `EveryAppendEnds`, which the proof system
cannot express. Every other property of a passing run is a theorem.

## 6. Not modelled

Floating-point logits and probabilities: a target is its set of argmax choices.
The thresholds by which the divergence report calls a mismatch a near tie decide
only what is printed. An adapter that returns the verification of another
candidate: the runtimes do not check for one either, the protocol forbids it.
Of the reports: survival curves, histograms, quantiles, printing, and the cut of
the printed gate table to its best twelve rows. Of the driver: argument parsing,
dataset, tokenizer and model loading, chat templates, progress output. Event
extras and decoded text. The salvage ratio is one quotient; that its precondition
holds of every trace is part of `TracesAccountForResult`. The examples, the
notebook and the roadmap are demonstrations, a driver of the same scripts, and a
design document.

`MeasurementPredictsReuse`, `SurvivalIsFree`, `FreshIsTheDraft` and the quiet
self-checks are about models that do not tie: where a near tie may be broken
differently in each call, one measurement is one possible outcome and another
call's another.

## 7. What is left

Of the code, nothing that keeps state is left out; of the safety properties that
the runs check, none is left without a theorem.
