----------------------------- MODULE PromptLoop -----------------------------
(***************************************************************************)
(* run_prompt and fill_alignment (studies/phase0/trace_core.py, lines      *)
(* 192-369): greedy speculative decoding of one prompt on a cached target  *)
(* session, with one event per rejection that left an escrowed suffix.     *)
(* A cycle drafts, verifies and commits, may check the cache, and escrows. *)
(***************************************************************************)
EXTENDS TargetSession, Alignment, SequencesExt

CONSTANTS
  Jobs,      \* the arguments of run_prompt
  Untied,    \* the targets whose choice is unique under every prefix
  NoEvent    \* the None of "pending"

ASSUME JobsAreTyped ==
  \A j \in Jobs :
    /\ j.prompt \in Seq(Token) /\ j.prompt # <<>>
    /\ j.gamma \in Nat /\ j.max_new \in Int
    /\ j.realized_horizon \in Nat /\ j.max_bridge \in Nat

\* An event before fill_alignment.
EventRecords ==
  [step : Nat, committed_len : Nat, a : Nat, m : Nat, suffix : Seq(Token),
   L_survive_branch : Int, L_fresh : Int, L_fresh_censored : BOOLEAN]

ASSUME NoEventIsNone == NoEvent \notin EventRecords

VARIABLES
  job,          \* target, prompt, gamma, max_new, eos_ids, branch_verify, ...
  pc,           \* next call of the loop
  committed,    \* prompt and output
  session,      \* the target session
  block,        \* this cycle's draft
  acceptance,   \* a: how much of the block the target accepted
  pending,      \* the event whose fresh draft is still to come
  events,       \* completed events
  counters,     \* the counts of PromptResult
  done          \* an EOS was committed

vars == <<job, pc, committed, session, block, acceptance, pending, events, counters, done>>

prompt_len == Len(job.prompt)
generated  == Drop(committed, prompt_len)
lastToken  == Last(committed)

-----------------------------------------------------------------------------
\* A draft stops at gamma tokens or at its own EOS, whichever comes first; a
\* draft function may also have nothing to say.
Blocks ==
  {<<>>} \union
  {b \in UNION {[1..n -> Token] : n \in 1..job.gamma} :
     /\ \A i \in 1..(Len(b) - 1) : b[i] \notin job.eos_ids
     /\ Len(b) = job.gamma \/ b[Len(b)] \in job.eos_ids}

\* Slip: the target's own token is not added to what was accepted.
AddedAcceptedOnly(blk, a, rows) == SubSeq(blk, 1, a)

\* Slip: the accepted part of the block is sliced from its second token.
AddedFromSecond(blk, a, rows) == SubSeq(blk, 2, a) \o <<rows[a + 1]>>

\* The tokens a verified block adds: what was accepted and the correction, or
\* the bonus after a full acceptance; row a + 1 is either.
Added(blk, a, rows) == SubSeq(blk, 1, a) \o <<rows[a + 1]>>

\* Slip: the pairing is not capped at the escrow's length.
PairedUncapped(e, a, len) ==
  [e EXCEPT !.L_fresh = a, !.L_fresh_censored = (a = len /\ len < e.m)]

\* Slip: every short draft counts as censored, rejected or not.
PairedCensoredIfShort(e, a, len) ==
  [e EXCEPT !.L_fresh = IF a < e.m THEN a ELSE e.m, !.L_fresh_censored = (len < e.m)]

\* The next cycle's block is the fresh draft from the same corrected prefix.
Paired(e, a, len) ==
  [e EXCEPT !.L_fresh          = IF a < e.m THEN a ELSE e.m,
            !.L_fresh_censored = (a = len /\ len < e.m)]

\* Slip: the cache is cropped by the acceptance, EOS cut or not.
CropByAcceptance(s, tokens, a) == CropTo(s, Len(committed) + a)

\* Slip: a rejected block stays in the cache.
CropForgotten(s, tokens, a) == s

\* After the commit the cache is to hold all tokens but the last.
CropAfterCommit(s, tokens, a) == CropTo(s, Len(tokens) - 1)

\* A rejection leaves an escrow when something of the block follows it.
Escrows == ~done /\ acceptance < Len(block) /\ acceptance + 1 < Len(block)

escrow == Drop(block, acceptance + 1)

-----------------------------------------------------------------------------
Init ==
  /\ job \in Jobs
  /\ pc = "loop"
  /\ committed = job.prompt
  /\ session = Prefill(Front(job.prompt))
  /\ block = <<>> /\ acceptance = 0
  /\ pending = NoEvent /\ events = <<>>
  /\ counters = [cycles |-> 0, main_passes |-> 0, branch_passes |-> 0, dropped |-> 0,
                 checks |-> 0, mismatches |-> 0, accepted |-> 0]
  /\ done = FALSE

More == ~done /\ Len(committed) - prompt_len < job.max_new

\* draft_fn answers with one of these drafts; with nothing to say it ends the loop.
DraftOf(drafts) ==
  /\ pc = "loop" /\ More
  /\ block' \in drafts
  /\ pc' = IF block' = <<>> THEN "finish" ELSE "verify"
  /\ UNCHANGED <<job, committed, session, acceptance, pending, events, counters, done>>

Draft == DraftOf(Blocks)

LoopEnds ==
  /\ pc = "loop" /\ ~More
  /\ pc' = "finish"
  /\ UNCHANGED <<job, committed, session, block, acceptance, pending, events, counters, done>>

Verify ==
  /\ pc = "verify"
  /\ \E rows \in Rows(job.target, session, <<lastToken>> \o block), a \in 0..Len(block) :
       /\ IsCommonPrefixLength(block, Front(rows), a)
       /\ acceptance' = a
       /\ counters' = [counters EXCEPT !.cycles = @ + 1, !.main_passes = @ + 1,
                                       !.accepted = @ + a]
       /\ \E k \in 1..(a + 1) :
            /\ IsStopCut(Added(block, a, rows), job.eos_ids, k)
            /\ committed' = committed \o Take(Added(block, a, rows), k)
            /\ done' = (Added(block, a, rows)[k] \in job.eos_ids)
            /\ session' = CropAfterCommit(Forward(session, <<lastToken>> \o block),
                                          committed', a)
       /\ events' = IF pending = NoEvent THEN events
                    ELSE Append(events, Paired(pending, a, Len(block)))
       /\ pending' = NoEvent
  /\ pc' = "check"
  /\ UNCHANGED <<job, block>>

CheckDue == job.paranoid_every > 0 /\ counters.cycles % job.paranoid_every = 0

SkipCheck ==
  /\ pc = "check" /\ ~CheckDue
  /\ pc' = "escrow"
  /\ UNCHANGED <<job, committed, session, block, acceptance, pending, events, counters, done>>

\* paranoid_check: the next token without the cache, and again with it.
ParanoidCheck ==
  /\ pc = "check" /\ CheckDue
  /\ \E g_full \in Greedy(job.target, committed) :
       \E g_cached \in Row(job.target, session, <<lastToken>>) :
         /\ counters' = [counters EXCEPT !.checks = @ + 1,
                                         !.mismatches = IF g_full = g_cached THEN @ ELSE @ + 1]
         /\ session' = BranchVerified(session, lastToken, <<g_full>>)
  /\ pc' = "escrow"
  /\ UNCHANGED <<job, committed, block, acceptance, pending, events, done>>

\* A new event is pending; a branch pass measures it at once.
Escrow ==
  /\ pc = "escrow"
  /\ IF ~Escrows
     THEN UNCHANGED <<session, pending, counters>>
     ELSE \E rows \in IF job.branch_verify
                      THEN Rows(job.target, session, <<lastToken>> \o escrow)
                      ELSE {<<>>} :
            /\ pending' = [step |-> counters.cycles, committed_len |-> Len(committed),
                           a |-> acceptance, m |-> Len(escrow), suffix |-> escrow,
                           L_survive_branch |->
                             IF job.branch_verify THEN FirstMismatch(escrow, Front(rows))
                                                  ELSE -1,
                           L_fresh |-> -1, L_fresh_censored |-> FALSE]
            /\ session' = IF job.branch_verify
                          THEN BranchVerified(session, lastToken, escrow) ELSE session
            /\ counters' = IF job.branch_verify
                           THEN [counters EXCEPT !.branch_passes = @ + 1] ELSE counters
  /\ block' = <<>> /\ acceptance' = 0
  /\ pc' = "loop"
  /\ UNCHANGED <<job, committed, events, done>>

\* Slip: the continuation is read from the correction on.
RealizedFromCorrection(e) ==
  Slice(committed, e.committed_len - 1, e.committed_len + e.m + job.realized_horizon)

\* Slip: the record of the continuation is not as long as the escrow needs.
RealizedHorizonOnly(e) ==
  Slice(committed, e.committed_len, e.committed_len + job.realized_horizon)

Realized(e) ==
  Slice(committed, e.committed_len, e.committed_len + e.m + job.realized_horizon)

\* fill_alignment of one event.
Aligned(e) ==
  LET realized == Realized(e)
      bridge   == BestBridge(e.suffix, realized, job.max_bridge)
      run      == LongestCommonRun(e.suffix, realized)
  IN  [step |-> e.step, committed_len |-> e.committed_len, a |-> e.a, m |-> e.m,
       suffix |-> e.suffix, L_survive_branch |-> e.L_survive_branch,
       L_fresh |-> e.L_fresh, L_fresh_censored |-> e.L_fresh_censored,
       L_survive          |-> FirstMismatch(e.suffix, realized),
       L_survive_censored |-> Censored(e.suffix, realized),
       L_bridge |-> bridge[1], bridge_k |-> bridge[2],
       lcs_len |-> run[1], lcs_i |-> run[2], lcs_j |-> run[3]]

\* Slip: the event left pending is not counted.
FinishUncounted ==
  /\ pc = "finish"
  /\ events' = [n \in 1..Len(events) |-> Aligned(events[n])]
  /\ pc' = "done"
  /\ UNCHANGED <<job, committed, session, block, acceptance, pending, counters, done>>

\* The event whose pairing cycle never happened is counted and dropped.
Finish ==
  /\ pc = "finish"
  /\ counters' = [counters EXCEPT !.dropped = IF pending = NoEvent THEN 0 ELSE 1]
  /\ events' = [n \in 1..Len(events) |-> Aligned(events[n])]
  /\ pc' = "done"
  /\ UNCHANGED <<job, committed, session, block, acceptance, pending, done>>

Next ==
  \/ Draft \/ LoopEnds
  \/ Verify
  \/ SkipCheck \/ ParanoidCheck
  \/ Escrow
  \/ Finish

\* run_prompt runs in one thread and no model call blocks for ever.
Spec == Init /\ [][Next]_vars /\ WF_vars(Next)

-----------------------------------------------------------------------------
\* The instrumentation and the cropped cache cannot bias the output: it is the
\* target's own greedy continuation (run_prompt's docstring).
OutputIsGreedy == GreedyPath(job.target, job.prompt, generated)

\* Invariant 1 of trace_core.py: between target calls the cache holds the
\* states of committed[:-1] and the session knows it.
CacheInvariant ==
  pc # "done" => session = [cache |-> Front(committed), cache_len |-> Len(committed) - 1]

\* Invariant 2: what a branch pass measures is read off the continuation the
\* loop produces anyway, on a target that is deterministic; a censored reading is
\* a lower bound.
SurvivalIsFree ==
  pc = "done" /\ job.branch_verify /\ job.target \in Untied =>
    \A n \in 1..Len(events) :
       LET e == events[n]
       IN  IF e.L_survive_censored THEN e.L_survive <= e.L_survive_branch
                                   ELSE e.L_survive = e.L_survive_branch

\* Survival is censored where the prompt stopped without an EOS, for its budget
\* or for a draft function with nothing to say, less than an escrow's length
\* behind the event: never by an EOS, and never because the record of the
\* continuation is too short (trace_core.py:66-71, 357-369).
CensoredOnlyAtOpenEnd ==
  pc = "done" =>
    \A n \in 1..Len(events) :
      events[n].L_survive_censored =>
        /\ lastToken \notin job.eos_ids
        /\ Len(committed) - events[n].committed_len < events[n].m

\* "This happens when a prompt ends (EOS or max_new) fewer than `len(cand)` tokens
\* after an event" (trace_core.py:62-63): an escrow that agrees with all the target
\* said up to the EOS that ended the prompt too soon to tell is censored.
EosCensors ==
  pc = "done" /\ done =>
    \A n \in 1..Len(events) :
      LET rest == Len(committed) - events[n].committed_len
      IN  rest < events[n].m /\ events[n].L_survive >= rest - 1 =>
            events[n].L_survive_censored

\* "The fresh draft can only be censored if it EOS'd short of m": then it was
\* accepted, so the prompt ended with it (trace_core.py:292).
FreshCensoredOnlyAtStop ==
  \A n \in 1..Len(events) :
    events[n].L_fresh_censored => n = Len(events) /\ lastToken \in job.eos_ids

\* With a horizon past max_bridge the record is long enough: the bridge search
\* finds what it would find on the whole continuation (trace_core.py:36-38).
HorizonSuffices ==
  pc = "done" /\ job.realized_horizon > job.max_bridge =>
    \A n \in 1..Len(events) :
      LET e == events[n]
      IN  <<e.L_bridge, e.bridge_k>>
            = BestBridge(e.suffix, Drop(committed, e.committed_len), job.max_bridge)

\* The counters of PromptResult account for the result.  Each cycle adds the
\* tokens accepted in it and one more, and an EOS can cost the last cycle its
\* bonus and nothing else; each branch pass belongs to one event, recorded or
\* dropped.
CountersAccountForResult ==
  /\ \/ Len(generated) = counters.accepted + counters.cycles
     \/ done /\ Len(generated) = counters.accepted + counters.cycles - 1
  /\ pc = "done" /\ job.branch_verify =>
       counters.branch_passes = Len(events) + counters.dropped

\* Each prompt ends, whatever the draft proposes.
Terminates == <>(pc = "done")
=============================================================================
