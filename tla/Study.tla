-------------------------------- MODULE Study --------------------------------
(***************************************************************************)
(* One prompt of the Phase 0 study (main, studies/phase0/spec_trace.py,    *)
(* lines 497-543): the prompt loop driven by a draft model, through the    *)
(* draft session or through the uncached path, with the cross-check of the *)
(* one against the other that --check-draft-cache asks for.  PromptLoop    *)
(* says what run_prompt does with a draft function, DraftSession what the  *)
(* draft session answers; here each sees only what the other shows it.     *)
(*                                                                         *)
(* A job has three fields more than run_prompt's arguments: drafter, the   *)
(* draft model, or AnyDrafts for a draft function nothing is known of;     *)
(* draft_cache, the opposite of --no-draft-cache; and check_draft_cache,   *)
(* the number of cycles to check.  Whether a mismatch counts as a near tie *)
(* is left out: no decision depends on it.                                 *)
(***************************************************************************)
EXTENDS PromptLoop

CONSTANTS
  gamma, eos,   \* --gamma and the stop tokens, for a job with a draft model
  MaxLength,    \* bound: what such a job commits is no longer than this
  AnyDrafts     \* no draft model

ASSUME StudyAssumption ==
  /\ gamma \in Nat \ {0} /\ MaxLength \in Nat
  /\ \A j \in Jobs : j.drafter # AnyDrafts =>
       /\ j.gamma = gamma /\ j.eos_ids = eos
       /\ Len(j.prompt) + j.max_new + gamma <= MaxLength

ASSUME AnyDraftsIsNone == AnyDrafts \notin Untied

VARIABLES
  draft_session,    \* the draft session
  primed, replayed, \* what its last draft and replay fed first
  cross             \* draft_checks and draft_bad

draftVars == <<draft_session, primed, replayed, cross>>
studyVars == <<vars, draftVars>>

Drafting == job.drafter # AnyDrafts
Driven   == Drafting /\ job.draft_cache

JobDrafters == {j.drafter : j \in Jobs}
JobPrompts  == {j.prompt : j \in Jobs}

\* The draft session lives while a draft model is driven through it.
D == INSTANCE DraftSession WITH
  Models <- JobDrafters, Prompts <- JobPrompts,
  MaxLength <- MaxLength, MaxPrompts <- 1,
  model <- job.drafter, prompts <- 1,
  committed <- IF Driven THEN committed ELSE job.prompt,
  session <- draft_session,
  block <- IF Driven /\ pc = "verify" THEN block ELSE <<>>

StudyInit ==
  /\ Init
  /\ draft_session = D!NewSession
  /\ primed = <<>> /\ replayed = <<>>
  /\ cross = [checks |-> 0, bad |-> 0]

\* run_prompt's own promise: any draft function will do.
AnyDraft == ~Drafting /\ Draft /\ UNCHANGED draftVars

UncachedDraft ==
  /\ Drafting /\ ~job.draft_cache
  /\ DraftOf(D!UncachedDrafts(committed))
  /\ UNCHANGED draftVars

CachedDraft ==
  /\ Driven /\ pc = "loop"
  /\ \E d \in D!Drafted(draft_session, committed) :
       /\ DraftOf({d.block})
       /\ draft_session' = d.session /\ primed' = d.primed
  /\ replayed' = <<>>
  /\ UNCHANGED cross

CrossCheckDue ==
  /\ Driven /\ pc = "verify"
  /\ cross.checks = counters.cycles /\ counters.cycles < job.check_draft_cache

\* The draft is made again without the cache.  Where the two differ, the session
\* replays its own; the cached draft is used whatever comes of it.
CrossCheck ==
  /\ CrossCheckDue
  /\ \E ref \in D!UncachedDrafts(committed) :
       IF ref = block
       THEN /\ cross' = [cross EXCEPT !.checks = @ + 1]
            /\ UNCHANGED <<draft_session, primed, replayed>>
       ELSE LET agreed == SubSeq(block, 1, FirstMismatch(block, ref))
                replay == D!Replayed(draft_session, committed, agreed)
            IN  /\ cross' = [checks |-> cross.checks + 1, bad |-> cross.bad + 1]
                /\ draft_session' = replay.session /\ replayed' = replay.fed
                /\ UNCHANGED primed
  /\ UNCHANGED vars

StudyVerify == ~CrossCheckDue /\ Verify /\ UNCHANGED draftVars

RestOfCycle ==
  /\ LoopEnds \/ SkipCheck \/ ParanoidCheck \/ Escrow \/ Finish
  /\ UNCHANGED draftVars

StudyNext ==
  \/ AnyDraft \/ UncachedDraft \/ CachedDraft
  \/ CrossCheck
  \/ StudyVerify
  \/ RestOfCycle

\* One thread runs the study and no model call blocks for ever.
StudySpec == StudyInit /\ [][StudyNext]_studyVars /\ WF_studyVars(StudyNext)

-----------------------------------------------------------------------------
\* Both draft paths return only blocks run_prompt is written for: at most gamma
\* tokens, fewer only behind the first stop token.  All else the study does is the
\* loop's own, so it is a run of the prompt loop.
FollowsPromptLoop == Init /\ [][Next]_vars

\* The prompt loop keeps the contract the draft session is written against
\* ("committed is append-only within a prompt", spec_trace.py:124): what is
\* committed only grows, by part of the last draft and one token.
FollowsDraftSession == D!Spec

\* The paired comparison is fair ("this cycle's block IS the fresh draft from the
\* same corrected prefix", trace_core.py:288): a drafter that does not tie would
\* have drafted, without a cache and at the event itself, what was measured a
\* cycle later; both scores have the ceiling m.
FreshIsTheDraft ==
  pc = "done" /\ Drafting /\ job.drafter \in Untied =>
    \A n \in 1..Len(events) :
      LET e == events[n]
      IN  \A draft \in D!UncachedDrafts(Take(committed, e.committed_len)) :
            e.L_fresh = Min({e.m, FirstMismatch(draft, Drop(committed, e.committed_len))})

\* --self-test: a model that drafts for itself never has an event, pending or
\* recorded, unless it ties (spec_trace.py:411).  As in the program's own test, a
\* rejection of a block's last token leaves no escrow and would not be seen.
SelfTestNeverRejects ==
  job.drafter = job.target /\ job.target \in Untied =>
    pending = NoEvent /\ events = <<>>

\* The study's self-checks raise no false alarm: on models that do not tie, the
\* cached prediction is the cache-free one, for the target (--paranoid) and for
\* the draft (--check-draft-cache), and checking changes neither.
ChecksAreQuiet ==
  /\ job.target \in Untied => counters.mismatches = 0
  /\ Drafting /\ job.drafter \in Untied => cross.bad = 0
=============================================================================
