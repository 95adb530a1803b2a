------------------------------- MODULE MCStudy -------------------------------
(***************************************************************************)
(* Small instances of Study.  The models look at the parity of a context's *)
(* length and of the number of its b's, so that a token left in a cache or *)
(* missing from it changes the prediction.                                 *)
(***************************************************************************)
EXTENDS Study, FiniteSets

CONSTANTS a, b, stop   \* tokens; stop is the EOS

MCToken == {a, b, stop}
MCEos == {stop}

View(p) == <<Len(p) % 2, Cardinality({i \in 1..Len(p) : p[i] = b}) % 2>>
Views == (0..1) \X (0..1)
MCGreedy(t, p) == IF t = AnyDrafts THEN MCToken ELSE t[View(p)]

\* Models that choose one token, by which the parity of the length or of the b's.
MCUntied == [Views -> {{x} : x \in MCToken}]

Job(t, prompt, max_new, branch, every, horizon) ==
  [target |-> t, prompt |-> prompt, gamma |-> 3, max_new |-> max_new,
   eos_ids |-> MCEos, branch_verify |-> branch, paranoid_every |-> every,
   realized_horizon |-> horizon, max_bridge |-> 1,
   drafter |-> AnyDrafts, draft_cache |-> FALSE, check_draft_cache |-> 0]

\* A draft function nothing is known of, measured by every check there is.
AnyJobs ==
  {Job(t, <<a>>, 3, TRUE, 2, 2) :
     t \in {t \in MCUntied : t[<<1, 0>>] = {a} /\ t[<<0, 0>>] = {b} /\ t[<<0, 1>>] # {b}}}

\* The study: some drafters for each target, with the draft cache and its check.
Drafters ==
  {d \in MCUntied : d[<<0, 0>>] = {a} /\ d[<<1, 1>>] # {a}}
DrivenJobs ==
  {[Job(t, <<a, b>>, 5, TRUE, 0, 2) EXCEPT !.drafter = d, !.draft_cache = TRUE,
                                            !.check_draft_cache = 2] :
     t \in {t \in MCUntied : t[<<0, 1>>] = {b} /\ t[<<1, 1>>] # {stop}}, d \in Drafters}
SelfTests ==
  {[Job(t, <<a, b>>, 5, FALSE, 2, 2) EXCEPT !.drafter = t, !.draft_cache = TRUE] :
     t \in MCUntied}

\* Models that may tie, with the cache and without it.
TieModels == [Views -> {{a}, {a, b}, {b, stop}}]
TieJobs ==
  {[Job(t, <<b>>, 2, FALSE, 1, 0) EXCEPT !.drafter = d, !.draft_cache = cached,
                                         !.check_draft_cache = 1] :
     t \in {t \in TieModels : t[<<0, 0>>] = {b, stop} /\ t[<<0, 1>>] = {a, b}},
     d \in {d \in TieModels : d[<<0, 0>>] = {a} /\ d[<<1, 0>>] = {a, b}
                             /\ d[<<0, 1>>] # {a} /\ d[<<1, 1>>] = {b, stop}},
     cached \in BOOLEAN}

\* No budget, and drafts that may be empty.
EdgeJobs ==
  {Job(t, <<b>>, max_new, FALSE, 1, 0) :
     t \in {t \in TieModels : t[<<1, 1>>] = {b, stop}}, max_new \in {0, 1}}

MCJobs == AnyJobs \union DrivenJobs \union SelfTests \union TieJobs \union EdgeJobs
=============================================================================
