---------------------------- MODULE DraftSession ----------------------------
(***************************************************************************)
(* HFDraftSession (studies/phase0/spec_trace.py, lines 121-202): greedy    *)
(* drafting behind a KV cache that persists over the cycles of a prompt,   *)
(* driven as main drives it (497-534): a reset per prompt, a draft per     *)
(* cycle, and for --check-draft-cache a replay of a draft that differs     *)
(* from the uncached one.                                                  *)
(*                                                                         *)
(* One action per public call; the model calls inside are Step.  A session *)
(* is a record: cache is the tokens whose states it holds, cache_len the   *)
(* length it believes it has.                                              *)
(***************************************************************************)
EXTENDS Verification, SequencesExt

CONSTANTS
  Models,      \* draft models
  Prompts,     \* non-empty prompts
  gamma,       \* draft block length
  eos,         \* the stop tokens
  MaxLength,   \* bound: a prompt ends before committed is longer than this
  MaxPrompts   \* bound: prompts of one run of main

ASSUME SessionAssumption ==
  /\ gamma \in Nat \ {0} /\ MaxLength \in Nat /\ MaxPrompts \in Nat
  /\ \A p \in Prompts : p \in Seq(Token) /\ p # <<>>

VARIABLES
  model,       \* the draft model
  prompts,     \* prompts begun
  committed,   \* the prompt and the output so far
  session,     \* the draft session
  block,       \* the last draft, <<>> before a prompt's first
  \* History of the run, not kept by the code:
  primed,      \* the tokens the last draft fed to get its first logits
  replayed     \* the same of the last draft's replay, <<>> without one

vars == <<model, prompts, committed, session, block, primed, replayed>>

NewSession == [cache |-> <<>>, cache_len |-> 0]

\* Slip: the cache of the last prompt stays.
Kept(s) == s

\* reset: a new cache.
Reset(s) == NewSession

\* _step: the fed tokens are appended to the cache.
Step(s, ids) == [cache |-> s.cache \o ids, cache_len |-> s.cache_len + Len(ids)]

\* The logits' argmax after a step.  With positions that do not match the cache
\* they are garbage.
Picks(s) == IF s.cache_len = Len(s.cache) THEN Greedy(model, s.cache) ELSE Token

\* _crop
Crop(s, n) ==
  IF n < s.cache_len THEN [cache |-> Take(s.cache, n), cache_len |-> n] ELSE s

\* Slip: the last token alone is fed, whatever else is not in the cache.
LastTokenOnly(s, tokens) == <<Crop(s, Len(tokens) - 1), <<tokens[Len(tokens)]>>>>

\* <<session, new>>: the session cropped to a prefix of the committed tokens,
\* and the rest, which is never empty: the last token is fed again if need be.
Primed(s, tokens) ==
  LET kept == IF s.cache_len < Len(tokens) THEN s.cache_len ELSE Len(tokens) - 1
  IN  <<Crop(s, kept), SubSeq(tokens, kept + 1, Len(tokens))>>

\* Slip: what was drafted stays in the cache.
Uncropped(s, n) == s

\* The crop at the end of a draft and of a replay.
CropToCommitted(s, n) == Crop(s, n)

\* Slip: the end of the text does not end the draft.
RunsToGamma(b) == Len(b) = gamma

\* A draft is finished by its own stop token or at gamma tokens.
Finished(b) == b[Len(b)] \in eos \/ Len(b) = gamma

\* The blocks the draft loop can produce from the session after priming.
DraftsFrom(s) ==
  {b \in UNION {[1..n -> Token] : n \in 1..gamma} :
     /\ Finished(b)
     /\ \A n \in 1..(Len(b) - 1) : ~Finished(SubSeq(b, 1, n))
     /\ \A n \in 1..Len(b) : b[n] \in Picks(Step(s, SubSeq(b, 1, n - 1)))}

\* draft: what it may return, the session it leaves, and the tokens it fed to
\* get its first logits.  The last drafted token is not fed.
Drafted(s, tokens) ==
  LET cropped == Primed(s, tokens)[1]
      new     == Primed(s, tokens)[2]
  IN  {[block |-> b, primed |-> new,
        session |-> CropToCommitted(Step(Step(cropped, new), Front(b)), Len(tokens))] :
          b \in DraftsFrom(Step(cropped, new))}

\* logits_at: the session it leaves and the tokens it fed first.
Replayed(s, tokens, agreed) ==
  LET cropped == Primed(s, tokens)[1]
      new     == Primed(s, tokens)[2]
  IN  [fed |-> new,
       session |-> CropToCommitted(Step(Step(cropped, new), agreed), Len(tokens))]

\* make_uncached_draft_fn: the same loop behind a full prefill.
UncachedDrafts(tokens) == DraftsFrom([cache |-> tokens, cache_len |-> Len(tokens)])

-----------------------------------------------------------------------------
Init ==
  /\ model \in Models
  /\ prompts = 1
  /\ committed \in Prompts
  /\ session = NewSession
  /\ block = <<>> /\ primed = <<>> /\ replayed = <<>>

Draft ==
  /\ block = <<>>
  /\ \E d \in Drafted(session, committed) :
       block' = d.block /\ session' = d.session /\ primed' = d.primed
  /\ replayed' = <<>>
  /\ UNCHANGED <<model, prompts, committed>>

\* logits_at is called on a draft that agrees with the uncached one on its first
\* n tokens only: the two paths broke a near tie differently.
Replay ==
  /\ block # <<>> /\ replayed = <<>>
  /\ \E ref \in UncachedDrafts(committed), n \in 0..(Len(block) - 1) :
       /\ ref # block /\ IsCommonPrefixLength(block, ref, n)
       /\ LET r == Replayed(session, committed, SubSeq(block, 1, n))
          IN  session' = r.session /\ replayed' = r.fed
  /\ UNCHANGED <<model, prompts, committed, block, primed>>

\* run_prompt commits the accepted part of the block and one token of the
\* target, less what an EOS cuts off.
Commit ==
  /\ block # <<>>
  /\ \E n \in 0..Len(block), token \in Token :
        committed' = committed \o Append(SubSeq(block, 1, n), token)
  /\ Len(committed') <= MaxLength
  /\ block' = <<>>
  /\ UNCHANGED <<model, prompts, session, primed, replayed>>

\* The next prompt of the run begins; the last one may have ended anywhere.
NextPrompt ==
  /\ prompts < MaxPrompts
  /\ prompts' = prompts + 1
  /\ committed' \in Prompts
  /\ session' = Reset(session)
  /\ block' = <<>> /\ primed' = <<>> /\ replayed' = <<>>
  /\ UNCHANGED model

Next == Draft \/ Replay \/ Commit \/ NextPrompt

Spec == Init /\ [][Next]_vars

-----------------------------------------------------------------------------
\* "committed is append-only within a prompt, so the cache never needs to be
\* rewound past the committed prefix" (spec_trace.py:124-126): at rest it holds
\* the states of a prefix of what is committed, over the cycles of a prompt and
\* from prompt to prompt.
CacheIsCommittedPrefix ==
  /\ session.cache_len = Len(session.cache)
  /\ IsPrefix(session.cache, committed)

\* Behind a draft the cache covers all that is committed, so the next cycle
\* feeds the new tokens and never a token twice; a replay, which finds nothing
\* new, feeds the last token again and no other; and no call of the model is
\* given an empty input (spec_trace.py:174-178, 189-192).
FeedsOnlyNewTokens ==
  block # <<>> =>
    /\ session.cache = committed /\ primed # <<>>
    /\ replayed \in {<<>>, <<committed[Len(committed)]>>}

\* What --check-draft-cache asserts: on a model that does not tie, the cached
\* draft is the uncached one, a greedy continuation of at most gamma tokens
\* that only a stop token ends early.
DraftMatchesUncached ==
  block # <<>> =>
    /\ GreedyPath(model, committed, block)
    /\ Len(block) <= gamma
    /\ \A n \in 1..Len(block) : block[n] \in eos \/ n = gamma <=> n = Len(block)

\* logits_at "Replays exactly what draft does, so the result is the vector that
\* actually chose the token" (spec_trace.py:170): it feeds the tokens in the
\* chunk the draft fed them in.
ReplaysTheDraft == replayed # <<>> => replayed = primed
=============================================================================
