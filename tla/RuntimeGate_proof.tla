-------------------------- MODULE RuntimeGate_proof --------------------------
(***************************************************************************)
(* Each of the three runtimes keeps the promise of GreedyDecoding, for     *)
(* every vocabulary, request and draft, and the exactness gate is never    *)
(* red on a target that does not tie: a complete output of the promise is  *)
(* unique on such a target, so the three outputs are one.                  *)
(***************************************************************************)
EXTENDS RuntimeGate, GreedyPathTheorems

(***************************************************************************)
(* generate_rejoin with what is proved of it: P is the instance Rejoin of  *)
(* RuntimeGate, of the module with the proofs.  The facade of that module, *)
(* its calls and its traces, plays no part in the gate.                    *)
(***************************************************************************)
P == INSTANCE DirectReattach_proof WITH Configs <- {}, Calls <- {}, traces <- <<>>

(***************************************************************************)
(* Hypotheses on the targets.  They speak of every prefix, so they are     *)
(* hypotheses of the theorems and not assumptions for TLC to evaluate.     *)
(***************************************************************************)
TargetsPickTokens ==
  \A r \in Requests : \A q \in Seq(Token) : Greedy(r.target, q) \subseteq Token

UntiedIsUnique ==
  \A t \in Untied : \A q \in Seq(Token) : \A x, y \in Greedy(t, q) : x = y

(***************************************************************************)
(* What the promise says of an output: it is a greedy path within the      *)
(* budget with no token behind a stop token, and, when it was returned, it *)
(* lacks nothing.                                                          *)
(***************************************************************************)
EndsInStop(o) == Len(o) > 0 /\ o[Len(o)] \in req.stop_token_ids

Promised(o) ==
  /\ o \in Seq(Token)
  /\ GreedyPath(req.target, req.prefix, o)
  /\ \A i \in 1..(Len(o) - 1) : o[i] \notin req.stop_token_ids
  /\ o = <<>> \/ Len(o) <= req.max_new_tokens

Complete(o) == Promised(o) /\ (EndsInStop(o) \/ Len(o) >= req.max_new_tokens)

OutputIsPromised ==
  /\ Promised(generated)
  /\ Status = "running" => ~EndsInStop(generated)
  /\ Status = "returned" => Complete(generated)

(***************************************************************************)
(* What each runtime's own variables hold while it runs.                   *)
(***************************************************************************)
TargetGreedyInv == pc \in {"start", "loop", "returned", "raised"}

SpeculativeInv ==
  /\ pc \in {"start", "loop", "verify", "returned", "raised"}
  /\ proposed \in Seq(Token)
  /\ pc = "verify" => Len(proposed) \in 1..(req.max_new_tokens - Len(generated))

\* The runtimes that have returned.
Served ==
  CASE running = "target_greedy" -> {}
    [] running = "speculative"   -> {"target_greedy"}
    [] running = "rejoin"        -> {"target_greedy", "speculative"}
    [] OTHER                     -> Runtimes

GInv ==
  /\ req \in Requests
  /\ running \in Runtimes \union {"compare", "match", "mismatch"}
  /\ OutputIsPromised
  /\ prefix = req.prefix \o generated
  /\ running = "target_greedy" => TargetGreedyInv
  /\ running = "speculative" => SpeculativeInv
  /\ running = "rejoin" => P!IInv
  /\ DOMAIN outputs = Runtimes /\ \A r \in Served : Complete(outputs[r])

-----------------------------------------------------------------------------
LEMMA RejoinIsAssumed == P!RequestsAreTyped /\ P!NoneIsNoResult /\ P!NoneIsNoNumber
BY RequestsAreTyped, NoneIsNoResult, NoneIsNoNumber
   DEF P!NoneIsNoNumber, Rejoin!StepResults, P!StepResults, P!Verifications, Verifications,
       Rejoin!Verifications

\* The operations of the instances are those of Verification.
LEMMA SameTeacherForcing ==
  /\ \A t, p, c : Rejoin!TeacherForced(t, p, c) = TeacherForced(t, p, c)
  /\ \A t, p, c : P!TeacherForced(t, p, c) = TeacherForced(t, p, c)
  /\ \A t, p, c : Ordinary!TeacherForced(t, p, c) = TeacherForced(t, p, c)
BY DEF Rejoin!TeacherForced, P!TeacherForced, Ordinary!TeacherForced, TeacherForced

LEMMA SameVerification ==
  /\ \A t, p, c : Rejoin!VerifyGreedy(t, p, c) = VerifyGreedy(t, p, c)
  /\ \A t, p, c : P!VerifyGreedy(t, p, c) = VerifyGreedy(t, p, c)
  /\ \A t, p, c : Ordinary!VerifyGreedy(t, p, c) = VerifyGreedy(t, p, c)
BY SameTeacherForcing
   DEF Rejoin!VerifyGreedy, P!VerifyGreedy, Ordinary!VerifyGreedy, VerifyGreedy,
       Rejoin!IsCommonPrefixLength, P!IsCommonPrefixLength, Ordinary!IsCommonPrefixLength,
       IsCommonPrefixLength

LEMMA SameCommits ==
  /\ \A v : Ordinary!OrdinaryCommit(v) = OrdinaryCommit(v)
  /\ \A v : Rejoin!OrdinaryCommit(v) = P!OrdinaryCommit(v)
  /\ \A tokens, n : Ordinary!Take(tokens, n) = Take(tokens, n)
  /\ \A tokens, n : Rejoin!Take(tokens, n) = P!Take(tokens, n)
  /\ \A b, stops, k : Ordinary!IsStopCut(b, stops, k) <=> IsStopCut(b, stops, k)
  /\ \A b, stops, k : Rejoin!IsStopCut(b, stops, k) <=> P!IsStopCut(b, stops, k)
  /\ \A b, stops, k : P!IsStopCut(b, stops, k) <=> IsStopCut(b, stops, k)
  /\ \A t, p, s : P!GreedyPath(t, p, s) <=> GreedyPath(t, p, s)
BY DEF Ordinary!OrdinaryCommit, OrdinaryCommit, Rejoin!OrdinaryCommit, P!OrdinaryCommit,
       Ordinary!FullyMatches, FullyMatches, Rejoin!FullyMatches, P!FullyMatches,
       Ordinary!TargetCorrection, TargetCorrection, Rejoin!TargetCorrection,
       P!TargetCorrection, Ordinary!Take, Take, Rejoin!Take, P!Take,
       Ordinary!IsStopCut, IsStopCut, Rejoin!IsStopCut, P!IsStopCut,
       P!GreedyPath, GreedyPath

-----------------------------------------------------------------------------
(***************************************************************************)
(* The promise alone, whoever keeps it.                                    *)
(***************************************************************************)

\* Of two complete outputs neither stops where the other goes on.
LEMMA CompleteIsNotShorter ==
  ASSUME req.max_new_tokens \in Int, NEW s, NEW u, Complete(s), Complete(u),
         \A i \in 1..Len(s) : i <= Len(u) => s[i] = u[i]
  PROVE  Len(u) <= Len(s)
<1>1. /\ s \in Seq(Token) /\ u \in Seq(Token)
      /\ \A i \in 1..(Len(u) - 1) : u[i] \notin req.stop_token_ids
      /\ u = <<>> \/ Len(u) <= req.max_new_tokens
      /\ EndsInStop(s) \/ Len(s) >= req.max_new_tokens
  BY DEF Complete, Promised
<1>2. Len(s) \in Nat /\ Len(u) \in Nat /\ (u = <<>> => Len(u) = 0)
  BY <1>1, LenProperties, EmptySeq
<1> SUFFICES ASSUME Len(s) < Len(u) PROVE FALSE
  BY <1>2
<1>3. Len(u) <= req.max_new_tokens /\ ~(Len(s) >= req.max_new_tokens)
  BY <1>1, <1>2
<1>4. Len(s) > 0 /\ s[Len(s)] \in req.stop_token_ids
  BY <1>1, <1>3 DEF EndsInStop
<1>5. Len(s) \in 1..Len(s) /\ Len(s) <= Len(u) /\ Len(s) \in 1..(Len(u) - 1)
  BY <1>2, <1>4
<1>6. s[Len(s)] = u[Len(s)]
  BY <1>5
<1> QED
  BY <1>1, <1>4, <1>5, <1>6

\* On a target that does not tie there is one complete output.
LEMMA CompleteIsUnique ==
  ASSUME UntiedIsUnique, req \in Requests, req.target \in Untied,
         NEW s, NEW u, Complete(s), Complete(u)
  PROVE  s = u
<1>1. /\ s \in Seq(Token) /\ u \in Seq(Token)
      /\ GreedyPath(req.target, req.prefix, s) /\ GreedyPath(req.target, req.prefix, u)
  BY DEF Complete, Promised
<1>2. req.prefix \in Seq(Token) /\ req.max_new_tokens \in Int
  BY RequestsAreTyped
<1>3. \A q \in Seq(Token) : \A x, y \in Greedy(req.target, q) : x = y
  BY DEF UntiedIsUnique
<1>4. /\ \A i \in 1..Len(s) : i <= Len(u) => s[i] = u[i]
      /\ \A i \in 1..Len(u) : i <= Len(s) => u[i] = s[i]
  BY <1>1, <1>2, <1>3, PathsAgree
<1>5. Len(u) <= Len(s) /\ Len(s) <= Len(u)
  BY <1>2, <1>4, CompleteIsNotShorter
<1>6. Len(s) \in Nat /\ Len(u) \in Nat
  BY <1>1, LenProperties
<1>7. Len(s) = Len(u)
  BY <1>5, <1>6
<1>8. \A i \in 1..Len(s) : s[i] = u[i]
  BY <1>4, <1>6, <1>7
<1> QED
  BY <1>1, <1>7, <1>8, SeqEqual

\* The test of assert_exact_match is equality.
LEMMA MatchIsEquality ==
  ASSUME NEW s \in Seq(Token)
  PROVE  ExactMatch(s, s)
BY DEF ExactMatch

\* A step of the promise keeps what it says of the output.
LEMMA PromiseIsKept ==
  ASSUME req.prefix \in Seq(Token), req.max_new_tokens \in Int,
         OutputIsPromised, [Promise!Next]_(Promise!vars), generated' \in Seq(Token)
  PROVE  OutputIsPromised'
<1> DEFINE stops == req.stop_token_ids
<1>1. /\ generated \in Seq(Token) /\ GreedyPath(req.target, req.prefix, generated)
      /\ \A i \in 1..(Len(generated) - 1) : generated[i] \notin stops
      /\ generated = <<>> \/ Len(generated) <= req.max_new_tokens
      /\ Len(generated) \in Nat /\ Len(generated') \in Nat
  BY LenProperties DEF OutputIsPromised, Promised
<1>2. CASE Promise!Extend
  <2>1. /\ Status = "running" /\ UNCHANGED req
        /\ Len(generated) < Len(generated') /\ Len(generated') <= req.max_new_tokens
        /\ SubSeq(generated', 1, Len(generated)) = generated
        /\ \A i \in (Len(generated) + 1)..Len(generated') :
             generated'[i] \in Greedy(req.target, req.prefix \o SubSeq(generated', 1, i - 1))
        /\ \A i \in (Len(generated) + 1)..(Len(generated') - 1) : generated'[i] \notin stops
        /\ Status' = IF generated'[Len(generated')] \in stops THEN "returned" ELSE "running"
    BY <1>2 DEF Promise!Extend
  <2> DEFINE g == Len(generated)
             n == Len(generated')
  <2>2. g \in 0..n /\ g \in Nat /\ n \in Nat /\ n > 0
    BY <1>1, <2>1
  <2>3. /\ \A i \in 1..g : generated'[i] = generated[i]
        /\ \A i \in 1..g : SubSeq(generated', 1, i - 1) = SubSeq(generated, 1, i - 1)
    <3>1. \A i \in 1..g : SubSeq(generated', 1, g)[i] = generated'[i]
      BY <2>2, PrefixProperties
    <3>2. \A i \in 1..g : i - 1 \in 0..g
      BY <2>2
    <3>3. \A i \in 1..g : SubSeq(SubSeq(generated', 1, g), 1, i - 1) = SubSeq(generated', 1, i - 1)
      BY <2>2, <3>2, PrefixOfPrefix
    <3> QED
      BY ONLY <2>1, <3>1, <3>3
  <2>4. ~EndsInStop(generated)
    BY <2>1 DEF OutputIsPromised
  <2> HIDE DEF g, n
  <2>5. \A i \in 1..n : i \in 1..g \/ i \in (g + 1)..n
    BY <2>2
  <2>6. GreedyPath(req.target, req.prefix, generated')
    <3> SUFFICES ASSUME NEW i \in 1..n
                 PROVE  generated'[i]
                          \in Greedy(req.target, req.prefix \o SubSeq(generated', 1, i - 1))
      BY DEF GreedyPath, n
    <3>1. CASE i \in 1..g
      BY <1>1, <2>3, <3>1 DEF GreedyPath, g
    <3>2. CASE i \in (g + 1)..n
      BY <2>1, <3>2 DEF g, n
    <3> QED
      BY <2>5, <3>1, <3>2
  <2>7. \A i \in 1..(n - 1) : generated'[i] \notin stops
    <3> SUFFICES ASSUME NEW i \in 1..(n - 1) PROVE generated'[i] \notin stops
      OBVIOUS
    <3>1. CASE i \in 1..(g - 1)
      <4>1. i \in 1..g
        BY <2>2, <3>1
      <4> QED
        BY <1>1, <2>3, <3>1, <4>1 DEF g
    <3>2. CASE i = g
      <4>1. g \in 1..g /\ g > 0
        BY <2>2, <3>2
      <4> QED
        BY <2>3, <2>4, <3>2, <4>1 DEF EndsInStop, g
    <3>3. CASE i \in (g + 1)..(n - 1)
      BY <2>1, <3>3 DEF g, n
    <3> QED
      BY <2>2, <3>1, <3>2, <3>3
  <2>8. Promised(generated)'
    BY <2>1, <2>6, <2>7 DEF Promised, n
  <2>9. Status' = "running" => ~EndsInStop(generated)'
    BY <2>1 DEF EndsInStop
  <2>10. Status' = "returned" => EndsInStop(generated)'
    BY <2>1, <2>2 DEF EndsInStop, n
  <2> QED
    BY <2>1, <2>8, <2>9, <2>10 DEF OutputIsPromised, Complete
<1>3. CASE Promise!Return
  <2>1. /\ UNCHANGED <<req, generated>> /\ Status' = "returned"
        /\ Len(generated) >= req.max_new_tokens
    BY <1>3 DEF Promise!Return
  <2> QED
    BY <2>1 DEF OutputIsPromised, Complete, Promised, EndsInStop
<1>4. CASE Promise!Raise
  <2>1. UNCHANGED <<req, generated>> /\ Status' = "raised"
    BY <1>4 DEF Promise!Raise
  <2> QED
    BY <2>1 DEF OutputIsPromised, Complete, Promised, EndsInStop
<1>5. CASE UNCHANGED Promise!vars
  <2>1. UNCHANGED <<req, generated>> /\ Status' = Status
    BY <1>5 DEF Promise!vars
  <2> QED
    BY <2>1 DEF OutputIsPromised, Complete, Promised, EndsInStop
<1> QED
  BY <1>2, <1>3, <1>4, <1>5 DEF Promise!Next

-----------------------------------------------------------------------------
(***************************************************************************)
(* The runtimes, step by step.  A step of each is one of the promise, and  *)
(* the context it passes to the models stays prompt and output.            *)
(***************************************************************************)
ContextKept == generated' \in Seq(Token) /\ prefix' = req'.prefix \o generated'

LEMMA ServedRequest ==
  ASSUME GInv
  PROVE  /\ req.prefix \in Seq(Token)
         /\ req.max_new_tokens \in Int /\ req.draft_block_size \in Int
         /\ generated \in Seq(Token) /\ Len(generated) \in Nat
         /\ prefix = req.prefix \o generated /\ prefix \in Seq(Token)
         /\ GreedyPath(req.target, req.prefix, generated)
<1>1. /\ generated \in Seq(Token) /\ prefix = req.prefix \o generated
      /\ GreedyPath(req.target, req.prefix, generated) /\ req \in Requests
  BY DEF GInv, OutputIsPromised, Promised
<1>2. /\ req.prefix \in Seq(Token)
      /\ req.max_new_tokens \in Int /\ req.draft_block_size \in Int
  BY <1>1, RequestsAreTyped
<1>3. prefix \in Seq(Token) /\ Len(generated) \in Nat
  BY <1>1, <1>2, ConcatProperties, LenProperties
<1> QED
  BY <1>1, <1>2, <1>3

\* Each runtime commits a justified block in the same way.
LEMMA BlockIsPromised ==
  ASSUME GInv, UNCHANGED req,
         NEW tokens \in Seq(Token), GreedyPath(req.target, prefix, tokens),
         Len(tokens) <= req.max_new_tokens - Len(generated),
         NEW k, IsStopCut(tokens, req.stop_token_ids, k),
         generated' = generated \o SubSeq(tokens, 1, k),
         prefix' = prefix \o SubSeq(tokens, 1, k),
         pc \notin {"returned", "raised"},
         pc' = IF tokens[k] \in req.stop_token_ids THEN "returned" ELSE "loop"
  PROVE  Promise!Next /\ ContextKept
<1>1. /\ req.prefix \in Seq(Token) /\ req.max_new_tokens \in Int
      /\ generated \in Seq(Token)
      /\ prefix = req.prefix \o generated
      /\ GreedyPath(req.target, req.prefix, generated)
  BY ServedRequest
<1>2. /\ P!Status = "running"
      /\ P!Status' = IF tokens[k] \in req.stop_token_ids THEN "returned" ELSE "running"
  BY DEF P!Status
<1>3. /\ P!GreedyPath(req.target, req.prefix, generated)
      /\ P!GreedyPath(req.target, prefix, tokens)
      /\ P!IsStopCut(tokens, req.stop_token_ids, k)
      /\ Len(tokens) <= P!remaining
  BY <1>1, SameCommits DEF P!remaining
<1>4. P!Promise!Extend /\ generated' \in Seq(Token)
  BY <1>1, <1>2, <1>3, RejoinIsAssumed, P!BlockExtends
<1>5. Promise!Extend
  BY <1>4 DEF P!Promise!Extend, Promise!Extend, P!Status, Status
<1>6. SubSeq(tokens, 1, k) \in Seq(Token)
  <2>1. k \in 0..Len(tokens)
    <3>1. Len(tokens) \in Nat
      BY LenProperties
    <3> QED
      BY <3>1 DEF IsStopCut
  <2> QED
    BY <2>1, PrefixProperties
<1>7. prefix' = req'.prefix \o generated'
  <2> DEFINE cut == SubSeq(tokens, 1, k)
  <2>1. /\ prefix' = (req.prefix \o generated) \o cut
        /\ generated' = generated \o cut /\ req' = req
        /\ cut \in Seq(Token) /\ generated \in Seq(Token) /\ req.prefix \in Seq(Token)
    BY <1>1, <1>6
  <2> HIDE DEF cut
  <2>2. (req.prefix \o generated) \o cut = req.prefix \o (generated \o cut)
    BY ONLY <2>1, ExtendedPrefix, Zenon
  <2> QED
    BY <2>1, <2>2
<1> QED
  BY <1>4, <1>5, <1>7 DEF Promise!Next, ContextKept

\* A step that commits nothing.
LEMMA QuietStep ==
  ASSUME GInv, UNCHANGED <<req, prefix, generated>>,
         pc \notin {"returned", "raised"},
         \/ pc' \notin {"returned", "raised"}
         \/ pc' = "raised"
         \/ pc' = "returned" /\ Len(generated) >= req.max_new_tokens
  PROVE  [Promise!Next]_(Promise!vars) /\ ContextKept
<1>1. ContextKept
  BY ServedRequest DEF ContextKept
<1>2. CASE pc' \notin {"returned", "raised"}
  BY <1>1, <1>2 DEF Promise!vars, Status
<1>3. CASE pc' = "raised"
  BY <1>1, <1>3 DEF Promise!Next, Promise!Raise, Status
<1>4. CASE pc' = "returned" /\ Len(generated) >= req.max_new_tokens
  BY <1>1, <1>4 DEF Promise!Next, Promise!Return, Status
<1> QED
  BY <1>2, <1>3, <1>4

LEMMA TargetGreedyKeepsPromise ==
  ASSUME TargetsPickTokens, GInv, TargetGreedyStep
  PROVE  [Promise!Next]_(Promise!vars) /\ ContextKept /\ TargetGreedyInv'
<1>1. TargetGreedyInv
  BY DEF GInv, TargetGreedyStep
<1>2. CASE TargetGreedy!Start
  <2>1. /\ pc = "start" /\ pc' \in {"loop", "raised"} /\ UNCHANGED <<req, prefix, generated>>
    BY <1>2 DEF TargetGreedy!Start
  <2> QED
    BY <2>1, QuietStep DEF TargetGreedyInv
<1>3. CASE TargetGreedy!GreedyNext
  <2>1. /\ pc = "loop" /\ Len(generated) < req.max_new_tokens /\ UNCHANGED req
    BY <1>3 DEF TargetGreedy!GreedyNext, TargetGreedy!TokenDue
  <2>2. PICK token \in Greedy(req.target, prefix) :
          /\ generated' = Append(generated, token)
          /\ prefix' = Append(prefix, token)
          /\ pc' = IF token \in req.stop_token_ids THEN "returned" ELSE "loop"
    BY <1>3 DEF TargetGreedy!GreedyNext
  <2>3. /\ generated \in Seq(Token) /\ prefix \in Seq(Token)
        /\ Len(generated) \in Nat /\ req.max_new_tokens \in Int
    BY ServedRequest
  <2>4. token \in Token
    BY <2>3 DEF TargetsPickTokens, GInv
  <2> DEFINE block == <<token>>
  <2>5. block \in Seq(Token) /\ Len(block) = 1 /\ block[1] = token
    BY <2>4
  <2>6. generated' = generated \o block /\ prefix' = prefix \o block
    BY <2>2, <2>3, <2>4, AppendIsConcat
  <2> HIDE DEF block
  <2>7. SubSeq(block, 1, 1) = block
    BY <2>5, SubSeqFull
  <2>8. GreedyPath(req.target, prefix, block)
    <3> SUFFICES ASSUME NEW i \in 1..Len(block)
                 PROVE  block[i] \in Greedy(req.target, prefix \o SubSeq(block, 1, i - 1))
      BY DEF GreedyPath
    <3>1. i = 1 /\ i - 1 = 0
      BY <2>5
    <3>2. SubSeq(block, 1, 0) = <<>>
      BY SubSeqEmpty
    <3>3. prefix \o SubSeq(block, 1, i - 1) = prefix
      BY <2>3, <3>1, <3>2, ConcatEmptySeq
    <3> QED
      BY <2>5, <3>1, <3>3
  <2>9. IsStopCut(block, req.stop_token_ids, 1)
    BY <2>5 DEF IsStopCut
  <2>10. Len(block) <= req.max_new_tokens - Len(generated)
    BY <2>1, <2>3, <2>5
  <2>11. Promise!Next /\ ContextKept
    BY <2>1, <2>2, <2>5, <2>6, <2>7, <2>8, <2>9, <2>10, BlockIsPromised
  <2> QED
    BY <2>2, <2>11 DEF TargetGreedyInv
<1>4. CASE TargetGreedy!Return
  <2>1. /\ pc = "loop" /\ pc' = "returned" /\ UNCHANGED <<req, prefix, generated>>
        /\ Len(generated) >= req.max_new_tokens
    BY <1>4 DEF TargetGreedy!Return
  <2> QED
    BY <2>1, QuietStep DEF TargetGreedyInv
<1>5. CASE TargetGreedy!CallRaises
  <2>1. pc = "loop" /\ pc' = "raised" /\ UNCHANGED <<req, prefix, generated>>
    BY <1>5 DEF TargetGreedy!CallRaises, TargetGreedy!TokenDue
  <2> QED
    BY <2>1, QuietStep DEF TargetGreedyInv
<1> QED
  BY <1>2, <1>3, <1>4, <1>5 DEF TargetGreedyStep, TargetGreedy!Next

LEMMA SpeculativeKeepsPromise ==
  ASSUME GInv, SpeculativeStep
  PROVE  [Promise!Next]_(Promise!vars) /\ ContextKept /\ SpeculativeInv'
<1>1. SpeculativeInv /\ UNCHANGED running
  BY DEF GInv, SpeculativeStep
<1>2. /\ generated \in Seq(Token) /\ prefix \in Seq(Token) /\ req.prefix \in Seq(Token)
      /\ Len(generated) \in Nat
      /\ req.max_new_tokens \in Int /\ req.draft_block_size \in Int
  BY ServedRequest
<1>3. ASSUME NEW what, Ordinary!Raise(what), pc \in {"start", "loop", "verify"}
      PROVE  [Promise!Next]_(Promise!vars) /\ ContextKept /\ SpeculativeInv'
  <2>1. pc' = "raised" /\ UNCHANGED <<req, prefix, generated, proposed>>
    BY <1>3 DEF Ordinary!Raise
  <2> QED
    BY <1>1, <1>3, <2>1, QuietStep DEF SpeculativeInv
<1>4. CASE Ordinary!Start
  <2>1. pc = "start" /\ pc' = "loop" /\ UNCHANGED <<req, prefix, generated, proposed>>
    BY <1>4 DEF Ordinary!Start
  <2> QED
    BY <1>1, <2>1, QuietStep DEF SpeculativeInv
<1>5. CASE Ordinary!Return
  <2>1. /\ pc = "loop" /\ pc' = "returned" /\ UNCHANGED <<req, prefix, generated, proposed>>
        /\ Len(generated) >= req.max_new_tokens
    BY <1>5 DEF Ordinary!Return
  <2> QED
    BY <1>1, <2>1, QuietStep DEF SpeculativeInv
<1>6. CASE Ordinary!Draft
  <2> DEFINE n == Ordinary!draftLength
  <2>1. /\ pc = "loop" /\ Len(generated) < req.max_new_tokens /\ pc' = "verify"
        /\ proposed' \in Ordinary!Proposals(n) /\ proposed' # <<>> /\ Len(proposed') <= n
        /\ UNCHANGED <<req, prefix, generated>>
    BY <1>6 DEF Ordinary!Draft, Ordinary!DraftDue, Ordinary!RoundDue
  <2>2. n \in Int /\ n <= req.max_new_tokens - Len(generated)
    BY <1>2 DEF Ordinary!draftLength, Ordinary!remaining
  <2> HIDE DEF n
  <2>3. PICK m \in 0..(n + 1) : proposed' \in [1..m -> Token]
    BY <2>1 DEF Ordinary!Proposals
  <2>4. m \in Nat
    BY <2>2
  <2>5. proposed' \in Seq(Token)
    BY <2>3, <2>4
  <2>6. Len(proposed') \in Nat \ {0}
    BY <2>1, <2>5, EmptySeq
  <2>7. Len(proposed') \in 1..(req.max_new_tokens - Len(generated))
    BY <1>2, <2>1, <2>2, <2>6
  <2>8. SpeculativeInv'
    BY <2>1, <2>5, <2>7 DEF SpeculativeInv
  <2> QED
    BY <2>1, <2>8, QuietStep
<1>7. CASE Ordinary!VerifyAndCommit
  <2>1. pc = "verify" /\ UNCHANGED req /\ proposed' = <<>>
    BY <1>7 DEF Ordinary!VerifyAndCommit
  <2>2. /\ proposed \in Seq(Token)
        /\ Len(proposed) \in 1..(req.max_new_tokens - Len(generated))
    BY <1>1, <2>1 DEF SpeculativeInv
  <2> DEFINE room    == req.max_new_tokens - Len(generated)
             stops   == req.stop_token_ids
  <2>3. PICK v \in VerifyGreedy(req.target, prefix, proposed), k \in 1..Len(proposed) :
          /\ IsStopCut(Take(OrdinaryCommit(v), room), stops, k)
          /\ generated' = generated \o SubSeq(Take(OrdinaryCommit(v), room), 1, k)
          /\ prefix' = prefix \o SubSeq(Take(OrdinaryCommit(v), room), 1, k)
          /\ pc' = IF Take(OrdinaryCommit(v), room)[k] \in stops THEN "returned" ELSE "loop"
    BY <1>7, SameVerification, SameCommits
       DEF Ordinary!VerifyAndCommit, Ordinary!Committed, Ordinary!remaining
  <2> DEFINE tokens == OrdinaryCommit(v)
  <2>4. /\ tokens \in Seq(Token) /\ Len(tokens) \in 1..Len(proposed)
        /\ GreedyPath(req.target, prefix, tokens)
    <3>1. proposed # <<>>
      <4> SUFFICES ASSUME proposed = <<>> PROVE FALSE
        OBVIOUS
      <4>1. Len(proposed) = 0
        BY EmptySeq, Zenon
      <4> QED
        BY ONLY <1>2, <2>2, <4>1
    <3> QED
      BY <1>2, <2>2, <3>1, OrdinaryCommitIsGreedy
  <2> HIDE DEF tokens
  <2>5. room \in Int /\ Len(proposed) \in Nat /\ Len(tokens) \in Nat /\ Len(tokens) <= room
    <3>1. Len(proposed) \in Nat /\ Len(tokens) \in Nat
      BY <2>2, <2>4, LenProperties
    <3>2. room \in Int
      BY <1>2
    <3> HIDE DEF room
    <3>3. Len(proposed) \in 1..room
      BY <2>2 DEF room
    <3> QED
      BY <2>4, <3>1, <3>2, <3>3
  <2>6. Take(tokens, room) = tokens
    <3>1. Take(tokens, room) = SubSeq(tokens, 1, Len(tokens))
      <4>1. (IF room < Len(tokens) THEN room ELSE Len(tokens)) = Len(tokens)
        BY <2>5
      <4> QED
        BY <4>1 DEF Take
    <3> QED
      BY <2>4, <3>1, SubSeqFull
  <2>7. /\ IsStopCut(tokens, stops, k)
        /\ generated' = generated \o SubSeq(tokens, 1, k)
        /\ prefix' = prefix \o SubSeq(tokens, 1, k)
        /\ pc' = IF tokens[k] \in stops THEN "returned" ELSE "loop"
    BY <2>3, <2>6 DEF tokens
  <2>8. Promise!Next /\ ContextKept
    BY <2>1, <2>4, <2>5, <2>7, BlockIsPromised
  <2>9. SpeculativeInv'
    BY <2>1, <2>7, EmptySeq DEF SpeculativeInv
  <2> QED
    BY <2>8, <2>9
<1> QED
  <2>1. CASE Ordinary!RejectRequest
    BY <1>3, <2>1 DEF Ordinary!RejectRequest
  <2>2. CASE Ordinary!ExceedMaxSteps
    BY <1>3, <2>2 DEF Ordinary!ExceedMaxSteps, Ordinary!RoundDue
  <2>3. CASE Ordinary!RejectProposal
    BY <1>3, <2>3 DEF Ordinary!RejectProposal, Ordinary!DraftDue, Ordinary!RoundDue
  <2>4. CASE Ordinary!CallRaises
    BY <1>3, <2>4 DEF Ordinary!CallRaises, Ordinary!DraftDue, Ordinary!RoundDue
  <2> QED
    BY <1>4, <1>5, <1>6, <1>7, <2>1, <2>2, <2>3, <2>4 DEF SpeculativeStep, Ordinary!Next

\* The round of generate_rejoin, in the two instances.
LEMMA SameRound ==
  /\ \A c, v1, v2 : Rejoin!StepResult(c, v1, v2) = P!StepResult(c, v1, v2)
  /\ \A v : Rejoin!FullyMatches(v) <=> P!FullyMatches(v)
  /\ \A v : Rejoin!Accepted(v) = P!Accepted(v)
  /\ \A v : Rejoin!RetainedSuffix(v) = P!RetainedSuffix(v)
  /\ \A v : Rejoin!RepairedCandidate(v) = P!RepairedCandidate(v)
  /\ \A v1, v2 : Rejoin!RejoinedCommit(v1, v2) = P!RejoinedCommit(v1, v2)
  /\ \A r, k : Rejoin!ReusedInCommit(r, k) = P!ReusedInCommit(r, k)
  /\ \A n : Rejoin!Proposals(n) = P!Proposals(n)
<1>1. \A v : Rejoin!Accepted(v) = P!Accepted(v)
  BY DEF Rejoin!Accepted, P!Accepted
<1>2. \A v : Rejoin!RetainedSuffix(v) = P!RetainedSuffix(v)
  BY DEF Rejoin!RetainedSuffix, P!RetainedSuffix
<1>3. \A v : Rejoin!RepairedCandidate(v) = P!RepairedCandidate(v)
  BY <1>2 DEF Rejoin!RepairedCandidate, P!RepairedCandidate,
              Rejoin!TargetCorrection, P!TargetCorrection
<1>4. \A v1, v2 : Rejoin!RejoinedCommit(v1, v2) = P!RejoinedCommit(v1, v2)
  BY <1>1, SameCommits DEF Rejoin!RejoinedCommit, P!RejoinedCommit
<1>5. \A r : Rejoin!ReusedSuffixTokens(r) = P!ReusedSuffixTokens(r)
  BY DEF Rejoin!ReusedSuffixTokens, P!ReusedSuffixTokens, Rejoin!NonNegative, P!NonNegative
<1>6. \A r, k : Rejoin!ReusedInCommit(r, k) = P!ReusedInCommit(r, k)
  BY <1>5 DEF Rejoin!ReusedInCommit, P!ReusedInCommit, Rejoin!NonNegative, P!NonNegative
<1>7. \A n : Rejoin!Proposals(n) = P!Proposals(n)
  BY DEF Rejoin!Proposals, P!Proposals
<1>8. \A c, v1, v2 : Rejoin!StepResult(c, v1, v2) = P!StepResult(c, v1, v2)
  BY DEF Rejoin!StepResult, P!StepResult
<1> QED
  BY <1>1, <1>2, <1>3, <1>4, <1>6, <1>7, <1>8 DEF Rejoin!FullyMatches, P!FullyMatches

LEMMA SameGuards ==
  /\ Rejoin!text = P!text /\ Rejoin!counters = P!counters /\ Rejoin!round = P!round
  /\ Rejoin!remaining = P!remaining /\ Rejoin!draftLength = P!draftLength
  /\ Rejoin!ValidRequest <=> P!ValidRequest
  /\ Rejoin!StepLimitReached <=> P!StepLimitReached
  /\ Rejoin!RoundDue <=> P!RoundDue
  /\ Rejoin!ValidRound <=> P!ValidRound
  /\ Rejoin!DraftDue <=> P!DraftDue
  /\ \A what : Rejoin!Raise(what) <=> P!Raise(what)
<1>1. Rejoin!remaining = P!remaining /\ Rejoin!draftLength = P!draftLength
  BY DEF Rejoin!remaining, P!remaining, Rejoin!draftLength, P!draftLength
<1>2. /\ Rejoin!ValidRequest <=> P!ValidRequest
      /\ Rejoin!StepLimitReached <=> P!StepLimitReached
      /\ Rejoin!RoundDue <=> P!RoundDue
      /\ Rejoin!ValidRound <=> P!ValidRound
  BY <1>1 DEF Rejoin!ValidRequest, P!ValidRequest, Rejoin!StepLimitReached,
     P!StepLimitReached, Rejoin!RoundDue, P!RoundDue, Rejoin!ValidRound, P!ValidRound
<1>3. Rejoin!DraftDue <=> P!DraftDue
  BY <1>2 DEF Rejoin!DraftDue, P!DraftDue
<1>4. \A what : Rejoin!Raise(what) <=> P!Raise(what)
  BY DEF Rejoin!Raise, P!Raise, Rejoin!text, P!text, Rejoin!counters, P!counters,
     Rejoin!round, P!round
<1> QED
  BY <1>1, <1>2, <1>3, <1>4
     DEF Rejoin!text, P!text, Rejoin!counters, P!counters, Rejoin!round, P!round

LEMMA SameCommitStep == Rejoin!Commit => P!Commit
<1> SUFFICES ASSUME Rejoin!Commit PROVE P!Commit
  OBVIOUS
<1> DEFINE block == P!Take(result.committed_tokens, P!remaining)
<1>1. PICK k \in 1..Len(result.committed_tokens) :
        /\ P!IsStopCut(block, req.stop_token_ids, k)
        /\ generated' = generated \o SubSeq(block, 1, k)
        /\ prefix' = prefix \o SubSeq(block, 1, k)
        /\ steps' = steps + 1
        /\ target_invocations' = target_invocations + result.target_invocations
        /\ proposed_count' = proposed_count + Len(result.draft_tokens)
        /\ reused_count' = reused_count + P!ReusedInCommit(result, k)
        /\ pc' = IF block[k] \in req.stop_token_ids THEN "returned" ELSE "loop"
  BY SameCommits, SameRound, SameGuards DEF Rejoin!Commit
<1>2. \E n \in 1..Len(proposed) :
        /\ P!IsStopCut(P!OrdinaryCommit(initial), req.stop_token_ids, n)
        /\ ordinary' = ordinary + n
  BY SameCommits DEF Rejoin!Commit
<1>3. /\ pc = "commit" /\ proposed' = <<>> /\ initial' = None /\ result' = None
      /\ UNCHANGED <<req, error>>
  BY DEF Rejoin!Commit
<1> QED
  BY <1>1, <1>2, <1>3 DEF P!Commit

LEMMA SameNext == Rejoin!Next => P!Next
<1> USE DEF Rejoin!text, P!text, Rejoin!counters, P!counters, Rejoin!round, P!round
<1>1. Rejoin!Start => P!Start
  BY SameGuards DEF Rejoin!Start, P!Start
<1>2. Rejoin!RejectRequest => P!RejectRequest
  BY SameGuards DEF Rejoin!RejectRequest, P!RejectRequest
<1>3. Rejoin!Return => P!Return
  BY SameGuards DEF Rejoin!Return, P!Return
<1>4. Rejoin!ExceedMaxSteps => P!ExceedMaxSteps
  BY SameGuards DEF Rejoin!ExceedMaxSteps, P!ExceedMaxSteps
<1>5. Rejoin!RejectRound => P!RejectRound
  BY SameGuards DEF Rejoin!RejectRound, P!RejectRound
<1>6. Rejoin!Draft => P!Draft
  BY SameGuards, SameRound DEF Rejoin!Draft, P!Draft
<1>7. Rejoin!RejectProposal => P!RejectProposal
  BY SameGuards, SameRound DEF Rejoin!RejectProposal, P!RejectProposal
<1>8. Rejoin!Verify => P!Verify
  BY SameGuards, SameRound, SameVerification, SameCommits DEF Rejoin!Verify, P!Verify
<1>9. Rejoin!Reverify => P!Reverify
  BY SameGuards, SameRound, SameVerification
     DEF Rejoin!Reverify, P!Reverify, Rejoin!RepairedPrefix, P!RepairedPrefix
<1>10. Rejoin!CallRaises => P!CallRaises
  BY SameGuards DEF Rejoin!CallRaises, P!CallRaises
<1> QED
  BY <1>1, <1>2, <1>3, <1>4, <1>5, <1>6, <1>7, <1>8, <1>9, <1>10, SameCommitStep
     DEF Rejoin!Next, P!Next

LEMMA SamePromise == [P!Promise!Next]_(P!Promise!vars) => [Promise!Next]_(Promise!vars)
<1>1. (UNCHANGED P!Promise!vars) <=> UNCHANGED Promise!vars
  BY DEF P!Promise!vars, Promise!vars, P!Status, Status
<1>2. P!Promise!Next <=> Promise!Next
  BY DEF P!Promise!Next, Promise!Next, P!Promise!Extend, Promise!Extend,
     P!Promise!Raise, Promise!Raise, P!Promise!Return, Promise!Return, P!Status, Status
<1> QED
  BY <1>1, <1>2

LEMMA RejoinKeepsPromise ==
  ASSUME GInv, RejoinStep
  PROVE  [Promise!Next]_(Promise!vars) /\ ContextKept /\ (P!IInv)'
<1>1. P!IInv /\ P!Next
  BY SameNext DEF GInv, RejoinStep
<1>2. (P!IInv)'
  BY <1>1, RejoinIsAssumed, P!StepKeepsIInv
<1>3. [P!Promise!Next]_(P!Promise!vars)
  BY <1>1, RejoinIsAssumed, P!StepImplements
<1>4. ContextKept
  BY <1>2 DEF P!IInv, P!TypeOK, P!PrefixIsContext, ContextKept
<1> QED
  BY <1>2, <1>3, <1>4, SamePromise

-----------------------------------------------------------------------------
(***************************************************************************)
(* The gate.                                                               *)
(***************************************************************************)
LEMMA FreshOutput ==
  ASSUME req \in Requests
  PROVE  /\ Promised(<<>>) /\ ~EndsInStop(<<>>)
         /\ req.prefix \o <<>> = req.prefix
<1>1. <<>> \in Seq(Token) /\ Len(<<>>) = 0
  BY EmptySeq
<1>2. GreedyPath(req.target, req.prefix, <<>>)
  BY DEF GreedyPath
<1>3. req.prefix \in Seq(Token)
  BY RequestsAreTyped
<1> QED
  BY <1>1, <1>2, <1>3, ConcatEmptySeq DEF Promised, EndsInStop

LEMMA RejoinBegins == P!Init => P!IInv
BY RejoinIsAssumed, P!InitEstablishesIInv

LEMMA RejoinBeginsNext == (P!Init)' => (P!IInv)'
BY RejoinBegins, PTL

LEMMA InitEstablishesGInv == Init => GInv
<1> SUFFICES ASSUME Init PROVE GInv
  OBVIOUS
<1>1. /\ req \in Requests /\ pc = "start" /\ prefix = req.prefix /\ generated = <<>>
      /\ running = "target_greedy" /\ outputs = [runtime \in Runtimes |-> None]
  BY DEF Init, Rejoin!Init
<1>2. OutputIsPromised
  BY <1>1, FreshOutput DEF OutputIsPromised, Status
<1>3. prefix = req.prefix \o generated
  BY <1>1, FreshOutput
<1>4. Served = {}
  BY <1>1 DEF Served
<1> QED
  BY <1>1, <1>2, <1>3, <1>4 DEF GInv, TargetGreedyInv, Runtimes

\* What a step of the runtime that is running keeps.
LEMMA RuntimeStepKeepsGInv ==
  ASSUME GInv, [Promise!Next]_(Promise!vars), ContextKept,
         UNCHANGED <<running, outputs>>, running \in Runtimes,
         running = "target_greedy" => TargetGreedyInv',
         running = "speculative" => SpeculativeInv',
         running = "rejoin" => (P!IInv)'
  PROVE  GInv'
<1>1. req' = req
  BY DEF Promise!Next, Promise!vars, Promise!Extend, Promise!Return, Promise!Raise
<1>2. OutputIsPromised'
  BY ServedRequest, PromiseIsKept DEF GInv, ContextKept
<1>3. Served' = Served
  BY DEF Served
<1>4. \A r \in Served : Complete(outputs[r])'
  BY <1>1 DEF GInv, Complete, Promised, EndsInStop
<1> QED
  BY <1>1, <1>2, <1>3, <1>4 DEF GInv, ContextKept

LEMMA CollectKeepsGInv ==
  ASSUME GInv, Collect
  PROVE  GInv'
<1>1. /\ running \in Runtimes /\ pc = "returned" /\ UNCHANGED req /\ pc' = "start"
      /\ outputs' = [outputs EXCEPT ![running] = generated]
      /\ running' = NextRuntime[running]
      /\ prefix' = req.prefix /\ generated' = <<>> /\ proposed' = <<>>
  BY DEF Collect
<1>2. req \in Requests /\ DOMAIN outputs = Runtimes /\ Complete(generated)
  BY <1>1 DEF GInv, OutputIsPromised, Status
<1>3. OutputIsPromised'
  BY <1>1, <1>2, FreshOutput DEF OutputIsPromised, Status, Promised, EndsInStop
<1>4. prefix' = req'.prefix \o generated'
  BY <1>1, <1>2, FreshOutput
<1>5. running' \in {"speculative", "rejoin", "compare"}
  BY <1>1 DEF Runtimes, NextRuntime
<1>6. SpeculativeInv'
  BY <1>1, EmptySeq DEF SpeculativeInv
<1>7. (P!IInv)'
  <2>1. (P!Init)'
    BY <1>1, <1>2 DEF P!Init, Collect
  <2> QED
    BY <2>1, RejoinBeginsNext
<1>8. Served' = Served \union {running}
  BY <1>1 DEF Served, Runtimes, NextRuntime
<1>9. ASSUME NEW r \in Served \union {running}
      PROVE  Complete(outputs'[r])
  <2>1. r \in Runtimes
    BY <1>1 DEF Served, Runtimes
  <2>2. CASE r = running
    BY <1>1, <1>2, <2>1, <2>2
  <2>3. CASE r # running
    <3>1. outputs'[r] = outputs[r] /\ r \in Served
      BY <1>1, <1>2, <1>9, <2>1, <2>3
    <3> QED
      BY <3>1 DEF GInv
  <2> QED
    BY <2>2, <2>3
<1>10. \A r \in Served' : Complete(outputs[r])'
  BY <1>1, <1>8, <1>9 DEF Complete, Promised, EndsInStop
<1>11. DOMAIN outputs' = Runtimes
  BY <1>1, <1>2
<1> QED
  BY <1>1, <1>2, <1>3, <1>4, <1>5, <1>6, <1>7, <1>10, <1>11
     DEF GInv, Runtimes

LEMMA AssertKeepsGInv ==
  ASSUME GInv, AssertExactMatch
  PROVE  GInv'
<1>1. running = "compare" /\ UNCHANGED <<req, pc, prefix, generated, outputs>>
      /\ running' \in {"match", "mismatch"}
  BY DEF AssertExactMatch, locals
<1>2. OutputIsPromised'
  BY <1>1 DEF GInv, OutputIsPromised, Status, Complete, Promised, EndsInStop
<1>3. Served' = Served
  BY <1>1 DEF Served
<1>4. \A r \in Served : Complete(outputs[r])'
  BY <1>1 DEF GInv, Complete, Promised, EndsInStop
<1> QED
  BY <1>1, <1>2, <1>3, <1>4 DEF GInv

LEMMA StutterKeepsGInv ==
  ASSUME GInv, UNCHANGED vars
  PROVE  GInv'
<1>1. UNCHANGED <<req, pc, error, prefix, generated, steps, target_invocations, proposed_count,
                  reused_count, proposed, initial, result, ordinary, running, outputs>>
  BY DEF vars, locals
<1>2. OutputIsPromised'
  BY <1>1 DEF GInv, OutputIsPromised, Status, Complete, Promised, EndsInStop
<1>3. Served' = Served
  BY <1>1 DEF Served
<1>4. \A r \in Served : Complete(outputs[r])'
  BY <1>1 DEF GInv, Complete, Promised, EndsInStop
<1>5. running = "rejoin" => (P!IInv)'
  <2> SUFFICES ASSUME running = "rejoin" PROVE (P!IInv)'
    OBVIOUS
  <2>1. P!IInv /\ UNCHANGED P!vars
    BY <1>1 DEF GInv, P!vars, P!text, P!counters, P!round
  <2> QED
    BY <2>1, RejoinIsAssumed, P!StepKeepsIInv
<1> QED
  BY <1>1, <1>2, <1>3, <1>4, <1>5
     DEF GInv, TargetGreedyInv, SpeculativeInv

\* While a runtime is running, its steps are the promise's.
LEMMA RuntimesKeepPromise ==
  ASSUME TargetsPickTokens, GInv, TargetGreedyStep \/ SpeculativeStep \/ RejoinStep
  PROVE  /\ [Promise!Next]_(Promise!vars)
         /\ GInv'
<1>1. CASE TargetGreedyStep
  BY <1>1, TargetGreedyKeepsPromise, RuntimeStepKeepsGInv DEF TargetGreedyStep, Runtimes
<1>2. CASE SpeculativeStep
  BY <1>2, SpeculativeKeepsPromise, RuntimeStepKeepsGInv DEF SpeculativeStep, Runtimes
<1>3. CASE RejoinStep
  BY <1>3, RejoinKeepsPromise, RuntimeStepKeepsGInv DEF RejoinStep, Runtimes
<1> QED
  BY <1>1, <1>2, <1>3

LEMMA StepKeepsGInv ==
  ASSUME TargetsPickTokens, GInv, [Next]_vars
  PROVE  GInv'
BY RuntimesKeepPromise, CollectKeepsGInv, AssertKeepsGInv, StutterKeepsGInv DEF Next

LEMMA Invariance ==
  ASSUME TargetsPickTokens
  PROVE  Spec => []GInv
<1>1. Init => GInv
  BY InitEstablishesGInv
<1>2. GInv /\ [Next]_vars => GInv'
  BY StepKeepsGInv
<1> QED
  BY <1>1, <1>2, PTL DEF Spec

-----------------------------------------------------------------------------
\* Three complete outputs for one request are one output.
LEMMA ComparisonIsGreen ==
  ASSUME UntiedIsUnique, GInv, AssertExactMatch
  PROVE  GateNeverFails'
<1>1. /\ running = "compare" /\ UNCHANGED req
      /\ running' = IF /\ ExactMatch(outputs["speculative"], outputs["target_greedy"])
                       /\ ExactMatch(outputs["rejoin"], outputs["target_greedy"])
                    THEN "match" ELSE "mismatch"
  BY DEF AssertExactMatch
<1>2. req \in Requests /\ \A r \in Runtimes : Complete(outputs[r])
  BY <1>1 DEF GInv, Served
<1> SUFFICES ASSUME req.target \in Untied
             PROVE  running' # "mismatch"
  BY <1>1 DEF GateNeverFails
<1>3. /\ Complete(outputs["target_greedy"]) /\ Complete(outputs["speculative"])
      /\ Complete(outputs["rejoin"])
  BY <1>2 DEF Runtimes
<1>4. /\ outputs["speculative"] = outputs["target_greedy"]
      /\ outputs["rejoin"] = outputs["target_greedy"]
  BY <1>2, <1>3, CompleteIsUnique
<1>5. outputs["target_greedy"] \in Seq(Token)
  BY <1>3 DEF Complete, Promised
<1> QED
  BY <1>1, <1>4, <1>5, MatchIsEquality

\* No other step gives a verdict.
LEMMA StepKeepsGateNeverFails ==
  ASSUME UntiedIsUnique, GInv, GateNeverFails, [Next]_vars
  PROVE  GateNeverFails'
<1>1. CASE TargetGreedyStep \/ SpeculativeStep \/ RejoinStep
  BY <1>1 DEF TargetGreedyStep, SpeculativeStep, RejoinStep, GateNeverFails
<1>2. CASE Collect
  BY <1>2 DEF Collect, GateNeverFails, Runtimes, NextRuntime
<1>3. CASE AssertExactMatch
  BY <1>3, ComparisonIsGreen
<1>4. CASE UNCHANGED vars
  BY <1>4 DEF vars, GateNeverFails
<1> QED
  BY <1>1, <1>2, <1>3, <1>4 DEF Next

\* On a target that does not tie the exactness gate of tests/test_runtime.py is
\* never red, whatever the draft proposes, wherever calls raise, for every
\* request, also with stop tokens and at the edges of what a runtime accepts.
THEOREM GateIsGreen ==
  ASSUME UntiedIsUnique, TargetsPickTokens
  PROVE  Spec => []GateNeverFails
<1>1. Init => GateNeverFails
  BY DEF Init, GateNeverFails
<1>2. GInv /\ GateNeverFails /\ [Next]_vars => GateNeverFails'
  BY StepKeepsGateNeverFails
<1> QED
  BY <1>1, <1>2, Invariance, PTL DEF Spec

\* Each runtime, from its first step to its last, keeps the promise of
\* GreedyDecoding: also when the target ties, when the request is refused, and
\* when a call raises (autoregressive.py:10-35, speculative.py:44-89,
\* direct_reattach.py:79-142).
THEOREM RuntimesArePromised ==
  ASSUME TargetsPickTokens
  PROVE  Spec => RuntimesImplementPromise
<1>1. ASSUME GInv, [Next]_vars
      PROVE  [running' = running => [Promise!Next]_(Promise!vars)]_vars
  <2>1. CASE TargetGreedyStep \/ SpeculativeStep \/ RejoinStep
    BY <1>1, <2>1, RuntimesKeepPromise
  <2>2. CASE Collect
    BY <2>2 DEF Collect, Runtimes, NextRuntime
  <2>3. CASE AssertExactMatch
    BY <2>3 DEF AssertExactMatch
  <2>4. CASE UNCHANGED vars
    BY <2>4
  <2> QED
    BY <1>1, <2>1, <2>2, <2>3, <2>4 DEF Next
<1> QED
  BY <1>1, Invariance, PTL DEF Spec, RuntimesImplementPromise
=============================================================================
