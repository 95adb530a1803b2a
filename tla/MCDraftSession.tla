--------------------------- MODULE MCDraftSession ---------------------------
(***************************************************************************)
(* Small instances of DraftSession.  The models look at the parity of a    *)
(* context's length and of the number of its b's, so that a token missing  *)
(* from the cache, or in it twice, changes the draft.                      *)
(***************************************************************************)
EXTENDS DraftSession, FiniteSets

CONSTANTS a, b, stop   \* tokens; stop is the EOS

MCToken == {a, b, stop}
MCEos == {stop}

View(p) == <<Len(p) % 2, Cardinality({i \in 1..Len(p) : p[i] = b}) % 2>>
Views == (0..1) \X (0..1)
MCGreedy(t, p) == t[View(p)]

MCModels == [Views -> {{a}, {b}, {stop}, {a, b}}]
MCPrompts == {<<a>>, <<a, b>>}
=============================================================================
