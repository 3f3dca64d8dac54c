---------------------------- MODULE MCOrchestrator ----------------------------
(***************************************************************************)
(* Instance of Orchestrator for TLC.  q and r begin alike for 128 bytes,   *)
(* as prompts of one connector and sender do, r also resembles the payload *)
(* kept for p, and t cannot be cut at its 128th byte; two calls bring t.   *)
(***************************************************************************)
EXTENDS Orchestrator, TLC

CONSTANTS c1, c2, c3, c4, c5, p, q, r, t, hp, hqr, ht

MCPrompt    == {p, q, r, t}
MCPromptOf  == [c \in Call |-> CASE c = c1 -> p [] c = c2 -> q [] c = c3 -> r [] OTHER -> t]
MCHead      == {hp, hqr, ht}
MCHeadOf    == [x \in MCPrompt |-> CASE x = p -> hp [] x = t -> ht [] OTHER -> hqr]
MCLength    == [h \in MCHead |-> 128]
MCMatches   == {<<MCHeadOf[x], x>> : x \in MCPrompt}
MCResembles == {<<p, r>>}
MCRagged    == {t}

Retries == Permutations({c4, c5})
=============================================================================
