------------------------------- MODULE MCBrain -------------------------------
(***************************************************************************)
(* A small instance of Brain: one contact, three task texts of which each  *)
(* resembles the next (the first and the last do not), one tool, and a     *)
(* note about the contact.  The windows, the span of a query and the limit *)
(* of a recall are small enough to be exceeded, but for the window of the  *)
(* entities; one fact and one text are outside the scope of the recalls.   *)
(***************************************************************************)
EXTENDS Brain, TLC

CONSTANTS c1, c2, own, run, wsp, prj, who, art, said, note, res, ctx,
          t1, t2, t3, x1, x2, x3, x0, base, seenBefore, echo

MCEntity   == {own, run, wsp, prj, who, art}
MCFact     == {said, note, res, ctx}
MCEntityOf == said :> who @@ note :> who @@ res :> art @@ ctx :> wsp
MCTask     == {t1, t2, t3}
MCText     == {x1, x2, x3, x0}
MCIdOf     == x1 :> t1 @@ x2 :> t2 @@ x3 :> t3 @@ x0 :> t3
MCAttracts == {<<x1, x1>>, <<x2, x2>>, <<x3, x3>>, <<x1, x2>>, <<x2, x1>>, <<x2, x3>>}
MCCloses   == {<<echo, x1>>, <<echo, x3>>}
MCMessage  == {[from |-> who, fact |-> said, mentions |-> <<>>, text |-> x1]}
MCTool     == {[name |-> echo, artifact |-> art, fact |-> res, context |-> ctx]}
MCMemo     == {[entity |-> who, content |-> seenBefore, fact |-> note, links |-> <<wsp>>]}
MCTaskMemo == {[text |-> x2, low |-> TRUE, links |-> <<>>]}
MCTarget   == {[kind |-> "entity", key |-> who], [kind |-> "entity", key |-> wsp],
               [kind |-> "task", key |-> t1],
               [kind |-> "relation", key |-> <<"knows", own, who>>],
               [kind |-> "entity", key |-> t1]}
MCWindow   == "entity" :> 6 @@ "fact" :> 1 @@ "task" :> 2 @@ "relation" :> 5
MCUpdate   == {[task |-> t1, text |-> None, status |-> "cancelled", links |-> None],
               [task |-> t1, text |-> x3, status |-> "open", links |-> <<who>>]}

Stored(state, text, status) ==
  [state |-> state, val |-> [text |-> text, status |-> status, low |-> FALSE, links |-> <<who>>]]
Finished(text) == [Stored("live", text, "done") EXCEPT !.val.low = TRUE]
MCEarlier  == {t1 :> Stored("live", x2, "open"),
               t1 :> Stored("archived", x1, "open") @@ t2 :> Finished(x1)}

Threads == Permutations({c1, c2})

=============================================================================
