-------------------------------- MODULE MCSystem --------------------------------
(***************************************************************************)
(* A small instance of System: one stream, one follower and one job, two   *)
(* versions of a skill's bundle and two policies, one of which forbids     *)
(* skills.  The validator of agent protocols keeps no state: it is         *)
(* compared with its rules on every run of up to two messages.             *)
(***************************************************************************)
EXTENDS System, Protocol, TLC

CONSTANTS s1, r1, r2, f1, j1, k1, k2, i1, i2, old, new, manifestFile, script,
          skill1, dir1, a1, a2, a3, exact, star, prefix, skillName, echoName, runSkill, runLocal

MCMatches == {<<exact, skillName>>, <<star, skillName>>, <<star, echoName>>,
              <<prefix, skillName>>, <<star, runSkill>>, <<star, runLocal>>,
              <<exact, runLocal>>}

MCSkill == [subject |-> skillName, requested |-> {runSkill}, sandboxed |-> TRUE, skill |-> skill1]
MCEcho  == [subject |-> echoName, requested |-> {runLocal}, sandboxed |-> FALSE, skill |-> None]
MCTarget    == {MCSkill, MCEcho}
MCJobTarget == {MCSkill, MCEcho}

MCOpen   == [default |-> {}, subjects |-> <<[pattern |-> star, allow |-> {star}, deny |-> {}]>>]
MCClosed == [default |-> {star},
             subjects |-> <<[pattern |-> prefix, allow |-> {}, deny |-> {star}],
                            [pattern |-> exact, allow |-> {star}, deny |-> {}]>>]
MCPolicies == {MCOpen, MCClosed}

MCSkillOf == old :> skill1 @@ new :> skill1
MCDirOf   == old :> dir1 @@ new :> dir1
MCFilesOf == old :> {manifestFile, script} @@ new :> {manifestFile}

Alike == Permutations({k1, k2}) \cup Permutations({i1, i2}) \cup Permutations({r1, r2})

MCRuns == [protocol : {"handoff.v1", "other"}, initiator : Party,
           messages : UNION {[1..n -> AgentMessage] : n \in 0..2}]

ASSUME ProtocolAgrees == \A x \in MCRuns : Accepted(x) <=> Rules(x)

MCBlank == {2}
MCTails == {0, 1}

=================================================================================
