-------------------------- MODULE OrchestratorProofs --------------------------
(***************************************************************************)
(* Proofs about Orchestrator for every set of calls and prompts, every     *)
(* relation between prompts, and any number of restarts and faults.        *)
(***************************************************************************)
EXTENDS Orchestrator, FiniteSetTheorems, TLAPS

\* The type invariant without the upper bound of permits, which follows from
\* their conservation.
TypePart ==
  /\ pc \in [Call -> {"idle", "waiting"} \cup Holding \cup Ended]
  /\ reply \in [Call -> Call \cup {None}]
  /\ exact \in [Prompt -> Call \cup {None}]
  /\ prefix \in [Head -> Call \cup {None}]
  /\ memory \in [Prompt -> [by : Call \cup {None}, key : {0, 1}]]
  /\ permits \in Nat
  /\ key \in {0, 1} /\ starts \in 1..MaxStarts /\ faults \in 0..MaxFaults

\* Every cache keeps a generation in the row of the prompt it was made for.
OwnRow ==
  /\ \A p \in Prompt : exact[p] # None => PromptOf[exact[p]] = p
  /\ \A h \in Head : prefix[h] # None => HeadOf[PromptOf[prefix[h]]] = h
  /\ \A p \in Prompt : memory[p].by # None => PromptOf[memory[p].by] = p

\* The key changes with the second start, and not again.
KeyHistory ==
  /\ key = 0 <=> starts = 1
  /\ \A p \in Prompt : memory[p].key = 1 => key = 1

\* Past its first put a call finds the exact cache filled.
KeptFirst ==
  \A c \in Call : pc[c] \in {"exact_kept", "panicked"} => exact[PromptOf[c]] # None

Holders == {c \in Call : pc[c] \in Holding}

IInv ==
  /\ TypePart /\ PermitsConserved /\ OwnRow /\ KeyHistory /\ KeptFirst
  /\ ReplyOneHopAway

-----------------------------------------------------------------------------

(***************************************************************************)
(* What one step does to the permits: a call takes one, gives one back, or *)
(* moves on with or without one; a restart makes a new semaphore.          *)
(***************************************************************************)
Moves(c) ==
  \/ /\ pc[c] \notin Holding /\ \E to \in Holding : pc' = [pc EXCEPT ![c] = to]
     /\ permits > 0 /\ permits' = permits - 1
  \/ /\ pc[c] \in Holding
     /\ \E to \in Ended : pc' = [pc EXCEPT ![c] = to]
     /\ permits' = permits + 1
  \/ /\ \E to \in {"waiting"} \cup Holding \cup Ended :
          /\ pc' = [pc EXCEPT ![c] = to]
          /\ pc[c] \in Holding <=> to \in Holding
     /\ permits' = permits

\* Every action of a call takes, returns or leaves the permit as it should.
LEMMA StepMoves ==
  ASSUME NEW c \in Call, Step(c) \/ Fault(c) \/ Cancel(c)
  PROVE  Moves(c)
<1>1. CASE Begin(c) \/ Acquire(c)
  BY <1>1 DEF Begin, Acquire, Goto, Moves, Holding, Looking, Filling
<1>2. CASE ExactGet(c)
  BY <1>2 DEF ExactGet, Goto, End, Return, Moves, Holding, Looking, Filling, Ended
<1>3. CASE PrefixGet(c)
  BY <1>3 DEF PrefixGet, Goto, End, Return, Moves, Holding, Looking, Filling, Ended
<1>4. CASE SemanticGet(c)
  BY <1>4 DEF SemanticGet, Goto, End, Return, Moves, Holding, Looking, Filling, Ended
<1>5. CASE Generate(c) \/ ExactPut(c)
  BY <1>5 DEF Generate, ExactPut, Goto, End, Moves, Holding, Looking, Filling, Ended
<1>6. CASE PrefixPut(c)
  BY <1>6 DEF PrefixPut, Goto, End, Moves, Holding, Looking, Filling, Ended
<1>7. CASE SemanticPut(c)
  BY <1>7 DEF SemanticPut, Goto, End, Return, Moves, Holding, Looking, Filling, Ended
<1>8. CASE Fault(c)
  BY <1>8 DEF Fault, Goto, End, Moves, Holding, Looking, Filling, Ended
<1>9. CASE Cancel(c)
  BY <1>9 DEF Cancel, Goto, End, Moves, Holding, Looking, Filling, Ended
<1>. QED
  BY <1>1, <1>2, <1>3, <1>4, <1>5, <1>6, <1>7, <1>8, <1>9 DEF Step

\* A step of a call leaves its reply alone or sets it to what a look-up found.
LEMMA StepReplies ==
  ASSUME TypePart, NEW c \in Call, Step(c) \/ Fault(c) \/ Cancel(c)
  PROVE  \/ UNCHANGED reply
         \/ \E d \in Call \cup {None} : reply' = [reply EXCEPT ![c] = d]
<1>. USE OrchestratorAssumption
<1>1. CASE ExactGet(c)
  BY <1>1 DEF TypePart, ExactGet, Return, Asked
<1>2. CASE PrefixGet(c)
  BY <1>2 DEF TypePart, PrefixGet, Return
<1>3. CASE SemanticGet(c)
  <2>1. \A p \in Kept : memory[p].by \in Call \cup {None}
    BY DEF Kept, TypePart
  <2>. QED
    BY <1>3, <2>1 DEF SemanticGet, Return
<1>4. CASE SemanticPut(c)
  BY <1>4 DEF SemanticPut, Return
<1>5. CASE \/ Begin(c) \/ Acquire(c) \/ Generate(c) \/ ExactPut(c) \/ PrefixPut(c)
           \/ Fault(c) \/ Cancel(c)
  BY <1>5 DEF Begin, Acquire, Generate, ExactPut, PrefixPut, Fault, Cancel
<1>. QED
  BY <1>1, <1>2, <1>3, <1>4, <1>5 DEF Step

\* The rest of the state: the caches, the key and the counters.
StorePart ==
  /\ exact \in [Prompt -> Call \cup {None}]
  /\ prefix \in [Head -> Call \cup {None}]
  /\ memory \in [Prompt -> [by : Call \cup {None}, key : {0, 1}]]
  /\ key \in {0, 1} /\ starts \in 1..MaxStarts /\ faults \in 0..MaxFaults

\* A step of a call keeps their types.
LEMMA StepStore ==
  ASSUME StorePart, NEW c \in Call, Step(c) \/ Fault(c) \/ Cancel(c)
  PROVE  StorePart'
<1>. USE OrchestratorAssumption
<1>1. CASE ExactPut(c)
  BY <1>1 DEF StorePart, ExactPut
<1>2. CASE PrefixPut(c)
  BY <1>2 DEF StorePart, PrefixPut
<1>3. CASE SemanticPut(c)
  BY <1>3 DEF StorePart, SemanticPut, Asked
<1>4. CASE Fault(c)
  BY <1>4 DEF StorePart, Fault, caches
<1>5. CASE \/ Begin(c) \/ Acquire(c) \/ ExactGet(c) \/ PrefixGet(c) \/ SemanticGet(c)
           \/ Generate(c) \/ Cancel(c)
  <2>1. UNCHANGED <<caches, key, starts, faults>>
    BY <1>5 DEF Begin, Acquire, ExactGet, PrefixGet, SemanticGet, Generate, Cancel
  <2>. QED
    BY <2>1 DEF StorePart, caches
<1>. QED
  BY <1>1, <1>2, <1>3, <1>4, <1>5 DEF Step

\* Steps keep the types.
LEMMA NextTypePart == TypePart /\ [Next]_vars => TypePart'
<1> SUFFICES ASSUME TypePart, [Next]_vars PROVE TypePart'
  OBVIOUS
<1>1. ASSUME NEW c \in Call, Step(c) \/ Fault(c) \/ Cancel(c)
      PROVE  TypePart'
  <2>1. /\ pc' \in [Call -> {"idle", "waiting"} \cup Holding \cup Ended]
        /\ permits' \in Nat
    <3>1. Moves(c)
      BY <1>1, StepMoves
    <3>. QED
      BY <3>1 DEF Moves, TypePart
  <2>2. reply' \in [Call -> Call \cup {None}]
    BY <1>1, StepReplies DEF TypePart
  <2>3. StorePart'
    BY <1>1, StepStore DEF StorePart, TypePart
  <2>. QED
    BY <2>1, <2>2, <2>3 DEF TypePart, StorePart
<1>2. CASE Restart
  BY <1>2, OrchestratorAssumption DEF TypePart, Restart, caches, Ended
<1>3. CASE UNCHANGED vars
  BY <1>3 DEF TypePart, vars, caches
<1>. QED
  BY <1>1, <1>2, <1>3 DEF Next

\* No step loses or invents a permit.
LEMMA NextPermits ==
  TypePart /\ PermitsConserved /\ [Next]_vars => PermitsConserved'
<1> SUFFICES ASSUME TypePart, PermitsConserved, [Next]_vars PROVE PermitsConserved'
  OBVIOUS
<1>0. /\ IsFiniteSet(Holders) /\ Cardinality(Holders) \in Nat
      /\ permits + Cardinality(Holders) = MaxInflight
      /\ permits \in Nat
  <2>1. Holders \in SUBSET Call
    BY DEF Holders
  <2>. QED
    BY <2>1, OrchestratorAssumption, FS_Subset, FS_CardinalityType
    DEF PermitsConserved, Holders, TypePart
<1>1. ASSUME NEW c \in Call, Moves(c) PROVE PermitsConserved'
  <2>1. CASE /\ pc[c] \notin Holding /\ \E to \in Holding : pc' = [pc EXCEPT ![c] = to]
             /\ permits > 0 /\ permits' = permits - 1
    <3>1. Holders' = Holders \cup {c} /\ c \notin Holders
      BY <2>1 DEF Holders, TypePart
    <3>2. Cardinality(Holders') = Cardinality(Holders) + 1
      BY <1>0, <3>1, FS_AddElement
    <3>. QED
      BY <1>0, <2>1, <3>2 DEF PermitsConserved, Holders
  <2>2. CASE /\ pc[c] \in Holding /\ \E to \in Ended : pc' = [pc EXCEPT ![c] = to]
             /\ permits' = permits + 1
    <3>1. Holders' = Holders \ {c} /\ c \in Holders
      BY <2>2 DEF Holders, TypePart, Ended, Holding, Looking, Filling
    <3>2. Cardinality(Holders') = Cardinality(Holders) - 1
      BY <1>0, <3>1, FS_RemoveElement
    <3>. QED
      BY <1>0, <2>2, <3>2 DEF PermitsConserved, Holders
  <2>3. CASE /\ \E to \in {"waiting"} \cup Holding \cup Ended :
                  /\ pc' = [pc EXCEPT ![c] = to]
                  /\ pc[c] \in Holding <=> to \in Holding
             /\ permits' = permits
    <3>1. Holders' = Holders
      BY <2>3 DEF Holders, TypePart
    <3>. QED
      BY <1>0, <2>3, <3>1 DEF PermitsConserved, Holders
  <2>. QED
    BY <1>1, <2>1, <2>2, <2>3 DEF Moves
<1>2. CASE Restart
  <2>1. \A c \in Call : pc'[c] \notin Holding
    BY <1>2 DEF Restart, Holding, Looking, Filling
  <2>2. Holders' = {}
    BY <2>1 DEF Holders
  <2>3. Cardinality(Holders') = 0
    BY <2>2, FS_EmptySet
  <2>4. permits' = MaxInflight
    BY <1>2 DEF Restart
  <2>. QED
    BY <2>3, <2>4, OrchestratorAssumption DEF PermitsConserved, Holders
<1>3. CASE UNCHANGED vars
  BY <1>3 DEF vars, PermitsConserved
<1>. QED
  BY <1>1, <1>2, <1>3, StepMoves DEF Next

-----------------------------------------------------------------------------

\* A step fills the row of its own prompt, or leaves the caches alone.
LEMMA NextOwnRow == TypePart /\ OwnRow /\ [Next]_vars => OwnRow'
<1> SUFFICES ASSUME TypePart, OwnRow, [Next]_vars PROVE OwnRow'
  OBVIOUS
<1>. USE OrchestratorAssumption
<1>1. ASSUME NEW c \in Call, ExactPut(c) PROVE OwnRow'
  BY <1>1 DEF TypePart, OwnRow, ExactPut, Asked
<1>2. ASSUME NEW c \in Call, PrefixPut(c) PROVE OwnRow'
  BY <1>2 DEF TypePart, OwnRow, PrefixPut, Asked
<1>3. ASSUME NEW c \in Call, SemanticPut(c) PROVE OwnRow'
  BY <1>3 DEF TypePart, OwnRow, SemanticPut, Asked
<1>4. CASE UNCHANGED caches
  BY <1>4 DEF caches, OwnRow
<1>5. ASSUME NEW c \in Call,
             \/ Begin(c) \/ Acquire(c) \/ ExactGet(c) \/ PrefixGet(c) \/ SemanticGet(c)
             \/ Generate(c) \/ Fault(c) \/ Cancel(c)
      PROVE  UNCHANGED caches
  BY <1>5 DEF Begin, Acquire, ExactGet, PrefixGet, SemanticGet, Generate, Fault, Cancel,
              caches
<1>6. Restart \/ UNCHANGED vars => UNCHANGED caches
  BY DEF Restart, vars, caches
<1>. QED
  BY <1>1, <1>2, <1>3, <1>4, <1>5, <1>6 DEF Next, Step

\* The key only changes at a restart, and entries carry the present key.
LEMMA NextKeyHistory == TypePart /\ KeyHistory /\ [Next]_vars => KeyHistory'
<1> SUFFICES ASSUME TypePart, KeyHistory, [Next]_vars PROVE KeyHistory'
  OBVIOUS
<1>1. ASSUME NEW c \in Call, SemanticPut(c) PROVE KeyHistory'
  BY <1>1, OrchestratorAssumption DEF TypePart, KeyHistory, SemanticPut, Asked
<1>2. CASE Restart
  BY <1>2 DEF TypePart, KeyHistory, Restart, caches
<1>3. CASE UNCHANGED <<memory, key, starts>>
  BY <1>3 DEF KeyHistory
<1>4. ASSUME NEW c \in Call,
             \/ Begin(c) \/ Acquire(c) \/ ExactGet(c) \/ PrefixGet(c) \/ SemanticGet(c)
             \/ Generate(c) \/ ExactPut(c) \/ PrefixPut(c) \/ Fault(c) \/ Cancel(c)
      PROVE  UNCHANGED <<memory, key, starts>>
  BY <1>4 DEF Begin, Acquire, ExactGet, PrefixGet, SemanticGet, Generate, ExactPut,
              PrefixPut, Fault, Cancel, caches
<1>5. UNCHANGED vars => UNCHANGED <<memory, key, starts>>
  BY DEF vars, caches
<1>. QED
  BY <1>1, <1>2, <1>3, <1>4, <1>5 DEF Next, Step

\* Only the put of the exact cache leads to the cut of the prefix.
LEMMA NextKeptFirst == TypePart /\ KeptFirst /\ [Next]_vars => KeptFirst'
<1> SUFFICES ASSUME TypePart, KeptFirst, [Next]_vars PROVE KeptFirst'
  OBVIOUS
<1>. USE OrchestratorAssumption
<1>1. ASSUME NEW c \in Call, ExactPut(c) PROVE KeptFirst'
  <2>1. exact'[PromptOf[c]] = c /\ \A d \in Call : exact[PromptOf[d]] # None
                                                  => exact'[PromptOf[d]] # None
    BY <1>1 DEF ExactPut, TypePart, Asked
  <2>2. \A d \in Call : d # c => pc'[d] = pc[d]
    BY <1>1 DEF ExactPut, TypePart, Goto
  <2>. QED
    BY <2>1, <2>2 DEF KeptFirst
<1>2. ASSUME UNCHANGED exact, NEW c \in Call,
             \E to \in ({"waiting"} \cup Holding \cup Ended) \ {"exact_kept"} :
               /\ pc' = [pc EXCEPT ![c] = to]
               /\ to = "panicked" => pc[c] = "exact_kept"
      PROVE  KeptFirst'
  BY <1>2 DEF KeptFirst, TypePart
<1>3. ASSUME NEW c \in Call, Begin(c) \/ Acquire(c) \/ ExactGet(c) PROVE KeptFirst'
  BY <1>2, <1>3 DEF Begin, Acquire, ExactGet, Goto, End, Return, caches, Holding, Looking,
                    Filling, Ended
<1>4. ASSUME NEW c \in Call, PrefixGet(c) PROVE KeptFirst'
  <2>1. /\ UNCHANGED exact
        /\ \E to \in {"prefix_missed", "answered"} : pc' = [pc EXCEPT ![c] = to]
    BY <1>4 DEF PrefixGet, Goto, End, Return, caches
  <2>. QED
    BY <1>2, <2>1 DEF Holding, Looking, Ended
<1>5. ASSUME NEW c \in Call, SemanticGet(c) PROVE KeptFirst'
  <2>1. /\ UNCHANGED exact
        /\ \E to \in {"asking", "errored", "answered"} : pc' = [pc EXCEPT ![c] = to]
    BY <1>5 DEF SemanticGet, Goto, End, Return, caches
  <2>. QED
    BY <1>2, <2>1 DEF Holding, Ended
<1>6. ASSUME NEW c \in Call, Generate(c) \/ Fault(c) \/ Cancel(c) PROVE KeptFirst'
  <2>1. /\ UNCHANGED exact
        /\ \E to \in {"generated", "errored", "cancelled"} : pc' = [pc EXCEPT ![c] = to]
    BY <1>6 DEF Generate, Fault, Cancel, Goto, End, caches
  <2>. QED
    BY <1>2, <2>1 DEF Holding, Filling, Ended
<1>7. ASSUME NEW c \in Call, PrefixPut(c) \/ SemanticPut(c) PROVE KeptFirst'
  <2>1. /\ UNCHANGED exact
        /\ \E to \in {"panicked", "prefix_kept", "answered"} :
             /\ pc' = [pc EXCEPT ![c] = to]
             /\ to = "panicked" => pc[c] = "exact_kept"
    BY <1>7 DEF PrefixPut, SemanticPut, Goto, End, Return
  <2>. QED
    BY <1>2, <2>1 DEF Holding, Filling, Ended
<1>8. CASE Restart
  BY <1>8 DEF Restart, caches, KeptFirst, TypePart
<1>9. CASE UNCHANGED vars
  BY <1>9 DEF vars, caches, KeptFirst
<1>. QED
  BY <1>1, <1>3, <1>4, <1>5, <1>6, <1>7, <1>8, <1>9 DEF Next, Step

-----------------------------------------------------------------------------

\* d's generation is a reply for c that the look-ups may give.
Near(d, c) ==
  \/ PromptOf[d] = PromptOf[c]
  \/ <<HeadOf[PromptOf[d]], PromptOf[c]>> \in Matches
  \/ <<PromptOf[d], PromptOf[c]>> \in Resembles

\* Each look-up returns a generation one hop away, since rows are their own.
LEMMA NextReply == TypePart /\ OwnRow /\ ReplyOneHopAway /\ [Next]_vars => ReplyOneHopAway'
<1> SUFFICES ASSUME TypePart, OwnRow, ReplyOneHopAway, [Next]_vars PROVE ReplyOneHopAway'
  OBVIOUS
<1>. USE OrchestratorAssumption
<1>1. ASSUME NEW c \in Call, NEW d \in Call \cup {None}, reply' = [reply EXCEPT ![c] = d],
             d # None => Near(d, c)
      PROVE  ReplyOneHopAway'
  <2>1. \A e \in Call : reply[e] # None => Near(reply[e], e)
    BY DEF ReplyOneHopAway, Near
  <2>2. \A e \in Call : reply'[e] # None => Near(reply'[e], e)
    BY <1>1, <2>1 DEF TypePart
  <2>. QED
    BY <2>2 DEF ReplyOneHopAway, Near
<1>2. CASE UNCHANGED reply
  BY <1>2 DEF ReplyOneHopAway
<1>3. ASSUME NEW c \in Call, ExactGet(c) PROVE ReplyOneHopAway'
  <2>1. exact[Asked(c)] # None => Near(exact[Asked(c)], c)
    BY DEF OwnRow, Asked, Near
  <2>2. exact[Asked(c)] \in Call \cup {None}
    BY DEF TypePart, Asked
  <2>. QED
    BY <1>1, <1>2, <1>3, <2>1, <2>2 DEF ExactGet, Return
<1>4. ASSUME NEW c \in Call, PrefixGet(c) PROVE ReplyOneHopAway'
  <2>1. \A h \in Head : prefix[h] # None /\ <<h, Asked(c)>> \in Matches => Near(prefix[h], c)
    BY DEF OwnRow, Asked, Near
  <2>2. \A h \in Head : prefix[h] \in Call \cup {None}
    BY DEF TypePart
  <2>. QED
    BY <1>1, <1>2, <1>4, <2>1, <2>2 DEF PrefixGet, Return
<1>5. ASSUME NEW c \in Call, SemanticGet(c) PROVE ReplyOneHopAway'
  <2>1. \A p \in Kept : <<p, Asked(c)>> \in Resembles /\ memory[p].by # None
                          => Near(memory[p].by, c)
    BY DEF OwnRow, Asked, Near, Kept
  <2>2. \A p \in Kept : memory[p].by \in Call \cup {None}
    BY DEF TypePart, Kept
  <2>. QED
    BY <1>1, <1>2, <1>5, <2>1, <2>2 DEF SemanticGet, Return
<1>6. ASSUME NEW c \in Call, SemanticPut(c) PROVE ReplyOneHopAway'
  BY <1>1, <1>6 DEF SemanticPut, Return, Near
<1>7. ASSUME NEW c \in Call,
             \/ Begin(c) \/ Acquire(c) \/ Generate(c) \/ ExactPut(c) \/ PrefixPut(c)
             \/ Fault(c) \/ Cancel(c)
      PROVE  UNCHANGED reply
  BY <1>7 DEF Begin, Acquire, Generate, ExactPut, PrefixPut, Fault, Cancel
<1>8. Restart \/ UNCHANGED vars => UNCHANGED reply
  BY DEF Restart, vars
<1>. QED
  BY <1>2, <1>3, <1>4, <1>5, <1>6, <1>7, <1>8 DEF Next, Step

-----------------------------------------------------------------------------

\* The first start satisfies the invariant.
LEMMA InitIInv == Init => IInv
<1> SUFFICES ASSUME Init PROVE IInv
  OBVIOUS
<1>1. Cardinality({c \in Call : pc[c] \in Holding}) = 0
  <2>1. {c \in Call : pc[c] \in Holding} = {}
    BY DEF Init, Holding, Looking, Filling
  <2>. QED
    BY <2>1, FS_EmptySet
<1>2. TypePart
  BY OrchestratorAssumption DEF Init, TypePart, NoEntry
<1>. QED
  BY <1>1, <1>2, OrchestratorAssumption
  DEF Init, IInv, PermitsConserved, OwnRow, KeyHistory, KeptFirst, ReplyOneHopAway, NoEntry

\* The invariant holds in every reachable state.
LEMMA Inductive == Spec => []IInv
<1>1. IInv /\ [Next]_vars => IInv'
  BY NextTypePart, NextPermits, NextOwnRow, NextKeyHistory, NextKeptFirst, NextReply DEF IInv
<1>. QED
  BY InitIInv, <1>1, PTL DEF Spec

\* Every reachable state is well typed, for any number of calls and restarts.
THEOREM TypeCorrect == Spec => []TypeOK
<1>1. IInv => TypeOK
  <2> SUFFICES ASSUME IInv PROVE TypeOK
    OBVIOUS
  <2>1. Cardinality({c \in Call : pc[c] \in Holding}) \in Nat
    BY OrchestratorAssumption, FS_Subset, FS_CardinalityType
  <2>2. permits \in 0..MaxInflight
    BY <2>1, OrchestratorAssumption DEF IInv, PermitsConserved, TypePart
  <2>. QED
    BY <2>2 DEF IInv, TypePart, TypeOK
<1>. QED
  BY <1>1, Inductive, PTL

\* The semaphore and the calls at work always share max_inflight permits.
THEOREM PermitsAlwaysConserved == Spec => []PermitsConserved
<1>1. IInv => PermitsConserved
  BY DEF IInv
<1>. QED
  BY <1>1, Inductive, PTL

\* A cached reply is never further than one match from the prompt it answers.
THEOREM RepliesStayNear == Spec => []ReplyOneHopAway
<1>1. IInv => ReplyOneHopAway
  BY DEF IInv
<1>. QED
  BY <1>1, Inductive, PTL

\* A call that panics at the cut has put its generation into the exact cache.
THEOREM PanicsLeaveAnswers == Spec => []PanicLeavesAnswer
<1>1. IInv => PanicLeavesAnswer
  BY DEF IInv, KeptFirst, PanicLeavesAnswer
<1>. QED
  BY <1>1, Inductive, PTL

\* An entry that cannot be opened was sealed by the first start.
THEOREM SettledKeyAlwaysOpens == Spec => []SettledKeyOpens
<1>1. IInv => SettledKeyOpens
  BY DEF IInv, TypePart, KeyHistory, SettledKeyOpens, Unreadable, Kept
<1>. QED
  BY <1>1, Inductive, PTL
=============================================================================
