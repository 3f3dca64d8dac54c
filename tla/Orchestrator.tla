----------------------------- MODULE Orchestrator -----------------------------
(***************************************************************************)
(* generate_with_route of the engine (core/crates/engine/src/lib.rs):      *)
(* concurrent calls, bounded by a semaphore, look a prompt up in the exact,*)
(* the prefix and the semantic cache, ask the providers if all three miss, *)
(* and fill the caches one after the other.  The semantic cache is sealed  *)
(* with the data key of EncryptionManager, which is part of this module    *)
(* because it changes when the engine is started for the second time.      *)
(*                                                                         *)
(* Every look-up and every put is one method of the store, that is one     *)
(* statement under its mutex; calls interleave between them.               *)
(***************************************************************************)
EXTENDS Naturals, FiniteSets

CONSTANTS
  Call, Prompt,  \* calls of generate_with_route and the prompts they bring
  PromptOf,      \* the prompt of a call
  Head, HeadOf,  \* rows of the prefix cache: the first 128 bytes of a prompt
  Length,        \* length of a head
  Matches,       \* <<head, prompt>>: prompt LIKE head || '%'
  Resembles,     \* <<p, q>>: what the semantic cache keeps for p scores 0.92 with q
  Ragged,        \* prompts whose byte 128 is inside a character
  None,          \* no entry, no reply
  MaxInflight,   \* permits of the semaphore
  MaxStarts, MaxFaults   \* bounds on restarts and failing statements

ASSUME OrchestratorAssumption ==
  /\ IsFiniteSet(Call)
  /\ PromptOf \in [Call -> Prompt]
  /\ HeadOf \in [Prompt -> Head] /\ Length \in [Head -> Nat]
  /\ Matches \subseteq Head \X Prompt
  /\ \A p \in Prompt : <<HeadOf[p], p>> \in Matches
  /\ Resembles \subseteq Prompt \X Prompt
  /\ Ragged \subseteq Prompt
  /\ None \notin Call
  /\ MaxInflight \in Nat \ {0} /\ MaxStarts \in Nat \ {0} /\ MaxFaults \in Nat

VARIABLES
  pc,       \* how far each call got
  reply,    \* the call whose generation a call returns, None before
  exact,    \* prompt_cache: the generation kept for a prompt
  prefix,   \* prefix_cache: the generation kept for a head
  memory,   \* vector_memory, namespace semantic-cache: generation and key
  permits,  \* free permits of the semaphore
  key,      \* the data key: how often it was hashed since it was drawn
  starts,   \* how often the engine was started
  faults    \* how many statements failed

caches == <<exact, prefix, memory>>
vars   == <<pc, reply, caches, permits, key, starts, faults>>

NoEntry == [by |-> None, key |-> 0]

\* States of a call that has a permit, and the ends it can come to.
Looking == {"admitted", "exact_missed", "prefix_missed"}
Filling == {"generated", "exact_kept", "prefix_kept"}
Holding == Looking \cup {"asking"} \cup Filling
Ended   == {"answered", "errored", "panicked", "cancelled", "lost"}

Asked(c) == PromptOf[c]
Goto(c, from, to) == pc[c] = from /\ pc' = [pc EXCEPT ![c] = to]

\* _permit is dropped when the call returns, unwinds or is dropped itself.
End(c, from, to) == Goto(c, from, to) /\ permits' = permits + 1
Return(c, from, generation) ==
  /\ End(c, from, "answered")
  /\ reply' = [reply EXCEPT ![c] = generation]

-----------------------------------------------------------------------------

\* The first start draws the data key and writes it to the key file.
Init ==
  /\ pc      = [c \in Call |-> "idle"]
  /\ reply   = [c \in Call |-> None]
  /\ exact   = [p \in Prompt |-> None]
  /\ prefix  = [h \in Head |-> None]
  /\ memory  = [p \in Prompt |-> NoEntry]
  /\ permits = MaxInflight
  /\ key     = 0
  /\ starts  = 1
  /\ faults  = 0

Begin(c) ==
  /\ Goto(c, "idle", "waiting")
  /\ UNCHANGED <<reply, caches, permits, key, starts, faults>>

Acquire(c) ==
  /\ permits > 0
  /\ permits' = permits - 1
  /\ Goto(c, "waiting", "admitted")
  /\ UNCHANGED <<reply, caches, key, starts, faults>>

ExactGet(c) ==
  /\ IF exact[Asked(c)] # None
       THEN Return(c, "admitted", exact[Asked(c)])
       ELSE Goto(c, "admitted", "exact_missed") /\ UNCHANGED <<reply, permits>>
  /\ UNCHANGED <<caches, key, starts, faults>>

\* The longest head the prompt begins like.
PrefixGet(c) ==
  LET hits == {h \in Head : prefix[h] # None /\ <<h, Asked(c)>> \in Matches} IN
  /\ \/ /\ hits = {}
        /\ Goto(c, "exact_missed", "prefix_missed")
        /\ UNCHANGED <<reply, permits>>
     \/ \E h \in hits :
          /\ \A g \in hits : Length[g] <= Length[h]
          /\ Return(c, "exact_missed", prefix[h])
  /\ UNCHANGED <<caches, key, starts, faults>>

(***************************************************************************)
(* query_memory decrypts every entry of the namespace before it ranks      *)
(* them, and one that was sealed with another key fails the call.          *)
(***************************************************************************)
Kept       == {p \in Prompt : memory[p] # NoEntry}
Unreadable == {p \in Kept : memory[p].key # key}

\* Mutant: a semantic hit is kept for the head of the prompt.
SemanticGetAndKeep(c) ==
  LET hits == {p \in Kept : <<p, Asked(c)>> \in Resembles} IN
  /\ \/ /\ Unreadable # {} /\ End(c, "prefix_missed", "errored")
        /\ UNCHANGED <<reply, prefix>>
     \/ /\ Unreadable = {} /\ hits = {}
        /\ Goto(c, "prefix_missed", "asking")
        /\ UNCHANGED <<reply, permits, prefix>>
     \/ /\ Unreadable = {}
        /\ \E p \in hits : /\ Return(c, "prefix_missed", memory[p].by)
                           /\ prefix' = [prefix EXCEPT ![HeadOf[Asked(c)]] = memory[p].by]
  /\ UNCHANGED <<exact, memory, key, starts, faults>>

SemanticGet(c) ==
  LET hits == {p \in Kept : <<p, Asked(c)>> \in Resembles} IN
  /\ \/ Unreadable # {} /\ End(c, "prefix_missed", "errored") /\ UNCHANGED reply
     \/ /\ Unreadable = {} /\ hits = {}
        /\ Goto(c, "prefix_missed", "asking")
        /\ UNCHANGED <<reply, permits>>
     \/ /\ Unreadable = {}
        /\ \E p \in hits : Return(c, "prefix_missed", memory[p].by)
  /\ UNCHANGED <<caches, key, starts, faults>>

(***************************************************************************)
(* generate_live: the providers of the route in their order and perhaps a  *)
(* draft beside them; one of them answers or none does.                    *)
(***************************************************************************)
Generate(c) ==
  /\ \/ Goto(c, "asking", "generated") /\ UNCHANGED permits
     \/ End(c, "asking", "errored")
  /\ UNCHANGED <<reply, caches, key, starts, faults>>

\* Mutant: the prefix is cut before the exact cache is filled.
CutFirst(c) ==
  /\ IF Asked(c) \in Ragged
       THEN End(c, "generated", "panicked") /\ UNCHANGED exact
       ELSE /\ Goto(c, "generated", "exact_kept")
            /\ exact' = [exact EXCEPT ![Asked(c)] = c]
            /\ UNCHANGED permits
  /\ UNCHANGED <<reply, prefix, memory, key, starts, faults>>

ExactPut(c) ==
  /\ Goto(c, "generated", "exact_kept")
  /\ exact' = [exact EXCEPT ![Asked(c)] = c]
  /\ UNCHANGED <<reply, prefix, memory, permits, key, starts, faults>>

\* Mutant: the permit is not given back when the call unwinds.
PanicKeepsPermit(c) ==
  /\ IF Asked(c) \in Ragged
       THEN Goto(c, "exact_kept", "panicked") /\ UNCHANGED prefix
       ELSE /\ Goto(c, "exact_kept", "prefix_kept")
            /\ prefix' = [prefix EXCEPT ![HeadOf[Asked(c)]] = c]
  /\ UNCHANGED <<reply, exact, memory, permits, key, starts, faults>>

\* &prompt[..128] panics inside a character; the task of the call unwinds.
PrefixPut(c) ==
  /\ IF Asked(c) \in Ragged
       THEN End(c, "exact_kept", "panicked") /\ UNCHANGED prefix
       ELSE /\ Goto(c, "exact_kept", "prefix_kept")
            /\ prefix' = [prefix EXCEPT ![HeadOf[Asked(c)]] = c]
            /\ UNCHANGED permits
  /\ UNCHANGED <<reply, exact, memory, key, starts, faults>>

\* An error of upsert_memory is ignored.
SemanticPut(c) ==
  /\ Return(c, "prefix_kept", c)
  /\ \/ /\ memory' = [memory EXCEPT ![Asked(c)] = [by |-> c, key |-> key]]
        /\ UNCHANGED faults
     \/ faults < MaxFaults /\ faults' = faults + 1 /\ UNCHANGED memory
  /\ UNCHANGED <<exact, prefix, key, starts>>

\* A statement of a look-up or of the first two puts fails.
Fault(c) ==
  /\ faults < MaxFaults
  /\ faults' = faults + 1
  /\ \E from \in (Looking \cup Filling) \ {"prefix_kept"} : End(c, from, "errored")
  /\ UNCHANGED <<reply, caches, key, starts>>

\* The gateway's deadline drops the call where it awaits.
Cancel(c) ==
  /\ \/ Goto(c, "waiting", "cancelled") /\ UNCHANGED permits
     \/ End(c, "asking", "cancelled")
  /\ UNCHANGED <<reply, caches, key, starts, faults>>

\* Mutant: the digest is written back to the key file.
RestartAndRehash ==
  /\ starts < MaxStarts
  /\ starts' = starts + 1
  /\ key' = key + 1
  /\ pc' = [c \in Call |-> IF pc[c] \in {"waiting"} \cup Holding THEN "lost" ELSE pc[c]]
  /\ permits' = MaxInflight
  /\ UNCHANGED <<reply, caches, faults>>

(***************************************************************************)
(* The engine ends, or is killed, and starts again: the caches are tables. *)
(* load_or_init now finds the key file, and hashes what it reads.          *)
(***************************************************************************)
Restart ==
  /\ starts < MaxStarts
  /\ starts' = starts + 1
  /\ key' = 1
  /\ pc' = [c \in Call |-> IF pc[c] \in {"waiting"} \cup Holding THEN "lost" ELSE pc[c]]
  /\ permits' = MaxInflight
  /\ UNCHANGED <<reply, caches, faults>>

Step(c) ==
  \/ Begin(c) \/ Acquire(c) \/ ExactGet(c) \/ PrefixGet(c) \/ SemanticGet(c) \/ Generate(c)
  \/ ExactPut(c) \/ PrefixPut(c) \/ SemanticPut(c)

Next ==
  \/ \E c \in Call : Step(c) \/ Fault(c) \/ Cancel(c)
  \/ Restart

Spec == Init /\ [][Next]_vars

-----------------------------------------------------------------------------
(* Properties.                                                             *)

TypeOK ==
  /\ pc \in [Call -> {"idle", "waiting"} \cup Holding \cup Ended]
  /\ reply \in [Call -> Call \cup {None}]
  /\ exact \in [Prompt -> Call \cup {None}]
  /\ prefix \in [Head -> Call \cup {None}]
  /\ memory \in [Prompt -> [by : Call \cup {None}, key : {0, 1}]]
  /\ permits \in 0..MaxInflight
  /\ key \in {0, 1} /\ starts \in 1..MaxStarts /\ faults \in 0..MaxFaults

\* At most max_inflight calls work at once, and no error, panic, dropped call
\* or restart loses a permit of the semaphore.
PermitsConserved ==
  permits + Cardinality({c \in Call : pc[c] \in Holding}) = MaxInflight

\* A reply was generated for the prompt itself, for a prompt with a head this one
\* begins like, or for one whose semantic entry resembles it.  Hits are not
\* cached again: two such steps never add up to a reply further away.
ReplyOneHopAway ==
  \A c \in Call : reply[c] # None =>
    LET source == PromptOf[reply[c]] IN
    \/ source = PromptOf[c]
    \/ <<HeadOf[source], PromptOf[c]>> \in Matches
    \/ <<source, PromptOf[c]>> \in Resembles

\* The caches are filled in an order that makes a retry safe: a call that
\* panicked on its prefix left its generation in the exact cache, where
\* the next call with the prompt finds it.
PanicLeavesAnswer ==
  \A c \in Call : pc[c] = "panicked" => exact[PromptOf[c]] # None

\* The data key settles with the second start: what that start and later ones
\* seal, every later one can open.
SettledKeyOpens ==
  \A p \in Unreadable : memory[p].key = 0 /\ starts > 1

\* Semantic cache entries are kept "in encrypted local vector-memory records"
\* (docs/architecture.md) that the engine can open.
MemoryOpens == Unreadable = {}
=============================================================================
