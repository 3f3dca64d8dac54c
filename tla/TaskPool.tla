------------------------------- MODULE TaskPool -------------------------------
(***************************************************************************)
(* What the task queue promises, without threads, counters or semaphores:  *)
(* a pool that runs at most Capacity tasks at once, lets at most Limit     *)
(* tasks be unfinished, and starts the waiting tasks by priority and, at   *)
(* equal priority, in the order they entered.                              *)
(***************************************************************************)
EXTENDS Naturals, FiniteSets

CONSTANTS Request, Prio, Capacity, Limit

VARIABLES phase,    \* the life of each request
          entry,    \* the order of entry, 0 before it
          entries   \* number of entries

poolVars == <<phase, entry, entries>>

Phase == {"new", "refused", "waiting", "active", "done", "lost"}
In(p) == {r \in Request : phase[r] = p}

Init ==
  /\ phase   = [r \in Request |-> "new"]
  /\ entry   = [r \in Request |-> 0]
  /\ entries = 0

Refuse(r) ==
  /\ phase[r] = "new"
  /\ phase' = [phase EXCEPT ![r] = "refused"]
  /\ UNCHANGED <<entry, entries>>

Enter(r) ==
  /\ phase[r] = "new"
  /\ Cardinality(In("waiting") \cup In("active")) < Limit
  /\ phase' = [phase EXCEPT ![r] = "waiting"]
  /\ entries' = entries + 1
  /\ entry' = [entry EXCEPT ![r] = entries + 1]

Start(r) ==
  /\ phase[r] = "waiting"
  /\ Cardinality(In("active")) < Capacity
  /\ \A q \in In("waiting") : Prio[q] <= Prio[r] => entry[r] <= entry[q]
  /\ phase' = [phase EXCEPT ![r] = "active"]
  /\ UNCHANGED <<entry, entries>>

Finish(r) ==
  /\ phase[r] = "active"
  /\ phase' = [phase EXCEPT ![r] = "done"]
  /\ UNCHANGED <<entry, entries>>

(* A restart loses every unfinished request and refuses the calls it cut off. *)
Restart ==
  /\ \E cut \in SUBSET In("new") :
       phase' = [r \in Request |->
                   IF r \in cut THEN "refused"
                   ELSE IF phase[r] \in {"waiting", "active"} THEN "lost"
                   ELSE phase[r]]
  /\ UNCHANGED <<entry, entries>>

Next ==
  \/ \E r \in Request : Refuse(r) \/ Enter(r) \/ Start(r) \/ Finish(r)
  \/ Restart

Spec == Init /\ [][Next]_poolVars
=============================================================================
