---- MODULE MCTaskQueue ----
(***************************************************************************)
(* Instance of TaskQueue for TLC: r1 and r2 are two calls with one task_id *)
(* and one priority (a client that retries, or a burst in one deque); r3   *)
(* is another task of a less urgent priority.                              *)
(***************************************************************************)
EXTENDS TaskQueue

CONSTANTS r1, r2, r3, a, b

MCRequest == {r1, r2, r3}
MCTaskId  == {a, b}
MCIdOf == [r \in MCRequest |-> IF r = r3 THEN b ELSE a]
MCPrio == [r \in MCRequest |-> IF r = r3 THEN Autonomy ELSE Connector]
====
