------------------------------ MODULE TaskQueue ------------------------------
(***************************************************************************)
(* The asynchronous task queue of the engine (QueueManager and             *)
(* run_queue_worker, core/crates/engine/src/lib.rs).                       *)
(*                                                                         *)
(* A queue_task RPC admits a task by an unsynchronised read of             *)
(* queue_depth, upserts its row in SQLite, pushes it into one of four      *)
(* VecDeques and only then counts it and notifies the worker.  One worker  *)
(* pops by priority, waits for a permit of the inflight semaphore while    *)
(* holding the popped task, and spawns one execution per task.  Every      *)
(* step below is what the code does between two points at which another    *)
(* thread can run; a crash of the host loses everything but the rows.      *)
(***************************************************************************)
EXTENDS Integers, Sequences, FiniteSets

CONSTANTS
  Request,      \* calls of queue_task
  TaskId,       \* primary keys of table queue_tasks
  IdOf,         \* the task_id a call carries; a retry carries the same one
  Prio,         \* the priority a call carries
  MaxInflight,  \* permits of the inflight semaphore
  MaxPending,   \* the admission limit (8 * max_inflight in the code)
  MaxCallers,   \* calls of queue_task in progress at one time
  DepthRange,   \* values of the AtomicUsize queue_depth: 2^64 in the code
  StoreMayFail, \* whether a write of a row may fail
  MaxCrashes    \* bound on crashes of the host

(***************************************************************************)
(* The buckets in the order next_queued_task tries them.                   *)
(***************************************************************************)
Interactive == 1
Connector   == 2
Autonomy    == 3
Background  == 4
Priority    == Interactive..Background

ASSUME QueueAssumption ==
  /\ IsFiniteSet(Request)
  /\ IdOf \in [Request -> TaskId]
  /\ Prio \in [Request -> Priority]
  /\ MaxInflight \in Nat \ {0}
  /\ MaxPending \in Nat \ {0}
  /\ MaxCallers \in Nat \ {0}
  /\ DepthRange \in Nat
  /\ DepthRange > MaxPending + Cardinality(Request)
  /\ StoreMayFail \in BOOLEAN
  /\ MaxCrashes \in Nat

VARIABLES
  call,      \* how far each call of enqueue got
  run,       \* where the task of each call is
  outcome,   \* what tools.execute returned for it
  buckets,   \* QueueInner.pending
  depth,     \* QueueInner.queue_depth
  permits,   \* free permits of QueueInner.inflight
  notified,  \* the permit stored in QueueInner.notify
  worker,    \* where run_queue_worker is
  rows,      \* status column of queue_tasks, "absent" without a row
  crashes,   \* how often the host crashed
  ticket,    \* history: the order of the pushes, 0 before the push
  pushes     \* history: the number of pushes

queueVars   == <<buckets, ticket, pushes>>
workerVars  == <<worker, notified>>
vars == <<call, run, outcome, buckets, depth, permits, notified, worker, rows,
          crashes, ticket, pushes>>

Outcome   == {"completed", "failed"}
RowStatus == {"absent", "queued", "running"} \cup Outcome

\* A call returns "accepted", "rejected" (queue is full) or "errored" (the
\* row could not be stored); "aborted" is a call a crash cut off.
InProgress == {"admitted", "stored", "pushed", "counted"}
CallState  == {"idle", "rejected", "errored", "accepted", "aborted"}
                \cup InProgress

\* A spawned execution holds its permit until the end of its async block.
Executing == {"spawned", "running", "executed", "recorded", "uncounted"}
RunState  == {"none", "pending", "held", "finished", "lost"} \cup Executing

Calls(states) == {r \in Request : call[r] \in states}
Runs(states)  == {r \in Request : run[r] \in states}

-----------------------------------------------------------------------------

Init ==
  /\ call     = [r \in Request |-> "idle"]
  /\ run      = [r \in Request |-> "none"]
  /\ outcome  = [r \in Request |-> "none"]
  /\ buckets  = [p \in Priority |-> <<>>]
  /\ depth    = 0
  /\ permits  = MaxInflight
  /\ notified = FALSE
  /\ worker   = "waiting"
  /\ rows     = [id \in TaskId |-> "absent"]
  /\ crashes  = 0
  /\ ticket   = [r \in Request |-> 0]
  /\ pushes   = 0

(***************************************************************************)
(* A write of a row: store_queue_task and update_queue_status are single   *)
(* statements under the connection lock.  A failed update is discarded     *)
(* (let _ = ...).                                                          *)
(***************************************************************************)
WriteRow(id, status) ==
  \/ rows' = [rows EXCEPT ![id] = status]
  \/ StoreMayFail /\ UNCHANGED rows

\* Mutant: a signed counter instead of an AtomicUsize.
SignedDepth(n) == n

(* AtomicUsize arithmetic wraps; one step past either end is all it takes. *)
Wrapped(n) ==
  IF n < 0 THEN n + DepthRange ELSE IF n >= DepthRange THEN n - DepthRange ELSE n

\* Mutant: > for >= in the admission test.
AdmitOneMore(r) ==
  /\ call[r] = "idle"
  /\ Cardinality(Calls(InProgress)) < MaxCallers
  /\ call' = [call EXCEPT ![r] = IF depth > MaxPending THEN "rejected"
                                                       ELSE "admitted"]
  /\ UNCHANGED <<run, outcome, queueVars, depth, permits, workerVars, rows, crashes>>

(* enqueue: the admission test against an unsynchronised load of depth. *)
Admit(r) ==
  /\ call[r] = "idle"
  /\ Cardinality(Calls(InProgress)) < MaxCallers
  /\ call' = [call EXCEPT ![r] = IF depth >= MaxPending THEN "rejected"
                                                        ELSE "admitted"]
  /\ UNCHANGED <<run, outcome, queueVars, depth, permits, workerVars, rows, crashes>>

(* enqueue: the upsert; its error is returned to the caller. *)
StoreRow(r) ==
  /\ call[r] = "admitted"
  /\ \/ /\ rows' = [rows EXCEPT ![IdOf[r]] = "queued"]
        /\ call' = [call EXCEPT ![r] = "stored"]
     \/ /\ StoreMayFail
        /\ call' = [call EXCEPT ![r] = "errored"]
        /\ UNCHANGED rows
  /\ UNCHANGED <<run, outcome, queueVars, depth, permits, workerVars, crashes>>

\* Mutant: push_front for push_back.
PushFront(r) ==
  /\ call[r] = "stored"
  /\ call' = [call EXCEPT ![r] = "pushed"]
  /\ run' = [run EXCEPT ![r] = "pending"]
  /\ buckets' = [buckets EXCEPT ![Prio[r]] = <<r>> \o @]
  /\ pushes' = pushes + 1
  /\ ticket' = [ticket EXCEPT ![r] = pushes + 1]
  /\ UNCHANGED <<outcome, depth, permits, workerVars, rows, crashes>>

(* enqueue: push_back under the lock of pending. *)
Push(r) ==
  /\ call[r] = "stored"
  /\ call' = [call EXCEPT ![r] = "pushed"]
  /\ run' = [run EXCEPT ![r] = "pending"]
  /\ buckets' = [buckets EXCEPT ![Prio[r]] = Append(@, r)]
  /\ pushes' = pushes + 1
  /\ ticket' = [ticket EXCEPT ![r] = pushes + 1]
  /\ UNCHANGED <<outcome, depth, permits, workerVars, rows, crashes>>

(* enqueue: fetch_add, after the task is already visible to the worker. *)
Count(r) ==
  /\ call[r] = "pushed"
  /\ call' = [call EXCEPT ![r] = "counted"]
  /\ depth' = Wrapped(depth + 1)
  /\ UNCHANGED <<run, outcome, queueVars, permits, workerVars, rows, crashes>>

(* enqueue: notify_one stores at most one permit, and the call returns. *)
NotifyWorker(r) ==
  /\ call[r] = "counted"
  /\ call' = [call EXCEPT ![r] = "accepted"]
  /\ notified' = TRUE
  /\ UNCHANGED <<run, outcome, queueVars, depth, permits, worker, rows, crashes>>

-----------------------------------------------------------------------------

(* run_queue_worker: notify.notified().await takes the stored permit. *)
Wake ==
  /\ worker = "waiting"
  /\ notified
  /\ worker' = "draining"
  /\ notified' = FALSE
  /\ UNCHANGED <<call, run, outcome, queueVars, depth, permits, rows, crashes>>

\* Mutant: the buckets are tried in the opposite order.
PopLeastUrgent(r) ==
  /\ worker = "draining"
  /\ \E p \in Priority :
       /\ \A q \in Priority : q > p => buckets[q] = <<>>
       /\ buckets[p] # <<>>
       /\ r = Head(buckets[p])
       /\ buckets' = [buckets EXCEPT ![p] = Tail(@)]
  /\ run' = [run EXCEPT ![r] = "held"]
  /\ worker' = "holding"
  /\ UNCHANGED <<call, outcome, depth, permits, notified, rows, crashes, ticket, pushes>>

\* Mutant: the row says "running" while the task still waits for its permit.
PopMarksRunning(r) ==
  /\ worker = "draining"
  /\ \E p \in Priority :
       /\ \A q \in Priority : q < p => buckets[q] = <<>>
       /\ buckets[p] # <<>>
       /\ r = Head(buckets[p])
       /\ buckets' = [buckets EXCEPT ![p] = Tail(@)]
  /\ run' = [run EXCEPT ![r] = "held"]
  /\ worker' = "holding"
  /\ WriteRow(IdOf[r], "running")
  /\ UNCHANGED <<call, outcome, depth, permits, notified, crashes, ticket, pushes>>

(* next_queued_task: the first bucket that is not empty. *)
Pop(r) ==
  /\ worker = "draining"
  /\ \E p \in Priority :
       /\ \A q \in Priority : q < p => buckets[q] = <<>>
       /\ buckets[p] # <<>>
       /\ r = Head(buckets[p])
       /\ buckets' = [buckets EXCEPT ![p] = Tail(@)]
  /\ run' = [run EXCEPT ![r] = "held"]
  /\ worker' = "holding"
  /\ UNCHANGED <<call, outcome, depth, permits, notified, rows, crashes, ticket, pushes>>

(* next_queued_task returns None: the while loop ends. *)
Drained ==
  /\ worker = "draining"
  /\ \A p \in Priority : buckets[p] = <<>>
  /\ worker' = "waiting"
  /\ UNCHANGED <<call, run, outcome, queueVars, depth, permits, notified, rows, crashes>>

\* Mutant: the execution is spawned before its permit is free.
SpawnAtOnce(r) ==
  /\ worker = "holding"
  /\ run[r] = "held"
  /\ permits' = IF permits > 0 THEN permits - 1 ELSE 0
  /\ run' = [run EXCEPT ![r] = "spawned"]
  /\ worker' = "draining"
  /\ UNCHANGED <<call, outcome, queueVars, depth, notified, rows, crashes>>

\* Mutant: if let for while let, one task per notification.
SpawnThenWait(r) ==
  /\ worker = "holding"
  /\ run[r] = "held"
  /\ permits > 0
  /\ permits' = permits - 1
  /\ run' = [run EXCEPT ![r] = "spawned"]
  /\ worker' = "waiting"
  /\ UNCHANGED <<call, outcome, queueVars, depth, notified, rows, crashes>>

(* acquire_owned().await returns and the execution is spawned. *)
Spawn(r) ==
  /\ worker = "holding"
  /\ run[r] = "held"
  /\ permits > 0
  /\ permits' = permits - 1
  /\ run' = [run EXCEPT ![r] = "spawned"]
  /\ worker' = "draining"
  /\ UNCHANGED <<call, outcome, queueVars, depth, notified, rows, crashes>>

-----------------------------------------------------------------------------

(* The first statement of the execution's async block. *)
MarkRunning(r) ==
  /\ run[r] = "spawned"
  /\ run' = [run EXCEPT ![r] = "running"]
  /\ WriteRow(IdOf[r], "running")
  /\ UNCHANGED <<call, outcome, queueVars, depth, permits, workerVars, crashes>>

(* tools.execute and, on success, brain.ingest_tool_result. *)
Execute(r) ==
  /\ run[r] = "running"
  /\ run' = [run EXCEPT ![r] = "executed"]
  /\ \E o \in Outcome : outcome' = [outcome EXCEPT ![r] = o]
  /\ UNCHANGED <<call, queueVars, depth, permits, workerVars, rows, crashes>>

\* Mutant: only a success is written to the row.
RecordSuccess(r) ==
  /\ run[r] = "executed"
  /\ run' = [run EXCEPT ![r] = "recorded"]
  /\ IF outcome[r] = "completed" THEN WriteRow(IdOf[r], outcome[r])
                                 ELSE UNCHANGED rows
  /\ UNCHANGED <<call, outcome, queueVars, depth, permits, workerVars, crashes>>

(* The final update_queue_status. *)
RecordOutcome(r) ==
  /\ run[r] = "executed"
  /\ run' = [run EXCEPT ![r] = "recorded"]
  /\ WriteRow(IdOf[r], outcome[r])
  /\ UNCHANGED <<call, outcome, queueVars, depth, permits, workerVars, crashes>>

\* Mutant: only a success is uncounted.
UncountSuccess(r) ==
  /\ run[r] = "recorded"
  /\ run' = [run EXCEPT ![r] = "uncounted"]
  /\ depth' = IF outcome[r] = "completed" THEN Wrapped(depth - 1) ELSE depth
  /\ UNCHANGED <<call, outcome, queueVars, permits, workerVars, rows, crashes>>

(* fetch_sub: wraps below zero when the caller has not counted yet. *)
Uncount(r) ==
  /\ run[r] = "recorded"
  /\ run' = [run EXCEPT ![r] = "uncounted"]
  /\ depth' = Wrapped(depth - 1)
  /\ UNCHANGED <<call, outcome, queueVars, permits, workerVars, rows, crashes>>

\* Mutant: a failed execution forgets its permit.
ReleaseSuccess(r) ==
  /\ run[r] = "uncounted"
  /\ run' = [run EXCEPT ![r] = "finished"]
  /\ permits' = IF outcome[r] = "completed" THEN permits + 1 ELSE permits
  /\ UNCHANGED <<call, outcome, queueVars, depth, workerVars, rows, crashes>>

(* The end of the async block drops _permit. *)
Release(r) ==
  /\ run[r] = "uncounted"
  /\ run' = [run EXCEPT ![r] = "finished"]
  /\ permits' = permits + 1
  /\ UNCHANGED <<call, outcome, queueVars, depth, workerVars, rows, crashes>>

(***************************************************************************)
(* The host dies and QueueManager::new runs again: the new queue starts    *)
(* empty and does not read queue_tasks.                                    *)
(***************************************************************************)
Crash ==
  /\ crashes < MaxCrashes
  /\ crashes'  = crashes + 1
  /\ call'     = [r \in Request |-> IF call[r] \in InProgress THEN "aborted"
                                                              ELSE call[r]]
  /\ run'      = [r \in Request |->
                   IF run[r] \in {"none", "lost"} THEN run[r]
                   ELSE IF run[r] \in {"uncounted", "finished"} THEN "finished"
                   ELSE "lost"]
  /\ buckets'  = [p \in Priority |-> <<>>]
  /\ depth'    = 0
  /\ permits'  = MaxInflight
  /\ notified' = FALSE
  /\ worker'   = "waiting"
  /\ UNCHANGED <<outcome, rows, ticket, pushes>>

Caller(r) == StoreRow(r) \/ Push(r) \/ Count(r) \/ NotifyWorker(r)

Execution(r) ==
  MarkRunning(r) \/ Execute(r) \/ RecordOutcome(r) \/ Uncount(r) \/ Release(r)

Worker == Wake \/ Drained \/ \E r \in Request : Pop(r) \/ Spawn(r)

Next ==
  \/ \E r \in Request : Admit(r) \/ Caller(r) \/ Execution(r)
  \/ Worker
  \/ Crash

Spec == Init /\ [][Next]_vars

(***************************************************************************)
(* The tokio scheduler keeps polling every task that is ready: a call past *)
(* its admission test, the worker and every execution make progress.       *)
(* Whether a client calls at all is its own choice.                        *)
(***************************************************************************)
Fairness ==
  /\ WF_vars(Worker)
  /\ \A r \in Request : WF_vars(Caller(r)) /\ WF_vars(Execution(r))

FairSpec == Spec /\ Fairness

-----------------------------------------------------------------------------
(* Properties. *)

TypeOK ==
  /\ call \in [Request -> CallState]
  /\ run \in [Request -> RunState]
  /\ outcome \in [Request -> Outcome \cup {"none"}]
  /\ buckets \in [Priority -> Seq(Request)]
  /\ depth \in 0..(DepthRange - 1)
  /\ permits \in 0..MaxInflight
  /\ notified \in BOOLEAN
  /\ worker \in {"waiting", "draining", "holding"}
  /\ rows \in [TaskId -> RowStatus]
  /\ crashes \in 0..MaxCrashes
  /\ ticket \in [Request -> Nat]
  /\ pushes \in Nat

\* Tasks queue_depth stands for: counted by their call, not yet uncounted.
Outstanding ==
  Calls({"counted", "accepted"}) \ Runs({"uncounted", "finished", "lost"})

\* Tasks already uncounted although their call has not counted them.
Early == Calls({"pushed"}) \cap Runs({"uncounted", "finished"})

\* Permits are conserved: the semaphore and the executions share them, so at
\* most max_inflight tools run at once, whatever crashes and failures happen.
PermitsConserved == permits + Cardinality(Runs(Executing)) = MaxInflight

\* queue_depth is the number of outstanding tasks, less the tasks that ran to
\* the end between their push_back and their fetch_add; below zero it wraps.
\* Between calls it is exact: neither a failure nor a lost race leaks depth.
DepthExact ==
  depth = Wrapped(Cardinality(Outstanding) - Cardinality(Early))

\* The admission test is a check-then-act: concurrent calls overrun
\* max_pending, but never by more than the other calls in progress.
Backlog == (Calls({"admitted", "stored", "pushed"}) \cup Outstanding) \ Early
OverrunBound == Cardinality(Backlog) < MaxPending + MaxCallers

\* The deques hold exactly the tasks that wait, each in the deque of its
\* priority and once, oldest first: none is lost and none can run twice.
BucketsHoldWaiting ==
  /\ \A p \in Priority : \A i \in 1..Len(buckets[p]) :
       run[buckets[p][i]] = "pending" /\ Prio[buckets[p][i]] = p
  /\ \A p \in Priority : \A i, j \in 1..Len(buckets[p]) :
       i < j => ticket[buckets[p][i]] < ticket[buckets[p][j]]
  /\ \A r \in Runs({"pending"}) :
       \E i \in 1..Len(buckets[Prio[r]]) : buckets[Prio[r]][i] = r

\* "Background autonomy work is separated from interactive work by a queue
\* manager with explicit priorities": a task the worker took never left an
\* earlier task of the same or a more urgent priority behind in a deque.
NoOvertaking ==
  \A q, r \in Request :
    /\ ticket[q] < ticket[r]
    /\ Prio[q] <= Prio[r]
    /\ run[r] \in {"held"} \cup Executing
    => run[q] # "pending"

\* The status column never runs ahead of the execution it reports, also when
\* two calls share a task_id, updates are lost or the host crashes.
RowNeverAhead ==
  \A id \in TaskId :
    LET copies == {r \in Request : IdOf[r] = id} IN
    /\ rows[id] = "running" =>
         \E r \in copies : run[r] \notin {"none", "pending", "held", "spawned"}
    /\ rows[id] \in Outcome => \E r \in copies : outcome[r] = rows[id]

\* When every call for a task_id has ended and every copy of it has run, the
\* row shows the outcome of one of the copies.
RowSettles ==
  \A id \in TaskId :
    LET copies  == {r \in Request : IdOf[r] = id}
        settled == {r \in copies : run[r] \in {"recorded", "uncounted", "finished"}}
    IN  /\ settled # {}
        /\ copies \subseteq settled \cup Calls({"idle", "admitted", "rejected"})
        => \E r \in settled : rows[id] = outcome[r]

\* Every task a call accepted runs to the end unless a crash loses it: no
\* notification is lost, although notify_one keeps a single permit.
AcceptedRuns ==
  \A r \in Request : call[r] = "accepted" ~> run[r] \in {"finished", "lost"}

-----------------------------------------------------------------------------
(***************************************************************************)
(* The queue implements TaskPool.  A request enters at push_back, becomes  *)
(* active when its execution is spawned and is done once it is uncounted;  *)
(* the limit is max_pending plus the overrun the admission test allows.    *)
(***************************************************************************)
Refused == {"rejected", "errored", "aborted"}
PhaseOf(r) ==
  IF run[r] = "none" THEN IF call[r] \in Refused THEN "refused" ELSE "new"
  ELSE IF run[r] \in {"pending", "held"} THEN "waiting"
  ELSE IF run[r] \in {"uncounted", "finished"} THEN "done"
  ELSE IF run[r] = "lost" THEN "lost" ELSE "active"

Pool == INSTANCE TaskPool WITH
          Capacity <- MaxInflight,
          Limit    <- MaxPending + MaxCallers - 1,
          phase    <- [r \in Request |-> PhaseOf(r)],
          entry    <- ticket,
          entries  <- pushes

\* The queue starts tasks in the promised order, never more than max_inflight
\* at once, and holds no more than the limit.
ImplementsPool == Pool!Spec
=============================================================================
