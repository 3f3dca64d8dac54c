--------------------------- MODULE TaskQueueProofs ---------------------------
(***************************************************************************)
(* Proofs about TaskQueue for every set of calls, every limit and any      *)
(* number of crashes.                                                      *)
(***************************************************************************)
EXTENDS TaskQueue, FiniteSetTheorems, TLAPS

(***************************************************************************)
(* The type invariant without the upper bound of permits, which follows    *)
(* from their conservation.                                                *)
(***************************************************************************)
TypePart ==
  /\ call \in [Request -> CallState]
  /\ run \in [Request -> RunState]
  /\ outcome \in [Request -> Outcome \cup {"none"}]
  /\ buckets \in [Priority -> Seq(Request)]
  /\ depth \in 0..(DepthRange - 1)
  /\ permits \in Nat
  /\ notified \in BOOLEAN
  /\ worker \in {"waiting", "draining", "holding"}
  /\ rows \in [TaskId -> RowStatus]
  /\ crashes \in 0..MaxCrashes
  /\ ticket \in [Request -> Nat]
  /\ pushes \in Nat
  /\ \A r \in Request : run[r] = "executed" => outcome[r] \in Outcome

\* The number of calls is a natural number.
LEMMA RequestCount == Cardinality(Request) \in Nat
  BY QueueAssumption, FS_CardinalityType

\* Initial states are well typed.
LEMMA InitTypePart == Init => TypePart
<1> SUFFICES ASSUME Init PROVE TypePart
  OBVIOUS
<1> USE QueueAssumption, RequestCount DEF Init
<1>1. depth \in 0..(DepthRange - 1) /\ permits \in Nat /\ crashes \in 0..MaxCrashes
  OBVIOUS
<1>2. buckets \in [Priority -> Seq(Request)]
  OBVIOUS
<1>3. /\ call \in [Request -> CallState]
      /\ run \in [Request -> RunState]
      /\ rows \in [TaskId -> RowStatus]
  BY DEF CallState, RunState, RowStatus
<1>4. \A r \in Request : run[r] = "executed" => outcome[r] \in Outcome
  OBVIOUS
<1>. QED
  BY <1>1, <1>2, <1>3, <1>4 DEF TypePart

\* One step past either end, the counter wraps into its range.
LEMMA WrappedRange ==
  ASSUME NEW n \in -1..DepthRange
  PROVE  Wrapped(n) \in 0..(DepthRange - 1)
  BY RequestCount, QueueAssumption DEF Wrapped

\* A write of a row, failed or not, leaves the rows well typed.
LEMMA WriteRowType ==
  ASSUME TypePart, NEW id \in TaskId, NEW s \in RowStatus, WriteRow(id, s)
  PROVE  rows' \in [TaskId -> RowStatus]
  BY DEF TypePart, WriteRow

\* Every step of the queue preserves the types.
LEMMA NextTypePart == TypePart /\ [Next]_vars => TypePart'
<1> SUFFICES ASSUME TypePart, [Next]_vars
             PROVE  TypePart'
  OBVIOUS
<1> USE QueueAssumption DEF TypePart, queueVars, workerVars
<1>1. ASSUME NEW r \in Request, Admit(r)
      PROVE  TypePart'
  BY <1>1 DEF Admit, CallState, InProgress
<1>2. ASSUME NEW r \in Request, StoreRow(r)
      PROVE  TypePart'
  BY <1>2 DEF StoreRow, CallState, InProgress, RowStatus
<1>3. ASSUME NEW r \in Request, Push(r)
      PROVE  TypePart'
  <2>1. buckets' \in [Priority -> Seq(Request)]
    BY <1>3 DEF Push
  <2>. QED
    BY <1>3, <2>1 DEF Push, CallState, InProgress, RunState
<1>4. ASSUME NEW r \in Request, Count(r)
      PROVE  TypePart'
  <2>1. depth' \in 0..(DepthRange - 1)
    BY <1>4, WrappedRange DEF Count
  <2>. QED
    BY <1>4, <2>1 DEF Count, CallState, InProgress
<1>5. ASSUME NEW r \in Request, NotifyWorker(r)
      PROVE  TypePart'
  BY <1>5 DEF NotifyWorker, CallState
<1>6. CASE Wake
  BY <1>6 DEF Wake
<1>7. ASSUME NEW r \in Request, Pop(r)
      PROVE  TypePart'
  <2>1. buckets' \in [Priority -> Seq(Request)]
    BY <1>7 DEF Pop
  <2>. QED
    BY <1>7, <2>1 DEF Pop, RunState
<1>8. CASE Drained
  BY <1>8 DEF Drained
<1>9. ASSUME NEW r \in Request, Spawn(r)
      PROVE  TypePart'
  BY <1>9 DEF Spawn, RunState, Executing
<1>10. ASSUME NEW r \in Request, MarkRunning(r)
       PROVE  TypePart'
  <2>1. rows' \in [TaskId -> RowStatus]
    BY <1>10, WriteRowType DEF MarkRunning, RowStatus
  <2>. QED
    BY <1>10, <2>1 DEF MarkRunning, RunState, Executing
<1>11. ASSUME NEW r \in Request, Execute(r)
       PROVE  TypePart'
  BY <1>11 DEF Execute, RunState, Executing
<1>12. ASSUME NEW r \in Request, RecordOutcome(r)
       PROVE  TypePart'
  <2>1. rows' \in [TaskId -> RowStatus]
    BY <1>12, WriteRowType DEF RecordOutcome, RowStatus
  <2>. QED
    BY <1>12, <2>1 DEF RecordOutcome, RunState, Executing
<1>13. ASSUME NEW r \in Request, Uncount(r)
       PROVE  TypePart'
  <2>1. depth' \in 0..(DepthRange - 1)
    BY <1>13, WrappedRange DEF Uncount
  <2>. QED
    BY <1>13, <2>1 DEF Uncount, RunState, Executing
<1>14. ASSUME NEW r \in Request, Release(r)
       PROVE  TypePart'
  BY <1>14 DEF Release, RunState
<1>15. CASE Crash
  <2>1. call' \in [Request -> CallState] /\ run' \in [Request -> RunState]
    BY <1>15 DEF Crash, CallState, RunState
  <2>2. buckets' \in [Priority -> Seq(Request)] /\ depth' \in 0..(DepthRange - 1)
    BY <1>15 DEF Crash
  <2>3. \A r \in Request : run'[r] # "executed"
    BY <1>15 DEF Crash
  <2>4. permits' \in Nat /\ crashes' \in 0..MaxCrashes
    BY <1>15 DEF Crash
  <2>5. outcome' = outcome /\ rows' = rows /\ ticket' = ticket /\ pushes' = pushes
        /\ notified' = FALSE /\ worker' = "waiting"
    BY <1>15 DEF Crash
  <2>. QED
    BY <2>1, <2>2, <2>3, <2>4, <2>5
<1>16. CASE UNCHANGED vars
  BY <1>16 DEF vars
<1>. QED
  BY <1>1, <1>2, <1>3, <1>4, <1>5, <1>6, <1>7, <1>8, <1>9, <1>10, <1>11,
     <1>12, <1>13, <1>14, <1>15, <1>16 DEF Next, Caller, Execution, Worker

-----------------------------------------------------------------------------
(***************************************************************************)
(* How far a call got and where its task is agree.                         *)
(***************************************************************************)
CallsAgree ==
  \A r \in Request :
    /\ call[r] \in {"idle", "admitted", "stored", "rejected", "errored"} => run[r] = "none"
    /\ call[r] \in {"pushed", "counted"} => run[r] \notin {"none", "lost"}
    /\ call[r] = "accepted" => run[r] # "none"
    /\ call[r] = "aborted" => run[r] \in {"none", "finished", "lost"}

(***************************************************************************)
(* The worker holds at most one task, and none unless it waits for a       *)
(* permit.                                                                 *)
(***************************************************************************)
OneHeld ==
  /\ \A q, r \in Request : run[q] = "held" /\ run[r] = "held" => q = r
  /\ worker # "holding" => \A r \in Request : run[r] # "held"

TicketsBounded == \A r \in Request : ticket[r] <= pushes

(***************************************************************************)
(* What Pop takes: the oldest waiting task of the first non-empty deque.   *)
(***************************************************************************)
LEMMA PopTakesOldest ==
  ASSUME TypePart, BucketsHoldWaiting, NEW r \in Request, Pop(r)
  PROVE  /\ run[r] = "pending"
         /\ buckets[Prio[r]] # <<>>
         /\ r = buckets[Prio[r]][1]
         /\ \A u \in Priority : u < Prio[r] => buckets[u] = <<>>
         /\ buckets' = [buckets EXCEPT ![Prio[r]] = Tail(@)]
<1>1. PICK p \in Priority :
        /\ \A u \in Priority : u < p => buckets[u] = <<>>
        /\ buckets[p] # <<>>
        /\ r = Head(buckets[p])
        /\ buckets' = [buckets EXCEPT ![p] = Tail(@)]
  BY DEF Pop
<1>2. buckets[p] \in Seq(Request) /\ 1 \in 1..Len(buckets[p]) /\ r = buckets[p][1]
  BY <1>1 DEF TypePart
<1>3. run[buckets[p][1]] = "pending" /\ Prio[buckets[p][1]] = p
  BY <1>2 DEF BucketsHoldWaiting
<1>. QED
  BY <1>1, <1>2, <1>3

\* Every step keeps a call and the place of its task in agreement.
LEMMA NextCallsAgree ==
  TypePart /\ BucketsHoldWaiting /\ CallsAgree /\ [Next]_vars => CallsAgree'
<1> SUFFICES ASSUME TypePart, BucketsHoldWaiting, CallsAgree, [Next]_vars
             PROVE  CallsAgree'
  OBVIOUS
<1> USE DEF CallsAgree
<1>1. ASSUME NEW r \in Request, Admit(r) \/ StoreRow(r)
      PROVE  CallsAgree'
  BY <1>1 DEF Admit, StoreRow, TypePart
<1>2. ASSUME NEW r \in Request, Push(r) \/ Count(r) \/ NotifyWorker(r)
      PROVE  CallsAgree'
  <2>1. CASE Push(r)
    BY <2>1 DEF Push, TypePart
  <2>2. CASE Count(r)
    BY <2>2 DEF Count, TypePart
  <2>3. CASE NotifyWorker(r)
    BY <2>3 DEF NotifyWorker, TypePart
  <2>. QED
    BY <1>2, <2>1, <2>2, <2>3
<1>3. ASSUME NEW r \in Request, Pop(r)
      PROVE  CallsAgree'
  <2>1. run[r] = "pending"
    BY <1>3, PopTakesOldest
  <2>. QED
    BY <1>3, <2>1 DEF Pop, TypePart
<1>4. ASSUME NEW r \in Request, Spawn(r) \/ Execution(r)
      PROVE  CallsAgree'
  BY <1>4 DEF Spawn, Execution, MarkRunning, Execute, RecordOutcome, Uncount,
              Release, TypePart
<1>5. CASE Wake \/ Drained \/ UNCHANGED vars
  BY <1>5 DEF Wake, Drained, vars
<1>6. CASE Crash
  BY <1>6 DEF Crash, TypePart, CallState, InProgress
<1>. QED
  BY <1>1, <1>2, <1>3, <1>4, <1>5, <1>6 DEF Next, Caller, Worker

\* Every step leaves the worker with at most one task in hand.
LEMMA NextOneHeld ==
  TypePart /\ OneHeld /\ [Next]_vars => OneHeld'
<1> SUFFICES ASSUME TypePart, OneHeld, [Next]_vars
             PROVE  OneHeld'
  OBVIOUS
<1> USE DEF OneHeld, queueVars, workerVars
<1>1. ASSUME NEW r \in Request, Admit(r) \/ Caller(r)
      PROVE  OneHeld'
  BY <1>1 DEF Admit, Caller, StoreRow, Push, Count, NotifyWorker, TypePart
<1>2. ASSUME NEW r \in Request, Pop(r) \/ Spawn(r)
      PROVE  OneHeld'
  BY <1>2 DEF Pop, Spawn, TypePart
<1>3. ASSUME NEW r \in Request, Execution(r)
      PROVE  OneHeld'
  BY <1>3 DEF Execution, MarkRunning, Execute, RecordOutcome, Uncount,
              Release, TypePart
<1>4. CASE Wake \/ Drained \/ UNCHANGED vars
  BY <1>4 DEF Wake, Drained, vars
<1>5. CASE Crash
  BY <1>5 DEF Crash, TypePart
<1>. QED
  BY <1>1, <1>2, <1>3, <1>4, <1>5 DEF Next, Worker

\* Tickets are drawn in increasing order.
LEMMA NextTicketsBounded ==
  TypePart /\ TicketsBounded /\ [Next]_vars => TicketsBounded'
<1> SUFFICES ASSUME TypePart, TicketsBounded, [Next]_vars
             PROVE  TicketsBounded'
  OBVIOUS
<1>1. ASSUME NEW r \in Request, Push(r)
      PROVE  TicketsBounded'
  BY <1>1 DEF Push, TypePart, TicketsBounded
<1>2. CASE UNCHANGED <<ticket, pushes>>
  BY <1>2 DEF TicketsBounded
<1>. QED
  BY <1>1, <1>2 DEF Next, vars, Admit, Caller, StoreRow, Count, NotifyWorker,
       Execution, MarkRunning, Execute, RecordOutcome, Uncount, Release, Worker,
       Wake, Drained, Pop, Spawn, Crash, queueVars

-----------------------------------------------------------------------------
(***************************************************************************)
(* The deques.                                                             *)
(***************************************************************************)
LEMMA PushBuckets ==
  ASSUME TypePart, CallsAgree, TicketsBounded, BucketsHoldWaiting,
         NEW r \in Request, Push(r)
  PROVE  BucketsHoldWaiting'
<1>. DEFINE p == Prio[r]
            b == buckets[p]
<1>0. p \in Priority /\ b \in Seq(Request) /\ Len(b) \in Nat
  BY QueueAssumption DEF TypePart
<1>1. /\ buckets' = [buckets EXCEPT ![p] = Append(b, r)]
      /\ run' = [run EXCEPT ![r] = "pending"]
      /\ ticket' = [ticket EXCEPT ![r] = pushes + 1]
      /\ run[r] = "none"
  BY DEF Push, CallsAgree
<1>2. buckets'[p] = Append(b, r) /\ \A u \in Priority \ {p} : buckets'[u] = buckets[u]
  BY <1>0, <1>1 DEF TypePart
<1>3. /\ Len(buckets'[p]) = Len(b) + 1
      /\ buckets'[p][Len(b) + 1] = r
      /\ \A i \in 1..Len(b) : buckets'[p][i] = b[i]
  BY <1>0, <1>2
<1>4. \A u \in Priority : \A i \in 1..Len(buckets[u]) :
        buckets[u][i] \in Request /\ buckets[u][i] # r
  BY <1>1 DEF BucketsHoldWaiting, TypePart
<1>5. \A u \in Priority : \A i \in 1..Len(buckets'[u]) :
        run'[buckets'[u][i]] = "pending" /\ Prio[buckets'[u][i]] = u
  <2>1. ASSUME NEW u \in Priority \ {p}, NEW i \in 1..Len(buckets[u])
        PROVE  run'[buckets[u][i]] = "pending" /\ Prio[buckets[u][i]] = u
    <3>1. run[buckets[u][i]] = "pending" /\ Prio[buckets[u][i]] = u
      BY DEF BucketsHoldWaiting
    <3>2. buckets[u][i] \in Request \ {r}
      BY <1>4
    <3>. QED
      BY <3>1, <3>2, <1>1 DEF TypePart
  <2>2. ASSUME NEW i \in 1..(Len(b) + 1)
        PROVE  run'[buckets'[p][i]] = "pending" /\ Prio[buckets'[p][i]] = p
    <3>1. CASE i = Len(b) + 1
      BY <3>1, <1>1, <1>3 DEF TypePart
    <3>2. CASE i \in 1..Len(b)
      BY <3>2, <1>0, <1>1, <1>3, <1>4 DEF BucketsHoldWaiting, TypePart
    <3>. QED
      BY <3>1, <3>2, <1>0
  <2>3. ASSUME NEW u \in Priority, NEW i \in 1..Len(buckets'[u])
        PROVE  run'[buckets'[u][i]] = "pending" /\ Prio[buckets'[u][i]] = u
    <3>1. CASE u = p
      BY <3>1, <2>2, <1>3
    <3>2. CASE u # p
      BY <3>2, <2>1, <1>2
    <3>. QED
      BY <3>1, <3>2
  <2>. QED
    BY <2>3
<1>6. \A u \in Priority : \A i, j \in 1..Len(buckets'[u]) :
        i < j => ticket'[buckets'[u][i]] < ticket'[buckets'[u][j]]
  <2>1. ASSUME NEW u \in Priority \ {p}, NEW i \in 1..Len(buckets[u]),
               NEW j \in 1..Len(buckets[u]), i < j
        PROVE  ticket'[buckets[u][i]] < ticket'[buckets[u][j]]
    <3>1. ticket[buckets[u][i]] < ticket[buckets[u][j]]
      BY <2>1 DEF BucketsHoldWaiting
    <3>2. buckets[u][i] \in Request \ {r} /\ buckets[u][j] \in Request \ {r}
      BY <1>4
    <3>3. \A q \in Request \ {r} : ticket'[q] = ticket[q]
      BY <1>1 DEF TypePart
    <3>. QED
      BY <3>1, <3>2, <3>3
  <2>2. ASSUME NEW i \in 1..(Len(b) + 1), NEW j \in 1..(Len(b) + 1), i < j
        PROVE  ticket'[buckets'[p][i]] < ticket'[buckets'[p][j]]
    <3>0. \A q \in Request \ {r} : ticket'[q] = ticket[q]
      BY <1>1 DEF TypePart
    <3>1. i \in 1..Len(b) /\ buckets'[p][i] = b[i] /\ ticket'[b[i]] = ticket[b[i]]
      <4>1. i \in 1..Len(b)
        BY <2>2, <1>0
      <4>2. b[i] \in Request \ {r}
        BY <4>1, <1>0, <1>4
      <4>. QED
        BY <4>1, <4>2, <3>0, <1>3
    <3>2. CASE j = Len(b) + 1
      <4>1. ticket'[buckets'[p][j]] = pushes + 1
        BY <3>2, <1>1, <1>3 DEF TypePart
      <4>2. ticket[b[i]] <= pushes /\ ticket[b[i]] \in Nat /\ pushes \in Nat
        BY <3>1, <1>0, <1>4 DEF TicketsBounded, TypePart
      <4>. QED
        BY <3>1, <4>1, <4>2
    <3>3. CASE j \in 1..Len(b)
      <4>0. b[j] \in Request \ {r}
        BY <3>3, <1>0, <1>4
      <4>1. buckets'[p][j] = b[j] /\ ticket'[b[j]] = ticket[b[j]]
        BY <4>0, <3>3, <3>0, <1>3
      <4>2. ticket[b[i]] < ticket[b[j]]
        BY <3>1, <3>3, <2>2, <1>0 DEF BucketsHoldWaiting
      <4>. QED
        BY <3>1, <4>1, <4>2
    <3>. QED
      BY <3>2, <3>3, <1>0
  <2>. QED
    BY <2>1, <2>2, <1>2, <1>3
<1>7. ASSUME NEW q \in Request, run'[q] = "pending"
      PROVE  \E i \in 1..Len(buckets'[Prio[q]]) : buckets'[Prio[q]][i] = q
  <2>1. CASE q = r
    BY <2>1, <1>0, <1>3
  <2>2. CASE q # r
    <3>1. run[q] = "pending" /\ Prio[q] \in Priority
      BY <2>2, <1>7, <1>1, QueueAssumption DEF TypePart
    <3>2. PICK i \in 1..Len(buckets[Prio[q]]) : buckets[Prio[q]][i] = q
      BY <3>1 DEF BucketsHoldWaiting, Runs
    <3>3. CASE Prio[q] = p
      BY <3>2, <3>3, <1>0, <1>3
    <3>4. CASE Prio[q] # p
      BY <3>1, <3>2, <3>4, <1>2
    <3>. QED
      BY <3>3, <3>4
  <2>. QED
    BY <2>1, <2>2
<1>. QED
  BY <1>5, <1>6, <1>7 DEF BucketsHoldWaiting, Runs

\* pop_front keeps the deques in order and without the popped task.
LEMMA PopBuckets ==
  ASSUME TypePart, BucketsHoldWaiting, NEW r \in Request, Pop(r)
  PROVE  BucketsHoldWaiting'
<1>. DEFINE p == Prio[r]
            b == buckets[p]
<1>0. p \in Priority /\ b \in Seq(Request) /\ b # <<>> /\ Len(b) \in Nat \ {0}
      /\ r = b[1]
  BY PopTakesOldest, QueueAssumption DEF TypePart
<1>1. /\ buckets' = [buckets EXCEPT ![p] = Tail(b)]
      /\ run' = [run EXCEPT ![r] = "held"]
      /\ ticket' = ticket
  BY PopTakesOldest DEF Pop
<1>2. buckets'[p] = Tail(b) /\ \A u \in Priority \ {p} : buckets'[u] = buckets[u]
  BY <1>0, <1>1 DEF TypePart
<1>3. /\ Len(buckets'[p]) = Len(b) - 1
      /\ \A i \in 1..(Len(b) - 1) : buckets'[p][i] = b[i + 1] /\ i + 1 \in 1..Len(b)
  BY <1>0, <1>2
<1>4. \A u \in Priority : \A i \in 1..Len(buckets'[u]) :
        \E j \in 1..Len(buckets[u]) :
          /\ buckets'[u][i] = buckets[u][j]
          /\ j = IF u = p THEN i + 1 ELSE i
  BY <1>0, <1>2, <1>3
<1>5. \A u \in Priority : \A j \in 1..Len(buckets[u]) :
        /\ buckets[u][j] \in Request
        /\ u # p => buckets[u][j] # r
        /\ j # 1 => buckets[u][j] # r
  <2>1. ASSUME NEW u \in Priority, NEW j \in 1..Len(buckets[u])
        PROVE  buckets[u][j] \in Request /\ Prio[buckets[u][j]] = u
    BY DEF BucketsHoldWaiting, TypePart
  <2>2. ASSUME NEW j \in 1..Len(b), j # 1
        PROVE  b[j] # r
    <3>1. ticket[b[1]] < ticket[b[j]]
      BY <2>2, <1>0 DEF BucketsHoldWaiting
    <3>. QED
      BY <3>1, <2>2, <1>0, <2>1 DEF TypePart
  <2>. QED
    BY <2>1, <2>2, <1>0
<1>6. \A u \in Priority : \A i \in 1..Len(buckets'[u]) :
        run'[buckets'[u][i]] = "pending" /\ Prio[buckets'[u][i]] = u
  <2> SUFFICES ASSUME NEW u \in Priority, NEW i \in 1..Len(buckets'[u])
               PROVE  run'[buckets'[u][i]] = "pending" /\ Prio[buckets'[u][i]] = u
    OBVIOUS
  <2>0. Len(buckets'[u]) \in Nat /\ i \in Nat \ {0}
    BY <1>0, <1>2, <1>3 DEF TypePart
  <2>1. PICK j \in 1..Len(buckets[u]) :
          buckets'[u][i] = buckets[u][j] /\ j = IF u = p THEN i + 1 ELSE i
    BY <1>4
  <2>2. buckets[u][j] \in Request \ {r}
    BY <2>0, <2>1, <1>5
  <2>3. run[buckets[u][j]] = "pending" /\ Prio[buckets[u][j]] = u
    BY DEF BucketsHoldWaiting
  <2>. QED
    BY <2>1, <2>2, <2>3, <1>1 DEF TypePart
<1>7. \A u \in Priority : \A i, j \in 1..Len(buckets'[u]) :
        i < j => ticket'[buckets'[u][i]] < ticket'[buckets'[u][j]]
  <2> SUFFICES ASSUME NEW u \in Priority, NEW i \in 1..Len(buckets'[u]),
                      NEW j \in 1..Len(buckets'[u]), i < j
               PROVE  ticket'[buckets'[u][i]] < ticket'[buckets'[u][j]]
    OBVIOUS
  <2>0. Len(buckets'[u]) \in Nat
    BY <1>0, <1>2, <1>3 DEF TypePart
  <2>1. PICK k \in 1..Len(buckets[u]) :
          buckets'[u][i] = buckets[u][k] /\ k = IF u = p THEN i + 1 ELSE i
    BY <1>4
  <2>2. PICK l \in 1..Len(buckets[u]) :
          buckets'[u][j] = buckets[u][l] /\ l = IF u = p THEN j + 1 ELSE j
    BY <1>4
  <2>3. k < l
    BY <2>0, <2>1, <2>2
  <2>4. ticket[buckets[u][k]] < ticket[buckets[u][l]]
    BY <2>3 DEF BucketsHoldWaiting
  <2>. QED
    BY <2>1, <2>2, <2>4, <1>1
<1>8. ASSUME NEW q \in Request, run'[q] = "pending"
      PROVE  \E i \in 1..Len(buckets'[Prio[q]]) : buckets'[Prio[q]][i] = q
  <2>1. q # r /\ run[q] = "pending" /\ Prio[q] \in Priority
    BY <1>8, <1>1, QueueAssumption DEF TypePart
  <2>2. PICK j \in 1..Len(buckets[Prio[q]]) : buckets[Prio[q]][j] = q
    BY <2>1 DEF BucketsHoldWaiting, Runs
  <2>3. CASE Prio[q] = p
    <3>1. j # 1 /\ j - 1 \in 1..(Len(b) - 1) /\ (j - 1) + 1 = j
      BY <2>1, <2>2, <2>3, <1>0
    <3>2. buckets'[p][j - 1] = b[(j - 1) + 1]
      BY <3>1, <1>3
    <3>. QED
      BY <3>1, <3>2, <2>2, <2>3, <1>3
  <2>4. CASE Prio[q] # p
    BY <2>1, <2>2, <2>4, <1>2
  <2>. QED
    BY <2>3, <2>4
<1>. QED
  BY <1>6, <1>7, <1>8 DEF BucketsHoldWaiting, Runs

\* Every step preserves the contents of the deques.
LEMMA NextBuckets ==
  /\ TypePart /\ CallsAgree /\ TicketsBounded
  /\ BucketsHoldWaiting /\ [Next]_vars
  => BucketsHoldWaiting'
<1> SUFFICES ASSUME TypePart, CallsAgree, TicketsBounded, BucketsHoldWaiting,
                    [Next]_vars
             PROVE  BucketsHoldWaiting'
  OBVIOUS
<1>1. ASSUME NEW r \in Request, Push(r) \/ Pop(r)
      PROVE  BucketsHoldWaiting'
  BY <1>1, PushBuckets, PopBuckets
\* Any other step leaves the deques and the waiting tasks as they are.
<1>2. ASSUME UNCHANGED <<buckets, ticket>>,
             \A r \in Request : run'[r] = "pending" <=> run[r] = "pending"
      PROVE  BucketsHoldWaiting'
  <2>1. \A u \in Priority : \A i \in 1..Len(buckets[u]) : buckets[u][i] \in Request
    BY DEF TypePart
  <2>. QED
    BY <1>2, <2>1 DEF BucketsHoldWaiting, Runs
<1>3. ASSUME NEW r \in Request,
             Admit(r) \/ StoreRow(r) \/ Count(r) \/ NotifyWorker(r)
      PROVE  BucketsHoldWaiting'
  BY <1>2, <1>3 DEF Admit, StoreRow, Count, NotifyWorker, queueVars
<1>4. ASSUME NEW r \in Request, Spawn(r) \/ Execution(r)
      PROVE  BucketsHoldWaiting'
  <2>1. UNCHANGED <<buckets, ticket>>
    BY <1>4 DEF Spawn, Execution, MarkRunning, Execute, RecordOutcome, Uncount,
                Release, queueVars
  <2>2. \A q \in Request : run'[q] = "pending" <=> run[q] = "pending"
    BY <1>4 DEF Spawn, Execution, MarkRunning, Execute, RecordOutcome, Uncount,
                Release, TypePart
  <2>. QED
    BY <2>1, <2>2, <1>2
<1>5. CASE Wake \/ Drained \/ UNCHANGED vars
  BY <1>2, <1>5 DEF Wake, Drained, vars, queueVars
<1>6. CASE Crash
  BY <1>6 DEF Crash, BucketsHoldWaiting, Runs
<1>. QED
  BY <1>1, <1>3, <1>4, <1>5, <1>6 DEF Next, Caller, Worker

(***************************************************************************)
(* Taking the oldest task of the first non-empty deque leaves no earlier   *)
(* task of the same or a more urgent priority behind.                      *)
(***************************************************************************)
LEMMA NextNoOvertaking ==
  /\ TypePart /\ CallsAgree /\ TicketsBounded /\ BucketsHoldWaiting
  /\ NoOvertaking /\ [Next]_vars
  => NoOvertaking'
<1> SUFFICES ASSUME TypePart, CallsAgree, TicketsBounded, BucketsHoldWaiting,
                    NoOvertaking, [Next]_vars
             PROVE  NoOvertaking'
  OBVIOUS
<1>1. ASSUME NEW s \in Request, Push(s)
      PROVE  NoOvertaking'
  <2> SUFFICES ASSUME NEW q \in Request, NEW r \in Request,
                      ticket'[q] < ticket'[r], Prio[q] <= Prio[r],
                      run'[r] \in {"held"} \cup Executing
               PROVE  run'[q] # "pending"
    BY DEF NoOvertaking
  <2>1. r # s /\ run[r] \in {"held"} \cup Executing /\ ticket'[r] = ticket[r]
    BY <1>1 DEF Push, TypePart, Executing
  <2>2. q # s
    BY <1>1, <2>1 DEF Push, TypePart, TicketsBounded
  <2>3. ticket'[q] = ticket[q] /\ run'[q] = run[q]
    BY <1>1, <2>2 DEF Push, TypePart
  <2>. QED
    BY <2>1, <2>3 DEF NoOvertaking
<1>2. ASSUME NEW s \in Request, Pop(s)
      PROVE  NoOvertaking'
  <2> SUFFICES ASSUME NEW q \in Request, NEW r \in Request,
                      ticket'[q] < ticket'[r], Prio[q] <= Prio[r],
                      run'[r] \in {"held"} \cup Executing,
                      run'[q] = "pending"
               PROVE  FALSE
    BY DEF NoOvertaking
  <2>1. ticket' = ticket /\ run[q] = "pending" /\ q # s
    BY <1>2 DEF Pop, TypePart
  <2>2. r = s
    BY <1>2, <2>1 DEF Pop, TypePart, NoOvertaking
  <2>3. PICK i \in 1..Len(buckets[Prio[q]]) : buckets[Prio[q]][i] = q
    BY <2>1 DEF BucketsHoldWaiting, Runs
  <2>4. Prio[q] \in Priority /\ Prio[s] \in Priority /\ buckets[Prio[q]] # <<>>
    BY <2>3, QueueAssumption DEF TypePart
  <2>5. Prio[q] = Prio[s]
    BY <1>2, <2>2, <2>4, PopTakesOldest DEF Priority, Interactive, Background
  <2>6. s = buckets[Prio[s]][1] /\ buckets[Prio[s]] \in Seq(Request)
    BY <1>2, <2>4, PopTakesOldest DEF TypePart
  <2>7. 1 < i /\ 1 \in 1..Len(buckets[Prio[q]])
    BY <2>1, <2>3, <2>5, <2>6
  <2>8. ticket[s] < ticket[q]
    BY <2>3, <2>4, <2>5, <2>6, <2>7 DEF BucketsHoldWaiting
  <2>. QED
    BY <2>1, <2>2, <2>8 DEF TypePart
\* Any other step starts no wait and takes no task from a deque.
<1>3. ASSUME UNCHANGED ticket,
             \A r \in Request :
               /\ run'[r] \in {"held"} \cup Executing => run[r] \in {"held"} \cup Executing
               /\ run'[r] = "pending" => run[r] = "pending"
      PROVE  NoOvertaking'
  BY <1>3 DEF NoOvertaking
<1>4. ASSUME NEW r \in Request,
             Admit(r) \/ StoreRow(r) \/ Count(r) \/ NotifyWorker(r)
      PROVE  NoOvertaking'
  BY <1>3, <1>4 DEF Admit, StoreRow, Count, NotifyWorker, queueVars
<1>5. ASSUME NEW s \in Request, Spawn(s) \/ Execution(s)
      PROVE  NoOvertaking'
  <2>1. UNCHANGED ticket
    BY <1>5 DEF Spawn, Execution, MarkRunning, Execute, RecordOutcome, Uncount,
                Release, queueVars
  <2>2. ASSUME NEW r \in Request
        PROVE  /\ run'[r] \in {"held"} \cup Executing => run[r] \in {"held"} \cup Executing
               /\ run'[r] = "pending" => run[r] = "pending"
    BY <1>5 DEF Spawn, Execution, MarkRunning, Execute, RecordOutcome, Uncount,
                Release, TypePart, Executing
  <2>. QED
    BY <2>1, <2>2, <1>3
<1>6. CASE Wake \/ Drained \/ UNCHANGED vars
  BY <1>3, <1>6 DEF Wake, Drained, vars, queueVars
<1>7. CASE Crash
  BY <1>7 DEF Crash, NoOvertaking, Executing
<1>. QED
  BY <1>1, <1>2, <1>4, <1>5, <1>6, <1>7 DEF Next, Caller, Worker

-----------------------------------------------------------------------------
(***************************************************************************)
(* Permits and depth.                                                      *)
(***************************************************************************)
LEMMA FiniteRequests ==
  ASSUME NEW S \in SUBSET Request
  PROVE  /\ IsFiniteSet(S)
         /\ Cardinality(S) \in Nat
         /\ Cardinality(S) <= Cardinality(Request)
  BY QueueAssumption, FS_Subset, FS_CardinalityType

Shape ==
  TypePart /\ CallsAgree /\ OneHeld /\ TicketsBounded /\ BucketsHoldWaiting

\* Every step conserves the permits of the semaphore.
LEMMA NextPermits ==
  Shape /\ PermitsConserved /\ [Next]_vars => PermitsConserved'
<1> SUFFICES ASSUME Shape, PermitsConserved, [Next]_vars
             PROVE  PermitsConserved'
  OBVIOUS
<1>0. Runs(Executing) \in SUBSET Request /\ TypePart
  BY DEF Runs, Shape
<1>1. ASSUME NEW r \in Request, Spawn(r)
      PROVE  PermitsConserved'
  <2>1. Runs(Executing)' = Runs(Executing) \cup {r} /\ r \notin Runs(Executing)
    BY <1>0, <1>1 DEF Spawn, Runs, Executing, TypePart
  <2>2. Cardinality(Runs(Executing)') = Cardinality(Runs(Executing)) + 1
    BY <1>0, <2>1, FiniteRequests, FS_AddElement
  <2>3. Cardinality(Runs(Executing)) \in Nat
    BY <1>0, FiniteRequests
  <2>4. permits' = permits - 1 /\ permits \in Int
    BY <1>0, <1>1 DEF Spawn, TypePart
  <2>. QED
    BY <2>2, <2>3, <2>4, QueueAssumption DEF PermitsConserved
<1>2. ASSUME NEW r \in Request, Release(r)
      PROVE  PermitsConserved'
  <2>1. Runs(Executing)' = Runs(Executing) \ {r} /\ r \in Runs(Executing)
    BY <1>0, <1>2 DEF Release, Runs, Executing, TypePart
  <2>2. Cardinality(Runs(Executing)') = Cardinality(Runs(Executing)) - 1
    BY <1>0, <2>1, FiniteRequests, FS_RemoveElement
  <2>3. Cardinality(Runs(Executing)) \in Nat
    BY <1>0, FiniteRequests
  <2>4. permits' = permits + 1 /\ permits \in Int
    BY <1>0, <1>2 DEF Release, TypePart
  <2>. QED
    BY <2>2, <2>3, <2>4, QueueAssumption DEF PermitsConserved
<1>3. CASE Crash
  <2>1. Runs(Executing)' = {}
    BY <1>3 DEF Crash, Runs, Executing
  <2>. QED
    BY <1>3, <2>1, FS_EmptySet, QueueAssumption DEF Crash, PermitsConserved
<1>4. ASSUME UNCHANGED permits,
             \A r \in Request : run'[r] \in Executing <=> run[r] \in Executing
      PROVE  PermitsConserved'
  <2>1. Runs(Executing)' = Runs(Executing)
    BY <1>4 DEF Runs
  <2>. QED
    BY <1>4, <2>1 DEF PermitsConserved
<1>5. ASSUME NEW r \in Request, Push(r) \/ Pop(r)
      PROVE  PermitsConserved'
  <2>1. run[r] \in {"none", "pending"} /\ UNCHANGED permits
    BY <1>5, PopTakesOldest DEF Push, Pop, Shape, CallsAgree
  <2>2. \E t \in {"pending", "held"} : run' = [run EXCEPT ![r] = t]
    BY <1>5 DEF Push, Pop
  <2>. QED
    BY <1>0, <1>4, <2>1, <2>2 DEF TypePart, Executing
<1>6. ASSUME NEW r \in Request,
             Admit(r) \/ StoreRow(r) \/ Count(r) \/ NotifyWorker(r)
      PROVE  PermitsConserved'
  BY <1>4, <1>6 DEF Admit, StoreRow, Count, NotifyWorker
<1>7. ASSUME NEW r \in Request,
             MarkRunning(r) \/ Execute(r) \/ RecordOutcome(r) \/ Uncount(r)
      PROVE  PermitsConserved'
  <2>1. UNCHANGED permits
    BY <1>7 DEF MarkRunning, Execute, RecordOutcome, Uncount
  <2>2. run[r] \in Executing /\ \E t \in Executing : run' = [run EXCEPT ![r] = t]
    BY <1>7 DEF MarkRunning, Execute, RecordOutcome, Uncount, Executing
  <2>. QED
    BY <1>0, <1>4, <2>1, <2>2 DEF TypePart
<1>8. CASE Wake \/ Drained \/ UNCHANGED vars
  BY <1>4, <1>8 DEF Wake, Drained, vars
<1>. QED
  BY <1>1, <1>2, <1>3, <1>5, <1>6, <1>7, <1>8 DEF Next, Caller, Execution, Worker

(***************************************************************************)
(* One call more on either side of the account moves depth by one.         *)
(***************************************************************************)
LEMMA AccountBounds ==
  /\ Outstanding \in SUBSET Request /\ Early \in SUBSET Request
  /\ Cardinality(Outstanding) \in 0..(DepthRange - 1)
  /\ Cardinality(Early) \in 0..(DepthRange - 1)
<1>1. Outstanding \in SUBSET Request /\ Early \in SUBSET Request
  BY DEF Outstanding, Early, Calls, Runs
<1>2. /\ Cardinality(Outstanding) \in Nat /\ Cardinality(Early) \in Nat
      /\ Cardinality(Outstanding) <= Cardinality(Request)
      /\ Cardinality(Early) <= Cardinality(Request)
  BY <1>1, FiniteRequests
<1>. QED
  BY <1>1, <1>2, QueueAssumption, RequestCount

\* Every step keeps queue_depth in agreement with the tasks it counts.
LEMMA NextDepth ==
  Shape /\ DepthExact /\ [Next]_vars => DepthExact'
<1> SUFFICES ASSUME Shape, DepthExact, [Next]_vars
             PROVE  DepthExact'
  OBVIOUS
<1>0. TypePart /\ CallsAgree
  BY DEF Shape
<1>1. Cardinality(Outstanding)' \in 0..(DepthRange - 1)
      /\ Cardinality(Early)' \in 0..(DepthRange - 1)
  <2>1. Outstanding' \in SUBSET Request /\ Early' \in SUBSET Request
    BY DEF Outstanding, Early, Calls, Runs
  <2>2. /\ Cardinality(Outstanding') \in Nat /\ Cardinality(Early') \in Nat
        /\ Cardinality(Outstanding') <= Cardinality(Request)
        /\ Cardinality(Early') <= Cardinality(Request)
    BY <2>1, FiniteRequests
  <2>. QED
    BY <2>2, QueueAssumption, RequestCount
<1>2. ASSUME UNCHANGED depth, Outstanding' = Outstanding, Early' = Early
      PROVE  DepthExact'
  BY <1>2 DEF DepthExact, Wrapped
<1>3. ASSUME NEW r \in Request, Count(r)
      PROVE  DepthExact'
  <2>0. call[r] = "pushed" /\ run[r] \notin {"none", "lost"} /\ run' = run
        /\ call' = [call EXCEPT ![r] = "counted"] /\ depth' = Wrapped(depth + 1)
    BY <1>0, <1>3 DEF Count, CallsAgree
  <2>1. CASE run[r] \in {"uncounted", "finished"}
    <3>1. Outstanding' = Outstanding /\ Early' = Early \ {r} /\ r \in Early
      BY <1>0, <2>0, <2>1 DEF Outstanding, Early, Calls, Runs, TypePart
    <3>2. Cardinality(Early') = Cardinality(Early) - 1
      BY <3>1, AccountBounds, FiniteRequests, FS_RemoveElement
    <3>. QED
      BY <2>0, <3>1, <3>2, AccountBounds, QueueAssumption, <1>1
         DEF DepthExact, Wrapped
  <2>2. CASE run[r] \notin {"uncounted", "finished"}
    <3>1. Outstanding' = Outstanding \cup {r} /\ r \notin Outstanding /\ Early' = Early
      BY <1>0, <2>0, <2>2 DEF Outstanding, Early, Calls, Runs, TypePart
    <3>2. Cardinality(Outstanding') = Cardinality(Outstanding) + 1
      BY <3>1, AccountBounds, FiniteRequests, FS_AddElement
    <3>. QED
      BY <2>0, <3>1, <3>2, AccountBounds, QueueAssumption, <1>1
         DEF DepthExact, Wrapped
  <2>. QED
    BY <2>1, <2>2
<1>4. ASSUME NEW r \in Request, Uncount(r)
      PROVE  DepthExact'
  <2>0. run[r] = "recorded" /\ run' = [run EXCEPT ![r] = "uncounted"] /\ call' = call
        /\ depth' = Wrapped(depth - 1)
        /\ call[r] \in {"pushed", "counted", "accepted"}
    BY <1>0, <1>4 DEF Uncount, CallsAgree, TypePart, CallState, InProgress
  <2>1. CASE call[r] = "pushed"
    <3>1. Outstanding' = Outstanding /\ Early' = Early \cup {r} /\ r \notin Early
      BY <1>0, <2>0, <2>1 DEF Outstanding, Early, Calls, Runs, TypePart
    <3>2. Cardinality(Early') = Cardinality(Early) + 1
      BY <3>1, AccountBounds, FiniteRequests, FS_AddElement
    <3>. QED
      BY <2>0, <3>1, <3>2, AccountBounds, QueueAssumption, <1>1
         DEF DepthExact, Wrapped
  <2>2. CASE call[r] \in {"counted", "accepted"}
    <3>1. Outstanding' = Outstanding \ {r} /\ r \in Outstanding /\ Early' = Early
      BY <1>0, <2>0, <2>2 DEF Outstanding, Early, Calls, Runs, TypePart
    <3>2. Cardinality(Outstanding') = Cardinality(Outstanding) - 1
      BY <3>1, AccountBounds, FiniteRequests, FS_RemoveElement
    <3>. QED
      BY <2>0, <3>1, <3>2, AccountBounds, QueueAssumption, <1>1
         DEF DepthExact, Wrapped
  <2>. QED
    BY <2>0, <2>1, <2>2
<1>5. CASE Crash
  <2>1. Outstanding' = {} /\ Early' = {} /\ depth' = 0
    BY <1>0, <1>5 DEF Crash, Outstanding, Early, Calls, Runs, InProgress, CallsAgree
  <2>. QED
    BY <2>1, FS_EmptySet, QueueAssumption DEF DepthExact, Wrapped
\* The other steps of a call or a task leave both sides as they are.
<1>6. ASSUME NEW r \in Request, Admit(r) \/ StoreRow(r) \/ NotifyWorker(r)
      PROVE  DepthExact'
  <2>1. run' = run /\ UNCHANGED depth
    BY <1>6 DEF Admit, StoreRow, NotifyWorker
  <2>2. \A q \in Request :
          /\ call'[q] \in {"counted", "accepted"} <=> call[q] \in {"counted", "accepted"}
          /\ call'[q] = "pushed" <=> call[q] = "pushed"
    BY <1>0, <1>6 DEF Admit, StoreRow, NotifyWorker, TypePart
  <2>. QED
    BY <1>2, <2>1, <2>2 DEF Outstanding, Early, Calls, Runs
<1>7. ASSUME NEW r \in Request, Push(r)
      PROVE  DepthExact'
  <2>1. /\ call' = [call EXCEPT ![r] = "pushed"] /\ call[r] = "stored"
        /\ run' = [run EXCEPT ![r] = "pending"] /\ UNCHANGED depth
    BY <1>7 DEF Push
  <2>2. Outstanding' = Outstanding /\ Early' = Early
    BY <1>0, <2>1 DEF Outstanding, Early, Calls, Runs, TypePart
  <2>. QED
    BY <1>2, <2>1, <2>2
<1>8. ASSUME NEW r \in Request,
             Pop(r) \/ Spawn(r) \/ MarkRunning(r) \/ Execute(r) \/ RecordOutcome(r)
             \/ Release(r)
      PROVE  DepthExact'
  <2>1. UNCHANGED <<depth, call>>
    BY <1>8 DEF Pop, Spawn, MarkRunning, Execute, RecordOutcome, Release
  <2>2. Pop(r) => run[r] = "pending"
    BY PopTakesOldest DEF Shape
  <2>3. \A q \in Request :
          /\ run'[q] \in {"uncounted", "finished"} <=> run[q] \in {"uncounted", "finished"}
          /\ run'[q] = "lost" <=> run[q] = "lost"
    BY <1>0, <1>8, <2>2
       DEF Pop, Spawn, MarkRunning, Execute, RecordOutcome, Release, TypePart
  <2>. QED
    BY <1>2, <2>1, <2>3 DEF Outstanding, Early, Calls, Runs
<1>9. CASE Wake \/ Drained \/ UNCHANGED vars
  BY <1>2, <1>9 DEF Wake, Drained, vars, Outstanding, Early, Calls, Runs
<1>. QED
  BY <1>3, <1>4, <1>5, <1>6, <1>7, <1>8, <1>9 DEF Next, Caller, Execution, Worker

(***************************************************************************)
(* A call that passes the admission test saw depth below max_pending, so   *)
(* the tasks counted and not yet done were at most that many more than the *)
(* early ones; every other unfinished task belongs to a call in progress.  *)
(***************************************************************************)
LEMMA NextOverrun ==
  Shape /\ DepthExact /\ OverrunBound /\ [Next]_vars => OverrunBound'
<1> SUFFICES ASSUME Shape, DepthExact, OverrunBound, [Next]_vars
             PROVE  OverrunBound'
  OBVIOUS
<1>0. TypePart /\ CallsAgree /\ Backlog \in SUBSET Request
  BY DEF Shape, Backlog, Outstanding, Calls
<1>1. ASSUME Backlog' \subseteq Backlog
      PROVE  OverrunBound'
  <2>1. IsFiniteSet(Backlog) /\ Cardinality(Backlog) \in Nat /\ Backlog' \in SUBSET Request
    BY <1>0, <1>1, FiniteRequests
  <2>2. Cardinality(Backlog') <= Cardinality(Backlog) /\ Cardinality(Backlog') \in Nat
    BY <1>1, <2>1, FS_Subset, FiniteRequests
  <2>. QED
    BY <2>1, <2>2, QueueAssumption DEF OverrunBound
<1>2. ASSUME NEW r \in Request, Admit(r)
      PROVE  OverrunBound'
  <2>1. CASE depth >= MaxPending
    <3>1. Backlog' \subseteq Backlog
      BY <1>0, <1>2, <2>1 DEF Admit, Backlog, Outstanding, Early, Calls, Runs, TypePart
    <3>. QED
      BY <3>1, <1>1
  <2>2. CASE depth < MaxPending
    <3>. DEFINE waitingCalls == Calls({"admitted", "stored", "pushed"})
                uncounted == waitingCalls \ Early
    <3>1. /\ waitingCalls \in SUBSET Calls(InProgress)
          /\ Calls(InProgress) \in SUBSET Request
          /\ Early \in SUBSET waitingCalls
          /\ Backlog \subseteq uncounted \cup Outstanding
      BY DEF Calls, InProgress, Early, Backlog
    <3>2. /\ Cardinality(waitingCalls) \in Nat
          /\ Cardinality(waitingCalls) <= Cardinality(Calls(InProgress))
          /\ Cardinality(Calls(InProgress)) \in Nat
          /\ IsFiniteSet(waitingCalls)
      BY <3>1, FiniteRequests, FS_Subset
    <3>3. /\ IsFiniteSet(uncounted)
          /\ Cardinality(uncounted) = Cardinality(waitingCalls) - Cardinality(Early)
      <4>1. waitingCalls \cap Early = Early
        BY <3>1
      <4>. QED
        BY <3>2, <4>1, FS_Difference
    <3>4. Cardinality(Calls(InProgress)) < MaxCallers
      BY <1>2 DEF Admit
    <3>5. Cardinality(Outstanding) - Cardinality(Early) < MaxPending
      BY <2>2, AccountBounds, QueueAssumption, RequestCount DEF DepthExact, Wrapped
    <3>6. /\ IsFiniteSet(uncounted \cup Outstanding)
          /\ Cardinality(uncounted \cup Outstanding)
               <= Cardinality(uncounted) + Cardinality(Outstanding)
      <4>1. uncounted \cap Outstanding \in SUBSET Request
        BY <3>1
      <4>2. Cardinality(uncounted \cap Outstanding) \in Nat
        BY <4>1, FiniteRequests
      <4>3. IsFiniteSet(Outstanding)
        BY AccountBounds, FiniteRequests
      <4>4. /\ IsFiniteSet(uncounted \cup Outstanding)
            /\ Cardinality(uncounted \cup Outstanding)
                 = Cardinality(uncounted) + Cardinality(Outstanding)
                     - Cardinality(uncounted \cap Outstanding)
        BY <3>3, <4>3, FS_Union
      <4>. QED
        BY <3>2, <3>3, <4>2, <4>4, AccountBounds
    <3>7. Cardinality(uncounted \cup Outstanding) < MaxPending + MaxCallers - 1
      <4>1. uncounted \cup Outstanding \in SUBSET Request
        BY <3>1, AccountBounds
      <4>2. Cardinality(uncounted \cup Outstanding) \in Nat
        BY <4>1, FiniteRequests
      <4>. QED
        BY <4>2, <3>2, <3>3, <3>4, <3>5, <3>6, AccountBounds, QueueAssumption
    <3>8. Backlog' \subseteq (uncounted \cup Outstanding) \cup {r}
      BY <1>0, <1>2, <2>2 DEF Admit, Backlog, Outstanding, Early, Calls, Runs, TypePart
    <3>9. /\ IsFiniteSet((uncounted \cup Outstanding) \cup {r})
          /\ Cardinality((uncounted \cup Outstanding) \cup {r})
               <= Cardinality(uncounted \cup Outstanding) + 1
          /\ Cardinality(uncounted \cup Outstanding) \in Nat
      <4>1. Cardinality(uncounted \cup Outstanding) \in Nat
        BY <3>6, FS_CardinalityType
      <4>2. /\ IsFiniteSet((uncounted \cup Outstanding) \cup {r})
            /\ Cardinality((uncounted \cup Outstanding) \cup {r})
                 = IF r \in uncounted \cup Outstanding
                     THEN Cardinality(uncounted \cup Outstanding)
                     ELSE Cardinality(uncounted \cup Outstanding) + 1
        BY <3>6, FS_AddElement
      <4>. QED
        BY <4>1, <4>2
    <3>10. /\ Cardinality(Backlog') <= Cardinality((uncounted \cup Outstanding) \cup {r})
           /\ Cardinality(Backlog') \in Nat
           /\ Cardinality((uncounted \cup Outstanding) \cup {r}) \in Nat
      BY <3>8, <3>9, FS_Subset, FS_CardinalityType
    <3>. QED
      BY <3>7, <3>9, <3>10, QueueAssumption DEF OverrunBound
  <2>. QED
    BY <2>1, <2>2, QueueAssumption DEF TypePart, Shape
<1>3. ASSUME NEW r \in Request, Caller(r)
      PROVE  OverrunBound'
  <2>1. CASE StoreRow(r) \/ Push(r) \/ NotifyWorker(r)
    <3>1. Backlog' \subseteq Backlog
      BY <1>0, <2>1 DEF StoreRow, Push, NotifyWorker, Backlog, Outstanding, Early,
                        Calls, Runs, TypePart, CallsAgree
    <3>. QED
      BY <3>1, <1>1
  <2>2. CASE Count(r)
    <3>1. Backlog' \subseteq Backlog
      BY <1>0, <2>2 DEF Count, Backlog, Outstanding, Early, Calls, Runs, TypePart
    <3>. QED
      BY <3>1, <1>1
  <2>. QED
    BY <1>3, <2>1, <2>2 DEF Caller
<1>4. ASSUME NEW r \in Request, Pop(r) \/ Spawn(r) \/ Execution(r)
      PROVE  OverrunBound'
  <2>1. call' = call
    BY <1>4 DEF Pop, Spawn, Execution, MarkRunning, Execute, RecordOutcome,
                Uncount, Release
  <2>2. Pop(r) => run[r] = "pending"
    BY PopTakesOldest DEF Shape
  <2>3. \A q \in Request :
          /\ run[q] \in {"uncounted", "finished"} => run'[q] \in {"uncounted", "finished"}
          /\ run[q] = "lost" => run'[q] = "lost"
    BY <1>0, <1>4, <2>2
       DEF Pop, Spawn, Execution, MarkRunning, Execute, RecordOutcome, Uncount,
           Release, TypePart
  <2>4. Backlog' \subseteq Backlog
    BY <2>1, <2>3 DEF Backlog, Outstanding, Early, Calls, Runs
  <2>. QED
    BY <2>4, <1>1
<1>5. CASE Wake \/ Drained \/ UNCHANGED vars
  <2>1. Backlog' = Backlog
    BY <1>5 DEF Wake, Drained, vars, Backlog, Outstanding, Early, Calls, Runs
  <2>. QED
    BY <2>1, <1>1
<1>6. CASE Crash
  <2>1. Backlog' \subseteq Backlog
    BY <1>0, <1>6 DEF Crash, Backlog, Outstanding, Early, Calls, Runs, InProgress,
                      CallsAgree
  <2>. QED
    BY <2>1, <1>1
<1>. QED
  BY <1>2, <1>3, <1>4, <1>5, <1>6 DEF Next, Worker

-----------------------------------------------------------------------------
(***************************************************************************)
(* The rows.                                                               *)
(***************************************************************************)
OutcomeLate ==
  \A r \in Request :
    run[r] \in {"none", "pending", "held", "spawned", "running"} => outcome[r] = "none"

\* Only tools.execute produces an outcome.
LEMMA NextOutcomeLate ==
  Shape /\ OutcomeLate /\ [Next]_vars => OutcomeLate'
<1> SUFFICES ASSUME Shape, OutcomeLate, [Next]_vars
             PROVE  OutcomeLate'
  OBVIOUS
<1>0. TypePart
  BY DEF Shape
<1>1. ASSUME NEW r \in Request, Push(r) \/ Pop(r)
      PROVE  OutcomeLate'
  <2>1. run[r] \in {"none", "pending"}
    BY <1>1, PopTakesOldest DEF Push, Shape, CallsAgree
  <2>. QED
    BY <1>0, <1>1, <2>1 DEF Push, Pop, TypePart, OutcomeLate
<1>2. ASSUME NEW r \in Request, Spawn(r) \/ Execution(r)
      PROVE  OutcomeLate'
  BY <1>0, <1>2 DEF Spawn, Execution, MarkRunning, Execute, RecordOutcome, Uncount,
                    Release, TypePart, OutcomeLate
<1>3. CASE UNCHANGED <<run, outcome>>
  BY <1>3 DEF OutcomeLate
<1>4. CASE Crash
  BY <1>4 DEF Crash, OutcomeLate
<1>. QED
  BY <1>1, <1>2, <1>3, <1>4
     DEF Next, vars, Caller, Admit, StoreRow, Count, NotifyWorker, Worker, Wake, Drained

Copies(id) == {r \in Request : IdOf[r] = id}

\* Every write of a row reports what a copy of the task has reached.
LEMMA NextRowNeverAhead ==
  Shape /\ OutcomeLate /\ RowNeverAhead /\ [Next]_vars => RowNeverAhead'
<1> SUFFICES ASSUME Shape, OutcomeLate, RowNeverAhead, [Next]_vars
             PROVE  RowNeverAhead'
  OBVIOUS
<1>. DEFINE started == {"none", "pending", "held", "spawned"}
<1>0. TypePart /\ IdOf \in [Request -> TaskId]
  BY QueueAssumption DEF Shape
\* Once a task started and once it has an outcome, it keeps both.
<1>1. \A r \in Request :
        /\ run[r] \notin started => run'[r] \notin started
        /\ outcome[r] # "none" => outcome'[r] = outcome[r]
  <2>1. ASSUME NEW q \in Request, Pop(q) \/ Push(q)
        PROVE  \A r \in Request :
                 /\ run[r] \notin started => run'[r] \notin started
                 /\ outcome[r] # "none" => outcome'[r] = outcome[r]
    <3>1. run[q] \in {"none", "pending"}
      BY <2>1, PopTakesOldest DEF Push, Shape, CallsAgree
    <3>. QED
      BY <1>0, <2>1, <3>1 DEF Push, Pop, TypePart
  <2>2. ASSUME NEW q \in Request, Spawn(q) \/ Execution(q)
        PROVE  \A r \in Request :
                 /\ run[r] \notin started => run'[r] \notin started
                 /\ outcome[r] # "none" => outcome'[r] = outcome[r]
    BY <1>0, <2>2 DEF Spawn, Execution, MarkRunning, Execute, RecordOutcome, Uncount,
                      Release, TypePart, OutcomeLate
  <2>3. CASE Crash
    BY <2>3 DEF Crash
  <2>4. CASE UNCHANGED <<run, outcome>>
    BY <2>4
  <2>. QED
    BY <2>1, <2>2, <2>3, <2>4
       DEF Next, vars, Caller, Admit, StoreRow, Count, NotifyWorker, Worker, Wake, Drained
<1>2. ASSUME NEW id \in TaskId, rows'[id] = rows[id]
      PROVE  /\ rows'[id] = "running" => \E r \in Copies(id) : run'[r] \notin started
             /\ rows'[id] \in Outcome => \E r \in Copies(id) : outcome'[r] = rows'[id]
  BY <1>1, <1>2 DEF RowNeverAhead, Copies, Outcome
<1>3. ASSUME NEW id \in TaskId, rows'[id] # rows[id]
      PROVE  /\ rows'[id] = "running" => \E r \in Copies(id) : run'[r] \notin started
             /\ rows'[id] \in Outcome => \E r \in Copies(id) : outcome'[r] = rows'[id]
  <2>1. ASSUME NEW r \in Request, StoreRow(r)
        PROVE  rows'[id] = "queued"
    BY <1>0, <1>3, <2>1 DEF StoreRow, TypePart
  <2>2. ASSUME NEW r \in Request, MarkRunning(r)
        PROVE  r \in Copies(id) /\ rows'[id] = "running" /\ run'[r] = "running"
    BY <1>0, <1>3, <2>2 DEF MarkRunning, WriteRow, TypePart, Copies
  <2>3. ASSUME NEW r \in Request, RecordOutcome(r)
        PROVE  r \in Copies(id) /\ rows'[id] = outcome'[r] /\ outcome'[r] \in Outcome
    BY <1>0, <1>3, <2>3 DEF RecordOutcome, WriteRow, TypePart, Copies
  <2>4. \/ \E r \in Request : StoreRow(r) \/ MarkRunning(r) \/ RecordOutcome(r)
        \/ UNCHANGED rows
    BY DEF Next, vars, Caller, Execution, Admit, Push, Count, NotifyWorker, Worker,
           Wake, Drained, Pop, Spawn, Execute, Uncount, Release, Crash
  <2>. QED
    BY <2>1, <2>2, <2>3, <2>4, <1>3 DEF Outcome
<1>. QED
  BY <1>2, <1>3 DEF RowNeverAhead, Copies

-----------------------------------------------------------------------------
(***************************************************************************)
(* The inductive invariant and the theorems.                               *)
(***************************************************************************)
IInv ==
  /\ Shape /\ PermitsConserved /\ DepthExact /\ OverrunBound /\ NoOvertaking
  /\ OutcomeLate /\ RowNeverAhead

\* The inductive invariant holds initially.
LEMMA InitIInv == Init => IInv
<1> SUFFICES ASSUME Init PROVE IInv
  OBVIOUS
<1>1. TypePart
  BY InitTypePart
<1>2. CallsAgree /\ OneHeld /\ TicketsBounded /\ OutcomeLate
  BY DEF Init, CallsAgree, OneHeld, TicketsBounded, OutcomeLate
<1>3. BucketsHoldWaiting
  BY DEF Init, BucketsHoldWaiting, Runs
<1>4. NoOvertaking /\ RowNeverAhead
  BY DEF Init, NoOvertaking, RowNeverAhead, Outcome
<1>5. Runs(Executing) = {} /\ Outstanding = {} /\ Early = {} /\ Backlog = {}
  BY DEF Init, Runs, Calls, Executing, Outstanding, Early, Backlog
<1>6. PermitsConserved /\ DepthExact /\ OverrunBound
  BY <1>5, FS_EmptySet, QueueAssumption
     DEF Init, PermitsConserved, DepthExact, OverrunBound, Wrapped
<1>. QED
  BY <1>1, <1>2, <1>3, <1>4, <1>6 DEF IInv, Shape

\* Every step preserves the inductive invariant.
LEMMA NextIInv == IInv /\ [Next]_vars => IInv'
  BY NextTypePart, NextCallsAgree, NextOneHeld, NextTicketsBounded, NextBuckets,
     NextPermits, NextDepth, NextOverrun, NextNoOvertaking, NextOutcomeLate,
     NextRowNeverAhead
     DEF IInv, Shape

\* The inductive invariant holds in every reachable state of the queue.
THEOREM Inductive == Spec => []IInv
  BY InitIInv, NextIInv, PTL DEF Spec

\* The inductive invariant implies the type invariant.
LEMMA IInvType == IInv => TypeOK
<1> SUFFICES ASSUME IInv PROVE TypeOK
  OBVIOUS
<1>1. TypePart /\ PermitsConserved
  BY DEF IInv, Shape
<1>2. Runs(Executing) \in SUBSET Request
  BY DEF Runs
<1>3. permits <= MaxInflight /\ permits \in Int
  BY <1>1, <1>2, FiniteRequests, QueueAssumption DEF PermitsConserved, TypePart
<1>. QED
  BY <1>1, <1>3 DEF TypeOK, TypePart

\* Every reachable state is well typed: queue_depth stays an AtomicUsize and
\* the semaphore never holds more than max_inflight permits.
THEOREM TypeCorrect == Spec => []TypeOK
  BY Inductive, IInvType, PTL

\* The permits of the inflight semaphore and the spawned executions always
\* add up to max_inflight: no more tools run at once, and none is leaked.
THEOREM PermitsAlwaysConserved == Spec => []PermitsConserved
<1>1. IInv => PermitsConserved
  BY DEF IInv
<1>. QED
  BY <1>1, Inductive, PTL

\* queue_depth always is the number of outstanding tasks, less the tasks that
\* ran before their enqueue counted them.
THEOREM DepthAlwaysExact == Spec => []DepthExact
<1>1. IInv => DepthExact
  BY DEF IInv
<1>. QED
  BY <1>1, Inductive, PTL

\* Concurrent calls of enqueue overrun max_pending by less than their number.
THEOREM OverrunAlwaysBounded == Spec => []OverrunBound
<1>1. IInv => OverrunBound
  BY DEF IInv
<1>. QED
  BY <1>1, Inductive, PTL

\* The deques always hold exactly the waiting tasks, each once and in order.
THEOREM DequesAlwaysHoldWaiting == Spec => []BucketsHoldWaiting
<1>1. IInv => BucketsHoldWaiting
  BY DEF IInv, Shape
<1>. QED
  BY <1>1, Inductive, PTL

\* The worker never takes a task past an earlier one that is as urgent.
THEOREM NothingOvertakes == Spec => []NoOvertaking
<1>1. IInv => NoOvertaking
  BY DEF IInv
<1>. QED
  BY <1>1, Inductive, PTL

\* The status column never reports what no copy of the task has reached.
THEOREM RowsNeverRunAhead == Spec => []RowNeverAhead
<1>1. IInv => RowNeverAhead
  BY DEF IInv
<1>. QED
  BY <1>1, Inductive, PTL

-----------------------------------------------------------------------------
(***************************************************************************)
(* How the rows settle when no write of a row fails: a row still shows     *)
(* what its last writer wrote, and that writer has got no further.         *)
(***************************************************************************)
Wrote(id, w) ==
  \/ /\ rows[id] = "queued"
     /\ call[w] \notin {"idle", "admitted", "rejected"}
     /\ run[w] \in {"none", "pending", "held", "spawned", "lost"}
  \/ rows[id] = "running" /\ run[w] \in {"running", "executed", "lost"}
  \/ rows[id] = outcome[w] /\ run[w] \in {"recorded", "uncounted", "finished", "lost"}

Unwritten(id) ==
  /\ rows[id] = "absent"
  /\ \A r \in Copies(id) :
       run[r] = "none" /\ call[r] \in {"idle", "admitted", "rejected", "aborted"}

LastWriter == \A id \in TaskId : Unwritten(id) \/ \E w \in Copies(id) : Wrote(id, w)

\* A writer stays the last one until its row changes.
LEMMA WriterStays ==
  ASSUME ~StoreMayFail, Shape, [Next]_vars, NEW id \in TaskId, rows'[id] = rows[id],
         NEW w \in Copies(id), Wrote(id, w)
  PROVE  Wrote(id, w)'
<1>0. /\ TypePart /\ w \in Request /\ IdOf[w] = id /\ IdOf \in [Request -> TaskId]
      /\ CallsAgree /\ BucketsHoldWaiting
  BY QueueAssumption DEF Shape, Copies
<1>1. ASSUME NEW r \in Request, Admit(r) \/ StoreRow(r) \/ Count(r) \/ NotifyWorker(r)
      PROVE  Wrote(id, w)'
  BY <1>0, <1>1 DEF Admit, StoreRow, Count, NotifyWorker, Wrote, TypePart, CallsAgree
<1>2. ASSUME NEW r \in Request, Push(r)
      PROVE  Wrote(id, w)'
  BY <1>0, <1>2 DEF Push, Wrote, TypePart, CallsAgree
<1>3. ASSUME NEW r \in Request, Pop(r)
      PROVE  Wrote(id, w)'
  <2>1. run[r] = "pending"
    BY <1>0, <1>3, PopTakesOldest
  <2>. QED
    BY <1>0, <1>3, <2>1 DEF Pop, Wrote, TypePart
<1>4. ASSUME NEW r \in Request, Spawn(r) \/ Execute(r) \/ Uncount(r) \/ Release(r)
      PROVE  Wrote(id, w)'
  BY <1>0, <1>4 DEF Spawn, Execute, Uncount, Release, Wrote, TypePart
<1>5. ASSUME NEW r \in Request, MarkRunning(r)
      PROVE  Wrote(id, w)'
  <2>1. rows' = [rows EXCEPT ![IdOf[r]] = "running"]
    BY <1>5 DEF MarkRunning, WriteRow
  <2>2. r = w => rows[id] = "running"
    BY <1>0, <2>1 DEF TypePart
  <2>. QED
    BY <1>0, <1>5, <2>2 DEF MarkRunning, Wrote, TypePart
<1>6. ASSUME NEW r \in Request, RecordOutcome(r)
      PROVE  Wrote(id, w)'
  <2>1. rows' = [rows EXCEPT ![IdOf[r]] = outcome[r]] /\ outcome[r] \in Outcome
    BY <1>0, <1>6 DEF RecordOutcome, WriteRow, TypePart
  <2>2. r = w => rows[id] = outcome[w]
    BY <1>0, <2>1 DEF TypePart
  <2>. QED
    BY <1>0, <1>6, <2>2 DEF RecordOutcome, Wrote, TypePart
<1>7. CASE Crash
  BY <1>0, <1>7 DEF Crash, Wrote, TypePart, CallsAgree, InProgress
<1>8. CASE Wake \/ Drained \/ UNCHANGED vars
  BY <1>8 DEF Wake, Drained, vars, queueVars, Wrote
<1>. QED
  BY <1>1, <1>2, <1>3, <1>4, <1>5, <1>6, <1>7, <1>8 DEF Next, Caller, Execution, Worker

\* The row of a task without a writer has none until one of its calls stores it.
LEMMA UnwrittenStays ==
  ASSUME ~StoreMayFail, Shape, [Next]_vars, NEW id \in TaskId, rows'[id] = rows[id], Unwritten(id)
  PROVE  Unwritten(id)'
<1>0. /\ TypePart /\ IdOf \in [Request -> TaskId] /\ CallsAgree /\ BucketsHoldWaiting
      /\ \A r \in Copies(id) : r \in Request /\ IdOf[r] = id
  BY QueueAssumption DEF Shape, Copies
<1> SUFFICES ASSUME NEW q \in Copies(id)
             PROVE  run'[q] = "none" /\ call'[q] \in {"idle", "admitted", "rejected", "aborted"}
  BY DEF Unwritten, Copies
<1>a. /\ rows[id] = "absent" /\ q \in Request /\ IdOf[q] = id /\ run[q] = "none"
      /\ call[q] \in {"idle", "admitted", "rejected", "aborted"}
  BY <1>0 DEF Unwritten
<1>1. ASSUME NEW r \in Request, Admit(r) \/ Push(r) \/ Count(r) \/ NotifyWorker(r) \/ Execution(r) \/ Spawn(r)
      PROVE  run'[q] = "none" /\ call'[q] \in {"idle", "admitted", "rejected", "aborted"}
  BY <1>0, <1>a, <1>1 DEF Admit, Push, Count, NotifyWorker, Execution, MarkRunning, Execute, RecordOutcome,
     Uncount, Release, Spawn, TypePart
<1>2. ASSUME NEW r \in Request, StoreRow(r)
      PROVE  run'[q] = "none" /\ call'[q] \in {"idle", "admitted", "rejected", "aborted"}
  <2>1. rows' = [rows EXCEPT ![IdOf[r]] = "queued"]
    BY <1>2 DEF StoreRow
  <2>2. r # q
    BY <1>0, <1>a, <2>1 DEF TypePart
  <2>. QED
    BY <1>0, <1>a, <1>2, <2>2 DEF StoreRow, TypePart
<1>3. ASSUME NEW r \in Request, Pop(r)
      PROVE  run'[q] = "none" /\ call'[q] \in {"idle", "admitted", "rejected", "aborted"}
  <2>1. run[r] = "pending"
    BY <1>0, <1>3, PopTakesOldest
  <2>. QED
    BY <1>0, <1>3, <1>a, <2>1 DEF Pop, TypePart
<1>4. CASE Crash
  BY <1>a, <1>4 DEF Crash
<1>5. CASE Wake \/ Drained \/ UNCHANGED vars
  BY <1>5, <1>a DEF Wake, Drained, vars, queueVars
<1>. QED
  BY <1>1, <1>2, <1>3, <1>4, <1>5 DEF Next, Caller, Worker

\* A row that changes shows what a step of one of its copies wrote.
LEMMA WriterComes ==
  ASSUME ~StoreMayFail, Shape, [Next]_vars, NEW id \in TaskId, rows'[id] # rows[id]
  PROVE  \E w \in Copies(id) : Wrote(id, w)'
<1>0. TypePart /\ IdOf \in [Request -> TaskId] /\ CallsAgree
  BY QueueAssumption DEF Shape
<1>1. ASSUME NEW r \in Request, StoreRow(r)
      PROVE  r \in Copies(id) /\ Wrote(id, r)'
  BY <1>0, <1>1 DEF StoreRow, TypePart, Copies, CallsAgree, Wrote
<1>2. ASSUME NEW r \in Request, MarkRunning(r)
      PROVE  r \in Copies(id) /\ Wrote(id, r)'
  BY <1>0, <1>2 DEF MarkRunning, WriteRow, TypePart, Copies, Wrote
<1>3. ASSUME NEW r \in Request, RecordOutcome(r)
      PROVE  r \in Copies(id) /\ Wrote(id, r)'
  BY <1>0, <1>3 DEF RecordOutcome, WriteRow, TypePart, Copies, Wrote
<1>4. \/ \E r \in Request : StoreRow(r) \/ MarkRunning(r) \/ RecordOutcome(r)
      \/ UNCHANGED rows
  BY DEF Next, vars, Caller, Execution, Admit, Push, Count, NotifyWorker, Worker,
         Wake, Drained, Pop, Spawn, Execute, Uncount, Release, Crash
<1>. QED
  BY <1>1, <1>2, <1>3, <1>4

\* Every step leaves every row with its last writer.
LEMMA NextLastWriter ==
  ASSUME ~StoreMayFail
  PROVE  Shape /\ LastWriter /\ [Next]_vars => LastWriter'
<1> SUFFICES ASSUME Shape, LastWriter, [Next]_vars, NEW id \in TaskId
             PROVE  Unwritten(id)' \/ \E w \in Copies(id) : Wrote(id, w)'
  BY DEF LastWriter, Copies
<1>1. CASE rows'[id] # rows[id]
  BY <1>1, WriterComes
<1>2. CASE rows'[id] = rows[id]
  BY <1>2, WriterStays, UnwrittenStays DEF LastWriter
<1>. QED
  BY <1>1, <1>2

\* When writes of rows do not fail, a row whose copies have all run, or have
\* never been stored, shows the outcome of one of them, also after a crash.
THEOREM RowsSettle == ASSUME ~StoreMayFail PROVE Spec => []RowSettles
<1>1. Init => LastWriter
  BY DEF Init, LastWriter, Unwritten, Copies
<1>2. Shape /\ OutcomeLate /\ LastWriter => RowSettles
  <2> SUFFICES ASSUME Shape, LastWriter, NEW id \in TaskId,
                      NEW r \in Copies(id), run[r] \in {"recorded", "uncounted", "finished"},
                      \A q \in Copies(id) : \/ run[q] \in {"recorded", "uncounted", "finished"}
                                            \/ call[q] \in {"idle", "admitted", "rejected"}
               PROVE  \E q \in Copies(id) : /\ run[q] \in {"recorded", "uncounted", "finished"}
                                            /\ rows[id] = outcome[q]
    BY DEF RowSettles, Copies, Calls
  <2>1. ~Unwritten(id)
    BY DEF Unwritten
  <2>2. PICK w \in Copies(id) : Wrote(id, w)
    BY <2>1 DEF LastWriter
  <2>3. run[w] \in {"recorded", "uncounted", "finished"}
    BY <2>2 DEF Wrote, Shape, CallsAgree, Copies
  <2>. QED
    BY <2>2, <2>3 DEF Wrote
<1>3. IInv => Shape /\ OutcomeLate
  BY DEF IInv
<1>. QED
  BY <1>1, <1>2, <1>3, NextLastWriter, Inductive, PTL DEF Spec

-----------------------------------------------------------------------------
(***************************************************************************)
(* The queue implements TaskPool: each step refuses, enters, starts or     *)
(* finishes one request of the pool, restarts it, or is invisible to it.   *)
(***************************************************************************)
phase == [r \in Request |-> PhaseOf(r)]

Waiting == {r \in Request : phase[r] = "waiting"}
Active  == {r \in Request : phase[r] = "active"}

\* A call and its place in the queue give the phase of the request.
LEMMA Phases ==
  ASSUME TypePart
  PROVE  /\ Waiting = Runs({"pending", "held"})
         /\ Active = Runs({"spawned", "running", "executed", "recorded"})
BY DEF phase, PhaseOf, Waiting, Active, Runs, TypePart, RunState, Executing

\* What a step does to the phases when it moves one call only.
LEMMA OnePhase ==
  ASSUME NEW r \in Request, \A q \in Request \ {r} : run'[q] = run[q] /\ call'[q] = call[q]
  PROVE  phase' = [phase EXCEPT ![r] = phase'[r]]
<1>1. \A q \in Request \ {r} : phase'[q] = phase[q]
  BY DEF phase, PhaseOf
<1>. QED
  BY <1>1 DEF phase

\* Initially nothing has entered the pool.
LEMMA PoolInit == Init => Pool!Init
<1> SUFFICES ASSUME Init PROVE Pool!Init
  OBVIOUS
<1>1. phase = [r \in Request |-> "new"]
  BY DEF Init, phase, PhaseOf, Refused
<1>. QED
  BY <1>1 DEF Init, Pool!Init, phase

\* A refused call and a row that could not be stored refuse the request.
LEMMA PoolAdmit ==
  ASSUME IInv, NEW r \in Request, Admit(r) \/ StoreRow(r)
  PROVE  Pool!Refuse(r) \/ UNCHANGED Pool!poolVars
<1>0. TypePart /\ CallsAgree
  BY DEF IInv, Shape
<1>1. /\ call[r] \in {"idle", "admitted"} /\ run' = run /\ ticket' = ticket /\ pushes' = pushes
      /\ call' = [call EXCEPT ![r] = call'[r]]
      /\ call'[r] \in {"rejected", "admitted", "stored", "errored"}
  BY <1>0 DEF Admit, StoreRow, queueVars, TypePart
<1>2. run[r] = "none" /\ \A q \in Request \ {r} : call'[q] = call[q]
  BY <1>0, <1>1 DEF CallsAgree, TypePart
<1>3. phase[r] = "new" /\ phase' = [phase EXCEPT ![r] = phase'[r]]
      /\ phase'[r] = IF call'[r] \in {"rejected", "errored"} THEN "refused" ELSE "new"
  BY <1>1, <1>2, OnePhase DEF phase, PhaseOf, Refused
<1>4. CASE phase'[r] = "new"
  BY <1>1, <1>3, <1>4 DEF Pool!poolVars, phase
<1>5. CASE phase'[r] = "refused"
  BY <1>1, <1>3, <1>5 DEF Pool!Refuse, phase
<1>. QED
  BY <1>3, <1>4, <1>5

\* push_back lets the request enter: with the task that enters, the backlog is
\* at most the limit.
LEMMA PoolPush ==
  ASSUME IInv, NEW r \in Request, Push(r)
  PROVE  Pool!Enter(r)
<1>0. TypePart /\ CallsAgree /\ OverrunBound
  BY DEF IInv, Shape
<1>1. /\ call[r] = "stored" /\ run[r] = "none"
      /\ call' = [call EXCEPT ![r] = "pushed"] /\ run' = [run EXCEPT ![r] = "pending"]
      /\ pushes' = pushes + 1 /\ ticket' = [ticket EXCEPT ![r] = pushes + 1]
  BY <1>0 DEF Push, CallsAgree
<1>2. phase[r] = "new" /\ phase' = [phase EXCEPT ![r] = "waiting"]
  <2>1. phase[r] = "new" /\ phase'[r] = "waiting"
    BY <1>0, <1>1 DEF phase, PhaseOf, Refused, TypePart
  <2>2. \A q \in Request \ {r} : run'[q] = run[q] /\ call'[q] = call[q]
    BY <1>0, <1>1 DEF TypePart
  <2>. QED
    BY <2>1, <2>2, OnePhase
<1>3. Cardinality(Waiting \cup Active) < MaxPending + MaxCallers - 1
  <2>1. r \in Backlog /\ r \notin Waiting \cup Active
    BY <1>0, <1>1, Phases DEF Backlog, Calls, Early, Runs
  <2>2. Waiting \cup Active \subseteq Backlog \ {r}
    <3> SUFFICES ASSUME NEW q \in Waiting \cup Active PROVE q \in Backlog
      BY <2>1
    <3>1. q \in Request /\ run[q] \in {"pending", "held", "spawned", "running", "executed", "recorded"}
      BY <1>0, Phases DEF Runs
    <3>2. call[q] \in {"pushed", "counted", "accepted"}
      BY <1>0, <3>1 DEF CallsAgree, TypePart, CallState, InProgress
    <3>. QED
      BY <3>1, <3>2 DEF Backlog, Outstanding, Early, Calls, Runs
  <2>3. Backlog \subseteq Request /\ IsFiniteSet(Backlog) /\ Cardinality(Backlog) \in Nat
    BY FiniteRequests DEF Backlog, Outstanding, Early, Calls
  <2>4. Cardinality(Backlog \ {r}) = Cardinality(Backlog) - 1 /\ IsFiniteSet(Backlog \ {r})
    BY <2>1, <2>3, FS_RemoveElement
  <2>5. Cardinality(Waiting \cup Active) <= Cardinality(Backlog \ {r})
        /\ Cardinality(Waiting \cup Active) \in Nat
    BY <2>2, <2>4, FS_Subset, FS_CardinalityType
  <2>. QED
    BY <1>0, <2>3, <2>4, <2>5, QueueAssumption DEF OverrunBound
<1>. QED
  BY <1>1, <1>2, <1>3 DEF Pool!Enter, Pool!In, Pool!Cardinality, Cardinality, phase, Waiting, Active

\* The worker starts the request it holds: a permit is free, and the waiting
\* requests of its priority or a more urgent one entered after it.
LEMMA PoolSpawn ==
  ASSUME IInv, NEW r \in Request, Spawn(r)
  PROVE  Pool!Start(r)
<1>0. TypePart /\ OneHeld /\ NoOvertaking /\ PermitsConserved /\ TicketsBounded
  BY DEF IInv, Shape
<1>1. /\ run[r] = "held" /\ permits > 0 /\ call' = call
      /\ run' = [run EXCEPT ![r] = "spawned"] /\ pushes' = pushes /\ ticket' = ticket
  BY DEF Spawn, queueVars
<1>2. phase[r] = "waiting" /\ phase' = [phase EXCEPT ![r] = "active"]
  <2>1. phase[r] = "waiting" /\ phase'[r] = "active"
    BY <1>0, <1>1 DEF phase, PhaseOf, TypePart
  <2>2. \A q \in Request \ {r} : run'[q] = run[q] /\ call'[q] = call[q]
    BY <1>0, <1>1 DEF TypePart
  <2>. QED
    BY <2>1, <2>2, OnePhase
<1>3. Cardinality(Active) < MaxInflight
  <2>1. Active \subseteq Runs(Executing)
    BY <1>0, Phases DEF Runs, Executing
  <2>2. IsFiniteSet(Runs(Executing)) /\ Cardinality(Runs(Executing)) \in Nat
    BY FiniteRequests DEF Runs
  <2>3. Cardinality(Active) <= Cardinality(Runs(Executing)) /\ Cardinality(Active) \in Nat
    BY <2>1, <2>2, FS_Subset, FS_CardinalityType
  <2>. QED
    BY <1>0, <1>1, <2>2, <2>3, QueueAssumption DEF PermitsConserved, TypePart
<1>4. ASSUME NEW q \in Waiting, Prio[q] <= Prio[r]
      PROVE  ticket[r] <= ticket[q]
  <2>1. q \in Request /\ run[q] \in {"pending", "held"}
    BY <1>0, Phases DEF Runs
  <2>2. ticket[q] \in Nat /\ ticket[r] \in Nat
    BY <1>0, <2>1 DEF TypePart
  <2>3. CASE run[q] = "pending"
    BY <1>0, <1>1, <1>4, <2>1, <2>2, <2>3 DEF NoOvertaking
  <2>4. CASE run[q] = "held"
    BY <1>0, <1>1, <2>1, <2>2, <2>4 DEF OneHeld
  <2>. QED
    BY <2>1, <2>3, <2>4
<1>. QED
  BY <1>1, <1>2, <1>3, <1>4 DEF Pool!Start, Pool!In, Pool!Cardinality, Cardinality, phase, Waiting, Active

\* The decrement finishes the request; the other steps of an execution, and
\* the pop, leave it in its phase.
LEMMA PoolRun ==
  ASSUME IInv, NEW r \in Request, Execution(r) \/ Pop(r)
  PROVE  Pool!Finish(r) \/ UNCHANGED Pool!poolVars
<1>0. TypePart
  BY DEF IInv, Shape
<1>a. call' = call /\ ticket' = ticket /\ pushes' = pushes
  BY DEF Execution, MarkRunning, Execute, RecordOutcome, Uncount, Release, Pop, queueVars
<1>b. \A q \in Request \ {r} : run'[q] = run[q] /\ call'[q] = call[q]
  BY <1>0, <1>a DEF Execution, MarkRunning, Execute, RecordOutcome, Uncount, Release, Pop, TypePart
<1>1. CASE Uncount(r)
  <2>1. phase[r] = "active" /\ phase'[r] = "done"
    BY <1>0, <1>1 DEF Uncount, phase, PhaseOf, TypePart
  <2>. QED
    BY <1>a, <1>b, <2>1, OnePhase DEF Pool!Finish, phase
<1>2. CASE Pop(r)
  <2>1. run[r] = "pending" /\ run'[r] = "held"
    BY <1>0, <1>2, PopTakesOldest DEF IInv, Shape, Pop, TypePart
  <2>2. phase'[r] = phase[r]
    BY <2>1 DEF phase, PhaseOf
  <2>. QED
    BY <1>a, <1>b, <2>2, OnePhase DEF Pool!poolVars, phase
<1>3. CASE MarkRunning(r) \/ Execute(r) \/ RecordOutcome(r) \/ Release(r)
  <2>1. phase'[r] = phase[r]
    BY <1>0, <1>3 DEF MarkRunning, Execute, RecordOutcome, Release, phase, PhaseOf, TypePart
  <2>. QED
    BY <1>a, <1>b, <2>1, OnePhase DEF Pool!poolVars, phase
<1>. QED
  BY <1>1, <1>2, <1>3 DEF Execution

\* A crash restarts the pool: it cuts off the calls that had not pushed yet.
LEMMA PoolCrash ==
  ASSUME IInv, Crash
  PROVE  Pool!Restart
<1>0. TypePart /\ CallsAgree
  BY DEF IInv, Shape
<1> DEFINE cut == {r \in Request : run[r] = "none" /\ call[r] \in InProgress}
<1>1. \A r \in cut : phase[r] = "new"
  BY <1>0 DEF phase, PhaseOf, Refused, InProgress
<1>2. ASSUME NEW r \in Request
      PROVE  phase'[r] = IF r \in cut THEN "refused"
                         ELSE IF phase[r] \in {"waiting", "active"} THEN "lost"
                         ELSE phase[r]
  <2>1. call'[r] = (IF call[r] \in InProgress THEN "aborted" ELSE call[r])
        /\ run'[r] = (IF run[r] \in {"none", "lost"} THEN run[r]
                      ELSE IF run[r] \in {"uncounted", "finished"} THEN "finished"
                      ELSE "lost")
    BY DEF Crash
  <2>2. run[r] \in RunState
    BY <1>0 DEF TypePart
  <2>. QED
    BY <2>1, <2>2 DEF phase, PhaseOf, Refused, RunState, Executing, InProgress
<1>3. ticket' = ticket /\ pushes' = pushes
  BY DEF Crash
<1>. QED
  BY <1>1, <1>2, <1>3 DEF Pool!Restart, Pool!In, phase

\* Every step of the queue is a step of the pool or leaves the pool alone.
LEMMA PoolNext == IInv /\ [Next]_vars => [Pool!Next]_(Pool!poolVars)
<1> SUFFICES ASSUME IInv, [Next]_vars PROVE Pool!Next \/ UNCHANGED Pool!poolVars
  OBVIOUS
<1>1. ASSUME NEW r \in Request, Count(r) \/ NotifyWorker(r)
      PROVE  UNCHANGED Pool!poolVars
  <2>1. run' = run /\ ticket' = ticket /\ pushes' = pushes
    BY <1>1 DEF Count, NotifyWorker, queueVars
  <2>2. phase' = phase
    <3>1. /\ run[r] # "none" /\ TypePart
      BY <1>1 DEF IInv, Shape, CallsAgree, Count, NotifyWorker
    <3>2. \A q \in Request \ {r} : call'[q] = call[q]
      BY <1>1, <3>1 DEF Count, NotifyWorker, TypePart
    <3>. QED
      BY <2>1, <3>1, <3>2 DEF phase, PhaseOf
  <2>. QED
    BY <2>1, <2>2 DEF Pool!poolVars, phase
<1>2. CASE Wake \/ Drained \/ UNCHANGED vars
  <2>1. run' = run /\ call' = call /\ ticket' = ticket /\ pushes' = pushes
    BY <1>2 DEF Wake, Drained, vars, queueVars
  <2>. QED
    BY <2>1 DEF Pool!poolVars, PhaseOf
<1>. QED
  BY <1>1, <1>2, PoolAdmit, PoolPush, PoolSpawn, PoolRun, PoolCrash
     DEF Next, Caller, Worker, Pool!Next

\* The queue starts tasks in the promised order, never more than max_inflight
\* at once, and holds no more than the limit.
THEOREM QueueImplementsPool == Spec => ImplementsPool
  BY PoolInit, PoolNext, Inductive, PTL DEF Spec, ImplementsPool, Pool!Spec
=============================================================================
