# OpenPinch: a verification development

OpenPinch is a local AI runtime: a Rust engine, a Go gateway, a Rust command
line and a Flutter desktop client. This directory holds TLA+ specifications
translated from that code, TLC configurations that check them on small
instances, and theorems that the TLA+ proof system checks for every instance.
Paths below are relative to the repository root; `lib.rs` is
`core/crates/engine/src/lib.rs` and `main.rs` is `cli/src/main.rs`.

## 1. Inventory

| Component | State it keeps | Operations | What makes it correct |
|---|---|---|---|
| Task queue (`lib.rs` 4843-4981) | three deques under a mutex, an atomic `queue_depth`, a semaphore of `max_inflight` permits, a stored `Notify` permit, table `queue_tasks` | `enqueue`, `run_queue_worker`, the spawned executions | every accepted task runs once, in priority order, within the limits; permits and depth are conserved; rows tell what happened |
| Messaging (216-563, 832-915, 2160-2560) | tables `sessions`, `session_messages`, `pairings` | `handle_message`, `record_outbound_message`, `update_pairing`, `prune_sessions` | a sender is answered only as the pairing allows; an answer is in the transcript; counts match; every message ends |
| State store (1743-1923) | one SQLite connection behind one `parking_lot` mutex | one method, one lock, several auto-committed statements | no method locks it twice; statements of one method survive a crash together or harmlessly |
| Orchestrator (4700-4835, 1961-2060) | exact, prefix and semantic caches, a semaphore | `generate_with_route`, `generate_live` | a cached reply is near its prompt; no end of a call loses a permit; a retry after a failure finds what was kept |
| Model providers (`providers/mod.rs`) | none | HTTP calls | pure I/O |
| Brain (2641-4245) | tables of entities, facts, tasks and relations, and their projections in `vector_memory` | remember, recall, suggest, list, update, forget, three ingests, the baseline at start | rows and projections agree; a task is not opened twice nor revived by a stale write; recall answers from one time |
| Encryption key (4993-5024, `crypto.rs`) | the data key in the key store or a file | `load_or_init`, seal, open | what one run encrypts the next can decrypt |
| Agent protocols (5113-5171, `docs/formal`) | none | `validate_protocol` | a run is accepted iff the rules hold; every finished handoff is |
| Policy (`policy.rs`) | the matrix loaded at start; its file | `evaluate` | a machine that works for a call is permitted by the policy in force |
| Skills and tools (`skill.rs`, `tools/src/lib.rs`) | installed bundles | verify, install, execute | what is run is one verified bundle of the skill, whole |
| Sandbox (`sandbox/`) | a work directory, a child process with a VM | `execute` with a time-out | no VM outlives its call but for a known reason |
| Desktop host supervision (`main.rs` 445-690, 2002-2032; `gateway/cmd/gateway/main.go`) | the state file, the shutdown file, the socket path, the TCP address, child processes | `desktop host`, `start`, `desktop shutdown` | one host at a time; no gateway without its host; the record is true; shutdown is obeyed |
| Gateway server and bridge (`server.go`, `bridge.go`) | one gRPC connection | one engine call per request, ten seconds each | a request is applied as often as it is reported |
| Event hub (`events.go`) | history of 128, subscribers with channels of 32 | publish, subscribe, stream | a subscriber sees each event once and in order, or is told of a gap |
| Telegram connector (`telegram.go`) | the poll offset | poll loop, send | each update is delivered |
| Scheduler (`scheduler.go`) | cron entries by job | `Schedule`, `Remove` | one entry for a job |
| Log follower (`server.go` 779-815) | position in the file | `TailLogs` | each line once |
| Other connectors, Flutter client, configuration, generated schema, operator | none that decides | | stubs, layout, parsing, scaffolds (section 6) |

**How they interact.** A connector or the desktop client calls the gateway; the
gateway calls the engine over a private Unix socket, each call cut off after ten
seconds; the engine's handlers run concurrently on tokio and share the store,
whose single mutex is taken per method. Queue tasks run in spawned tasks beside
the handlers. The host process contains the engine and supervises the gateway,
and hosts know of each other only through files and addresses.

**Hard behaviours.** Handlers interleave between store methods; an await can be
the last thing a cancelled handler does; statements commit one by one, so that a
crash falls between them; counters are adjusted outside the lock that guards what
they count; a `Notify` coalesces; processes race for files. `PROJECT.json` lists
them as hazards with their lines and with the properties that cover them.

## 2. Modules

### TaskQueue, TaskPool, MCTaskQueue

`TaskQueue` has one action per atomic step of the queue. A caller of `enqueue`
goes through `Admit` (the unlocked test against `max_pending`), `StoreRow`,
`Push`, `Count` and `NotifyWorker`; the worker through `Wake`, `Pop`, `Drained`
and `Spawn` (it holds the popped task while it waits for a permit); an execution
through `MarkRunning`, `Execute`, `RecordOutcome`, `Uncount` and `Release`.
`Push` comes before `Count`, as in the code, so that an execution can decrement
`queue_depth` first: the counter is an `AtomicUsize` and wraps (`Wrapped`).
`outcome` is a choice, because tools are arbitrary. Writes of the row may fail
where the code ignores the error. `Crash` loses everything but the table.

`TaskPool` is the abstract promise, without threads, counters or semaphores: a
pool that runs at most `Capacity` tasks at once, holds at most `Limit` unfinished
ones, and starts waiting tasks by priority and, at equal priority, in the order
they entered. `ImplementsPool` is that specification under a refinement mapping:
a task enters at `push_back`, is active from its spawn and done once uncounted;
`Limit` is `max_pending` plus the overrun that the unlocked admission test allows.

### Messaging, MCMessaging

`pc[m]` is how far the handler of message `m` got. An action is one store method,
except that a method which commits twice is two actions with `lock` held in
between (`Insert`/`Count`, `DeleteMessages`/`DeleteSessions`,
`UpdatePairing`/`FinishUpdate`), so that a crash or an error falls between its statements.
`Fault` is a statement of a handler that fails with `?`; `StatementFails` is the second
statement of `prune_sessions` or `update_pairing` that does, after the first was committed.
Two errors are not returned: `build_context_pack` goes without its context, and
`pairing_is_approved` (`lib.rs` 2534-2542) takes an error of its query for "not approved",
so that the handler goes on to `ensure_pairing` (`GateUnread`). The history variables are
`seen` (the states of the pairing in force since a message arrived), `blind` (the messages whose
look at the pairings failed) and `cut` (the sessions a prune emptied and did not get to delete).
`Gate` is `ensure_pairing_if_required`, `Audit` the audit row that is written before the
answer and whose failure turns it into an error, `Filter` is `should_ignore_message`, `Generate` the model call, `Cancel` the
bridge's deadline, which drops the handler while it awaits the model.
`UpsertPairing` is `ensure_pairing`: it upserts and then calls
`pairing_for_target`, which locks the mutex the method already holds.
`parking_lot` mutexes are not reentrant; the lock is never released and the
handler never goes on (section 5). Message texts, ids and times are abstracted to
what the guards test: who must pair (`Policy`), whether a group message is
addressed (`Unaddressed`), whether a session is old enough to prune (`Age`).

### DesktopHost, MCDesktopHost

`pc[h]` is where a process is; `record`, `signal`, `sock` and the listening
gateway are the names the processes share; `gw[h]` is the child of `h` and
`link[g]` the engine a gateway's bridge is connected to. Each action is one file
operation, one bind, one answer or one poll. `TimesOut` is `wait_for_gateway`
giving up: because nothing answers, or too early (counted by `slow`). `Kill`,
`GatewayDies` and `GoToolDies` are the environment, counted by `kills`. Failing system
calls are counted by `errors`: `BootFails` is a `?` of `boot_runtime_sidecars`, `WriteFails`
one of `write_desktop_host_state` (`main.rs` 550 and 582; the file stays or is cut short,
and one that does not parse counts as none), `WaitFails` a failing `ctrl_c` or `try_wait` (473,
566, 573), `LoadFails` a state file that is there and cannot be read; the removals of files, whose errors
the code ignores, may each leave the file. `shutdown_runtime_sidecars` runs after none of the
errors past the boot, and no child is killed on drop, so the gateway goes on. The processes in `GoRun` find
no gateway binary and start `go run ./cmd/gateway` (2010-2013): what they poll and kill is the go tool, and
`loose` holds those whose tool has ended while the gateway it started goes on. An
interrupt is delivered to the host only; a terminal would deliver Ctrl+C to the gateway and the go tool
too, which is `GatewayDies`. History variables: `overlapped` (some process was started beside one that was
starting, stopping, or an `openpinch start`), `unread` (hosts that could not read a state
file) and `kept` (hosts that stopped and could not remove it).

### Orchestrator, MCOrchestrator

`pc[c]` is how far a call of `generate_with_route` got. `Acquire` takes the
permit, and every end of a call gives it back (`End`), be it a return, an error,
the panic of `&prompt[..128]` or the dropping of the future by the bridge's
deadline. `ExactGet`, `PrefixGet`, `SemanticGet` and the three puts are one
store method each; other calls interleave between them. A reply is abstracted to
the call whose generation it is, so that caches relate calls to prompts; how a
prompt is matched is left to the constants `HeadOf`, `Matches` (SQLite's `LIKE`,
with its wildcards) and `Resembles` (the 0.92 of the fingerprints), which the
proofs leave arbitrary. The data key is the number of times it was hashed since
it was drawn: 0 in the start that creates the key file, 1 in every later start,
which hashes the file's content; `memory` remembers the key of each entry.
`query_memory` decrypts every entry it ranks, so one that cannot be opened fails
the call (`Unreadable`). Only `generate_live` and the semaphore are awaited, so
that these are the points where `Cancel` can drop a call. The caches are taken
to be enabled, as they are by default.

### Brain, MCBrain

`BrainManager` has no lock of its own: a call is a sequence of critical sections
under the connection mutex. So a call is its script, `todo[c]`: the steps it has yet to
take, in the order of the code. `RememberPlan`, `MessagePlan`, `ToolPlan`,
`ReplyPlan`, `UpdatePlan`, `RecallPlan`, `SuggestPlan`, `ListTasksPlan`, `ContextPlan`,
`ForgetPlan` and `BaselinePlan` translate one operation each; `PutRow`, `PutIndex`,
`FindSimilar`, `ForgetRows` and so on are the steps, between which other calls run. A step
that reads (`FindSimilar`, `FindRelated`, `ReadTask`, `ListSuggestions`) appends what
the code does with the answer, computed from what was read then: that is how a stale
answer comes to be written. `how` on a `put` says where its record came from, and the
action properties are about it. `StepFails` is a statement that fails with `?`,
`StepIgnored` one whose error is dropped (`let _`, `.ok()?`), `ForgetCut` a later
statement of `forget`, whose statements commit one by one; `Crash` and `Start` are the
process, which runs the baseline script before it serves.

A task's summary and scope are one model value, and `Attracts` and `Closes` say which
texts merge and which tool results close a task, so that similarity is any relation.
`newer` is the order of the task rows by `updated_at`, as a set of pairs: a row is in the
window of `list_tasks` (`InWindow`) when fewer than `Window["task"]` (512) are newer, and only then
are archived rows dropped. The order of the other tables is not kept: when they hold more than their
`Window`, any so many rows are listed (`FirstOf`). The same goes for the projections that
`query_memory` reads (`Span`, 256), for the `3 * limit` it returns, and for the `Limit` of an answer, so that
whichever way scores and times rank the records, the model has that cut. `Answers(c)` is what
`recall` may return: of each kind the first hits that it has listed and that `scope_matches`
(`InScope`, over contents, facts and texts), and then the entities of the facts and at the ends of the relations,
as far as the limit leaves room. `seen` keeps what a recall has listed, and `cut` in it the kinds of which a window or
a query left something out.

The kind in a `forget` request and the id in it are not compared by the code: a `Target` is any pair of
them, `Along` the rows that the statements for that kind reach, and on "delete" the projections of the id
go in all four namespaces (`ForgetPlan`). Where the row is of another kind it stays without them
(`Stripped`), and `IndexAgrees` has to except it. `UpsertMemory` is the RPC of that name, which writes any namespace:
it puts `Foreign` content over the projections of `Direct` records, which are then in `torn`.
Under keys that are no record it would only take places in the span of a query, and that is left out; so is
what it writes into the namespace `semantic-cache`, which `Orchestrator` takes to be its own.

`Owed(s, k)` are the projections of `k` that a script `s` writes
before it writes the row of `k` again: a call is between a row and its
projections while it owes some (`Exposed`). History variables: `touched` (what others changed
since a call began), `torn` (records whose writers overlapped or were cut short, or whose projections
a `forget` of another kind or `UpsertMemory` changed) and
`cascaded` (facts deleted along with their entity, whose projections nothing removes). Left out: scores, the rows of
`brain_ingest_log` (written, never read), the audit rows written after an operation.
The three parts of `handle_message` that touch the brain are separate operations,
which can only add interleavings. Requests are taken to pass validation, and the brain to be
enabled. `RequestAssumption` says what the callers pass: the fact of a message, a note or a tool
is about the entity that is written just before it, but a tool's second fact is about the workspace.

### Policy, Tools

`Policy` is `CapabilityMatrix::evaluate`: a matrix is the sequence of its rules in the
order of the `BTreeMap`, and only the first whose pattern matches counts; deny wins
over allow. `Tools` extends it with three kinds of process. An installer
(`openpinch skill install`) verifies, then clears the directory file by file and
copies file by file (`Replace`, `RemoveFile`, `RemoveDir`, `MakeDir`, `OpenFile`,
`WriteFile`), without a lock, and `InstallStops` at any point. A call is authorised,
searches a manifest (`ReadManifest`), archives the directory file by file (`PackFile`),
spawns the jailer, waits for its socket, sends the boot requests and waits at most
ninety seconds; where it awaits (`Waiting`) its future can be dropped (`Cancel`). A
machine (`vms`) is a child that nothing kills. The engine stops and starts, and
loads the policy file only then. Digests and signatures appear as the set `Bundle` of verified bundles.
The source of an installation, verified twice, is taken not to change in between.
Malformed tool arguments are left out.

### Gateway, System, MCSystem

`Gateway` is what the gateway process keeps in memory. The event hub: `Publish` offers
an event to every channel and drops it for a full one; a stream subscribes
(`Subscribe`), then copies the history (`TakeHistory`), then sends history and
channel (`SendEvent`). Requests that publish (`AskFor` to `Announce`): the engine or a
connector answers, a sent message is recorded afterwards, then the events go out. The
Telegram loop (`GetUpdates`, `Deliver`, `Reply`): the offset moves before the delivery,
and Telegram forgets what lies below the offset it is asked for. The log follower
(`Follow`, `PollLog`) and the scheduler (`ScheduleJob`), which removes the old entry before it parses. A
call to the engine may fail before or after it took effect. `GatewayStops` loses all of it. `System` composes
`Gateway` and `Tools`: a cron tick and the gateway's `Execute` start calls
with a deadline, the engine's own queue calls without one. `GracefulStop` waiting
for open streams is not modelled; a follower whose client left counts as on until
a send fails. The history variables are `disturbed`, `torn`, `alone`, `everHandled`, `failed`,
`promised`, `shifted`, `missed`, `sub` and `snap`. That a message was sent means that the
HTTP request to Telegram was answered: `sendMessage` does not look at the status of the answer, so
that one which Telegram refused counts as sent, in the code and here.

Two facts about the log follower that `shifted` marks out: asked with `tail` 0 it
sends the whole file and then nothing more, since its window is then
as long as what it has seen; and once the file is longer than `tail + seen` the
window slides and lines are repeated or lost. `LinesReachFollowers` says
that nothing else goes wrong.

### Protocol, Handoff

`Protocol` has the findings of `validate_protocol` as a set, and `Rules`, what
`docs/formal/handoff_v1.validator.json` lists, with one difference in favour of
the code: a message without text may go unencrypted. `MCSystem` compares the two on
every run of up to two messages. `Handoff` is the machine of
`docs/formal/handoff_v1.tla`; its theorem relates it to the validator.

## 3. Runs

| Run | Instance | What it shows |
|---|---|---|
| `taskqueue_safety` | two concurrent callers, limits 1 and 1, failing writes, one crash | permits and depth are conserved, the deques hold exactly the waiting tasks in order, the overrun of the limit is below the number of concurrent calls, rows never run ahead, the queue implements `TaskPool` |
| `taskqueue_liveness` | one caller at a time, limits 2 and 2 | accepted tasks run although notifications coalesce; a row settles on an outcome of one of its tasks |
| `messaging_safety` | two direct messages of one unpaired sender, an inbound and an outbound group message; a pairing update, a prune, one failing statement, one crash | counts match transcripts but for explained losses, answers are logged, the gate is exact but for pairings it could not read, an approval is undone only by the operator, by the race between check and upsert, or by a failed read |
| `messaging_liveness` | one message for each policy | every message ends unless a handler waits for itself |
| `messaging_pairing` | the same | violated: see section 5 |
| `host_safety` | two desktop hosts, of which one runs its gateway with `go run`, and one plain runtime; one kill, one late answer, one failing system call | orphaned gateways, false records, hosts without their record and duplicate hosts have only the listed explanations |
| `host_liveness` | the two desktop hosts, the same faults, one shutdown request | a booted host serves with its own gateway or exits; a signalled host stops unless a second host takes the signal |
| `host_duplicates` | two hosts, no fault | violated: see section 5 |
| `orchestrator_safety` | five calls, two permits, four prompts (two with a common head, two that resemble, one that cannot be cut, asked twice), one failing statement, three starts | permits are conserved on every way out, a reply is one match away from its prompt, a panic leaves the answer for a retry, the key settles with the second start |
| `orchestrator_restart` | the same with two starts | violated: see section 5 |
| `brain_calls` | two callers, two operations out of twelve, one contact, three task texts of which each resembles the next, windows of one fact, two tasks and five relations, a span of five projections, a limit of four, two kinds of store left by an earlier run, one error or crash | rows and projections agree but for explained records; a task looked up is not overwritten or doubled, nor revived by a merge or a closing, unless another call came in between; facts keep their entity but for explained cases; recall mixes no times on its own, and leaves out only what its windows, limits and scope do |
| `system_calls` | a stream, two requests, a bot with two updates of which one is blank, a follower, a job; two tool calls, two installers of two versions in one directory, two policies; stops of either process | events and lines are lost or repeated only for the listed causes; updates and outbound messages are accounted for; jobs are what was promised; archives are whole; machines without a call have a reason and those at work a permission |

**Bounds.** They are constants of the modules (`MaxPending`, `MaxInflight`,
`MaxCallers`, `MaxUpdates`, `MaxPrunes`, `MaxCrashes`, `MaxFaults`, `MaxKills`,
`MaxSlow`, `MaxRequests`, `MaxErrors`, `MaxStarts`, `MaxCalls`, `MaxUpdates`, `MaxWork`, `MaxAlone`). The races above are between two actors and one
disturbance, so that two of each actor and one of each disturbance show them;
limits of one make every queue test both ways. `usize` is modelled by a small modulus
with the same wrap, larger than any number of tasks, so that no other
overflow exists. Three starts let the key change and then stay; the semantic
cache keeps fewer entries than the 256 that `query_memory` reads. `Window` is 512 in the program and `Span` 256: in `brain_calls` two of three tasks, one of
four facts and five of six projections of entities fit, so that records lie beyond them, and the answer has room
for four of a kind. Messages there mention no third entity (`Mentions`); the proofs are about any mentions. `host_safety` has no shutdown
request (`MaxRequests` 0): for what it checks, a host that is interrupted takes the same way out as one that is
signalled; `host_liveness` has one. `HistoryLimit` (128) and `ChannelLimit` (32) are 2 and 1, so that both overflow
within three events. `MaxWork` bounds the steps of the environment in `system_calls` to three, and to
four (`MaxAlone`) where all of them happen to the gateway: a subscription and
three events, or a follower and three lines; with more than three in both halves the product of
the two is too large. A call that overlaps two installations takes three. The proofs cover all other sizes. The two calls with
one prompt are interchangeable in `orchestrator_safety`. The desktop hosts of `host_duplicates`, the callers of the brain, the tool calls, installers and requests are
too; those of `host_safety` are not, since one of them has no gateway binary. No liveness run uses symmetry.

**Fairness.** Only weak fairness is assumed, and one condition for each thread of
control. tokio polls a ready task again: that is fairness of the worker, of
each call past its admission test and of each execution. That an execution ends is an assumption on
the tools: most of them have time-outs, but `firecracker_request` (`linux.rs` 250-278) reads its socket to the
end without one. In `Messaging` a handler that can go on does, its wait for the model ends
with the bridge's deadline at the latest, and the thread that holds the store
mutex releases it unless it waits for itself. A handler may find the mutex taken
again and again only as often as others use the store, which is finitely often here;
`parking_lot` also unlocks fairly at intervals. In `DesktopHost` it is fairness of
started processes, gateways and commands. Nothing forces the environment: calls,
messages, operators, faults, crashes, Ctrl+C and starts never have to happen. `Orchestrator`, `Brain` and `System` state safety only.
Deadlock is not checked in any run: when the bounded inputs are used up the systems
rest, and that a system rests too early is what the liveness runs exclude.

## 4. Proofs

`TaskQueueProofs` proves, for any set of calls, any priorities and any limits:
`TypeCorrect`, `PermitsAlwaysConserved`, `DepthAlwaysExact`,
`OverrunAlwaysBounded`, `DequesAlwaysHoldWaiting`, `NothingOvertakes`,
`RowsNeverRunAhead` and `QueueImplementsPool`, and `RowsSettle` for
a store whose updates succeed. The assumptions are those of the
module `TaskQueue` on its constants, among them that the modulus of `queue_depth`
exceeds the number of calls (2^64 in the program). `RowsSettle` assumes
`~StoreMayFail`, since the code goes on after a failed update and such a row stays
behind: `taskqueue_liveness`, where `RowSettles` is checked, has the same value.

`IInv` is the inductive invariant: the conjunction of `Shape`, `PermitsConserved`,
`DepthExact`, `OverrunBound`, `NoOvertaking`, `OutcomeLate` and `RowNeverAhead`.
`Shape` holds what the others lean on: types, which states of a call and of its
task go together (`CallsAgree`: a counted call has pushed, an unpushed one has no
task), that the worker holds at most one task and none unless it waits for a
permit (`OneHeld`), that no ticket exceeds the number of pushes (`TicketsBounded`), and
`BucketsHoldWaiting`. It is needed because a decrement may come
before its increment: only `CallsAgree` tells which tasks are `Outstanding` and
which are `Early`. `OverrunBound` needs `DepthExact`, as the admission test reads
the counter and the bound speaks of sets; `NoOvertaking` needs `OneHeld` and
`BucketsHoldWaiting`, as `Pop` looks at the heads of the deques only;
`RowNeverAhead` needs `OutcomeLate`, that a task has an outcome only after it ran.
`QueueImplementsPool` is the refinement, step by step: `Push` is the pool's entry (its
limit follows from `OverrunBound`), `Spawn` the start of a task (the order from
`NoOvertaking`, the capacity from `PermitsConserved`), `Uncount` its end, `Crash` the
loss of what is unfinished, and everything else a stutter. `RowsSettle` adds
`LastWriter`: a row that was written shows what one of its copies wrote. Each
conjunct has a lemma with one step for each action that can disturb it; lemmas on
sequences and cardinalities carry the arithmetic.

`OrchestratorProofs` proves `TypeCorrect`, `PermitsAlwaysConserved`,
`RepliesStayNear`, `PanicsLeaveAnswers` and `SettledKeyAlwaysOpens` for any set of
calls and prompts, any matching relations, any number of permits, starts and
faults. Its `IInv` adds to the checked properties `OwnRow` (a cache keeps a
generation in the row of the prompt it was made for, without which a look-up says
nothing about nearness), `KeyHistory` (the key is the drawn one exactly in the
first start, and no entry is sealed with a key of the future) and `KeptFirst` (a
call past its first put finds the exact cache filled, which makes
`PanicLeavesAnswer` inductive). `Moves` sums up what a step does to the permits,
so that the cardinalities are argued about once.

`ToolsProofs` and `SystemProofs` prove every property of
`system_calls`, the type invariant included, for any clients, calls, installers, bundles,
policies, histories and channel sizes, under the assumptions that `Policy`, `Tools`,
`Gateway` and `System` name. The invariant has one part for each piece of the
system, each inductive on its own but for the types it leans on, so that every part is
proved over its own steps and framed over all others (`JobFrame`, `BotFrame`, `RpcFrame`,
`ToolsFrame`, `HubFrame`, `LogFrame`). `JobInv`: an entry has the id its job's map names, and
ids are not shared between jobs, or removing one would remove the other's. `BotInv`: where
the loop is between the offset and the last update fetched, and that every update below
the offset is accounted for; `confirmed` never passes the offset, which is what makes the
forgetting harmless. `RpcInv`: what may have left or been kept at each step of a request.
`ToolInv`: which machine states go with which steps of a call, and that a call under way is
permitted by the loaded policy while the engine is up. `PackageInv`: a directory that is
neither torn nor being changed is empty or whole; what a lone installer has cleared
or copied so far; what an undisturbed call has archived so far. It is needed because
an archive is read over many steps, and only "the directory has stayed whole since the
manifest was read" carries from one file to the next. `HubInv`: the history is the last
events in order, the channel and the history left to send are increasing and bounded by the
subscription and the snapshot. `LogInv`: an unshifted follower has sent the first lines.
`SystemTypeOK` bounds numbers by others that move (the events of a stream by `published`,
the lines of a follower by `lines`), so it follows from these parts together, `RestInv`
(what no other part mentions) and `Functions`.

`MessagingProofs` proves `ConversationsTyped`, `GateIsExact`, `CountsMatch`,
`AnswersAreLogged` and `ApprovalsStand` for any messages, conversations, policies
and bounds. `Stages` and `Ids` tie the lock to the handler that is between two
statements and say that session ids are drawn once, so that no two rows count the
same lines; `DrawnByMessages` bounds the ids drawn by the messages begun, which is
what keeps the next id within `SessionId`. `GateIsExact` needs `SeenCurrent`: the
pairing in force is among those a handler has seen, and a stopped message had seen
something else than an approval, or is in `blind`. The checked properties speak of the unlocked
store, and are inductive only with what is under way: `Counts` adds the line that is
inserted and not yet counted, `Transcripts` excepts the row whose lines a prune
is deleting (`Condemned`), and compares `logged` with the two sets of messages whose line, and
whose reply, is written. Where such a prune ends half-way, by an error or a crash, the row joins `cut`
(`BooksCut`). The action property `ApprovalsStand` follows from `SeenCurrent` before the step.

`DesktopHostProofs` proves `HostTyped`, `NoOtherOrphans`, `RecordsAreTrue`,
`NoOtherDuplicates` and `LiveHostsRecorded` for any hosts, starters and bounds. The first three follow from
facts about one process: `OwnPlaces`, `GatewayStage` (what has become of a gateway
at each place of its process) and `Unlinked`. The last two are about several.
While nothing was killed, answered too late, was unreadable or started beside another (`Quiet`),
`AtMostTwo` processes live, and of two one `Follows` the other: it still probes while
the elder is in its loop or ends, or it got past its probe because the elder had killed
the gateway through which it was seen. This is inductive with `OwnSocket` (a process that boots
has the socket, or it was unlinked), `Attended` (an engine that is up is connected to some
listening gateway, so a probe is answered) and `Recorded` (a host in its loop has its record).
Processes that end by an error do not disturb it: what they leave, a gateway, a socket file or a record, can only
keep others from starting. `overlapped` is there because two starts side by
side do break it (section 5).

`BrainProofs` proves every property of `brain_calls`: `RecordsTyped`, `ProjectionsAgree`,
`RecallIsHonest`, `WritesHold`, `NoOtherTwins` and `LooseFactsExplained`, for any records,
callers and matching relations, any windows, span and limit, any scope, and any number of calls and faults. It assumes
`BrainAssumption` and `RequestAssumption`. As a call is its script, most of the invariant is
about scripts. `Scripts`: what a call still has to do is of one of three kinds. In a
`Writing` script every `put` is followed by the projections of its row, and no projection
stands alone but at the front; a `Forgetting` one deletes the projections of one record; a
`Reading` one lists and queries each kind at most once, and after the retention. Every plan
is of one kind, and the kinds survive what a step does to a script: taking its `Tail`, putting
the steps of a looked-up task before it, and `Bind` (the lemmas `PlanJoined`, `Bound`,
`LookUpScript`, `WritingTail`, `ReadingTail`, and one lemma for each plan). No induction over
sequences is needed, since each of these is a statement about positions.
`InStep` is `IndexAgrees` made inductive: of a record outside `torn`, what a call owes its
projections is what the row says (`Fits`), and a projection that disagrees with the row is
owed by some call; `torn` takes in a record as soon as a second call writes the row while a first
owes, so that both halves hold at once. `Honest` is about one call each. `HeldBy`: what a `put` at the front was
looked up from still holds, unless others touched it; only the front of a script
carries a look-up, or nothing would be known of it. `GroundedBy`: a fact is put after its entity
in the same script, or the entity is live or was touched. `RecallsBy`: of the untouched
records, those in `seen` are wanted by the answer, and of a kind already listed and not in `cut`
all that are wanted, and of a kind already queried and not in `cut` all that have a projection, are
there; which is why no retention may come between. From there to the answer it is counting: where at most
`Limit` records of a kind match, `FirstOf` takes all of them. `Sessions` ties `seen` to a pending answer. One lemma for each action shows that the
invariant is kept (`UpsertMemoryKeeps` is the one that has no script: its record joins `torn`, so that `InStep` says nothing
of it until its row is written again): `TurnKeeps` frames the other calls by `HonestKept` (what a call sees of
another is `touched`), so that each lemma is about the store and the moving call only. The
order of the task rows is a set of pairs so that the type invariant can say that it is total
(`Ranks`), and its lemmas (`BumpRanks`, `UnlistRanks`) need no sequences.

`Handoff` proves that `validate_protocol` finds nothing exactly when the rules
hold, for runs of any length, and that it accepts exactly the complete
handoffs of `docs/formal`.

Only model-checked: liveness and everything under fairness, which the provers cannot
treat: `AcceptedRuns`, `AnsweredUnlessStuck`, `BootResolves` and `ShutdownObeyed`. Every
safety property of a passing run is a theorem, with the hypotheses its run checks. The
inductive invariants were checked on the instances of the runs before they were proved.

## 5. Where code and documentation disagree

- **A sender who must pair is never answered** (`messaging_pairing`).
  `ensure_pairing` (`lib.rs` 2443-2480) still holds the guard of the connection
  mutex when its last expression calls `pairing_for_target`, which locks the same
  mutex. The handler waits for itself, the store stays locked, and the promised
  answer "Pairing request created. ..." (`lib.rs` 252) is never sent.
- **Two hosts** (`host_duplicates`). The state file is read at the start and
  written once the gateway has answered; two starts in between both pass.
  `docs/desktop.md` line 13 says that the file is how duplicates are avoided. The
  passing `DuplicatesExplained` says that the other ways there need a kill, a
  late answer or a state file that cannot be read.
- **The first run's memory is unreadable** (`orchestrator_restart`).
  `load_or_init` (`lib.rs` 5004-5015) encrypts with the key it has just drawn, and
  on every later start with the SHA-256 digest of it. `docs/architecture.md` line 21
  says that the semantic entries are stored in encrypted memory records; from the
  second start on `query_memory` fails on those of the first, and with it every
  prompt that the exact and prefix caches miss. The passing `SettledKeyOpens` says
  that no later start adds such entries.

Not stated by any document, but visible in `Orchestrator`: a call whose prompt has a
multi-byte character across byte 128 panics after a generation, and a retry of it is
answered by the exact cache (`PanicLeavesAnswer`). A prompt that only shares its
first 128 bytes with an earlier one gets the earlier reply (`ReplyOneHopAway` bounds
how far such a reply can be from its prompt, and cannot exclude it). And in the explanations of the other
modules: a store error at the wrong moment makes an approved sender pending again (`GateUnread`), a failing
second delete of a prune leaves a session without its lines (`StatementFails`), every error after the boot of a
host leaves its gateway behind, with `go run` every shutdown does (`loose`), and a `forget` that names
the wrong kind makes a live record unfindable by search (`Stripped`).

Two more divergences have no run of their own. `docs/migration-from-openclaw.md` line 8
says that skills are verified before execution; `packaged_workspace` archives what
the directory holds without looking at digests or signatures, which is why
`PackagesWhole` has to except a directory that an installation left torn. And the rule "encrypted_body is
required" of `handoff_v1.validator.json` is not applied to messages without text.

## 6. Plan, and what is not modelled

Next proofs: an abstract store of records that promises what `ProjectionsAgree` and `RecallIsHonest`
say, refined by `Brain`; the same for the event hub. Next models: liveness of the streams and of
the Telegram loop, for which the gateway's goroutines justify weak fairness.

Not modelled:

- Configuration and paths: parsing and defaults, read once at start; what matters of them
  are constants here.
- Provider HTTP, the macOS and Windows sandboxes: one external call whose outcome is a choice.
- RPC handlers that translate one request into one engine call, `doctor`, `status`,
  reports, audit export: they read and format.
- `list_jobs` of the engine: nothing writes its table; jobs live in the gateway's memory only.
- The other connectors (they refuse), the Flutter client's pages, the generated
  schema, the operator's scaffold.
- The ciphers, taken as ideal, and the attestation report.
