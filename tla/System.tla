--------------------------------- MODULE System ---------------------------------
(***************************************************************************)
(* The gateway and the engine's tools together: a tick of the scheduler    *)
(* and the gateway's Execute each make a call of the engine's RunTool with *)
(* the bridge's deadline (gateway/internal/enginebridge/bridge.go); the    *)
(* engine's own queue dispatcher calls its tools without one.              *)
(***************************************************************************)
EXTENDS Gateway, Tools

CONSTANTS
  MaxWork,   \* bound on what the environment does: requests, stops, edits
  MaxAlone   \* the same, when all of it happens to the gateway

ASSUME SystemAssumption == MaxWork \in Nat /\ MaxAlone \in Nat /\ JobTarget \subseteq Target

vars == <<gatewayVars, toolVars>>

SystemTypeOK == GatewayTypeOK /\ ToolsTypeOK

Init == GatewayInit /\ ToolsInit

\* Cron runs the entry's function in a goroutine of its own: it waits for
\* the answer and nothing else depends on it.
Tick(e, c) ==
  /\ Due(e) /\ StartCall(c, e.target, TRUE)
  /\ started' = started + 1
  /\ UNCHANGED gatewayVars

\* Execute of the gateway's API.
Execute(c, target) ==
  /\ up /\ StartCall(c, target, TRUE)
  /\ started' = started + 1
  /\ UNCHANGED gatewayVars

\* QueueManager's dispatcher, or the CLI's engine.
Dispatch(c, target) ==
  /\ StartCall(c, target, FALSE)
  /\ started' = started + 1
  /\ UNCHANGED gatewayVars

Work ==
  \/ \E c \in Call :
       \/ \E e \in cron : Tick(e, c)
       \/ \E target \in Target : Execute(c, target) \/ Dispatch(c, target)
  \/ GatewayStep /\ UNCHANGED toolVars
  \/ ToolsStep /\ UNCHANGED gatewayVars

Next == Work /\ served' + started' <= IF started' = 0 THEN MaxAlone ELSE MaxWork

Spec == Init /\ [][Next]_vars

-----------------------------------------------------------------------------
(***************************************************************************)
(* Properties.                                                             *)
(***************************************************************************)

\* What a stream has sent or is about to send.
EventsOf(seq) == {seq[i] : i \in DOMAIN seq}
Got(stream) == EventsOf(stream.sent) \cup EventsOf(stream.todo) \cup EventsOf(stream.chan)

\* A stream of events (streamDesktopEvents) subscribes before it reads the
\* history.  It loses an event only if its channel was full when the event
\* came, and the history it then read had no room for it either; it sends
\* an event twice, or out of order, only if the event came between the two.
EventsReachStreams ==
  \A s \in Stream : LET stream == streams[s] IN
    stream.phase = "open" =>
      /\ \A e \in 1..published :
           \/ e \in Got(stream)
           \/ e <= stream.snap - HistoryLimit /\ (e <= stream.sub \/ e \in stream.missed)
           \/ e > stream.snap /\ e \in stream.missed
      /\ \A i, j \in DOMAIN stream.sent :
           i < j /\ stream.sent[i] >= stream.sent[j] =>
             stream.sent[i] <= stream.snap /\ stream.sent[j] \in stream.sub + 1 .. stream.snap

\* A log follower (TailLogs) has sent every line up to the last it has seen,
\* once and in order, as long as no window it read began after line one.
LinesReachFollowers ==
  \A f \in Follower :
    followers[f].on /\ ~followers[f].shifted =>
      followers[f].sent = [k \in 1 .. followers[f].seen |-> k]

\* Both kinds of server stream give their client what it has to see.
StreamsFaithful == EventsReachStreams /\ LinesReachFollowers

\* TelegramConnector.Start: an update that Telegram has forgotten was
\* handled by the engine, had no text, or had a delivery that failed; and
\* one life of the gateway has the engine handle an update once.
UpdatesAccounted ==
  /\ \A u \in 1..confirmed : u \in everHandled \cup Blank \cup failed
  /\ \A u \in 1..MaxUpdates : handled[u] <= 1

\* SendChannelMessage: a message that left and is not in the record of its
\* session belongs to a request that is under way, failed, or was lost.
OutboundAccounted ==
  \A r \in left \ kept : requests[r].step \in {"recording", "failed", "lost"}

MessagesAccounted == UpdatesAccounted /\ OutboundAccounted

\* Schedule: whatever the sequence of good and bad requests, every entry of
\* the cron runner can still be replaced, a job whose last request was
\* accepted has one entry, with that request's tool, and no other job has one.
JobsKept ==
  /\ \A e \in cron : ids[e.job] = e.id
  /\ \A j \in Job :
       {e.target : e \in {x \in cron : x.job = j}} =
         IF promised[j] = NoTarget THEN {} ELSE {promised[j]}

\* packaged_workspace: a workspace that is handed to the sandbox, together
\* with the manifest that says how to run it, is one verified bundle of the
\* skill, unless an installation changed the directory in between, had not
\* ended well before, or had run beside another.
PackagesWhole ==
  \A c \in Call :
    calls[c].manifest # None /\ calls[c].todo = {} /\ ~calls[c].disturbed =>
      LET b == calls[c].manifest IN
      /\ SkillOf[b] = calls[c].target.skill
      /\ \A f \in File : calls[c].pack[f] = IF f \in FilesOf[b] THEN b ELSE Absent

\* LinuxFirecrackerBackend::execute: a machine that runs while no call waits
\* for it was given up: its socket did not appear, a request was refused,
\* the ninety seconds or the caller's deadline passed, or the engine went
\* away.  In particular no call that reports a result leaves one behind.
MachinesExplained ==
  \A c \in Call :
    vms[c] \in Alive =>
      calls[c].step \in Waiting \cup {"booting", "no_socket", "refused", "timed_out",
                                      "cancelled", "lost"}

\* A machine whose call is under way is permitted by the policy in force:
\* the engine cannot change its policy without dropping its calls.
MachinesPermitted ==
  \A c \in Call :
    vms[c] \in Alive /\ calls[c].step \in Busy =>
      Authorized(policy, calls[c].target.subject, calls[c].target.requested)

MachinesAccounted == MachinesExplained /\ MachinesPermitted

=================================================================================
