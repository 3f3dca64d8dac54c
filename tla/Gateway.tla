-------------------------------- MODULE Gateway --------------------------------
(***************************************************************************)
(* The state the gateway's process keeps (src/gateway/internal): the event *)
(* hub and its streams (server/events.go, server/server.go), the requests  *)
(* that publish events, the Telegram connector (connectors/telegram.go),   *)
(* the log follower (server/server.go) and the scheduler                   *)
(* (scheduler/scheduler.go).  All of it is memory: a stop loses it.        *)
(*                                                                         *)
(* The engine and Telegram are seen through the calls the gateway makes:   *)
(* a call may fail before or after it took effect (the bridge gives each   *)
(* ten seconds).                                                           *)
(***************************************************************************)
EXTENDS Integers, Sequences, FiniteSets

CONSTANTS
  Stream,        \* clients of StreamUiEvents and StreamDesktopEvents
  Request,       \* RPCs that publish, each made at most once
  Follower,      \* clients of TailLogs with follow
  Job,           \* job ids
  JobTarget,     \* what a job runs
  Tails,         \* values of tail
  Blank,         \* numbers of the Telegram updates that carry no text
  NoTarget,
  HistoryLimit,  \* 128 events
  ChannelLimit,  \* 32 events
  MaxUpdates     \* bound on the updates that arrive at Telegram

ASSUME GatewayAssumption ==
  /\ NoTarget \notin JobTarget /\ Tails \subseteq Nat
  /\ HistoryLimit \in Nat \ {0} /\ ChannelLimit \in Nat \ {0} /\ MaxUpdates \in Nat

VARIABLES
  up,        \* the process runs
  published, \* events published by this process; events are their numbers
  history,   \* the hub's history
  streams,   \* where each stream is and what it has sent
  requests,  \* where each publishing request is
  left,      \* requests whose message a connector has sent
  kept,      \* requests whose message the engine has recorded
  bot,       \* the loop of TelegramConnector.Start
  arrived,   \* updates that have arrived at Telegram
  confirmed, \* updates Telegram no longer keeps: those up to this number
  handled,   \* per update, how often this process had the engine handle it
  everHandled, failed,   \* history: updates the engine has handled; whose delivery failed
  lines,     \* lines of the log file
  followers, \* where each log follower is and what it has sent
  cron, ids, nextId,     \* the scheduler's entries, its map and the next entry id
  promised,  \* history: what the last answer to ScheduleJob promised for a job
  served     \* steps of the environment so far, see MaxWork of System

hubVars  == <<published, history, streams>>
rpcVars  == <<requests, left, kept>>
botVars  == <<bot, arrived, confirmed, handled, everHandled, failed>>
logVars  == <<lines, followers>>
jobVars  == <<cron, ids, nextId, promised>>
gatewayVars == <<up, hubVars, rpcVars, botVars, logVars, jobVars, served>>

Closed      == [phase |-> "closed", sub |-> 0, snap |-> 0, todo |-> <<>>, chan |-> <<>>,
                sent |-> <<>>, missed |-> {}]
NotFollowing == [on |-> FALSE, tail |-> 0, seen |-> 0, sent |-> <<>>, shifted |-> FALSE]
StartOfBot  == [step |-> "poll", offset |-> 0, next |-> 1, last |-> 0]
Entry       == [id : Nat, job : Job, target : JobTarget]

GatewayTypeOK ==
  /\ up \in BOOLEAN
  /\ published \in Nat /\ history \in Seq(1..published) /\ Len(history) <= HistoryLimit
  /\ streams \in [Stream ->
       [phase : {"closed", "subscribed", "open"}, sub : 0..published, snap : 0..published,
        todo : Seq(1..published), chan : Seq(1..published), sent : Seq(1..published),
        missed : SUBSET (1..published)]]
  /\ \A s \in Stream : Len(streams[s].chan) <= ChannelLimit
  /\ requests \in [Request ->
       [kind : {"submit", "send", "manage"},
        step : {"idle", "asking", "recording", "telling", "done", "failed", "lost"},
        events : 0..2]]
  /\ left \subseteq Request /\ kept \subseteq Request
  /\ bot \in [step : {"poll", "deliver", "reply"}, offset : 0..MaxUpdates + 1,
              next : 1..MaxUpdates + 1, last : 0..MaxUpdates]
  /\ arrived \in 0..MaxUpdates /\ confirmed \in 0..arrived
  /\ handled \in [1..MaxUpdates -> Nat]
  /\ everHandled \subseteq 1..MaxUpdates /\ failed \subseteq 1..MaxUpdates
  /\ lines \in Nat
  /\ followers \in [Follower ->
       [on : BOOLEAN, tail : Tails \cup {0}, seen : 0..lines, sent : Seq(1..lines), shifted : BOOLEAN]]
  /\ cron \subseteq Entry /\ ids \in [Job -> 0..nextId] /\ nextId \in Nat
  /\ promised \in [Job -> JobTarget \cup {NoTarget}]
  /\ served \in Nat

GatewayInit ==
  /\ up = TRUE
  /\ published = 0 /\ history = <<>> /\ streams = [s \in Stream |-> Closed]
  /\ requests = [r \in Request |-> [kind |-> "submit", step |-> "idle", events |-> 0]]
  /\ left = {} /\ kept = {}
  /\ bot = StartOfBot /\ handled = [u \in 1..MaxUpdates |-> 0]
  /\ arrived = 0 /\ confirmed = 0 /\ everHandled = {} /\ failed = {}
  /\ lines = 0 /\ followers = [f \in Follower |-> NotFollowing]
  /\ cron = {} /\ ids = [j \in Job |-> 0] /\ nextId = 0
  /\ promised = [j \in Job |-> NoTarget]
  /\ served = 0

Serve == served' = served + 1

(***************************************************************************)
(* The event hub: Publish, Subscribe, History, Unsubscribe, and the        *)
(* streams that read it.                                                   *)
(***************************************************************************)
\* Mutant: the hub keeps one event too many.
LastOfLong(seq, n) == IF Len(seq) <= n + 1 THEN seq ELSE SubSeq(seq, Len(seq) - n, Len(seq))

LastOf(seq, n) == IF Len(seq) <= n THEN seq ELSE SubSeq(seq, Len(seq) - n + 1, Len(seq))

\* A subscriber whose channel is full does not get the event.
Offer(stream, event) ==
  IF stream.phase = "closed" THEN stream
  ELSE IF Len(stream.chan) < ChannelLimit THEN [stream EXCEPT !.chan = Append(@, event)]
  ELSE [stream EXCEPT !.missed = @ \cup {event}]

Publish ==
  LET event == published + 1 IN
  /\ published' = event
  /\ history' = LastOf(Append(history, event), HistoryLimit)
  /\ streams' = [s \in Stream |-> Offer(streams[s], event)]

Subscribe(s) ==
  /\ up /\ streams[s].phase = "closed"
  /\ streams' = [streams EXCEPT ![s] = [Closed EXCEPT !.phase = "subscribed", !.sub = published]]
  /\ Serve
  /\ UNCHANGED <<up, published, history, rpcVars, botVars, logVars, jobVars>>

TakeHistory(s) ==
  /\ streams[s].phase = "subscribed"
  /\ streams' = [streams EXCEPT ![s].phase = "open", ![s].todo = history, ![s].snap = published]
  /\ UNCHANGED <<up, published, history, rpcVars, botVars, logVars, jobVars, served>>

\* Mutant: one select over the history and the channel.
SendEventAnyOrder(s) ==
  /\ streams[s].phase = "open"
  /\ \/ /\ streams[s].todo # <<>>
        /\ streams' = [streams EXCEPT ![s].sent = Append(@, Head(streams[s].todo)),
                                      ![s].todo = Tail(@)]
     \/ /\ streams[s].chan # <<>>
        /\ streams' = [streams EXCEPT ![s].sent = Append(@, Head(streams[s].chan)),
                                      ![s].chan = Tail(@)]
  /\ UNCHANGED <<up, published, history, rpcVars, botVars, logVars, jobVars, served>>

\* The history first, then the channel.
SendEvent(s) ==
  /\ streams[s].phase = "open"
  /\ \/ /\ streams[s].todo # <<>>
        /\ streams' = [streams EXCEPT ![s].sent = Append(@, Head(streams[s].todo)),
                                      ![s].todo = Tail(@)]
     \/ /\ streams[s].todo = <<>> /\ streams[s].chan # <<>>
        /\ streams' = [streams EXCEPT ![s].sent = Append(@, Head(streams[s].chan)),
                                      ![s].chan = Tail(@)]
  /\ UNCHANGED <<up, published, history, rpcVars, botVars, logVars, jobVars, served>>

\* The client leaves: the context is done or SendMsg fails.
Unsubscribe(s) ==
  /\ streams[s].phase = "open"
  /\ streams' = [streams EXCEPT ![s] = Closed]
  /\ UNCHANGED <<up, published, history, rpcVars, botVars, logVars, jobVars, served>>

(***************************************************************************)
(* Requests that publish: SubmitMessage ("submit"), SendChannelMessage     *)
(* ("send"), PruneSessions and UpdatePairing ("manage").  The engine, or   *)
(* the connector, answers first; the events follow one by one.             *)
(***************************************************************************)
AskFor(r, kind) ==
  /\ up /\ requests[r].step = "idle"
  /\ requests' = [requests EXCEPT ![r] = [kind |-> kind, step |-> "asking", events |-> 0]]
  /\ Serve
  /\ UNCHANGED <<up, hubVars, left, kept, botVars, logVars, jobVars>>

Tell(r, n) == requests' = [requests EXCEPT ![r].step = "telling", ![r].events = n]
Refuse(r)  == requests' = [requests EXCEPT ![r].step = "failed"]

\* The engine has handled the message, with or without a reply, or it has
\* not answered in time.
Submitted(r) ==
  /\ requests[r].kind = "submit" /\ requests[r].step = "asking"
  /\ Refuse(r) \/ \E n \in {1, 2} : Tell(r, n)
  /\ UNCHANGED <<up, hubVars, left, kept, botVars, logVars, jobVars, served>>

Managed(r) ==
  /\ requests[r].kind = "manage" /\ requests[r].step = "asking"
  /\ Tell(r, 1) \/ Refuse(r)
  /\ UNCHANGED <<up, hubVars, left, kept, botVars, logVars, jobVars, served>>

\* Registry.SendMessage: an unknown, disabled or unimplemented connector
\* sends nothing; an error of the transport leaves open whether it did.
Sent(r) ==
  /\ requests[r].kind = "send" /\ requests[r].step = "asking"
  /\ \/ /\ requests' = [requests EXCEPT ![r].step = "recording"]
        /\ left' = left \cup {r}
     \/ Refuse(r) /\ left' \in {left, left \cup {r}}
  /\ UNCHANGED <<up, hubVars, kept, botVars, logVars, jobVars, served>>

\* RecordOutboundMessage comes after the message has left.
Recorded(r) ==
  /\ requests[r].step = "recording"
  /\ \/ Tell(r, 1) /\ kept' = kept \cup {r}
     \/ Refuse(r) /\ kept' \in {kept, kept \cup {r}}
  /\ UNCHANGED <<up, hubVars, left, botVars, logVars, jobVars, served>>

Announce(r) ==
  /\ requests[r].step = "telling"
  /\ Publish
  /\ requests' = [requests EXCEPT ![r].events = @ - 1,
                                  ![r].step = IF requests[r].events = 1 THEN "done" ELSE @]
  /\ UNCHANGED <<up, left, kept, botVars, logVars, jobVars, served>>

(***************************************************************************)
(* Telegram: TelegramConnector.Start and getUpdates.  Telegram forgets the *)
(* updates below the offset it is asked for and returns the others.        *)
(***************************************************************************)
Arrive ==
  /\ arrived < MaxUpdates /\ arrived' = arrived + 1
  /\ Serve
  /\ UNCHANGED <<up, hubVars, rpcVars, bot, confirmed, handled, everHandled, failed, logVars, jobVars>>

\* Mutant: the updates are confirmed as soon as they have been fetched.
GetUpdatesConfirms ==
  /\ up /\ bot.step = "poll"
  /\ confirmed < arrived /\ confirmed' = arrived
  /\ bot' = [bot EXCEPT !.step = "deliver", !.next = confirmed + 1, !.last = arrived]
  /\ UNCHANGED <<up, hubVars, rpcVars, arrived, handled, everHandled, failed, logVars, jobVars, served>>

\* The answer may get lost after Telegram has taken the offset.
GetUpdates ==
  LET below == IF bot.offset - 1 > confirmed THEN bot.offset - 1 ELSE confirmed IN
  /\ up /\ bot.step = "poll"
  /\ confirmed' = below
  /\ \/ UNCHANGED bot
     \/ /\ below < arrived
        /\ bot' = [bot EXCEPT !.step = "deliver", !.next = below + 1, !.last = arrived]
  /\ UNCHANGED <<up, hubVars, rpcVars, arrived, handled, everHandled, failed, logVars, jobVars, served>>

\* The loop body is over: the next update, or the next poll.
After(b) == [b EXCEPT !.step = IF b.next = b.last THEN "poll" ELSE "deliver", !.next = @ + 1]

EngineHandles(u) ==
  /\ handled' = [handled EXCEPT ![u] = @ + 1]
  /\ everHandled' = everHandled \cup {u}

\* The offset moves on before the update is looked at, and an update whose
\* delivery fails is passed over.
Deliver ==
  LET u    == bot.next
      past == [bot EXCEPT !.offset = u + 1]
  IN
  /\ up /\ bot.step = "deliver"
  /\ \/ u \in Blank /\ bot' = After(past) /\ UNCHANGED <<handled, everHandled, failed>>
     \/ /\ u \notin Blank /\ EngineHandles(u)
        /\ bot' \in {After(past), [past EXCEPT !.step = "reply"]}
        /\ UNCHANGED failed
     \/ /\ u \notin Blank /\ (EngineHandles(u) \/ UNCHANGED <<handled, everHandled>>)
        /\ failed' = failed \cup {u} /\ bot' = After(past)
  /\ UNCHANGED <<up, hubVars, rpcVars, arrived, confirmed, logVars, jobVars, served>>

\* sendMessage: its error is ignored.
Reply ==
  /\ up /\ bot.step = "reply" /\ bot' = After(bot)
  /\ UNCHANGED <<up, hubVars, rpcVars, arrived, confirmed, handled, everHandled, failed,
                 logVars, jobVars, served>>

(***************************************************************************)
(* The log follower: TailLogs and tailFile.  Lines are their numbers.      *)
(***************************************************************************)
Log ==
  /\ lines' = lines + 1
  /\ Serve
  /\ UNCHANGED <<up, hubVars, rpcVars, botVars, followers, jobVars>>

\* tailFile: the last n lines, all of them when n is 0.
TailFile(n) ==
  LET len == IF n = 0 \/ n > lines THEN lines ELSE n
  IN  [k \in 1..len |-> lines - len + k]

Follow(f, tail) ==
  LET window == TailFile(tail) IN
  /\ up /\ ~followers[f].on
  /\ followers' = [followers EXCEPT ![f] =
       [on |-> TRUE, tail |-> tail, seen |-> Len(window), sent |-> window,
        shifted |-> Len(window) < lines]]
  /\ Serve
  /\ UNCHANGED <<up, hubVars, rpcVars, botVars, lines, jobVars>>

\* Every half second: what lies beyond the first `seen' lines of the window.
PollLog(f) ==
  LET window == TailFile(followers[f].tail + followers[f].seen)
      seen   == followers[f].seen
  IN  /\ followers[f].on
      /\ followers' = [followers EXCEPT
           ![f].shifted = @ \/ Len(window) < lines,
           ![f].sent = IF Len(window) <= seen THEN @
                       ELSE @ \o SubSeq(window, seen + 1, Len(window)),
           ![f].seen = IF Len(window) <= seen THEN @ ELSE Len(window)]
      /\ UNCHANGED <<up, hubVars, rpcVars, botVars, lines, jobVars, served>>

(***************************************************************************)
(* The scheduler: Schedule, and what the cron runner does with an entry.   *)
(***************************************************************************)
\* Mutant: a new spec is added beside the old entry.
ScheduleJobBeside(j, target, parses) ==
  /\ up
  /\ IF parses
     THEN /\ cron' = cron \cup {[id |-> nextId + 1, job |-> j, target |-> target]}
          /\ nextId' = nextId + 1 /\ ids' = [ids EXCEPT ![j] = nextId + 1]
          /\ promised' = [promised EXCEPT ![j] = target]
     ELSE UNCHANGED jobVars
  /\ Serve
  /\ UNCHANGED <<up, hubVars, rpcVars, botVars, logVars>>

\* The entry the map names is removed before the new spec is parsed.
ScheduleJob(j, target, parses) ==
  LET others == {e \in cron : e.id # ids[j]} IN
  /\ up
  /\ IF parses
     THEN /\ cron' = others \cup {[id |-> nextId + 1, job |-> j, target |-> target]}
          /\ nextId' = nextId + 1 /\ ids' = [ids EXCEPT ![j] = nextId + 1]
          /\ promised' = [promised EXCEPT ![j] = target]
     ELSE /\ cron' = others /\ UNCHANGED <<nextId, ids>>
          /\ promised' = [promised EXCEPT ![j] = NoTarget]
  /\ Serve
  /\ UNCHANGED <<up, hubVars, rpcVars, botVars, logVars>>

\* A tick: the entry's function runs its tool, see Tick of System.
Due(e) == up /\ e \in cron

(***************************************************************************)
(* The process.                                                            *)
(***************************************************************************)
GatewayStops ==
  /\ up /\ up' = FALSE
  /\ published' = 0 /\ history' = <<>> /\ streams' = [s \in Stream |-> Closed]
  /\ bot' = StartOfBot /\ handled' = [u \in 1..MaxUpdates |-> 0]
  /\ followers' = [f \in Follower |-> NotFollowing]
  /\ cron' = {} /\ ids' = [j \in Job |-> 0] /\ nextId' = 0
  /\ promised' = [j \in Job |-> NoTarget]
  /\ requests' = [r \in Request |->
       IF requests[r].step \in {"asking", "recording", "telling"}
       THEN [requests[r] EXCEPT !.step = "lost", !.events = 0] ELSE requests[r]]
  /\ Serve
  /\ UNCHANGED <<left, kept, arrived, confirmed, everHandled, failed, lines>>

GatewayStarts ==
  /\ ~up /\ up' = TRUE
  /\ UNCHANGED <<hubVars, rpcVars, botVars, logVars, jobVars, served>>

GatewayStep ==
  \/ \E s \in Stream : Subscribe(s) \/ TakeHistory(s) \/ SendEvent(s) \/ Unsubscribe(s)
  \/ \E r \in Request :
       \/ \E kind \in {"submit", "send", "manage"} : AskFor(r, kind)
       \/ Submitted(r) \/ Managed(r) \/ Sent(r) \/ Recorded(r) \/ Announce(r)
  \/ Arrive \/ GetUpdates \/ Deliver \/ Reply
  \/ Log
  \/ \E f \in Follower : PollLog(f) \/ \E tail \in Tails : Follow(f, tail)
  \/ \E j \in Job, target \in JobTarget, parses \in BOOLEAN : ScheduleJob(j, target, parses)
  \/ GatewayStops \/ GatewayStarts

=================================================================================
