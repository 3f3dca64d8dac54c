----------------------------- MODULE DesktopHost -----------------------------
(***************************************************************************)
(* Supervision of the local runtime: the processes `openpinch desktop      *)
(* host` and `openpinch start` (cli/src/main.rs), the engine each of them  *)
(* serves on the Unix socket of the runtime directory                      *)
(* (core/crates/engine/src/lib.rs), and the gateway each of them spawns    *)
(* (gateway/cmd/gateway/main.go).                                          *)
(*                                                                         *)
(* The processes share four names of the machine: the state file           *)
(* desktop-host.json, the file desktop-host.shutdown, the socket path and  *)
(* the gateway's TCP address.  None of them is locked: each action below   *)
(* is one file operation, one bind, or one poll, and processes interleave  *)
(* between them.  Time-outs may fire although the gateway could have       *)
(* answered (slow), processes may be killed (kills), and system calls may  *)
(* fail (errors): some errors end the process, others it ignores.          *)
(***************************************************************************)
EXTENDS Naturals

CONSTANTS
  Desktop,   \* runs of `openpinch desktop host`
  Starter,   \* runs of `openpinch start`
  GoRun,     \* those that find no gateway binary: their child is `go run`
  Nobody,    \* no process
  MaxKills, MaxSlow, MaxRequests, MaxErrors   \* bounds on the environment

Host == Desktop \cup Starter

ASSUME DesktopHostAssumption ==
  /\ Desktop \cap Starter = {} /\ Nobody \notin Host /\ GoRun \subseteq Host
  /\ {MaxKills, MaxSlow, MaxRequests, MaxErrors} \subseteq Nat

VARIABLES
  pc,        \* where each process is
  record,    \* the state file: who wrote it and what, or NoRecord
  signal,    \* the shutdown file exists
  sock,      \* whose listener the socket path names
  gw,        \* the gateway that each process started
  loose,     \* processes whose `go run` child ended while the gateway went on
  link,      \* the engine a gateway's bridge is connected to
  asking,    \* `desktop shutdown` commands that have read the state file
  kills, slow, requests, errors,   \* how often the environment acted
  overlapped, \* history: a process started beside one that was not in its loop
  unread,     \* history: hosts that could not read a state file that was there
  kept        \* history: hosts that stopped and could not remove the state file

env  == <<kills, slow, requests, errors>>
past == <<overlapped, unread, kept>>
vars == <<pc, record, signal, sock, gw, loose, link, asking, env, past>>

NoRecord == [owner |-> Nobody, status |-> "none"]
Record   == [owner : Desktop, status : {"running", "gateway_exited"}] \cup {NoRecord}

Checking == {"probing", "clearing", "forgetting"}
Booting  == {"booting", "binding", "serving", "waiting", "booted"}
Settled  == {"running", "attached"}
Stopping == {"stopping", "unrecording", "killing", "closing"}
Exited   == {"refused", "failed", "boot_failed", "errored", "stopped", "killed"}

\* start_private_rpc has spawned the server task, and the process lives.
Serving(h) == pc[h] \in {"serving", "waiting", "booted"} \cup Settled \cup Stopping

\* The processes a new one finds.
Company(h) == {k \in Host \ {h} : pc[k] \notin Exited \cup {"idle"}}

Goto(h, from, to) == pc[h] = from /\ pc' = [pc EXCEPT ![h] = to]

\* A system call fails.
Fails == errors < MaxErrors /\ errors' = errors + 1

LiveGateway(h) == gw[h] \in {"starting", "listening"}

\* try_wait sees the end of the child: the gateway, or the go tool before it.
ChildGone(h) == gw[h] = "exited" \/ h \in loose

-----------------------------------------------------------------------------
(* The gateway: main.go and its bridge to the engine.                      *)

\* Mutant: the address can be shared (SO_REUSEPORT).
ListenShared(h) ==
  /\ gw[h] = "starting"
  /\ gw' = [gw EXCEPT ![h] = "listening"]
  /\ UNCHANGED <<pc, record, signal, sock, loose, link, asking, env, past>>

\* net.Listen: the address is free, or the gateway exits with log.Fatalf.
Listen(h) ==
  /\ gw[h] = "starting"
  /\ gw' = [gw EXCEPT ![h] =
              IF \A g \in Host : gw[g] # "listening" THEN "listening" ELSE "exited"]
  /\ UNCHANGED <<pc, record, signal, sock, loose, link, asking, env, past>>

\* The bridge keeps its connection while that engine lives, else it dials the path.
EngineOf(g) == IF link[g] # Nobody /\ Serving(link[g]) THEN link[g] ELSE sock

(***************************************************************************)
(* fetch_gateway_status: GetStatus of the gateway at the address, whoever  *)
(* started it, answers if the engine behind it answers Health.             *)
(***************************************************************************)
Answers(g) == gw[g] = "listening" /\ EngineOf(g) # Nobody /\ Serving(EngineOf(g))
Connect(g) == link' = [link EXCEPT ![g] = EngineOf(g)]

\* wait_for_gateway gives up: no answer in time.
TimesOut ==
  \/ /\ \A g \in Host : ~Answers(g)
     /\ UNCHANGED slow
  \/ /\ \E g \in Host : Answers(g)
     /\ slow < MaxSlow
     /\ slow' = slow + 1

-----------------------------------------------------------------------------
(* run_desktop_host: the check for a host that is already there.           *)

Overlap(others) == overlapped' = (overlapped \/ others # {})

\* healthy_desktop_host reads the state file.
Load(h) ==
  /\ h \in Desktop
  /\ Goto(h, "idle", IF record = NoRecord THEN "clearing" ELSE "probing")
  /\ Overlap(Company(h) \ {k \in Desktop : pc[k] = "running"})
  /\ UNCHANGED <<record, signal, sock, gw, loose, link, asking, env, unread, kept>>

\* A file that cannot be read counts as none.
LoadFails(h) ==
  /\ h \in Desktop
  /\ record # NoRecord
  /\ Goto(h, "idle", "clearing")
  /\ Fails
  /\ unread' = unread \cup {h}
  /\ Overlap(Company(h) \ {k \in Desktop : pc[k] = "running"})
  /\ UNCHANGED <<record, signal, sock, gw, loose, link, asking, kills, slow, requests, kept>>

ProbeAnswered(h) ==
  /\ Goto(h, "probing", "refused")
  /\ \E g \in Host : Answers(g) /\ Connect(g)
  /\ UNCHANGED <<record, signal, sock, gw, loose, asking, env, past>>

\* It removes the state file, whatever the file holds by now.  Here and below
\* the error of a remove_file is ignored, and then the file stays.
ProbeTimesOut(h) ==
  /\ Goto(h, "probing", "clearing")
  /\ TimesOut
  /\ \/ record' = NoRecord /\ UNCHANGED errors
     \/ record # NoRecord /\ Fails /\ UNCHANGED record
  /\ UNCHANGED <<signal, sock, gw, loose, link, asking, kills, requests, past>>

\* Before the boot and after the loop both files are removed, one after the other.
RemoveSignal(h) ==
  /\ \/ Goto(h, "clearing", "forgetting")
     \/ Goto(h, "stopping", "unrecording")
  /\ \/ signal' = FALSE /\ UNCHANGED errors
     \/ signal /\ Fails /\ UNCHANGED signal
  /\ UNCHANGED <<record, sock, gw, loose, link, asking, kills, slow, requests, past>>

RemoveRecord(h) ==
  /\ \/ Goto(h, "forgetting", "booting")
     \/ Goto(h, "unrecording", "killing")
  /\ \/ record' = NoRecord /\ UNCHANGED <<errors, kept>>
     \/ /\ record # NoRecord /\ Fails /\ UNCHANGED record
        /\ kept' = IF pc[h] = "unrecording" THEN kept \cup {h} ELSE kept
  /\ UNCHANGED <<signal, sock, gw, loose, link, asking, kills, slow, requests, overlapped, unread>>

-----------------------------------------------------------------------------
(* boot_runtime_sidecars, of both commands.                                *)

\* `openpinch start` boots without looking at the files.
StartRuntime(h) ==
  /\ h \in Starter
  /\ Goto(h, "idle", "booting")
  /\ Overlap(Company(h))
  /\ UNCHANGED <<record, signal, sock, gw, loose, link, asking, env, unread, kept>>

RemoveSocket(h) ==
  /\ Goto(h, "booting", "binding")
  /\ \/ sock' = Nobody /\ UNCHANGED errors
     \/ sock # Nobody /\ Fails /\ UNCHANGED sock
  /\ UNCHANGED <<record, signal, gw, loose, link, asking, kills, slow, requests, past>>

\* UnixListener::bind fails if the path exists again.
Bind(h) ==
  /\ IF sock = Nobody THEN Goto(h, "binding", "serving") /\ sock' = h
                      ELSE Goto(h, "binding", "failed") /\ UNCHANGED sock
  /\ UNCHANGED <<record, signal, gw, loose, link, asking, env, past>>

SpawnGateway(h) ==
  /\ Goto(h, "serving", "waiting")
  /\ gw' = [gw EXCEPT ![h] = "starting"]
  /\ UNCHANGED <<record, signal, sock, loose, link, asking, env, past>>

GatewayAnswered(h) ==
  /\ Goto(h, "waiting", IF h \in Desktop THEN "booted" ELSE "attached")
  /\ \E g \in Host : Answers(g) /\ Connect(g)
  /\ UNCHANGED <<record, signal, sock, gw, loose, asking, env, past>>

\* The error drops the Child, which does not kill the process.
BootTimesOut(h) ==
  /\ Goto(h, "waiting", "boot_failed")
  /\ TimesOut
  /\ UNCHANGED <<record, signal, sock, gw, loose, link, asking, kills, requests, errors, past>>

\* Mutant: the loop starts without a state file.
RunUnrecorded(h) ==
  /\ Goto(h, "booted", "running")
  /\ UNCHANGED <<record, signal, sock, gw, loose, link, asking, env, past>>

WriteRecord(h) ==
  /\ Goto(h, "booted", "running")
  /\ record' = [owner |-> h, status |-> "running"]
  /\ UNCHANGED <<signal, sock, gw, loose, link, asking, env, past>>

\* A ? of the boot: bootstrap, bind, write_runtime_state or spawn_gateway.
BootFails(h) ==
  /\ \E at \in {"booting", "binding", "serving"} : Goto(h, at, "failed")
  /\ Fails
  /\ UNCHANGED <<record, signal, sock, gw, loose, link, asking, kills, slow, requests, past>>

-----------------------------------------------------------------------------
(* The loop of run_desktop_host and shutdown_runtime_sidecars.             *)

\* Mutant: the poll removes the signal and goes on.
PollAndGoOn(h) ==
  /\ signal /\ Goto(h, "running", "running")
  /\ signal' = FALSE
  /\ UNCHANGED <<record, sock, gw, loose, link, asking, env, past>>

PollSignal(h) ==
  /\ signal
  /\ Goto(h, "running", "stopping")
  /\ UNCHANGED <<record, signal, sock, gw, loose, link, asking, env, past>>

\* Mutant: the loop returns without writing that the gateway exited.
PollGatewayQuietly(h) ==
  /\ ~signal /\ ChildGone(h)
  /\ Goto(h, "running", "failed")
  /\ UNCHANGED <<record, signal, sock, gw, loose, link, asking, env, past>>

\* Mutant: the loop does not look at its child.
PollNoGateway(h) == h \notin Host /\ UNCHANGED vars

\* try_wait: the process returns an error; its socket file stays.
PollGateway(h) ==
  /\ ~signal
  /\ ChildGone(h)
  /\ Goto(h, "running", "failed")
  /\ record' = [owner |-> h, status |-> "gateway_exited"]
  /\ UNCHANGED <<signal, sock, gw, loose, link, asking, env, past>>

\* write_desktop_host_state fails, before the loop or when the child is gone:
\* ? ends the process, and the file is as it was, or cut and unreadable.
WriteFails(h) ==
  /\ \/ Goto(h, "booted", "errored")
     \/ ~signal /\ ChildGone(h) /\ Goto(h, "running", "errored")
  /\ Fails
  /\ record' \in {record, NoRecord}
  /\ UNCHANGED <<signal, sock, gw, loose, link, asking, kills, slow, requests, past>>

\* ctrl_c or try_wait fails: ? ends the process, and nothing else.
WaitFails(h) ==
  /\ \E at \in Settled : Goto(h, at, "errored")
  /\ Fails
  /\ UNCHANGED <<record, signal, sock, gw, loose, link, asking, kills, slow, requests, past>>

\* Ctrl+C.
Interrupt(h) ==
  /\ \/ Goto(h, "running", "stopping")
     \/ Goto(h, "attached", "killing")
  /\ UNCHANGED <<record, signal, sock, gw, loose, link, asking, env, past>>

\* Mutant: the gateway is left to itself.
LeaveGateway(h) ==
  /\ Goto(h, "killing", "closing")
  /\ UNCHANGED <<record, signal, sock, gw, loose, link, asking, env, past>>

\* The child is killed.  With `go run` that is the go tool, and the gateway goes
\* on unless the tool was still compiling it.
KillGateway(h) ==
  /\ Goto(h, "killing", "closing")
  /\ \/ /\ h \in GoRun /\ LiveGateway(h)
        /\ loose' = loose \cup {h}
        /\ UNCHANGED gw
     \/ /\ h \notin GoRun \/ gw[h] = "exited" \/ (gw[h] = "starting" /\ h \notin loose)
        /\ gw' = [gw EXCEPT ![h] = "exited"]
        /\ UNCHANGED loose
  /\ UNCHANGED <<record, signal, sock, link, asking, env, past>>

\* The server task removes the socket path, whoever's listener it names.
CloseEngine(h) ==
  /\ Goto(h, "closing", "stopped")
  /\ \/ sock' = Nobody /\ UNCHANGED errors
     \/ sock # Nobody /\ Fails /\ UNCHANGED sock
  /\ UNCHANGED <<record, signal, gw, loose, link, asking, kills, slow, requests, past>>

-----------------------------------------------------------------------------
(* The operator and the operating system.                                  *)

\* shutdown_desktop_host: the state file must be there to read ...
AskShutdown ==
  /\ record # NoRecord
  /\ requests < MaxRequests
  /\ requests' = requests + 1
  /\ asking' = asking + 1
  /\ UNCHANGED <<pc, record, signal, sock, gw, loose, link, kills, slow, errors, past>>

\* ... and then it writes the shutdown file.
WriteSignal ==
  /\ asking > 0
  /\ asking' = asking - 1
  /\ signal' = TRUE
  /\ UNCHANGED <<pc, record, sock, gw, loose, link, env, past>>

Kill(h) ==
  /\ kills < MaxKills
  /\ kills' = kills + 1
  /\ pc[h] \notin Exited \cup {"idle"}
  /\ pc' = [pc EXCEPT ![h] = "killed"]
  /\ UNCHANGED <<record, signal, sock, gw, loose, link, asking, slow, requests, errors, past>>

GatewayDies(h) ==
  /\ kills < MaxKills
  /\ kills' = kills + 1
  /\ LiveGateway(h)
  /\ gw' = [gw EXCEPT ![h] = "exited"]
  /\ UNCHANGED <<pc, record, signal, sock, loose, link, asking, slow, requests, errors, past>>

GoToolDies(h) ==
  /\ kills < MaxKills
  /\ kills' = kills + 1
  /\ h \in GoRun \ loose /\ LiveGateway(h)
  /\ loose' = loose \cup {h}
  /\ UNCHANGED <<pc, record, signal, sock, gw, link, asking, slow, requests, errors, past>>

-----------------------------------------------------------------------------

Init ==
  /\ pc     = [h \in Host |-> "idle"]
  /\ record = NoRecord
  /\ signal = FALSE
  /\ sock   = Nobody
  /\ gw     = [h \in Host |-> "none"]
  /\ loose  = {}
  /\ link   = [h \in Host |-> Nobody]
  /\ asking = 0
  /\ kills = 0 /\ slow = 0 /\ requests = 0 /\ errors = 0
  /\ overlapped = FALSE /\ unread = {} /\ kept = {}

\* What the process does once it has started, Ctrl+C and ends by an error excepted.
Advance(h) ==
  \/ ProbeAnswered(h) \/ ProbeTimesOut(h)
  \/ RemoveSignal(h) \/ RemoveRecord(h)
  \/ RemoveSocket(h) \/ Bind(h) \/ SpawnGateway(h)
  \/ GatewayAnswered(h) \/ BootTimesOut(h) \/ WriteRecord(h)
  \/ PollSignal(h) \/ PollGateway(h)
  \/ KillGateway(h) \/ CloseEngine(h)

Next ==
  \/ \E h \in Host :
       \/ Load(h) \/ LoadFails(h) \/ StartRuntime(h) \/ Advance(h) \/ Listen(h)
       \/ BootFails(h) \/ WriteFails(h) \/ WaitFails(h)
       \/ Interrupt(h) \/ Kill(h) \/ GatewayDies(h) \/ GoToolDies(h)
  \/ AskShutdown \/ WriteSignal

Spec == Init /\ [][Next]_vars

\* Started processes, gateways and commands run; nobody must start or kill one.
FairSpec ==
  /\ Spec
  /\ \A h \in Host : WF_vars(Advance(h)) /\ WF_vars(Listen(h))
  /\ WF_vars(WriteSignal)

-----------------------------------------------------------------------------
(* Properties.                                                             *)

\* The state is well typed, and one gateway at most holds the address.
TypeOK ==
  /\ pc \in [Host -> {"idle"} \cup Checking \cup Booting \cup Settled \cup Stopping \cup Exited]
  /\ record \in Record
  /\ signal \in BOOLEAN /\ overlapped \in BOOLEAN
  /\ unread \subseteq Desktop /\ kept \subseteq Desktop /\ loose \subseteq GoRun
  /\ sock \in Host \cup {Nobody}
  /\ gw \in [Host -> {"none", "starting", "listening", "exited"}]
  /\ link \in [Host -> Host \cup {Nobody}]
  /\ kills \in 0..MaxKills /\ slow \in 0..MaxSlow /\ errors \in 0..MaxErrors
  /\ requests \in 0..MaxRequests /\ asking \in 0..requests
  /\ \A g, h \in Host : gw[g] = "listening" /\ gw[h] = "listening" => g = h

\* A gateway outlives its process only if the process was killed, gave up
\* waiting for it in boot_runtime_sidecars, or ended by a ? after the boot (no
\* Child is killed on drop), or if only the go tool between them has ended.
\* Shutdown and every other end take it along.
OrphansExplained ==
  \A h \in Host : LiveGateway(h) /\ pc[h] \in Exited
                    => pc[h] \in {"killed", "boot_failed", "errored"} \/ h \in loose

\* desktop-host.json says "running" of a process that still runs, stops, was
\* killed or left its loop by a ?, or of one that stopped and could not remove
\* it: no other end leaves the record behind, and none but its own writes it.
RunningRecordTrue ==
  \A h \in Desktop : record = [owner |-> h, status |-> "running"]
    => pc[h] \in {"running", "stopping", "unrecording", "killed", "errored"} \/ h \in kept

\* run_desktop_host lets a second host into its loop only after a kill, an
\* answer that came too late, a state file that could not be read, or a start
\* beside another start, stop or runtime.
Disturbed == kills > 0 \/ slow > 0 \/ unread # {} \/ overlapped
DuplicatesExplained ==
  \A h, k \in Desktop : pc[h] = "running" /\ pc[k] = "running" => h = k \/ Disturbed

\* Only then, too, a host in its loop loses its record, so that the desktop app
\* and `desktop shutdown` no longer find it: the removals of run_desktop_host
\* and healthy_desktop_host do not ask whose record they delete.
LiveHostRecorded ==
  \A h \in Desktop :
    pc[h] = "running" => record = [owner |-> h, status |-> "running"] \/ Disturbed

\* The state file lets the desktop app reconnect to a running host "instead of
\* spawning duplicates" (docs/desktop.md): no two hosts are in their loops.
SingleHost ==
  \A h, k \in Desktop : pc[h] = "running" /\ pc[k] = "running" => h = k

\* A desktop host that spawned its gateway ends up running with that gateway
\* listening, or exits: it does not go on with a child that is gone.
BootResolves ==
  \A h \in Desktop :
    pc[h] = "waiting" ~> pc[h] \in Exited \/ (pc[h] = "running" /\ gw[h] = "listening")

\* A host in its loop that is signalled stops, unless another host, which its
\* check let through or which stops as well, removes the signal first.
ShutdownObeyed ==
  \A h \in Desktop :
    pc[h] = "running" /\ signal ~>
      \/ pc[h] # "running"
      \/ ~signal /\ \E k \in Desktop \ {h} : pc[k] \in {"forgetting", "unrecording"}
=============================================================================
