-------------------------- MODULE DesktopHostProofs --------------------------
(***************************************************************************)
(* Proofs of the safety properties of DesktopHost, for every set of hosts  *)
(* and starters and every bound on the environment.                        *)
(*                                                                         *)
(* The long ones are DuplicatesExplained and LiveHostRecorded.  While      *)
(* nothing was killed, no answer came too late, no state file could not be *)
(* read and no process started beside one that was not in its loop         *)
(* (Quiet), at most two processes live at a time, and of two the younger   *)
(* either still probes or got past its probe because the elder had already *)
(* killed the gateway through which it was seen.  Errors that end a        *)
(* process, files that could not be removed and gateways that outlive      *)
(* their process do not change that.                                       *)
(***************************************************************************)
EXTENDS DesktopHost, TLAPS

-----------------------------------------------------------------------------
(* The inductive invariant.                                                *)

\* What only a desktop host does, by pc.
OwnPlaces ==
  \A h \in Host :
    pc[h] \in Checking \cup {"booted", "running", "stopping", "unrecording"} => h \in Desktop

\* What has become of the gateway, by pc.
GatewayStage ==
  \A h \in Host :
    /\ pc[h] \in {"idle", "refused", "booting", "binding", "serving"} \cup Checking
         => gw[h] = "none"
    /\ pc[h] \in {"closing", "stopped"} => gw[h] = "exited" \/ h \in loose
    /\ pc[h] = "failed" => gw[h] \in {"none", "exited"} \/ h \in loose

\* A gateway that does not listen yet has no connection.
Unlinked == \A g \in Host : gw[g] \in {"none", "starting"} => link[g] = Nobody

Active(h) == pc[h] \notin Exited \cup {"idle"}

\* Its boot has been answered and it has not killed its gateway.
Up == {"booted", "running", "attached", "stopping", "unrecording", "killing"}

Attending(h) == \E g \in Host : gw[g] = "listening" /\ link[g] = h

\* k started when h was in its loop.
Follows(h, k) ==
  \/ pc[k] = "probing" /\ pc[h] \in {"running"} \cup Stopping
  \/ pc[k] # "probing" /\ pc[h] = "closing" /\ ~Attending(h)

Quiet == ~Disturbed

AtMostTwo ==
  \A h, k, l \in Host : Active(h) /\ Active(k) /\ Active(l) => h = k \/ k = l \/ h = l

Paired ==
  \A h, k \in Host : Active(h) /\ Active(k) /\ h # k => Follows(h, k) \/ Follows(k, h)

OwnSocket == \A h \in Host : pc[h] \in {"serving", "waiting"} => sock \in {h, Nobody}

Attended == \A h \in Host : pc[h] \in Up => Attending(h)

Recorded ==
  \A h \in Host : pc[h] = "running" => record = [owner |-> h, status |-> "running"]

QuietPart == AtMostTwo /\ Paired /\ OwnSocket /\ Attended /\ Recorded

Shape == TypeOK /\ OwnPlaces /\ GatewayStage /\ Unlinked /\ RunningRecordTrue

IInv == Shape /\ (Quiet => QuietPart)

-----------------------------------------------------------------------------
(* Shape: types, and what each place of a process says of its gateway and  *)
(* its record.                                                             *)

LEMMA InitShape == Init => Shape
<1> SUFFICES ASSUME Init PROVE Shape
  OBVIOUS
<1>1. /\ kills \in 0..MaxKills /\ slow \in 0..MaxSlow /\ errors \in 0..MaxErrors
      /\ requests \in 0..MaxRequests /\ asking \in 0..requests
  BY DesktopHostAssumption DEF Init
<1>2. TypeOK
  BY <1>1 DEF Init, TypeOK, Record
<1>3. OwnPlaces /\ GatewayStage /\ Unlinked
  BY DEF Init, OwnPlaces, GatewayStage, Unlinked, Checking
<1>4. RunningRecordTrue
  BY DesktopHostAssumption DEF Init, RunningRecordTrue, NoRecord
<1>. QED
  BY <1>2, <1>3, <1>4 DEF Shape

LEMMA ShapeKept ==
  ASSUME Shape, Next
  PROVE  Shape'
<1> USE DesktopHostAssumption
    DEF Goto, env, past, Fails, Overlap, Checking, Booting, Settled, Stopping, Exited
<1>0. TypeOK /\ OwnPlaces /\ GatewayStage /\ Unlinked /\ RunningRecordTrue
  BY DEF Shape
<1>1. ASSUME NEW h \in Host, Load(h) PROVE Shape'
  <2>1. TypeOK'
    BY <1>0, <1>1 DEF TypeOK, Load
  <2>2. OwnPlaces' /\ GatewayStage' /\ Unlinked'
    BY <1>0, <1>1 DEF OwnPlaces, GatewayStage, Unlinked, Load
  <2>3. RunningRecordTrue'
    BY <1>0, <1>1 DEF RunningRecordTrue, Load
  <2>. QED
    BY <2>1, <2>2, <2>3 DEF Shape
<1>2. ASSUME NEW h \in Host, ProbeAnswered(h) PROVE Shape'
  <2>1. TypeOK'
    BY <1>0, <1>2 DEF TypeOK, ProbeAnswered, Connect, EngineOf
  <2>2. OwnPlaces' /\ GatewayStage' /\ Unlinked'
    BY <1>0, <1>2
    DEF OwnPlaces, GatewayStage, Unlinked, ProbeAnswered, Connect, Answers
  <2>3. RunningRecordTrue'
    BY <1>0, <1>2 DEF RunningRecordTrue, ProbeAnswered
  <2>. QED
    BY <2>1, <2>2, <2>3 DEF Shape
<1>3. ASSUME NEW h \in Host, ProbeTimesOut(h) PROVE Shape'
  <2>1. TypeOK'
    BY <1>0, <1>3 DEF TypeOK, Record, ProbeTimesOut, TimesOut
  <2>2. OwnPlaces' /\ GatewayStage' /\ Unlinked'
    BY <1>0, <1>3 DEF OwnPlaces, GatewayStage, Unlinked, ProbeTimesOut
  <2>3. RunningRecordTrue'
    BY <1>0, <1>3 DEF RunningRecordTrue, NoRecord, ProbeTimesOut
  <2>. QED
    BY <2>1, <2>2, <2>3 DEF Shape
<1>4. ASSUME NEW h \in Host, RemoveSignal(h) PROVE Shape'
  <2>1. TypeOK'
    <3>1. errors' \in 0..MaxErrors
      BY <1>0, <1>4 DEF TypeOK, RemoveSignal
    <3>2. pc' \in [Host -> {"idle"} \cup Checking \cup Booting \cup Settled
                             \cup Stopping \cup Exited]
      BY <1>0, <1>4 DEF TypeOK, RemoveSignal
    <3>. QED
      BY <1>0, <1>4, <3>1, <3>2 DEF TypeOK, RemoveSignal
  <2>2. OwnPlaces' /\ GatewayStage' /\ Unlinked'
    BY <1>0, <1>4 DEF TypeOK, OwnPlaces, GatewayStage, Unlinked, RemoveSignal
  <2>3. RunningRecordTrue'
    BY <1>0, <1>4 DEF TypeOK, RunningRecordTrue, Host, RemoveSignal
  <2>. QED
    BY <2>1, <2>2, <2>3 DEF Shape
<1>5. ASSUME NEW h \in Host, RemoveRecord(h) PROVE Shape'
  <2>1. TypeOK'
    <3>1. errors' \in 0..MaxErrors
      BY <1>0, <1>5 DEF TypeOK, RemoveRecord
    <3>2. pc' \in [Host -> {"idle"} \cup Checking \cup Booting \cup Settled
                             \cup Stopping \cup Exited]
      BY <1>0, <1>5 DEF TypeOK, RemoveRecord
    <3>3. record' \in Record /\ kept' \subseteq Desktop
      BY <1>0, <1>5 DEF TypeOK, OwnPlaces, Record, RemoveRecord
    <3>. QED
      BY <1>0, <1>5, <3>1, <3>2, <3>3 DEF TypeOK, RemoveRecord
  <2>2. OwnPlaces' /\ GatewayStage' /\ Unlinked'
    BY <1>0, <1>5 DEF TypeOK, OwnPlaces, GatewayStage, Unlinked, RemoveRecord
  <2>3. RunningRecordTrue'
    <3>1. record' = NoRecord \/ record' = record
      BY <1>5 DEF RemoveRecord
    <3>2. ASSUME NEW k \in Desktop, record' = [owner |-> k, status |-> "running"]
          PROVE  pc'[k] \in {"running", "stopping", "unrecording", "killed", "errored"}
                   \/ k \in kept'
      <4>1. k \in Host /\ record' # NoRecord
        BY <3>2 DEF Host, NoRecord
      <4>2. pc[k] \in {"running", "stopping", "unrecording", "killed", "errored"}
              \/ k \in kept
        BY <1>0, <3>1, <3>2, <4>1 DEF RunningRecordTrue
      <4>3. kept' = IF pc[h] = "unrecording" THEN kept \cup {h} ELSE kept
        BY <1>5, <4>1 DEF RemoveRecord
      <4>. QED
        BY <1>0, <1>5, <4>1, <4>2, <4>3 DEF TypeOK, RemoveRecord
    <3>. QED
      BY <3>2 DEF RunningRecordTrue
  <2>. QED
    BY <2>1, <2>2, <2>3 DEF Shape
<1>6. ASSUME NEW h \in Host, StartRuntime(h) PROVE Shape'
  <2>1. TypeOK'
    BY <1>0, <1>6 DEF TypeOK, StartRuntime
  <2>2. OwnPlaces' /\ GatewayStage' /\ Unlinked'
    BY <1>0, <1>6 DEF OwnPlaces, GatewayStage, Unlinked, StartRuntime
  <2>3. RunningRecordTrue'
    BY <1>0, <1>6 DEF RunningRecordTrue, StartRuntime
  <2>. QED
    BY <2>1, <2>2, <2>3 DEF Shape
<1>7. ASSUME NEW h \in Host, RemoveSocket(h) PROVE Shape'
  <2>1. TypeOK'
    BY <1>0, <1>7 DEF TypeOK, RemoveSocket
  <2>2. OwnPlaces' /\ GatewayStage' /\ Unlinked'
    BY <1>0, <1>7 DEF OwnPlaces, GatewayStage, Unlinked, RemoveSocket
  <2>3. RunningRecordTrue'
    BY <1>0, <1>7 DEF RunningRecordTrue, RemoveSocket
  <2>. QED
    BY <2>1, <2>2, <2>3 DEF Shape
<1>8. ASSUME NEW h \in Host, Bind(h) PROVE Shape'
  <2>1. TypeOK'
    BY <1>0, <1>8 DEF TypeOK, Bind
  <2>2. OwnPlaces' /\ GatewayStage' /\ Unlinked'
    BY <1>0, <1>8 DEF TypeOK, OwnPlaces, GatewayStage, Unlinked, Bind
  <2>3. RunningRecordTrue'
    BY <1>0, <1>8 DEF TypeOK, RunningRecordTrue, Host, Bind
  <2>. QED
    BY <2>1, <2>2, <2>3 DEF Shape
<1>9. ASSUME NEW h \in Host, SpawnGateway(h) PROVE Shape'
  <2>1. TypeOK'
    BY <1>0, <1>9 DEF TypeOK, SpawnGateway
  <2>2. OwnPlaces' /\ GatewayStage' /\ Unlinked'
    BY <1>0, <1>9 DEF TypeOK, OwnPlaces, GatewayStage, Unlinked, SpawnGateway
  <2>3. RunningRecordTrue'
    BY <1>0, <1>9 DEF RunningRecordTrue, SpawnGateway
  <2>. QED
    BY <2>1, <2>2, <2>3 DEF Shape
<1>10. ASSUME NEW h \in Host, GatewayAnswered(h) PROVE Shape'
  <2>1. TypeOK'
    BY <1>0, <1>10 DEF TypeOK, GatewayAnswered, Connect, EngineOf
  <2>2. OwnPlaces' /\ GatewayStage' /\ Unlinked'
    BY <1>0, <1>10
    DEF OwnPlaces, GatewayStage, Unlinked, GatewayAnswered, Connect, Answers
  <2>3. RunningRecordTrue'
    BY <1>0, <1>10 DEF RunningRecordTrue, GatewayAnswered
  <2>. QED
    BY <2>1, <2>2, <2>3 DEF Shape
<1>11. ASSUME NEW h \in Host, BootTimesOut(h) PROVE Shape'
  <2>1. TypeOK'
    BY <1>0, <1>11 DEF TypeOK, BootTimesOut, TimesOut
  <2>2. OwnPlaces' /\ GatewayStage' /\ Unlinked'
    BY <1>0, <1>11 DEF OwnPlaces, GatewayStage, Unlinked, BootTimesOut
  <2>3. RunningRecordTrue'
    BY <1>0, <1>11 DEF RunningRecordTrue, BootTimesOut
  <2>. QED
    BY <2>1, <2>2, <2>3 DEF Shape
<1>12. ASSUME NEW h \in Host, WriteRecord(h) PROVE Shape'
  <2>1. TypeOK'
    BY <1>0, <1>12 DEF TypeOK, OwnPlaces, Record, WriteRecord
  <2>2. OwnPlaces' /\ GatewayStage' /\ Unlinked'
    BY <1>0, <1>12 DEF OwnPlaces, GatewayStage, Unlinked, WriteRecord
  <2>3. RunningRecordTrue'
    BY <1>0, <1>12 DEF TypeOK, RunningRecordTrue, WriteRecord
  <2>. QED
    BY <2>1, <2>2, <2>3 DEF Shape
<1>13. ASSUME NEW h \in Host, PollSignal(h) PROVE Shape'
  <2>1. TypeOK'
    BY <1>0, <1>13 DEF TypeOK, PollSignal
  <2>2. OwnPlaces' /\ GatewayStage' /\ Unlinked'
    BY <1>0, <1>13 DEF OwnPlaces, GatewayStage, Unlinked, PollSignal
  <2>3. RunningRecordTrue'
    BY <1>0, <1>13 DEF RunningRecordTrue, PollSignal
  <2>. QED
    BY <2>1, <2>2, <2>3 DEF Shape
<1>14. ASSUME NEW h \in Host, PollGateway(h) PROVE Shape'
  <2>1. TypeOK'
    BY <1>0, <1>14 DEF TypeOK, OwnPlaces, Record, PollGateway
  <2>2. OwnPlaces' /\ GatewayStage' /\ Unlinked'
    BY <1>0, <1>14 DEF TypeOK, OwnPlaces, GatewayStage, Unlinked, PollGateway, ChildGone
  <2>3. RunningRecordTrue'
    BY <1>0, <1>14 DEF RunningRecordTrue, PollGateway
  <2>. QED
    BY <2>1, <2>2, <2>3 DEF Shape
<1>15. ASSUME NEW h \in Host, Interrupt(h) PROVE Shape'
  <2>1. TypeOK'
    BY <1>0, <1>15 DEF TypeOK, Interrupt
  <2>2. OwnPlaces' /\ GatewayStage' /\ Unlinked'
    BY <1>0, <1>15 DEF TypeOK, OwnPlaces, GatewayStage, Unlinked, Interrupt
  <2>3. RunningRecordTrue'
    BY <1>0, <1>15 DEF TypeOK, RunningRecordTrue, Host, Interrupt
  <2>. QED
    BY <2>1, <2>2, <2>3 DEF Shape
<1>16. ASSUME NEW h \in Host, KillGateway(h) PROVE Shape'
  <2>1. TypeOK'
    BY <1>0, <1>16 DEF TypeOK, KillGateway
  <2>2. OwnPlaces' /\ GatewayStage' /\ Unlinked'
    BY <1>0, <1>16 DEF TypeOK, OwnPlaces, GatewayStage, Unlinked, KillGateway
  <2>3. RunningRecordTrue'
    BY <1>0, <1>16 DEF RunningRecordTrue, KillGateway
  <2>. QED
    BY <2>1, <2>2, <2>3 DEF Shape
<1>17. ASSUME NEW h \in Host, CloseEngine(h) PROVE Shape'
  <2>1. TypeOK'
    BY <1>0, <1>17 DEF TypeOK, CloseEngine
  <2>2. OwnPlaces' /\ GatewayStage' /\ Unlinked'
    BY <1>0, <1>17 DEF OwnPlaces, GatewayStage, Unlinked, CloseEngine
  <2>3. RunningRecordTrue'
    BY <1>0, <1>17 DEF RunningRecordTrue, CloseEngine
  <2>. QED
    BY <2>1, <2>2, <2>3 DEF Shape
<1>18. ASSUME NEW h \in Host, Kill(h) PROVE Shape'
  <2>1. TypeOK'
    BY <1>0, <1>18 DEF TypeOK, Kill
  <2>2. OwnPlaces' /\ GatewayStage' /\ Unlinked'
    BY <1>0, <1>18 DEF OwnPlaces, GatewayStage, Unlinked, Kill
  <2>3. RunningRecordTrue'
    BY <1>0, <1>18 DEF RunningRecordTrue, Kill
  <2>. QED
    BY <2>1, <2>2, <2>3 DEF Shape
<1>19. ASSUME NEW h \in Host, GatewayDies(h) PROVE Shape'
  <2>1. TypeOK'
    BY <1>0, <1>19 DEF TypeOK, GatewayDies
  <2>2. OwnPlaces' /\ GatewayStage' /\ Unlinked'
    BY <1>0, <1>19 DEF TypeOK, OwnPlaces, GatewayStage, Unlinked, GatewayDies, LiveGateway
  <2>3. RunningRecordTrue'
    BY <1>0, <1>19 DEF RunningRecordTrue, GatewayDies
  <2>. QED
    BY <2>1, <2>2, <2>3 DEF Shape
<1>20. ASSUME NEW h \in Host, Listen(h) PROVE Shape'
  <2>1. TypeOK'
    BY <1>0, <1>20 DEF TypeOK, Listen
  <2>2. OwnPlaces' /\ GatewayStage' /\ Unlinked'
    BY <1>0, <1>20 DEF OwnPlaces, GatewayStage, Unlinked, Listen
  <2>3. RunningRecordTrue'
    BY <1>0, <1>20 DEF RunningRecordTrue, Listen
  <2>. QED
    BY <2>1, <2>2, <2>3 DEF Shape
<1>21. ASSUME AskShutdown \/ WriteSignal PROVE Shape'
  <2>1. UNCHANGED <<pc, record, sock, gw, loose, link, kills, slow, errors, past>>
    BY <1>21 DEF AskShutdown, WriteSignal
  <2>2. requests' \in 0..MaxRequests /\ asking' \in 0..requests' /\ signal' \in BOOLEAN
    <3>1. requests \in Nat /\ asking \in Nat /\ asking <= requests /\ requests <= MaxRequests
          /\ MaxRequests \in Nat /\ signal \in BOOLEAN
      BY <1>0 DEF TypeOK
    <3>2. CASE AskShutdown
      BY <3>1, <3>2 DEF AskShutdown
    <3>3. CASE WriteSignal
      BY <3>1, <3>3 DEF WriteSignal
    <3>. QED
      BY <1>21, <3>2, <3>3
  <2>3. TypeOK'
    BY <1>0, <2>1, <2>2 DEF TypeOK
  <2>. QED
    BY <1>0, <2>1, <2>3
    DEF Shape, OwnPlaces, GatewayStage, Unlinked, RunningRecordTrue
<1>22. ASSUME NEW h \in Host, LoadFails(h) PROVE Shape'
  <2>1. TypeOK'
    BY <1>0, <1>22 DEF TypeOK, LoadFails
  <2>2. OwnPlaces' /\ GatewayStage' /\ Unlinked'
    BY <1>0, <1>22 DEF TypeOK, OwnPlaces, GatewayStage, Unlinked, LoadFails
  <2>3. RunningRecordTrue'
    BY <1>0, <1>22 DEF TypeOK, RunningRecordTrue, NoRecord, Host, LoadFails
  <2>. QED
    BY <2>1, <2>2, <2>3 DEF Shape
<1>23. ASSUME NEW h \in Host, BootFails(h) PROVE Shape'
  <2>1. TypeOK'
    BY <1>0, <1>23 DEF TypeOK, BootFails
  <2>2. OwnPlaces' /\ GatewayStage' /\ Unlinked'
    BY <1>0, <1>23 DEF TypeOK, OwnPlaces, GatewayStage, Unlinked, BootFails
  <2>3. RunningRecordTrue'
    BY <1>0, <1>23 DEF TypeOK, RunningRecordTrue, NoRecord, Host, BootFails
  <2>. QED
    BY <2>1, <2>2, <2>3 DEF Shape
<1>24. ASSUME NEW h \in Host, WriteFails(h) PROVE Shape'
  <2>1. TypeOK'
    BY <1>0, <1>24 DEF TypeOK, Record, WriteFails
  <2>2. OwnPlaces' /\ GatewayStage' /\ Unlinked'
    BY <1>0, <1>24 DEF TypeOK, OwnPlaces, GatewayStage, Unlinked, WriteFails
  <2>3. RunningRecordTrue'
    BY <1>0, <1>24 DEF TypeOK, RunningRecordTrue, NoRecord, Host, WriteFails
  <2>. QED
    BY <2>1, <2>2, <2>3 DEF Shape
<1>25. ASSUME NEW h \in Host, WaitFails(h) PROVE Shape'
  <2>1. TypeOK'
    BY <1>0, <1>25 DEF TypeOK, WaitFails
  <2>2. OwnPlaces' /\ GatewayStage' /\ Unlinked'
    BY <1>0, <1>25 DEF TypeOK, OwnPlaces, GatewayStage, Unlinked, WaitFails
  <2>3. RunningRecordTrue'
    BY <1>0, <1>25 DEF TypeOK, RunningRecordTrue, NoRecord, Host, WaitFails
  <2>. QED
    BY <2>1, <2>2, <2>3 DEF Shape
<1>26. ASSUME NEW h \in Host, GoToolDies(h) PROVE Shape'
  <2>1. TypeOK'
    BY <1>0, <1>26 DEF TypeOK, GoToolDies
  <2>2. OwnPlaces' /\ GatewayStage' /\ Unlinked'
    BY <1>0, <1>26 DEF TypeOK, OwnPlaces, GatewayStage, Unlinked, GoToolDies
  <2>3. RunningRecordTrue'
    BY <1>0, <1>26 DEF TypeOK, RunningRecordTrue, NoRecord, Host, GoToolDies
  <2>. QED
    BY <2>1, <2>2, <2>3 DEF Shape
<1>. QED
  BY <1>1, <1>2, <1>3, <1>4, <1>5, <1>6, <1>7, <1>8, <1>9, <1>10, <1>11, <1>12,
     <1>13, <1>14, <1>15, <1>16, <1>17, <1>18, <1>19, <1>20, <1>21,
     <1>22, <1>23, <1>24, <1>25, <1>26
  DEF Next, Advance

-----------------------------------------------------------------------------
(* QuietPart: who is beside whom while nothing has gone wrong outside.     *)

\* What goes wrong outside is never undone.
LEMMA QuietBefore ==
  ASSUME Shape, Next, Quiet'
  PROVE  Quiet
BY DEF Shape, TypeOK, Next, Advance, Quiet, Load, ProbeAnswered, ProbeTimesOut,
       RemoveSignal, RemoveRecord, StartRuntime, RemoveSocket, Bind, SpawnGateway,
       GatewayAnswered, BootTimesOut, WriteRecord, PollSignal, PollGateway,
       Interrupt, KillGateway, CloseEngine, Kill, GatewayDies, Listen, AskShutdown,
       WriteSignal, TimesOut, env, past, Fails, Overlap, Disturbed, LoadFails, BootFails,
       WriteFails, WaitFails, GoToolDies

LEMMA QuietKept ==
  ASSUME Shape, Next, Quiet, QuietPart, Quiet'
  PROVE  QuietPart'
<1> USE DesktopHostAssumption
    DEF Goto, env, past, Fails, Overlap, Checking, Booting, Settled, Stopping, Exited
<1>0. /\ TypeOK /\ OwnPlaces /\ GatewayStage /\ Unlinked
      /\ AtMostTwo /\ Paired /\ OwnSocket /\ Attended /\ Recorded
  BY DEF Shape, QuietPart
<1>1. ASSUME NEW h \in Host, Load(h) PROVE QuietPart'
  <2>a. \A k \in Host \ {h} : Active(k) => pc[k] = "running"
    BY <1>1 DEF Quiet, Disturbed, Load, Company, Active
  <2>b. \A k, l \in Host \ {h} : Active(k) /\ Active(l) => k = l /\ record # NoRecord
    BY <1>0, <2>a DEF Paired, Follows, Recorded, NoRecord
  <2>c. pc' = [pc EXCEPT ![h] = IF record = NoRecord THEN "clearing" ELSE "probing"]
         /\ UNCHANGED <<record, sock, gw, link>>
    BY <1>1 DEF Load
  <2>1. AtMostTwo'
    BY <1>0, <1>1, <2>a, <2>b, <2>c DEF AtMostTwo, Active
  <2>2. Paired'
    BY <1>0, <1>1, <2>a, <2>b, <2>c DEF Paired, Active, Follows, Load
  <2>3. OwnSocket'
    BY <1>0, <1>1, <2>a, <2>b, <2>c DEF OwnSocket
  <2>4. Attended'
    BY <1>0, <1>1, <2>a, <2>b, <2>c DEF Attended, Attending, Up
  <2>5. Recorded'
    BY <1>0, <1>1, <2>a, <2>b, <2>c DEF Recorded
  <2>. QED
    BY <2>1, <2>2, <2>3, <2>4, <2>5 DEF QuietPart
<1>2. ASSUME NEW h \in Host, ProbeAnswered(h) PROVE QuietPart'
  <2>1. AtMostTwo'
    BY <1>0, <1>2 DEF AtMostTwo, Active, ProbeAnswered
  <2>2. Paired'
    BY <1>0, <1>2 DEF Paired, Active, Follows, AtMostTwo, ProbeAnswered
  <2>3. OwnSocket'
    BY <1>0, <1>2 DEF OwnSocket, ProbeAnswered
  <2>4. Attended'
    BY <1>0, <1>2
    DEF Attended, Attending, Up, ProbeAnswered, Connect, EngineOf, Serving
  <2>5. Recorded'
    BY <1>0, <1>2 DEF Recorded, ProbeAnswered
  <2>. QED
    BY <2>1, <2>2, <2>3, <2>4, <2>5 DEF QuietPart
<1>3. ASSUME NEW h \in Host, ProbeTimesOut(h) PROVE QuietPart'
  <2>a. ASSUME NEW k \in Host \ {h}, Active(k)
        PROVE  pc[k] = "closing" /\ ~Attending(k)
    <3>1. \A g \in Host : ~Answers(g)
      BY <1>0, <1>3 DEF Quiet, Disturbed, TypeOK, ProbeTimesOut, TimesOut
    <3>2. pc[k] \in {"running"} \cup Stopping
      BY <1>0, <1>3, <2>a DEF ProbeTimesOut, Paired, Follows, Active
    <3>3. ~Attending(k)
      BY <3>1, <3>2 DEF Attending, Answers, EngineOf, Serving
    <3>. QED
      BY <1>0, <3>2, <3>3 DEF Attended, Up
  <2>1. AtMostTwo'
    BY <1>0, <1>3, <2>a DEF AtMostTwo, Active, ProbeTimesOut
  <2>2. Paired'
    BY <1>0, <1>3, <2>a DEF Paired, Active, Follows, Attending, ProbeTimesOut
  <2>3. OwnSocket'
    BY <1>0, <1>3, <2>a DEF OwnSocket, ProbeTimesOut
  <2>4. Attended'
    BY <1>0, <1>3, <2>a DEF Attended, Active, Up, ProbeTimesOut
  <2>5. Recorded'
    BY <1>0, <1>3, <2>a DEF Recorded, Active, ProbeTimesOut
  <2>. QED
    BY <2>1, <2>2, <2>3, <2>4, <2>5 DEF QuietPart
<1>4. ASSUME NEW h \in Host, RemoveSignal(h) PROVE QuietPart'
  <2>1. AtMostTwo'
    BY <1>0, <1>4 DEF TypeOK, AtMostTwo, Active, RemoveSignal
  <2>2. Paired'
    BY <1>0, <1>4 DEF TypeOK, Paired, Active, Follows, Attending, RemoveSignal
  <2>3. OwnSocket'
    BY <1>0, <1>4 DEF TypeOK, OwnSocket, RemoveSignal
  <2>4. Attended'
    BY <1>0, <1>4 DEF TypeOK, Attended, Attending, Up, RemoveSignal
  <2>5. Recorded'
    BY <1>0, <1>4 DEF TypeOK, Recorded, RemoveSignal
  <2>. QED
    BY <2>1, <2>2, <2>3, <2>4, <2>5 DEF QuietPart
<1>5. ASSUME NEW h \in Host, RemoveRecord(h) PROVE QuietPart'
  <2>1. AtMostTwo'
    BY <1>0, <1>5 DEF TypeOK, AtMostTwo, Active, RemoveRecord
  <2>2. Paired'
    BY <1>0, <1>5 DEF TypeOK, Paired, Active, Follows, Attending, RemoveRecord
  <2>3. OwnSocket'
    BY <1>0, <1>5 DEF TypeOK, OwnSocket, RemoveRecord
  <2>4. Attended'
    BY <1>0, <1>5 DEF TypeOK, Attended, Attending, Up, RemoveRecord
  <2>5. Recorded'
    BY <1>0, <1>5 DEF TypeOK, Paired, Recorded, Active, Follows, RemoveRecord
  <2>. QED
    BY <2>1, <2>2, <2>3, <2>4, <2>5 DEF QuietPart
<1>6. ASSUME NEW h \in Host, StartRuntime(h) PROVE QuietPart'
  <2>a. \A k \in Host \ {h} : ~Active(k)
    BY <1>6 DEF Quiet, Disturbed, StartRuntime, Company, Active
  <2>1. AtMostTwo'
    BY <1>0, <1>6, <2>a DEF AtMostTwo, Active, StartRuntime
  <2>2. Paired'
    BY <1>0, <1>6, <2>a DEF Paired, Active, StartRuntime
  <2>3. OwnSocket'
    BY <1>0, <1>6, <2>a DEF OwnSocket, StartRuntime
  <2>4. Attended'
    BY <1>0, <1>6, <2>a DEF Attended, Active, Up, StartRuntime
  <2>5. Recorded'
    BY <1>0, <1>6, <2>a DEF Recorded, StartRuntime
  <2>. QED
    BY <2>1, <2>2, <2>3, <2>4, <2>5 DEF QuietPart
<1>7. ASSUME NEW h \in Host, RemoveSocket(h) PROVE QuietPart'
  <2>1. AtMostTwo'
    BY <1>0, <1>7 DEF AtMostTwo, Active, RemoveSocket
  <2>2. Paired'
    BY <1>0, <1>7 DEF Paired, Active, Follows, Attending, RemoveSocket
  <2>3. OwnSocket'
    BY <1>0, <1>7 DEF OwnSocket, RemoveSocket
  <2>4. Attended'
    BY <1>0, <1>7 DEF Attended, Attending, Up, RemoveSocket
  <2>5. Recorded'
    BY <1>0, <1>7 DEF Recorded, RemoveSocket
  <2>. QED
    BY <2>1, <2>2, <2>3, <2>4, <2>5 DEF QuietPart
<1>8. ASSUME NEW h \in Host, Bind(h) PROVE QuietPart'
  <2>1. AtMostTwo'
    BY <1>0, <1>8 DEF TypeOK, AtMostTwo, Active, Bind
  <2>2. Paired'
    BY <1>0, <1>8 DEF TypeOK, Paired, Active, Follows, Attending, Bind
  <2>3. OwnSocket'
    BY <1>0, <1>8 DEF TypeOK, Paired, OwnSocket, Active, Follows, Bind
  <2>4. Attended'
    BY <1>0, <1>8 DEF TypeOK, Attended, Attending, Up, Bind
  <2>5. Recorded'
    BY <1>0, <1>8 DEF TypeOK, Recorded, Bind
  <2>. QED
    BY <2>1, <2>2, <2>3, <2>4, <2>5 DEF QuietPart
<1>9. ASSUME NEW h \in Host, SpawnGateway(h) PROVE QuietPart'
  <2>1. AtMostTwo'
    BY <1>0, <1>9 DEF AtMostTwo, Active, SpawnGateway
  <2>2. Paired'
    BY <1>0, <1>9 DEF Paired, Active, Follows, Attending, SpawnGateway
  <2>3. OwnSocket'
    BY <1>0, <1>9 DEF OwnSocket, SpawnGateway
  <2>4. Attended'
    BY <1>0, <1>9 DEF Paired, Attended, Active, Follows, Up, SpawnGateway
  <2>5. Recorded'
    BY <1>0, <1>9 DEF Recorded, SpawnGateway
  <2>. QED
    BY <2>1, <2>2, <2>3, <2>4, <2>5 DEF QuietPart
<1>10. ASSUME NEW h \in Host, GatewayAnswered(h) PROVE QuietPart'
  <2>1. AtMostTwo'
    BY <1>0, <1>10 DEF AtMostTwo, Active, GatewayAnswered
  <2>2. Paired'
    BY <1>0, <1>10
    DEF Paired, OwnSocket, Active, Follows, Attending, GatewayAnswered, Connect,
        EngineOf
  <2>3. OwnSocket'
    BY <1>0, <1>10 DEF OwnSocket, GatewayAnswered
  <2>4. Attended'
    BY <1>0, <1>10
    DEF TypeOK, Paired, Attended, Attending, OwnSocket, Active, Follows, Up,
        GatewayAnswered, Connect, EngineOf, Answers, Serving
  <2>5. Recorded'
    BY <1>0, <1>10 DEF Recorded, GatewayAnswered
  <2>. QED
    BY <2>1, <2>2, <2>3, <2>4, <2>5 DEF QuietPart
<1>11. ASSUME NEW h \in Host, BootTimesOut(h) PROVE QuietPart'
  <2>1. AtMostTwo'
    BY <1>0, <1>11 DEF AtMostTwo, Active, BootTimesOut
  <2>2. Paired'
    BY <1>0, <1>11 DEF Paired, Active, Follows, Attending, BootTimesOut
  <2>3. OwnSocket'
    BY <1>0, <1>11 DEF OwnSocket, BootTimesOut
  <2>4. Attended'
    BY <1>0, <1>11 DEF Attended, Attending, Up, BootTimesOut
  <2>5. Recorded'
    BY <1>0, <1>11 DEF Recorded, BootTimesOut
  <2>. QED
    BY <2>1, <2>2, <2>3, <2>4, <2>5 DEF QuietPart
<1>12. ASSUME NEW h \in Host, WriteRecord(h) PROVE QuietPart'
  <2>1. AtMostTwo'
    BY <1>0, <1>12 DEF AtMostTwo, Active, WriteRecord
  <2>2. Paired'
    BY <1>0, <1>12 DEF Paired, Active, Follows, Attending, WriteRecord
  <2>3. OwnSocket'
    BY <1>0, <1>12 DEF OwnSocket, WriteRecord
  <2>4. Attended'
    BY <1>0, <1>12 DEF Attended, Attending, Up, WriteRecord
  <2>5. Recorded'
    BY <1>0, <1>12 DEF TypeOK, Paired, Recorded, Active, Follows, WriteRecord
  <2>. QED
    BY <2>1, <2>2, <2>3, <2>4, <2>5 DEF QuietPart
<1>13. ASSUME NEW h \in Host, PollSignal(h) PROVE QuietPart'
  <2>1. AtMostTwo'
    BY <1>0, <1>13 DEF AtMostTwo, Active, PollSignal
  <2>2. Paired'
    BY <1>0, <1>13 DEF Paired, Active, Follows, Attending, PollSignal
  <2>3. OwnSocket'
    BY <1>0, <1>13 DEF OwnSocket, PollSignal
  <2>4. Attended'
    BY <1>0, <1>13 DEF Attended, Attending, Up, PollSignal
  <2>5. Recorded'
    BY <1>0, <1>13 DEF Recorded, PollSignal
  <2>. QED
    BY <2>1, <2>2, <2>3, <2>4, <2>5 DEF QuietPart
<1>14. ASSUME NEW h \in Host, PollGateway(h) PROVE QuietPart'
  <2>1. AtMostTwo'
    BY <1>0, <1>14 DEF AtMostTwo, Active, PollGateway
  <2>2. Paired'
    BY <1>0, <1>14 DEF Paired, Active, Follows, Attending, PollGateway
  <2>3. OwnSocket'
    BY <1>0, <1>14 DEF OwnSocket, PollGateway
  <2>4. Attended'
    BY <1>0, <1>14 DEF Attended, Attending, Up, PollGateway
  <2>5. Recorded'
    BY <1>0, <1>14 DEF TypeOK, Paired, Recorded, Active, Follows, PollGateway
  <2>. QED
    BY <2>1, <2>2, <2>3, <2>4, <2>5 DEF QuietPart
<1>15. ASSUME NEW h \in Host, Interrupt(h) PROVE QuietPart'
  <2>1. AtMostTwo'
    BY <1>0, <1>15 DEF TypeOK, AtMostTwo, Active, Interrupt
  <2>2. Paired'
    BY <1>0, <1>15 DEF TypeOK, Paired, Active, Follows, Attending, Interrupt
  <2>3. OwnSocket'
    BY <1>0, <1>15 DEF TypeOK, OwnSocket, Interrupt
  <2>4. Attended'
    BY <1>0, <1>15 DEF TypeOK, Attended, Attending, Up, Interrupt
  <2>5. Recorded'
    BY <1>0, <1>15 DEF TypeOK, Recorded, Interrupt
  <2>. QED
    BY <2>1, <2>2, <2>3, <2>4, <2>5 DEF QuietPart
<1>16. ASSUME NEW h \in Host, KillGateway(h) PROVE QuietPart'
  <2>1. AtMostTwo'
    BY <1>0, <1>16 DEF AtMostTwo, Active, KillGateway
  <2>2. Paired'
    <3>1. \A g \in Host : gw'[g] = "listening" => gw[g] = "listening"
      BY <1>0, <1>16 DEF TypeOK, KillGateway
    <3>2. \A k \in Host : Attending(k)' => Attending(k)
      BY <1>16, <3>1 DEF Attending, KillGateway
    <3>. QED
      BY <1>0, <1>16, <3>2 DEF TypeOK, Paired, Active, Follows, KillGateway
  <2>3. OwnSocket'
    BY <1>0, <1>16 DEF OwnSocket, KillGateway
  <2>4. Attended'
    BY <1>0, <1>16 DEF TypeOK, Attended, Attending, Up, KillGateway
  <2>5. Recorded'
    BY <1>0, <1>16 DEF Recorded, KillGateway
  <2>. QED
    BY <2>1, <2>2, <2>3, <2>4, <2>5 DEF QuietPart
<1>17. ASSUME NEW h \in Host, CloseEngine(h) PROVE QuietPart'
  <2>1. AtMostTwo'
    BY <1>0, <1>17 DEF AtMostTwo, Active, CloseEngine
  <2>2. Paired'
    BY <1>0, <1>17 DEF Paired, Active, Follows, Attending, CloseEngine
  <2>3. OwnSocket'
    BY <1>0, <1>17 DEF OwnSocket, CloseEngine
  <2>4. Attended'
    BY <1>0, <1>17 DEF Attended, Attending, Up, CloseEngine
  <2>5. Recorded'
    BY <1>0, <1>17 DEF Recorded, CloseEngine
  <2>. QED
    BY <2>1, <2>2, <2>3, <2>4, <2>5 DEF QuietPart
<1>18. ASSUME NEW h \in Host, Kill(h) PROVE QuietPart'
  BY <1>0, <1>18 DEF TypeOK, Quiet, Disturbed, Kill
<1>19. ASSUME NEW h \in Host, GatewayDies(h) PROVE QuietPart'
  BY <1>0, <1>19 DEF TypeOK, Quiet, Disturbed, GatewayDies
<1>20. ASSUME NEW h \in Host, Listen(h) PROVE QuietPart'
  <2>1. AtMostTwo'
    BY <1>0, <1>20 DEF AtMostTwo, Active, Listen
  <2>2. Paired'
    BY <1>0, <1>20 DEF Unlinked, Paired, Active, Follows, Attending, Listen
  <2>3. OwnSocket'
    BY <1>0, <1>20 DEF OwnSocket, Listen
  <2>4. Attended'
    BY <1>0, <1>20 DEF Attended, Attending, Listen
  <2>5. Recorded'
    BY <1>0, <1>20 DEF Recorded, Listen
  <2>. QED
    BY <2>1, <2>2, <2>3, <2>4, <2>5 DEF QuietPart
<1>21. ASSUME AskShutdown \/ WriteSignal PROVE QuietPart'
  BY <1>0, <1>21
  DEF QuietPart, AtMostTwo, Paired, OwnSocket, Attended, Attending, Recorded,
      Active, Follows, AskShutdown, WriteSignal
<1>22. ASSUME NEW h \in Host, LoadFails(h) PROVE QuietPart'
  BY <1>22 DEF Quiet, Disturbed, LoadFails
<1>23. ASSUME NEW h \in Host, BootFails(h) PROVE QuietPart'
  <2>1. AtMostTwo'
    BY <1>0, <1>23 DEF TypeOK, AtMostTwo, Active, BootFails
  <2>2. Paired'
    BY <1>0, <1>23 DEF TypeOK, Paired, Active, Follows, Attending, BootFails
  <2>3. OwnSocket'
    BY <1>0, <1>23 DEF TypeOK, OwnSocket, BootFails
  <2>4. Attended'
    BY <1>0, <1>23 DEF TypeOK, Attended, Attending, Up, BootFails
  <2>5. Recorded'
    BY <1>0, <1>23 DEF TypeOK, Recorded, BootFails
  <2>. QED
    BY <2>1, <2>2, <2>3, <2>4, <2>5 DEF QuietPart
<1>24. ASSUME NEW h \in Host, WriteFails(h) PROVE QuietPart'
  <2>1. AtMostTwo'
    BY <1>0, <1>24 DEF TypeOK, AtMostTwo, Active, WriteFails
  <2>2. Paired'
    BY <1>0, <1>24 DEF TypeOK, Paired, Active, Follows, Attending, WriteFails
  <2>3. OwnSocket'
    BY <1>0, <1>24 DEF TypeOK, OwnSocket, WriteFails
  <2>4. Attended'
    BY <1>0, <1>24 DEF TypeOK, Attended, Attending, Up, WriteFails
  <2>5. Recorded'
    BY <1>0, <1>24 DEF TypeOK, Recorded, Paired, Active, Follows, WriteFails
  <2>. QED
    BY <2>1, <2>2, <2>3, <2>4, <2>5 DEF QuietPart
<1>25. ASSUME NEW h \in Host, WaitFails(h) PROVE QuietPart'
  <2>1. AtMostTwo'
    BY <1>0, <1>25 DEF TypeOK, AtMostTwo, Active, WaitFails
  <2>2. Paired'
    BY <1>0, <1>25 DEF TypeOK, Paired, Active, Follows, Attending, WaitFails
  <2>3. OwnSocket'
    BY <1>0, <1>25 DEF TypeOK, OwnSocket, WaitFails
  <2>4. Attended'
    BY <1>0, <1>25 DEF TypeOK, Attended, Attending, Up, WaitFails
  <2>5. Recorded'
    BY <1>0, <1>25 DEF TypeOK, Recorded, WaitFails
  <2>. QED
    BY <2>1, <2>2, <2>3, <2>4, <2>5 DEF QuietPart
<1>26. ASSUME NEW h \in Host, GoToolDies(h) PROVE QuietPart'
  BY <1>0, <1>26 DEF TypeOK, Quiet, Disturbed, GoToolDies
<1>. QED
  BY <1>1, <1>2, <1>3, <1>4, <1>5, <1>6, <1>7, <1>8, <1>9, <1>10, <1>11, <1>12,
     <1>13, <1>14, <1>15, <1>16, <1>17, <1>18, <1>19, <1>20, <1>21,
     <1>22, <1>23, <1>24, <1>25, <1>26
  DEF Next, Advance

-----------------------------------------------------------------------------
(* The invariant and what it yields.                                       *)

LEMMA InitInvariant == Init => IInv
<1> SUFFICES ASSUME Init PROVE IInv
  OBVIOUS
<1>1. QuietPart
  BY DEF Init, QuietPart, AtMostTwo, Paired, OwnSocket, Attended, Recorded, Active,
         Up
<1>. QED
  BY <1>1, InitShape DEF IInv

LEMMA InvariantKept == IInv /\ [Next]_vars => IInv'
<1> SUFFICES ASSUME IInv, [Next]_vars PROVE IInv'
  OBVIOUS
<1>1. CASE Next
  <2>1. Shape'
    BY <1>1, ShapeKept DEF IInv
  <2>2. ASSUME Quiet' PROVE QuietPart'
    BY <1>1, <2>2, QuietBefore, QuietKept DEF IInv
  <2>. QED
    BY <2>1, <2>2 DEF IInv
<1>2. CASE UNCHANGED vars
  BY <1>2
  DEF vars, env, IInv, Shape, TypeOK, OwnPlaces, GatewayStage, Unlinked, RunningRecordTrue,
      Quiet, Disturbed, past, QuietPart, AtMostTwo, Paired, OwnSocket, Attended, Attending, Recorded, Active,
      Follows
<1>. QED
  BY <1>1, <1>2

LEMMA SpecInvariant == Spec => []IInv
BY InitInvariant, InvariantKept, PTL DEF Spec

\* The state is well typed, and at most one gateway listens at the address
\* (net.Listen in gateway/cmd/gateway/main.go).
THEOREM HostTyped == Spec => []TypeOK
<1>1. IInv => TypeOK
  BY DEF IInv, Shape
<1>. QED
  BY <1>1, SpecInvariant, PTL

\* A gateway outlives its process only after a kill, an unanswered boot or a ?
\* after the boot, or when only the go tool between them has ended: the paths
\* of run_desktop_host and of `openpinch start` that end otherwise kill it or
\* have seen it exit.
THEOREM NoOtherOrphans == Spec => []OrphansExplained
<1>1. IInv => OrphansExplained
  BY DEF IInv, Shape, GatewayStage, OrphansExplained, LiveGateway, Exited
<1>. QED
  BY <1>1, SpecInvariant, PTL

\* The state file says "running" only of a host in its loop, stopping, killed,
\* ended by a ?, or stopped without being able to remove the file
\* (write_desktop_host_state and its removals).
THEOREM RecordsAreTrue == Spec => []RunningRecordTrue
<1>1. IInv => RunningRecordTrue
  BY DEF IInv, Shape
<1>. QED
  BY <1>1, SpecInvariant, PTL

\* Two hosts in their loops mean a kill, a late answer, an unreadable state
\* file or an overlapping start: the check of healthy_desktop_host is enough
\* for everything else, failing system calls included.
THEOREM NoOtherDuplicates == Spec => []DuplicatesExplained
<1>1. IInv => DuplicatesExplained
  <2> SUFFICES ASSUME IInv, NEW h \in Desktop, NEW k \in Desktop,
                      pc[h] = "running", pc[k] = "running", h # k, ~Disturbed
               PROVE  FALSE
    BY DEF DuplicatesExplained
  <2>1. Active(h) /\ Active(k) /\ h \in Host /\ k \in Host
    BY DEF Active, Exited, Host
  <2>2. Follows(h, k) \/ Follows(k, h)
    BY <2>1 DEF IInv, Quiet, QuietPart, Paired
  <2>. QED
    BY <2>2 DEF Follows
<1>. QED
  BY <1>1, SpecInvariant, PTL

\* Only then does a host in its loop lose its record: the removals of
\* run_desktop_host and healthy_desktop_host, which do not look whose record it
\* is, are harmless without such a disturbance.
THEOREM LiveHostsRecorded == Spec => []LiveHostRecorded
<1>1. IInv => LiveHostRecorded
  BY DEF IInv, Quiet, QuietPart, Recorded, LiveHostRecorded, Host
<1>. QED
  BY <1>1, SpecInvariant, PTL
=============================================================================
