-------------------------------- MODULE Handoff --------------------------------
(***************************************************************************)
(* The machine of docs/formal/handoff_v1.tla, and what validate_protocol   *)
(* says of the runs it describes.                                          *)
(***************************************************************************)
EXTENDS Protocol, TLAPS

VARIABLES phase, transcript

handoffVars == <<phase, transcript>>

ToCoordinator == [sender |-> Initiator, recipient |-> Coordinator]
ToWorker      == [sender |-> Coordinator, recipient |-> Worker]

HandoffInit == phase = "init" /\ transcript = <<>>

ClientSend ==
  /\ phase = "init" /\ phase' = "handoff"
  /\ transcript' = Append(transcript, ToCoordinator)

CoordinatorForward ==
  /\ phase = "handoff" /\ phase' = "complete"
  /\ transcript' = Append(transcript, ToWorker)

Handoff == HandoffInit /\ [][ClientSend \/ CoordinatorForward]_handoffVars

\* A run that carries the transcript, encrypted where encryption is on.
Carries(run) ==
  /\ run.protocol = "handoff.v1" /\ run.initiator = Initiator
  /\ Len(run.messages) = Len(transcript)
  /\ \A i \in 1..Len(transcript) :
       /\ run.messages[i].sender = transcript[i].sender
       /\ run.messages[i].recipient = transcript[i].recipient
       /\ EncryptChannels => run.messages[i].sealed

\* validate_protocol accepts a run of a handoff exactly when it is complete.
HandoffAccepted == \A run \in ProtocolRun : Carries(run) => (Accepted(run) <=> phase = "complete")

-----------------------------------------------------------------------------
\* validate_protocol finds nothing exactly when the rules hold.
THEOREM AcceptedIsRules == ASSUME NEW run \in ProtocolRun PROVE Accepted(run) <=> Rules(run)
<1> DEFINE n == Len(run.messages)
<1>0. n \in Nat /\ (run.messages = <<>> <=> n = 0)
  BY DEF ProtocolRun
<1>1. ASSUME Rules(run) PROVE Accepted(run)
  <2> SUFFICES ASSUME NEW f \in Findings(run) PROVE FALSE
    BY DEF Accepted
  <2>1. CASE f.at = 0
    BY <1>0, <1>1, <2>1 DEF Findings, Rules
  <2>2. CASE f.at > 0
    BY <1>0, <1>1, <2>2 DEF Findings, MessageFindings, Rules
  <2> QED
    BY <2>1, <2>2, <1>0 DEF Findings
<1>2. ASSUME Accepted(run) PROVE Rules(run)
  <2>1. ASSUME NEW i \in 0..n, NEW kind \in FindingKind
        PROVE ~( \/ i = 0 /\ kind = "empty" /\ run.messages = <<>>
                 \/ i = 0 /\ kind = "short" /\ run.protocol = "handoff.v1" /\ n < 2
                 \/ i > 0 /\ kind \in MessageFindings(run, i))
    <3>1. [at |-> i, kind |-> kind] \notin Findings(run)
      BY <1>2 DEF Accepted
    <3> QED
      BY <3>1 DEF Findings
  <2>2. n > 0 /\ (run.protocol = "handoff.v1" => n >= 2)
    BY <2>1, <1>0 DEF FindingKind
  <2>3. ASSUME NEW i \in 1..n
        PROVE /\ i = 1 => run.messages[i].sender = run.initiator
              /\ run.messages[i].sender # run.messages[i].recipient
              /\ EncryptChannels => (run.messages[i].text => run.messages[i].sealed)
    <3>1. i \in 0..n /\ i > 0
      BY <2>3, <1>0
    <3>2. /\ "initiator" \notin MessageFindings(run, i) /\ "self" \notin MessageFindings(run, i)
          /\ "unencrypted" \notin MessageFindings(run, i)
      BY <2>1, <3>1 DEF FindingKind
    <3> QED
      BY <3>2 DEF MessageFindings
  <2> QED
    BY <2>2, <2>3, <1>0 DEF Rules
<1> QED
  BY <1>1, <1>2

\* What appending an entry leaves of the others.
LEMMA AppendKeeps ==
  ASSUME NEW S, NEW s \in Seq(S), NEW e \in S
  PROVE  /\ Append(s, e) \in Seq(S) /\ Len(Append(s, e)) = Len(s) + 1
         /\ \A i \in 1..Len(s) : Append(s, e)[i] = s[i]
         /\ Append(s, e)[Len(s) + 1] = e
<1>1. Append(s, e) \in Seq(S)
  OBVIOUS
<1>2. Len(Append(s, e)) = Len(s) + 1
  OBVIOUS
<1>3. Append(s, e)[Len(s) + 1] = e
  OBVIOUS
<1>4. \A i \in 1..Len(s) : Append(s, e)[i] = s[i]
  OBVIOUS
<1> QED
  BY <1>1, <1>2, <1>3, <1>4

\* Every run of a finished handoff of docs/formal/handoff_v1.tla is accepted,
\* and none of an unfinished one.
THEOREM HandoffIsAccepted == Handoff => []HandoffAccepted
<1> DEFINE Entry == [sender : Party, recipient : Party]
           Inv == /\ transcript \in Seq(Entry)
                  /\ \/ phase = "init" /\ Len(transcript) = 0
                     \/ phase = "handoff" /\ Len(transcript) = 1 /\ transcript[1] = ToCoordinator
                     \/ /\ phase = "complete" /\ Len(transcript) = 2
                        /\ transcript[1] = ToCoordinator /\ transcript[2] = ToWorker
<1>0. ToCoordinator \in Entry /\ ToWorker \in Entry
  BY ProtocolAssumption DEF ToCoordinator, ToWorker
<1>1. HandoffInit => Inv
  BY DEF HandoffInit
<1>2. Inv /\ [ClientSend \/ CoordinatorForward]_handoffVars => Inv'
  <2> SUFFICES ASSUME Inv, [ClientSend \/ CoordinatorForward]_handoffVars PROVE Inv'
    OBVIOUS
  <2>a. transcript \in Seq(Entry)
    OBVIOUS
  <2> HIDE DEF Entry
  <2>1. CASE ClientSend
    BY <1>0, <2>a, <2>1 DEF ClientSend
  <2>2. CASE CoordinatorForward
    <3>1. phase' = "complete" /\ Len(transcript) = 1 /\ transcript[1] = ToCoordinator
      BY <2>2 DEF CoordinatorForward
    <3>2. transcript' = Append(transcript, ToWorker)
      BY <2>2 DEF CoordinatorForward
    <3>3. /\ transcript' \in Seq(Entry) /\ Len(transcript') = 2
          /\ transcript'[1] = transcript[1] /\ transcript'[2] = ToWorker
      <4> DEFINE t == Append(transcript, ToWorker)
      <4>1. /\ t \in Seq(Entry) /\ Len(t) = Len(transcript) + 1
            /\ \A i \in 1..Len(transcript) : t[i] = transcript[i]
            /\ t[Len(transcript) + 1] = ToWorker
        BY <1>0, <2>a, AppendKeeps
      <4> HIDE DEF t
      <4> QED
        BY <3>1, <3>2, <4>1 DEF t
    <3> QED
      BY <3>1, <3>3
  <2>3. CASE UNCHANGED handoffVars
    BY <2>3 DEF handoffVars
  <2> QED
    BY <2>1, <2>2, <2>3
<1>3. Inv => HandoffAccepted
  <2> SUFFICES ASSUME Inv, NEW run \in ProtocolRun, Carries(run)
               PROVE Rules(run) <=> phase = "complete"
    BY AcceptedIsRules DEF HandoffAccepted
  <2>1. CASE phase = "complete"
    <3>1. Len(transcript) = 2 /\ transcript[1] = ToCoordinator /\ transcript[2] = ToWorker
      BY <2>1
    <3>2. /\ Len(run.messages) = 2 /\ run.messages # <<>>
          /\ run.messages[1].sender = Initiator /\ run.messages[1].recipient = Coordinator
          /\ run.messages[2].sender = Coordinator /\ run.messages[2].recipient = Worker
          /\ EncryptChannels => run.messages[1].sealed /\ run.messages[2].sealed
          /\ run.initiator = Initiator
      BY <3>1 DEF Carries, ProtocolRun, ToCoordinator, ToWorker
    <3> QED
      BY <2>1, <3>2, ProtocolAssumption DEF Rules
  <2>2. CASE phase # "complete"
    BY <2>2 DEF Carries, Rules, ProtocolRun
  <2> QED
    BY <2>1, <2>2
<1> QED
  BY <1>1, <1>2, <1>3, PTL DEF Handoff

=================================================================================
