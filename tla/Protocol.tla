-------------------------------- MODULE Protocol --------------------------------
(***************************************************************************)
(* The validator of agent protocol runs: validate_protocol of              *)
(* core/crates/engine/src/lib.rs.                                          *)
(*                                                                         *)
(* A message is who sends it to whom, whether its body has text, and       *)
(* whether it comes with an encrypted body.                                *)
(***************************************************************************)
EXTENDS Naturals, Sequences

CONSTANTS
  Party,          \* the agents
  EncryptChannels,\* security.encryption.encrypt_agent_channels
  Initiator, Coordinator, Worker   \* the agents of handoff_v1

ASSUME ProtocolAssumption ==
  /\ EncryptChannels \in BOOLEAN
  /\ {Initiator, Coordinator, Worker} \subseteq Party
  /\ Initiator # Coordinator /\ Coordinator # Worker

AgentMessage == [sender : Party, recipient : Party, text : BOOLEAN, sealed : BOOLEAN]
ProtocolRun  == [protocol : {"handoff.v1", "other"}, initiator : Party,
                 messages : Seq(AgentMessage)]

\* The findings about one message of a run, by kind.
MessageFindings(run, i) ==
  LET message == run.messages[i] IN
  {kind \in {"initiator", "self", "unencrypted"} :
     \/ kind = "initiator" /\ i = 1 /\ message.sender # run.initiator
     \/ kind = "self" /\ message.sender = message.recipient
     \/ kind = "unencrypted" /\ EncryptChannels /\ ~message.sealed /\ message.text}

FindingKind == {"empty", "short", "initiator", "self", "unencrypted"}

Findings(run) ==
  {f \in [at : 0..Len(run.messages), kind : FindingKind] :
     \/ f.at = 0 /\ f.kind = "empty" /\ run.messages = <<>>
     \/ f.at = 0 /\ f.kind = "short" /\ run.protocol = "handoff.v1" /\ Len(run.messages) < 2
     \/ f.at > 0 /\ f.kind \in MessageFindings(run, f.at)}

Accepted(run) == Findings(run) = {}

-----------------------------------------------------------------------------
\* The rules as docs/formal/handoff_v1.validator.json states them, except that
\* the code lets a message without text go unencrypted.
Rules(run) ==
  /\ run.messages # <<>>
  /\ run.messages[1].sender = run.initiator
  /\ \A i \in 1..Len(run.messages) : run.messages[i].sender # run.messages[i].recipient
  /\ run.protocol = "handoff.v1" => Len(run.messages) >= 2
  /\ EncryptChannels =>
       \A i \in 1..Len(run.messages) : run.messages[i].text => run.messages[i].sealed

=================================================================================
