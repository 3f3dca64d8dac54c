------------------------------ MODULE Messaging ------------------------------
(***************************************************************************)
(* Conversations of the engine: handle_message, record_outbound_message,   *)
(* update_pairing and prune_sessions over the tables sessions,             *)
(* session_messages and pairings of the StateStore                         *)
(* (core/crates/engine/src/lib.rs).                                        *)
(*                                                                         *)
(* The store is one SQLite connection behind one mutex.  A method of the   *)
(* store locks it once, each statement commits by itself, and a handler    *)
(* calls several methods one after the other, so that handlers, the        *)
(* operator and a prune interleave between methods, and a crash or a       *)
(* failing statement can leave a method half done.                         *)
(***************************************************************************)
EXTENDS Naturals, FiniteSets

CONSTANTS
  Inbound,      \* messages the gateway delivers with deliver_message
  Outbound,     \* messages it reports with record_outbound_message
  Conv,         \* conversations: connector, channel and participant
  ConvOf,       \* the conversation of a message
  Policy,       \* "open", "allowlisted" or "gated": who must pair (see Gate)
  Unaddressed,  \* inbound group messages that neither mention nor answer us
  Free, Pruner, \* values of the lock that are no message and no conversation
  MaxUpdates, MaxPrunes, MaxCrashes, MaxFaults   \* bounds on the environment

Message == Inbound \cup Outbound

ASSUME MessagingAssumption ==
  /\ IsFiniteSet(Message) /\ IsFiniteSet(Conv)
  /\ Inbound \cap Outbound = {} /\ Message \cap Conv = {}
  /\ {Free, Pruner} \cap (Message \cup Conv) = {} /\ Free # Pruner
  /\ ConvOf \in [Message -> Conv]
  /\ Policy \in [Conv -> {"open", "allowlisted", "gated"}]
  /\ Unaddressed \subseteq Inbound
  /\ {MaxUpdates, MaxPrunes, MaxCrashes, MaxFaults} \subseteq Nat

VARIABLES
  pc,        \* how far the handler of each message got
  at,        \* the session id its handler resolved, 0 before
  lock,      \* who holds the mutex of the connection
  sessions,  \* table sessions: the row of each conversation (unique key)
  logged,    \* table session_messages: how many rows carry each session_id
  pairing,   \* table pairings: the row of each conversation's sender
  created,   \* number of session ids drawn so far
  updates, prunes, crashes, faults,  \* how often the environment acted
  seen,      \* history: pairing states in force since a message arrived
  cut,       \* history: session ids whose lines a prune deleted without the row
  blind      \* history: messages whose look at the pairings failed

tables == <<sessions, logged, pairing, created>>
env    == <<updates, prunes, crashes, faults>>
past   == <<seen, cut, blind>>
vars   == <<pc, at, lock, tables, env, past>>

SessionId == 1..Cardinality(Message)
NoRow     == [id |-> 0]
Row       == [id : SessionId, archived : BOOLEAN, active : BOOLEAN,
              pending : BOOLEAN, count : Nat, old : BOOLEAN]
Status    == {"none", "pending", "approved", "revoked"}

Handling == {"recorded", "resolved", "inserted", "logged", "approved", "unpaired",
             "pairing", "passed", "generating", "generated",
             "reply_inserted", "reply_counted", "failed"}
Answered == {"replied", "degraded", "ignored", "sent"}
Broken   == {"errored", "cancelled", "dropped"}

Live(id)   == \E c \in Conv : sessions[c].id = id
NewRow(id) == [id |-> id, archived |-> FALSE, active |-> TRUE, pending |-> FALSE,
               count |-> 0, old |-> FALSE]

\* "update sessions set ... where session_id = id": no row, no effect.
UpdateRow(id, Change(_)) ==
  sessions' = [c \in Conv |-> IF sessions[c].id = id THEN Change(sessions[c])
                                                     ELSE sessions[c]]
SetPending(id, flag) ==
  UpdateRow(id, LAMBDA row : [row EXCEPT !.pending = flag, !.old = FALSE])

Goto(m, label) == pc' = [pc EXCEPT ![m] = label]

-----------------------------------------------------------------------------

Init ==
  /\ pc       = [m \in Message |-> "idle"]
  /\ at       = [m \in Message |-> 0]
  /\ lock     = Free
  /\ sessions = [c \in Conv |-> NoRow]
  /\ logged   = [id \in SessionId |-> 0]
  /\ pairing  = [c \in Conv |-> [status |-> "none", session |-> 0]]
  /\ created  = 0
  /\ updates = 0 /\ prunes = 0 /\ crashes = 0 /\ faults = 0
  /\ seen     = [m \in Message |-> {}]
  /\ cut = {} /\ blind = {}

(* handle_message: record_message appends to the table messages. *)
Receive(m) ==
  /\ m \in Inbound
  /\ pc[m] = "idle"
  /\ lock = Free
  /\ Goto(m, "recorded")
  /\ seen' = [seen EXCEPT ![m] = {pairing[ConvOf[m]].status}]
  /\ UNCHANGED <<at, lock, tables, env, cut, blind>>

(* resolve_session_internal: the row of the conversation, or a new one. *)
Resolve(m) ==
  LET c == ConvOf[m] IN
  /\ lock = Free
  /\ IF sessions[c] # NoRow
       THEN /\ at' = [at EXCEPT ![m] = sessions[c].id]
            /\ UNCHANGED <<sessions, created>>
       ELSE /\ created' = created + 1
            /\ at' = [at EXCEPT ![m] = created + 1]
            /\ sessions' = [sessions EXCEPT ![c] = NewRow(created + 1)]
  /\ Goto(m, "resolved")
  /\ UNCHANGED <<lock, logged, pairing, env, past>>

ResolveInbound(m) == pc[m] = "recorded" /\ Resolve(m)

(***************************************************************************)
(* record_outbound_message: a named session must exist (session_by_id);    *)
(* else the conversation's session unless it is archived, and then         *)
(* resolve_session_internal, which finds the archived row again.           *)
(***************************************************************************)
ResolveOutbound(m) ==
  /\ m \in Outbound
  /\ pc[m] = "idle"
  /\ lock = Free
  /\ \/ Resolve(m)
     \/ \E id \in 1..created :
          /\ IF Live(id) THEN Goto(m, "resolved") /\ at' = [at EXCEPT ![m] = id]
                         ELSE Goto(m, "errored") /\ UNCHANGED at
          /\ UNCHANGED <<lock, tables, env, past>>

(* record_session_message: insert, then update, under one lock. *)
Insert(m, from, to) ==
  /\ pc[m] = from
  /\ lock = Free
  /\ lock' = m
  /\ logged' = [logged EXCEPT ![at[m]] = @ + 1]
  /\ Goto(m, to)
  /\ UNCHANGED <<at, sessions, pairing, created, env, past>>

\* Mutant: archived sessions are not counted.
CountUnarchived(m, from, to) ==
  /\ pc[m] = from
  /\ lock = m
  /\ lock' = Free
  /\ UpdateRow(at[m], LAMBDA row :
       IF row.archived THEN row
       ELSE [row EXCEPT !.count = @ + 1, !.active = TRUE, !.old = FALSE])
  /\ Goto(m, to)
  /\ UNCHANGED <<at, logged, pairing, created, env, past>>

Count(m, from, to) ==
  /\ pc[m] = from
  /\ lock = m
  /\ lock' = Free
  /\ UpdateRow(at[m], LAMBDA row : [row EXCEPT !.count = @ + 1, !.active = TRUE,
                                               !.old = FALSE])
  /\ Goto(m, to)
  /\ UNCHANGED <<at, logged, pairing, created, env, past>>

InsertLine(m)  == Insert(m, "resolved", "inserted")
CountLine(m)   == Count(m, "inserted", IF m \in Outbound THEN "sent" ELSE "logged")
InsertReply(m) == Insert(m, "generated", "reply_inserted")
CountReply(m)  == Count(m, "reply_inserted", "reply_counted")

-----------------------------------------------------------------------------

\* Mutant: decides by the pending_pairing flag of the session.
GateByFlag(m) ==
  LET c == ConvOf[m] IN
  /\ pc[m] = "logged"
  /\ Goto(m, IF sessions[c] # NoRow /\ sessions[c].pending THEN "unpaired" ELSE "approved")
  /\ UNCHANGED <<at, lock, tables, env, past>>

\* Mutant: requests a pairing before it looks for an approval.
GateRequestsFirst(m) ==
  /\ pc[m] = "logged"
  /\ Goto(m, IF Policy[ConvOf[m]] = "gated" THEN "unpaired" ELSE "passed")
  /\ UNCHANGED <<at, lock, tables, env, past>>

(***************************************************************************)
(* ensure_pairing_if_required.  Policy is "open" for the desktop           *)
(* connector, for group sessions and where auto_pair_dm or pair_dm is off. *)
(* A look at the pairings that fails (GateUnread) is no approval.          *)
(***************************************************************************)
Gate(m) ==
  LET c == ConvOf[m] IN
  /\ pc[m] = "logged"
  /\ \/ Policy[c] = "open" /\ Goto(m, "passed")
     \/ Policy[c] = "allowlisted" /\ Goto(m, "approved")
     \/ /\ Policy[c] = "gated"
        /\ lock = Free
        /\ Goto(m, IF pairing[c].status = "approved" THEN "approved" ELSE "unpaired")
  /\ UNCHANGED <<at, lock, tables, env, past>>

(* pairing_is_approved drops the error of pairing_for_target. *)
GateUnread(m) ==
  /\ pc[m] = "logged"
  /\ Policy[ConvOf[m]] = "gated"
  /\ lock = Free
  /\ faults < MaxFaults
  /\ faults' = faults + 1
  /\ blind' = blind \cup {m}
  /\ Goto(m, "unpaired")
  /\ UNCHANGED <<at, lock, tables, updates, prunes, crashes, seen, cut>>

\* Mutant: the guard is still alive when the next method locks the store.
ClearAndKeepLock(m) ==
  /\ pc[m] = "approved"
  /\ lock = Free
  /\ lock' = m
  /\ SetPending(at[m], FALSE)
  /\ Goto(m, "passed")
  /\ UNCHANGED <<at, logged, pairing, created, env, past>>

(* clear_session_pending_pairing. *)
ClearPending(m) ==
  /\ pc[m] = "approved"
  /\ lock = Free
  /\ SetPending(at[m], FALSE)
  /\ Goto(m, "passed")
  /\ UNCHANGED <<at, lock, logged, pairing, created, env, past>>

(***************************************************************************)
(* ensure_pairing: the upsert, committed at once.  The function ends with  *)
(* a call of pairing_for_target while its own guard is alive, and that     *)
(* locks the same parking_lot mutex, which is not reentrant: the thread    *)
(* waits for itself.  What handle_message would do next, setting           *)
(* pending_pairing and answering "pairing_required", is never reached.     *)
(***************************************************************************)
UpsertPairing(m) ==
  /\ pc[m] = "unpaired"
  /\ lock = Free
  /\ lock' = m
  /\ pairing' = [pairing EXCEPT ![ConvOf[m]] = [status |-> "pending", session |-> at[m]]]
  /\ Goto(m, "pairing")
  /\ seen' = [n \in Message |-> IF pc[n] \in Handling /\ ConvOf[n] = ConvOf[m]
                                  THEN seen[n] \cup {"pending"} ELSE seen[n]]
  /\ UNCHANGED <<at, sessions, logged, created, env, cut, blind>>

(* should_ignore_message, else build_context_pack, which reads the store. *)
Filter(m) ==
  /\ pc[m] = "passed"
  /\ \/ m \in Unaddressed /\ Goto(m, "ignored")
     \/ m \notin Unaddressed /\ lock = Free /\ Goto(m, "generating")
  /\ UNCHANGED <<at, lock, tables, env, past>>

\* Mutant: the reply is returned before it is recorded.
GenerateAndReturn(m) ==
  /\ pc[m] = "generating"
  /\ \E result \in {"replied", "failed"} : Goto(m, result)
  /\ UNCHANGED <<at, lock, tables, env, past>>

(* generate_with_route().await: a reply, or no backend produced one. *)
Generate(m) ==
  /\ pc[m] = "generating"
  /\ \E result \in {"generated", "failed"} : Goto(m, result)
  /\ UNCHANGED <<at, lock, tables, env, past>>

(* The gateway gives up after ten seconds: the handler is dropped where it *)
(* awaits, and nowhere else.                                               *)
Cancel(m) ==
  /\ pc[m] = "generating"
  /\ Goto(m, "cancelled")
  /\ UNCHANGED <<at, lock, tables, env, past>>

(* The audit event, the last call before the answer. *)
Audit(m) ==
  /\ pc[m] \in {"reply_counted", "failed"}
  /\ lock = Free
  /\ Goto(m, IF pc[m] = "failed" THEN "degraded" ELSE "replied")
  /\ UNCHANGED <<at, lock, tables, env, past>>

(***************************************************************************)
(* A statement fails: ? leaves the handler and drops the guard.  The look  *)
(* at the pairings (GateUnread) and build_context_pack drop their errors.  *)
(***************************************************************************)
Fault(m) ==
  /\ faults < MaxFaults
  /\ pc[m] \in ({"idle"} \cup Handling) \ {"logged", "passed", "generating", "pairing"}
  /\ lock \in {Free, m}
  /\ faults' = faults + 1
  /\ lock' = Free
  /\ Goto(m, "errored")
  /\ UNCHANGED <<at, tables, updates, prunes, crashes, past>>

-----------------------------------------------------------------------------

(* update_pairing: the row of the pairing and then the flag of its session. *)
UpdatePairing(c, status) ==
  /\ updates < MaxUpdates
  /\ lock = Free
  /\ pairing[c].status # "none"
  /\ updates' = updates + 1
  /\ lock' = c
  /\ pairing' = [pairing EXCEPT ![c].status = status]
  /\ seen' = [m \in Message |-> IF pc[m] \in Handling /\ ConvOf[m] = c
                                  THEN seen[m] \cup {status} ELSE seen[m]]
  /\ UNCHANGED <<pc, at, sessions, logged, created, prunes, crashes, faults, cut, blind>>

FinishUpdate(c) ==
  /\ lock = c
  /\ lock' = Free
  /\ SetPending(pairing[c].session, pairing[c].status = "pending")
  /\ UNCHANGED <<pc, at, logged, pairing, created, env, past>>

(* Hours without an update of the row: handlers do not take that long. *)
Age(c) ==
  /\ prunes < MaxPrunes
  /\ sessions[c] # NoRow
  /\ ~sessions[c].old
  /\ \A m \in Message : pc[m] \in Handling => at[m] # sessions[c].id
  /\ sessions' = [sessions EXCEPT ![c].old = TRUE]
  /\ UNCHANGED <<pc, at, lock, logged, pairing, created, env, past>>

(* prune_sessions, archive_only: one statement. *)
Archive ==
  /\ prunes < MaxPrunes
  /\ lock = Free
  /\ prunes' = prunes + 1
  /\ sessions' = [c \in Conv |->
       IF sessions[c] # NoRow /\ sessions[c].old /\ sessions[c].active
         THEN [sessions[c] EXCEPT !.archived = TRUE, !.active = FALSE, !.old = FALSE]
         ELSE sessions[c]]
  /\ UNCHANGED <<pc, at, lock, logged, pairing, created, updates, crashes, faults, past>>

(* prune_sessions: the messages of the old sessions, then the sessions. *)
DeleteMessages ==
  /\ prunes < MaxPrunes
  /\ lock = Free
  /\ prunes' = prunes + 1
  /\ lock' = Pruner
  /\ logged' = [id \in SessionId |->
       IF \E c \in Conv : sessions[c].id = id /\ sessions[c].old THEN 0 ELSE logged[id]]
  /\ UNCHANGED <<pc, at, sessions, pairing, created, updates, crashes, faults, past>>

\* Mutant: the row stays, without its key.
DeleteKeys ==
  /\ lock = Pruner
  /\ lock' = Free
  /\ sessions' = [c \in Conv |-> IF sessions[c] # NoRow /\ sessions[c].old
                                   THEN [sessions[c] EXCEPT !.id = 0] ELSE sessions[c]]
  /\ UNCHANGED <<pc, at, logged, pairing, created, env, past>>

(* The second statement: what became current in between cannot be deleted, *)
(* since the lock is held.                                                 *)
DeleteSessions ==
  /\ lock = Pruner
  /\ lock' = Free
  /\ sessions' = [c \in Conv |-> IF sessions[c] # NoRow /\ sessions[c].old
                                   THEN NoRow ELSE sessions[c]]
  /\ UNCHANGED <<pc, at, logged, pairing, created, env, past>>

\* What a prune that ends here leaves: rows without their lines.
Severed == {sessions[c].id : c \in {k \in Conv : lock = Pruner /\ sessions[k] # NoRow
                                                              /\ sessions[k].old}}

(* The second statement of prune_sessions or update_pairing fails: ? drops *)
(* the guard, and what the first statement did stays.                      *)
StatementFails ==
  /\ faults < MaxFaults
  /\ lock \in {Pruner} \cup Conv
  /\ faults' = faults + 1
  /\ lock' = Free
  /\ cut' = cut \cup Severed
  /\ UNCHANGED <<pc, at, tables, updates, prunes, crashes, seen, blind>>

(* The host dies and comes back: only the tables survive. *)
Crash ==
  /\ crashes < MaxCrashes
  /\ crashes' = crashes + 1
  /\ pc' = [m \in Message |-> IF pc[m] \in Handling THEN "dropped" ELSE pc[m]]
  /\ lock' = Free
  /\ cut' = cut \cup Severed
  /\ UNCHANGED <<at, tables, updates, prunes, faults, seen, blind>>

Handler(m) ==
  \/ Receive(m) \/ ResolveInbound(m) \/ ResolveOutbound(m) \/ InsertLine(m)
  \/ CountLine(m) \/ Gate(m) \/ ClearPending(m) \/ UpsertPairing(m) \/ Filter(m)
  \/ Generate(m) \/ Cancel(m) \/ InsertReply(m) \/ CountReply(m) \/ Audit(m)

Operator ==
  \/ \E c \in Conv :
       \/ \E status \in {"pending", "approved", "revoked"} : UpdatePairing(c, status)
       \/ FinishUpdate(c)
       \/ Age(c)
  \/ Archive \/ DeleteMessages \/ DeleteSessions

Next ==
  \/ \E m \in Message : Handler(m) \/ GateUnread(m) \/ Fault(m)
  \/ Operator
  \/ StatementFails
  \/ Crash

Spec == Init /\ [][Next]_vars

(***************************************************************************)
(* A thread that has the lock goes on, a handler that can go on does (its  *)
(* wait for a reply ends with the gateway's deadline at the latest), and   *)
(* parking_lot hands the mutex over fairly.  That messages arrive and      *)
(* operators act is not assumed.                                           *)
(***************************************************************************)
Fairness ==
  /\ \A m \in Message : WF_vars(pc[m] # "idle" /\ Handler(m))
  /\ \A c \in Conv : WF_vars(FinishUpdate(c))
  /\ WF_vars(DeleteSessions)

FairSpec == Spec /\ Fairness

-----------------------------------------------------------------------------
(* Properties. *)

TypeOK ==
  /\ pc \in [Message -> {"idle"} \cup Handling \cup Answered \cup Broken]
  /\ at \in [Message -> {0} \cup SessionId]
  /\ lock \in {Free, Pruner} \cup Message \cup Conv
  /\ sessions \in [Conv -> {NoRow} \cup Row]
  /\ logged \in [SessionId -> Nat]
  /\ pairing \in [Conv -> [status : Status, session : {0} \cup SessionId]]
  /\ created \in 0..Cardinality(Message)
  /\ updates \in 0..MaxUpdates /\ prunes \in 0..MaxPrunes
  /\ crashes \in 0..MaxCrashes /\ faults \in 0..MaxFaults
  /\ seen \in [Message -> SUBSET Status]
  /\ cut \subseteq SessionId /\ blind \subseteq Inbound

\* message_count of a session is the number of its session_messages rows,
\* whatever handlers and prunes do at the same time.  Only an interrupted
\* pair of statements makes them differ: each error or crash by one line, and
\* one inside prune_sessions, whose two deletes are no transaction, by the
\* lines of the rows it did not get to delete.
CountMatches ==
  lock = Free =>
    \A c \in Conv : sessions[c] # NoRow =>
      /\ logged[sessions[c].id] <= sessions[c].count + crashes + faults
      /\ sessions[c].count > logged[sessions[c].id] => sessions[c].id \in cut

\* What a caller was told is in the transcript: a message that got past its
\* first store calls left its line in its session, and a reply left a second.
\* Only in a session that a prune emptied and, after an error or a crash
\* between its two deletes, kept, lines may be missing.
AnswersLogged ==
  lock = Free =>
    \A c \in Conv : sessions[c] # NoRow /\ sessions[c].id \notin cut =>
      LET mine    == {m \in Message : at[m] = sessions[c].id}
          told    == {m \in mine : pc[m] \in Answered \cup {"cancelled"}}
          replied == {m \in mine : pc[m] = "replied"}
      IN  logged[sessions[c].id] >= Cardinality(told) + Cardinality(replied)

\* "Approve it ... before OpenPinch starts replying in this session": the gate
\* lets a direct message pass only on an approval in force while it was being
\* handled, and stops one only if some other state was or if the store could
\* not be read, which pairing_is_approved takes for "not approved".
Passed  == {"approved", "passed", "generating", "generated", "reply_inserted",
            "reply_counted", "failed", "replied", "degraded", "ignored", "cancelled"}
GateExact ==
  \A m \in Inbound : Policy[ConvOf[m]] = "gated" =>
    /\ pc[m] \in Passed => "approved" \in seen[m]
    /\ pc[m] \in {"unpaired", "pairing"} => seen[m] # {"approved"} \/ m \in blind

\* An approval is undone by the operator, or by the upsert of a message whose
\* handler had looked at the pairing before the approval came, or had failed
\* to read it: the upsert sets any row back to "pending".
ApprovalUndoneExplained ==
  [][\A c \in Conv :
       pairing[c].status = "approved" /\ pairing'[c].status # "approved" =>
         \/ updates' > updates
         \/ \E m \in Inbound :
              /\ ConvOf[m] = c /\ pc'[m] = "pairing" /\ "approved" \in seen[m]
              /\ seen[m] # {"approved"} \/ m \in blind]_vars

\* Nothing but a crash of the host frees a store lock that ensure_pairing
\* holds; until then every handler that needs the store waits.
Stuck == \E m \in Inbound : pc[m] = "pairing"

\* Every message a handler took up gets an answer or an error, unless a
\* handler is stuck in ensure_pairing.
AnsweredUnlessStuck ==
  \A m \in Message : pc[m] \in Handling ~> pc[m] \in Answered \cup Broken \/ Stuck

\* Every message a handler took up gets an answer or an error: a direct
\* message from a sender who has not paired is answered with "Pairing request
\* created. Approve it from the Control UI ...".
MessageAnswered ==
  \A m \in Message : pc[m] \in Handling ~> pc[m] \in Answered \cup Broken
=============================================================================
