--------------------------- MODULE MessagingProofs ---------------------------
(***************************************************************************)
(* Proofs of the safety properties of Messaging, for every set of          *)
(* messages and conversations, every policy and every bound.               *)
(***************************************************************************)
EXTENDS Messaging, FiniteSetTheorems, TLAPS

-----------------------------------------------------------------------------
(* The inductive invariant.                                                *)

\* Its line is in session_messages, and for Repeated its reply is, too.
Written  == {"inserted", "logged", "approved", "unpaired", "pairing", "passed", "generating",
             "generated", "reply_inserted", "reply_counted", "failed", "cancelled"} \cup Answered
Repeated == {"reply_inserted", "reply_counted", "replied"}
Holding  == {"inserted", "reply_inserted", "pairing"}

\* How far a message can be, and whose session it has.
Stages ==
  \A m \in Message :
    /\ m \in Outbound => pc[m] \in {"idle", "resolved", "inserted", "sent", "errored", "dropped"}
    /\ at[m] <= created
    /\ pc[m] \in Written \cup {"resolved"} => at[m] > 0
    /\ lock = m <=> pc[m] \in Holding

\* Session ids are drawn once: a row, a pairing and a transcript line name one
\* that was drawn, and no two rows name the same.
Ids ==
  /\ \A c \in Conv : sessions[c].id <= created
  /\ \A c, k \in Conv : sessions[c].id = sessions[k].id => c = k \/ sessions[c].id = 0
  /\ \A c \in Conv : pairing[c].session <= created
  /\ \A c \in Conv : pairing[c].status # "none" => pairing[c].session > 0
  /\ \A c \in Conv : lock = c => pairing[c].status # "none"
  /\ \A id \in SessionId : id > created => logged[id] = 0

Begun == {m \in Message : pc[m] \notin {"idle", "recorded"}}
DrawnByMessages == created <= Cardinality(Begun)

\* The pairing in force has been seen, and what stopped a message was no
\* approval or a store that could not be read.
SeenCurrent ==
  \A m \in Inbound :
    /\ pc[m] \in Handling => pairing[ConvOf[m]].status \in seen[m]
    /\ pc[m] \in {"unpaired", "pairing"}
         => m \in blind \/ \E s \in seen[m] : s # "approved"

\* The line that record_session_message has inserted and not counted.
Uncounted(id) ==
  IF \E m \in Message : lock = m /\ at[m] = id /\ pc[m] \in {"inserted", "reply_inserted"}
    THEN 1 ELSE 0

\* The prune that has the lock will delete the row of c.
Condemned(c) == lock = Pruner /\ sessions[c].old

Counts ==
  \A c \in Conv : sessions[c] # NoRow =>
    LET id == sessions[c].id IN
    /\ logged[id] <= sessions[c].count + Uncounted(id) + crashes + faults
    /\ sessions[c].count + Uncounted(id) > logged[id] => id \in cut \/ Condemned(c)

Lines(id)   == {m \in Message : at[m] = id /\ pc[m] \in Written}
Replies(id) == {m \in Message : at[m] = id /\ pc[m] \in Repeated}

Transcripts ==
  \A c \in Conv : sessions[c] # NoRow =>
    LET id == sessions[c].id IN
    \/ id \in cut \/ Condemned(c)
    \/ logged[id] >= Cardinality(Lines(id)) + Cardinality(Replies(id))

Shape == TypeOK /\ Stages /\ Ids /\ DrawnByMessages
IInv  == Shape /\ SeenCurrent /\ GateExact /\ Counts /\ Transcripts

-----------------------------------------------------------------------------
(* Facts about the sets and the rows.                                      *)

LEMMA FiniteMessages ==
  ASSUME NEW S \in SUBSET Message
  PROVE  IsFiniteSet(S) /\ Cardinality(S) \in Nat
BY MessagingAssumption, FS_Subset, FS_CardinalityType

\* While a message has not drawn its session, an id is left for it.
LEMMA IdLeft ==
  ASSUME Shape, NEW m \in Message, m \notin Begun
  PROVE  created + 1 \in SessionId
<1>1. Begun \in SUBSET Message /\ Begun \subseteq Message \ {m}
  BY DEF Begun
<1>2. Cardinality(Begun) <= Cardinality(Message \ {m}) /\ Cardinality(Begun) \in Nat
  BY <1>1, FiniteMessages, FS_Subset
<1>3. Cardinality(Message \ {m}) = Cardinality(Message) - 1 /\ Cardinality(Message) \in Nat
  BY MessagingAssumption, FS_RemoveElement, FiniteMessages
<1>4. created \in Nat /\ created <= Cardinality(Begun)
  BY FiniteMessages DEF Shape, TypeOK, DrawnByMessages
<1>. QED
  BY <1>2, <1>3, <1>4 DEF SessionId

\* A set of begun messages that only grows still bounds the ids.
LEMMA StillDrawn ==
  ASSUME Shape, Begun \subseteq Begun', created' = created
  PROVE  DrawnByMessages'
<1>1. Begun \in SUBSET Message /\ Begun' \in SUBSET Message
  BY DEF Begun
<1>2. /\ Cardinality(Begun) <= Cardinality(Begun')
      /\ Cardinality(Begun) \in Nat /\ Cardinality(Begun') \in Nat
  BY <1>1, FiniteMessages, FS_Subset
<1>. QED
  BY <1>2, FiniteMessages DEF Shape, TypeOK, DrawnByMessages

\* The rows that the statements of the store make of a row.
Counted(row)       == [row EXCEPT !.count = @ + 1, !.active = TRUE, !.old = FALSE]
Flagged(row, flag) == [row EXCEPT !.pending = flag, !.old = FALSE]
Aged(row)          == [row EXCEPT !.old = TRUE]
Archived(row)      == [row EXCEPT !.archived = TRUE, !.active = FALSE, !.old = FALSE]

LEMMA CountedRow ==
  ASSUME NEW row \in Row
  PROVE  /\ Counted(row) \in Row /\ Counted(row).id = row.id
         /\ Counted(row).count = row.count + 1 /\ Counted(row).old = FALSE
<1>1. row.count \in Nat /\ row.count + 1 \in Nat
  BY DEF Row
<1>2. /\ Counted(row).id = row.id /\ Counted(row).old = FALSE
      /\ Counted(row).count = row.count + 1
  BY DEF Row, Counted
<1>3. Counted(row) \in Row
  BY <1>1 DEF Row, Counted
<1>. QED
  BY <1>2, <1>3

LEMMA OtherRows ==
  ASSUME NEW row \in Row
  PROVE  /\ \A flag \in BOOLEAN :
              /\ Flagged(row, flag) \in Row /\ Flagged(row, flag).id = row.id
              /\ Flagged(row, flag).count = row.count /\ Flagged(row, flag).old = FALSE
         /\ Aged(row) \in Row /\ Aged(row).id = row.id /\ Aged(row).count = row.count
         /\ Archived(row) \in Row /\ Archived(row).id = row.id
         /\ Archived(row).count = row.count /\ Archived(row).old = FALSE
<1>1. ASSUME NEW flag \in BOOLEAN
      PROVE  /\ Flagged(row, flag) \in Row /\ Flagged(row, flag).id = row.id
             /\ Flagged(row, flag).count = row.count /\ Flagged(row, flag).old = FALSE
  BY DEF Row, Flagged
<1>2. Aged(row) \in Row /\ Aged(row).id = row.id /\ Aged(row).count = row.count
  BY DEF Row, Aged
<1>3. /\ Archived(row) \in Row /\ Archived(row).id = row.id
      /\ Archived(row).count = row.count /\ Archived(row).old = FALSE
  BY DEF Row, Archived
<1>. QED
  BY <1>1, <1>2, <1>3

\* An id from 1 on tells a row from no row.
LEMMA RowOrNone ==
  ASSUME NEW row \in {NoRow} \cup Row
  PROVE  /\ row \in Row => row # NoRow /\ row.id \in SessionId /\ row.id > 0 /\ row.count \in Nat
         /\ row \notin Row => row = NoRow /\ row.id = 0
         /\ row.id \in Nat
<1>1. NoRow.id = 0
  BY DEF NoRow
<1>2. \A r \in Row : r.id \in SessionId /\ r.id \in Nat /\ r.id > 0 /\ r.count \in Nat
  BY FiniteMessages DEF Row, SessionId
<1>. QED
  BY <1>1, <1>2

LEMMA DrawnRow ==
  ASSUME TypeOK, NEW c \in Conv
  PROVE  /\ sessions[c] \in {NoRow} \cup Row
         /\ sessions[c] \in Row <=> sessions[c] # NoRow
         /\ sessions[c].id > 0 <=> sessions[c] # NoRow
         /\ sessions[c].id \in Nat
<1>1. sessions[c] \in {NoRow} \cup Row
  BY DEF TypeOK
<1>. QED
  BY <1>1, RowOrNone

\* The second statement of record_session_message.
LEMMA CountEffect ==
  ASSUME TypeOK, NEW m \in Message, NEW from, NEW to, Count(m, from, to), at[m] > 0
  PROVE  /\ sessions' \in [Conv -> {NoRow} \cup Row]
         /\ \A c \in Conv :
              IF sessions[c].id = at[m]
                THEN /\ sessions[c] # NoRow /\ sessions'[c] # NoRow
                     /\ sessions'[c].id = at[m] /\ sessions'[c].count = sessions[c].count + 1
                     /\ sessions'[c].old = FALSE
                ELSE sessions'[c] = sessions[c]
<1>1. sessions' = [c \in Conv |-> IF sessions[c].id = at[m]
                                     THEN Counted(sessions[c])
                                     ELSE sessions[c]]
  BY DEF Count, UpdateRow, Counted
<1>2. ASSUME NEW c \in Conv, sessions[c].id = at[m]
      PROVE  /\ sessions[c] # NoRow /\ sessions'[c] \in Row /\ sessions'[c].id = at[m]
             /\ sessions'[c].count = sessions[c].count + 1 /\ sessions'[c].old = FALSE
  <2>1. sessions[c] \in Row
    BY <1>2, DrawnRow
  <2>2. sessions'[c] = Counted(sessions[c])
    BY <1>1, <1>2
  <2>. QED
    BY <1>2, <2>1, <2>2, CountedRow, DrawnRow
<1>3. ASSUME NEW c \in Conv, sessions[c].id # at[m]
      PROVE  sessions'[c] = sessions[c] /\ sessions'[c] \in {NoRow} \cup Row
  BY <1>1, <1>3 DEF TypeOK
<1>. QED
  BY <1>1, <1>2, <1>3, RowOrNone

\* clear_session_pending_pairing and the second statement of update_pairing.
LEMMA FlagEffect ==
  ASSUME TypeOK, NEW id, id > 0, NEW flag \in BOOLEAN, SetPending(id, flag)
  PROVE  /\ sessions' \in [Conv -> {NoRow} \cup Row]
         /\ \A c \in Conv :
              IF sessions[c].id = id
                THEN /\ sessions[c] # NoRow /\ sessions'[c] # NoRow
                     /\ sessions'[c].id = id /\ sessions'[c].count = sessions[c].count
                     /\ sessions'[c].old = FALSE
                ELSE sessions'[c] = sessions[c]
<1>1. sessions' = [c \in Conv |-> IF sessions[c].id = id
                                     THEN Flagged(sessions[c], flag)
                                     ELSE sessions[c]]
  BY DEF SetPending, UpdateRow, Flagged
<1>2. ASSUME NEW c \in Conv, sessions[c].id = id
      PROVE  /\ sessions[c] # NoRow /\ sessions'[c] \in Row /\ sessions'[c].id = id
             /\ sessions'[c].count = sessions[c].count /\ sessions'[c].old = FALSE
  <2>1. sessions[c] \in Row
    BY <1>2, DrawnRow
  <2>2. sessions'[c] = Flagged(sessions[c], flag)
    BY <1>1, <1>2
  <2>3. /\ Flagged(sessions[c], flag) \in Row /\ Flagged(sessions[c], flag).id = sessions[c].id
        /\ Flagged(sessions[c], flag).count = sessions[c].count
        /\ Flagged(sessions[c], flag).old = FALSE
    BY <2>1, OtherRows
  <2>. QED
    BY <1>2, <2>1, <2>2, <2>3, DrawnRow
<1>3. ASSUME NEW c \in Conv, sessions[c].id # id
      PROVE  sessions'[c] = sessions[c] /\ sessions'[c] \in {NoRow} \cup Row
  BY <1>1, <1>3 DEF TypeOK
<1>. QED
  BY <1>1, <1>2, <1>3, RowOrNone

\* Archive keeps every row and its lines, and their ids.
LEMMA ArchiveEffect ==
  ASSUME TypeOK, Archive
  PROVE  /\ sessions' \in [Conv -> {NoRow} \cup Row]
         /\ \A c \in Conv :
              /\ sessions'[c].id = sessions[c].id
              /\ sessions'[c] # NoRow => /\ sessions[c] # NoRow
                                          /\ sessions'[c].count = sessions[c].count
<1>1. sessions' = [c \in Conv |->
       IF sessions[c] # NoRow /\ sessions[c].old /\ sessions[c].active
         THEN Archived(sessions[c])
         ELSE sessions[c]]
  BY DEF Archive, Archived
<1>2. ASSUME NEW c \in Conv, sessions[c] # NoRow
      PROVE  /\ sessions'[c] \in Row /\ sessions'[c].id = sessions[c].id
             /\ sessions'[c].count = sessions[c].count
  <2>1. sessions[c] \in Row
    BY <1>2, DrawnRow
  <2>2. sessions'[c] \in {sessions[c], Archived(sessions[c])}
    BY <1>1
  <2>. QED
    BY <2>1, <2>2, OtherRows
<1>3. ASSUME NEW c \in Conv, sessions[c] = NoRow
      PROVE  sessions'[c] = NoRow
  BY <1>1, <1>3
<1>. QED
  BY <1>1, <1>2, <1>3, RowOrNone

-----------------------------------------------------------------------------
(* Shape.                                                                  *)

\* resolve_session_internal draws an id or finds one that was drawn.
LEMMA ResolveKept ==
  ASSUME Shape, NEW m \in Message, pc[m] \in {"idle", "recorded"}, Resolve(m)
  PROVE  Shape'
<1> USE DEF past
<1> DEFINE c == ConvOf[m]
<1>0. TypeOK /\ Stages /\ Ids /\ DrawnByMessages /\ c \in Conv /\ m \notin Begun
  BY MessagingAssumption DEF Shape, Begun
<1>1. /\ pc' = [pc EXCEPT ![m] = "resolved"] /\ lock = Free /\ lock' = lock /\ m # Free
      /\ UNCHANGED <<logged, pairing, updates, prunes, crashes, faults, seen, cut, blind>>
  BY MessagingAssumption DEF Resolve, Goto, env
<1>2. Begun' = Begun \cup {m}
  BY <1>0, <1>1 DEF Begun, TypeOK
<1>3. CASE sessions[c] # NoRow
  <2>1. at' = [at EXCEPT ![m] = sessions[c].id] /\ UNCHANGED <<sessions, created>>
    BY <1>3 DEF Resolve
  <2>2. sessions[c].id \in SessionId /\ sessions[c].id \in 1..created
    BY <1>0, <1>3, DrawnRow, RowOrNone DEF Ids, TypeOK
  <2>3. TypeOK'
    BY <1>0, <1>1, <2>1, <2>2 DEF TypeOK, Handling
  <2>4. Stages'
    BY <1>0, <1>1, <2>1, <2>2 DEF TypeOK, Stages, Written, Answered, Holding
  <2>5. Ids'
    BY <1>0, <1>1, <2>1 DEF Ids
  <2>. QED
    BY <1>2, <2>1, <2>3, <2>4, <2>5, StillDrawn DEF Shape
<1>4. CASE sessions[c] = NoRow
  <2>1. /\ created' = created + 1 /\ at' = [at EXCEPT ![m] = created + 1]
        /\ sessions' = [sessions EXCEPT ![c] = NewRow(created + 1)]
    BY <1>4 DEF Resolve
  <2>2. created \in Nat /\ created + 1 \in SessionId
    BY <1>0, IdLeft, FiniteMessages DEF TypeOK
  <2>3. NewRow(created + 1) \in Row /\ NewRow(created + 1).id = created + 1
    BY <2>2 DEF NewRow, Row
  <2>4. created' \in 0..Cardinality(Message)
    BY <2>1, <2>2, FiniteMessages DEF SessionId
  <2>5. TypeOK'
    BY <1>0, <1>1, <2>1, <2>2, <2>3, <2>4 DEF TypeOK, Handling
  <2>6. Stages'
    BY <1>0, <1>1, <2>1, <2>2, FiniteMessages
    DEF TypeOK, Stages, Written, Answered, Holding, SessionId
  <2>7. Ids'
    <3>1. \A k \in Conv : /\ sessions[k].id <= created /\ sessions[k].id \in Nat
                         /\ pairing[k].session <= created /\ pairing[k].session \in Nat
      BY <1>0, DrawnRow, FiniteMessages DEF Ids, TypeOK, SessionId
    <3>2. \A k \in Conv : sessions'[k].id = IF k = c THEN created + 1 ELSE sessions[k].id
      BY <1>0, <2>1, <2>3 DEF TypeOK
    <3>3. \A k \in Conv : sessions'[k].id <= created' /\ pairing[k].session <= created'
      BY <2>1, <2>2, <3>1, <3>2
    <3>4. \A k, l \in Conv : sessions'[k].id = sessions'[l].id => k = l \/ sessions'[k].id = 0
      BY <1>0, <2>2, <3>1, <3>2 DEF Ids
    <3>5. \A id \in SessionId : id > created' => logged[id] = 0
      BY <1>0, <2>1, <2>2, FiniteMessages DEF Ids, SessionId
    <3>. QED
      BY <1>0, <1>1, <3>3, <3>4, <3>5 DEF Ids
  <2>8. DrawnByMessages'
    <3>1. Begun \in SUBSET Message /\ Cardinality(Begun \cup {m}) = Cardinality(Begun) + 1
      BY <1>0, FiniteMessages, FS_AddElement DEF Begun
    <3>. QED
      BY <1>0, <1>2, <2>1, <2>2, <3>1, FiniteMessages DEF DrawnByMessages
  <2>. QED
    BY <2>5, <2>6, <2>7, <2>8 DEF Shape
<1>. QED
  BY <1>3, <1>4

LEMMA SeveredIds ==
  ASSUME TypeOK
  PROVE  Severed \subseteq SessionId
BY DrawnRow, RowOrNone DEF Severed

LEMMA ShapeKept ==
  ASSUME Shape, Next
  PROVE  Shape'
<1> USE MessagingAssumption DEF Handling, Answered, Broken, past
<1>0. TypeOK /\ Stages /\ Ids /\ DrawnByMessages
  BY DEF Shape
<1>1. ASSUME NEW m \in Message, Receive(m) PROVE Shape'
  <2>1. TypeOK'
    BY <1>0, <1>1 DEF TypeOK, Receive, Goto, tables, env
  <2>2. Stages'
    BY <1>0, <1>1 DEF Stages, Written, Holding, Receive, Goto, tables
  <2>3. Ids'
    BY <1>0, <1>1 DEF Ids, Receive, tables
  <2>4. Begun \subseteq Begun' /\ created' = created
    BY <1>0, <1>1 DEF Begun, Receive, Goto, tables
  <2>. QED
    BY <2>1, <2>2, <2>3, <2>4, StillDrawn DEF Shape
<1>2. ASSUME NEW m \in Message, ResolveInbound(m) PROVE Shape'
  BY <1>2, ResolveKept DEF ResolveInbound
<1>3. ASSUME NEW m \in Message, ResolveOutbound(m) PROVE Shape'
  <2>1. CASE Resolve(m)
    BY <1>3, <2>1, ResolveKept DEF ResolveOutbound
  <2>2. CASE ~Resolve(m)
    <3>1. PICK id \in 1..created :
            /\ IF Live(id) THEN Goto(m, "resolved") /\ at' = [at EXCEPT ![m] = id]
                           ELSE Goto(m, "errored") /\ UNCHANGED at
            /\ UNCHANGED <<lock, tables, env, past>>
      BY <1>3, <2>2 DEF ResolveOutbound
    <3>2. /\ pc[m] = "idle" /\ m \in Outbound /\ lock = Free /\ m # Free
          /\ UNCHANGED <<lock, sessions, logged, pairing, created, updates, prunes, crashes,
                         faults, seen, cut, blind>>
          /\ pc' \in {[pc EXCEPT ![m] = "resolved"], [pc EXCEPT ![m] = "errored"]}
          /\ pc' = [pc EXCEPT ![m] = "errored"] => at' = at
          /\ at' \in {at, [at EXCEPT ![m] = id]} /\ (pc'[m] = "resolved" => at'[m] = id)
      BY <1>0, <1>3, <3>1 DEF ResolveOutbound, Goto, tables, env, TypeOK
    <3>3. id \in SessionId
      BY <1>0, FiniteMessages DEF TypeOK, SessionId
    <3>4. TypeOK'
      <4>1. pc' \in [Message -> {"idle"} \cup Handling \cup Answered \cup Broken]
        BY <1>0, <3>2 DEF TypeOK
      <4>2. at' \in [Message -> {0} \cup SessionId]
        BY <1>0, <3>2, <3>3 DEF TypeOK
      <4>. QED
        BY <1>0, <3>2, <4>1, <4>2 DEF TypeOK
    <3>5. Stages'
      BY <1>0, <3>2 DEF TypeOK, Stages, Written, Holding
    <3>6. Ids'
      BY <1>0, <3>2 DEF Ids
    <3>7. Begun \subseteq Begun' /\ created' = created
      BY <1>0, <3>2 DEF TypeOK, Begun
    <3>. QED
      BY <3>4, <3>5, <3>6, <3>7, StillDrawn DEF Shape
  <2>. QED
    BY <2>1, <2>2
<1>4. ASSUME NEW m \in Message, InsertLine(m) PROVE Shape'
  <2>a. at[m] \in SessionId
    BY <1>0, <1>4 DEF TypeOK, Stages, InsertLine, Insert
  <2>1. TypeOK'
    BY <1>0, <1>4, <2>a DEF TypeOK, InsertLine, Insert, Goto, env
  <2>2. Stages'
    BY <1>0, <1>4, <2>a DEF TypeOK, Stages, Holding, InsertLine, Insert, Goto
  <2>3. Ids'
    BY <1>0, <1>4, <2>a DEF TypeOK, Stages, Ids, SessionId, InsertLine, Insert
  <2>4. Begun \subseteq Begun' /\ created' = created
    BY <1>0, <1>4, <2>a DEF Begun, InsertLine, Insert, Goto
  <2>. QED
    BY <2>1, <2>2, <2>3, <2>4, StillDrawn DEF Shape
<1>5. ASSUME NEW m \in Message, CountLine(m) PROVE Shape'
  <2>a. at[m] > 0
    BY <1>0, <1>5 DEF Stages, Written, CountLine, Count
  <2>b. /\ sessions' \in [Conv -> {NoRow} \cup Row]
        /\ \A k \in Conv : sessions'[k].id = sessions[k].id
    BY <1>0, <1>5, <2>a, CountEffect DEF CountLine
  <2>1. TypeOK'
    BY <1>0, <1>5, <2>b DEF TypeOK, Count, CountLine, Goto, env
  <2>2. Stages'
    BY <1>0, <1>5, <2>b DEF TypeOK, Stages, Written, Holding, CountLine, Count, Goto
  <2>3. Ids'
    BY <1>0, <1>5, <2>b DEF Ids, CountLine, Count
  <2>4. Begun \subseteq Begun' /\ created' = created
    BY <1>0, <1>5, <2>b DEF Begun, CountLine, Count, Goto
  <2>. QED
    BY <2>1, <2>2, <2>3, <2>4, StillDrawn DEF Shape
<1>6. ASSUME NEW m \in Message, Gate(m) PROVE Shape'
  <2>a. /\ \E to \in {"passed", "approved", "unpaired"} : pc' = [pc EXCEPT ![m] = to]
        /\ pc[m] = "logged"
        /\ UNCHANGED <<at, lock, sessions, logged, pairing, created, updates, prunes, crashes,
                       faults, seen, cut, blind>>
    BY <1>6 DEF Gate, Goto, tables, env
  <2>1. TypeOK'
    BY <1>0, <2>a DEF TypeOK
  <2>2. Stages'
    BY <1>0, <2>a DEF Stages, Written, Holding
  <2>3. Ids'
    BY <1>0, <2>a DEF Ids
  <2>4. Begun \subseteq Begun' /\ created' = created
    BY <1>0, <2>a DEF Begun
  <2>. QED
    BY <2>1, <2>2, <2>3, <2>4, StillDrawn DEF Shape
<1>7. ASSUME NEW m \in Message, ClearPending(m) PROVE Shape'
  <2>a. at[m] > 0
    BY <1>0, <1>7 DEF Stages, Written, ClearPending
  <2>b. /\ sessions' \in [Conv -> {NoRow} \cup Row]
        /\ \A k \in Conv : sessions'[k].id = sessions[k].id
    BY <1>0, <1>7, <2>a, FlagEffect DEF ClearPending
  <2>1. TypeOK'
    BY <1>0, <1>7, <2>b DEF TypeOK, ClearPending, Goto, env
  <2>2. Stages'
    BY <1>0, <1>7, <2>b DEF Stages, Written, Holding, ClearPending, Goto
  <2>3. Ids'
    BY <1>0, <1>7, <2>b DEF Ids, ClearPending
  <2>4. Begun \subseteq Begun' /\ created' = created
    BY <1>0, <1>7, <2>b DEF Begun, ClearPending, Goto
  <2>. QED
    BY <2>1, <2>2, <2>3, <2>4, StillDrawn DEF Shape
<1>8. ASSUME NEW m \in Message, UpsertPairing(m) PROVE Shape'
  <2>a. at[m] > 0 /\ at[m] <= created /\ ConvOf[m] \in Conv
    BY <1>0, <1>8 DEF Stages, Written, UpsertPairing
  <2>b. /\ \A k \in Conv :
             pairing'[k] = IF k = ConvOf[m] THEN [status |-> "pending", session |-> at[m]]
                                            ELSE pairing[k]
        /\ UNCHANGED <<sessions, logged, created>> /\ lock' = m
    BY <1>0, <1>8 DEF TypeOK, UpsertPairing
  <2>1. TypeOK'
    BY <1>0, <1>8 DEF TypeOK, Status, UpsertPairing, Goto, env
  <2>2. Stages'
    BY <1>0, <1>8 DEF TypeOK, Stages, Written, Holding, UpsertPairing, Goto
  <2>3. Ids'
    BY <1>0, <2>a, <2>b DEF Ids
  <2>4. Begun \subseteq Begun' /\ created' = created
    BY <1>0, <1>8 DEF Begun, UpsertPairing, Goto
  <2>. QED
    BY <2>1, <2>2, <2>3, <2>4, StillDrawn DEF Shape
<1>9. ASSUME NEW m \in Message, Filter(m) PROVE Shape'
  <2>1. TypeOK'
    BY <1>0, <1>9 DEF TypeOK, Filter, Goto, tables, env
  <2>2. Stages'
    BY <1>0, <1>9 DEF TypeOK, Stages, Written, Holding, Filter, Goto, tables
  <2>3. Ids'
    BY <1>0, <1>9 DEF Ids, Filter, tables
  <2>4. Begun \subseteq Begun' /\ created' = created
    BY <1>0, <1>9 DEF TypeOK, Begun, Filter, Goto, tables
  <2>. QED
    BY <2>1, <2>2, <2>3, <2>4, StillDrawn DEF Shape
<1>10. ASSUME NEW m \in Message, Generate(m) PROVE Shape'
  <2>1. TypeOK'
    BY <1>0, <1>10 DEF TypeOK, Generate, Goto, tables, env
  <2>2. Stages'
    BY <1>0, <1>10 DEF Stages, Written, Holding, Generate, Goto, tables
  <2>3. Ids'
    BY <1>0, <1>10 DEF Ids, Generate, tables
  <2>4. Begun \subseteq Begun' /\ created' = created
    BY <1>0, <1>10 DEF Begun, Generate, Goto, tables
  <2>. QED
    BY <2>1, <2>2, <2>3, <2>4, StillDrawn DEF Shape
<1>11. ASSUME NEW m \in Message, Cancel(m) PROVE Shape'
  <2>1. TypeOK'
    BY <1>0, <1>11 DEF TypeOK, Cancel, Goto, tables, env
  <2>2. Stages'
    BY <1>0, <1>11 DEF Stages, Written, Holding, Cancel, Goto, tables
  <2>3. Ids'
    BY <1>0, <1>11 DEF Ids, Cancel, tables
  <2>4. Begun \subseteq Begun' /\ created' = created
    BY <1>0, <1>11 DEF Begun, Cancel, Goto, tables
  <2>. QED
    BY <2>1, <2>2, <2>3, <2>4, StillDrawn DEF Shape
<1>12. ASSUME NEW m \in Message, InsertReply(m) PROVE Shape'
  <2>a. at[m] \in SessionId
    BY <1>0, <1>12 DEF TypeOK, Stages, Written, InsertReply, Insert
  <2>1. TypeOK'
    BY <1>0, <1>12, <2>a DEF TypeOK, InsertReply, Insert, Goto, env
  <2>2. Stages'
    BY <1>0, <1>12, <2>a
    DEF TypeOK, Stages, Written, Holding, InsertReply, Insert, Goto
  <2>3. Ids'
    BY <1>0, <1>12, <2>a
    DEF TypeOK, Stages, Ids, SessionId, NoRow, InsertReply, Insert
  <2>4. Begun \subseteq Begun' /\ created' = created
    BY <1>0, <1>12, <2>a DEF Begun, InsertReply, Insert, Goto
  <2>. QED
    BY <2>1, <2>2, <2>3, <2>4, StillDrawn DEF Shape
<1>13. ASSUME NEW m \in Message, CountReply(m) PROVE Shape'
  <2>a. at[m] > 0
    BY <1>0, <1>13 DEF Stages, Written, CountReply, Count
  <2>b. /\ sessions' \in [Conv -> {NoRow} \cup Row]
        /\ \A k \in Conv : sessions'[k].id = sessions[k].id
    BY <1>0, <1>13, <2>a, CountEffect DEF CountReply
  <2>1. TypeOK'
    BY <1>0, <1>13, <2>b DEF TypeOK, Count, CountReply, Goto, env
  <2>2. Stages'
    BY <1>0, <1>13, <2>b
    DEF TypeOK, Stages, Written, Holding, CountReply, Count, Goto
  <2>3. Ids'
    BY <1>0, <1>13, <2>b DEF Ids, CountReply, Count
  <2>4. Begun \subseteq Begun' /\ created' = created
    BY <1>0, <1>13, <2>b DEF Begun, CountReply, Count, Goto
  <2>. QED
    BY <2>1, <2>2, <2>3, <2>4, StillDrawn DEF Shape
<1>14. ASSUME NEW m \in Message, Audit(m) PROVE Shape'
  <2>1. TypeOK'
    BY <1>0, <1>14 DEF TypeOK, Audit, Goto, tables, env
  <2>2. Stages'
    BY <1>0, <1>14 DEF Stages, Written, Holding, Audit, Goto, tables
  <2>3. Ids'
    BY <1>0, <1>14 DEF Ids, Audit, tables
  <2>4. Begun \subseteq Begun' /\ created' = created
    BY <1>0, <1>14 DEF Begun, Audit, Goto, tables
  <2>. QED
    BY <2>1, <2>2, <2>3, <2>4, StillDrawn DEF Shape
<1>15. ASSUME NEW m \in Message, Fault(m) PROVE Shape'
  <2>1. TypeOK'
    BY <1>0, <1>15 DEF TypeOK, Fault, Goto, tables
  <2>2. Stages'
    BY <1>0, <1>15 DEF TypeOK, Stages, Written, Holding, Fault, Goto, tables
  <2>3. Ids'
    BY <1>0, <1>15 DEF Ids, Fault, tables
  <2>4. Begun \subseteq Begun' /\ created' = created
    BY <1>0, <1>15 DEF Begun, Fault, Goto, tables
  <2>. QED
    BY <2>1, <2>2, <2>3, <2>4, StillDrawn DEF Shape
<1>16. ASSUME NEW c \in Conv, 
                NEW status \in {"pending", "approved", "revoked"},
                UpdatePairing(c, status)
      PROVE  Shape'
  <2>1. TypeOK'
    BY <1>0, <1>16 DEF TypeOK, Ids, Status, Row, UpdatePairing
  <2>2. Stages'
    BY <1>0, <1>16 DEF Stages, UpdatePairing
  <2>3. Ids'
    BY <1>0, <1>16 DEF Ids, UpdatePairing
  <2>4. Begun \subseteq Begun' /\ created' = created
    BY <1>0, <1>16 DEF Begun, UpdatePairing
  <2>. QED
    BY <2>1, <2>2, <2>3, <2>4, StillDrawn DEF Shape
<1>17. ASSUME NEW c \in Conv, FinishUpdate(c) PROVE Shape'
  <2>a. pairing[c].session > 0
    BY <1>0, <1>17 DEF Ids, FinishUpdate
  <2>b. /\ sessions' \in [Conv -> {NoRow} \cup Row]
        /\ \A k \in Conv : sessions'[k].id = sessions[k].id
    BY <1>0, <1>17, <2>a, FlagEffect DEF FinishUpdate
  <2>1. TypeOK'
    BY <1>0, <1>17, <2>b DEF TypeOK, FinishUpdate, env
  <2>2. Stages'
    BY <1>0, <1>17, <2>b DEF Stages, FinishUpdate
  <2>3. Ids'
    BY <1>0, <1>17, <2>b DEF Ids, FinishUpdate
  <2>4. Begun \subseteq Begun' /\ created' = created
    BY <1>0, <1>17, <2>b DEF Begun, FinishUpdate
  <2>. QED
    BY <2>1, <2>2, <2>3, <2>4, StillDrawn DEF Shape
<1>18. ASSUME NEW c \in Conv, Age(c) PROVE Shape'
  <2>b. /\ sessions' \in [Conv -> {NoRow} \cup Row]
        /\ \A k \in Conv : sessions'[k].id = sessions[k].id
    <3>1. sessions' = [sessions EXCEPT ![c] = Aged(sessions[c])] /\ sessions[c] \in Row
      BY <1>0, <1>18, DrawnRow DEF Age, Aged
    <3>2. Aged(sessions[c]) \in Row /\ Aged(sessions[c]).id = sessions[c].id
      BY <3>1, OtherRows
    <3>. QED
      BY <1>0, <3>1, <3>2 DEF TypeOK
  <2>1. TypeOK'
    BY <1>0, <1>18, <2>b DEF TypeOK, Age, env
  <2>2. Stages'
    BY <1>0, <1>18, <2>b DEF Stages, Age
  <2>3. Ids'
    BY <1>0, <1>18, <2>b DEF Ids, Age
  <2>4. Begun \subseteq Begun' /\ created' = created
    BY <1>0, <1>18, <2>b DEF Begun, Age
  <2>. QED
    BY <2>1, <2>2, <2>3, <2>4, StillDrawn DEF Shape
<1>19. ASSUME Archive PROVE Shape'
  <2>b. /\ sessions' \in [Conv -> {NoRow} \cup Row]
        /\ \A k \in Conv : sessions'[k].id = sessions[k].id
    BY <1>0, <1>19, ArchiveEffect
  <2>c. /\ UNCHANGED <<pc, at, lock, logged, pairing, created, updates, crashes, faults, seen, cut, blind>>
        /\ prunes < MaxPrunes /\ prunes' = prunes + 1
    BY <1>19 DEF Archive
  <2>d. prunes' \in 0..MaxPrunes
    BY <1>0, <2>c DEF TypeOK
  <2>1. TypeOK'
    BY <1>0, <2>b, <2>c, <2>d DEF TypeOK
  <2>2. Stages'
    BY <1>0, <2>b, <2>c, <2>d DEF Stages
  <2>3. Ids'
    BY <1>0, <2>b, <2>c, <2>d DEF Ids
  <2>4. Begun \subseteq Begun' /\ created' = created
    BY <1>0, <2>b, <2>c, <2>d DEF Begun
  <2>. QED
    BY <2>1, <2>2, <2>3, <2>4, StillDrawn DEF Shape
<1>20. ASSUME DeleteMessages PROVE Shape'
  <2>1. TypeOK'
    BY <1>0, <1>20 DEF TypeOK, DeleteMessages
  <2>2. Stages'
    BY <1>0, <1>20 DEF Stages, DeleteMessages
  <2>3. Ids'
    BY <1>0, <1>20 DEF Ids, DeleteMessages
  <2>4. Begun \subseteq Begun' /\ created' = created
    BY <1>0, <1>20 DEF Begun, DeleteMessages
  <2>. QED
    BY <2>1, <2>2, <2>3, <2>4, StillDrawn DEF Shape
<1>21. ASSUME DeleteSessions PROVE Shape'
  <2>1. TypeOK'
    BY <1>0, <1>21 DEF TypeOK, DeleteSessions, env
  <2>2. Stages'
    BY <1>0, <1>21 DEF Stages, DeleteSessions
  <2>3. Ids'
    BY <1>0, <1>21 DEF TypeOK, Ids, NoRow, DeleteSessions
  <2>4. Begun \subseteq Begun' /\ created' = created
    BY <1>0, <1>21 DEF Begun, DeleteSessions
  <2>. QED
    BY <2>1, <2>2, <2>3, <2>4, StillDrawn DEF Shape
<1>22. ASSUME Crash PROVE Shape'
  <2>1. TypeOK'
    BY <1>0, <1>22, SeveredIds DEF TypeOK, Crash, tables
  <2>2. Stages'
    BY <1>0, <1>22 DEF Stages, Written, Holding, Crash, tables
  <2>3. Ids'
    BY <1>0, <1>22 DEF Ids, Crash, tables
  <2>4. Begun \subseteq Begun' /\ created' = created
    BY <1>0, <1>22 DEF Begun, Crash, tables
  <2>. QED
    BY <2>1, <2>2, <2>3, <2>4, StillDrawn DEF Shape
<1>23. ASSUME NEW m \in Message, GateUnread(m) PROVE Shape'
  <2>a. /\ pc' = [pc EXCEPT ![m] = "unpaired"] /\ pc[m] = "logged" /\ m \in Inbound
        /\ faults' = faults + 1 /\ faults < MaxFaults /\ blind' = blind \cup {m}
        /\ UNCHANGED <<at, lock, sessions, logged, pairing, created, updates, prunes, crashes,
                       seen, cut>>
    BY <1>0, <1>23 DEF GateUnread, Goto, tables, Stages, Message
  <2>1. TypeOK'
    BY <1>0, <2>a DEF TypeOK
  <2>2. Stages'
    BY <1>0, <2>a DEF Stages, Written, Holding
  <2>3. Ids'
    BY <1>0, <2>a DEF Ids
  <2>4. Begun \subseteq Begun' /\ created' = created
    BY <1>0, <2>a DEF Begun
  <2>. QED
    BY <2>1, <2>2, <2>3, <2>4, StillDrawn DEF Shape
<1>24. ASSUME StatementFails PROVE Shape'
  <2>a. /\ lock \in {Pruner} \cup Conv /\ lock' = Free /\ cut' = cut \cup Severed
        /\ faults' = faults + 1 /\ faults < MaxFaults
        /\ UNCHANGED <<pc, at, sessions, logged, pairing, created, updates, prunes, crashes,
                       seen, blind>>
    BY <1>24 DEF StatementFails, tables
  <2>1. TypeOK'
    BY <1>0, <2>a, SeveredIds DEF TypeOK
  <2>2. Stages'
    BY <1>0, <2>a DEF Stages
  <2>3. Ids'
    BY <1>0, <2>a DEF Ids
  <2>4. Begun \subseteq Begun' /\ created' = created
    BY <1>0, <2>a DEF Begun
  <2>. QED
    BY <2>1, <2>2, <2>3, <2>4, StillDrawn DEF Shape
<1>. QED
  BY <1>1, <1>2, <1>3, <1>4, <1>5, <1>6, <1>7, <1>8, <1>9, <1>10, <1>11, <1>12,
     <1>13, <1>14, <1>15, <1>16, <1>17, <1>18, <1>19, <1>20, <1>21, <1>22,
     <1>23, <1>24
  DEF Next, Handler, Operator

-----------------------------------------------------------------------------
(* The gate.                                                               *)

\* A step that changes no pairing and takes no message past the gate.
LEMMA SeenSame ==
  ASSUME SeenCurrent, GateExact, UNCHANGED <<pairing, seen, blind>>,
         \A m \in Inbound :
           /\ pc'[m] \in Handling => pc[m] \in Handling
           /\ pc'[m] \in Passed => pc[m] \in Passed
           /\ pc'[m] \in {"unpaired", "pairing"} => pc[m] \in {"unpaired", "pairing"}
  PROVE  SeenCurrent' /\ GateExact'
BY DEF SeenCurrent, GateExact

\* A step that changes a pairing is seen by every handler of its conversation.
LEMMA SeenChange ==
  ASSUME TypeOK, SeenCurrent, GateExact, NEW c \in Conv, NEW s \in Status,
         \A k \in Conv : pairing'[k].status = IF k = c THEN s ELSE pairing[k].status,
         seen' = [n \in Message |-> IF pc[n] \in Handling /\ ConvOf[n] = c
                                       THEN seen[n] \cup {s} ELSE seen[n]],
         blind' = blind,
         \A m \in Inbound :
           /\ pc'[m] \in Handling => pc[m] \in Handling
           /\ pc'[m] \in Passed => pc[m] \in Passed
           /\ pc'[m] \in {"unpaired", "pairing"} => pc[m] \in {"unpaired", "pairing"}
  PROVE  SeenCurrent' /\ GateExact'
<1>1. \A m \in Inbound : m \in Message /\ ConvOf[m] \in Conv /\ seen[m] \subseteq seen'[m]
  BY MessagingAssumption DEF Message
<1>2. \A m \in Inbound : pc[m] \in {"unpaired", "pairing"} =>
        m \in blind \/ \E q \in seen[m] : q # "approved"
  BY DEF SeenCurrent
<1>3. SeenCurrent'
  <2> SUFFICES ASSUME NEW m \in Inbound
               PROVE  /\ pc'[m] \in Handling => pairing'[ConvOf[m]].status \in seen'[m]
                      /\ pc'[m] \in {"unpaired", "pairing"} =>
                           m \in blind' \/ \E q \in seen'[m] : q # "approved"
    BY DEF SeenCurrent
  <2>1. ASSUME pc'[m] \in Handling PROVE pairing'[ConvOf[m]].status \in seen'[m]
    BY <1>1, <2>1 DEF SeenCurrent
  <2>. QED
    BY <1>1, <1>2, <2>1
<1>4. GateExact'
  BY <1>1, <1>2 DEF GateExact
<1>. QED
  BY <1>3, <1>4

LEMMA SeenKept ==
  ASSUME Shape, SeenCurrent, GateExact, Next
  PROVE  SeenCurrent' /\ GateExact'
<1> USE MessagingAssumption DEF Handling, Answered, Broken, past
<1>0. TypeOK /\ Stages
  BY DEF Shape
<1>1. ASSUME NEW m \in Message, Receive(m)
      PROVE  SeenCurrent' /\ GateExact'
  <2>1. /\ pc' = [pc EXCEPT ![m] = "recorded"] /\ pairing' = pairing /\ blind' = blind
        /\ seen' = [seen EXCEPT ![m] = {pairing[ConvOf[m]].status}]
    BY <1>1 DEF Receive, Goto, tables
  <2>2. SeenCurrent'
    BY <1>0, <2>1 DEF TypeOK, SeenCurrent
  <2>3. GateExact'
    BY <1>0, <2>1 DEF TypeOK, GateExact, Passed
  <2>. QED
    BY <2>2, <2>3
<1>2. ASSUME NEW m \in Message, ResolveInbound(m)
      PROVE  SeenCurrent' /\ GateExact'
  <2>1. UNCHANGED <<pairing, seen, blind>>
    BY <1>2 DEF ResolveInbound, Resolve
  <2>2. \A n \in Inbound :
          /\ pc'[n] \in Handling => pc[n] \in Handling
          /\ pc'[n] \in Passed => pc[n] \in Passed
          /\ pc'[n] \in {"unpaired", "pairing"} => pc[n] \in {"unpaired", "pairing"}
    BY <1>0, <1>2 DEF Passed, ResolveInbound, Resolve, Goto
  <2>. QED
    BY <2>1, <2>2, SeenSame
<1>3. ASSUME NEW m \in Message, ResolveOutbound(m)
      PROVE  SeenCurrent' /\ GateExact'
  <2>1. UNCHANGED <<pairing, seen, blind>>
    BY <1>3 DEF ResolveOutbound, Resolve, tables
  <2>2. \A n \in Inbound :
          /\ pc'[n] \in Handling => pc[n] \in Handling
          /\ pc'[n] \in Passed => pc[n] \in Passed
          /\ pc'[n] \in {"unpaired", "pairing"} => pc[n] \in {"unpaired", "pairing"}
    <3>1. m \in Outbound /\ m \notin Inbound /\ \E to \in {"resolved", "errored"} : Goto(m, to)
      BY <1>3 DEF ResolveOutbound, Resolve
    <3>2. \A n \in Inbound : n \in Message /\ pc'[n] = pc[n]
      BY <1>0, <3>1 DEF Goto, Message
    <3>. QED
      BY <3>2
  <2>. QED
    BY <2>1, <2>2, SeenSame
<1>4. ASSUME NEW m \in Message, InsertLine(m)
      PROVE  SeenCurrent' /\ GateExact'
  <2>1. UNCHANGED <<pairing, seen, blind>>
    BY <1>4 DEF InsertLine, Insert
  <2>2. \A n \in Inbound :
          /\ pc'[n] \in Handling => pc[n] \in Handling
          /\ pc'[n] \in Passed => pc[n] \in Passed
          /\ pc'[n] \in {"unpaired", "pairing"} => pc[n] \in {"unpaired", "pairing"}
    BY <1>0, <1>4 DEF Passed, InsertLine, Insert, Goto
  <2>. QED
    BY <2>1, <2>2, SeenSame
<1>5. ASSUME NEW m \in Message, CountLine(m)
      PROVE  SeenCurrent' /\ GateExact'
  <2>1. UNCHANGED <<pairing, seen, blind>>
    BY <1>5 DEF CountLine, Count
  <2>2. \A n \in Inbound :
          /\ pc'[n] \in Handling => pc[n] \in Handling
          /\ pc'[n] \in Passed => pc[n] \in Passed
          /\ pc'[n] \in {"unpaired", "pairing"} => pc[n] \in {"unpaired", "pairing"}
    BY <1>0, <1>5 DEF Passed, CountLine, Count, Goto
  <2>. QED
    BY <2>1, <2>2, SeenSame
<1>6. ASSUME NEW m \in Message, Gate(m)
      PROVE  SeenCurrent' /\ GateExact'
  <2>1. UNCHANGED <<pairing, seen, blind>>
    BY <1>6 DEF Gate, tables
  <2>2. \/ pc' = [pc EXCEPT ![m] = "passed"] /\ Policy[ConvOf[m]] = "open"
        \/ pc' = [pc EXCEPT ![m] = "approved"] /\ Policy[ConvOf[m]] = "allowlisted"
        \/ pc' = [pc EXCEPT ![m] = "approved"] /\ pairing[ConvOf[m]].status = "approved"
        \/ pc' = [pc EXCEPT ![m] = "unpaired"] /\ pairing[ConvOf[m]].status # "approved"
    BY <1>6 DEF Gate, Goto
  <2>3. pc[m] = "logged"
    BY <1>6 DEF Gate
  <2>4. ASSUME NEW n \in Inbound
        PROVE  /\ pc'[n] \in Handling => pairing[ConvOf[n]].status \in seen[n]
               /\ pc'[n] \in {"unpaired", "pairing"} =>
                    n \in blind \/ \E s \in seen[n] : s # "approved"
               /\ pc'[n] \in Passed /\ Policy[ConvOf[n]] = "gated" => "approved" \in seen[n]
    <3>1. n \in Message
      BY DEF Message
    <3>2. CASE n # m
      <4>1. pc'[n] = pc[n]
        BY <1>0, <2>2, <3>1, <3>2 DEF TypeOK
      <4>. QED
        BY <4>1 DEF SeenCurrent, GateExact
    <3>3. CASE n = m
      <4>1. pairing[ConvOf[n]].status \in seen[n]
        BY <2>3, <3>3 DEF SeenCurrent
      <4>2. \/ pc'[n] = "passed" /\ Policy[ConvOf[n]] = "open"
            \/ pc'[n] = "approved" /\ Policy[ConvOf[n]] = "allowlisted"
            \/ pc'[n] = "approved" /\ pairing[ConvOf[n]].status = "approved"
            \/ pc'[n] = "unpaired" /\ pairing[ConvOf[n]].status # "approved"
        BY <1>0, <2>2, <3>1, <3>3 DEF TypeOK
      <4>. QED
        BY <4>1, <4>2 DEF Passed
    <3>. QED
      BY <3>2, <3>3
  <2>5. SeenCurrent'
    BY <2>1, <2>4 DEF SeenCurrent
  <2>6. GateExact'
    <3>1. \A n \in Inbound : pc'[n] \in {"unpaired", "pairing"} =>
            n \in blind \/ seen[n] # {"approved"}
      BY <2>4
    <3>. QED
      BY <2>1, <2>4, <3>1 DEF GateExact
  <2>. QED
    BY <2>5, <2>6
<1>7. ASSUME NEW m \in Message, ClearPending(m)
      PROVE  SeenCurrent' /\ GateExact'
  <2>1. UNCHANGED <<pairing, seen, blind>>
    BY <1>7 DEF ClearPending
  <2>2. \A n \in Inbound :
          /\ pc'[n] \in Handling => pc[n] \in Handling
          /\ pc'[n] \in Passed => pc[n] \in Passed
          /\ pc'[n] \in {"unpaired", "pairing"} => pc[n] \in {"unpaired", "pairing"}
    BY <1>0, <1>7 DEF Passed, ClearPending, Goto
  <2>. QED
    BY <2>1, <2>2, SeenSame
<1>8. ASSUME NEW m \in Message, UpsertPairing(m)
      PROVE  SeenCurrent' /\ GateExact'
  <2>1. \A k \in Conv : pairing'[k].status = IF k = ConvOf[m] THEN "pending" ELSE pairing[k].status
    BY <1>0, <1>8 DEF TypeOK, UpsertPairing
  <2>2. /\ pc' = [pc EXCEPT ![m] = "pairing"] /\ pc[m] = "unpaired" /\ ConvOf[m] \in Conv
        /\ blind' = blind
    BY <1>8 DEF UpsertPairing, Goto
  <2>3. seen' = [n \in Message |-> IF pc[n] \in Handling /\ ConvOf[n] = ConvOf[m]
                                      THEN seen[n] \cup {"pending"} ELSE seen[n]]
    BY <1>8 DEF UpsertPairing
  <2>4. \A n \in Inbound :
          /\ pc'[n] \in Handling => pc[n] \in Handling
          /\ pc'[n] \in Passed => pc[n] \in Passed
          /\ pc'[n] \in {"unpaired", "pairing"} => pc[n] \in {"unpaired", "pairing"}
    BY <1>0, <2>2 DEF Passed
  <2>5. "pending" \in Status
    BY DEF Status
  <2>. QED
    BY <1>0, <2>1, <2>2, <2>3, <2>4, <2>5, SeenChange
<1>9. ASSUME NEW m \in Message, Filter(m)
      PROVE  SeenCurrent' /\ GateExact'
  <2>1. UNCHANGED <<pairing, seen, blind>>
    BY <1>9 DEF Filter, tables
  <2>2. \A n \in Inbound :
          /\ pc'[n] \in Handling => pc[n] \in Handling
          /\ pc'[n] \in Passed => pc[n] \in Passed
          /\ pc'[n] \in {"unpaired", "pairing"} => pc[n] \in {"unpaired", "pairing"}
    <3>1. pc[m] = "passed" /\ \E to \in {"ignored", "generating"} : pc' = [pc EXCEPT ![m] = to]
      BY <1>9 DEF Filter, Goto
    <3>2. \A n \in Inbound : n \in Message
      BY DEF Message
    <3>. QED
      BY <1>0, <3>1, <3>2 DEF Passed
  <2>. QED
    BY <2>1, <2>2, SeenSame
<1>10. ASSUME NEW m \in Message, Generate(m)
      PROVE  SeenCurrent' /\ GateExact'
  <2>1. UNCHANGED <<pairing, seen, blind>>
    BY <1>10 DEF Generate, tables
  <2>2. \A n \in Inbound :
          /\ pc'[n] \in Handling => pc[n] \in Handling
          /\ pc'[n] \in Passed => pc[n] \in Passed
          /\ pc'[n] \in {"unpaired", "pairing"} => pc[n] \in {"unpaired", "pairing"}
    BY <1>0, <1>10 DEF Passed, Generate, Goto
  <2>. QED
    BY <2>1, <2>2, SeenSame
<1>11. ASSUME NEW m \in Message, Cancel(m)
      PROVE  SeenCurrent' /\ GateExact'
  <2>1. UNCHANGED <<pairing, seen, blind>>
    BY <1>11 DEF Cancel, tables
  <2>2. \A n \in Inbound :
          /\ pc'[n] \in Handling => pc[n] \in Handling
          /\ pc'[n] \in Passed => pc[n] \in Passed
          /\ pc'[n] \in {"unpaired", "pairing"} => pc[n] \in {"unpaired", "pairing"}
    BY <1>0, <1>11 DEF Passed, Cancel, Goto
  <2>. QED
    BY <2>1, <2>2, SeenSame
<1>12. ASSUME NEW m \in Message, InsertReply(m)
      PROVE  SeenCurrent' /\ GateExact'
  <2>1. UNCHANGED <<pairing, seen, blind>>
    BY <1>12 DEF InsertReply, Insert
  <2>2. \A n \in Inbound :
          /\ pc'[n] \in Handling => pc[n] \in Handling
          /\ pc'[n] \in Passed => pc[n] \in Passed
          /\ pc'[n] \in {"unpaired", "pairing"} => pc[n] \in {"unpaired", "pairing"}
    BY <1>0, <1>12 DEF Passed, InsertReply, Insert, Goto
  <2>. QED
    BY <2>1, <2>2, SeenSame
<1>13. ASSUME NEW m \in Message, CountReply(m)
      PROVE  SeenCurrent' /\ GateExact'
  <2>1. UNCHANGED <<pairing, seen, blind>>
    BY <1>13 DEF CountReply, Count
  <2>2. \A n \in Inbound :
          /\ pc'[n] \in Handling => pc[n] \in Handling
          /\ pc'[n] \in Passed => pc[n] \in Passed
          /\ pc'[n] \in {"unpaired", "pairing"} => pc[n] \in {"unpaired", "pairing"}
    BY <1>0, <1>13 DEF Passed, CountReply, Count, Goto
  <2>. QED
    BY <2>1, <2>2, SeenSame
<1>14. ASSUME NEW m \in Message, Audit(m)
      PROVE  SeenCurrent' /\ GateExact'
  <2>1. UNCHANGED <<pairing, seen, blind>>
    BY <1>14 DEF Audit, tables
  <2>2. \A n \in Inbound :
          /\ pc'[n] \in Handling => pc[n] \in Handling
          /\ pc'[n] \in Passed => pc[n] \in Passed
          /\ pc'[n] \in {"unpaired", "pairing"} => pc[n] \in {"unpaired", "pairing"}
    BY <1>0, <1>14 DEF Passed, Audit, Goto
  <2>. QED
    BY <2>1, <2>2, SeenSame
<1>15. ASSUME NEW m \in Message, Fault(m)
      PROVE  SeenCurrent' /\ GateExact'
  <2>1. UNCHANGED <<pairing, seen, blind>>
    BY <1>15 DEF Fault, tables
  <2>2. \A n \in Inbound :
          /\ pc'[n] \in Handling => pc[n] \in Handling
          /\ pc'[n] \in Passed => pc[n] \in Passed
          /\ pc'[n] \in {"unpaired", "pairing"} => pc[n] \in {"unpaired", "pairing"}
    BY <1>0, <1>15 DEF Passed, Fault, Goto
  <2>. QED
    BY <2>1, <2>2, SeenSame
<1>16. ASSUME NEW c \in Conv, 
                NEW status \in {"pending", "approved", "revoked"},
                UpdatePairing(c, status)
      PROVE  SeenCurrent' /\ GateExact'
  <2>1. \A k \in Conv : pairing'[k].status = IF k = c THEN status ELSE pairing[k].status
    BY <1>0, <1>16 DEF TypeOK, UpdatePairing
  <2>2. pc' = pc /\ blind' = blind /\ status \in Status
    BY <1>16 DEF UpdatePairing, Status
  <2>3. seen' = [n \in Message |-> IF pc[n] \in Handling /\ ConvOf[n] = c
                                      THEN seen[n] \cup {status} ELSE seen[n]]
    BY <1>16 DEF UpdatePairing
  <2>. QED
    BY <1>0, <2>1, <2>2, <2>3, SeenChange
<1>17. ASSUME NEW c \in Conv, FinishUpdate(c)
      PROVE  SeenCurrent' /\ GateExact'
  <2>1. UNCHANGED <<pairing, seen, blind>>
    BY <1>17 DEF FinishUpdate
  <2>2. pc' = pc
    BY <1>17 DEF FinishUpdate
  <2>. QED
    BY <2>1, <2>2, SeenSame
<1>18. ASSUME NEW c \in Conv, Age(c)
      PROVE  SeenCurrent' /\ GateExact'
  <2>1. UNCHANGED <<pairing, seen, blind>>
    BY <1>18 DEF Age
  <2>2. pc' = pc
    BY <1>18 DEF Age
  <2>. QED
    BY <2>1, <2>2, SeenSame
<1>19. ASSUME Archive
      PROVE  SeenCurrent' /\ GateExact'
  <2>1. UNCHANGED <<pairing, seen, blind>>
    BY <1>19 DEF Archive
  <2>2. pc' = pc
    BY <1>19 DEF Archive
  <2>. QED
    BY <2>1, <2>2, SeenSame
<1>20. ASSUME DeleteMessages
      PROVE  SeenCurrent' /\ GateExact'
  <2>1. UNCHANGED <<pairing, seen, blind>>
    BY <1>20 DEF DeleteMessages
  <2>2. pc' = pc
    BY <1>20 DEF DeleteMessages
  <2>. QED
    BY <2>1, <2>2, SeenSame
<1>21. ASSUME DeleteSessions
      PROVE  SeenCurrent' /\ GateExact'
  <2>1. UNCHANGED <<pairing, seen, blind>>
    BY <1>21 DEF DeleteSessions, tables, env
  <2>2. pc' = pc
    BY <1>21 DEF DeleteSessions
  <2>. QED
    BY <2>1, <2>2, SeenSame
<1>22. ASSUME Crash
      PROVE  SeenCurrent' /\ GateExact'
  <2>1. UNCHANGED <<pairing, seen, blind>>
    BY <1>22 DEF Crash, tables, env
  <2>2. \A n \in Inbound :
          /\ pc'[n] \in Handling => pc[n] \in Handling
          /\ pc'[n] \in Passed => pc[n] \in Passed
          /\ pc'[n] \in {"unpaired", "pairing"} => pc[n] \in {"unpaired", "pairing"}
    <3>1. \A n \in Inbound : n \in Message
      BY DEF Message
    <3>2. \A n \in Inbound : pc'[n] = "dropped" \/ pc'[n] = pc[n]
      BY <1>22, <3>1 DEF Crash
    <3>. QED
      BY <3>2 DEF Passed
  <2>. QED
    BY <2>1, <2>2, SeenSame
<1>23. ASSUME NEW m \in Message, GateUnread(m)
      PROVE  SeenCurrent' /\ GateExact'
  <2>1. /\ pc[m] = "logged" /\ pc' = [pc EXCEPT ![m] = "unpaired"]
        /\ UNCHANGED <<pairing, seen>> /\ blind' = blind \cup {m}
    BY <1>23 DEF GateUnread, Goto, tables
  <2>2. \A n \in Inbound : /\ n \in Message
                           /\ n # m => pc'[n] = pc[n]
                           /\ n = m => pc'[n] = "unpaired" /\ n \in blind'
    BY <1>0, <2>1 DEF TypeOK, Message
  <2>3. SeenCurrent'
    BY <2>1, <2>2 DEF SeenCurrent
  <2>4. GateExact'
    BY <2>1, <2>2 DEF GateExact, Passed
  <2>. QED
    BY <2>3, <2>4
<1>24. ASSUME StatementFails
      PROVE  SeenCurrent' /\ GateExact'
  <2>1. UNCHANGED <<pairing, seen, blind>> /\ pc' = pc
    BY <1>24 DEF StatementFails, tables
  <2>. QED
    BY <2>1, SeenSame
<1>. QED
  BY <1>1, <1>2, <1>3, <1>4, <1>5, <1>6, <1>7, <1>8, <1>9, <1>10, <1>11, <1>12,
     <1>13, <1>14, <1>15, <1>16, <1>17, <1>18, <1>19, <1>20, <1>21, <1>22,
     <1>23, <1>24
  DEF Next, Handler, Operator

-----------------------------------------------------------------------------
(* Counts and transcripts.                                                 *)

Books == Counts /\ Transcripts

\* What a step may do to a row and its books without a line being written.
SameRow(c) ==
  /\ sessions[c] # NoRow
  /\ sessions'[c].id = sessions[c].id /\ sessions'[c].count = sessions[c].count
  /\ Condemned(c) => Condemned(c)'

NoNewLines(id) == Lines(id)' \subseteq Lines(id) /\ Replies(id)' \subseteq Replies(id)

LEMMA LineSets ==
  ASSUME NEW id
  PROVE  /\ IsFiniteSet(Lines(id)) /\ Cardinality(Lines(id)) \in Nat
         /\ IsFiniteSet(Replies(id)) /\ Cardinality(Replies(id)) \in Nat
         /\ IsFiniteSet(Lines(id)') /\ Cardinality(Lines(id)') \in Nat
         /\ IsFiniteSet(Replies(id)') /\ Cardinality(Replies(id)') \in Nat
<1>1. /\ Lines(id) \in SUBSET Message /\ Replies(id) \in SUBSET Message
      /\ Lines(id)' \in SUBSET Message /\ Replies(id)' \in SUBSET Message
  BY DEF Lines, Replies
<1>. QED
  BY <1>1, FiniteMessages

LEMMA OneMore ==
  ASSUME NEW S \in SUBSET Message, NEW m
  PROVE  Cardinality(S \cup {m}) <= Cardinality(S) + 1
<1>1. IsFiniteSet(S) /\ Cardinality(S) \in Nat
  BY FiniteMessages
<1>2. Cardinality(S \cup {m}) = IF m \in S THEN Cardinality(S) ELSE Cardinality(S) + 1
  BY <1>1, FS_AddElement
<1>. QED
  BY <1>1, <1>2

LEMMA NoMoreLines ==
  ASSUME NEW id, NoNewLines(id)
  PROVE  /\ Cardinality(Lines(id)') <= Cardinality(Lines(id))
         /\ Cardinality(Replies(id)') <= Cardinality(Replies(id))
BY LineSets, FS_Subset DEF NoNewLines

LEMMA BookTypes ==
  ASSUME TypeOK
  PROVE  /\ \A id : Uncounted(id) \in {0, 1} /\ Uncounted(id)' \in {0, 1}
         /\ \A id : lock \notin Message => Uncounted(id) = 0
         /\ crashes \in Nat /\ faults \in Nat /\ prunes \in Nat
         /\ \A c \in Conv : sessions[c] # NoRow =>
              /\ sessions[c].id \in SessionId /\ sessions[c].count \in Nat
              /\ logged[sessions[c].id] \in Nat
<1>1. \A id : Uncounted(id) \in {0, 1} /\ Uncounted(id)' \in {0, 1}
  BY DEF Uncounted
<1>2. \A id : lock \notin Message => Uncounted(id) = 0
  BY DEF Uncounted
<1>3. crashes \in Nat /\ faults \in Nat /\ prunes \in Nat
  BY MessagingAssumption DEF TypeOK
<1>4. ASSUME NEW c \in Conv, sessions[c] # NoRow
      PROVE  /\ sessions[c].id \in SessionId /\ sessions[c].count \in Nat
             /\ logged[sessions[c].id] \in Nat
  BY <1>4, DrawnRow, RowOrNone DEF TypeOK
<1>. QED
  BY <1>1, <1>2, <1>3, <1>4

\* A step that writes no line and counts none.
LEMMA BooksSame ==
  ASSUME TypeOK, Books, UNCHANGED <<logged, crashes, cut>>, faults' \in Nat, faults' >= faults,
         \A id : Uncounted(id)' = Uncounted(id) /\ NoNewLines(id),
         \A c \in Conv : sessions'[c] # NoRow => SameRow(c)
  PROVE  Books'
<1>1. Counts'
  BY BookTypes DEF Books, Counts, SameRow
<1>2. Transcripts'
  <2>1. ASSUME NEW c \in Conv, sessions'[c] # NoRow, ~Condemned(c)',
               NEW id, id = sessions'[c].id, id \notin cut'
        PROVE  logged'[id] >= Cardinality(Lines(id)') + Cardinality(Replies(id)')
    <3>1. sessions[c].id = id /\ sessions[c] # NoRow /\ ~Condemned(c) /\ NoNewLines(id)
      BY <2>1 DEF SameRow
    <3>2. logged[id] >= Cardinality(Lines(id)) + Cardinality(Replies(id)) /\ logged[id] \in Nat
      BY <2>1, <3>1, BookTypes DEF Books, Transcripts
    <3>3. /\ Cardinality(Lines(id)') <= Cardinality(Lines(id))
          /\ Cardinality(Replies(id)') <= Cardinality(Replies(id))
      BY <3>1, NoMoreLines
    <3>. QED
      BY <3>2, <3>3, LineSets
  <2>. QED
    BY <2>1 DEF Transcripts, Lines, Replies
<1>. QED
  BY <1>1, <1>2 DEF Books

\* An error or a crash: a line may stay uncounted, and the rows that a prune was
\* about to delete stay without their lines.
LEMMA BooksCut ==
  ASSUME TypeOK, Books, UNCHANGED <<sessions, logged>>, lock' = Free, cut' = cut \cup Severed,
         crashes' \in Nat, faults' \in Nat, crashes' + faults' = crashes + faults + 1,
         \A id : NoNewLines(id)
  PROVE  Books'
<1>1. /\ \A id : Uncounted(id)' = 0
      /\ \A c \in Conv : ~Condemned(c)'
  BY MessagingAssumption DEF Uncounted, Condemned
<1>2. \A c \in Conv : sessions[c] # NoRow /\ Condemned(c) => sessions[c].id \in cut'
  BY DEF Condemned, Severed
<1>3. Counts'
  BY <1>1, <1>2, BookTypes DEF Books, Counts
<1>4. Transcripts'
  <2>1. ASSUME NEW c \in Conv, sessions[c] # NoRow, NEW id, id = sessions[c].id, id \notin cut'
        PROVE  logged[id] >= Cardinality(Lines(id)') + Cardinality(Replies(id)')
    <3>1. logged[id] >= Cardinality(Lines(id)) + Cardinality(Replies(id)) /\ logged[id] \in Nat
      BY <1>2, <2>1, BookTypes DEF Books, Transcripts
    <3>2. /\ Cardinality(Lines(id)') <= Cardinality(Lines(id))
          /\ Cardinality(Replies(id)') <= Cardinality(Replies(id))
      BY NoMoreLines
    <3>. QED
      BY <3>1, <3>2, LineSets
  <2>. QED
    BY <2>1 DEF Transcripts, Lines, Replies
<1>. QED
  BY <1>3, <1>4 DEF Books

\* A handler moves without the lock and without a new line.
LEMMA MoveSame ==
  ASSUME TypeOK, Stages, NEW m \in Message, lock' = lock, lock # m,
         \A n \in Message \ {m} : pc'[n] = pc[n] /\ at'[n] = at[n],
         pc'[m] \in Written => pc[m] \in Written /\ at'[m] = at[m],
         pc'[m] \in Repeated => pc[m] \in Repeated /\ at'[m] = at[m]
  PROVE  \A id : Uncounted(id)' = Uncounted(id) /\ NoNewLines(id)
<1>1. \A id : NoNewLines(id)
  BY DEF NoNewLines, Lines, Replies
<1>2. \A id : Uncounted(id)' = Uncounted(id)
  BY DEF Uncounted
<1>. QED
  BY <1>1, <1>2

\* The operator's steps move no handler.
LEMMA OperatorSame ==
  ASSUME TypeOK, UNCHANGED <<pc, at>>, lock \notin Message, lock' \notin Message
  PROVE  \A id : Uncounted(id)' = Uncounted(id) /\ NoNewLines(id)
BY DEF Uncounted, NoNewLines, Lines, Replies

\* record_session_message, first statement: one line more, not yet counted.
LEMMA InsertBooks ==
  ASSUME TypeOK, Stages, Books, NEW m \in Message, NEW from, NEW to, Insert(m, from, to),
         \/ from = "resolved" /\ to = "inserted"
         \/ from = "generated" /\ to = "reply_inserted"
  PROVE  Books'
<1> USE DEF past
<1> DEFINE i == at[m]
<1>1. /\ pc[m] = from /\ lock = Free /\ lock' = m /\ pc' = [pc EXCEPT ![m] = to]
      /\ logged' = [logged EXCEPT ![i] = @ + 1]
      /\ UNCHANGED <<at, sessions, crashes, faults, cut>>
      /\ i \in SessionId /\ Free \notin Message /\ Free # Pruner /\ m # Pruner
  BY MessagingAssumption DEF Insert, Goto, env, TypeOK, Stages, Written
<1>2. \A id : Uncounted(id) = 0 /\ Uncounted(id)' = IF id = i THEN 1 ELSE 0
  <2>1. \A id : Uncounted(id) = 0
    BY <1>1, BookTypes
  <2>2. /\ pc'[m] \in {"inserted", "reply_inserted"} /\ at'[m] = i
        /\ \A n \in Message : lock' = n => n = m
    BY <1>1 DEF TypeOK
  <2>3. \A id : Uncounted(id)' = IF id = i THEN 1 ELSE 0
    BY <1>1, <2>2 DEF Uncounted
  <2>. QED
    BY <2>1, <2>3
<1>3. \A c \in Conv : ~Condemned(c) /\ ~Condemned(c)'
  BY <1>1 DEF Condemned
<1>4. \A c \in Conv : sessions[c] # NoRow =>
        logged'[sessions[c].id] = logged[sessions[c].id] + (IF sessions[c].id = i THEN 1 ELSE 0)
  BY <1>1, BookTypes DEF TypeOK
<1>5. Counts'
  BY <1>1, <1>2, <1>3, <1>4, BookTypes DEF Books, Counts
<1>6. ASSUME NEW id
      PROVE  Cardinality(Lines(id)') + Cardinality(Replies(id)')
               <= Cardinality(Lines(id)) + Cardinality(Replies(id)) + (IF id = i THEN 1 ELSE 0)
  <2>1. CASE id = i /\ from = "resolved"
    <3>1. Lines(id)' = Lines(id) \cup {m} /\ Replies(id)' \subseteq Replies(id)
      BY <1>1, <2>1 DEF Lines, Replies, Written, Repeated, Answered, TypeOK
    <3>2. Cardinality(Lines(id) \cup {m}) <= Cardinality(Lines(id)) + 1
      <4>1. Lines(id) \in SUBSET Message
        BY DEF Lines
      <4>. QED
        BY <4>1, OneMore
    <3>3. Cardinality(Lines(id)') <= Cardinality(Lines(id)) + 1
      BY <3>1, <3>2
    <3>4. Cardinality(Replies(id)') <= Cardinality(Replies(id))
      BY <3>1, LineSets, FS_Subset
    <3>. QED
      BY <2>1, <3>3, <3>4, LineSets
  <2>2. CASE id = i /\ from = "generated"
    <3>1. Replies(id)' = Replies(id) \cup {m} /\ Lines(id)' \subseteq Lines(id)
      BY <1>1, <2>2 DEF Lines, Replies, Written, Repeated, Answered, TypeOK
    <3>2. Cardinality(Replies(id) \cup {m}) <= Cardinality(Replies(id)) + 1
      <4>1. Replies(id) \in SUBSET Message
        BY DEF Replies
      <4>. QED
        BY <4>1, OneMore
    <3>3. Cardinality(Replies(id)') <= Cardinality(Replies(id)) + 1
      BY <3>1, <3>2
    <3>4. Cardinality(Lines(id)') <= Cardinality(Lines(id))
      BY <3>1, LineSets, FS_Subset
    <3>. QED
      BY <2>2, <3>3, <3>4, LineSets
  <2>3. CASE id # i
    <3>1. Lines(id)' = Lines(id) /\ Replies(id)' = Replies(id)
      BY <1>1, <2>3 DEF Lines, Replies, TypeOK
    <3>. QED
      BY <2>3, <3>1, LineSets
  <2>. QED
    BY <2>1, <2>2, <2>3
<1>7. Transcripts'
  <2>1. ASSUME NEW c \in Conv, sessions'[c] # NoRow, NEW id, id = sessions'[c].id, id \notin cut'
        PROVE  logged'[id] >= Cardinality(Lines(id)') + Cardinality(Replies(id)')
    <3>1. logged[id] >= Cardinality(Lines(id)) + Cardinality(Replies(id)) /\ logged[id] \in Nat
      BY <1>1, <1>3, <2>1, BookTypes DEF Books, Transcripts
    <3>2. logged'[id] = logged[id] + (IF id = i THEN 1 ELSE 0)
      BY <1>1, <1>4, <2>1
    <3>. QED
      BY <1>6, <3>1, <3>2, LineSets
  <2>. QED
    BY <2>1 DEF Transcripts, Lines, Replies
<1>. QED
  BY <1>5, <1>7 DEF Books

\* record_session_message, second statement: the line is counted.
LEMMA CountBooks ==
  ASSUME TypeOK, Stages, Books, NEW m \in Message, NEW from, NEW to, Count(m, from, to),
         \/ from = "inserted" /\ to \in {"sent", "logged"}
         \/ from = "reply_inserted" /\ to = "reply_counted"
  PROVE  Books'
<1> USE DEF past
<1> DEFINE i == at[m]
<1>1. /\ pc[m] = from /\ lock = m /\ lock' = Free /\ pc' = [pc EXCEPT ![m] = to]
      /\ UNCHANGED <<at, logged, crashes, faults, cut>>
      /\ i > 0 /\ Free \notin Message /\ Free # Pruner /\ m # Pruner
  BY MessagingAssumption DEF Count, Goto, env, TypeOK, Stages, Written
<1>2. \A id : Uncounted(id)' = 0 /\ Uncounted(id) = IF id = i THEN 1 ELSE 0
  BY <1>1 DEF Uncounted
<1>3. \A c \in Conv : ~Condemned(c) /\ ~Condemned(c)'
  BY <1>1 DEF Condemned
<1>4. ASSUME NEW c \in Conv, sessions'[c] # NoRow
      PROVE  /\ sessions[c] # NoRow /\ sessions'[c].id = sessions[c].id
             /\ sessions'[c].count = sessions[c].count + Uncounted(sessions[c].id)
  <2>1. IF sessions[c].id = i
          THEN /\ sessions[c] # NoRow /\ sessions'[c].id = i
               /\ sessions'[c].count = sessions[c].count + 1
          ELSE sessions'[c] = sessions[c]
    BY <1>1, CountEffect
  <2>2. Uncounted(sessions[c].id) = IF sessions[c].id = i THEN 1 ELSE 0
    BY <1>2
  <2>. QED
    BY <1>4, <2>1, <2>2, BookTypes
<1>5. Counts'
  BY <1>1, <1>2, <1>3, <1>4, BookTypes DEF Books, Counts
<1>6. \A id : NoNewLines(id)
  BY <1>1 DEF NoNewLines, Lines, Replies, Written, Repeated, Answered, TypeOK
<1>7. Transcripts'
  <2>1. ASSUME NEW c \in Conv, sessions'[c] # NoRow, NEW id, id = sessions'[c].id, id \notin cut'
        PROVE  logged'[id] >= Cardinality(Lines(id)') + Cardinality(Replies(id)')
    <3>1. logged[id] >= Cardinality(Lines(id)) + Cardinality(Replies(id)) /\ logged[id] \in Nat
      BY <1>1, <1>3, <1>4, <2>1, BookTypes DEF Books, Transcripts
    <3>2. /\ Cardinality(Lines(id)') <= Cardinality(Lines(id))
          /\ Cardinality(Replies(id)') <= Cardinality(Replies(id))
      BY <1>6, NoMoreLines
    <3>. QED
      BY <1>1, <3>1, <3>2, LineSets
  <2>. QED
    BY <2>1 DEF Transcripts, Lines, Replies
<1>. QED
  BY <1>5, <1>7 DEF Books

\* A new session has no line, no count and no reader.
LEMMA ResolveBooks ==
  ASSUME Shape, Books, NEW m \in Message, pc[m] \in {"idle", "recorded"}, Resolve(m)
  PROVE  Books'
<1> USE DEF past
<1> DEFINE c == ConvOf[m]
<1>0. TypeOK /\ Stages /\ Ids /\ c \in Conv /\ m \notin Begun
  BY MessagingAssumption DEF Shape, Begun
<1>1. /\ pc' = [pc EXCEPT ![m] = "resolved"] /\ lock = Free /\ lock' = lock /\ lock # m
      /\ lock # Pruner /\ UNCHANGED <<logged, cut, crashes, faults>>
      /\ \E i : at' = [at EXCEPT ![m] = i]
  BY MessagingAssumption DEF Resolve, Goto, env
<1>2. \A id : Uncounted(id)' = Uncounted(id) /\ NoNewLines(id)
  <2>1. \A n \in Message \ {m} : pc'[n] = pc[n] /\ at'[n] = at[n]
    BY <1>0, <1>1 DEF TypeOK
  <2>2. pc'[m] \notin Written /\ pc'[m] \notin Repeated
    BY <1>0, <1>1 DEF TypeOK, Written, Repeated, Answered
  <2>. QED
    BY <1>0, <1>1, <2>1, <2>2, MoveSame
<1>3. \A k \in Conv : ~Condemned(k) /\ ~Condemned(k)'
  BY <1>1 DEF Condemned
<1>4. CASE sessions[c] # NoRow
  <2>1. \A k \in Conv : sessions'[k] # NoRow => SameRow(k)
    BY <1>3, <1>4 DEF Resolve, SameRow
  <2>. QED
    BY <1>0, <1>1, <1>2, <2>1, BooksSame, BookTypes
<1>5. CASE sessions[c] = NoRow
  <2>1. /\ created' = created + 1 /\ at' = [at EXCEPT ![m] = created + 1]
        /\ sessions' = [sessions EXCEPT ![c] = NewRow(created + 1)]
    BY <1>5 DEF Resolve
  <2>2. created \in Nat /\ created + 1 \in SessionId /\ logged[created + 1] = 0
    BY <1>0, IdLeft, FiniteMessages DEF TypeOK, Ids
  <2>3. /\ \A k \in Conv \ {c} : sessions'[k] = sessions[k]
        /\ sessions'[c].id = created + 1 /\ sessions'[c].count = 0
    BY <1>0, <2>1 DEF TypeOK, NewRow
  <2>4. \A id : Uncounted(id) = 0 /\ Uncounted(id)' = 0
    BY <1>1, <1>2, BookTypes, <1>0, MessagingAssumption
  <2>5. Counts'
    <3>1. ASSUME NEW k \in Conv, sessions'[k] # NoRow
          PROVE  /\ logged[sessions'[k].id] <= sessions'[k].count + crashes + faults
                 /\ sessions'[k].count > logged[sessions'[k].id] => sessions'[k].id \in cut
                 /\ sessions'[k].count \in Nat
      <4>1. CASE k = c
        BY <1>0, <2>2, <2>3, <4>1, BookTypes
      <4>2. CASE k # c
        BY <1>0, <1>3, <2>3, <2>4, <3>1, <4>2, BookTypes DEF Books, Counts
      <4>. QED
        BY <4>1, <4>2
    <3>. QED
      BY <1>0, <1>1, <2>4, <3>1, BookTypes DEF Counts
  <2>6. Transcripts'
    <3>1. ASSUME NEW k \in Conv, sessions'[k] # NoRow,
                 NEW id, id = sessions'[k].id, id \notin cut'
          PROVE  logged'[id] >= Cardinality(Lines(id)') + Cardinality(Replies(id)')
      <4>1. /\ Cardinality(Lines(id)') <= Cardinality(Lines(id))
            /\ Cardinality(Replies(id)') <= Cardinality(Replies(id))
        BY <1>2, NoMoreLines
      <4>2. CASE k = c
        <5>1. Lines(id)' = {} /\ Replies(id)' = {}
          <6>1. \A n \in Message \ {m} : at'[n] # id
            BY <1>0, <2>1, <2>2, <2>3, <3>1, <4>2, FiniteMessages DEF TypeOK, Stages, SessionId
          <6>2. pc'[m] = "resolved"
            BY <1>0, <1>1 DEF TypeOK
          <6>. QED
            BY <6>1, <6>2 DEF Lines, Replies, Written, Repeated, Answered
        <5>2. Cardinality(Lines(id)') = 0 /\ Cardinality(Replies(id)') = 0
          BY <5>1, FS_EmptySet
        <5>. QED
          BY <1>1, <2>2, <2>3, <3>1, <4>2, <5>2
      <4>3. CASE k # c
        <5>1. logged[id] >= Cardinality(Lines(id)) + Cardinality(Replies(id)) /\ logged[id] \in Nat
          BY <1>0, <1>1, <1>3, <2>3, <3>1, <4>3, BookTypes DEF Books, Transcripts
        <5>. QED
          BY <1>1, <4>1, <5>1, LineSets
      <4>. QED
        BY <4>2, <4>3
    <3>. QED
      BY <1>1, <3>1 DEF Transcripts, Lines, Replies
  <2>. QED
    BY <2>5, <2>6 DEF Books
<1>. QED
  BY <1>4, <1>5

LEMMA BooksKept ==
  ASSUME Shape, Books, Next
  PROVE  Books'
<1> USE DEF past
<1>0. TypeOK /\ Stages /\ Ids /\ Free \notin Message /\ Free # Pruner /\ Pruner \notin Message
  BY MessagingAssumption DEF Shape
<1>b. crashes \in Nat /\ faults \in Nat
  BY <1>0, BookTypes
<1>1. ASSUME NEW m \in Message, Receive(m) PROVE Books'
  <2>1. /\ pc[m] = "idle" /\ UNCHANGED <<at, lock, logged, cut, crashes, faults, sessions>>
        /\ \E to \in {"recorded"} : pc' = [pc EXCEPT ![m] = to]
    BY <1>1 DEF Receive, Goto, tables, env
  <2>2. lock # m
    BY <1>0, <2>1 DEF Stages, Holding
  <2>3. \A id : Uncounted(id)' = Uncounted(id) /\ NoNewLines(id)
    <3>1. /\ \A n \in Message \ {m} : pc'[n] = pc[n] /\ at'[n] = at[n]
          /\ pc'[m] \in {"recorded"} /\ at'[m] = at[m]
      BY <1>0, <2>1 DEF TypeOK
    <3>2. /\ pc'[m] \in Written => pc[m] \in Written
          /\ pc'[m] \in Repeated => pc[m] \in Repeated
      BY <2>1, <3>1 DEF Written, Repeated, Answered
    <3>. QED
      BY <1>0, <2>1, <2>2, <3>1, <3>2, MoveSame
  <2>4. \A k \in Conv : sessions'[k] # NoRow => SameRow(k)
    BY <2>1 DEF SameRow, Condemned
  <2>. QED
    BY <1>0, <1>b, <2>1, <2>3, <2>4, BooksSame
<1>2. ASSUME NEW m \in Message, ResolveInbound(m) PROVE Books'
  BY <1>2, ResolveBooks DEF ResolveInbound
<1>3. ASSUME NEW m \in Message, ResolveOutbound(m) PROVE Books'
  <2>1. CASE Resolve(m)
    BY <1>3, <2>1, ResolveBooks DEF ResolveOutbound
  <2>2. CASE ~Resolve(m)
    <3>1. /\ lock = Free /\ UNCHANGED <<lock, sessions, logged, cut, crashes, faults>>
          /\ \E to \in {"resolved", "errored"} : pc' = [pc EXCEPT ![m] = to]
          /\ \E i : at' = [at EXCEPT ![m] = i] \/ at' = at
      BY <1>3, <2>2 DEF ResolveOutbound, Goto, tables, env
    <3>2. \A n \in Message \ {m} : pc'[n] = pc[n] /\ at'[n] = at[n]
      BY <1>0, <3>1 DEF TypeOK
    <3>3. pc'[m] \notin Written /\ pc'[m] \notin Repeated
      BY <1>0, <3>1 DEF TypeOK, Written, Repeated, Answered
    <3>4. \A id : Uncounted(id)' = Uncounted(id) /\ NoNewLines(id)
      BY <1>0, <3>1, <3>2, <3>3, MoveSame
    <3>5. \A k \in Conv : sessions'[k] # NoRow => SameRow(k)
      BY <3>1 DEF SameRow, Condemned
    <3>. QED
      BY <1>0, <1>b, <3>1, <3>4, <3>5, BooksSame
  <2>. QED
    BY <2>1, <2>2
<1>4. ASSUME NEW m \in Message, InsertLine(m) PROVE Books'
  BY <1>0, <1>4, InsertBooks DEF InsertLine
<1>5. ASSUME NEW m \in Message, CountLine(m) PROVE Books'
  BY <1>0, <1>5, CountBooks DEF CountLine
<1>6. ASSUME NEW m \in Message, Gate(m) PROVE Books'
  <2>1. /\ pc[m] = "logged" /\ UNCHANGED <<at, lock, logged, cut, crashes, faults, sessions>>
        /\ \E to \in {"passed", "approved", "unpaired"} : pc' = [pc EXCEPT ![m] = to]
    BY <1>6 DEF Gate, Goto, tables, env
  <2>2. lock # m
    BY <1>0, <2>1 DEF Stages, Holding
  <2>3. \A id : Uncounted(id)' = Uncounted(id) /\ NoNewLines(id)
    <3>1. /\ \A n \in Message \ {m} : pc'[n] = pc[n] /\ at'[n] = at[n]
          /\ pc'[m] \in {"passed", "approved", "unpaired"} /\ at'[m] = at[m]
      BY <1>0, <2>1 DEF TypeOK
    <3>2. /\ pc'[m] \in Written => pc[m] \in Written
          /\ pc'[m] \in Repeated => pc[m] \in Repeated
      BY <2>1, <3>1 DEF Written, Repeated, Answered
    <3>. QED
      BY <1>0, <2>1, <2>2, <3>1, <3>2, MoveSame
  <2>4. \A k \in Conv : sessions'[k] # NoRow => SameRow(k)
    BY <2>1 DEF SameRow, Condemned
  <2>. QED
    BY <1>0, <1>b, <2>1, <2>3, <2>4, BooksSame
<1>7. ASSUME NEW m \in Message, ClearPending(m) PROVE Books'
  <2>1. /\ pc[m] = "approved" /\ UNCHANGED <<at, lock, logged, cut, crashes, faults>>
        /\ \E to \in {"passed"} : pc' = [pc EXCEPT ![m] = to]
    BY <1>7 DEF ClearPending, Goto, tables, env
  <2>2. lock # m
    BY <1>0, <2>1 DEF Stages, Holding
  <2>3. \A id : Uncounted(id)' = Uncounted(id) /\ NoNewLines(id)
    <3>1. /\ \A n \in Message \ {m} : pc'[n] = pc[n] /\ at'[n] = at[n]
          /\ pc'[m] \in {"passed"} /\ at'[m] = at[m]
      BY <1>0, <2>1 DEF TypeOK
    <3>2. /\ pc'[m] \in Written => pc[m] \in Written
          /\ pc'[m] \in Repeated => pc[m] \in Repeated
      BY <2>1, <3>1 DEF Written, Repeated, Answered
    <3>. QED
      BY <1>0, <2>1, <2>2, <3>1, <3>2, MoveSame
  <2>4. \A k \in Conv : sessions'[k] # NoRow => SameRow(k)
    <3>1. at[m] > 0 /\ SetPending(at[m], FALSE) /\ lock = Free
      BY <1>0, <1>7 DEF ClearPending, Stages, Written
    <3>. QED
      BY <1>0, <3>1, FlagEffect DEF SameRow, Condemned
  <2>. QED
    BY <1>0, <1>b, <2>1, <2>3, <2>4, BooksSame
<1>8. ASSUME NEW m \in Message, UpsertPairing(m) PROVE Books'
  <2>1. /\ lock = Free /\ lock' = m /\ pc[m] = "unpaired" /\ pc' = [pc EXCEPT ![m] = "pairing"]
        /\ UNCHANGED <<at, sessions, logged, cut, crashes, faults>>
    BY <1>8 DEF UpsertPairing, Goto, env
  <2>2. \A id : Uncounted(id)' = 0 /\ Uncounted(id) = 0
    BY <1>0, <2>1 DEF Uncounted, TypeOK
  <2>3. \A id : NoNewLines(id)
    BY <1>0, <2>1 DEF NoNewLines, Lines, Replies, Written, Repeated, Answered, TypeOK
  <2>4. \A k \in Conv : sessions'[k] # NoRow => SameRow(k)
    BY <1>0, <2>1 DEF SameRow, Condemned
  <2>. QED
    BY <1>0, <1>b, <2>1, <2>2, <2>3, <2>4, BooksSame
<1>9. ASSUME NEW m \in Message, Filter(m) PROVE Books'
  <2>1. /\ pc[m] = "passed" /\ UNCHANGED <<at, lock, logged, cut, crashes, faults, sessions>>
        /\ \E to \in {"ignored", "generating"} : pc' = [pc EXCEPT ![m] = to]
    BY <1>9 DEF Filter, Goto, tables, env
  <2>2. lock # m
    BY <1>0, <2>1 DEF Stages, Holding
  <2>3. \A id : Uncounted(id)' = Uncounted(id) /\ NoNewLines(id)
    <3>1. /\ \A n \in Message \ {m} : pc'[n] = pc[n] /\ at'[n] = at[n]
          /\ pc'[m] \in {"ignored", "generating"} /\ at'[m] = at[m]
      BY <1>0, <2>1 DEF TypeOK
    <3>2. /\ pc'[m] \in Written => pc[m] \in Written
          /\ pc'[m] \in Repeated => pc[m] \in Repeated
      BY <2>1, <3>1 DEF Written, Repeated, Answered
    <3>. QED
      BY <1>0, <2>1, <2>2, <3>1, <3>2, MoveSame
  <2>4. \A k \in Conv : sessions'[k] # NoRow => SameRow(k)
    BY <2>1 DEF SameRow, Condemned
  <2>. QED
    BY <1>0, <1>b, <2>1, <2>3, <2>4, BooksSame
<1>10. ASSUME NEW m \in Message, Generate(m) PROVE Books'
  <2>1. /\ pc[m] = "generating" /\ UNCHANGED <<at, lock, logged, cut, crashes, faults, sessions>>
        /\ \E to \in {"generated", "failed"} : pc' = [pc EXCEPT ![m] = to]
    BY <1>10 DEF Generate, Goto, tables, env
  <2>2. lock # m
    BY <1>0, <2>1 DEF Stages, Holding
  <2>3. \A id : Uncounted(id)' = Uncounted(id) /\ NoNewLines(id)
    <3>1. /\ \A n \in Message \ {m} : pc'[n] = pc[n] /\ at'[n] = at[n]
          /\ pc'[m] \in {"generated", "failed"} /\ at'[m] = at[m]
      BY <1>0, <2>1 DEF TypeOK
    <3>2. /\ pc'[m] \in Written => pc[m] \in Written
          /\ pc'[m] \in Repeated => pc[m] \in Repeated
      BY <2>1, <3>1 DEF Written, Repeated, Answered
    <3>. QED
      BY <1>0, <2>1, <2>2, <3>1, <3>2, MoveSame
  <2>4. \A k \in Conv : sessions'[k] # NoRow => SameRow(k)
    BY <2>1 DEF SameRow, Condemned
  <2>. QED
    BY <1>0, <1>b, <2>1, <2>3, <2>4, BooksSame
<1>11. ASSUME NEW m \in Message, Cancel(m) PROVE Books'
  <2>1. /\ pc[m] = "generating" /\ UNCHANGED <<at, lock, logged, cut, crashes, faults, sessions>>
        /\ \E to \in {"cancelled"} : pc' = [pc EXCEPT ![m] = to]
    BY <1>11 DEF Cancel, Goto, tables, env
  <2>2. lock # m
    BY <1>0, <2>1 DEF Stages, Holding
  <2>3. \A id : Uncounted(id)' = Uncounted(id) /\ NoNewLines(id)
    <3>1. /\ \A n \in Message \ {m} : pc'[n] = pc[n] /\ at'[n] = at[n]
          /\ pc'[m] \in {"cancelled"} /\ at'[m] = at[m]
      BY <1>0, <2>1 DEF TypeOK
    <3>2. /\ pc'[m] \in Written => pc[m] \in Written
          /\ pc'[m] \in Repeated => pc[m] \in Repeated
      BY <2>1, <3>1 DEF Written, Repeated, Answered
    <3>. QED
      BY <1>0, <2>1, <2>2, <3>1, <3>2, MoveSame
  <2>4. \A k \in Conv : sessions'[k] # NoRow => SameRow(k)
    BY <2>1 DEF SameRow, Condemned
  <2>. QED
    BY <1>0, <1>b, <2>1, <2>3, <2>4, BooksSame
<1>12. ASSUME NEW m \in Message, InsertReply(m) PROVE Books'
  BY <1>0, <1>12, InsertBooks DEF InsertReply
<1>13. ASSUME NEW m \in Message, CountReply(m) PROVE Books'
  BY <1>0, <1>13, CountBooks DEF CountReply
<1>14. ASSUME NEW m \in Message, Audit(m) PROVE Books'
  <2>1. /\ pc[m] \in {"reply_counted", "failed"}
        /\ UNCHANGED <<at, lock, logged, cut, crashes, faults, sessions>>
        /\ pc' = [pc EXCEPT ![m] = IF pc[m] = "failed" THEN "degraded" ELSE "replied"]
    BY <1>14 DEF Audit, Goto, tables, env
  <2>2. lock # m
    BY <1>0, <2>1 DEF Stages, Holding
  <2>3. \A id : Uncounted(id)' = Uncounted(id) /\ NoNewLines(id)
    <3>1. /\ \A n \in Message \ {m} : pc'[n] = pc[n] /\ at'[n] = at[n]
          /\ pc'[m] = (IF pc[m] = "failed" THEN "degraded" ELSE "replied") /\ at'[m] = at[m]
      BY <1>0, <2>1 DEF TypeOK
    <3>2. /\ pc'[m] \in Written => pc[m] \in Written
          /\ pc'[m] \in Repeated => pc[m] \in Repeated
      BY <2>1, <3>1 DEF Written, Repeated, Answered
    <3>. QED
      BY <1>0, <2>1, <2>2, <3>1, <3>2, MoveSame
  <2>4. \A k \in Conv : sessions'[k] # NoRow => SameRow(k)
    BY <2>1 DEF SameRow, Condemned
  <2>. QED
    BY <1>0, <1>b, <2>1, <2>3, <2>4, BooksSame
<1>15. ASSUME NEW m \in Message, Fault(m) PROVE Books'
  <2>1. /\ pc' = [pc EXCEPT ![m] = "errored"] /\ lock \in {Free, m} /\ lock' = Free
        /\ faults' = faults + 1 /\ UNCHANGED <<at, sessions, logged, crashes, cut>>
    BY <1>15 DEF Fault, Goto, tables
  <2>2. Severed = {}
    BY <1>0, <2>1 DEF Severed
  <2>3. \A id : NoNewLines(id)
    BY <1>0, <2>1 DEF NoNewLines, Lines, Replies, Written, Repeated, Answered, TypeOK
  <2>. QED
    BY <1>0, <1>b, <2>1, <2>2, <2>3, BooksCut
<1>16. ASSUME NEW c \in Conv, 
                NEW status \in {"pending", "approved", "revoked"},
                UpdatePairing(c, status)
      PROVE  Books'
  <2>1. /\ lock = Free /\ lock' = c
        /\ UNCHANGED <<pc, at, logged, crashes, faults, cut>>
    BY <1>16 DEF UpdatePairing, env
  <2>2. \A id : Uncounted(id)' = Uncounted(id) /\ NoNewLines(id)
    BY <1>0, <2>1, OperatorSame, MessagingAssumption
  <2>3. \A k \in Conv : sessions'[k] # NoRow => SameRow(k)
    BY <1>0, <1>16, <2>1 DEF UpdatePairing, SameRow, Condemned
  <2>. QED
    BY <1>0, <1>b, <2>1, <2>2, <2>3, BooksSame
<1>17. ASSUME NEW c \in Conv, FinishUpdate(c) PROVE Books'
  <2>1. /\ lock = c /\ lock' = Free
        /\ UNCHANGED <<pc, at, logged, crashes, faults, cut>>
    BY <1>17 DEF FinishUpdate, env
  <2>2. \A id : Uncounted(id)' = Uncounted(id) /\ NoNewLines(id)
    BY <1>0, <2>1, OperatorSame, MessagingAssumption
  <2>3. \A k \in Conv : sessions'[k] # NoRow => SameRow(k)
    <3>1. pairing[c].session > 0 /\ SetPending(pairing[c].session, pairing[c].status = "pending")
      BY <1>0, <1>17 DEF FinishUpdate, Ids
    <3>2. lock # Pruner
      BY <2>1, MessagingAssumption
    <3>. QED
      BY <1>0, <3>1, <3>2, FlagEffect DEF SameRow, Condemned
  <2>. QED
    BY <1>0, <1>b, <2>1, <2>2, <2>3, BooksSame
<1>18. ASSUME NEW c \in Conv, Age(c) PROVE Books'
  <2>1. /\ lock' = lock
        /\ UNCHANGED <<pc, at, logged, crashes, faults, cut>>
    BY <1>18 DEF Age, env
  <2>2. \A id : Uncounted(id)' = Uncounted(id) /\ NoNewLines(id)
    BY <2>1 DEF Uncounted, NoNewLines, Lines, Replies
  <2>3. \A k \in Conv : sessions'[k] # NoRow => SameRow(k)
    <3>1. sessions' = [sessions EXCEPT ![c] = Aged(sessions[c])] /\ sessions[c] \in Row
      BY <1>0, <1>18, DrawnRow DEF Age, Aged
    <3>2. Aged(sessions[c]).id = sessions[c].id /\ Aged(sessions[c]).count = sessions[c].count
      BY <3>1, OtherRows
    <3>3. Aged(sessions[c]).old = TRUE /\ sessions[c] # NoRow
      BY <1>0, <3>1, DrawnRow DEF Aged, Row
    <3>. QED
      BY <1>0, <2>1, <3>1, <3>2, <3>3 DEF SameRow, Condemned, TypeOK
  <2>. QED
    BY <1>0, <1>b, <2>1, <2>2, <2>3, BooksSame
<1>19. ASSUME Archive PROVE Books'
  <2>1. /\ lock = Free /\ lock' = Free
        /\ UNCHANGED <<pc, at, logged, crashes, faults, cut>>
    BY <1>19 DEF Archive, env
  <2>2. \A id : Uncounted(id)' = Uncounted(id) /\ NoNewLines(id)
    BY <1>0, <2>1, OperatorSame, MessagingAssumption
  <2>3. \A k \in Conv : sessions'[k] # NoRow => SameRow(k)
    <3>1. \A k \in Conv : ~Condemned(k)
      BY <1>0, <2>1 DEF Condemned
    <3>2. \A k \in Conv : sessions'[k] # NoRow =>
            /\ sessions[k] # NoRow /\ sessions'[k].id = sessions[k].id
            /\ sessions'[k].count = sessions[k].count
      BY <1>0, <1>19, ArchiveEffect
    <3>. QED
      BY <3>1, <3>2 DEF SameRow
  <2>. QED
    BY <1>0, <1>b, <2>1, <2>2, <2>3, BooksSame
<1>20. ASSUME DeleteMessages PROVE Books'
  <2>1. /\ lock = Free /\ lock' = Pruner
        /\ UNCHANGED <<pc, at, sessions, crashes, faults, cut>>
        /\ logged' = [id \in SessionId |->
             IF \E c \in Conv : sessions[c].id = id /\ sessions[c].old THEN 0 ELSE logged[id]]
    BY <1>20 DEF DeleteMessages
  <2>2. \A id : Uncounted(id)' = 0 /\ Uncounted(id) = 0
    BY <1>0, <2>1 DEF Uncounted
  <2>3. \A k \in Conv : ~Condemned(k) /\ (Condemned(k)' <=> sessions[k].old)
    BY <1>0, <2>1 DEF Condemned
  <2>4. ASSUME NEW k \in Conv, sessions[k] # NoRow
        PROVE  /\ sessions[k].old => logged'[sessions[k].id] = 0
               /\ ~sessions[k].old => logged'[sessions[k].id] = logged[sessions[k].id]
    <3>1. sessions[k].id \in SessionId /\ sessions[k].id # 0
      BY <1>0, <2>4, BookTypes, DrawnRow
    <3>2. \A c \in Conv : sessions[c].id = sessions[k].id => c = k
      BY <1>0, <3>1 DEF Ids
    <3>. QED
      BY <2>1, <3>1, <3>2
  <2>5. Counts'
    <3>1. ASSUME NEW k \in Conv, sessions[k] # NoRow
          PROVE  /\ logged'[sessions[k].id] <= sessions[k].count + crashes + faults
                 /\ sessions[k].count > logged'[sessions[k].id] =>
                      sessions[k].id \in cut \/ sessions[k].old
      BY <1>0, <1>b, <2>2, <2>3, <2>4, <3>1, BookTypes DEF Books, Counts
    <3>. QED
      BY <1>0, <1>b, <2>1, <2>2, <2>3, <3>1, BookTypes DEF Counts
  <2>6. Transcripts'
    <3>1. ASSUME NEW k \in Conv, sessions'[k] # NoRow, ~Condemned(k)',
                 NEW id, id = sessions'[k].id, id \notin cut'
          PROVE  logged'[id] >= Cardinality(Lines(id)') + Cardinality(Replies(id)')
      <4>1. logged'[id] = logged[id]
        BY <2>1, <2>3, <2>4, <3>1
      <4>2. logged[id] >= Cardinality(Lines(id)) + Cardinality(Replies(id))
        BY <2>1, <2>3, <3>1 DEF Books, Transcripts
      <4>3. Lines(id)' = Lines(id) /\ Replies(id)' = Replies(id)
        BY <2>1 DEF Lines, Replies
      <4>. QED
        BY <4>1, <4>2, <4>3
    <3>. QED
      BY <3>1 DEF Transcripts, Lines, Replies
  <2>. QED
    BY <2>5, <2>6 DEF Books
<1>21. ASSUME DeleteSessions PROVE Books'
  <2>1. /\ lock = Pruner /\ lock' = Free
        /\ UNCHANGED <<pc, at, logged, crashes, faults, cut>>
    BY <1>21 DEF DeleteSessions, env
  <2>2. \A id : Uncounted(id)' = Uncounted(id) /\ NoNewLines(id)
    BY <1>0, <2>1, OperatorSame, MessagingAssumption
  <2>3. \A k \in Conv : sessions'[k] # NoRow => SameRow(k)
    <3>1. sessions' = [k \in Conv |-> IF sessions[k] # NoRow /\ sessions[k].old
                                          THEN NoRow ELSE sessions[k]]
      BY <1>21 DEF DeleteSessions
    <3>. QED
      BY <3>1 DEF SameRow, Condemned
  <2>. QED
    BY <1>0, <1>b, <2>1, <2>2, <2>3, BooksSame
<1>22. ASSUME Crash PROVE Books'
  <2>1. /\ pc' = [m \in Message |-> IF pc[m] \in Handling THEN "dropped" ELSE pc[m]]
        /\ lock' = Free /\ crashes' = crashes + 1 /\ cut' = cut \cup Severed
        /\ UNCHANGED <<at, sessions, logged, faults>>
    BY <1>22 DEF Crash, tables
  <2>2. \A id : NoNewLines(id)
    <3>1. \A n \in Message : pc'[n] = pc[n] \/ pc'[n] = "dropped"
      BY <2>1
    <3>. QED
      BY <2>1, <3>1 DEF NoNewLines, Lines, Replies, Written, Repeated, Answered
  <2>. QED
    BY <1>0, <1>b, <2>1, <2>2, BooksCut
<1>23. ASSUME NEW m \in Message, GateUnread(m) PROVE Books'
  <2>1. /\ pc[m] = "logged" /\ pc' = [pc EXCEPT ![m] = "unpaired"] /\ faults' = faults + 1
        /\ UNCHANGED <<at, lock, logged, cut, crashes, sessions>>
    BY <1>23 DEF GateUnread, Goto, tables
  <2>2. lock # m
    BY <1>0, <2>1 DEF Stages, Holding
  <2>3. \A id : Uncounted(id)' = Uncounted(id) /\ NoNewLines(id)
    <3>1. /\ \A n \in Message \ {m} : pc'[n] = pc[n] /\ at'[n] = at[n]
          /\ pc'[m] = "unpaired" /\ at'[m] = at[m]
      BY <1>0, <2>1 DEF TypeOK
    <3>2. pc[m] \in Written /\ pc'[m] \notin Repeated
      BY <2>1, <3>1 DEF Written, Repeated, Answered
    <3>. QED
      BY <1>0, <2>1, <2>2, <3>1, <3>2, MoveSame
  <2>4. \A k \in Conv : sessions'[k] # NoRow => SameRow(k)
    BY <2>1 DEF SameRow, Condemned
  <2>. QED
    BY <1>0, <1>b, <2>1, <2>3, <2>4, BooksSame
<1>24. ASSUME StatementFails PROVE Books'
  <2>1. /\ lock' = Free /\ faults' = faults + 1 /\ cut' = cut \cup Severed
        /\ UNCHANGED <<pc, at, sessions, logged, crashes>>
    BY <1>24 DEF StatementFails, tables
  <2>2. \A id : NoNewLines(id)
    BY <2>1 DEF NoNewLines, Lines, Replies
  <2>. QED
    BY <1>0, <1>b, <2>1, <2>2, BooksCut
<1>. QED
  BY <1>1, <1>2, <1>3, <1>4, <1>5, <1>6, <1>7, <1>8, <1>9, <1>10, <1>11, <1>12,
     <1>13, <1>14, <1>15, <1>16, <1>17, <1>18, <1>19, <1>20, <1>21, <1>22,
     <1>23, <1>24
  DEF Next, Handler, Operator

-----------------------------------------------------------------------------
(* The invariant and what it yields.                                       *)

LEMMA InitInvariant == Init => IInv
<1> SUFFICES ASSUME Init PROVE IInv
  OBVIOUS
<1>1. Cardinality(Message) \in Nat /\ Cardinality(Begun) \in Nat
  BY FiniteMessages DEF Begun
<1>2. TypeOK
  BY <1>1, MessagingAssumption DEF Init, TypeOK, Status
<1>3. Stages
  BY MessagingAssumption DEF Init, Stages, Written, Answered, Holding
<1>4. Ids
  BY MessagingAssumption DEF Init, Ids, NoRow
<1>5. DrawnByMessages
  BY <1>1 DEF Init, DrawnByMessages
<1>6. SeenCurrent /\ GateExact
  BY DEF Init, SeenCurrent, GateExact, Handling, Passed, Message
<1>7. Counts /\ Transcripts
  BY MessagingAssumption DEF Init, Counts, Transcripts
<1>. QED
  BY <1>2, <1>3, <1>4, <1>5, <1>6, <1>7 DEF IInv, Shape

LEMMA InvariantKept == IInv /\ [Next]_vars => IInv'
<1> SUFFICES ASSUME IInv, [Next]_vars PROVE IInv'
  OBVIOUS
<1>1. CASE Next
  BY <1>1, ShapeKept, SeenKept, BooksKept DEF IInv, Books
<1>2. CASE UNCHANGED vars
  <2>1. UNCHANGED <<pc, at, lock, sessions, logged, pairing, created, updates, prunes, crashes,
                    faults, seen, cut, blind>>
    BY <1>2 DEF vars, tables, env, past
  <2>2. Shape'
    BY <2>1 DEF IInv, Shape, TypeOK, Stages, Ids, DrawnByMessages, Begun
  <2>3. SeenCurrent' /\ GateExact'
    BY <2>1 DEF IInv, SeenCurrent, GateExact
  <2>4. Counts' /\ Transcripts'
    BY <2>1 DEF IInv, Counts, Transcripts, Uncounted, Condemned, Lines, Replies
  <2>. QED
    BY <2>2, <2>3, <2>4 DEF IInv
<1>. QED
  BY <1>1, <1>2

LEMMA SpecInvariant == Spec => []IInv
BY InitInvariant, InvariantKept, PTL DEF Spec

\* The tables and the handlers are well typed; in particular the sessions the
\* messages draw never exceed the messages.
THEOREM ConversationsTyped == Spec => []TypeOK
<1>1. IInv => TypeOK
  BY DEF IInv, Shape
<1>. QED
  BY <1>1, SpecInvariant, PTL

\* ensure_pairing_if_required lets a direct message pass only on an approval in
\* force while the message was handled, and stops one only on another state or
\* when pairing_is_approved could not read the pairing.
THEOREM GateIsExact == Spec => []GateExact
<1>1. IInv => GateExact
  BY DEF IInv
<1>. QED
  BY <1>1, SpecInvariant, PTL

\* message_count is the number of rows in session_messages, up to one line for
\* each error or crash; it exceeds them only in a session that prune_sessions
\* emptied and, failing or dying between its two deletes, did not delete.
THEOREM CountsMatch == Spec => []CountMatches
<1>1. IInv => CountMatches
  <2> SUFFICES ASSUME IInv, lock = Free, NEW c \in Conv, sessions[c] # NoRow
               PROVE  /\ logged[sessions[c].id] <= sessions[c].count + crashes + faults
                      /\ sessions[c].count > logged[sessions[c].id] => sessions[c].id \in cut
    BY DEF CountMatches
  <2>1. TypeOK /\ Counts /\ lock \notin Message /\ lock # Pruner
    BY MessagingAssumption DEF IInv, Shape
  <2>2. ~Condemned(c) /\ Uncounted(sessions[c].id) = 0
    BY <2>1, BookTypes DEF Condemned
  <2>. QED
    BY <2>1, <2>2, BookTypes DEF Counts
<1>. QED
  BY <1>1, SpecInvariant, PTL

\* What handle_message and record_outbound_message have reported is in the
\* transcript of the session, unless a prune that failed or died between its
\* two deletes emptied it.
THEOREM AnswersAreLogged == Spec => []AnswersLogged
<1>1. IInv => AnswersLogged
  <2> SUFFICES ASSUME IInv, lock = Free,
                      NEW c \in Conv, sessions[c] # NoRow, sessions[c].id \notin cut,
                      NEW told, NEW replied,
                      told = {m \in Message : /\ at[m] = sessions[c].id
                                               /\ pc[m] \in Answered \cup {"cancelled"}},
                      replied = {m \in Message : at[m] = sessions[c].id /\ pc[m] = "replied"}
               PROVE  logged[sessions[c].id] >= Cardinality(told) + Cardinality(replied)
    BY DEF AnswersLogged
  <2> DEFINE id == sessions[c].id
  <2>1. TypeOK /\ Transcripts /\ ~Condemned(c)
    BY MessagingAssumption DEF IInv, Shape, Condemned
  <2>2. logged[id] >= Cardinality(Lines(id)) + Cardinality(Replies(id)) /\ logged[id] \in Nat
    BY <2>1, BookTypes DEF Transcripts
  <2>3. told \subseteq Lines(id) /\ replied \subseteq Replies(id)
    BY DEF Lines, Replies, Written, Repeated
  <2>4. /\ Cardinality(told) <= Cardinality(Lines(id)) /\ Cardinality(told) \in Nat
        /\ Cardinality(replied) <= Cardinality(Replies(id)) /\ Cardinality(replied) \in Nat
    BY <2>3, LineSets, FS_Subset, FS_CardinalityType
  <2>. QED
    BY <2>2, <2>4, LineSets
<1>. QED
  BY <1>1, SpecInvariant, PTL

\* ensure_pairing replaces an approval only for a message whose handler looked
\* before the approval came, or could not read it; else only update_pairing
\* takes it back.
THEOREM ApprovalsStand == Spec => ApprovalUndoneExplained
<1> DEFINE Undone(c) == pairing[c].status = "approved" /\ pairing'[c].status # "approved"
           Excuse(c) == \/ updates' > updates
                        \/ \E m \in Inbound :
                             /\ ConvOf[m] = c /\ pc'[m] = "pairing" /\ "approved" \in seen[m]
                             /\ seen[m] # {"approved"} \/ m \in blind
<1>1. ASSUME IInv, [Next]_vars, NEW c \in Conv, Undone(c)
      PROVE  Excuse(c)
  <2>1. pairing' # pairing
    BY <1>1
  <2>2. \/ \E m \in Message : UpsertPairing(m)
        \/ \E k \in Conv, status \in {"pending", "approved", "revoked"} : UpdatePairing(k, status)
    BY <1>1, <2>1
    DEF Next, Handler, Operator, vars, tables, env, Receive, ResolveInbound, ResolveOutbound,
        Resolve, InsertLine, Insert, CountLine, Count, Gate, ClearPending, Filter, Generate, Cancel,
        InsertReply, CountReply, Audit, Fault, FinishUpdate, Age, Archive, DeleteMessages,
        DeleteSessions, Crash, GateUnread, StatementFails, past
  <2>3. CASE \E k \in Conv, status \in {"pending", "approved", "revoked"} : UpdatePairing(k, status)
    <3>1. updates' = updates + 1 /\ updates \in Nat
      BY <1>1, <2>3, MessagingAssumption DEF UpdatePairing, IInv, Shape, TypeOK
    <3>. QED
      BY <3>1
  <2>4. ASSUME NEW m \in Message, UpsertPairing(m)
        PROVE  Excuse(c)
    <3>1. /\ pc[m] = "unpaired" /\ pc' = [pc EXCEPT ![m] = "pairing"]
          /\ pairing' = [pairing EXCEPT ![ConvOf[m]] = [status |-> "pending", session |-> at[m]]]
      BY <2>4 DEF UpsertPairing, Goto
    <3>2. TypeOK /\ Stages /\ SeenCurrent
      BY <1>1 DEF IInv, Shape
    <3>3. m \in Inbound
      BY <3>1, <3>2 DEF Stages, Message
    <3>4. ConvOf[m] = c
      BY <1>1, <3>1, <3>2 DEF TypeOK
    <3>5. "approved" \in seen[m] /\ (m \in blind \/ \E s \in seen[m] : s # "approved")
      BY <1>1, <3>1, <3>2, <3>3, <3>4 DEF SeenCurrent, Handling
    <3>6. pc'[m] = "pairing"
      BY <3>1, <3>2 DEF TypeOK
    <3>7. seen[m] # {"approved"} \/ m \in blind
      BY <3>5
    <3>. QED
      BY <3>3, <3>4, <3>5, <3>6, <3>7
  <2>. QED
    BY <2>2, <2>3, <2>4
<1>2. IInv /\ [Next]_vars =>
        [\A c \in Conv : Undone(c) => Excuse(c)]_vars
  BY <1>1
<1>. QED
  BY <1>2, SpecInvariant, PTL DEF Spec, ApprovalUndoneExplained
=============================================================================
