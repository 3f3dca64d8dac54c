-------------------------------- MODULE Brain --------------------------------
(***************************************************************************)
(* The brain of the engine (BrainManager in core/crates/engine/src/lib.rs):*)
(* entities, facts and tasks kept as encrypted rows, the relations between *)
(* them, and for each row a projection in the vector memory that recall    *)
(* searches.  The brain has no lock of its own.  A call is a sequence of   *)
(* critical sections under the mutex of the store connection, so a call is *)
(* modelled by its script: the steps it still has to take, each of them    *)
(* one critical section, between which other calls run.  A step that reads *)
(* decides what follows it, from what it read then.                        *)
(*                                                                         *)
(* What a record says is a model value: the text of a task stands for its  *)
(* summary and scope, and Attracts for the similarity threshold and the    *)
(* scope match of find_similar_task.  The scores that rank results are     *)
(* left out: where a window or a limit cuts a list, any part of its length *)
(* is taken, except that the window of list_tasks keeps the latest.        *)
(* brain_ingest_log is written and never read: the step that writes it is  *)
(* kept, the rows are not.                                                 *)
(***************************************************************************)
EXTENDS Naturals, Sequences, FiniteSets, Functions

CONSTANTS
  Caller,      \* threads of the engine that serve calls
  Boot,        \* the start of the engine
  Entity, Fact, Task, Text, Content,
  Owner, Runtime, Workspace, Project,   \* the entities of the baseline
  EntityOf,    \* the entity a fact is about
  IdOf,        \* the id hashed from the text of a new task
  Attracts,    \* <<text of a stored task, new text>>: find_similar_task merges
  Closes,      \* <<tool, text of a stored task>>: find_related_tool_task matches
  Message,     \* [from, fact, mentions, text]
  Tool,        \* [name, artifact, fact, context]
  Memo,        \* [entity, content, fact, links] of a remember call
  TaskMemo,    \* [text, low, links] of a remember call for a task
  Update,      \* [task, text, status, links] of an update, None where not given
  Bare,        \* the text of a task that has only its id for a summary
  Target,      \* [kind, key] of a forget call: nothing ties the two together
  Direct,      \* records whose projections UpsertMemory may write
  Foreign,     \* what it writes there
  InScope,     \* contents, facts and texts that fit the scope of a recall
  Earlier,     \* task rows an earlier run may have left
  None, Merged,
  Window,      \* by kind: the listings read so many rows (512)
  Span,        \* query_memory reads so many projections (256)
  Limit,       \* the limit of a recall
  MaxCalls, MaxFaults   \* bounds on the environment

Baseline == <<Owner, Runtime, Workspace, Project>>
Key      == Entity \cup Fact \cup Task
Slot     == Caller \cup {Boot}
Status   == {"open", "in_progress", "blocked", "done", "cancelled"}
Active   == {"open", "in_progress", "blocked"}
Kind     == {"entity", "fact", "task", "relation"}

ASSUME BrainAssumption ==
  /\ {Owner, Runtime, Workspace, Project} \subseteq Entity /\ Content # {}
  /\ EntityOf \in [Fact -> Entity] /\ IdOf \in [Text -> Task] /\ Bare \in Text
  /\ Entity \cap Fact = {} /\ Entity \cap Task = {} /\ Fact \cap Task = {}
  /\ Boot \notin Caller /\ None \notin Text \cup Content \cup Key /\ Merged \notin Key
  /\ Foreign # None
  /\ Window \in [Kind -> Nat] /\ Limit \in Nat \ {0} /\ {Span, MaxCalls, MaxFaults} \subseteq Nat

TaskVal == [text : Text, status : Status, low : BOOLEAN, links : Seq(Entity)]

\* What callers pass: the fact of a message, a memo or a tool is about the entity
\* written just before it; a tool's context is a fact about the workspace.
ASSUME RequestAssumption ==
  /\ \A m \in Message : /\ m.from \in Entity /\ m.mentions \in Seq(Entity)
                        /\ m.fact \in Fact /\ EntityOf[m.fact] = m.from
                        /\ m.text \in Text \cup {None}
  /\ \A t \in Tool : /\ t.artifact \in Entity /\ t.context \in Fact
                     /\ t.fact \in Fact /\ EntityOf[t.fact] = t.artifact
  /\ \A m \in Memo : /\ m.entity \in Entity /\ m.content \in Content /\ m.links \in Seq(Entity)
                     /\ m.fact \in Fact /\ EntityOf[m.fact] = m.entity
  /\ \A m \in TaskMemo : m.text \in Text /\ m.low \in BOOLEAN /\ m.links \in Seq(Entity)
  /\ \A u \in Update : /\ u.task \in Task /\ u.text \in Text \cup {None} /\ u.status \in Status
                       /\ u.links = None \/ u.links \in Seq(Entity)
  /\ \A g \in Target : g.kind \in Kind
  /\ Direct \subseteq Key
  /\ \A tasks \in Earlier : /\ DOMAIN tasks \subseteq Task
       /\ \A t \in DOMAIN tasks : tasks[t] \in [state : {"live", "archived"}, val : TaskVal]

VARIABLES
  row,      \* brain_entities, brain_facts, brain_tasks
  rel,      \* brain_relations: the live ones and the archived ones
  index,    \* brain-entities, brain-facts, brain-tasks in vector_memory
  hint,     \* brain-suggestions in vector_memory
  newer,    \* pairs of task rows: the first has the later updated_at
  old,      \* task rows not updated for archive_decay_days
  todo,     \* the steps each call still has to take
  seen,     \* what a recall has listed, what of it is in scope, and what its queries hit
  up,       \* the engine: "starting", "serving" or "down"
  calls, faults,   \* how often the environment acted
  touched,  \* history: records other calls changed since a call began
  torn,     \* history: records whose projections others wrote, or that were cut short
  cascaded  \* history: facts deleted along with their entity

store == <<row, rel, index, hint, newer, old>>
past  == <<torn, cascaded>>
env   == <<calls, faults>>
vars  == <<store, todo, seen, up, env, touched, past>>

Absent      == [state |-> "absent", val |-> None]
Live(v)     == [state |-> "live", val |-> v]
IsLive(k)   == row[k].state = "live"
TaskRows    == {t \in Task : row[t] # Absent}
ValOf(k)    == IF k \in Task THEN TaskVal ELSE IF k \in Fact THEN {k} ELSE Content
OfKind(n)   == CASE n = "entity" -> Entity [] n = "fact" -> Fact [] n = "task" -> Task
                 [] OTHER -> {}
FactsOf(e)  == {f \in Fact : EntityOf[f] = e}
ScopeOf(k)  == IF k \in Task THEN row[k].val.text ELSE row[k].val
Nothing     == [listed |-> {}, fits |-> {}, links |-> {}, ties |-> {}, hits |-> {}, cut |-> {}]

-----------------------------------------------------------------------------
(* Scripts: what the operations of BrainManager do, as steps.              *)

Step(do, key, val)  == [do |-> do, key |-> key, val |-> val, how |-> None]
Read(do, how)       == [do |-> do, key |-> None, val |-> None, how |-> how]
Put(key, val, how)  == [do |-> "put", key |-> key, val |-> val, how |-> how]
Relate(kind, a, b)  == Step("relate", <<kind, a, b>>, None)
Retain              == Read("retain", None)
LogIngest           == Read("log", None)

\* upsert_entity and upsert_fact: the row, and then its projection.
Upsert(k, v) == <<Put(k, v, "name"), Step("index", k, v)>>

\* upsert_task: the row and its two projections.
UpsertTask(t, v, how) ==
  <<Put(t, v, how), Step("index", t, v), Step("hint", t, v.text)>>

\* upsert_or_merge_task: the search first; its result decides the rest.
UpsertOrMergeTask(text, status, low, links) ==
  <<Step("similar", text, [text |-> text, status |-> status, low |-> low, links |-> links])>>

\* link_record
LinkRecord(kind, k, links) == [i \in DOMAIN links |-> Relate(kind, k, links[i])]

Observed == CHOOSE c \in Content : TRUE

\* The entities a message mentions, three steps for each: artifacts, environments.
Mention(from, e) == Upsert(e, Observed) \o <<Relate("mentioned_with", from, e)>>
Mentions(m) == [i \in 1..(3 * Len(m.mentions)) |->
                  Mention(m.from, m.mentions[(i + 2) \div 3])[1 + ((i + 2) % 3)]]

\* ensure_baseline_context, at every start
BaselinePlan ==
  Upsert(Owner, Observed) \o Upsert(Runtime, Observed)
    \o Upsert(Workspace, Observed) \o Upsert(Project, Observed)
    \o <<Relate("owns", Owner, Workspace), Relate("belongs_to", Workspace, Project),
         Relate("runs_in", Project, Runtime)>>

\* remember, of an entity and of a task
RememberPlan(m) ==
  <<Retain>> \o Upsert(m.entity, m.content) \o Upsert(m.fact, m.fact)
    \o LinkRecord("mentioned_with", m.entity, m.links) \o <<LogIngest>>
RememberTaskPlan(m) ==
  <<Retain>> \o UpsertOrMergeTask(m.text, "open", m.low, m.links) \o <<LogIngest>>

\* ingest_message
MessagePlan(m) ==
  Upsert(m.from, Observed)
    \o <<Relate("knows", Owner, m.from), Relate("mentioned_with", m.from, Workspace)>>
    \o Upsert(m.fact, m.fact) \o Mentions(m)
    \o (IF m.text = None THEN <<>>
        ELSE UpsertOrMergeTask(m.text, "open", FALSE, <<m.from>> \o m.mentions)
               \o <<Relate("assigned_to", Merged, Owner), Relate("about", Merged, m.from)>>)
    \o <<LogIngest>>

\* ingest_tool_result, of a tool that succeeded
ToolPlan(t) ==
  Upsert(t.artifact, Observed) \o Upsert(t.fact, t.fact) \o Upsert(t.context, t.context)
    \o <<Step("related", t.name, None), LogIngest>>

\* ingest_assistant_reply, of a reply that commits to something
ReplyPlan(text) ==
  UpsertOrMergeTask(text, "in_progress", FALSE, <<Owner>>)
    \o <<Relate("assigned_to", Merged, Owner), LogIngest>>

\* update_task_record: it reads the row, then writes all of it.
UpdatePlan(u) == <<Step("read", u.task, u)>>

\* recall: four listings, then three queries of the projections.
RecallPlan(archived) ==
  LET list == IF archived THEN "list all" ELSE "list" IN
  <<Retain, Read(list, "entity"), Read(list, "fact"), Read("list", "task"),
    Read(list, "relation"), Read("query", "entity"), Read("query", "fact"),
    Read("query", "task"), Read("answer", IF archived THEN "all" ELSE "live")>>

\* suggest, which is also inline_suggestions
SuggestPlan == <<Retain, Read("suggest", None), Read("titles", None)>>

\* list_task_records
ListTasksPlan == <<Retain, Read("list", "task"), Read("answer", "tasks")>>

\* build_context_pack
ContextPlan == RecallPlan(FALSE) \o SuggestPlan

\* Mutant: the suggestion of a deleted task is left behind.
ForgetPlanKeepsHint(kind, k, mode) ==
  <<[do |-> "forget", key |-> k, val |-> [kind |-> kind], how |-> mode]>>
    \o (IF mode = "archive" \/ k \notin Key THEN <<>> ELSE <<Step("drop", k, None)>>)

\* forget: the rows under one lock, of the kind that the request names; on
\* "delete" the projections of that id one by one, in every namespace.
ForgetPlan(kind, k, mode) ==
  <<[do |-> "forget", key |-> k, val |-> [kind |-> kind], how |-> mode]>>
    \o (IF mode = "archive" \/ k \notin Key THEN <<>> ELSE <<Step("drop", k, None)>>)
    \o (IF mode = "archive" \/ k \notin Task THEN <<>> ELSE <<Step("drop hint", k, None)>>)

\* The task a script calls Merged is t.
Bind(steps, t) ==
  [i \in DOMAIN steps |->
     IF steps[i].do = "relate" /\ steps[i].key[2] = Merged
     THEN Relate(steps[i].key[1], t, steps[i].key[3]) ELSE steps[i]]

-----------------------------------------------------------------------------
(* One step of a call.                                                     *)

Now(c)       == Head(todo[c])
Doing(c, do) == todo[c] # <<>> /\ Now(c).do = do

\* c goes on with the steps given, after a change of the records in K.
Advance(c, steps, K) ==
  /\ todo' = [todo EXCEPT ![c] = steps]
  /\ touched' = [d \in Slot |->
                   IF d = c THEN IF steps = <<>> THEN {} ELSE touched[d]
                   ELSE IF todo[d] = <<>> THEN {} ELSE touched[d] \cup K]
Go(c, K) == Advance(c, Tail(todo[c]), K)

\* The projections of k a script still writes before it writes the row of k again:
\* its call has written the row, or read it, and the projection is to follow.
Projects   == {"index", "hint", "offer", "drop", "drop hint"}
Owed(s, k) ==
  {s[i] : i \in {i \in DOMAIN s :
     /\ s[i].do \in Projects /\ s[i].key = k
     /\ \A j \in 1..(i - 1) : ~(s[j].do \in {"put", "forget"} /\ s[j].key = k)}}
Exposed(c, k) == Owed(todo[c], k) # {}
ExposedTo(c, K) == {k \in K : \E d \in Slot \ {c} : Exposed(d, k)}

\* Mutant: a row keeps its former place as well.
BumpTwice(K) == newer \cup ((K \cap Task) \X (TaskRows \ K))

\* A write sets updated_at; rows that go leave the order.
Bump(K) == {p \in newer : p[2] \in K => p[1] \in K} \cup ((K \cap Task) \X (TaskRows \ K))
Unlist(K) == {p \in newer : p[1] \notin K /\ p[2] \notin K}

\* The insert ... on conflict do update of each upsert: archived becomes 0.
PutRow(c) ==
  /\ Doing(c, "put")
  /\ LET k == Now(c).key IN
     /\ row' = [row EXCEPT ![k] = Live(Now(c).val)]
     /\ newer' = Bump({k})
     /\ old' = old \ {k}
     /\ torn' = (torn \ {k}) \cup ExposedTo(c, {k})
     /\ cascaded' = cascaded \ {k}
     /\ Go(c, {k})
  /\ UNCHANGED <<rel, index, hint, seen, up, env>>

\* upsert_projection, also of a suggestion
PutIndex(c) ==
  /\ Doing(c, "index")
  /\ index' = [index EXCEPT ![Now(c).key] = Now(c).val]
  /\ Go(c, {Now(c).key})
  /\ UNCHANGED <<row, rel, hint, newer, old, seen, up, env, past>>
PutHint(c) ==
  /\ Doing(c, "hint") \/ Doing(c, "offer")
  /\ hint' = [hint EXCEPT ![Now(c).key] = Now(c).val]
  /\ Go(c, {})
  /\ UNCHANGED <<row, rel, index, newer, old, seen, up, env, past>>

\* upsert_relation
PutRelation(c) ==
  /\ Doing(c, "relate")
  /\ rel' = [live |-> rel.live \cup {Now(c).key}, archived |-> rel.archived \ {Now(c).key}]
  /\ Go(c, {})
  /\ UNCHANGED <<row, index, hint, newer, old, seen, up, env, past>>

\* record_ingest, and the listing that only provides titles
PassOver(c) ==
  /\ Doing(c, "log") \/ Doing(c, "titles")
  /\ Go(c, {})
  /\ UNCHANGED <<store, seen, up, env, past>>

\* apply_retention: only a task of low salience can fall below its thresholds.
ApplyRetention(c) ==
  /\ Doing(c, "retain")
  /\ LET expired == {t \in old : IsLive(t) /\ row[t].val.low
                                  /\ row[t].val.status \in {"done", "cancelled"}} IN
     /\ row' = [k \in Key |-> IF k \in expired THEN [row[k] EXCEPT !.state = "archived"]
                              ELSE row[k]]
     /\ newer' = Bump(expired)
     /\ old' = old \ expired
     /\ Go(c, expired)
  /\ UNCHANGED <<rel, index, hint, seen, up, env, past>>

\* list_tasks(true)
InWindow == {t \in TaskRows : Cardinality({u \in Task : <<u, t>> \in newer}) < Window["task"]}

\* Mutants: archived tasks are listed as well; or active tasks only.
ListedArchived == InWindow
ListedActive   == {t \in InWindow : IsLive(t) /\ row[t].val.status \in Active}

\* list_tasks(false): the window is cut before archived rows are left out.
Listed == {t \in InWindow : IsLive(t)}

\* find_similar_task; the best of several is any of them.
Similar(text) == {t \in Listed : <<row[t].val.text, text>> \in Attracts}
Resolve(c, t, how) ==
  Advance(c, UpsertTask(t, Now(c).val, how) \o Bind(Tail(todo[c]), t), {})
FindSimilar(c) ==
  /\ Doing(c, "similar")
  /\ LET text == Now(c).key IN
     \/ \E t \in Similar(text) : Resolve(c, t, "found")
     \/ Similar(text) = {} /\ Resolve(c, IdOf[text], "new")
  /\ UNCHANGED <<store, seen, up, env, past>>

\* find_related_tool_task; the latest of several is any of them.
Related(tool) == {t \in Listed : row[t].val.status \in Active
                                  /\ <<tool, row[t].val.text>> \in Closes}
FindRelated(c) ==
  /\ Doing(c, "related")
  /\ LET related == Related(Now(c).key) IN
     \/ \E t \in related :
          Advance(c, UpsertTask(t, [row[t].val EXCEPT !.status = "done"], "closed")
                       \o Tail(todo[c]), {})
     \/ related = {} /\ Go(c, {})
  /\ UNCHANGED <<store, seen, up, env, past>>

\* The task update_task_record writes, from list_tasks(true).
Updated(u) ==
  LET found == u.task \in InWindow
      held  == row[u.task].val IN
  [text   |-> IF u.text # None THEN u.text ELSE IF found THEN held.text ELSE Bare,
   status |-> u.status, low |-> FALSE,
   links  |-> IF u.links # None THEN u.links ELSE IF found THEN held.links ELSE <<>>]
Keeps(u) == CASE u.text = None /\ u.links = None -> "kept"
              [] u.text = None /\ u.links # None -> "kept text"
              [] u.text # None /\ u.links = None -> "kept links"
              [] OTHER -> "name"
ReadTask(c) ==
  /\ Doing(c, "read")
  /\ LET u == Now(c).val IN
     Advance(c, UpsertTask(u.task, Updated(u), Keeps(u))
                  \o LinkRecord("about", u.task, Updated(u).links) \o Tail(todo[c]), {})
  /\ UNCHANGED <<store, seen, up, env, past>>

\* The first n of K in an order that is not modelled.
FirstOf(n, K) == IF Cardinality(K) <= n THEN {K}
                 ELSE {W \in SUBSET K : Cardinality(W) = n}

\* list_entities, list_facts, list_tasks and list_relations: the window is cut
\* before archived rows are left out.
ListRecords(c) ==
  /\ Doing(c, "list") \/ Doing(c, "list all")
  /\ LET kind  == Now(c).how
         all   == Now(c).do = "list all"
         found == seen[c]
         rows  == {k \in OfKind(kind) : row[k] # Absent}
         Shown(W) == {k \in W : IsLive(k) \/ (all /\ row[k].state = "archived")}
     IN \/ /\ kind = "relation"
           /\ \E W \in FirstOf(Window[kind], rel.live \cup rel.archived) :
                seen' = [seen EXCEPT ![c].ties = IF all THEN W ELSE W \cap rel.live]
        \/ /\ kind # "relation"
           /\ \E W \in IF kind = "task" THEN {InWindow} ELSE FirstOf(Window[kind], rows) :
                seen' = [seen EXCEPT ![c] =
                  [listed |-> found.listed \cup Shown(W),
                   fits   |-> found.fits \cup {k \in Shown(W) : ScopeOf(k) \in InScope},
                   links  |-> found.links
                      \cup UNION {{t} \X Range(row[t].val.links) : t \in Shown(W) \cap Task},
                   ties   |-> found.ties,
                   hits   |-> found.hits,
                   cut    |-> IF W = rows THEN found.cut ELSE found.cut \cup {kind}]]
  /\ Go(c, {})
  /\ UNCHANGED <<store, up, env, past>>

\* query_projection_hits: what has a projection, of a live row or not, as far as
\* the window and the limit of the query reach
QueryHits(c) ==
  /\ Doing(c, "query")
  /\ LET kind == Now(c).how
         all  == {k \in OfKind(kind) : index[k] # None} IN
     \E W \in FirstOf(IF Span <= 3 * Limit THEN Span ELSE 3 * Limit, all) :
       seen' = [seen EXCEPT ![c].hits = @ \cup W,
                            ![c].cut  = IF W = all THEN @ ELSE @ \cup {kind}]
  /\ Go(c, {})
  /\ UNCHANGED <<store, up, env, past>>

\* Mutant: what the projections hit is returned, listed or not.
AnswersUnlisted(c) == {seen[c].hits}

(***************************************************************************)
(* What recall may return: of each kind the first hits that it has listed  *)
(* and that fit the scope; and, up to the limit, the entities of the facts *)
(* and at the ends of the relations of all these.                          *)
(***************************************************************************)
Matched(c, kind) == seen[c].hits \cap seen[c].fits \cap OfKind(kind)
Around(c, hits) ==
  LET about    == {EntityOf[f] : f \in hits \cap Fact}
      selected == hits \cup about \cup {l[2] : l \in {l \in seen[c].links : l[1] \in hits}}
      ties     == {r \in seen[c].ties : r[2] \in selected \/ r[3] \in selected}
  IN (about \cup UNION {{r[2], r[3]} : r \in ties}) \cap seen[c].listed \cap Entity
Answers(c) ==
  UNION {LET more == Around(c, m[1] \cup m[2] \cup m[3]) \ m[1] IN
         {m[1] \cup m[2] \cup m[3] \cup W : W \in FirstOf(Limit - Cardinality(m[1]), more)} :
           m \in FirstOf(Limit, Matched(c, "entity")) \X FirstOf(Limit, Matched(c, "fact"))
                   \X FirstOf(Limit, Matched(c, "task"))}

Return(c) ==
  /\ Doing(c, "answer")
  /\ seen' = [seen EXCEPT ![c] = Nothing]
  /\ Go(c, {})
  /\ UNCHANGED <<store, up, env, past>>

\* suggest lists the tasks, then offers the best of those that are active.
Suggested == {t \in Listed : row[t].val.status \in Active}
ListSuggestions(c) ==
  /\ Doing(c, "suggest")
  /\ \E n \in 0..Cardinality(Suggested) : \E best \in Injection(1..n, Suggested) :
       Advance(c, Tail(todo[c]) \o
                    [i \in 1..n |-> Step("offer", best[i], row[best[i]].val.text)], {})
  /\ UNCHANGED <<store, seen, up, env, past>>

-----------------------------------------------------------------------------
(* Forgetting.                                                             *)

InState(K, state) == [k \in Key |-> IF k \in K /\ row[k].state # "absent"
                                    THEN [row[k] EXCEPT !.state = state] ELSE row[k]]
Without(K)        == [k \in Key |-> IF k \in K THEN Absent ELSE row[k]]
Touching(k)       == {r \in rel.live \cup rel.archived : r[2] = k \/ r[3] = k}
DropRelations(R)  == [live |-> rel.live \ R, archived |-> rel.archived \ R]
HideRelations(R)  == [live |-> rel.live \ R, archived |-> rel.archived \cup R]

\* Mutant: the facts of an entity stay.
AlongAlone(kind, k) == {k} \cap OfKind(kind)

\* The records that go with k, named as one of that kind.
Along(kind, k) == ({k} \cap OfKind(kind))
                    \cup (IF kind = "entity" /\ k \in Entity THEN FactsOf(k) ELSE {})

\* Archiving and deleting, the statements of one critical section.
Archive(kind, k) ==
  /\ row' = InState(Along(kind, k), "archived")
  /\ rel' = HideRelations(CASE kind = "entity"   -> Touching(k)
                            [] kind = "relation" -> {k} \cap (rel.live \cup rel.archived)
                            [] OTHER -> {})
  /\ newer' = Bump(Along(kind, k) \cap TaskRows)
  /\ UNCHANGED cascaded
Delete(kind, k) ==
  /\ row' = Without(Along(kind, k))
  /\ rel' = DropRelations(CASE kind \in {"entity", "task"} -> Touching(k)
                            [] kind = "relation" -> {k}
                            [] OTHER -> {})
  /\ newer' = Unlist(Along(kind, k))
  /\ cascaded' = (cascaded \cup {f \in Along(kind, k) \ {k} : index[f] # None}) \ {k}

\* On "delete" the projections of k go even where its row, of another kind, stays.
Stripped(kind, k) == {j \in ({k} \cap Key) \ Along(kind, k) : row[j] # Absent}

ForgetRows(c) ==
  /\ Doing(c, "forget")
  /\ LET k     == Now(c).key
         kind  == Now(c).val.kind
         along == Along(kind, k)
     IN /\ IF Now(c).how = "archive" THEN Archive(kind, k) ELSE Delete(kind, k)
        /\ old' = old \ along
        /\ torn' = IF Now(c).how = "archive" THEN torn
                   ELSE torn \cup ExposedTo(c, along) \cup Stripped(kind, k)
        /\ Go(c, {j \in along : row'[j] # row[j]} \cup (along \cap TaskRows))
  /\ UNCHANGED <<index, hint, seen, up, env>>

\* A later statement of forget fails: each of those before it was committed.
\* An entity is archived, then its facts, then its relations; it is deleted
\* in the order facts, relations, entity; a task before its relations.
ForgetCut(c) ==
  /\ Doing(c, "forget") /\ faults < MaxFaults
  /\ LET k       == Now(c).key
         kind    == Now(c).val.kind
         archive == Now(c).how = "archive"
         named   == {k} \cap OfKind(kind)
     IN \E gone \in CASE kind = "entity" /\ archive  -> {named, Along(kind, k)}
                      [] kind = "entity" /\ ~archive -> {Along(kind, k) \ named}
                      [] kind = "task" /\ ~archive   -> {named}
                      [] OTHER -> {} :
          /\ row' = IF archive THEN InState(gone, "archived") ELSE Without(gone)
          /\ rel' \in IF kind = "entity" /\ ~archive THEN {rel, DropRelations(Touching(k))} ELSE {rel}
          /\ newer' = Unlist(gone)
          /\ old' = old \ gone
          /\ cascaded' = IF archive THEN cascaded
                         ELSE cascaded \cup {f \in gone \cap Fact : index[f] # None}
          /\ torn' = IF archive THEN torn ELSE torn \cup (gone \cap Task) \cup ExposedTo(c, gone)
          /\ Advance(c, <<>>, {j \in gone : row'[j] # row[j]})
  /\ faults' = faults + 1
  /\ UNCHANGED <<index, hint, seen, up, calls>>

\* delete_projection
DropIndex(c) ==
  /\ Doing(c, "drop")
  /\ index' = [index EXCEPT ![Now(c).key] = None]
  /\ cascaded' = cascaded \ {Now(c).key}
  /\ Go(c, {Now(c).key})
  /\ UNCHANGED <<row, rel, hint, newer, old, seen, up, env, torn>>
DropHint(c) ==
  /\ Doing(c, "drop hint")
  /\ hint' = [hint EXCEPT ![Now(c).key] = None]
  /\ Go(c, {})
  /\ UNCHANGED <<row, rel, index, newer, old, seen, up, env, past>>

-----------------------------------------------------------------------------
(* Failures.                                                               *)

\* The store refuses a statement, and the call returns the error.
StepFails(c) ==
  /\ todo[c] # <<>> /\ faults < MaxFaults
  /\ Now(c).do \notin {"offer", "drop", "drop hint", "similar", "related", "answer"}
  /\ faults' = faults + 1
  /\ torn' = torn \cup {k \in Key : Exposed(c, k)}
  /\ seen' = [seen EXCEPT ![c] = Nothing]
  /\ Advance(c, <<>>, {})
  /\ up' = IF c = Boot THEN "down" ELSE up
  /\ UNCHANGED <<store, calls, cascaded>>

\* ... and the error is ignored: `let _` of suggest and forget, `.ok()?` of a search.
StepIgnored(c) ==
  /\ todo[c] # <<>> /\ faults < MaxFaults
  /\ \/ /\ Now(c).do \in {"offer", "drop", "drop hint"}
        /\ torn' = torn \cup {Now(c).key}
        /\ Go(c, {})
     \/ /\ Now(c).do = "similar"
        /\ Resolve(c, IdOf[Now(c).key], "blind")
        /\ UNCHANGED torn
     \/ /\ Now(c).do = "related"
        /\ Go(c, {})
        /\ UNCHANGED torn
  /\ faults' = faults + 1
  /\ UNCHANGED <<store, seen, up, calls, cascaded>>

\* The process dies, and with it every call.
Crash ==
  /\ up # "down" /\ faults < MaxFaults
  /\ faults' = faults + 1
  /\ up' = "down"
  /\ todo' = [c \in Slot |-> <<>>]
  /\ touched' = [c \in Slot |-> {}]
  /\ seen' = [c \in Slot |-> Nothing]
  /\ torn' = torn \cup {k \in Key : \E c \in Slot : Exposed(c, k)}
  /\ UNCHANGED <<store, calls, cascaded>>

\* The next start: BrainManager::new runs ensure_baseline_context first.
Start ==
  /\ up = "down"
  /\ up' = "starting"
  /\ todo' = [todo EXCEPT ![Boot] = BaselinePlan]
  /\ UNCHANGED <<store, seen, env, touched, past>>
Serve ==
  /\ up = "starting" /\ todo[Boot] = <<>>
  /\ up' = "serving"
  /\ UNCHANGED <<store, todo, seen, env, touched, past>>

\* archive_decay_days pass between calls.
DaysPass ==
  /\ \A c \in Slot : todo[c] = <<>>
  /\ old # TaskRows
  /\ old' = TaskRows
  /\ UNCHANGED <<row, rel, index, hint, newer, todo, seen, up, env, touched, past>>

-----------------------------------------------------------------------------
(* The operations, as the RPC handlers and the connectors call them.       *)

Begin(c, plan) ==
  /\ up = "serving" /\ todo[c] = <<>> /\ calls < MaxCalls
  /\ calls' = calls + 1
  /\ todo' = [todo EXCEPT ![c] = plan]
  /\ UNCHANGED <<store, seen, up, faults, touched, past>>

Remember(c)           == \E m \in Memo : Begin(c, RememberPlan(m))
RememberTask(c)       == \E m \in TaskMemo : Begin(c, RememberTaskPlan(m))
Recall(c)             == \E archived \in BOOLEAN : Begin(c, RecallPlan(archived))
Suggest(c)            == Begin(c, SuggestPlan)
ListTaskRecords(c)    == Begin(c, ListTasksPlan)
BuildContextPack(c)   == Begin(c, ContextPlan)
UpdateTaskRecord(c)   == \E u \in Update : Begin(c, UpdatePlan(u))
Forget(c)             == \E g \in Target, mode \in {"archive", "delete"} :
                           Begin(c, ForgetPlan(g.kind, g.key, mode))
IngestMessage(c)      == \E m \in Message : Begin(c, MessagePlan(m))
IngestToolResult(c)   == \E t \in Tool : Begin(c, ToolPlan(t))
IngestReply(c)        == \E text \in Text \ {Bare} : Begin(c, ReplyPlan(text))

\* The RPC UpsertMemory takes any namespace and key, those of the brain as well.
UpsertMemory(c) ==
  /\ up = "serving" /\ todo[c] = <<>> /\ calls < MaxCalls
  /\ calls' = calls + 1
  /\ \E k \in Direct :
       /\ \/ index' = [index EXCEPT ![k] = Foreign] /\ UNCHANGED hint
          \/ k \in Task /\ hint' = [hint EXCEPT ![k] = Foreign] /\ UNCHANGED index
       /\ torn' = torn \cup {k}
       /\ Advance(c, <<>>, {k})
  /\ UNCHANGED <<row, rel, newer, old, seen, up, faults, cascaded>>

Operation(c) ==
  \/ Remember(c) \/ RememberTask(c) \/ Recall(c) \/ Suggest(c) \/ ListTaskRecords(c)
  \/ BuildContextPack(c) \/ UpdateTaskRecord(c) \/ Forget(c)
  \/ IngestMessage(c) \/ IngestToolResult(c) \/ IngestReply(c)
  \/ UpsertMemory(c)

Progress(c) ==
  \/ PutRow(c) \/ PutIndex(c) \/ PutHint(c) \/ PutRelation(c) \/ PassOver(c)
  \/ ApplyRetention(c) \/ FindSimilar(c) \/ FindRelated(c) \/ ReadTask(c)
  \/ ListRecords(c) \/ QueryHits(c) \/ Return(c)
  \/ ListSuggestions(c) \/ ForgetRows(c) \/ ForgetCut(c) \/ DropIndex(c) \/ DropHint(c)
  \/ StepFails(c) \/ StepIgnored(c)

\* o is a strict total order of S.
Ranks(o, S) ==
  /\ o \subseteq S \X S
  /\ \A t, u \in S : t # u <=> <<t, u>> \in o \/ <<u, t>> \in o
  /\ \A t, u \in S : <<t, u>> \in o => <<u, t>> \notin o
  /\ \A t, u, v \in S : <<t, u>> \in o /\ <<u, v>> \in o => <<t, v>> \in o

\* The store an earlier run has left: the baseline, and some tasks.
Init ==
  /\ \E tasks \in Earlier :
       /\ row = [k \in Key |-> IF k \in Range(Baseline) THEN Live(Observed)
                               ELSE IF k \in DOMAIN tasks THEN tasks[k] ELSE Absent]
       /\ index = [k \in Key |-> row[k].val]
       /\ hint = [t \in Task |-> IF t \in DOMAIN tasks THEN tasks[t].val.text ELSE None]
       /\ newer \in {o \in SUBSET ((DOMAIN tasks) \X (DOMAIN tasks)) : Ranks(o, DOMAIN tasks)}
  /\ rel = [live |-> {}, archived |-> {}]
  /\ old = {}
  /\ todo = [c \in Slot |-> <<>>] /\ seen = [c \in Slot |-> Nothing]
  /\ up = "down"
  /\ calls = 0 /\ faults = 0
  /\ touched = [c \in Slot |-> {}] /\ torn = {} /\ cascaded = {}

Next ==
  \/ \E c \in Caller : Operation(c)
  \/ \E c \in Slot : Progress(c)
  \/ Crash \/ Start \/ Serve \/ DaysPass

Spec == Init /\ [][Next]_vars

-----------------------------------------------------------------------------
(* Properties.                                                             *)

Steps == {"put", "index", "hint", "offer", "relate", "log", "retain", "similar", "related",
          "read", "list", "list all", "titles", "query", "answer", "suggest",
          "forget", "drop", "drop hint"}

\* Every store holds what its columns allow, and every call a script of known steps.
TypeOK ==
  /\ \A k \in Key : \/ row[k] = Absent
                    \/ row[k].state \in {"live", "archived"} /\ row[k].val \in ValOf(k)
  /\ \A k \in Key : index[k] \in {None, Foreign} \/ index[k] \in ValOf(k)
  /\ hint \in [Task -> Text \cup {None, Foreign}]
  /\ rel.live \cap rel.archived = {}
  /\ Ranks(newer, TaskRows)
  /\ old \subseteq TaskRows
  /\ \A c \in Slot : \A i \in DOMAIN todo[c] : todo[c][i].do \in Steps
  /\ \A c \in Slot : todo[c] = <<>> => touched[c] = {} /\ seen[c] = Nothing
  /\ up \in {"starting", "serving", "down"}

(***************************************************************************)
(* A call that writes a task it has looked up loses no other call's write, *)
(* unless that other call came in between the look-up and the write, or    *)
(* the task lay beyond the window of list_tasks.  find_similar_task        *)
(* merging into a task and find_related_tool_task closing it bring no      *)
(* forgotten task back either.  update_task_record does, by intent: it     *)
(* reads archived tasks too and its upsert clears the mark; what it keeps  *)
(* is the summary and the links that it was not given.                     *)
(***************************************************************************)
Taken(c, t) ==
  LET v == Now(c).val
      calm == t \in InWindow /\ touched[c] \cap Task = {} IN
  CASE Now(c).how = "found"  -> IsLive(t) /\ <<row[t].val.text, v.text>> \in Attracts
    [] Now(c).how = "closed" -> /\ IsLive(t) /\ row[t].val.status \in Active
                               /\ v = [row[t].val EXCEPT !.status = "done"]
    [] Now(c).how = "kept"   -> calm => v.text = row[t].val.text /\ v.links = row[t].val.links
    [] Now(c).how = "kept text"  -> calm => v.text = row[t].val.text
    [] Now(c).how = "kept links" -> calm => v.links = row[t].val.links
    [] OTHER -> TRUE
WritesWhatItFound ==
  [][\A c \in Slot : PutRow(c) => Taken(c, Now(c).key) \/ Now(c).key \in touched[c]]_vars

(***************************************************************************)
(* upsert_or_merge_task never opens a second task beside a live one that   *)
(* resembles it, unless tasks changed after its search, the other lay      *)
(* beyond the window of list_tasks, or the search failed.                  *)
(***************************************************************************)
TwinsExplained ==
  [][\A c \in Slot :
       PutRow(c) /\ Now(c).how = "new" /\ touched[c] \cap Task = {} =>
         ~\E t \in InWindow \ {Now(c).key} :
            IsLive(t) /\ <<row[t].val.text, Now(c).val.text>> \in Attracts]_vars

(***************************************************************************)
(* Row and projection agree for every record that no call is between row   *)
(* and projection of, unless its writers overlapped, one of them failed    *)
(* half-way, a delete named it as a record of another kind, or             *)
(* UpsertMemory wrote its projection; and a projection without a row is    *)
(* left only of a fact deleted along with its entity.                      *)
(***************************************************************************)
Busy(k) == \E c \in Slot : Exposed(c, k)
IndexAgrees ==
  \A k \in Key \ torn :
    \/ Busy(k)
    \/ /\ index[k] = row[k].val \/ (k \in cascaded /\ row[k] = Absent)
       /\ k \in Task => hint[k] = IF row[k] = Absent THEN None ELSE row[k].val.text

(***************************************************************************)
(* A live fact whose entity is forgotten comes about only by a call that   *)
(* wrote the fact after another had forgotten the entity, by a tool's fact *)
(* about the workspace, or by a forget that failed between its statements. *)
(***************************************************************************)
Loose(f) == IsLive(f) /\ ~IsLive(EntityOf[f])
FactsHaveEntity ==
  [][\A f \in Fact : Loose(f)' /\ ~Loose(f) =>
       \/ \E c \in Slot : /\ PutRow(c) /\ Now(c).key = f
                          /\ \/ EntityOf[f] \in touched[c]
                             \/ \E t \in Tool : t.context = f
       \/ \E c \in Slot : ForgetCut(c) /\ Now(c).key = EntityOf[f]]_vars

(***************************************************************************)
(* recall answers from one time within the call, as far as other calls let *)
(* it.  Of the records no other call changed meanwhile it returns no       *)
(* forgotten one; and it returns every live one that has a projection and  *)
(* fits its scope, unless a window or the limit left out records of that   *)
(* kind.                                                                   *)
(***************************************************************************)
KindOf(k)   == IF k \in Entity THEN "entity" ELSE IF k \in Fact THEN "fact" ELSE "task"
Whole(c, n) == n \notin seen[c].cut /\ Cardinality(Matched(c, n)) <= Limit
RecallHonest ==
  \A c \in Caller : Doing(c, "answer") /\ Now(c).how # "tasks" =>
    \A k \in Key \ touched[c], answer \in Answers(c) :
      LET wanted == \/ IsLive(k)
                    \/ Now(c).how = "all" /\ k \notin Task /\ row[k].state = "archived" IN
      /\ k \in answer => wanted
      /\ wanted /\ index[k] # None /\ ScopeOf(k) \in InScope /\ Whole(c, KindOf(k))
           => k \in answer

=============================================================================
