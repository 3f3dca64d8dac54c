----------------------------- MODULE BrainProofs -----------------------------
(***************************************************************************)
(* Proofs of the safety properties of Brain, for every set of records and  *)
(* callers, every matching relation and every bound on the environment.    *)
(***************************************************************************)
EXTENDS Brain, TLAPS

-----------------------------------------------------------------------------
(* The inductive invariant.                                                *)

\* What a script of one kind consists of.
Reads  == {"retain", "list", "list all", "query", "answer", "suggest", "titles", "offer"}
Writes == {"retain", "put", "index", "hint", "relate", "log", "similar", "related", "read"}
Lists  == {"list", "list all"}
Kinds  == {"entity", "fact", "task"}

\* What a relation names: its kind, and the records it is between.
Ties == {"owns", "belongs_to", "runs_in", "mentioned_with", "knows", "assigned_to", "about"}
Tied == Ties \X (Key \cup {Merged}) \X Key

\* The key and the value of a step.
Typed(x) ==
  /\ x.do \in {"put", "index"} => x.key \in Key /\ x.val \in ValOf(x.key)
  /\ x.do = "put" /\ x.how # "name" => x.key \in Task
  /\ x.do \in {"hint", "offer"} => x.key \in Task /\ x.val \in Text
  /\ x.do = "similar" => x.key \in Text /\ x.val \in TaskVal /\ x.val.text = x.key
  /\ x.do = "read" => x.val \in Update
  /\ x.do = "relate" => x.key \in Tied
  /\ x.do = "list all" => x.how # "task"
  /\ x.do = "drop" => x.key \in Key
  /\ x.do = "drop hint" => x.key \in Task

\* A row is followed by its projections, and only the row that was looked up
\* just before comes first.
Writing(s) ==
  /\ \A i \in DOMAIN s : s[i].do \in Writes /\ Typed(s[i])
  /\ \A i \in DOMAIN s : s[i].do = "put" =>
       /\ i + 1 \in DOMAIN s /\ s[i + 1].do = "index"
       /\ s[i + 1].key = s[i].key /\ s[i + 1].val = s[i].val
       /\ s[i].key \in Task =>
            /\ i + 2 \in DOMAIN s /\ s[i + 2].do = "hint"
            /\ s[i + 2].key = s[i].key /\ s[i + 2].val = s[i].val.text
  /\ \A i \in DOMAIN s \ {1} :
       /\ s[i].do = "put" => s[i].how = "name"
       /\ s[i].do = "index" => s[i - 1].do = "put" /\ s[i - 1].key = s[i].key
       /\ s[i].do = "hint" => /\ s[i - 1].do = "index" /\ s[i - 1].key = s[i].key
                              /\ s[i].val = s[i - 1].val.text

Forgetting(s) ==
  /\ \A i \in DOMAIN s : /\ s[i].do \in {"forget", "drop", "drop hint"} /\ Typed(s[i])
                         /\ s[i].key = s[1].key
                         /\ s[i].do = "forget" => i = 1
  /\ s # <<>> /\ s[1].do = "forget" =>
       /\ s[1].how = "archive" => Len(s) = 1
       /\ s[1].how # "archive" /\ s[1].key \in Key => \E i \in DOMAIN s : s[i].do = "drop"
       /\ s[1].how # "archive" /\ s[1].key \in Task => \E i \in DOMAIN s : s[i].do = "drop hint"

\* What is listed is answered, once; each kind is listed and queried once, and after
\* the retention that precedes the answer.
ReadSteps(s)  == \A i \in DOMAIN s : s[i].do \in Reads /\ Typed(s[i])
EndsAnswered(s) ==
  \A i \in DOMAIN s : s[i].do \in Lists \cup {"query"} =>
    \E j \in DOMAIN s : j > i /\ s[j].do = "answer"
Recalling(x) == x.do = "answer" /\ x.how # "tasks"
Pair(x, y, i, j) ==
  /\ x.do = "answer" /\ y.do \in Lists \cup {"query"} => j < i
  /\ x.do = "answer" /\ y.do = "answer" => i = j
  /\ x.do \in Lists /\ y.do \in Lists /\ x.how = y.how => i = j
  /\ x.do = "query" /\ y.do = "query" /\ x.how = y.how => i = j
  /\ Recalling(x) /\ y.do = "list all" => x.how = "all"
  /\ Recalling(x) /\ y.do = "list" /\ y.how \in {"entity", "fact"} => x.how # "all"
RetainsFirst(s) ==
  \A i, j \in DOMAIN s : Recalling(s[i]) /\ s[j].do = "retain" /\ j < i =>
    \A n \in Kinds : /\ \E m \in DOMAIN s : m > j /\ s[m].do \in Lists /\ s[m].how = n
                     /\ \E m \in DOMAIN s : m > j /\ s[m].do = "query" /\ s[m].how = n
Reading(s) ==
  /\ ReadSteps(s) /\ EndsAnswered(s) /\ RetainsFirst(s)
  /\ \A i, j \in DOMAIN s : Pair(s[i], s[j], i, j)

Scripts == \A c \in Slot : Writing(todo[c]) \/ Forgetting(todo[c]) \/ Reading(todo[c])

Sessions ==
  /\ \A c \in Slot : seen[c] # Nothing => \E i \in DOMAIN todo[c] : todo[c][i].do = "answer"
  /\ todo[Boot] # <<>> => up = "starting"

\* A step that writes a projection of k writes what the row of k says.
Fits(x, k) ==
  /\ x.do = "index" => x.val = row[k].val
  /\ x.do \in {"hint", "offer"} => row[k] # Absent /\ x.val = row[k].val.text
  /\ x.do \in {"drop", "drop hint"} => row[k] = Absent

\* What the calls owe the projections of k fits its row; a projection that does not
\* agree with the row is owed.
Sound(k) ==
  /\ \A c \in Slot : \A x \in Owed(todo[c], k) : Fits(x, k)
  /\ \/ index[k] = row[k].val \/ (k \in cascaded /\ row[k] = Absent)
     \/ \E c \in Slot : \E x \in Owed(todo[c], k) : x.do \in {"index", "drop"}
  /\ k \in Task =>
       \/ hint[k] = IF row[k] = Absent THEN None ELSE row[k].val.text
       \/ \E c \in Slot : \E x \in Owed(todo[c], k) : x.do \in {"hint", "drop hint"}
InStep == \A k \in Key \ torn : Sound(k)

\* What a call is about to write after a look-up still holds, or was touched.
Calm(c) == touched[c] \cap Task = {}
Held(c, k, v, how) ==
  /\ how = "found" => k \in touched[c] \/ (IsLive(k) /\ <<row[k].val.text, v.text>> \in Attracts)
  /\ how = "closed" => \/ k \in touched[c]
                       \/ /\ IsLive(k) /\ row[k].val.status \in Active
                          /\ v = [row[k].val EXCEPT !.status = "done"]
  /\ how \in {"kept", "kept text"} /\ Calm(c) /\ k \in InWindow => v.text = row[k].val.text
  /\ how \in {"kept", "kept links"} /\ Calm(c) /\ k \in InWindow => v.links = row[k].val.links
  /\ how = "new" /\ Calm(c) => Similar(v.text) = {}
HeldBy(c) == Doing(c, "put") => Held(c, Now(c).key, Now(c).val, Now(c).how)

\* A fact is written after its entity.
Contexts == {t.context : t \in Tool}
GroundedIn(c, s) ==
  \A i \in DOMAIN s : s[i].do = "put" /\ s[i].key \in Fact \ Contexts =>
    \/ \E j \in 1..(i - 1) : s[j].do = "put" /\ s[j].key = EntityOf[s[i].key]
    \/ IsLive(EntityOf[s[i].key])
    \/ EntityOf[s[i].key] \in touched[c]
GroundedBy(c) == GroundedIn(c, todo[c])

\* What a recall has listed and hit so far.
Wanted(k, how) == IsLive(k) \/ (how = "all" /\ k \notin Task /\ row[k].state = "archived")
Pending(s, do, n) == \E j \in DOMAIN s : s[j].do \in do /\ s[j].how = n

RecallsIn(c, s) ==
  \A i \in DOMAIN s : Recalling(s[i]) =>
    \A k \in Key \ touched[c] :
      /\ k \in seen[c].listed => ~Pending(s, Lists, KindOf(k)) /\ Wanted(k, s[i].how)
      /\ k \in seen[c].fits => k \in seen[c].listed
      /\ KindOf(k) \notin seen[c].cut /\ ~Pending(s, Lists, KindOf(k)) /\ Wanted(k, s[i].how)
           => /\ k \in seen[c].listed
              /\ ScopeOf(k) \in InScope => k \in seen[c].fits
      /\ KindOf(k) \notin seen[c].cut /\ ~Pending(s, {"query"}, KindOf(k)) /\ index[k] # None
           => k \in seen[c].hits
RecallsBy(c) == RecallsIn(c, todo[c])
Honest == \A c \in Slot : HeldBy(c) /\ GroundedBy(c) /\ RecallsBy(c)

\* Types that TypeOK leaves open.
Val     == {None} \cup TaskVal \cup Fact \cup Content
Words   == {None, "name", "found", "closed", "kept", "kept text", "kept links", "new",
            "blind", "archive", "delete", "entity", "fact", "task", "relation", "all", "live", "tasks"}
Names   == Key \cup Text \cup {g.key : g \in Target} \cup {None} \cup {t.name : t \in Tool}
             \cup Tied
StepRec == [do : Steps, key : Names, val : Val \cup Text \cup Update \cup [kind : Kind],
            how : Words]
TypePart ==
  /\ row \in [Key -> [state : {"absent", "live", "archived"}, val : Val]]
  /\ index \in [Key -> Val \cup {Foreign}]
  /\ todo \in [Slot -> Seq(StepRec)]
  /\ touched \in [Slot -> SUBSET Key]
  /\ seen = [c \in Slot |-> [listed |-> seen[c].listed, fits |-> seen[c].fits,
                              links |-> seen[c].links, ties |-> seen[c].ties,
                              hits |-> seen[c].hits, cut |-> seen[c].cut]]

IInv == TypeOK /\ TypePart /\ Scripts /\ Sessions /\ InStep /\ Honest


-----------------------------------------------------------------------------
(* Scripts.                                                                *)

LEMMA Tails ==
  ASSUME NEW S, NEW s \in Seq(S), s # <<>>
  PROVE  /\ Tail(s) \in Seq(S) /\ Len(Tail(s)) = Len(s) - 1 /\ Len(s) \in Nat
         /\ Len(s) > 0 /\ DOMAIN s = 1..Len(s) /\ DOMAIN Tail(s) = 1..(Len(s) - 1)
         /\ \A i \in DOMAIN Tail(s) : i + 1 \in DOMAIN s /\ Tail(s)[i] = s[i + 1]
         /\ Head(s) = s[1] /\ 1 \in DOMAIN s
OBVIOUS

LEMMA Joined ==
  ASSUME NEW S, NEW s \in Seq(S), NEW t \in Seq(S)
  PROVE  /\ s \o t \in Seq(S) /\ Len(s \o t) = Len(s) + Len(t)
         /\ Len(s) \in Nat /\ Len(t) \in Nat
         /\ DOMAIN s = 1..Len(s) /\ DOMAIN t = 1..Len(t)
         /\ DOMAIN (s \o t) = 1..(Len(s) + Len(t))
         /\ \A i \in 1..Len(s) : (s \o t)[i] = s[i]
         /\ \A i \in 1..Len(t) : (s \o t)[Len(s) + i] = t[i]
OBVIOUS

LEMMA Appended ==
  ASSUME NEW S, NEW p \in Seq(S), NEW z \in S
  PROVE  /\ p \o <<z>> \in Seq(S) /\ Len(p \o <<z>>) = Len(p) + 1
         /\ \A i \in 1..Len(p) : (p \o <<z>>)[i] = p[i]
         /\ (p \o <<z>>)[Len(p) + 1] = z
<1>0. <<z>> \in Seq(S)
  OBVIOUS
<1>1. PICK q \in Seq(S) : q = <<z>>
  BY <1>0
<1>2. Len(q) = 1 /\ q[1] = z
  BY <1>1
<1>3. /\ p \o q \in Seq(S) /\ Len(p \o q) = Len(p) + Len(q)
      /\ \A i \in 1..Len(p) : (p \o q)[i] = p[i]
      /\ \A i \in 1..Len(q) : (p \o q)[Len(p) + i] = q[i]
  BY Joined
<1>4. (p \o q)[Len(p) + 1] = q[1]
  BY <1>2, <1>3
<1>. QED
  BY <1>1, <1>2, <1>3, <1>4

LEMMA WritingTail ==
  ASSUME NEW s \in Seq(StepRec), s # <<>>, Writing(s)
  PROVE  Writing(Tail(s))
<1> DEFINE t == Tail(s)
<1> HIDE DEF t
<1>1. /\ Len(s) \in Nat /\ Len(s) > 0 /\ DOMAIN s = 1..Len(s) /\ DOMAIN t = 1..(Len(s) - 1)
      /\ \A i \in DOMAIN t : i + 1 \in DOMAIN s /\ t[i] = s[i + 1]
  BY Tails DEF t
<1>2. \A i \in DOMAIN t : t[i].do \in Writes /\ Typed(t[i])
  BY <1>1 DEF Writing
<1>3. \A i \in DOMAIN t : t[i].do = "put" =>
       /\ i + 1 \in DOMAIN t /\ t[i + 1].do = "index"
       /\ t[i + 1].key = t[i].key /\ t[i + 1].val = t[i].val
       /\ t[i].key \in Task =>
            /\ i + 2 \in DOMAIN t /\ t[i + 2].do = "hint"
            /\ t[i + 2].key = t[i].key /\ t[i + 2].val = t[i].val.text
  <2> SUFFICES ASSUME NEW i \in DOMAIN t, t[i].do = "put"
               PROVE  /\ i + 1 \in DOMAIN t /\ t[i + 1].do = "index"
                      /\ t[i + 1].key = t[i].key /\ t[i + 1].val = t[i].val
                      /\ t[i].key \in Task =>
                           /\ i + 2 \in DOMAIN t /\ t[i + 2].do = "hint"
                           /\ t[i + 2].key = t[i].key /\ t[i + 2].val = t[i].val.text
    OBVIOUS
  <2>1. i + 1 \in DOMAIN s /\ s[i + 1].do = "put" /\ s[i + 1] = t[i] /\ i \in Nat
    BY <1>1
  <2>2. i + 2 \in DOMAIN s /\ s[i + 2].do = "index" /\ s[i + 2].key = s[i + 1].key
        /\ s[i + 2].val = s[i + 1].val /\ i + 1 \in DOMAIN t /\ t[i + 1] = s[i + 2]
    BY <1>1, <2>1 DEF Writing
  <2>3. CASE t[i].key \in Task
    <3>1. i + 3 \in DOMAIN s /\ s[i + 3].do = "hint" /\ s[i + 3].key = s[i + 1].key
          /\ s[i + 3].val = s[i + 1].val.text /\ i + 2 \in DOMAIN t /\ t[i + 2] = s[i + 3]
      BY <1>1, <2>1, <2>3 DEF Writing
    <3>. QED
      BY <2>1, <2>2, <3>1
  <2>. QED
    BY <2>1, <2>2, <2>3
<1>4. \A i \in DOMAIN t \ {1} :
       /\ t[i].do = "put" => t[i].how = "name"
       /\ t[i].do = "index" => t[i - 1].do = "put" /\ t[i - 1].key = t[i].key
       /\ t[i].do = "hint" => /\ t[i - 1].do = "index" /\ t[i - 1].key = t[i].key
                              /\ t[i].val = t[i - 1].val.text
  <2> TAKE i \in DOMAIN t \ {1}
  <2>1. i + 1 \in DOMAIN s \ {1} /\ t[i] = s[i + 1] /\ i - 1 \in DOMAIN t /\ t[i - 1] = s[i]
        /\ (i + 1) - 1 = i
    BY <1>1
  <2>. QED
    BY <2>1 DEF Writing
<1>. QED
  BY <1>2, <1>3, <1>4 DEF Writing, t

LEMMA ForgettingTail ==
  ASSUME NEW s \in Seq(StepRec), s # <<>>, Forgetting(s)
  PROVE  Forgetting(Tail(s))
<1> DEFINE t == Tail(s)
<1> HIDE DEF t
<1>1. /\ Len(s) \in Nat /\ DOMAIN s = 1..Len(s) /\ DOMAIN t = 1..(Len(s) - 1)
      /\ \A i \in DOMAIN t : i + 1 \in DOMAIN s /\ t[i] = s[i + 1]
      /\ t \in Seq(StepRec)
  BY Tails DEF t
<1>2. \A i \in DOMAIN t : /\ t[i].do \in {"forget", "drop", "drop hint"} /\ Typed(t[i])
                          /\ t[i].key = s[1].key /\ t[i].do # "forget"
  <2> TAKE i \in DOMAIN t
  <2>1. i + 1 \in DOMAIN s /\ t[i] = s[i + 1] /\ i + 1 # 1
    BY <1>1
  <2>. QED
    BY <2>1 DEF Forgetting
<1>3. t # <<>> => 1 \in DOMAIN t
  BY <1>1
<1>4. \A i \in DOMAIN t : t[i].key = t[1].key
  <2> TAKE i \in DOMAIN t
  <2>1. 1 \in DOMAIN t
    BY <1>1
  <2>. QED
    BY <1>2, <2>1
<1>. QED
  BY <1>2, <1>3, <1>4 DEF Forgetting, t

LEMMA ReadingTail ==
  ASSUME NEW s \in Seq(StepRec), s # <<>>, Reading(s)
  PROVE  Reading(Tail(s))
<1> DEFINE t == Tail(s)
<1> HIDE DEF t
<1>1. /\ Len(s) \in Nat /\ DOMAIN s = 1..Len(s) /\ DOMAIN t = 1..(Len(s) - 1)
      /\ \A i \in DOMAIN t : i + 1 \in DOMAIN s /\ t[i] = s[i + 1] /\ i \in Nat
      /\ \A j \in DOMAIN s \ {1} : j - 1 \in DOMAIN t /\ t[j - 1] = s[j] /\ j \in Nat
  BY Tails DEF t
<1>0. /\ ReadSteps(s) /\ EndsAnswered(s) /\ RetainsFirst(s)
      /\ \A i, j \in DOMAIN s : Pair(s[i], s[j], i, j)
  BY DEF Reading
<1>2. ReadSteps(t)
  BY <1>0, <1>1 DEF ReadSteps
<1>3. EndsAnswered(t)
  <2> SUFFICES ASSUME NEW i \in DOMAIN t, t[i].do \in Lists \cup {"query"}
               PROVE  \E j \in DOMAIN t : j > i /\ t[j].do = "answer"
    BY DEF EndsAnswered
  <2>1. PICK j \in DOMAIN s : j > i + 1 /\ s[j].do = "answer"
    BY <1>0, <1>1 DEF EndsAnswered
  <2>2. j - 1 \in DOMAIN t /\ j - 1 > i /\ t[j - 1].do = "answer"
    BY <1>1, <2>1
  <2>. QED
    BY <2>2
<1>4. \A i, j \in DOMAIN t : Pair(t[i], t[j], i, j)
  <2> TAKE i, j \in DOMAIN t
  <2>1. /\ i + 1 = j + 1 <=> i = j
        /\ j + 1 < i + 1 <=> j < i
    BY <1>1
  <2>2. Pair(s[i + 1], s[j + 1], i + 1, j + 1) /\ t[i] = s[i + 1] /\ t[j] = s[j + 1]
    BY <1>0, <1>1
  <2>. QED
    BY <2>1, <2>2 DEF Pair
<1>5. RetainsFirst(t)
  <2> SUFFICES ASSUME NEW i \in DOMAIN t, NEW j \in DOMAIN t,
                      Recalling(t[i]), t[j].do = "retain", j < i, NEW n \in Kinds
               PROVE  /\ \E m \in DOMAIN t : m > j /\ t[m].do \in Lists /\ t[m].how = n
                      /\ \E m \in DOMAIN t : m > j /\ t[m].do = "query" /\ t[m].how = n
    BY DEF RetainsFirst
  <2>1. /\ i + 1 \in DOMAIN s /\ j + 1 \in DOMAIN s /\ j + 1 < i + 1
        /\ Recalling(s[i + 1]) /\ s[j + 1].do = "retain"
    BY <1>1
  <2>2. PICK m \in DOMAIN s : m > j + 1 /\ s[m].do \in Lists /\ s[m].how = n
    BY <1>0, <2>1 DEF RetainsFirst
  <2>3. PICK q \in DOMAIN s : q > j + 1 /\ s[q].do = "query" /\ s[q].how = n
    BY <1>0, <2>1 DEF RetainsFirst
  <2>4. /\ m - 1 \in DOMAIN t /\ m - 1 > j /\ t[m - 1] = s[m]
        /\ q - 1 \in DOMAIN t /\ q - 1 > j /\ t[q - 1] = s[q]
    BY <1>1, <2>2, <2>3
  <2>. QED
    BY <2>2, <2>3, <2>4
<1>. QED
  BY <1>2, <1>3, <1>4, <1>5 DEF Reading, t

\* A script that can follow another: it does not start in the middle of an upsert.
Opens(s) == s # <<>> => /\ s[1].do \notin {"index", "hint"}
                        /\ s[1].do = "put" => s[1].how = "name"

LEMMA WritingJoined ==
  ASSUME NEW s \in Seq(StepRec), NEW t \in Seq(StepRec), Writing(s), Writing(t), Opens(t)
  PROVE  Writing(s \o t) /\ s \o t \in Seq(StepRec)
<1> DEFINE r == s \o t
           n == Len(s)
<1> HIDE DEF r
<1>1. /\ n \in Nat /\ Len(t) \in Nat /\ DOMAIN s = 1..n /\ DOMAIN t = 1..Len(t)
      /\ DOMAIN r = 1..(n + Len(t)) /\ r \in Seq(StepRec)
      /\ \A i \in 1..n : r[i] = s[i]
      /\ \A i \in 1..Len(t) : r[n + i] = t[i]
  BY Joined DEF r
<1>2. \A i \in DOMAIN r : \/ i \in 1..n /\ r[i] = s[i]
                          \/ i > n /\ i - n \in DOMAIN t /\ r[i] = t[i - n] /\ i - n \in Nat
  <2> TAKE i \in DOMAIN r
  <2>1. CASE i \in 1..n
    BY <1>1, <2>1
  <2>2. CASE i \notin 1..n
    <3>1. i > n /\ i - n \in 1..Len(t) /\ n + (i - n) = i
      BY <1>1, <2>2
    <3>2. r[n + (i - n)] = t[i - n]
      BY <1>1, <3>1
    <3>. QED
      BY <1>1, <3>1, <3>2
  <2>. QED
    BY <2>1, <2>2
<1>3. \A i \in DOMAIN r : r[i].do \in Writes /\ Typed(r[i])
  BY <1>1, <1>2 DEF Writing
<1>4. ASSUME NEW i \in DOMAIN r, r[i].do = "put"
      PROVE  /\ i + 1 \in DOMAIN r /\ r[i + 1].do = "index"
             /\ r[i + 1].key = r[i].key /\ r[i + 1].val = r[i].val
             /\ r[i].key \in Task =>
                  /\ i + 2 \in DOMAIN r /\ r[i + 2].do = "hint"
                  /\ r[i + 2].key = r[i].key /\ r[i + 2].val = r[i].val.text
  <2>1. CASE i \in 1..n /\ r[i] = s[i]
    <3>1. /\ i + 1 \in 1..n /\ s[i + 1].do = "index" /\ s[i + 1].key = s[i].key
          /\ s[i + 1].val = s[i].val
          /\ s[i].key \in Task => /\ i + 2 \in 1..n /\ s[i + 2].do = "hint"
                                  /\ s[i + 2].key = s[i].key /\ s[i + 2].val = s[i].val.text
      BY <1>1, <1>4, <2>1 DEF Writing
    <3>2. i + 1 \in DOMAIN r /\ r[i + 1] = s[i + 1]
          /\ (i + 2 \in 1..n => i + 2 \in DOMAIN r /\ r[i + 2] = s[i + 2])
      BY <1>1, <3>1
    <3>. QED
      BY <2>1, <3>1, <3>2
  <2>2. CASE i > n /\ i - n \in DOMAIN t /\ r[i] = t[i - n]
    <3> DEFINE j == i - n
    <3>1. j \in DOMAIN t /\ j \in Nat /\ i = n + j /\ i + 1 = n + (j + 1) /\ i + 2 = n + (j + 2)
      BY <1>1, <2>2
    <3> HIDE DEF j
    <3>2. r[i] = t[j]
      BY <2>2 DEF j
    <3>3. /\ j + 1 \in DOMAIN t /\ t[j + 1].do = "index" /\ t[j + 1].key = t[j].key
          /\ t[j + 1].val = t[j].val
          /\ t[j].key \in Task => /\ j + 2 \in DOMAIN t /\ t[j + 2].do = "hint"
                                  /\ t[j + 2].key = t[j].key /\ t[j + 2].val = t[j].val.text
      BY <1>1, <1>4, <3>1, <3>2 DEF Writing
    <3>4. i + 1 \in DOMAIN r /\ r[i + 1] = t[j + 1]
          /\ (j + 2 \in DOMAIN t => i + 2 \in DOMAIN r /\ r[i + 2] = t[j + 2])
      BY <1>1, <3>1, <3>3
    <3>. QED
      BY <3>2, <3>3, <3>4
  <2>. QED
    BY <1>2, <2>1, <2>2
<1>5. ASSUME NEW i \in DOMAIN r \ {1}
      PROVE  /\ r[i].do = "put" => r[i].how = "name"
             /\ r[i].do = "index" => r[i - 1].do = "put" /\ r[i - 1].key = r[i].key
             /\ r[i].do = "hint" => /\ r[i - 1].do = "index" /\ r[i - 1].key = r[i].key
                                    /\ r[i].val = r[i - 1].val.text
  <2>1. CASE i \in 1..n /\ r[i] = s[i]
    <3>1. i - 1 \in 1..n /\ r[i - 1] = s[i - 1] /\ i \in DOMAIN s \ {1}
      BY <1>1, <2>1
    <3>. QED
      BY <2>1, <3>1 DEF Writing
  <2>2. CASE i > n /\ i - n \in DOMAIN t /\ r[i] = t[i - n]
    <3> DEFINE j == i - n
    <3>1. j \in DOMAIN t /\ j \in Nat /\ i = n + j /\ i - 1 = n + (j - 1)
      BY <1>1, <2>2
    <3> HIDE DEF j
    <3>2. r[i] = t[j]
      BY <2>2 DEF j
    <3>3. CASE j = 1
      BY <1>1, <3>2, <3>1, <3>3 DEF Opens
    <3>4. CASE j # 1
      <4>1. j - 1 \in 1..Len(t) /\ r[i - 1] = t[j - 1] /\ j \in DOMAIN t \ {1}
        BY <1>1, <3>1, <3>4
      <4>. QED
        BY <3>2, <4>1 DEF Writing
    <3>. QED
      BY <3>3, <3>4
  <2>. QED
    BY <1>2, <2>1, <2>2
<1>. QED
  BY <1>1, <1>3, <1>4, <1>5 DEF Writing, r

-----------------------------------------------------------------------------
(* The scripts of the operations.                                          *)

\* The steps are steps.
LEMMA NoneTypes == None \in Names /\ None \in Val /\ None \in Words /\ "name" \in Words
BY DEF Names, Val, Words

LEMMA StepTypes ==
  ASSUME NEW k \in Names, NEW v \in Val \cup Text \cup Update, NEW do \in Steps
  PROVE  Step(do, k, v) \in StepRec
BY NoneTypes DEF Step, StepRec

LEMMA ReadTypes ==
  ASSUME NEW do \in Steps, NEW how \in Words
  PROVE  Read(do, how) \in StepRec
BY NoneTypes DEF Read, StepRec

LEMMA PutTypes ==
  ASSUME NEW k \in Names, NEW v \in Val \cup Text \cup Update, NEW how \in Words
  PROVE  Put(k, v, how) \in StepRec
<1>1. "put" \in Steps
  BY DEF Steps
<1>. QED
  BY <1>1 DEF Put, StepRec

Linking(x) == x \in StepRec /\ x.do = "relate" /\ Typed(x)

LEMMA RelateTypes ==
  ASSUME NEW kind \in Ties, NEW a \in Key \cup {Merged}, NEW b \in Key
  PROVE  Linking(Relate(kind, a, b))
<1>1. <<kind, a, b>> \in Tied /\ <<kind, a, b>> \in Names /\ "relate" \in Steps /\ None \in Val
  BY DEF Tied, Names, Steps, Val
<1>2. Relate(kind, a, b) \in StepRec
  BY <1>1, StepTypes DEF Relate
<1>. QED
  BY <1>1, <1>2 DEF Linking, Relate, Step, Typed

\* A script that writes, from its beginning.
Plan(s) == s \in Seq(StepRec) /\ Writing(s) /\ Opens(s)

LEMMA PlanJoined ==
  ASSUME NEW s, NEW t, Plan(s), Plan(t)
  PROVE  Plan(s \o t)
<1>1. s \in Seq(StepRec) /\ t \in Seq(StepRec) /\ Writing(s) /\ Writing(t) /\ Opens(s) /\ Opens(t)
  BY DEF Plan
<1>2. Writing(s \o t) /\ s \o t \in Seq(StepRec)
  BY <1>1, WritingJoined
<1>3. Opens(s \o t)
  <2>1. CASE s = <<>>
    BY <1>1, <2>1 DEF Opens
  <2>2. CASE s # <<>>
    <3>1. (s \o t)[1] = s[1]
      BY <1>1, <2>2, Joined
    <3>. QED
      BY <1>1, <2>2, <3>1 DEF Opens
  <2>. QED
    BY <2>1, <2>2
<1>. QED
  BY <1>2, <1>3 DEF Plan

\* An entity or a fact, and a task.
LEMMA PlanOfUpsert ==
  ASSUME NEW k \in Key \ Task, NEW v \in ValOf(k)
  PROVE  Plan(Upsert(k, v))
<1> DEFINE s == Upsert(k, v)
<1>0. v \in Val
  BY DEF ValOf, Val
<1>1. k \in Names /\ "index" \in Steps /\ "name" \in Words
  BY DEF Names, Steps, Words
<1>2. Put(k, v, "name") \in StepRec /\ Step("index", k, v) \in StepRec
  BY <1>0, <1>1, StepTypes, PutTypes
<1>3. /\ s \in Seq(StepRec) /\ DOMAIN s = {1, 2}
      /\ s[1] = Put(k, v, "name") /\ s[2] = Step("index", k, v)
  BY <1>2 DEF Upsert
<1> HIDE DEF s
<1>4. /\ s[1].do = "put" /\ s[1].key = k /\ s[1].val = v /\ s[1].how = "name"
      /\ s[2].do = "index" /\ s[2].key = k /\ s[2].val = v
  BY <1>3 DEF Put, Step
<1>5. Typed(s[1]) /\ Typed(s[2])
  BY <1>4 DEF Typed
<1>6. Writing(s)
  BY <1>3, <1>4, <1>5 DEF Writing, Writes
<1>7. Opens(s)
  BY <1>4 DEF Opens
<1>. QED
  BY <1>3, <1>6, <1>7 DEF Plan, s

LEMMA TaskUpsert ==
  ASSUME NEW t \in Task, NEW v \in TaskVal, NEW how \in Words
  PROVE  LET s == UpsertTask(t, v, how) IN
         /\ s \in Seq(StepRec) /\ Writing(s) /\ Len(s) = 3 /\ DOMAIN s = {1, 2, 3}
         /\ s[1] = Put(t, v, how) /\ s[2].do = "index" /\ s[3].do = "hint"
<1> DEFINE s == UpsertTask(t, v, how)
<1>1. v \in Val /\ t \in Names /\ v.text \in Text /\ t \in Key /\ v \in ValOf(t)
  BY DEF Val, Names, Key, TaskVal, ValOf
<1>2. /\ Put(t, v, how) \in StepRec /\ Step("index", t, v) \in StepRec
      /\ Step("hint", t, v.text) \in StepRec
  BY <1>1, StepTypes, PutTypes DEF Steps
<1>3. /\ s \in Seq(StepRec) /\ DOMAIN s = {1, 2, 3} /\ Len(s) = 3
      /\ s[1] = Put(t, v, how) /\ s[2] = Step("index", t, v)
      /\ s[3] = Step("hint", t, v.text)
  BY <1>2 DEF UpsertTask
<1> HIDE DEF s
<1>4. /\ s[1].do = "put" /\ s[1].key = t /\ s[1].val = v /\ s[1].how = how
      /\ s[2].do = "index" /\ s[2].key = t /\ s[2].val = v
      /\ s[3].do = "hint" /\ s[3].key = t /\ s[3].val = v.text
  BY <1>3 DEF Put, Step
<1>5. Typed(s[1]) /\ Typed(s[2]) /\ Typed(s[3])
  BY <1>1, <1>4 DEF Typed
<1>6. Writing(s)
  BY <1>3, <1>4, <1>5 DEF Writing, Writes
<1>. QED
  BY <1>3, <1>4, <1>6 DEF s

\* The value an entity is observed with.
LEMMA ObservedContent == Observed \in Content
BY BrainAssumption DEF Observed

LEMMA EntityVal ==
  ASSUME NEW e \in Entity
  PROVE  e \in Key \ Task /\ \A v \in Content : v \in ValOf(e)
BY BrainAssumption DEF Key, ValOf

LEMMA FactVal ==
  ASSUME NEW f \in Fact
  PROVE  f \in Key \ Task /\ f \in ValOf(f)
BY BrainAssumption DEF Key, ValOf

\* Three steps for each entity a message mentions.
LEMMA PlanOfMentions ==
  ASSUME NEW m \in Message
  PROVE  /\ Plan(Mentions(m))
         /\ \A i \in DOMAIN Mentions(m) : Mentions(m)[i].do = "put" =>
                                            Mentions(m)[i].key \in Entity
<1> DEFINE s == Mentions(m)
           n == Len(m.mentions)
           at(i) == m.mentions[(i + 2) \div 3]
<1>1. m.from \in Entity /\ m.mentions \in Seq(Entity) /\ n \in Nat
  BY RequestAssumption
<1>2. ASSUME NEW i \in 1..(3 * n)
      PROVE  /\ (i + 2) \div 3 \in 1..n /\ at(i) \in Entity
             /\ i % 3 \in {0, 1, 2} /\ i \in Nat
             /\ i % 3 = 1 => /\ (i + 2) % 3 = 0 /\ i + 1 \in 1..(3 * n)
                             /\ (i + 1) % 3 = 2 /\ (i + 3) \div 3 = (i + 2) \div 3
             /\ i % 3 = 2 => /\ (i + 2) % 3 = 1 /\ i - 1 \in 1..(3 * n) /\ (i - 1) % 3 = 1
                             /\ (i + 1) \div 3 = (i + 2) \div 3
             /\ i % 3 = 0 => (i + 2) % 3 = 2
  <2>1. (i + 2) \div 3 \in 1..n
    BY <1>1
  <2>2. at(i) \in Entity
    BY <1>1, <2>1
  <2>3. /\ i % 3 \in {0, 1, 2} /\ i \in Nat
        /\ i % 3 = 1 => /\ (i + 2) % 3 = 0 /\ i + 1 \in 1..(3 * n)
                        /\ (i + 1) % 3 = 2 /\ (i + 3) \div 3 = (i + 2) \div 3
        /\ i % 3 = 2 => /\ (i + 2) % 3 = 1 /\ i - 1 \in 1..(3 * n) /\ (i - 1) % 3 = 1
                        /\ (i + 1) \div 3 = (i + 2) \div 3
        /\ i % 3 = 0 => (i + 2) % 3 = 2
    BY <1>1
  <2>. QED
    BY <2>1, <2>2, <2>3
<1>3. ASSUME NEW e \in Entity
      PROVE  /\ Mention(m.from, e)[1] = Put(e, Observed, "name")
             /\ Mention(m.from, e)[2] = Step("index", e, Observed)
             /\ Mention(m.from, e)[3] = Relate("mentioned_with", m.from, e)
  <2> DEFINE a == Put(e, Observed, "name")
             b == Step("index", e, Observed)
             c == Relate("mentioned_with", m.from, e)
  <2>1. Mention(m.from, e) = <<a, b>> \o <<c>>
    BY DEF Mention, Upsert
  <2> HIDE DEF a, b, c
  <2>2. /\ (<<a, b>> \o <<c>>)[1] = a /\ (<<a, b>> \o <<c>>)[2] = b
        /\ (<<a, b>> \o <<c>>)[3] = c
    OBVIOUS
  <2>. QED
    BY <2>1, <2>2 DEF a, b, c
<1>4. DOMAIN s = 1..(3 * n)
  BY DEF Mentions
<1>5. ASSUME NEW i \in 1..(3 * n)
      PROVE  /\ i % 3 = 1 => s[i] = Put(at(i), Observed, "name")
             /\ i % 3 = 2 => s[i] = Step("index", at(i), Observed)
             /\ i % 3 = 0 => s[i] = Relate("mentioned_with", m.from, at(i))
  <2>1. s[i] = Mention(m.from, at(i))[1 + ((i + 2) % 3)]
    BY DEF Mentions
  <2>. QED
    BY <1>2, <1>3, <2>1
<1>6. ASSUME NEW i \in 1..(3 * n)
      PROVE  s[i] \in StepRec
  <2>1. at(i) \in Key /\ at(i) \in Names /\ Observed \in Val /\ "index" \in Steps
        /\ "name" \in Words
    BY <1>2, ObservedContent DEF Key, Names, Val, Steps, Words
  <2>2. Relate("mentioned_with", m.from, at(i)) \in StepRec
    BY <1>1, <2>1, RelateTypes DEF Key, Ties, Linking
  <2>3. Put(at(i), Observed, "name") \in StepRec /\ Step("index", at(i), Observed) \in StepRec
    BY <2>1, StepTypes, PutTypes
  <2>. QED
    BY <1>2, <1>5, <2>2, <2>3
<1>7. s \in Seq(StepRec)
  <2>1. 3 * n \in Nat /\ s = [i \in 1..(3 * n) |-> s[i]]
    BY <1>1 DEF Mentions
  <2>. HIDE DEF s
  <2>. QED
    BY <1>6, <2>1
<1> HIDE DEF s
<1>8. ASSUME NEW i \in DOMAIN s
      PROVE  /\ s[i].do = "put" <=> i % 3 = 1
             /\ s[i].do = "index" <=> i % 3 = 2
             /\ s[i].do \in {"put", "index", "relate"}
             /\ s[i].do # "relate" => s[i].key = at(i) /\ s[i].val = Observed
             /\ s[i].do = "put" => s[i].how = "name"
  <2>1. i % 3 \in {0, 1, 2}
    BY <1>2, <1>4
  <2>2. CASE i % 3 = 1
    <3>1. s[i] = Put(at(i), Observed, "name")
      BY <1>4, <1>5, <2>2
    <3>. QED
      BY <2>2, <3>1 DEF Put
  <2>3. CASE i % 3 = 2
    <3>1. s[i] = Step("index", at(i), Observed)
      BY <1>4, <1>5, <2>3
    <3>. QED
      BY <2>3, <3>1 DEF Step
  <2>4. CASE i % 3 = 0
    <3>1. s[i] = Relate("mentioned_with", m.from, at(i))
      BY <1>4, <1>5, <2>4
    <3>. QED
      BY <2>4, <3>1 DEF Step, Relate
  <2>. QED
    BY <2>1, <2>2, <2>3, <2>4
<1>9. ASSUME NEW i \in DOMAIN s
      PROVE  /\ Typed(s[i])
             /\ s[i].do = "put" => s[i].key \in Entity
  <2>1. at(i) \in Entity /\ at(i) \in Key \ Task /\ Observed \in ValOf(at(i))
    BY <1>2, <1>4, EntityVal, ObservedContent
  <2>2. CASE s[i].do = "relate"
    <3>1. i % 3 \in {0, 1, 2} /\ ~(i % 3 = 1) /\ ~(i % 3 = 2)
      BY <1>2, <1>4, <1>8, <2>2
    <3>2. s[i] = Relate("mentioned_with", m.from, at(i))
      BY <1>4, <1>5, <3>1
    <3>3. Typed(s[i])
      BY <1>1, <2>1, <3>2, RelateTypes DEF Key, Ties, Linking
    <3>. QED
      BY <2>2, <3>3
  <2>3. CASE s[i].do # "relate"
    BY <1>8, <2>1, <2>3 DEF Typed
  <2>. QED
    BY <2>2, <2>3
<1>10. ASSUME NEW i \in DOMAIN s, s[i].do = "put"
       PROVE  /\ i + 1 \in DOMAIN s /\ s[i + 1].do = "index"
              /\ s[i + 1].key = s[i].key /\ s[i + 1].val = s[i].val
              /\ s[i].key \notin Task
  <2>1. i % 3 = 1 /\ i + 1 \in DOMAIN s /\ (i + 1) % 3 = 2 /\ (i + 3) \div 3 = (i + 2) \div 3
        /\ (i + 1) + 2 = i + 3
    <3>1. i \in 1..(3 * n) /\ i % 3 = 1
      BY <1>4, <1>8, <1>10
    <3>2. i \in Nat
      BY <3>1, <1>1
    <3>3. /\ i + 1 \in 1..(3 * n) /\ (i + 1) % 3 = 2
          /\ (i + 3) \div 3 = (i + 2) \div 3
      BY <1>2, <3>1
    <3>4. (i + 1) + 2 = i + 3
      BY <3>2
    <3>. QED
      BY <1>4, <3>1, <3>3, <3>4
  <2>2. at(i + 1) = at(i)
    BY <2>1
  <2>3. s[i].key \notin Task
    BY <1>9, <1>10, EntityVal
  <2>. QED
    BY <1>8, <1>10, <2>1, <2>2, <2>3
<1>11. ASSUME NEW i \in DOMAIN s \ {1}, s[i].do = "index"
       PROVE  s[i - 1].do = "put" /\ s[i - 1].key = s[i].key
  <2>1. i % 3 = 2 /\ i - 1 \in DOMAIN s /\ (i - 1) % 3 = 1 /\ (i + 1) \div 3 = (i + 2) \div 3
        /\ (i - 1) + 2 = i + 1
    BY <1>2, <1>4, <1>8, <1>11
  <2>2. at(i - 1) = at(i)
    BY <2>1
  <2>. QED
    BY <1>8, <1>11, <2>1, <2>2
<1>12. Writing(s)
  BY <1>8, <1>9, <1>10, <1>11 DEF Writing, Writes
<1>13. Opens(s)
  <2>1. s # <<>> => 1 \in DOMAIN s
    BY <1>7
  <2>. QED
    BY <1>8, <2>1 DEF Opens
<1>. QED
  BY <1>7, <1>9, <1>12, <1>13 DEF Plan, s

\* Steps that write no record.
LEMMA PlanOfOthers ==
  ASSUME NEW s \in Seq(StepRec),
         \A i \in DOMAIN s : Typed(s[i]) /\ s[i].do \in Writes \ {"put", "index", "hint"}
  PROVE  Plan(s)
<1>1. Writing(s)
  BY DEF Writing
<1>2. s # <<>> => 1 \in DOMAIN s
  OBVIOUS
<1>3. Opens(s)
  BY <1>2 DEF Opens
<1>. QED
  BY <1>1, <1>3 DEF Plan

\* The records a script writes, and whether each fact comes after its entity.
Puts(s)  == {s[i].key : i \in {j \in DOMAIN s : s[j].do = "put"}}
Based(s) ==
  \A i \in DOMAIN s : s[i].do = "put" /\ s[i].key \in Fact \ Contexts =>
    \E j \in 1..(i - 1) : s[j].do = "put" /\ s[j].key = EntityOf[s[i].key]

LEMMA PutsJoined ==
  ASSUME NEW s \in Seq(StepRec), NEW t \in Seq(StepRec)
  PROVE  Puts(s \o t) = Puts(s) \cup Puts(t)
<1> DEFINE r == s \o t
           n == Len(s)
<1> HIDE DEF r
<1>1. /\ n \in Nat /\ Len(t) \in Nat /\ DOMAIN s = 1..n /\ DOMAIN t = 1..Len(t)
      /\ DOMAIN r = 1..(n + Len(t))
      /\ \A i \in 1..n : r[i] = s[i]
      /\ \A i \in 1..Len(t) : r[n + i] = t[i]
  BY Joined DEF r
<1>2. ASSUME NEW k \in Puts(r) PROVE k \in Puts(s) \cup Puts(t)
  <2>1. PICK i \in DOMAIN r : r[i].do = "put" /\ r[i].key = k
    BY DEF Puts
  <2>2. CASE i \in 1..n
    BY <1>1, <2>1, <2>2 DEF Puts
  <2>3. CASE i \notin 1..n
    <3>1. i - n \in 1..Len(t) /\ n + (i - n) = i
      BY <1>1, <2>1, <2>3
    <3>2. r[n + (i - n)] = t[i - n]
      BY <1>1, <3>1
    <3>. QED
      BY <1>1, <2>1, <3>1, <3>2 DEF Puts
  <2>. QED
    BY <2>2, <2>3
<1>3. ASSUME NEW k \in Puts(s) PROVE k \in Puts(r)
  <2>1. PICK i \in DOMAIN s : s[i].do = "put" /\ s[i].key = k
    BY DEF Puts
  <2>2. i \in DOMAIN r /\ r[i] = s[i]
    BY <1>1, <2>1
  <2>. QED
    BY <2>1, <2>2 DEF Puts
<1>4. ASSUME NEW k \in Puts(t) PROVE k \in Puts(r)
  <2>1. PICK i \in DOMAIN t : t[i].do = "put" /\ t[i].key = k
    BY DEF Puts
  <2>2. n + i \in DOMAIN r /\ r[n + i] = t[i]
    BY <1>1, <2>1
  <2>. QED
    BY <2>1, <2>2 DEF Puts
<1>. QED
  BY <1>2, <1>3, <1>4 DEF r

\* A script that is followed by another, whose facts are about entities of the first.
LEMMA BasedJoined ==
  ASSUME NEW s \in Seq(StepRec), NEW t \in Seq(StepRec), Based(s),
         \A f \in Puts(t) \cap (Fact \ Contexts) : EntityOf[f] \in Puts(s)
  PROVE  Based(s \o t)
<1> DEFINE r == s \o t
           n == Len(s)
<1> HIDE DEF r
<1>1. /\ n \in Nat /\ Len(t) \in Nat /\ DOMAIN s = 1..n /\ DOMAIN t = 1..Len(t)
      /\ DOMAIN r = 1..(n + Len(t))
      /\ \A i \in 1..n : r[i] = s[i]
      /\ \A i \in 1..Len(t) : r[n + i] = t[i]
  BY Joined DEF r
<1>2. SUFFICES ASSUME NEW i \in DOMAIN r, r[i].do = "put", r[i].key \in Fact \ Contexts
               PROVE  \E j \in 1..(i - 1) : r[j].do = "put" /\ r[j].key = EntityOf[r[i].key]
  BY DEF Based, r
<1>3. CASE i \in 1..n
  <2>1. PICK j \in 1..(i - 1) : s[j].do = "put" /\ s[j].key = EntityOf[s[i].key]
    BY <1>1, <1>2, <1>3 DEF Based
  <2>2. j \in 1..n /\ r[j] = s[j] /\ r[i] = s[i]
    BY <1>1, <1>3, <2>1
  <2>. QED
    BY <2>1, <2>2
<1>4. CASE i \notin 1..n
  <2>1. i - n \in 1..Len(t) /\ n + (i - n) = i
    BY <1>1, <1>2, <1>4
  <2>2. r[n + (i - n)] = t[i - n]
    BY <1>1, <2>1
  <2>3. r[i].key \in Puts(t)
    BY <1>1, <1>2, <2>1, <2>2 DEF Puts
  <2>4. PICK j \in DOMAIN s : s[j].do = "put" /\ s[j].key = EntityOf[r[i].key]
    BY <1>2, <2>3 DEF Puts
  <2>5. j \in 1..(i - 1) /\ r[j] = s[j]
    BY <1>1, <1>4, <2>1, <2>4
  <2>. QED
    BY <2>4, <2>5
<1>. QED
  BY <1>3, <1>4

\* A plan of which the records are known; Facts are about entities written before.
Script(s, K) == Plan(s) /\ Based(s) /\ Puts(s) = K

LEMMA ScriptJoined ==
  ASSUME NEW s, NEW t, NEW K, NEW L, Script(s, K), Plan(t), Puts(t) = L,
         \A f \in L \cap (Fact \ Contexts) : EntityOf[f] \in K
  PROVE  Script(s \o t, K \cup L)
<1>1. s \in Seq(StepRec) /\ t \in Seq(StepRec)
  BY DEF Script, Plan
<1>2. Plan(s \o t)
  BY PlanJoined DEF Script
<1>3. Based(s \o t)
  BY <1>1, BasedJoined DEF Script
<1>4. Puts(s \o t) = K \cup L
  BY <1>1, PutsJoined DEF Script
<1>. QED
  BY <1>2, <1>3, <1>4 DEF Script

LEMMA ScriptOfOthers ==
  ASSUME NEW s \in Seq(StepRec),
         \A i \in DOMAIN s : Typed(s[i]) /\ s[i].do \in Writes \ {"put", "index", "hint"}
  PROVE  Script(s, {})
<1>1. \A i \in DOMAIN s : s[i].do # "put"
  OBVIOUS
<1>2. Based(s) /\ Puts(s) = {}
  BY <1>1 DEF Based, Puts
<1>. QED
  BY <1>2, PlanOfOthers DEF Script

LEMMA ScriptOfRelates ==
  ASSUME NEW s \in Seq(StepRec), \A i \in DOMAIN s : Linking(s[i])
  PROVE  Script(s, {})
<1>1. \A i \in DOMAIN s : Typed(s[i]) /\ s[i].do \in Writes \ {"put", "index", "hint"}
  BY DEF Writes, Linking
<1>. QED
  BY <1>1, ScriptOfOthers

LEMMA PutsOfUpsert ==
  ASSUME NEW k, NEW v
  PROVE  Puts(Upsert(k, v)) = {k}
<1> DEFINE s == Upsert(k, v)
<1>1. DOMAIN s = {1, 2} /\ s[1].do = "put" /\ s[1].key = k /\ s[2].do = "index"
  BY DEF Upsert, Put, Step
<1> HIDE DEF s
<1>2. Puts(s) = {k}
  BY <1>1 DEF Puts
<1>. QED
  BY <1>2 DEF s

LEMMA ScriptOfEntity ==
  ASSUME NEW e \in Entity, NEW v \in Content
  PROVE  Script(Upsert(e, v), {e})
<1>1. Plan(Upsert(e, v))
  BY EntityVal, PlanOfUpsert
<1>2. Puts(Upsert(e, v)) = {e} /\ e \notin Fact
  BY PutsOfUpsert, BrainAssumption
<1>3. Based(Upsert(e, v))
  BY <1>2 DEF Based, Puts
<1>. QED
  BY <1>1, <1>2, <1>3 DEF Script

LEMMA FactAdded ==
  ASSUME NEW s, NEW K, NEW f \in Fact, Script(s, K), f \in Contexts \/ EntityOf[f] \in K
  PROVE  Script(s \o Upsert(f, f), K \cup {f})
<1>1. Plan(Upsert(f, f)) /\ Puts(Upsert(f, f)) = {f}
  BY FactVal, PlanOfUpsert, PutsOfUpsert
<1>. QED
  BY <1>1, ScriptJoined

LEMMA EntityAdded ==
  ASSUME NEW s, NEW K, NEW e \in Entity, NEW v \in Content, Script(s, K)
  PROVE  Script(s \o Upsert(e, v), K \cup {e})
<1>1. Plan(Upsert(e, v)) /\ Puts(Upsert(e, v)) = {e} /\ e \notin Fact
  BY EntityVal, PlanOfUpsert, PutsOfUpsert, BrainAssumption
<1>. QED
  BY <1>1, ScriptJoined

LEMMA OthersAdded ==
  ASSUME NEW s, NEW K, NEW t, Script(s, K), Script(t, {})
  PROVE  Script(s \o t, K)
BY ScriptJoined DEF Script

LEMMA EntityTypes ==
  ASSUME NEW e \in Entity
  PROVE  e \in Key /\ e \in Key \cup {Merged}
BY DEF Key

LEMMA BaselineEntities ==
  /\ Owner \in Entity /\ Runtime \in Entity /\ Workspace \in Entity /\ Project \in Entity
  /\ Observed \in Content
BY BrainAssumption, ObservedContent

LEMMA ScriptOfRead ==
  Script(<<Retain>>, {}) /\ Script(<<LogIngest>>, {})
<1>1. Retain \in StepRec /\ LogIngest \in StepRec
  BY ReadTypes, NoneTypes DEF Retain, LogIngest, Steps
<1>2. Typed(Retain) /\ Typed(LogIngest) /\ Retain.do = "retain" /\ LogIngest.do = "log"
  BY DEF Typed, Retain, LogIngest, Read
<1>3. ASSUME NEW x \in {Retain, LogIngest} PROVE Script(<<x>>, {})
  <2>1. <<x>> \in Seq(StepRec) /\ DOMAIN <<x>> = {1} /\ <<x>>[1] = x
    BY <1>1
  <2>. QED
    BY <1>2, <2>1, ScriptOfOthers DEF Writes
<1>. QED
  BY <1>3

\* The relations that are written together.
LEMMA ScriptOfTwo ==
  ASSUME NEW x, NEW y, Linking(x), Linking(y)
  PROVE  Script(<<x, y>>, {}) /\ Script(<<x>>, {})
<1>1. <<x, y>> \in Seq(StepRec) /\ \A i \in DOMAIN <<x, y>> : Linking(<<x, y>>[i])
  <2>1. x \in StepRec /\ y \in StepRec
    BY DEF Linking
  <2>. QED
    BY <2>1
<1>2. <<x>> \in Seq(StepRec) /\ \A i \in DOMAIN <<x>> : Linking(<<x>>[i])
  <2>1. x \in StepRec
    BY DEF Linking
  <2>. QED
    BY <2>1
<1>. QED
  BY <1>1, <1>2, ScriptOfRelates

LEMMA ScriptOfLinks ==
  ASSUME NEW kind \in Ties, NEW k \in Key, NEW links \in Seq(Entity)
  PROVE  Script(LinkRecord(kind, k, links), {})
<1> DEFINE s == LinkRecord(kind, k, links)
<1>1. DOMAIN links = 1..Len(links) /\ Len(links) \in Nat
  OBVIOUS
<1>2. \A i \in 1..Len(links) : Linking(Relate(kind, k, links[i]))
  BY RelateTypes DEF Key
<1>3. s \in Seq(StepRec) /\ \A i \in DOMAIN s : Linking(s[i])
  BY <1>1, <1>2 DEF LinkRecord, Linking
<1> HIDE DEF s
<1>4. Script(s, {})
  BY <1>3, ScriptOfRelates
<1>. QED
  BY <1>4 DEF s

LEMMA ScriptOfMerge ==
  ASSUME NEW text \in Text, NEW status \in Status, NEW low \in BOOLEAN, NEW links \in Seq(Entity)
  PROVE  Script(UpsertOrMergeTask(text, status, low, links), {})
<1> DEFINE v == [text |-> text, status |-> status, low |-> low, links |-> links]
           x == Step("similar", text, v)
<1>1. v \in TaskVal /\ v.text = text
  BY DEF TaskVal
<1>2. x \in StepRec
  <2>1. text \in Names /\ v \in Val /\ "similar" \in Steps
    BY <1>1 DEF Names, Val, Steps
  <2>. QED
    BY <2>1, StepTypes
<1>3. Typed(x) /\ x.do = "similar"
  BY <1>1 DEF Typed, Step
<1>4. <<x>> \in Seq(StepRec) /\ DOMAIN <<x>> = {1} /\ <<x>>[1] = x
  BY <1>2
<1>5. Script(<<x>>, {})
  BY <1>3, <1>4, ScriptOfOthers DEF Writes
<1>. QED
  BY <1>5 DEF UpsertOrMergeTask

LEMMA ScriptOfNone == Script(<<>>, {})
<1>1. <<>> \in Seq(StepRec) /\ DOMAIN <<>> = {}
  OBVIOUS
<1>. QED
  BY <1>1, ScriptOfOthers

LEMMA BaselineScript == \E K : Script(BaselinePlan, K)
<1> DEFINE r1 == Relate("owns", Owner, Workspace)
           r2 == Relate("belongs_to", Workspace, Project)
           r3 == Relate("runs_in", Project, Runtime)
<1>1. Linking(r1) /\ Linking(r2) /\ Linking(r3)
  BY BaselineEntities, EntityTypes, RelateTypes DEF Ties
<1>2. Script(<<r1, r2, r3>>, {})
  <2>1. /\ <<r1, r2, r3>> \in Seq(StepRec)
        /\ \A i \in DOMAIN <<r1, r2, r3>> : Linking(<<r1, r2, r3>>[i])
    <3>1. r1 \in StepRec /\ r2 \in StepRec /\ r3 \in StepRec
      BY <1>1 DEF Linking
    <3> HIDE DEF r1, r2, r3
    <3>. QED
      BY <1>1, <3>1
  <2>. QED
    BY <2>1, ScriptOfRelates
<1>3. Script(Upsert(Owner, Observed), {Owner})
  BY BaselineEntities, ScriptOfEntity
<1>4. Script(Upsert(Owner, Observed) \o Upsert(Runtime, Observed), {Owner} \cup {Runtime})
  BY <1>3, BaselineEntities, EntityAdded
<1>5. Script(Upsert(Owner, Observed) \o Upsert(Runtime, Observed) \o Upsert(Workspace, Observed),
             {Owner} \cup {Runtime} \cup {Workspace})
  BY <1>4, BaselineEntities, EntityAdded
<1>6. Script(Upsert(Owner, Observed) \o Upsert(Runtime, Observed) \o Upsert(Workspace, Observed)
               \o Upsert(Project, Observed),
             {Owner} \cup {Runtime} \cup {Workspace} \cup {Project})
  BY <1>5, BaselineEntities, EntityAdded
<1>7. Script(Upsert(Owner, Observed) \o Upsert(Runtime, Observed) \o Upsert(Workspace, Observed)
               \o Upsert(Project, Observed) \o <<r1, r2, r3>>,
             {Owner} \cup {Runtime} \cup {Workspace} \cup {Project})
  BY <1>6, <1>2, OthersAdded
<1>. QED
  BY <1>7 DEF BaselinePlan

LEMMA RememberScript ==
  ASSUME NEW m \in Memo
  PROVE  \E K : Script(RememberPlan(m), K)
<1>1. /\ m.entity \in Entity /\ m.content \in Content /\ m.links \in Seq(Entity)
      /\ m.fact \in Fact /\ EntityOf[m.fact] = m.entity /\ m.entity \in Key
  BY RequestAssumption DEF Key
<1>2. Script(<<Retain>> \o Upsert(m.entity, m.content), {} \cup {m.entity})
  BY <1>1, ScriptOfRead, EntityAdded
<1>3. Script(<<Retain>> \o Upsert(m.entity, m.content) \o Upsert(m.fact, m.fact),
             {} \cup {m.entity} \cup {m.fact})
  BY <1>1, <1>2, FactAdded
<1>4. Script(LinkRecord("mentioned_with", m.entity, m.links), {})
  BY <1>1, ScriptOfLinks DEF Ties
<1>5. Script(<<Retain>> \o Upsert(m.entity, m.content) \o Upsert(m.fact, m.fact)
               \o LinkRecord("mentioned_with", m.entity, m.links),
             {} \cup {m.entity} \cup {m.fact})
  BY <1>3, <1>4, OthersAdded
<1>6. Script(<<Retain>> \o Upsert(m.entity, m.content) \o Upsert(m.fact, m.fact)
               \o LinkRecord("mentioned_with", m.entity, m.links) \o <<LogIngest>>,
             {} \cup {m.entity} \cup {m.fact})
  BY <1>5, ScriptOfRead, OthersAdded
<1>. QED
  BY <1>6 DEF RememberPlan

LEMMA RememberTaskScript ==
  ASSUME NEW m \in TaskMemo
  PROVE  \E K : Script(RememberTaskPlan(m), K)
<1>1. m.text \in Text /\ m.low \in BOOLEAN /\ m.links \in Seq(Entity) /\ "open" \in Status
  BY RequestAssumption DEF Status
<1>2. Script(UpsertOrMergeTask(m.text, "open", m.low, m.links), {})
  BY <1>1, ScriptOfMerge
<1>3. Script(<<Retain>> \o UpsertOrMergeTask(m.text, "open", m.low, m.links), {})
  BY <1>2, ScriptOfRead, OthersAdded
<1>4. Script(<<Retain>> \o UpsertOrMergeTask(m.text, "open", m.low, m.links) \o <<LogIngest>>, {})
  BY <1>3, ScriptOfRead, OthersAdded
<1>. QED
  BY <1>4 DEF RememberTaskPlan

LEMMA MessageScript ==
  ASSUME NEW m \in Message
  PROVE  \E K : Script(MessagePlan(m), K)
<1>1. /\ m.from \in Entity /\ m.mentions \in Seq(Entity) /\ m.fact \in Fact
      /\ EntityOf[m.fact] = m.from /\ m.text \in Text \cup {None}
  BY RequestAssumption
<1> DEFINE two == <<Relate("knows", Owner, m.from), Relate("mentioned_with", m.from, Workspace)>>
           task == <<Relate("assigned_to", Merged, Owner), Relate("about", Merged, m.from)>>
           merge == UpsertOrMergeTask(m.text, "open", FALSE, <<m.from>> \o m.mentions)
           rest == IF m.text = None THEN <<>> ELSE merge \o task
<1>2. Script(two, {}) /\ Script(task, {})
  <2>1. /\ Linking(Relate("knows", Owner, m.from))
        /\ Linking(Relate("mentioned_with", m.from, Workspace))
        /\ Linking(Relate("assigned_to", Merged, Owner))
        /\ Linking(Relate("about", Merged, m.from))
    BY <1>1, BaselineEntities, EntityTypes, RelateTypes DEF Ties
  <2>. QED
    BY <2>1, ScriptOfTwo
<1>3. Script(rest, {})
  <2>1. CASE m.text = None
    BY <2>1, ScriptOfNone
  <2>2. CASE m.text # None
    <3>1. <<m.from>> \o m.mentions \in Seq(Entity)
      BY <1>1
    <3>2. Script(merge, {})
      BY <1>1, <2>2, <3>1, ScriptOfMerge DEF Status
    <3>. QED
      BY <1>2, <2>2, <3>2, OthersAdded
  <2>. QED
    BY <2>1, <2>2
<1>4. Script(Upsert(m.from, Observed), {m.from})
  BY <1>1, BaselineEntities, ScriptOfEntity
<1> HIDE DEF two, rest
<1>5. Script(Upsert(m.from, Observed) \o two, {m.from})
  BY <1>2, <1>4, OthersAdded
<1>6. Script(Upsert(m.from, Observed) \o two \o Upsert(m.fact, m.fact), {m.from} \cup {m.fact})
  BY <1>1, <1>5, FactAdded
<1>7. \E K : Script(Upsert(m.from, Observed) \o two \o Upsert(m.fact, m.fact) \o Mentions(m), K)
  <2>1. Plan(Mentions(m)) /\ Puts(Mentions(m)) \cap (Fact \ Contexts) = {}
    <3>1. \A i \in DOMAIN Mentions(m) : Mentions(m)[i].do = "put" =>
                                          Mentions(m)[i].key \notin Fact
      BY PlanOfMentions, BrainAssumption
    <3>. QED
      BY <3>1, PlanOfMentions DEF Puts
  <2>. QED
    BY <1>6, <2>1, ScriptJoined
<1>8. \E K : Script(Upsert(m.from, Observed) \o two \o Upsert(m.fact, m.fact) \o Mentions(m)
                      \o rest, K)
  BY <1>3, <1>7, OthersAdded
<1>9. \E K : Script(Upsert(m.from, Observed) \o two \o Upsert(m.fact, m.fact) \o Mentions(m)
                      \o rest \o <<LogIngest>>, K)
  BY <1>8, ScriptOfRead, OthersAdded
<1>. QED
  BY <1>9 DEF MessagePlan, two, rest

LEMMA ToolScript ==
  ASSUME NEW t \in Tool
  PROVE  \E K : Script(ToolPlan(t), K)
<1> DEFINE x == Step("related", t.name, None)
<1>1. /\ t.artifact \in Entity /\ t.context \in Fact /\ t.fact \in Fact
      /\ EntityOf[t.fact] = t.artifact /\ t.context \in Contexts
  BY RequestAssumption DEF Contexts
<1>2. Script(<<x, LogIngest>>, {})
  <2>1. x \in StepRec /\ LogIngest \in StepRec
    <3>1. t.name \in Names /\ None \in Val /\ "related" \in Steps /\ "log" \in Steps
      BY DEF Names, Val, Steps
    <3>. QED
      BY <3>1, StepTypes, ReadTypes, NoneTypes DEF LogIngest
  <2>2. Typed(x) /\ Typed(LogIngest) /\ x.do = "related" /\ LogIngest.do = "log"
    BY DEF Typed, Step, LogIngest, Read
  <2> HIDE DEF x
  <2>3. /\ <<x, LogIngest>> \in Seq(StepRec) /\ DOMAIN <<x, LogIngest>> = {1, 2}
        /\ <<x, LogIngest>>[1] = x /\ <<x, LogIngest>>[2] = LogIngest
    BY <2>1
  <2>. QED
    BY <2>2, <2>3, ScriptOfOthers DEF Writes
<1>3. Script(Upsert(t.artifact, Observed), {t.artifact})
  BY <1>1, BaselineEntities, ScriptOfEntity
<1> HIDE DEF x
<1>4. Script(Upsert(t.artifact, Observed) \o Upsert(t.fact, t.fact), {t.artifact} \cup {t.fact})
  BY <1>1, <1>3, FactAdded
<1>5. Script(Upsert(t.artifact, Observed) \o Upsert(t.fact, t.fact)
               \o Upsert(t.context, t.context), {t.artifact} \cup {t.fact} \cup {t.context})
  BY <1>1, <1>4, FactAdded
<1>6. Script(Upsert(t.artifact, Observed) \o Upsert(t.fact, t.fact)
               \o Upsert(t.context, t.context) \o <<x, LogIngest>>,
             {t.artifact} \cup {t.fact} \cup {t.context})
  BY <1>2, <1>5, OthersAdded
<1>. QED
  BY <1>6 DEF ToolPlan, x

LEMMA ReplyScript ==
  ASSUME NEW text \in Text
  PROVE  \E K : Script(ReplyPlan(text), K)
<1> DEFINE x == Relate("assigned_to", Merged, Owner)
           merge == UpsertOrMergeTask(text, "in_progress", FALSE, <<Owner>>)
<1>1. Script(merge, {})
  <2>1. <<Owner>> \in Seq(Entity) /\ "in_progress" \in Status
    BY BaselineEntities DEF Status
  <2>. QED
    BY <2>1, ScriptOfMerge
<1>2. Script(<<x, LogIngest>>, {})
  <2>1. x \in StepRec /\ LogIngest \in StepRec /\ x.do = "relate" /\ Typed(x)
    <3>1. "log" \in Steps /\ "assigned_to" \in Ties /\ Owner \in Key
      BY BaselineEntities, EntityTypes DEF Steps, Ties
    <3>. QED
      BY <3>1, RelateTypes, ReadTypes, NoneTypes DEF LogIngest, Linking
  <2>2. Typed(x) /\ Typed(LogIngest) /\ LogIngest.do = "log"
    BY <2>1 DEF Typed, LogIngest, Read
  <2> HIDE DEF x
  <2>3. /\ <<x, LogIngest>> \in Seq(StepRec) /\ DOMAIN <<x, LogIngest>> = {1, 2}
        /\ <<x, LogIngest>>[1] = x /\ <<x, LogIngest>>[2] = LogIngest
    BY <2>1
  <2>. QED
    BY <2>1, <2>2, <2>3, ScriptOfOthers DEF Writes
<1> HIDE DEF merge, x
<1>3. Script(merge \o <<x, LogIngest>>, {})
  BY <1>1, <1>2, OthersAdded
<1>. QED
  BY <1>3 DEF ReplyPlan, merge, x

LEMMA UpdateScript ==
  ASSUME NEW u \in Update
  PROVE  \E K : Script(UpdatePlan(u), K)
<1> DEFINE x == Step("read", u.task, u)
<1>1. x \in StepRec
  <2>1. u.task \in Names /\ "read" \in Steps
    BY RequestAssumption DEF Names, Key, Steps
  <2>. QED
    BY <2>1, StepTypes
<1>2. Typed(x) /\ x.do = "read"
  BY DEF Typed, Step
<1>3. <<x>> \in Seq(StepRec) /\ DOMAIN <<x>> = {1} /\ <<x>>[1] = x
  BY <1>1
<1>4. Script(<<x>>, {})
  BY <1>2, <1>3, ScriptOfOthers DEF Writes
<1>. QED
  BY <1>4 DEF UpdatePlan

-----------------------------------------------------------------------------
(* What a script owes.                                                     *)

\* A step that neither projects k nor writes its row changes nothing; a step
\* that projects k pays what it stands for.
LEMMA OwedTail ==
  ASSUME NEW s \in Seq(StepRec), s # <<>>, NEW k,
         ~(s[1].do \in {"put", "forget"} /\ s[1].key = k)
  PROVE  /\ s[1].do \in Projects /\ s[1].key = k => Owed(s, k) = {s[1]} \cup Owed(Tail(s), k)
         /\ ~(s[1].do \in Projects /\ s[1].key = k) => Owed(s, k) = Owed(Tail(s), k)
<1> DEFINE t == Tail(s)
<1> HIDE DEF t
<1>1. /\ Len(s) \in Nat /\ Len(s) > 0 /\ DOMAIN s = 1..Len(s) /\ DOMAIN t = 1..(Len(s) - 1)
      /\ \A i \in DOMAIN t : i + 1 \in DOMAIN s /\ t[i] = s[i + 1]
  BY Tails DEF t
<1>2. ASSUME NEW x \in Owed(t, k) PROVE x \in Owed(s, k)
  <2>1. PICK i \in DOMAIN t : /\ x = t[i] /\ t[i].do \in Projects /\ t[i].key = k
                              /\ \A j \in 1..(i - 1) : ~(t[j].do \in {"put", "forget"} /\ t[j].key = k)
    BY DEF Owed
  <2>2. i + 1 \in DOMAIN s /\ s[i + 1] = x
    BY <1>1, <2>1
  <2>3. ASSUME NEW j \in 1..((i + 1) - 1)
        PROVE  ~(s[j].do \in {"put", "forget"} /\ s[j].key = k)
    <3>1. CASE j = 1
      BY <3>1
    <3>2. CASE j # 1
      <4>1. j - 1 \in 1..(i - 1) /\ j - 1 \in DOMAIN t /\ t[j - 1] = s[(j - 1) + 1] /\ (j - 1) + 1 = j
        BY <1>1, <3>2, <2>1
      <4>. QED
        BY <2>1, <4>1
    <3>. QED
      BY <3>1, <3>2
  <2>. QED
    BY <2>1, <2>2, <2>3 DEF Owed
<1>3. ASSUME NEW x \in Owed(s, k)
      PROVE  x \in Owed(t, k) \/ (x = s[1] /\ s[1].do \in Projects /\ s[1].key = k)
  <2>1. PICK i \in DOMAIN s : /\ x = s[i] /\ s[i].do \in Projects /\ s[i].key = k
                              /\ \A j \in 1..(i - 1) : ~(s[j].do \in {"put", "forget"} /\ s[j].key = k)
    BY DEF Owed
  <2>2. CASE i = 1
    BY <2>1, <2>2
  <2>3. CASE i # 1
    <3>1. i - 1 \in DOMAIN t /\ t[i - 1] = s[(i - 1) + 1] /\ (i - 1) + 1 = i
      BY <1>1, <2>3
    <3>2. ASSUME NEW j \in 1..((i - 1) - 1)
          PROVE  ~(t[j].do \in {"put", "forget"} /\ t[j].key = k)
      <4>1. j + 1 \in 1..(i - 1) /\ j \in DOMAIN t /\ t[j] = s[j + 1]
        BY <1>1, <2>1, <2>3
      <4>. QED
        BY <2>1, <4>1
    <3>. QED
      BY <2>1, <3>1, <3>2 DEF Owed
  <2>. QED
    BY <2>2, <2>3
<1>4. s[1].do \in Projects /\ s[1].key = k => s[1] \in Owed(s, k)
  <2>1. 1 \in DOMAIN s /\ 1..(1 - 1) = {}
    BY <1>1
  <2>. QED
    BY <2>1 DEF Owed
<1>. QED
  BY <1>2, <1>3, <1>4 DEF t

\* Before it writes a row, a script owes nothing to its projections.
LEMMA OwedBefore ==
  ASSUME NEW s \in Seq(StepRec), s # <<>>, s[1].do \in {"put", "forget"}
  PROVE  Owed(s, s[1].key) = {}
<1> DEFINE k == s[1].key
<1>1. SUFFICES ASSUME NEW i \in DOMAIN s, s[i].do \in Projects,
                      \A j \in 1..(i - 1) : ~(s[j].do \in {"put", "forget"} /\ s[j].key = k)
               PROVE  FALSE
  BY DEF Owed
<1>2. i # 1
  BY <1>1 DEF Projects
<1>3. 1 \in 1..(i - 1)
  BY <1>1, <1>2, Tails
<1>. QED
  BY <1>1, <1>3

\* Nor does a script that has not begun an upsert.
LEMMA WritingOwesNothing ==
  ASSUME NEW s \in Seq(StepRec), Writing(s), s # <<>> => s[1].do \notin {"index", "hint"}, NEW k
  PROVE  Owed(s, k) = {}
<1>1. SUFFICES ASSUME NEW i \in DOMAIN s, s[i].do \in Projects, s[i].key = k,
                      \A j \in 1..(i - 1) : ~(s[j].do \in {"put", "forget"} /\ s[j].key = k)
               PROVE  FALSE
  BY DEF Owed
<1>0. s # <<>> /\ DOMAIN s = 1..Len(s) /\ Len(s) \in Nat
  BY <1>1
<1>2. s[i].do \in {"index", "hint"}
  BY <1>1 DEF Writing, Writes, Projects
<1>3. i \in DOMAIN s \ {1} /\ i - 1 \in 1..(i - 1) /\ i - 1 \in DOMAIN s
  BY <1>0, <1>1, <1>2
<1>4. CASE s[i].do = "index"
  <2>1. s[i - 1].do = "put" /\ s[i - 1].key = k
    BY <1>1, <1>3, <1>4 DEF Writing
  <2>. QED
    BY <1>1, <1>3, <2>1
<1>5. CASE s[i].do = "hint"
  <2>1. s[i - 1].do = "index" /\ s[i - 1].key = k
    BY <1>1, <1>3, <1>5 DEF Writing
  <2>2. i - 1 \in DOMAIN s \ {1}
    BY <1>0, <1>1, <1>2, <1>3, <2>1
  <2>3. /\ s[(i - 1) - 1].do = "put" /\ s[(i - 1) - 1].key = k
        /\ (i - 1) - 1 \in 1..(i - 1)
    BY <1>0, <2>1, <2>2 DEF Writing
  <2>. QED
    BY <1>1, <2>3
<1>. QED
  BY <1>2, <1>4, <1>5

\* Just after it has written a row it owes the projections of that row.
LEMMA OwedAfterPut ==
  ASSUME NEW s \in Seq(StepRec), Writing(s), s # <<>>, s[1].do = "put", NEW k
  PROVE  /\ s[1].key # k => Owed(Tail(s), k) = {}
         /\ s[1].key = k =>
              /\ \A x \in Owed(Tail(s), k) :
                   \/ x.do = "index" /\ x.val = s[1].val
                   \/ k \in Task /\ x.do = "hint" /\ x.val = s[1].val.text
              /\ \E x \in Owed(Tail(s), k) : x.do = "index"
              /\ k \in Task => \E x \in Owed(Tail(s), k) : x.do = "hint"
<1> DEFINE t == Tail(s)
<1> HIDE DEF t
<1>1. /\ Len(s) \in Nat /\ Len(s) > 0 /\ DOMAIN s = 1..Len(s) /\ DOMAIN t = 1..(Len(s) - 1)
      /\ \A i \in DOMAIN t : i + 1 \in DOMAIN s /\ t[i] = s[i + 1]
      /\ t \in Seq(StepRec) /\ 1 \in DOMAIN s
  BY Tails DEF t
<1>2. /\ 2 \in DOMAIN s /\ s[2].do = "index" /\ s[2].key = s[1].key /\ s[2].val = s[1].val
      /\ s[1].key \in Task => /\ 3 \in DOMAIN s /\ s[3].do = "hint"
                              /\ s[3].key = s[1].key /\ s[3].val = s[1].val.text
  BY <1>1 DEF Writing
<1>3. /\ t # <<>> /\ 1 \in DOMAIN t /\ t[1] = s[2]
      /\ s[1].key \in Task => 2 \in DOMAIN t /\ t[2] = s[3]
  BY <1>1, <1>2
<1>4. Writing(t)
  BY WritingTail DEF t
<1>5. CASE s[1].key # k
  <2>1. Owed(s, k) = {} /\ Owed(s, k) = Owed(t, k)
    BY <1>5, OwedTail, WritingOwesNothing DEF Projects, t
  <2>. QED
    BY <1>5, <2>1 DEF t
<1>6. CASE s[1].key = k
  <2> DEFINE u == Tail(t)
  <2> HIDE DEF u
  <2>1. /\ u \in Seq(StepRec) /\ DOMAIN u = 1..(Len(s) - 2) /\ Writing(u)
        /\ u # <<>> => u[1] = t[2]
        /\ 2 \in DOMAIN t => u # <<>> /\ u[1] = t[2]
    <3>1. Len(t) \in Nat /\ Len(t) = Len(s) - 1
      BY <1>1, Tails DEF t
    <3>2. /\ u \in Seq(StepRec) /\ DOMAIN u = 1..(Len(t) - 1)
          /\ \A i \in DOMAIN u : i + 1 \in DOMAIN t /\ u[i] = t[i + 1]
      BY <1>1, <1>3, Tails DEF u
    <3>3. Writing(u)
      BY <1>1, <1>3, <1>4, WritingTail DEF u
    <3>4. u # <<>> => 1 \in DOMAIN u
      BY <3>2
    <3>5. 2 \in DOMAIN t => 1 \in DOMAIN u
      BY <1>1, <3>1, <3>2
    <3>. QED
      BY <3>1, <3>2, <3>3, <3>4, <3>5
  <2>2. Owed(t, k) = {t[1]} \cup Owed(u, k)
    BY <1>1, <1>2, <1>3, <1>6, OwedTail DEF Projects, u
  <2>3. CASE k \in Task
    <3> DEFINE w == Tail(u)
    <3> HIDE DEF w
    <3>1. u # <<>> /\ u[1] = s[3]
      BY <1>3, <1>6, <2>1, <2>3
    <3>2. Owed(u, k) = {u[1]} \cup Owed(w, k)
      BY <1>2, <1>6, <2>1, <2>3, <3>1, OwedTail DEF Projects, w
    <3>3. w \in Seq(StepRec) /\ Writing(w)
      BY <2>1, <3>1, Tails, WritingTail DEF w
    <3>4. w # <<>> => w[1].do \notin {"index", "hint"}
      <4>1. SUFFICES ASSUME w # <<>> PROVE w[1].do \notin {"index", "hint"}
        OBVIOUS
      <4>2. /\ Len(u) \in Nat /\ 1 \in DOMAIN w
        BY <2>1, <3>1, <3>3, <4>1, Tails
      <4>3. 2 \in DOMAIN u /\ w[1] = u[2]
        BY <2>1, <3>1, <4>2, Tails DEF w
      <4>4. /\ u[2].do = "index" => u[2 - 1].do = "put"
            /\ u[2].do = "hint" => u[2 - 1].do = "index"
        <5>1. 2 \in DOMAIN u \ {1}
          BY <4>3
        <5>. QED
          BY <2>1, <5>1 DEF Writing
      <4>5. 2 - 1 = 1
        OBVIOUS
      <4>. QED
        BY <1>2, <1>6, <2>3, <3>1, <4>3, <4>4, <4>5
    <3>5. Owed(w, k) = {}
      BY <3>3, <3>4, WritingOwesNothing
    <3>6. Owed(t, k) = {s[2], s[3]}
      BY <1>3, <2>2, <3>1, <3>2, <3>5
    <3>. QED
      BY <1>2, <1>6, <2>3, <3>6 DEF t
  <2>4. CASE k \notin Task
    <3>1. u # <<>> => u[1].do \notin {"index", "hint"}
      <4>1. SUFFICES ASSUME u # <<>> PROVE u[1].do \notin {"index", "hint"}
        OBVIOUS
      <4>2. 2 \in DOMAIN t /\ u[1] = t[2]
        BY <1>1, <2>1, <4>1, Tails
      <4>3. /\ t[2].do = "index" => t[2 - 1].do = "put"
            /\ t[2].do = "hint" => t[2].key = t[2 - 1].key
            /\ Typed(t[2])
        <5>1. 2 \in DOMAIN t \ {1}
          BY <4>2
        <5>. QED
          BY <1>4, <5>1 DEF Writing
      <4>4. 2 - 1 = 1
        OBVIOUS
      <4>. QED
        BY <1>2, <1>3, <1>6, <2>4, <4>2, <4>3, <4>4 DEF Typed
    <3>2. Owed(u, k) = {}
      BY <2>1, <3>1, WritingOwesNothing
    <3>3. Owed(t, k) = {s[2]}
      BY <1>3, <2>2, <3>2
    <3>. QED
      BY <1>2, <1>6, <2>4, <3>3 DEF t
  <2>. QED
    BY <2>3, <2>4
<1>. QED
  BY <1>5, <1>6

\* A forget owes the removal of the projections, once the rows are gone.
LEMMA OwedByForget ==
  ASSUME NEW s \in Seq(StepRec), Forgetting(s), s # <<>>, NEW k
  PROVE  /\ \A x \in Owed(s, k) : x.do \in {"drop", "drop hint"} /\ x.key = k
         /\ s[1].key # k => Owed(s, k) = {} /\ Owed(Tail(s), k) = {}
         /\ s[1].do = "forget" /\ s[1].key = k => Owed(s, k) = {}
         /\ s[1].do = "forget" /\ s[1].key = k /\ s[1].how # "archive" =>
              /\ \A x \in Owed(Tail(s), k) : x.do \in {"drop", "drop hint"}
              /\ k \in Key => \E x \in Owed(Tail(s), k) : x.do = "drop"
              /\ k \in Task => \E x \in Owed(Tail(s), k) : x.do = "drop hint"
         /\ s[1].do = "forget" /\ s[1].how = "archive" => Tail(s) = <<>>
<1> DEFINE t == Tail(s)
<1> HIDE DEF t
<1>1. /\ Len(s) \in Nat /\ Len(s) > 0 /\ DOMAIN s = 1..Len(s) /\ DOMAIN t = 1..(Len(s) - 1)
      /\ \A i \in DOMAIN t : i + 1 \in DOMAIN s /\ t[i] = s[i + 1]
      /\ \A i \in DOMAIN s \ {1} : i - 1 \in DOMAIN t /\ t[i - 1] = s[i]
      /\ t \in Seq(StepRec) /\ 1 \in DOMAIN s
  BY Tails DEF t
<1>2. \A i \in DOMAIN s : /\ s[i].do \in {"forget", "drop", "drop hint"} /\ s[i].key = s[1].key
                          /\ s[i].do = "forget" => i = 1
  BY DEF Forgetting
<1>3. \A i \in DOMAIN t : t[i].do \in {"drop", "drop hint"} /\ t[i].key = s[1].key
  <2> TAKE i \in DOMAIN t
  <2>1. i + 1 \in DOMAIN s /\ i + 1 # 1 /\ t[i] = s[i + 1]
    BY <1>1
  <2>. QED
    BY <1>2, <2>1
<1>4. \A x \in Owed(s, k) : x.do \in {"drop", "drop hint"} /\ x.key = k
  BY <1>2 DEF Owed, Projects
<1>5. s[1].key # k => Owed(s, k) = {} /\ Owed(t, k) = {}
  BY <1>2, <1>3 DEF Owed
<1>6. ASSUME s[1].do = "forget", s[1].key = k PROVE Owed(s, k) = {}
  <2>1. s[1].do \in {"put", "forget"}
    BY <1>6
  <2>. QED
    BY <1>6, <2>1, OwedBefore
<1>7. \A x \in Owed(t, k) : x.do \in {"drop", "drop hint"}
  BY <1>3 DEF Owed
<1>8. ASSUME NEW i \in DOMAIN s, s[i].do \in {"drop", "drop hint"}, s[1].do = "forget", s[1].key = k
      PROVE  s[i] \in Owed(t, k)
  <2>1. i - 1 \in DOMAIN t /\ t[i - 1] = s[i]
    BY <1>1, <1>8
  <2>2. \A j \in 1..((i - 1) - 1) : j \in DOMAIN t
    BY <1>1
  <2>3. s[i].key = k
    BY <1>2, <1>8
  <2>. QED
    BY <1>3, <1>8, <2>1, <2>2, <2>3 DEF Owed, Projects
<1>9. ASSUME s[1].do = "forget", s[1].key = k, s[1].how # "archive"
      PROVE  /\ k \in Key => \E x \in Owed(t, k) : x.do = "drop"
             /\ k \in Task => \E x \in Owed(t, k) : x.do = "drop hint"
  <2>1. k \in Key => \E i \in DOMAIN s : s[i].do = "drop"
    BY <1>9 DEF Forgetting
  <2>2. k \in Task => \E i \in DOMAIN s : s[i].do = "drop hint"
    BY <1>9 DEF Forgetting
  <2>. QED
    BY <1>8, <1>9, <2>1, <2>2
<1>10. s[1].do = "forget" /\ s[1].how = "archive" => t = <<>>
  <2>1. s[1].do = "forget" /\ s[1].how = "archive" => Len(s) = 1
    BY DEF Forgetting
  <2>. QED
    BY <1>1, <2>1
<1>. QED
  BY <1>4, <1>5, <1>6, <1>7, <1>9, <1>10 DEF t

\* A reading script owes only what it suggests.
LEMMA OwedByReading ==
  ASSUME NEW s \in Seq(StepRec), Reading(s), NEW k
  PROVE  Owed(s, k) = {s[i] : i \in {i \in DOMAIN s : s[i].do = "offer" /\ s[i].key = k}}
<1>1. \A i \in DOMAIN s : s[i].do \in Reads
  BY DEF Reading, ReadSteps
<1>2. \A i \in DOMAIN s : s[i].do \in Projects <=> s[i].do = "offer"
  BY <1>1 DEF Reads, Projects
<1>3. \A i \in DOMAIN s : \A j \in 1..(i - 1) : ~(s[j].do \in {"put", "forget"} /\ s[j].key = k)
  <2> TAKE i \in DOMAIN s
  <2> TAKE j \in 1..(i - 1)
  <2>1. j \in DOMAIN s
    OBVIOUS
  <2>. QED
    BY <1>1, <2>1 DEF Reads
<1>. QED
  BY <1>2, <1>3 DEF Owed

-----------------------------------------------------------------------------
(* Scripts that a read decides.                                            *)

\* What follows a look-up is a plan.
LEMMA PlanAfter ==
  ASSUME NEW s \in Seq(StepRec), Writing(s), s # <<>>, s[1].do \notin {"put", "index"}
  PROVE  Plan(Tail(s))
<1> DEFINE t == Tail(s)
<1> HIDE DEF t
<1>1. /\ t \in Seq(StepRec) /\ \A i \in DOMAIN t : i + 1 \in DOMAIN s /\ t[i] = s[i + 1]
      /\ DOMAIN t = 1..(Len(s) - 1) /\ Len(s) \in Nat /\ Writing(t)
  BY Tails, WritingTail DEF t
<1>2. SUFFICES ASSUME t # <<>>
               PROVE  t[1].do \notin {"index", "hint"} /\ (t[1].do = "put" => t[1].how = "name")
  BY <1>1 DEF Plan, Opens, t
<1>3. 1 \in DOMAIN t /\ 2 \in DOMAIN s \ {1} /\ t[1] = s[1 + 1] /\ 1 + 1 = 2 /\ 2 - 1 = 1
  BY <1>1, <1>2
<1>4. /\ s[2].do = "put" => s[2].how = "name"
      /\ s[2].do = "index" => s[2 - 1].do = "put"
      /\ s[2].do = "hint" => s[2 - 1].do = "index"
  BY <1>3 DEF Writing
<1>. QED
  BY <1>3, <1>4

\* Naming the task changes only relations.
LEMMA Bound ==
  ASSUME NEW s, Plan(s), NEW t \in Task
  PROVE  /\ Plan(Bind(s, t)) /\ Puts(Bind(s, t)) = Puts(s)
         /\ DOMAIN Bind(s, t) = DOMAIN s
         /\ \A i \in DOMAIN s : /\ Bind(s, t)[i].do = s[i].do
                                /\ s[i].do # "relate" => Bind(s, t)[i] = s[i]
<1> DEFINE r == Bind(s, t)
           to(i) == Relate(s[i].key[1], t, s[i].key[3])
<1>1. /\ s \in Seq(StepRec) /\ DOMAIN s = 1..Len(s) /\ Len(s) \in Nat /\ Writing(s) /\ Opens(s)
      /\ s # <<>> => 1 \in DOMAIN s
  BY DEF Plan
<1>2. ASSUME NEW i \in DOMAIN s, s[i].do = "relate"
      PROVE  Linking(to(i))
  <2>1. s[i].key \in Tied
    BY <1>1, <1>2 DEF Writing, Typed
  <2>2. s[i].key[1] \in Ties /\ s[i].key[3] \in Key /\ t \in Key \cup {Merged}
    BY <2>1 DEF Tied, Key
  <2>. QED
    BY <2>2, RelateTypes
<1>3. DOMAIN r = DOMAIN s /\ \A i \in DOMAIN s :
        r[i] = IF s[i].do = "relate" /\ s[i].key[2] = Merged THEN to(i) ELSE s[i]
  BY DEF Bind
<1>4. \A i \in DOMAIN s : r[i] \in StepRec
  BY <1>1, <1>2, <1>3 DEF Linking
<1>5. r \in Seq(StepRec)
  <2>1. r = [i \in 1..Len(s) |-> r[i]]
    BY <1>1 DEF Bind
  <2> HIDE DEF r
  <2>. QED
    BY <1>1, <1>4, <2>1
<1> HIDE DEF r
<1>6. \A i \in DOMAIN s : r[i].do = s[i].do /\ (s[i].do # "relate" => r[i] = s[i])
  <2> TAKE i \in DOMAIN s
  <2>1. CASE s[i].do = "relate"
    BY <1>2, <1>3, <2>1 DEF Linking
  <2>2. CASE s[i].do # "relate"
    BY <1>3, <2>2
  <2>. QED
    BY <2>1, <2>2
<1>7. \A i \in DOMAIN r : r[i].do \in Writes /\ Typed(r[i])
  <2> TAKE i \in DOMAIN r
  <2>1. s[i].do \in Writes /\ Typed(s[i])
    BY <1>1, <1>3 DEF Writing
  <2>2. CASE s[i].do = "relate"
    <3>1. Typed(r[i])
      BY <1>2, <1>3, <2>1, <2>2 DEF Linking
    <3>. QED
      BY <1>3, <1>6, <2>1, <3>1
  <2>3. CASE s[i].do # "relate"
    BY <1>3, <1>6, <2>1, <2>3
  <2>. QED
    BY <2>2, <2>3
<1>8. ASSUME NEW i \in DOMAIN r, r[i].do = "put"
      PROVE  /\ i + 1 \in DOMAIN r /\ r[i + 1].do = "index"
             /\ r[i + 1].key = r[i].key /\ r[i + 1].val = r[i].val
             /\ r[i].key \in Task =>
                  /\ i + 2 \in DOMAIN r /\ r[i + 2].do = "hint"
                  /\ r[i + 2].key = r[i].key /\ r[i + 2].val = r[i].val.text
  <2>1. i \in DOMAIN s /\ s[i].do = "put" /\ r[i] = s[i]
    BY <1>3, <1>6, <1>8
  <2>2. /\ i + 1 \in DOMAIN s /\ s[i + 1].do = "index"
        /\ s[i + 1].key = s[i].key /\ s[i + 1].val = s[i].val
        /\ s[i].key \in Task =>
             /\ i + 2 \in DOMAIN s /\ s[i + 2].do = "hint"
             /\ s[i + 2].key = s[i].key /\ s[i + 2].val = s[i].val.text
    BY <1>1, <2>1 DEF Writing
  <2>3. /\ r[i + 1] = s[i + 1]
        /\ s[i].key \in Task => r[i + 2] = s[i + 2]
    BY <1>6, <2>2
  <2>. QED
    BY <1>3, <2>1, <2>2, <2>3
<1>9. ASSUME NEW i \in DOMAIN r \ {1}
      PROVE  /\ r[i].do = "put" => r[i].how = "name"
             /\ r[i].do = "index" => r[i - 1].do = "put" /\ r[i - 1].key = r[i].key
             /\ r[i].do = "hint" => /\ r[i - 1].do = "index" /\ r[i - 1].key = r[i].key
                                    /\ r[i].val = r[i - 1].val.text
  <2>1. i \in DOMAIN s \ {1} /\ i - 1 \in DOMAIN s /\ r[i].do = s[i].do
        /\ (s[i].do # "relate" => r[i] = s[i])
        /\ (s[i - 1].do # "relate" => r[i - 1] = s[i - 1])
    BY <1>1, <1>3, <1>6
  <2>2. /\ s[i].do = "put" => s[i].how = "name"
        /\ s[i].do = "index" => s[i - 1].do = "put" /\ s[i - 1].key = s[i].key
        /\ s[i].do = "hint" => /\ s[i - 1].do = "index" /\ s[i - 1].key = s[i].key
                               /\ s[i].val = s[i - 1].val.text
    BY <1>1, <2>1 DEF Writing
  <2>. QED
    BY <2>1, <2>2
<1>10. Writing(r)
  BY <1>7, <1>8, <1>9 DEF Writing
<1>11. Opens(r)
  BY <1>1, <1>3, <1>5, <1>6 DEF Opens
<1>12. Puts(r) = Puts(s)
  BY <1>3, <1>6 DEF Puts
<1>. QED
  BY <1>3, <1>5, <1>6, <1>10, <1>11, <1>12 DEF Plan, r

\* A task that was looked up is written first, and then the plan goes on.
LEMMA LookUpScript ==
  ASSUME NEW t \in Task, NEW v \in TaskVal, NEW how \in Words, NEW r, Plan(r)
  PROVE  LET s == UpsertTask(t, v, how) \o r IN
         /\ s \in Seq(StepRec) /\ Writing(s) /\ s # <<>>
         /\ s[1] = Put(t, v, how) /\ Puts(s) = {t} \cup Puts(r)
         /\ Len(s) = 3 + Len(r) /\ \A i \in DOMAIN r : s[3 + i] = r[i]
         /\ \A i \in 1..3 : s[i].do = "put" => s[i].key = t
<1> DEFINE u == UpsertTask(t, v, how)
           s == u \o r
<1>1. /\ u \in Seq(StepRec) /\ Writing(u) /\ Len(u) = 3 /\ DOMAIN u = {1, 2, 3}
      /\ u[1] = Put(t, v, how) /\ u[2].do = "index" /\ u[3].do = "hint"
  BY TaskUpsert
<1>2. r \in Seq(StepRec) /\ Writing(r) /\ Opens(r)
  BY DEF Plan
<1> HIDE DEF u
<1>3. Writing(s) /\ s \in Seq(StepRec)
  BY <1>1, <1>2, WritingJoined
<1>4. /\ Len(s) = 3 + Len(r) /\ DOMAIN r = 1..Len(r) /\ Len(r) \in Nat
      /\ \A i \in 1..3 : s[i] = u[i]
      /\ \A i \in 1..Len(r) : s[3 + i] = r[i]
  <2>0. u \in Seq(StepRec) /\ r \in Seq(StepRec)
    BY <1>1, <1>2
  <2>1. /\ Len(s) = Len(u) + Len(r) /\ DOMAIN r = 1..Len(r) /\ Len(r) \in Nat
        /\ \A i \in 1..Len(u) : s[i] = u[i]
    BY <2>0, Joined
  <2>2. \A i \in 1..Len(r) : s[Len(u) + i] = r[i]
    BY <2>0, Joined
  <2> HIDE DEF s
  <2>. QED
    BY <1>1, <2>1, <2>2
<1>5. Puts(s) = Puts(u) \cup Puts(r)
  BY <1>1, <1>2, PutsJoined
<1>6. Puts(u) = {t}
  BY <1>1 DEF Puts, Put
<1> HIDE DEF s
<1>7. s # <<>>
  BY <1>3, <1>4
<1>8. \A i \in 1..3 : s[i].do = "put" => s[i].key = t
  BY <1>1, <1>4 DEF Put
<1>. QED
  BY <1>1, <1>3, <1>4, <1>5, <1>6, <1>7, <1>8 DEF s, u

-----------------------------------------------------------------------------
(* The scripts of calls that read, and of forget.                          *)

\* A reading script among steps that list, query and answer nothing, and none of
\* which before it retains.
LEMMA ReadingAmong ==
  ASSUME NEW u \in Seq(StepRec), Reading(u), NEW r \in Seq(StepRec), ReadSteps(r), NEW d \in Nat,
         \A i \in DOMAIN u : i + d \in DOMAIN r /\ r[i + d] = u[i],
         \A i \in DOMAIN r : \/ i - d \in DOMAIN u
                             \/ r[i].do \in {"offer", "suggest", "titles"}
                             \/ r[i].do = "retain" /\ i > d
  PROVE  Reading(r)
<1>0. /\ EndsAnswered(u) /\ RetainsFirst(u)
      /\ \A i, j \in DOMAIN u : Pair(u[i], u[j], i, j)
      /\ DOMAIN u \subseteq Nat /\ DOMAIN r \subseteq Nat /\ DOMAIN u = 1..Len(u) /\ Len(u) \in Nat
  BY DEF Reading
<1>1. ASSUME NEW i \in DOMAIN r, r[i].do \in Lists \cup {"query", "answer"}
      PROVE  i - d \in DOMAIN u /\ i - d \in Nat /\ r[i] = u[i - d]
  <2>1. i - d \in DOMAIN u
    BY <1>1 DEF Lists
  <2>2. r[(i - d) + d] = u[i - d] /\ (i - d) + d = i
    BY <1>0, <2>1
  <2>. QED
    BY <1>0, <2>1, <2>2
<1>2. EndsAnswered(r)
  <2> SUFFICES ASSUME NEW i \in DOMAIN r, r[i].do \in Lists \cup {"query"}
               PROVE  \E j \in DOMAIN r : j > i /\ r[j].do = "answer"
    BY DEF EndsAnswered
  <2>1. i - d \in DOMAIN u /\ u[i - d].do \in Lists \cup {"query"}
    BY <1>1
  <2>2. PICK j \in DOMAIN u : j > i - d /\ u[j].do = "answer"
    BY <1>0, <2>1 DEF EndsAnswered
  <2>3. j + d \in DOMAIN r /\ j + d > i /\ r[j + d].do = "answer"
    BY <1>0, <2>2
  <2>. QED
    BY <2>3
<1>3. ASSUME NEW i \in DOMAIN r, NEW j \in DOMAIN r
      PROVE  Pair(r[i], r[j], i, j)
  <2>1. CASE /\ r[i].do \in Lists \cup {"query", "answer"}
             /\ r[j].do \in Lists \cup {"query", "answer"}
    <3>1. /\ i - d \in DOMAIN u /\ r[i] = u[i - d]
          /\ j - d \in DOMAIN u /\ r[j] = u[j - d]
      BY <1>1, <2>1
    <3>2. Pair(u[i - d], u[j - d], i - d, j - d)
      BY <1>0, <3>1
    <3>3. (i - d = j - d <=> i = j) /\ (j - d < i - d <=> j < i)
      BY <1>0
    <3> DEFINE p == i - d
               q == j - d
    <3> HIDE DEF p, q
    <3>4. Pair(r[i], r[j], p, q) /\ (p = q <=> i = j) /\ (q < p <=> j < i)
      BY <3>1, <3>2, <3>3 DEF p, q
    <3>. QED
      BY <3>4 DEF Pair
  <2>2. CASE ~ /\ r[i].do \in Lists \cup {"query", "answer"}
               /\ r[j].do \in Lists \cup {"query", "answer"}
    BY <2>2 DEF Pair, Recalling, Lists
  <2>. QED
    BY <2>1, <2>2
<1>4. RetainsFirst(r)
  <2> SUFFICES ASSUME NEW i \in DOMAIN r, NEW j \in DOMAIN r,
                      Recalling(r[i]), r[j].do = "retain", j < i, NEW n \in Kinds
               PROVE  /\ \E m \in DOMAIN r : m > j /\ r[m].do \in Lists /\ r[m].how = n
                      /\ \E m \in DOMAIN r : m > j /\ r[m].do = "query" /\ r[m].how = n
    BY DEF RetainsFirst
  <2>1. i - d \in DOMAIN u /\ r[i] = u[i - d]
    BY <1>1 DEF Recalling
  <2>2. j - d \in DOMAIN u
    <3>1. CASE j > d
      <4>1. j - d \in 1..Len(u)
        BY <1>0, <2>1, <3>1
      <4>. QED
        BY <1>0, <4>1
    <3>2. CASE ~(j > d)
      BY <1>0, <3>2
    <3>. QED
      BY <3>1, <3>2
  <2>3. r[j] = u[j - d]
    <3>1. r[(j - d) + d] = u[j - d] /\ (j - d) + d = j
      BY <1>0, <2>2
    <3>. QED
      BY <3>1
  <2>4. j - d < i - d
    BY <1>0
  <2>8. \A n1 \in Kinds :
          /\ \E m \in DOMAIN u : m > j - d /\ u[m].do \in Lists /\ u[m].how = n1
          /\ \E m \in DOMAIN u : m > j - d /\ u[m].do = "query" /\ u[m].how = n1
    <3> DEFINE p == i - d
               q == j - d
    <3>1. p \in DOMAIN u /\ q \in DOMAIN u /\ q < p /\ Recalling(u[p]) /\ u[q].do = "retain"
      BY <2>1, <2>2, <2>3, <2>4
    <3> HIDE DEF p, q
    <3>0. RetainsFirst(u)
      BY <1>0
    <3>2. \A n1 \in Kinds :
            /\ \E m \in DOMAIN u : m > q /\ u[m].do \in Lists /\ u[m].how = n1
            /\ \E m \in DOMAIN u : m > q /\ u[m].do = "query" /\ u[m].how = n1
      BY ONLY <3>0, <3>1 DEF RetainsFirst
    <3>. QED
      BY <3>2 DEF q
  <2>5. PICK m \in DOMAIN u : m > j - d /\ u[m].do \in Lists /\ u[m].how = n
    BY <2>8
  <2>6. PICK q \in DOMAIN u : q > j - d /\ u[q].do = "query" /\ u[q].how = n
    BY <2>8
  <2>7. /\ m + d \in DOMAIN r /\ m + d > j /\ r[m + d] = u[m]
        /\ q + d \in DOMAIN r /\ q + d > j /\ r[q + d] = u[q]
    BY <1>0, <2>5, <2>6
  <2>. QED
    BY <2>5, <2>6, <2>7
<1>. QED
  BY <1>2, <1>3, <1>4 DEF Reading

\* recall: four listings, three queries, and the answer.
LEMMA RecallReads ==
  ASSUME NEW archived \in BOOLEAN
  PROVE  LET s == RecallPlan(archived) IN
         /\ s \in Seq(StepRec) /\ Reading(s) /\ s[1].do = "retain" /\ Len(s) = 9
         /\ \A i \in DOMAIN s : s[i].do # "offer"
<1> DEFINE s == RecallPlan(archived)
           list == IF archived THEN "list all" ELSE "list"
           mode == IF archived THEN "all" ELSE "live"
<1>1. /\ list \in {"list", "list all"} /\ mode \in {"all", "live"}
      /\ list = "list all" <=> mode = "all"
  OBVIOUS
<1>2. /\ Retain \in StepRec
      /\ Read(list, "entity") \in StepRec /\ Read(list, "fact") \in StepRec
      /\ Read("list", "task") \in StepRec /\ Read(list, "relation") \in StepRec
      /\ Read("query", "entity") \in StepRec /\ Read("query", "fact") \in StepRec
      /\ Read("query", "task") \in StepRec /\ Read("answer", mode) \in StepRec
  <2>1. list \in Steps /\ {"retain", "list", "query", "answer"} \subseteq Steps
    BY DEF Steps
  <2>2. {"entity", "fact", "task", "relation", None, mode} \subseteq Words
    BY DEF Words
  <2>. HIDE DEF list, mode
  <2>. QED
    BY <2>1, <2>2, ReadTypes DEF Retain
<1>3. /\ s \in Seq(StepRec) /\ Len(s) = 9 /\ DOMAIN s = 1..9
      /\ s[1] = Retain /\ s[2] = Read(list, "entity") /\ s[3] = Read(list, "fact")
      /\ s[4] = Read("list", "task") /\ s[5] = Read(list, "relation")
      /\ s[6] = Read("query", "entity") /\ s[7] = Read("query", "fact")
      /\ s[8] = Read("query", "task") /\ s[9] = Read("answer", mode)
  <2>1. s = <<Retain, Read(list, "entity"), Read(list, "fact"), Read("list", "task"),
              Read(list, "relation"), Read("query", "entity"), Read("query", "fact"),
              Read("query", "task"), Read("answer", mode)>>
    BY DEF RecallPlan
  <2> HIDE DEF s, list, mode
  <2>. QED
    BY <1>2, <2>1
<1> HIDE DEF s, list, mode
<1>4. /\ s[1].do = "retain"
      /\ s[2].do = list /\ s[2].how = "entity" /\ s[3].do = list /\ s[3].how = "fact"
      /\ s[4].do = "list" /\ s[4].how = "task" /\ s[5].do = list /\ s[5].how = "relation"
      /\ s[6].do = "query" /\ s[6].how = "entity" /\ s[7].do = "query" /\ s[7].how = "fact"
      /\ s[8].do = "query" /\ s[8].how = "task" /\ s[9].do = "answer" /\ s[9].how = mode
  BY <1>3 DEF Retain, Read
<1>5. \A i \in 1..9 : \/ i = 1 \/ i = 2 \/ i = 3 \/ i = 4 \/ i = 5 \/ i = 6 \/ i = 7 \/ i = 8 \/ i = 9
  OBVIOUS
<1>6. \A i \in DOMAIN s : /\ s[i].do = "answer" <=> i = 9
                          /\ s[i].do = "retain" <=> i = 1
                          /\ s[i].do \in Lists <=> i \in 2..5
                          /\ s[i].do = "query" <=> i \in 6..8
                          /\ s[i].do \in Reads /\ s[i].do # "offer"
  <2> TAKE i \in DOMAIN s
  <2>1. CASE i = 1
    <3>1. s[i].do = "retain"
      BY <1>4, <2>1
    <3>2. i # 9 /\ i \notin 2..5 /\ i \notin 6..8
      BY <2>1
    <3>. QED
      BY <2>1, <3>1, <3>2 DEF Lists, Reads
  <2>2. CASE i = 2 \/ i = 3 \/ i = 4 \/ i = 5
    <3>1. s[i].do \in Lists /\ s[i].do \notin {"answer", "retain", "query", "offer"}
      BY <1>1, <1>4, <2>2 DEF Lists
    <3>2. i # 9 /\ i # 1 /\ i \in 2..5 /\ i \notin 6..8
      BY <2>2
    <3>. QED
      BY <3>1, <3>2 DEF Lists, Reads
  <2>3. CASE i = 6 \/ i = 7 \/ i = 8
    <3>1. s[i].do = "query"
      BY <1>4, <2>3
    <3>. QED
      BY <2>3, <3>1 DEF Lists, Reads
  <2>4. CASE i = 9
    <3>1. s[i].do = "answer"
      BY <1>4, <2>4
    <3>2. i # 1 /\ i \notin 2..5 /\ i \notin 6..8
      BY <2>4
    <3>. QED
      BY <2>4, <3>1, <3>2 DEF Lists, Reads
  <2>. QED
    BY <1>3, <1>5, <2>1, <2>2, <2>3, <2>4
<1>7. ReadSteps(s)
  <2> SUFFICES \A i \in DOMAIN s : s[i].do \in Reads /\ Typed(s[i])
    BY DEF ReadSteps
  <2> TAKE i \in DOMAIN s
  <2>1. ASSUME s[i].do = "list all" PROVE s[i].how # "task"
    <3>1. i \in 2..5
      BY <1>6, <2>1 DEF Lists
    <3>2. i = 2 \/ i = 3 \/ i = 4 \/ i = 5
      BY <3>1
    <3>3. i # 4
      BY <1>4, <2>1
    <3>. QED
      BY <1>4, <3>2, <3>3
  <2>. QED
    BY <1>6, <2>1 DEF Typed, Reads
<1>8. EndsAnswered(s)
  BY <1>3, <1>6 DEF EndsAnswered
<1>9. RetainsFirst(s)
  <2> SUFFICES ASSUME NEW i \in DOMAIN s, NEW j \in DOMAIN s,
                      Recalling(s[i]), s[j].do = "retain", j < i, NEW n \in Kinds
               PROVE  /\ \E m \in DOMAIN s : m > j /\ s[m].do \in Lists /\ s[m].how = n
                      /\ \E m \in DOMAIN s : m > j /\ s[m].do = "query" /\ s[m].how = n
    BY DEF RetainsFirst
  <2>1. j = 1 /\ {2, 3, 4, 6, 7, 8} \subseteq DOMAIN s
    BY <1>3, <1>6
  <2>2. /\ s[2].do \in Lists /\ s[3].do \in Lists /\ s[4].do \in Lists
    BY <1>1, <1>4 DEF Lists
  <2>. QED
    BY <1>4, <2>1, <2>2 DEF Kinds
<1>10. ASSUME NEW i \in DOMAIN s, NEW j \in DOMAIN s
       PROVE  Pair(s[i], s[j], i, j)
  <2>1. /\ s[i].do = "answer" /\ s[j].do \in Lists \cup {"query"} => j < i
        /\ s[i].do = "answer" /\ s[j].do = "answer" => i = j
    BY <1>3, <1>6
  <2>2. s[i].do \in Lists /\ s[j].do \in Lists /\ s[i].how = s[j].how => i = j
    <3>1. \A m \in 2..5 : m = 2 \/ m = 3 \/ m = 4 \/ m = 5
      OBVIOUS
    <3>. QED
      BY <1>4, <1>6, <3>1
  <2>3. s[i].do = "query" /\ s[j].do = "query" /\ s[i].how = s[j].how => i = j
    <3>1. \A m \in 6..8 : m = 6 \/ m = 7 \/ m = 8
      OBVIOUS
    <3>. QED
      BY <1>4, <1>6, <3>1
  <2>4. /\ Recalling(s[i]) /\ s[j].do = "list all" => s[i].how = "all"
        /\ Recalling(s[i]) /\ s[j].do = "list" /\ s[j].how \in {"entity", "fact"} =>
             s[i].how # "all"
    <3>1. SUFFICES ASSUME Recalling(s[i]), s[j].do \in Lists
                   PROVE  /\ s[j].do = "list all" => s[i].how = "all"
                          /\ s[j].do = "list" /\ s[j].how \in {"entity", "fact"} =>
                               s[i].how # "all"
      BY DEF Lists
    <3>2. i = 9 /\ (j = 2 \/ j = 3 \/ j = 4 \/ j = 5)
      BY <1>6, <3>1 DEF Recalling
    <3>. QED
      BY <1>1, <1>4, <3>2
  <2>. QED
    BY <2>1, <2>2, <2>3, <2>4 DEF Pair
<1>11. Reading(s)
  BY <1>7, <1>8, <1>9, <1>10 DEF Reading
<1>. QED
  BY <1>3, <1>4, <1>6, <1>11 DEF s

\* suggest, list_task_records and build_context_pack
LEMMA SuggestReads ==
  LET s == SuggestPlan IN
  /\ s \in Seq(StepRec) /\ Reading(s) /\ Len(s) = 3
  /\ s[1].do = "retain" /\ s[2].do = "suggest" /\ s[3].do = "titles"
  /\ \A i \in DOMAIN s : s[i].do # "offer"
<1> DEFINE s == SuggestPlan
<1>1. Retain \in StepRec /\ Read("suggest", None) \in StepRec /\ Read("titles", None) \in StepRec
  <2>1. {"retain", "suggest", "titles"} \subseteq Steps
    BY DEF Steps
  <2>. QED
    BY <2>1, ReadTypes, NoneTypes DEF Retain
<1>2. /\ s \in Seq(StepRec) /\ Len(s) = 3 /\ DOMAIN s = {1, 2, 3}
      /\ s[1].do = "retain" /\ s[2].do = "suggest" /\ s[3].do = "titles"
  BY <1>1 DEF SuggestPlan, Retain, Read
<1> HIDE DEF s
<1>3. \A i \in DOMAIN s : s[i].do \in {"retain", "suggest", "titles"}
  BY <1>2
<1>4. Reading(s)
  BY <1>3 DEF Reading, ReadSteps, Typed, Reads, EndsAnswered, RetainsFirst, Recalling, Pair, Lists
<1>. QED
  BY <1>2, <1>3, <1>4 DEF s

LEMMA ListTasksReads ==
  LET s == ListTasksPlan IN
  /\ s \in Seq(StepRec) /\ Reading(s) /\ s[1].do = "retain"
  /\ \A i \in DOMAIN s : s[i].do # "offer"
<1> DEFINE s == ListTasksPlan
<1>1. Retain \in StepRec /\ Read("list", "task") \in StepRec /\ Read("answer", "tasks") \in StepRec
  <2>1. {"retain", "list", "answer"} \subseteq Steps /\ {"task", "tasks"} \subseteq Words
    BY DEF Steps, Words
  <2>. QED
    BY <2>1, ReadTypes, NoneTypes DEF Retain
<1>2. /\ s \in Seq(StepRec) /\ DOMAIN s = {1, 2, 3}
      /\ s[1].do = "retain" /\ s[2].do = "list"
      /\ s[3].do = "answer" /\ s[3].how = "tasks"
  BY <1>1 DEF ListTasksPlan, Retain, Read
<1> HIDE DEF s
<1>3. ReadSteps(s)
  BY <1>2 DEF ReadSteps, Typed, Reads
<1>4. EndsAnswered(s)
  <2>1. \A i \in DOMAIN s : s[i].do \in Lists \cup {"query"} => i = 2
    BY <1>2 DEF Lists
  <2>. QED
    BY <1>2, <2>1 DEF EndsAnswered
<1>5. RetainsFirst(s)
  BY <1>2 DEF RetainsFirst, Recalling
<1>6. ASSUME NEW i \in DOMAIN s, NEW j \in DOMAIN s
      PROVE  Pair(s[i], s[j], i, j)
  <2>1. /\ s[i].do = "answer" <=> i = 3
        /\ s[j].do = "answer" <=> j = 3
        /\ s[i].do \in Lists \cup {"query"} <=> i = 2
        /\ s[j].do \in Lists \cup {"query"} <=> j = 2
        /\ ~Recalling(s[i])
    BY <1>2 DEF Lists, Recalling
  <2>2. /\ s[i].do = "answer" /\ s[j].do \in Lists \cup {"query"} => j < i
        /\ s[i].do = "answer" /\ s[j].do = "answer" => i = j
        /\ s[i].do \in Lists /\ s[j].do \in Lists => i = j
        /\ s[i].do = "query" /\ s[j].do = "query" => i = j
    BY <2>1
  <2>. QED
    BY <2>1, <2>2 DEF Pair
<1>. QED
  BY <1>2, <1>3, <1>4, <1>5, <1>6 DEF Reading, s

LEMMA ContextReads ==
  LET s == ContextPlan IN
  /\ s \in Seq(StepRec) /\ Reading(s) /\ s[1].do = "retain"
  /\ \A i \in DOMAIN s : s[i].do # "offer"
<1> DEFINE u == RecallPlan(FALSE)
           v == SuggestPlan
           r == u \o v
<1>1. /\ u \in Seq(StepRec) /\ Reading(u) /\ u[1].do = "retain" /\ Len(u) = 9
      /\ \A i \in DOMAIN u : u[i].do # "offer"
  BY RecallReads
<1>2. /\ v \in Seq(StepRec) /\ Reading(v) /\ Len(v) = 3 /\ DOMAIN v = 1..3
      /\ v[1].do = "retain" /\ v[2].do = "suggest" /\ v[3].do = "titles"
      /\ \A i \in DOMAIN v : v[i].do # "offer"
  BY SuggestReads
<1> HIDE DEF u, v
<1>3. /\ r \in Seq(StepRec) /\ DOMAIN r = 1..12 /\ DOMAIN u = 1..9
      /\ \A i \in 1..9 : r[i] = u[i]
      /\ \A i \in 1..3 : r[9 + i] = v[i]
  <2>0. u \in Seq(StepRec) /\ v \in Seq(StepRec)
    BY <1>1, <1>2
  <2>1. /\ r \in Seq(StepRec) /\ DOMAIN r = 1..(Len(u) + Len(v)) /\ DOMAIN u = 1..Len(u)
        /\ \A i \in 1..Len(u) : r[i] = u[i]
    BY <2>0, Joined
  <2>2. \A i \in 1..Len(v) : r[Len(u) + i] = v[i]
    BY <2>0, Joined
  <2> HIDE DEF r
  <2>. QED
    BY <1>1, <1>2, <2>1, <2>2
<1> HIDE DEF r
<1>4. \A i \in DOMAIN r : \/ i \in 1..9 /\ r[i] = u[i]
                          \/ i \in 10..12 /\ i - 9 \in 1..3 /\ r[i] = v[i - 9]
  <2> TAKE i \in DOMAIN r
  <2>1. i \in 1..9 \/ (i \in 10..12 /\ i - 9 \in 1..3 /\ 9 + (i - 9) = i)
    BY <1>3
  <2>2. i - 9 \in 1..3 => r[9 + (i - 9)] = v[i - 9]
    BY <1>3
  <2>. QED
    BY <1>3, <2>1, <2>2
<1>5. ReadSteps(r)
  BY <1>1, <1>2, <1>3, <1>4 DEF Reading, ReadSteps
<1>6. \A i \in DOMAIN r : \/ i - 0 \in DOMAIN u
                          \/ r[i].do \in {"offer", "suggest", "titles"}
                          \/ r[i].do = "retain" /\ i > 0
  <2> TAKE i \in DOMAIN r
  <2>1. CASE i \in 1..9
    BY <1>3, <2>1
  <2>2. CASE i \in 10..12 /\ i - 9 \in 1..3 /\ r[i] = v[i - 9]
    <3>1. i - 9 = 1 \/ i - 9 = 2 \/ i - 9 = 3
      BY <2>2
    <3>. QED
      BY <1>2, <2>2, <3>1
  <2>. QED
    BY <1>4, <2>1, <2>2
<1>7. \A i \in DOMAIN u : i + 0 \in DOMAIN r /\ r[i + 0] = u[i]
  BY <1>3
<1>8. Reading(r)
  <2>1. 0 \in Nat
    OBVIOUS
  <2>. QED
    BY <1>1, <1>3, <1>5, <1>6, <1>7, <2>1, ReadingAmong
<1>9. r[1] = u[1]
  BY <1>3
<1>10. \A i \in DOMAIN r : r[i].do # "offer"
  BY <1>1, <1>2, <1>3, <1>4
<1>. QED
  BY <1>1, <1>3, <1>8, <1>9, <1>10 DEF ContextPlan, r, u, v

\* The suggestions that are offered come last.
LEMMA OffersRead ==
  ASSUME NEW o \in Seq(StepRec), NEW u \in Seq(StepRec), Reading(u),
         \A i \in DOMAIN o : o[i].do = "offer" /\ Typed(o[i])
  PROVE  /\ u \o o \in Seq(StepRec) /\ Reading(u \o o)
         /\ \A i \in DOMAIN (u \o o) : \/ i \in DOMAIN u /\ (u \o o)[i] = u[i]
                                      \/ \E j \in DOMAIN o : (u \o o)[i] = o[j]
         /\ \A i \in DOMAIN u : i \in DOMAIN (u \o o) /\ (u \o o)[i] = u[i]
<1> DEFINE r == u \o o
           n == Len(u)
<1> HIDE DEF r
<1>1. /\ n \in Nat /\ Len(o) \in Nat /\ DOMAIN u = 1..n /\ DOMAIN o = 1..Len(o)
      /\ DOMAIN r = 1..(n + Len(o)) /\ r \in Seq(StepRec)
      /\ \A i \in 1..n : r[i] = u[i]
      /\ \A i \in 1..Len(o) : r[n + i] = o[i]
  BY Joined DEF r
<1>2. \A i \in DOMAIN r : \/ i \in DOMAIN u /\ r[i] = u[i]
                          \/ i - n \in DOMAIN o /\ r[i] = o[i - n]
  <2> TAKE i \in DOMAIN r
  <2>1. CASE i \in 1..n
    BY <1>1, <2>1
  <2>2. CASE i \notin 1..n
    <3>1. i - n \in 1..Len(o) /\ n + (i - n) = i
      BY <1>1, <2>2
    <3>2. r[n + (i - n)] = o[i - n]
      BY <1>1, <3>1
    <3>. QED
      BY <1>1, <3>1, <3>2
  <2>. QED
    BY <2>1, <2>2
<1>3. \A i \in DOMAIN u : i + 0 = i /\ i - 0 = i /\ i \in DOMAIN r /\ r[i] = u[i]
  BY <1>1
<1>4. ReadSteps(r)
  <2>1. \A i \in DOMAIN u : u[i].do \in Reads /\ Typed(u[i])
    BY DEF Reading, ReadSteps
  <2>2. \A i \in DOMAIN o : o[i].do \in Reads /\ Typed(o[i])
    BY DEF Reads
  <2>. QED
    BY <1>2, <2>1, <2>2 DEF ReadSteps
<1>5. \A i \in DOMAIN r : \/ i - 0 \in DOMAIN u
                          \/ r[i].do \in {"offer", "suggest", "titles"}
                          \/ r[i].do = "retain" /\ i > 0
  BY <1>2, <1>3
<1>6. \A i \in DOMAIN u : i + 0 \in DOMAIN r /\ r[i + 0] = u[i]
  BY <1>3
<1> HIDE DEF n
<1>7. Reading(r)
  <2>1. 0 \in Nat
    OBVIOUS
  <2>. QED
    BY <1>1, <1>4, <1>5, <1>6, <2>1, ReadingAmong
<1>. QED
  BY <1>1, <1>2, <1>3, <1>7 DEF r

\* A forget: the rows, then the projections.
LEMMA ForgetScript ==
  ASSUME NEW g \in Target, NEW kind, NEW k, kind = g.kind, k = g.key,
         NEW mode \in {"archive", "delete"}
  PROVE  LET s == ForgetPlan(kind, k, mode) IN
         s \in Seq(StepRec) /\ Forgetting(s) /\ s # <<>> /\ s[1].do = "forget" /\ s[1].key = k
<1> DEFINE s  == ForgetPlan(kind, k, mode)
           x  == [do |-> "forget", key |-> k, val |-> [kind |-> kind], how |-> mode]
           d  == Step("drop", k, None)
           dh == Step("drop hint", k, None)
<1>1. /\ x \in StepRec /\ d \in StepRec /\ dh \in StepRec
      /\ Typed(x) /\ (k \in Key => Typed(d)) /\ (k \in Task => Typed(dh))
  <2>1. k \in Names /\ None \in Val /\ {"forget", "drop", "drop hint"} \subseteq Steps
        /\ mode \in Words /\ None \in Words /\ [kind |-> kind] \in [kind : Kind]
    BY RequestAssumption DEF Names, Val, Steps, Words
  <2>. QED
    BY <2>1, StepTypes DEF StepRec, Step, Typed
<1>2. /\ x.do = "forget" /\ x.key = k /\ x.how = mode
      /\ d.do = "drop" /\ d.key = k /\ dh.do = "drop hint" /\ dh.key = k
  BY DEF Step
<1>3. /\ mode = "archive" \/ k \notin Key => s = <<x>>
      /\ mode # "archive" /\ k \in Key \ Task => s = <<x>> \o <<d>>
      /\ mode # "archive" /\ k \in Task => s = <<x>> \o <<d>> \o <<dh>>
  <2>1. x \in StepRec /\ d \in StepRec /\ dh \in StepRec /\ (k \in Task => k \in Key)
    BY <1>1 DEF Key
  <2>2. s = <<x>> \o (IF mode = "archive" \/ k \notin Key THEN <<>> ELSE <<d>>)
              \o (IF mode = "archive" \/ k \notin Task THEN <<>> ELSE <<dh>>)
    BY DEF ForgetPlan
  <2> HIDE DEF s, x, d, dh
  <2>3. <<x>> \o <<>> = <<x>> /\ (<<x>> \o <<d>>) \o <<>> = <<x>> \o <<d>>
    BY <2>1
  <2>. QED
    BY <2>1, <2>2, <2>3
<1> HIDE DEF s, x, d, dh
<1>4. CASE mode = "archive" \/ k \notin Key
  <2>1. /\ s \in Seq(StepRec) /\ s # <<>> /\ DOMAIN s = {1} /\ s[1] = x /\ Len(s) = 1
    <3>1. s = <<x>>
      BY <1>3, <1>4
    <3>2. x \in StepRec /\ d \in StepRec /\ dh \in StepRec
      BY <1>1
    <3>. QED
      BY ONLY <3>1, <3>2
  <2>2. mode # "archive" => k \notin Key /\ k \notin Task
    BY <1>4 DEF Key
  <2>3. Forgetting(s)
    BY <1>1, <1>2, <2>1, <2>2 DEF Forgetting
  <2>. QED
    BY <1>2, <2>1, <2>3 DEF s
<1>5. CASE mode # "archive" /\ k \in Key \ Task
  <2>1. /\ s \in Seq(StepRec) /\ s # <<>> /\ DOMAIN s = {1, 2} /\ s[1] = x /\ s[2] = d
    <3>1. s = <<x>> \o <<d>>
      BY <1>3, <1>5
    <3>2. x \in StepRec /\ d \in StepRec /\ dh \in StepRec
      BY <1>1
    <3>. QED
      BY ONLY <3>1, <3>2
  <2>2. Forgetting(s)
    BY <1>1, <1>2, <1>5, <2>1 DEF Forgetting
  <2>. QED
    BY <1>2, <2>1, <2>2 DEF s
<1>6. CASE mode # "archive" /\ k \in Task
  <2>1. /\ s \in Seq(StepRec) /\ s # <<>> /\ DOMAIN s = {1, 2, 3}
        /\ s[1] = x /\ s[2] = d /\ s[3] = dh
    <3>1. s = <<x>> \o <<d>> \o <<dh>>
      BY <1>3, <1>6
    <3>2. x \in StepRec /\ d \in StepRec /\ dh \in StepRec
      BY <1>1
    <3>3. s \in Seq(StepRec) /\ s # <<>> /\ Len(s) = 3
      BY ONLY <3>1, <3>2
    <3>4. s[1] = x /\ s[2] = d /\ s[3] = dh
      <4> DEFINE p == <<x>> \o <<d>>
      <4>1. p \in Seq(StepRec) /\ Len(p) = 2 /\ p[1] = x /\ p[2] = d
        BY ONLY <3>2
      <4>2. s = p \o <<dh>>
        BY <3>1
      <4> HIDE DEF p
      <4>3. /\ \A i \in 1..Len(p) : (p \o <<dh>>)[i] = p[i]
            /\ (p \o <<dh>>)[Len(p) + 1] = dh
        <5>1. p \in Seq(StepRec) /\ dh \in StepRec
          BY <3>2, <4>1
        <5>. QED
          BY ONLY <5>1, Appended
      <4>. QED
        BY <4>1, <4>2, <4>3
    <3>5. DOMAIN s = {1, 2, 3}
      BY ONLY <3>3
    <3>. QED
      BY <3>3, <3>4, <3>5
  <2>2. Forgetting(s)
    BY <1>1, <1>2, <1>6, <2>1 DEF Forgetting, Key
  <2>. QED
    BY <1>2, <2>1, <2>2 DEF s
<1>. QED
  BY <1>4, <1>5, <1>6 DEF Key

-----------------------------------------------------------------------------
(* What a step of one call leaves of the others.                           *)

StoreTyped ==
  /\ \A k \in Key : \/ row[k] = Absent
                    \/ row[k].state \in {"live", "archived"} /\ row[k].val \in ValOf(k)
  /\ \A k \in Key : index[k] \in {None, Foreign} \/ index[k] \in ValOf(k)
  /\ hint \in [Task -> Text \cup {None, Foreign}]
  /\ rel.live \cap rel.archived = {}
  /\ Ranks(newer, TaskRows)
  /\ old \subseteq TaskRows
  /\ row \in [Key -> [state : {"absent", "live", "archived"}, val : Val]]
  /\ index \in [Key -> Val \cup {Foreign}]
SeenTyped ==
  seen = [c \in Slot |-> [listed |-> seen[c].listed, fits |-> seen[c].fits,
                          links |-> seen[c].links, ties |-> seen[c].ties,
                          hits |-> seen[c].hits, cut |-> seen[c].cut]]
CallsTyped ==
  /\ todo \in [Slot -> Seq(StepRec)]
  /\ touched \in [Slot -> SUBSET Key]
  /\ \A c \in Slot : todo[c] = <<>> => touched[c] = {} /\ seen[c] = Nothing
  /\ up \in {"starting", "serving", "down"}

LEMMA Types == TypeOK /\ TypePart <=> StoreTyped /\ SeenTyped /\ CallsTyped
<1>1. TypeOK /\ TypePart => StoreTyped /\ SeenTyped /\ CallsTyped
  BY DEF TypeOK, TypePart, StoreTyped, SeenTyped, CallsTyped
<1>2. ASSUME StoreTyped, SeenTyped, CallsTyped PROVE TypeOK /\ TypePart
  <2>1. ASSUME NEW c \in Slot, NEW i \in DOMAIN todo[c] PROVE todo[c][i].do \in Steps
    <3>1. todo[c] \in Seq(StepRec)
      BY <1>2 DEF CallsTyped
    <3>2. todo[c][i] \in StepRec
      BY <3>1
    <3>. QED
      BY <3>2 DEF StepRec
  <2>. QED
    BY <1>2, <2>1 DEF TypeOK, TypePart, StoreTyped, SeenTyped, CallsTyped
<1>. QED
  BY <1>1, <1>2

\* Rows and index entries outside K are as they were, and the order of the tasks too
\* if K has no task.
Watched(K) ==
  /\ \A k \in Key \ K : row'[k] = row[k] /\ index'[k] = index[k]
  /\ K \cap Task = {} => newer' = newer

LEMMA SameWindow ==
  ASSUME NEW K, Watched(K), K \cap Task = {}
  PROVE  /\ InWindow' = InWindow
         /\ \A x : Similar(x)' = Similar(x)
         /\ \A t \in Task : row'[t] = row[t]
<1>1. newer' = newer /\ \A t \in Task : row'[t] = row[t]
  BY DEF Watched, Key
<1>2. TaskRows' = TaskRows
  BY <1>1 DEF TaskRows
<1>3. InWindow' = InWindow
  BY <1>1, <1>2 DEF InWindow
<1>4. Listed' = Listed
  BY <1>1, <1>3 DEF Listed, InWindow, TaskRows, IsLive
<1>5. \A x : Similar(x)' = Similar(x)
  BY <1>1, <1>4 DEF Similar, Listed, InWindow, TaskRows
<1>. QED
  BY <1>1, <1>3, <1>5

LEMMA WindowTasks == InWindow \subseteq Task /\ Listed \subseteq InWindow
BY DEF InWindow, Listed, TaskRows

\* d waits, and takes note of the records in K.
Waits(d, K) == todo'[d] = todo[d] /\ seen'[d] = seen[d] /\ touched'[d] = touched[d] \cup K

LEMMA HeldKept ==
  ASSUME NEW d, NEW K, Watched(K), Waits(d, K), NEW k \in Key, NEW v, NEW how, Held(d, k, v, how)
  PROVE  Held(d, k, v, how)'
<1>1. ASSUME Calm(d)'
      PROVE  /\ Calm(d) /\ InWindow' = InWindow /\ Similar(v.text)' = Similar(v.text)
             /\ \A t \in Task : row'[t] = row[t]
  <2>1. touched[d] \cap Task = {} /\ K \cap Task = {}
    BY <1>1 DEF Calm, Waits
  <2>. QED
    BY <2>1, SameWindow DEF Calm
<1>2. how = "found" =>
        k \in touched'[d] \/ (IsLive(k)' /\ <<row'[k].val.text, v.text>> \in Attracts)
  BY DEF Held, Waits, Watched, IsLive
<1>3. how = "closed" => \/ k \in touched'[d]
                        \/ /\ IsLive(k)' /\ row'[k].val.status \in Active
                           /\ v = [row'[k].val EXCEPT !.status = "done"]
  BY DEF Held, Waits, Watched, IsLive
<1>4. /\ how \in {"kept", "kept text"} /\ Calm(d)' /\ k \in InWindow' =>
             v.text = row'[k].val.text
      /\ how \in {"kept", "kept links"} /\ Calm(d)' /\ k \in InWindow' =>
             v.links = row'[k].val.links
  BY <1>1, WindowTasks DEF Held
<1>5. how = "new" /\ Calm(d)' => Similar(v.text)' = {}
  BY <1>1 DEF Held
<1>. QED
  BY <1>2, <1>3, <1>4, <1>5 DEF Held

LEMMA HonestKept ==
  ASSUME NEW d \in Slot, NEW K, Watched(K), Waits(d, K), todo[d] \in Seq(StepRec),
         Writing(todo[d]) \/ Forgetting(todo[d]) \/ Reading(todo[d]),
         HeldBy(d), GroundedBy(d), RecallsBy(d)
  PROVE  (HeldBy(d) /\ GroundedBy(d) /\ RecallsBy(d))'
<1>1. HeldBy(d)'
  <2> SUFFICES ASSUME Doing(d, "put")'
               PROVE  Held(d, Now(d).key, Now(d).val, Now(d).how)'
    BY DEF HeldBy
  <2>1. Doing(d, "put") /\ Now(d)' = Now(d)
    BY DEF Doing, Now, Waits
  <2>2. Now(d).key \in Key
    <3>1. todo[d] # <<>> /\ todo[d][1].do = "put" /\ 1 \in DOMAIN todo[d] /\ Now(d) = todo[d][1]
      BY <2>1 DEF Doing, Now
    <3>2. Writing(todo[d])
      BY <3>1 DEF Forgetting, Reading, ReadSteps, Reads
    <3>. QED
      BY <3>1, <3>2 DEF Writing, Typed
  <2> DEFINE k == Now(d).key
             v == Now(d).val
             how == Now(d).how
  <2>3. Held(d, k, v, how)
    BY <2>1 DEF HeldBy
  <2>4. Now(d)'.key = k /\ Now(d)'.val = v /\ Now(d)'.how = how
    BY <2>1
  <2>. QED
    BY <2>1, <2>2, <2>3, <2>4, HeldKept
<1>2. GroundedBy(d)'
  <2>1. ASSUME NEW f \in Fact PROVE EntityOf[f] \in Key
    BY BrainAssumption DEF Key
  <2>. QED
    BY <2>1 DEF GroundedBy, GroundedIn, Waits, Watched, IsLive
<1>3. RecallsBy(d)'
  <2> SUFFICES ASSUME NEW i \in DOMAIN todo[d], Recalling(todo[d][i]), NEW k \in Key \ touched'[d]
               PROVE  /\ k \in seen[d].listed =>
                           ~Pending(todo[d], Lists, KindOf(k)) /\ Wanted(k, todo[d][i].how)'
                      /\ k \in seen[d].fits => k \in seen[d].listed
                      /\ KindOf(k) \notin seen[d].cut /\ ~Pending(todo[d], Lists, KindOf(k))
                           /\ Wanted(k, todo[d][i].how)'
                           => /\ k \in seen[d].listed
                              /\ ScopeOf(k)' \in InScope => k \in seen[d].fits
                      /\ KindOf(k) \notin seen[d].cut /\ ~Pending(todo[d], {"query"}, KindOf(k))
                           /\ index'[k] # None => k \in seen[d].hits
    BY DEF RecallsBy, RecallsIn, Waits, Recalling, Pending, KindOf, Wanted, IsLive, ScopeOf
  <2>1. k \in Key \ touched[d] /\ k \notin K /\ row'[k] = row[k] /\ index'[k] = index[k]
    BY DEF Waits, Watched
  <2>2. Wanted(k, todo[d][i].how)' = Wanted(k, todo[d][i].how) /\ ScopeOf(k)' = ScopeOf(k)
    BY <2>1 DEF Wanted, IsLive, Waits, ScopeOf
  <2>3. /\ k \in seen[d].listed =>
             ~Pending(todo[d], Lists, KindOf(k)) /\ Wanted(k, todo[d][i].how)
        /\ k \in seen[d].fits => k \in seen[d].listed
        /\ KindOf(k) \notin seen[d].cut /\ ~Pending(todo[d], Lists, KindOf(k))
             /\ Wanted(k, todo[d][i].how)
             => /\ k \in seen[d].listed
                /\ ScopeOf(k) \in InScope => k \in seen[d].fits
        /\ KindOf(k) \notin seen[d].cut /\ ~Pending(todo[d], {"query"}, KindOf(k))
             /\ index[k] # None => k \in seen[d].hits
    BY <2>1 DEF RecallsBy, RecallsIn
  <2>. QED
    BY <2>1, <2>2, <2>3
<1>. QED
  BY <1>1, <1>2, <1>3

\* A step of c.
Turn(c, s, K) ==
  /\ todo[c] # <<>> /\ Advance(c, s, K) /\ s \in Seq(StepRec) /\ K \subseteq Key /\ Watched(K)
  /\ Writing(s) \/ Forgetting(s) \/ Reading(s)
  /\ \A d \in Slot \ {c} : seen'[d] = seen[d]

LEMMA Turned ==
  ASSUME IInv, NEW c \in Slot, NEW s, NEW K, Turn(c, s, K)
  PROVE  /\ todo' = [todo EXCEPT ![c] = s] /\ todo'[c] = s
         /\ todo' \in [Slot -> Seq(StepRec)] /\ touched' \in [Slot -> SUBSET Key]
         /\ touched'[c] = IF s = <<>> THEN {} ELSE touched[c]
         /\ \A d \in Slot \ {c} : /\ todo'[d] = todo[d]
                                  /\ todo[d] = <<>> => touched'[d] = {}
                                  /\ todo[d] # <<>> => touched'[d] = touched[d] \cup K
         /\ Scripts'
<1>1. todo \in [Slot -> Seq(StepRec)] /\ touched \in [Slot -> SUBSET Key] /\ Scripts
  BY DEF IInv, TypePart
<1>2. /\ todo' = [todo EXCEPT ![c] = s] /\ s \in Seq(StepRec) /\ K \subseteq Key
      /\ touched' = [d \in Slot |-> IF d = c THEN IF s = <<>> THEN {} ELSE touched[d]
                                    ELSE IF todo[d] = <<>> THEN {} ELSE touched[d] \cup K]
  BY DEF Turn, Advance
<1>3. Scripts'
  BY <1>1, <1>2 DEF Scripts, Turn
<1>. QED
  <2>1. \A d \in Slot \ {c} : /\ todo'[d] = todo[d]
                              /\ todo[d] = <<>> => touched'[d] = {}
                              /\ todo[d] # <<>> => touched'[d] = touched[d] \cup K
    BY <1>1, <1>2
  <2>2. /\ touched' \in [Slot -> SUBSET Key]
        /\ touched'[c] = IF s = <<>> THEN {} ELSE touched[c]
    BY <1>1, <1>2
  <2>. QED
    BY <1>1, <1>2, <1>3, <2>1, <2>2

\* A step keeps the invariant, if it keeps what concerns the store and its own call.
LEMMA TurnKeeps ==
  ASSUME IInv, NEW c \in Slot, NEW s, NEW K, Turn(c, s, K),
         up' = up \/ (c = Boot /\ s = <<>> /\ up' = "down"),
         StoreTyped', SeenTyped', InStep', (HeldBy(c) /\ GroundedBy(c) /\ RecallsBy(c))',
         seen'[c] # Nothing => \E i \in DOMAIN s : s[i].do = "answer"
  PROVE  IInv'
<1>0. TypeOK /\ TypePart /\ Scripts /\ Sessions /\ Honest /\ CallsTyped
  BY Types DEF IInv
<1>1. Scripts' /\ todo'[c] = s /\ todo' \in [Slot -> Seq(StepRec)] /\ touched' \in [Slot -> SUBSET Key]
  BY Turned
<1>2. \A d \in Slot \ {c} : todo'[d] = todo[d] /\ seen'[d] = seen[d]
  BY Turned DEF Turn
<1>9. \A d \in Slot \ {c} : todo[d] # <<>> => touched'[d] = touched[d] \cup K
  BY Turned
<1>3. Sessions'
  <2>1. \A d \in Slot : seen'[d] # Nothing => \E i \in DOMAIN todo'[d] : todo'[d][i].do = "answer"
    BY <1>0, <1>1, <1>2 DEF Sessions
  <2>2. ASSUME todo'[Boot] # <<>> PROVE up' = "starting"
    <3>1. todo[Boot] # <<>>
      <4>1. Boot = c => todo[c] # <<>>
        BY DEF Turn
      <4>. QED
        BY <1>2, <2>2, <4>1 DEF Slot
    <3>2. ~(c = Boot /\ s = <<>>)
      BY <1>1, <2>2
    <3>. QED
      BY <1>0, <3>1, <3>2 DEF Sessions
  <2>. QED
    BY <2>1, <2>2 DEF Sessions, Nothing
<1>4. ASSUME NEW d \in Slot, todo'[d] = <<>>
      PROVE  touched'[d] = {} /\ seen'[d] = Nothing
  <2>1. seen'[d] = Nothing
    BY <1>3, <1>4 DEF Sessions, Nothing
  <2>2. touched'[d] = {}
    BY <1>4, Turned
  <2>. QED
    BY <2>1, <2>2
<1>5. CallsTyped'
  BY <1>0, <1>1, <1>4 DEF CallsTyped, Nothing
<1>6. ASSUME NEW d \in Slot
      PROVE  (HeldBy(d) /\ GroundedBy(d) /\ RecallsBy(d))'
  <2>1. CASE d = c
    BY <2>1
  <2>2. CASE d # c /\ todo[d] = <<>>
    <3>1. todo'[d] = <<>>
      BY <1>2, <2>2
    <3>. QED
      BY <3>1 DEF HeldBy, GroundedBy, RecallsBy, GroundedIn, RecallsIn, Doing
  <2>3. CASE d # c /\ todo[d] # <<>>
    <3>1. Waits(d, K)
      <4>1. d \in Slot \ {c}
        BY <2>3
      <4>2. touched'[d] = touched[d] \cup K
        BY <2>3, <4>1, <1>9
      <4>. QED
        BY <1>2, <2>3, <4>1, <4>2 DEF Waits
    <3>2. /\ todo[d] \in Seq(StepRec) /\ HeldBy(d) /\ GroundedBy(d) /\ RecallsBy(d)
          /\ Writing(todo[d]) \/ Forgetting(todo[d]) \/ Reading(todo[d])
      BY <1>0 DEF CallsTyped, Honest, Scripts
    <3>3. Watched(K)
      BY DEF Turn
    <3>. QED
      BY <3>1, <3>2, <3>3, HonestKept
  <2>. QED
    BY <2>1, <2>2, <2>3
<1>7. Honest'
  BY <1>6 DEF Honest
<1>8. (TypeOK /\ TypePart)'
  <2>1. StoreTyped' /\ SeenTyped' /\ CallsTyped'
    BY <1>5
  <2>2. (TypeOK /\ TypePart <=> StoreTyped /\ SeenTyped /\ CallsTyped)'
    BY Types, PTL
  <2>. QED
    BY <2>1, <2>2
<1>. QED
  BY <1>1, <1>3, <1>7, <1>8 DEF IInv

-----------------------------------------------------------------------------
(* What a step leaves to its own call.                                     *)

LEMMA OpenHeld ==
  ASSUME NEW c \in Slot, NEW s \in Seq(StepRec), todo'[c] = s,
         s # <<>> /\ s[1].do = "put" => s[1].how = "name"
  PROVE  HeldBy(c)'
<1> SUFFICES ASSUME Doing(c, "put")'
             PROVE  Held(c, Now(c).key, Now(c).val, Now(c).how)'
  BY DEF HeldBy
<1>1. s # <<>> /\ Now(c)' = s[1] /\ s[1].do = "put"
  BY DEF Doing, Now
<1>2. Now(c)'.how = "name"
  BY <1>1
<1>. QED
  BY <1>2 DEF Held

LEMMA TailHeld ==
  ASSUME IInv, NEW c \in Slot, todo[c] # <<>>, todo'[c] = Tail(todo[c])
  PROVE  HeldBy(c)'
<1>1. PICK s \in Seq(StepRec) : s = todo[c] /\ s # <<>>
  BY DEF IInv, TypePart
<1>2. PICK t \in Seq(StepRec) : t = Tail(s)
  BY <1>1, Tails
<1>3. ASSUME t # <<>>, t[1].do = "put" PROVE t[1].how = "name"
  <2>1. 1 \in DOMAIN t /\ 1 + 1 \in DOMAIN s /\ t[1] = s[1 + 1]
    BY <1>1, <1>2, <1>3, Tails
  <2>2. 2 \in DOMAIN s \ {1} /\ s[2].do = "put" /\ t[1] = s[2]
    BY <1>3, <2>1
  <2>3. Writing(s)
    BY <1>1, <2>2 DEF IInv, Scripts, Forgetting, Reading, ReadSteps, Reads
  <2>. QED
    BY <2>2, <2>3 DEF Writing
<1>. QED
  BY <1>1, <1>2, <1>3, OpenHeld

LEMMA TailGrounded ==
  ASSUME IInv, NEW c \in Slot, todo[c] # <<>>, todo'[c] = Tail(todo[c]),
         todo'[c] # <<>> => touched'[c] = touched[c],
         \A e \in Entity : IsLive(e) => IsLive(e)',
         Now(c).do = "put" => row'[Now(c).key].state = "live"
  PROVE  GroundedBy(c)'
<1>1. PICK s \in Seq(StepRec) : s = todo[c] /\ s # <<>>
  BY DEF IInv, TypePart
<1>2. PICK t \in Seq(StepRec) : t = Tail(s)
  BY <1>1, Tails
<1>3. /\ DOMAIN s = 1..Len(s) /\ DOMAIN t = 1..(Len(s) - 1) /\ Len(s) \in Nat /\ Now(c) = s[1]
      /\ \A i \in DOMAIN t : i + 1 \in DOMAIN s /\ t[i] = s[i + 1]
      /\ GroundedIn(c, s) /\ todo'[c] = t
  BY <1>1, <1>2, Tails DEF IInv, Honest, GroundedBy, Now
<1>4. SUFFICES ASSUME NEW i \in DOMAIN t, t[i].do = "put", t[i].key \in Fact \ Contexts
               PROVE  \/ \E j \in 1..(i - 1) : t[j].do = "put" /\ t[j].key = EntityOf[t[i].key]
                      \/ IsLive(EntityOf[t[i].key])'
                      \/ EntityOf[t[i].key] \in touched'[c]
  BY <1>3 DEF GroundedBy, GroundedIn
<1>5. /\ i + 1 \in DOMAIN s /\ t[i] = s[i + 1] /\ touched'[c] = touched[c]
      /\ EntityOf[t[i].key] \in Entity
  <2>1. EntityOf[t[i].key] \in Entity
    BY <1>4, BrainAssumption
  <2>2. t # <<>>
    BY <1>4
  <2>. QED
    BY <1>3, <1>4, <2>1, <2>2
<1>6. \/ \E j \in 1..((i + 1) - 1) : s[j].do = "put" /\ s[j].key = EntityOf[s[i + 1].key]
      \/ IsLive(EntityOf[s[i + 1].key])
      \/ EntityOf[s[i + 1].key] \in touched[c]
  BY <1>3, <1>4, <1>5 DEF GroundedIn
<1>7. CASE \E j \in 1..((i + 1) - 1) : s[j].do = "put" /\ s[j].key = EntityOf[s[i + 1].key]
  <2>1. PICK j \in 1..((i + 1) - 1) : s[j].do = "put" /\ s[j].key = EntityOf[t[i].key]
    BY <1>5, <1>7
  <2>2. CASE j = 1
    <3>1. Now(c).do = "put" /\ Now(c).key = EntityOf[t[i].key]
      BY <1>3, <2>1, <2>2
    <3>. QED
      BY <3>1 DEF IsLive
  <2>3. CASE j # 1
    <3>1. j - 1 \in 1..(i - 1) /\ j - 1 \in DOMAIN t /\ (j - 1) + 1 = j
      BY <1>3, <1>4, <2>1, <2>3
    <3>2. t[j - 1] = s[j]
      BY <1>3, <3>1
    <3>. QED
      BY <2>1, <3>1, <3>2
  <2>. QED
    BY <2>2, <2>3
<1>. QED
  BY <1>5, <1>6, <1>7

LEMMA UnputGrounded ==
  ASSUME NEW c \in Slot, NEW s, todo'[c] = s, \A i \in DOMAIN s : s[i].do # "put"
  PROVE  GroundedBy(c)'
BY DEF GroundedBy, GroundedIn

LEMMA UnaskedRecalls ==
  ASSUME NEW c \in Slot, NEW s, todo'[c] = s, Writing(s) \/ Forgetting(s)
  PROVE  RecallsBy(c)'
<1>1. \A i \in DOMAIN s : s[i].do # "answer"
  BY DEF Writing, Forgetting, Writes
<1>. QED
  BY <1>1 DEF RecallsBy, RecallsIn, Recalling

\* A step that lists and queries nothing leaves what a recall has found, and only the
\* retention that precedes all of it may change a row.
LEMMA TailRecalls ==
  ASSUME IInv, NEW c \in Slot, todo[c] # <<>>, Reading(todo[c]),
         NEW t \in Seq(StepRec), t = Tail(todo[c]),
         t # <<>> => touched'[c] = touched[c],
         seen'[c] = seen[c], Now(c).do \notin Lists \cup {"query"},
         Now(c).do = "retain" \/ (UNCHANGED <<row, index, newer>>)
  PROVE  RecallsIn(c, t)'
<1>1. PICK s \in Seq(StepRec) : s = todo[c] /\ s # <<>>
  BY DEF IInv, TypePart
<1>2. /\ DOMAIN s = 1..Len(s) /\ DOMAIN t = 1..(Len(s) - 1) /\ Len(s) \in Nat /\ Now(c) = s[1]
      /\ \A i \in DOMAIN t : i + 1 \in DOMAIN s /\ t[i] = s[i + 1]
      /\ \A i \in DOMAIN s \ {1} : i - 1 \in DOMAIN t /\ t[i - 1] = s[i]
      /\ RecallsIn(c, s) /\ 1 \in DOMAIN s
  BY <1>1, Tails DEF IInv, Honest, RecallsBy, Now
<1>3. SUFFICES ASSUME NEW i \in DOMAIN t, Recalling(t[i]), NEW k \in Key \ touched'[c]
               PROVE  /\ k \in seen[c].listed =>
                           ~Pending(t, Lists, KindOf(k)) /\ Wanted(k, t[i].how)'
                      /\ k \in seen[c].fits => k \in seen[c].listed
                      /\ KindOf(k) \notin seen[c].cut /\ ~Pending(t, Lists, KindOf(k))
                           /\ Wanted(k, t[i].how)'
                           => /\ k \in seen[c].listed
                              /\ ScopeOf(k)' \in InScope => k \in seen[c].fits
                      /\ KindOf(k) \notin seen[c].cut /\ ~Pending(t, {"query"}, KindOf(k))
                           /\ index'[k] # None => k \in seen[c].hits
  BY DEF RecallsIn, KindOf, Wanted, IsLive, Pending, ScopeOf
<1>4. /\ touched'[c] = touched[c] /\ i + 1 \in DOMAIN s /\ t[i] = s[i + 1] /\ k \in Key \ touched[c]
  BY <1>2, <1>3
<1>5. /\ k \in seen[c].listed =>
           ~Pending(s, Lists, KindOf(k)) /\ Wanted(k, t[i].how)
      /\ k \in seen[c].fits => k \in seen[c].listed
      /\ KindOf(k) \notin seen[c].cut /\ ~Pending(s, Lists, KindOf(k)) /\ Wanted(k, t[i].how)
           => /\ k \in seen[c].listed
              /\ ScopeOf(k) \in InScope => k \in seen[c].fits
      /\ KindOf(k) \notin seen[c].cut /\ ~Pending(s, {"query"}, KindOf(k)) /\ index[k] # None
           => k \in seen[c].hits
  BY <1>2, <1>3, <1>4 DEF RecallsIn
<1>6. /\ Pending(s, Lists, KindOf(k)) <=> Pending(t, Lists, KindOf(k))
      /\ Pending(s, {"query"}, KindOf(k)) <=> Pending(t, {"query"}, KindOf(k))
  <2>1. ASSUME NEW do, s[1].do \notin do
        PROVE  Pending(s, do, KindOf(k)) <=> Pending(t, do, KindOf(k))
    <3>1. Pending(t, do, KindOf(k)) => Pending(s, do, KindOf(k))
      BY <1>2 DEF Pending
    <3>2. ASSUME NEW j \in DOMAIN s, s[j].do \in do, s[j].how = KindOf(k)
          PROVE  Pending(t, do, KindOf(k))
      <4>1. j \in DOMAIN s \ {1}
        BY <2>1, <3>2
      <4>2. j - 1 \in DOMAIN t /\ t[j - 1] = s[j]
        BY <1>2, <4>1
      <4>. QED
        BY <3>2, <4>2 DEF Pending
    <3>. QED
      BY <3>1, <3>2 DEF Pending
  <2>. QED
    BY <1>2, <2>1
<1>7. CASE Now(c).do = "retain"
  <2>1. Reading(s) /\ KindOf(k) \in Kinds /\ 1 < i + 1 /\ Recalling(s[i + 1]) /\ s[1].do = "retain"
    BY <1>1, <1>2, <1>3, <1>4, <1>7 DEF KindOf, Kinds
  <2>2. /\ \E m \in DOMAIN s : m > 1 /\ s[m].do \in Lists /\ s[m].how = KindOf(k)
        /\ \E m \in DOMAIN s : m > 1 /\ s[m].do = "query" /\ s[m].how = KindOf(k)
    BY <1>2, <1>4, <2>1 DEF Reading, RetainsFirst
  <2>3. Pending(s, Lists, KindOf(k)) /\ Pending(s, {"query"}, KindOf(k))
    BY <2>2 DEF Pending
  <2>. QED
    BY <1>5, <1>6, <2>3
<1>8. CASE UNCHANGED <<row, index, newer>>
  <2>1. /\ Wanted(k, t[i].how)' = Wanted(k, t[i].how) /\ ScopeOf(k)' = ScopeOf(k)
        /\ index'[k] = index[k]
    BY <1>4, <1>8 DEF Wanted, IsLive, ScopeOf
  <2>. QED
    BY <1>5, <1>6, <2>1
<1>. QED
  BY <1>7, <1>8

-----------------------------------------------------------------------------
(* The store, and what is owed to it.                                      *)

LEMMA BumpRanks ==
  ASSUME NEW o, NEW S, NEW L, Ranks(o, S), L \subseteq S \/ \E x : L = {x}
  PROVE  Ranks({p \in o : p[2] \in L => p[1] \in L} \cup (L \X (S \ L)), S \cup L)
<1> DEFINE kept == {p \in o : p[2] \in L => p[1] \in L}
           new  == L \X (S \ L)
           r    == kept \cup new
<1>1. \A t, u : <<t, u>> \in r <=> (<<t, u>> \in o /\ (u \in L => t \in L))
                                    \/ (t \in L /\ u \in S \ L)
  <2> TAKE t, u
  <2>1. <<t, u>> \in kept <=> <<t, u>> \in o /\ (u \in L => t \in L)
    OBVIOUS
  <2>2. <<t, u>> \in new <=> t \in L /\ u \in S \ L
    OBVIOUS
  <2> HIDE DEF kept, new
  <2>. QED
    BY <2>1, <2>2
<1>0. \A t, u : <<t, u>> \in o => t \in S /\ u \in S
  BY DEF Ranks
<1>2. r \subseteq (S \cup L) \X (S \cup L)
  BY DEF Ranks
<1> HIDE DEF r
<1>3. \A t, u \in S \cup L : t # u <=> <<t, u>> \in r \/ <<u, t>> \in r
  <2> TAKE t, u \in S \cup L
  <2>1. \A a, b \in S : a # b <=> <<a, b>> \in o \/ <<b, a>> \in o
    BY DEF Ranks
  <2>2. CASE t \in L /\ u \in L
    <3>1. CASE L \subseteq S
      BY <1>1, <2>1, <2>2, <3>1
    <3>2. CASE \E x : L = {x}
      <4>1. t = u
        BY <2>2, <3>2
      <4>2. <<t, t>> \notin r
        BY <1>0, <1>1, <2>1, <2>2
      <4>. QED
        BY <4>1, <4>2
    <3>. QED
      BY <3>1, <3>2
  <2>3. CASE ~(t \in L /\ u \in L)
    BY <1>0, <1>1, <2>1, <2>3
  <2>. QED
    BY <2>2, <2>3
<1>4. \A t, u \in S \cup L : <<t, u>> \in r => <<u, t>> \notin r
  BY <1>1 DEF Ranks
<1>5. \A t, u, v \in S \cup L : <<t, u>> \in r /\ <<u, v>> \in r => <<t, v>> \in r
  BY <1>1 DEF Ranks
<1>. QED
  BY <1>2, <1>3, <1>4, <1>5 DEF Ranks, r

LEMMA UnlistRanks ==
  ASSUME NEW o, NEW S, NEW L, Ranks(o, S)
  PROVE  Ranks({p \in o : p[1] \notin L /\ p[2] \notin L}, S \ L)
<1> DEFINE r == {p \in o : p[1] \notin L /\ p[2] \notin L}
<1>1. \A t, u : <<t, u>> \in r <=> <<t, u>> \in o /\ t \notin L /\ u \notin L
  OBVIOUS
<1>2. r \subseteq (S \ L) \X (S \ L)
  BY DEF Ranks
<1> HIDE DEF r
<1>3. \A t, u \in S \ L : t # u <=> <<t, u>> \in r \/ <<u, t>> \in r
  BY <1>1 DEF Ranks
<1>4. \A t, u \in S \ L : <<t, u>> \in r => <<u, t>> \notin r
  BY <1>1 DEF Ranks
<1>5. \A t, u, v \in S \ L : <<t, u>> \in r /\ <<u, v>> \in r => <<t, v>> \in r
  BY <1>1 DEF Ranks
<1>. QED
  BY <1>2, <1>3, <1>4, <1>5 DEF Ranks, r

LEMMA SameStore ==
  ASSUME StoreTyped, UNCHANGED <<row, rel, index, hint, newer, old>>
  PROVE  StoreTyped'
BY DEF StoreTyped, TaskRows, Ranks

\* A step of c that leaves what k says, and what is owed to k.
LEMMA QuietSound ==
  ASSUME NEW c \in Slot, NEW s, NEW k, Sound(k), todo' = [todo EXCEPT ![c] = s],
         todo \in [Slot -> Seq(StepRec)],
         row'[k].val = row[k].val, row'[k] = Absent <=> row[k] = Absent,
         index'[k] = index[k], k \in Task => hint'[k] = hint[k],
         k \in cascaded /\ row[k] = Absent => k \in cascaded',
         \A x \in Owed(s, k) : x \in Owed(todo[c], k) \/ Fits(x, k),
         \A x \in Owed(todo[c], k) : x \in Owed(s, k)
  PROVE  Sound(k)'
<1>1. \A x : Fits(x, k)' = Fits(x, k)
  BY DEF Fits
<1>2. \A d \in Slot : /\ d # c => todo'[d] = todo[d]
                      /\ d = c => todo'[d] = s
  OBVIOUS
<1>3. \A d \in Slot : \A x \in Owed(todo'[d], k) : Fits(x, k)
  <2> TAKE d \in Slot
  <2>1. CASE d = c
    BY <1>2, <2>1 DEF Sound
  <2>2. CASE d # c
    BY <1>2, <2>2 DEF Sound
  <2>. QED
    BY <2>1, <2>2
<1>4. \A d \in Slot : \A x \in Owed(todo[d], k) : x \in Owed(todo'[d], k)
  <2> TAKE d \in Slot
  <2>1. CASE d = c
    BY <1>2, <2>1
  <2>2. CASE d # c
    BY <1>2, <2>2
  <2>. QED
    BY <2>1, <2>2
<1>5. \/ index'[k] = row'[k].val \/ (k \in cascaded' /\ row'[k] = Absent)
      \/ \E d \in Slot : \E x \in Owed(todo'[d], k) : x.do \in {"index", "drop"}
  BY <1>4 DEF Sound
<1>6. ASSUME k \in Task
      PROVE  \/ hint'[k] = IF row'[k] = Absent THEN None ELSE row'[k].val.text
             \/ \E d \in Slot : \E x \in Owed(todo'[d], k) : x.do \in {"hint", "drop hint"}
  BY <1>4, <1>6 DEF Sound
<1>. QED
  BY <1>1, <1>3, <1>5, <1>6 DEF Sound

LEMMA QuietTail ==
  ASSUME IInv, NEW c \in Slot, todo[c] # <<>>, todo' = [todo EXCEPT ![c] = Tail(todo[c])],
         Now(c).do \notin Projects \cup {"put", "forget"},
         UNCHANGED <<index, hint, torn, cascaded>>,
         \A k \in Key : row'[k].val = row[k].val /\ (row'[k] = Absent <=> row[k] = Absent)
  PROVE  InStep'
<1>1. todo \in [Slot -> Seq(StepRec)] /\ InStep
  BY DEF IInv, TypePart
<1>2. PICK s \in Seq(StepRec) : s = todo[c] /\ s # <<>> /\ Now(c) = s[1]
  <2>1. todo[c] \in Seq(StepRec) /\ Head(todo[c]) = todo[c][1]
    BY <1>1
  <2>. QED
    BY <2>1 DEF Now
<1>3. \A k : Owed(todo[c], k) = Owed(Tail(todo[c]), k)
  BY <1>2, OwedTail
<1>4. ASSUME NEW k \in Key \ torn PROVE Sound(k)'
  BY <1>1, <1>3, <1>4, QuietSound DEF InStep
<1>. QED
  BY <1>4 DEF InStep

\* A step that leaves the rest of its script.
LEMMA GoTurn ==
  ASSUME IInv, NEW c \in Slot, todo[c] # <<>>, NEW K \in SUBSET Key, Go(c, K), Watched(K),
         \A d \in Slot \ {c} : seen'[d] = seen[d]
  PROVE  /\ Turn(c, Tail(todo[c]), K) /\ todo'[c] = Tail(todo[c])
         /\ todo' = [todo EXCEPT ![c] = Tail(todo[c])]
         /\ todo'[c] # <<>> => touched'[c] = touched[c]
<1>1. PICK s \in Seq(StepRec) : s = todo[c] /\ s # <<>>
  BY DEF IInv, TypePart
<1>2. PICK t \in Seq(StepRec) : t = Tail(s)
  BY <1>1, Tails
<1>3. Writing(s) \/ Forgetting(s) \/ Reading(s)
  BY <1>1 DEF IInv, Scripts
<1>4. Writing(t) \/ Forgetting(t) \/ Reading(t)
  BY <1>1, <1>2, <1>3, WritingTail, ForgettingTail, ReadingTail
<1>5. Turn(c, t, K)
  BY <1>1, <1>2, <1>4 DEF Turn, Go
<1>6. todo'[c] = t /\ todo' = [todo EXCEPT ![c] = t] /\ (t # <<>> => touched'[c] = touched[c])
  BY <1>5, Turned
<1>. QED
  BY <1>1, <1>2, <1>5, <1>6

LEMMA TailAnswers ==
  ASSUME IInv, NEW c \in Slot, todo[c] # <<>>, seen[c] # Nothing, Now(c).do # "answer"
  PROVE  \E i \in DOMAIN Tail(todo[c]) : Tail(todo[c])[i].do = "answer"
<1>1. PICK s \in Seq(StepRec) : s = todo[c] /\ s # <<>>
  BY DEF IInv, TypePart
<1>2. PICK i \in DOMAIN s : s[i].do = "answer"
  BY <1>1 DEF IInv, Sessions
<1>3. i # 1
  BY <1>1, <1>2 DEF Now
<1>4. i - 1 \in DOMAIN Tail(s) /\ Tail(s)[i - 1] = s[(i - 1) + 1] /\ (i - 1) + 1 = i
  BY <1>1, <1>2, <1>3, Tails
<1>. QED
  BY <1>1, <1>2, <1>4

\* What a call does first is known from its script.
LEMMA NowTyped ==
  ASSUME IInv, NEW c \in Slot, todo[c] # <<>>
  PROVE  /\ todo[c] \in Seq(StepRec) /\ Now(c) = todo[c][1] /\ Now(c) \in StepRec /\ Typed(Now(c))
         /\ Writing(todo[c]) => Now(c).do \in Writes
         /\ Reading(todo[c]) => Now(c).do \in Reads
         /\ Forgetting(todo[c]) => Now(c).do \in {"forget", "drop", "drop hint"}
         /\ Writing(todo[c]) \/ Reading(todo[c]) \/ Forgetting(todo[c])
<1>1. todo[c] \in Seq(StepRec) /\ (Writing(todo[c]) \/ Reading(todo[c]) \/ Forgetting(todo[c]))
  BY DEF IInv, TypePart, Scripts
<1>2. 1 \in DOMAIN todo[c] /\ Now(c) = todo[c][1] /\ Now(c) \in StepRec
  BY <1>1 DEF Now
<1>. QED
  BY <1>1, <1>2 DEF Writing, Reading, ReadSteps, Forgetting

-----------------------------------------------------------------------------
(* Steps that go on with the rest of the script.                           *)

LEMMA RestRecalls ==
  ASSUME IInv, NEW c \in Slot, todo[c] # <<>>, todo'[c] = Tail(todo[c]),
         todo'[c] # <<>> => touched'[c] = touched[c],
         seen'[c] = seen[c], Now(c).do \notin Lists \cup {"query"},
         Reading(todo[c]) => Now(c).do = "retain" \/ (UNCHANGED <<row, index, newer>>)
  PROVE  RecallsBy(c)'
<1>1. PICK s \in Seq(StepRec) : s = todo[c] /\ s # <<>>
  BY DEF IInv, TypePart
<1>2. PICK t \in Seq(StepRec) : t = Tail(s)
  BY <1>1, Tails
<1>3. CASE Reading(s)
  <2>1. RecallsIn(c, t)'
    BY <1>1, <1>2, <1>3, TailRecalls
  <2>. QED
    BY <1>1, <1>2, <2>1 DEF RecallsBy
<1>4. CASE Writing(s) \/ Forgetting(s)
  <2>1. Writing(t) \/ Forgetting(t)
    BY <1>1, <1>2, <1>4, WritingTail, ForgettingTail
  <2>. QED
    BY <1>1, <1>2, <2>1, UnaskedRecalls
<1>. QED
  BY <1>1, <1>3, <1>4 DEF IInv, Scripts

LEMMA GoKeeps ==
  ASSUME IInv, NEW c \in Slot, todo[c] # <<>>, NEW K \in SUBSET Key, Go(c, K), Watched(K),
         \A d \in Slot \ {c} : seen'[d] = seen[d],
         up' = up, StoreTyped', SeenTyped', InStep',
         \A e \in Entity : IsLive(e) => IsLive(e)',
         Now(c).do = "put" => row'[Now(c).key].state = "live",
         RecallsBy(c)',
         seen'[c] # Nothing => \E i \in DOMAIN Tail(todo[c]) : Tail(todo[c])[i].do = "answer"
  PROVE  IInv'
<1>1. /\ Turn(c, Tail(todo[c]), K) /\ todo'[c] = Tail(todo[c])
      /\ todo'[c] # <<>> => touched'[c] = touched[c]
  BY GoTurn
<1>2. HeldBy(c)'
  BY <1>1, TailHeld
<1>3. GroundedBy(c)'
  BY <1>1, TailGrounded
<1>. QED
  BY <1>1, <1>2, <1>3, TurnKeeps

\* A step that changes no row and nothing that recall goes by.
LEMMA PlainGoKeeps ==
  ASSUME IInv, NEW c \in Slot, todo[c] # <<>>, NEW K \in SUBSET Key, Go(c, K), Watched(K),
         UNCHANGED <<row, newer, seen, up>>, Reading(todo[c]) => index' = index,
         Now(c).do \notin {"put", "answer", "query"} \cup Lists,
         StoreTyped', InStep'
  PROVE  IInv'
<1>0. \A d \in Slot \ {c} : seen'[d] = seen[d]
  OBVIOUS
<1>1. /\ todo'[c] = Tail(todo[c])
      /\ todo'[c] # <<>> => touched'[c] = touched[c]
  BY <1>0, GoTurn
<1>2. RecallsBy(c)'
  BY <1>1, RestRecalls
<1>3. SeenTyped'
  BY Types DEF IInv, SeenTyped
<1>4. seen'[c] # Nothing => \E i \in DOMAIN Tail(todo[c]) : Tail(todo[c])[i].do = "answer"
  BY TailAnswers
<1>5. \A e \in Entity : IsLive(e) => IsLive(e)'
  BY DEF IsLive
<1>. QED
  BY <1>0, <1>2, <1>3, <1>4, <1>5, GoKeeps

LEMMA NothingWatched ==
  ASSUME UNCHANGED <<row, index, newer>>
  PROVE  {} \in SUBSET Key /\ Watched({})
BY DEF Watched

LEMMA PutRelationKeeps ==
  ASSUME IInv, NEW c \in Slot, PutRelation(c)
  PROVE  IInv'
<1>1. /\ todo[c] # <<>> /\ Now(c).do = "relate" /\ Go(c, {})
      /\ UNCHANGED <<row, index, hint, newer, old, seen, up>> /\ UNCHANGED <<torn, cascaded>>
  BY DEF PutRelation, Doing, past
<1>2. Watched({}) /\ {} \in SUBSET Key
  BY <1>1, NothingWatched
<1>3. StoreTyped'
  <2>1. StoreTyped
    BY Types DEF IInv
  <2>2. rel'.live \cap rel'.archived = {}
    BY <2>1 DEF StoreTyped, PutRelation
  <2>. QED
    BY <1>1, <2>1, <2>2 DEF StoreTyped, TaskRows, Ranks
<1>4. InStep'
  <2>1. todo' = [todo EXCEPT ![c] = Tail(todo[c])]
    BY <1>1 DEF Go, Advance
  <2>. QED
    BY <1>1, <2>1, QuietTail DEF Projects
<1>. QED
  BY <1>1, <1>2, <1>3, <1>4, PlainGoKeeps DEF Lists

LEMMA PassOverKeeps ==
  ASSUME IInv, NEW c \in Slot, PassOver(c)
  PROVE  IInv'
<1>1. /\ todo[c] # <<>> /\ Now(c).do \in {"log", "titles"} /\ Go(c, {})
      /\ UNCHANGED <<row, rel, index, hint, newer, old, seen, up>> /\ UNCHANGED <<torn, cascaded>>
  BY DEF PassOver, Doing, store, past
<1>2. Watched({}) /\ {} \in SUBSET Key
  BY <1>1, NothingWatched
<1>3. StoreTyped'
  BY <1>1, Types, SameStore DEF IInv
<1>4. InStep'
  <2>1. todo' = [todo EXCEPT ![c] = Tail(todo[c])]
    BY <1>1 DEF Go, Advance
  <2>. QED
    BY <1>1, <2>1, QuietTail DEF Projects
<1>. QED
  BY <1>1, <1>2, <1>3, <1>4, PlainGoKeeps DEF Lists

\* apply_retention
LEMMA ApplyRetentionKeeps ==
  ASSUME IInv, NEW c \in Slot, ApplyRetention(c)
  PROVE  IInv'
<1> DEFINE expired == {t \in old : IsLive(t) /\ row[t].val.low
                                     /\ row[t].val.status \in {"done", "cancelled"}}
<1>1. /\ todo[c] # <<>> /\ Now(c).do = "retain" /\ Go(c, expired)
      /\ row' = [k \in Key |-> IF k \in expired THEN [row[k] EXCEPT !.state = "archived"]
                               ELSE row[k]]
      /\ newer' = Bump(expired) /\ old' = old \ expired
      /\ UNCHANGED <<rel, index, hint, seen, up>> /\ UNCHANGED <<torn, cascaded>>
  BY DEF ApplyRetention, Doing, past
<1>2. StoreTyped
  BY Types DEF IInv
<1>3. expired \subseteq TaskRows /\ expired \subseteq Task /\ \A t \in expired : IsLive(t)
  BY <1>2 DEF StoreTyped, TaskRows
<1> HIDE DEF expired
<1>4. /\ \A k \in Key \ expired : row'[k] = row[k]
      /\ \A k \in expired : /\ row[k].state = "live" /\ row'[k].state = "archived"
                             /\ row'[k].val = row[k].val
                             /\ row'[k] \in [state : {"absent", "live", "archived"}, val : Val]
  BY <1>1, <1>2, <1>3 DEF StoreTyped, IsLive, Key
<1>5. \A k \in Key : row'[k].val = row[k].val /\ (row'[k] = Absent <=> row[k] = Absent)
  BY <1>4 DEF Absent
<1>6. TaskRows' = TaskRows
  BY <1>5 DEF TaskRows, Key
<1>7. Ranks(newer, TaskRows)'
  <2>1. Ranks(newer, TaskRows)
    BY <1>2 DEF StoreTyped
  <2>2. newer' = {p \in newer : p[2] \in expired => p[1] \in expired}
                   \cup (expired \X (TaskRows \ expired))
    BY <1>1, <1>3 DEF Bump
  <2>3. TaskRows \cup expired = TaskRows
    BY <1>3
  <2>4. Ranks({p \in newer : p[2] \in expired => p[1] \in expired}
                \cup (expired \X (TaskRows \ expired)), TaskRows \cup expired)
    BY <1>3, <2>1, BumpRanks
  <2>. QED
    BY <1>6, <2>2, <2>3, <2>4 DEF Ranks
<1>8. StoreTyped'
  <2>1. ASSUME NEW k \in Key
        PROVE  \/ row'[k] = Absent
               \/ row'[k].state \in {"live", "archived"} /\ row'[k].val \in ValOf(k)
    <3>1. CASE k \in expired
      BY <1>2, <1>4, <3>1 DEF StoreTyped, Absent
    <3>2. CASE k \notin expired
      BY <1>2, <1>4, <3>2 DEF StoreTyped
    <3>. QED
      BY <3>1, <3>2
  <2>2. row' \in [Key -> [state : {"absent", "live", "archived"}, val : Val]]
    <3>1. \A k \in Key : row'[k] \in [state : {"absent", "live", "archived"}, val : Val]
      BY <1>2, <1>4 DEF StoreTyped
    <3>. QED
      BY <1>1, <3>1
  <2>3. old' \subseteq TaskRows'
    BY <1>1, <1>2, <1>6 DEF StoreTyped
  <2>. QED
    BY <1>1, <1>2, <1>7, <2>1, <2>2, <2>3 DEF StoreTyped
<1>9. Watched(expired) /\ expired \in SUBSET Key
  <2>1. expired \cap Task = {} => newer' = newer
    <3>1. SUFFICES ASSUME expired = {} PROVE newer' = newer
      BY <1>3
    <3>. QED
      BY <1>1, <3>1 DEF Bump
  <2>. QED
    BY <1>1, <1>3, <1>4, <2>1 DEF Watched, Key
<1>10. InStep'
  <2>1. todo' = [todo EXCEPT ![c] = Tail(todo[c])]
    BY <1>1 DEF Go, Advance
  <2>. QED
    BY <1>1, <1>5, <2>1, QuietTail DEF Projects
<1>11. \A d \in Slot \ {c} : seen'[d] = seen[d]
  BY <1>1
<1>12. RecallsBy(c)'
  <2>1. /\ todo'[c] = Tail(todo[c])
        /\ todo'[c] # <<>> => touched'[c] = touched[c]
    BY <1>1, <1>9, <1>11, GoTurn
  <2>. QED
    BY <1>1, <2>1, RestRecalls DEF Lists
<1>13. seen'[c] # Nothing => \E i \in DOMAIN Tail(todo[c]) : Tail(todo[c])[i].do = "answer"
  BY <1>1, TailAnswers
<1>14. \A e \in Entity : IsLive(e) => IsLive(e)'
  BY <1>3, <1>4, BrainAssumption DEF IsLive, Key
<1>15. SeenTyped'
  BY <1>1, Types DEF IInv, SeenTyped
<1>. QED
  BY <1>1, <1>8, <1>9, <1>10, <1>11, <1>12, <1>13, <1>14, <1>15, GoKeeps

-----------------------------------------------------------------------------
(* Steps that write a projection.                                          *)

\* The call pays what it owed k: the projection it writes agrees with the row.
LEMMA PaidSound ==
  ASSUME NEW c \in Slot, NEW k, Sound(k), todo \in [Slot -> Seq(StepRec)], todo[c] # <<>>,
         Now(c).do \in Projects, Now(c).key = k, todo' = [todo EXCEPT ![c] = Tail(todo[c])],
         row' = row,
         Now(c).do \in {"index", "drop"} => index'[k] = row[k].val /\ hint' = hint,
         Now(c).do \notin {"index", "drop"} =>
           /\ index' = index /\ cascaded' = cascaded
           /\ k \in Task => hint'[k] = IF row[k] = Absent THEN None ELSE row[k].val.text
  PROVE  Sound(k)'
<1>1. PICK s \in Seq(StepRec) : s = todo[c] /\ s # <<>> /\ Now(c) = s[1]
  <2>1. todo[c] \in Seq(StepRec) /\ Head(todo[c]) = todo[c][1]
    OBVIOUS
  <2>. QED
    BY <2>1 DEF Now
<1>2. PICK t : t = Tail(s) /\ todo' = [todo EXCEPT ![c] = t]
  BY <1>1
<1>3. Owed(s, k) = {s[1]} \cup Owed(t, k)
  <2>1. s[1].do \in Projects /\ s[1].key = k /\ ~(s[1].do \in {"put", "forget"} /\ s[1].key = k)
    BY <1>1 DEF Projects
  <2>. QED
    BY <1>2, <2>1, <1>1, OwedTail
<1>4. \A d \in Slot : /\ d # c => todo'[d] = todo[d]
                      /\ d = c => todo'[d] = t /\ todo[d] = s
  BY <1>1, <1>2
<1>5. \A x : Fits(x, k)' = Fits(x, k)
  BY DEF Fits
<1>6. \A d \in Slot : \A x \in Owed(todo'[d], k) : Fits(x, k)
  <2> TAKE d \in Slot
  <2>1. CASE d = c
    BY <1>3, <1>4, <2>1 DEF Sound
  <2>2. CASE d # c
    BY <1>4, <2>2 DEF Sound
  <2>. QED
    BY <2>1, <2>2
<1>7. \A d \in Slot : \A x \in Owed(todo[d], k) : x = Now(c) \/ x \in Owed(todo'[d], k)
  <2> TAKE d \in Slot
  <2>1. CASE d = c
    BY <1>1, <1>3, <1>4, <2>1
  <2>2. CASE d # c
    BY <1>4, <2>2
  <2>. QED
    BY <2>1, <2>2
<1>8. \/ index'[k] = row'[k].val \/ (k \in cascaded' /\ row'[k] = Absent)
      \/ \E d \in Slot : \E x \in Owed(todo'[d], k) : x.do \in {"index", "drop"}
  <2>1. CASE Now(c).do \in {"index", "drop"}
    BY <2>1
  <2>2. CASE Now(c).do \notin {"index", "drop"}
    <3>1. index' = index /\ cascaded' = cascaded
      BY <2>2
    <3>2. \A d \in Slot : \A x \in Owed(todo[d], k) :
            x.do \in {"index", "drop"} => x \in Owed(todo'[d], k)
      BY <1>7, <2>2
    <3>. QED
      BY <3>1, <3>2 DEF Sound
  <2>. QED
    BY <2>1, <2>2
<1>9. ASSUME k \in Task
      PROVE  \/ hint'[k] = IF row'[k] = Absent THEN None ELSE row'[k].val.text
             \/ \E d \in Slot : \E x \in Owed(todo'[d], k) : x.do \in {"hint", "drop hint"}
  <2>1. CASE Now(c).do \in {"index", "drop"}
    <3>1. \A d \in Slot : \A x \in Owed(todo[d], k) :
            x.do \in {"hint", "drop hint"} => x \in Owed(todo'[d], k)
      BY <1>7, <2>1
    <3>. QED
      BY <1>9, <2>1, <3>1 DEF Sound
  <2>2. CASE Now(c).do \notin {"index", "drop"}
    BY <1>9, <2>2
  <2>. QED
    BY <2>1, <2>2
<1>. QED
  BY <1>5, <1>6, <1>8, <1>9 DEF Sound

\* ... and what is owed to the others stays.
LEMMA PaidInStep ==
  ASSUME IInv, NEW c \in Slot, todo[c] # <<>>, Now(c).do \in Projects, NEW n, Now(c).key = n,
         todo' = [todo EXCEPT ![c] = Tail(todo[c])], row' = row, torn \subseteq torn',
         \A k \in Key \ {n} : index'[k] = index[k] /\ (k \in cascaded => k \in cascaded'),
         \A k \in Task \ {n} : hint'[k] = hint[k],
         n \in Key \ torn' => Sound(n)'
  PROVE  InStep'
<1>1. todo \in [Slot -> Seq(StepRec)] /\ InStep
  BY DEF IInv, TypePart
<1>2. PICK s \in Seq(StepRec) : s = todo[c] /\ s # <<>> /\ Now(c) = s[1]
  <2>1. todo[c] \in Seq(StepRec) /\ Head(todo[c]) = todo[c][1]
    BY <1>1
  <2>. QED
    BY <2>1 DEF Now
<1>3. ASSUME NEW k \in Key \ torn', k # n
      PROVE  Sound(k)'
  <2>1. Owed(todo[c], k) = Owed(Tail(todo[c]), k)
    BY <1>2, <1>3, OwedTail
  <2>2. Sound(k) /\ index'[k] = index[k] /\ (k \in cascaded => k \in cascaded')
        /\ (k \in Task => hint'[k] = hint[k])
    BY <1>1, <1>3 DEF InStep
  <2>. QED
    BY <1>1, <2>1, <2>2, QuietSound
<1>4. ASSUME NEW k \in Key \ torn' PROVE Sound(k)'
  <2>1. CASE k = n
    BY <2>1
  <2>2. CASE k # n
    BY <1>3, <2>2
  <2>. QED
    BY <2>1, <2>2
<1>. QED
  BY <1>4 DEF InStep

\* What fits is owed by the call that is about to write it.
LEMMA NowFits ==
  ASSUME IInv, NEW c \in Slot, todo[c] # <<>>, Now(c).do \in Projects,
         Now(c).key \in Key \ torn
  PROVE  Sound(Now(c).key) /\ Fits(Now(c), Now(c).key)
<1>1. PICK s \in Seq(StepRec) : s = todo[c] /\ s # <<>> /\ Now(c) = s[1]
  <2>1. todo[c] \in Seq(StepRec) /\ Head(todo[c]) = todo[c][1]
    BY DEF IInv, TypePart
  <2>. QED
    BY <2>1 DEF Now
<1> DEFINE k == s[1].key
<1>2. Owed(s, k) = {s[1]} \cup Owed(Tail(s), k)
  <2>1. s[1].do \in Projects /\ ~(s[1].do \in {"put", "forget"} /\ s[1].key = k)
    BY <1>1 DEF Projects
  <2>. QED
    BY <2>1, <1>1, OwedTail
<1>3. Sound(k)
  BY <1>1 DEF IInv, InStep
<1>. QED
  BY <1>1, <1>2, <1>3 DEF Sound

LEMMA PutIndexKeeps ==
  ASSUME IInv, NEW c \in Slot, PutIndex(c)
  PROVE  IInv'
<1>0. PICK k, v : k = Now(c).key /\ v = Now(c).val
  OBVIOUS
<1>1. /\ todo[c] # <<>> /\ Now(c).do = "index" /\ Go(c, {k})
      /\ index' = [index EXCEPT ![k] = v]
      /\ UNCHANGED <<row, rel, hint, newer, old, seen, up>> /\ UNCHANGED <<torn, cascaded>>
  BY <1>0 DEF PutIndex, Doing, past
<1>2. k \in Key /\ v \in ValOf(k) /\ ~Reading(todo[c])
  BY <1>0, <1>1, NowTyped DEF Typed, Reads
<1>3. StoreTyped
  BY Types DEF IInv
<1>4. todo' = [todo EXCEPT ![c] = Tail(todo[c])]
  BY <1>1 DEF Go, Advance
<1>5. /\ index' \in [Key -> Val \cup {Foreign}] /\ index'[k] = v
      /\ \A j \in Key \ {k} : index'[j] = index[j]
  <2>1. v \in Val
    BY <1>2 DEF ValOf, Val
  <2>. QED
    BY <1>1, <1>2, <1>3, <2>1 DEF StoreTyped
<1>6. StoreTyped'
  <2>1. \A j \in Key : index'[j] \in {None, Foreign} \/ index'[j] \in ValOf(j)
    BY <1>2, <1>3, <1>5 DEF StoreTyped
  <2>. QED
    BY <1>1, <1>3, <1>5, <2>1 DEF StoreTyped, TaskRows, Ranks
<1>7. Watched({k}) /\ {k} \in SUBSET Key
  BY <1>1, <1>2, <1>5 DEF Watched
<1>8. ASSUME k \in Key \ torn' PROVE Sound(k)'
  <2>1. Sound(k) /\ Fits(Now(c), k)
    BY <1>0, <1>1, <1>8, NowFits DEF Projects
  <2>2. index'[k] = row[k].val
    BY <1>0, <1>1, <1>5, <2>1 DEF Fits
  <2>3. todo \in [Slot -> Seq(StepRec)] /\ Now(c).key = k /\ Now(c).do \in Projects
    BY <1>0, <1>1 DEF IInv, TypePart, Projects
  <2>. QED
    BY <1>1, <1>4, <2>1, <2>2, <2>3, PaidSound
<1>9. InStep'
  <2>1. Now(c).key = k /\ Now(c).do \in Projects
    BY <1>0, <1>1 DEF Projects
  <2>. QED
    BY <1>1, <1>4, <1>5, <1>8, <2>1, PaidInStep
<1>. QED
  BY <1>1, <1>2, <1>6, <1>7, <1>9, PlainGoKeeps DEF Lists

LEMMA DropIndexKeeps ==
  ASSUME IInv, NEW c \in Slot, DropIndex(c)
  PROVE  IInv'
<1>0. PICK k : k = Now(c).key
  OBVIOUS
<1>1. /\ todo[c] # <<>> /\ Now(c).do = "drop" /\ Go(c, {k})
      /\ index' = [index EXCEPT ![k] = None] /\ cascaded' = cascaded \ {k}
      /\ UNCHANGED <<row, rel, hint, newer, old, seen, up, torn>>
  BY <1>0 DEF DropIndex, Doing
<1>2. k \in Key /\ ~Reading(todo[c])
  BY <1>0, <1>1, NowTyped DEF Typed, Reads
<1>3. StoreTyped
  BY Types DEF IInv
<1>4. todo' = [todo EXCEPT ![c] = Tail(todo[c])]
  BY <1>1 DEF Go, Advance
<1>5. /\ index' \in [Key -> Val \cup {Foreign}] /\ index'[k] = None
      /\ \A j \in Key \ {k} : index'[j] = index[j]
  BY <1>1, <1>2, <1>3, NoneTypes DEF StoreTyped
<1>6. StoreTyped'
  <2>1. \A j \in Key : index'[j] \in {None, Foreign} \/ index'[j] \in ValOf(j)
    BY <1>2, <1>3, <1>5 DEF StoreTyped
  <2>. QED
    BY <1>1, <1>3, <1>5, <2>1 DEF StoreTyped, TaskRows, Ranks
<1>7. Watched({k}) /\ {k} \in SUBSET Key
  BY <1>1, <1>2, <1>5 DEF Watched
<1>8. ASSUME k \in Key \ torn' PROVE Sound(k)'
  <2>1. Sound(k) /\ Fits(Now(c), k)
    BY <1>0, <1>1, <1>8, NowFits DEF Projects
  <2>2. index'[k] = row[k].val
    BY <1>1, <1>5, <2>1 DEF Fits, Absent
  <2>3. todo \in [Slot -> Seq(StepRec)] /\ Now(c).key = k /\ Now(c).do \in Projects
    BY <1>0, <1>1 DEF IInv, TypePart, Projects
  <2>. QED
    BY <1>1, <1>4, <2>1, <2>2, <2>3, PaidSound
<1>9. InStep'
  <2>1. Now(c).key = k /\ Now(c).do \in Projects
    BY <1>0, <1>1 DEF Projects
  <2>2. \A j \in Key \ {k} : j \in cascaded => j \in cascaded'
    BY <1>1
  <2>. QED
    BY <1>1, <1>4, <1>5, <1>8, <2>1, <2>2, PaidInStep
<1>. QED
  BY <1>1, <1>2, <1>6, <1>7, <1>9, PlainGoKeeps DEF Lists

\* A suggestion that is written agrees with the row, and so does one that is dropped.
LEMMA HintWritten ==
  ASSUME IInv, NEW c \in Slot, todo[c] # <<>>, NEW h \in Text \cup {None},
         Now(c).do \in {"hint", "offer", "drop hint"}, Go(c, {}),
         hint' = [hint EXCEPT ![Now(c).key] = h],
         Now(c).do = "drop hint" => h = None, Now(c).do # "drop hint" => h = Now(c).val,
         UNCHANGED <<row, rel, index, newer, old, seen, up>>, UNCHANGED <<torn, cascaded>>
  PROVE  IInv'
<1>0. PICK k : k = Now(c).key
  OBVIOUS
<1>2. k \in Task /\ k \in Key
  BY <1>0, NowTyped DEF Typed, Key
<1>3. StoreTyped
  BY Types DEF IInv
<1>4. todo' = [todo EXCEPT ![c] = Tail(todo[c])]
  BY DEF Go, Advance
<1>1. Now(c).do \in Projects /\ Now(c).do \notin {"index", "drop"}
  BY DEF Projects
<1>5. hint' \in [Task -> Text \cup {None, Foreign}] /\ hint'[k] = h /\ \A t \in Task \ {k} : hint'[t] = hint[t]
  BY <1>0, <1>2, <1>3 DEF StoreTyped
<1>6. StoreTyped'
  BY <1>3, <1>5 DEF StoreTyped, TaskRows, Ranks
<1>7. Watched({}) /\ {} \in SUBSET Key
  BY NothingWatched
<1>8. ASSUME k \in Key \ torn' PROVE Sound(k)'
  <2>1. Sound(k) /\ Fits(Now(c), k)
    BY <1>0, <1>1, <1>8, NowFits
  <2>2. hint'[k] = IF row[k] = Absent THEN None ELSE row[k].val.text
    BY <1>0, <1>1, <1>5, <2>1 DEF Fits
  <2>3. todo \in [Slot -> Seq(StepRec)] /\ Now(c).key = k
    BY <1>0 DEF IInv, TypePart
  <2>. QED
    BY <1>1, <1>4, <2>1, <2>2, <2>3, PaidSound
<1>9. InStep'
  BY <1>0, <1>1, <1>4, <1>5, <1>8, PaidInStep
<1>. QED
  BY <1>6, <1>7, <1>9, PlainGoKeeps DEF Lists

LEMMA PutHintKeeps ==
  ASSUME IInv, NEW c \in Slot, PutHint(c)
  PROVE  IInv'
<1>1. /\ todo[c] # <<>> /\ Now(c).do \in {"hint", "offer"} /\ Go(c, {})
      /\ hint' = [hint EXCEPT ![Now(c).key] = Now(c).val]
      /\ UNCHANGED <<row, rel, index, newer, old, seen, up>> /\ UNCHANGED <<torn, cascaded>>
  BY DEF PutHint, Doing, past
<1>2. Now(c).val \in Text \cup {None}
  BY <1>1, NowTyped DEF Typed
<1>. QED
  BY <1>1, <1>2, HintWritten

LEMMA DropHintKeeps ==
  ASSUME IInv, NEW c \in Slot, DropHint(c)
  PROVE  IInv'
<1>1. /\ todo[c] # <<>> /\ Now(c).do = "drop hint" /\ Go(c, {})
      /\ hint' = [hint EXCEPT ![Now(c).key] = None]
      /\ UNCHANGED <<row, rel, index, newer, old, seen, up>> /\ UNCHANGED <<torn, cascaded>>
  BY DEF DropHint, Doing, past
<1>. QED
  BY <1>1, HintWritten

-----------------------------------------------------------------------------
(* Steps of a recall.                                                      *)

\* A step that changes only what its own call has seen.
LEMMA SeeingKeeps ==
  ASSUME IInv, NEW c \in Slot, todo[c] # <<>>, Reading(todo[c]),
         Now(c).do \in Lists \cup {"query", "answer"}, Go(c, {}),
         UNCHANGED <<row, rel, index, hint, newer, old, up>>, UNCHANGED <<torn, cascaded>>,
         NEW l, NEW f, NEW n, NEW t, NEW h, NEW x,
         seen' = [seen EXCEPT ![c] = [listed |-> l, fits |-> f, links |-> n, ties |-> t,
                                      hits |-> h, cut |-> x]],
         Now(c).do = "answer" => seen'[c] = Nothing, RecallsBy(c)'
  PROVE  IInv'
<1>1. StoreTyped' /\ Watched({}) /\ {} \in SUBSET Key
  BY Types, SameStore, NothingWatched DEF IInv
<1>2. SeenTyped /\ SeenTyped'
  <2>1. SeenTyped
    BY Types DEF IInv
  <2>. QED
    BY <2>1 DEF SeenTyped
<1>3. \A d \in Slot \ {c} : seen'[d] = seen[d]
  BY <1>2 DEF SeenTyped
<1>4. InStep'
  <2>1. todo' = [todo EXCEPT ![c] = Tail(todo[c])]
    BY DEF Go, Advance
  <2>. QED
    BY <2>1, QuietTail DEF Projects, Lists
<1>5. seen'[c] # Nothing => \E i \in DOMAIN Tail(todo[c]) : Tail(todo[c])[i].do = "answer"
  <2>1. PICK s \in Seq(StepRec) : s = todo[c] /\ s # <<>> /\ Now(c) = s[1]
    BY NowTyped
  <2>2. SUFFICES ASSUME s[1].do \in Lists \cup {"query"}
                 PROVE  \E i \in DOMAIN Tail(s) : Tail(s)[i].do = "answer"
    BY <2>1
  <2>3. PICK j \in DOMAIN s : j > 1 /\ s[j].do = "answer"
    BY <2>1, <2>2 DEF Reading, EndsAnswered
  <2>4. j - 1 \in DOMAIN Tail(s) /\ (j - 1) + 1 = j /\ Tail(s)[j - 1] = s[(j - 1) + 1]
    BY <2>1, <2>3, Tails
  <2>. QED
    BY <2>3, <2>4
<1>6. \A e \in Entity : IsLive(e) => IsLive(e)'
  BY DEF IsLive
<1>. QED
  BY <1>1, <1>2, <1>3, <1>4, <1>5, <1>6, GoKeeps DEF Lists

\* What is still to be listed and queried after the first step.
LEMMA PendingTail ==
  ASSUME NEW s \in Seq(StepRec), s # <<>>, Reading(s), NEW i \in DOMAIN Tail(s), NEW n
  PROVE  /\ i + 1 \in DOMAIN s /\ Tail(s)[i] = s[i + 1] /\ Tail(s) # <<>>
         /\ ~(s[1].do \in Lists /\ s[1].how = n) =>
              (Pending(s, Lists, n) <=> Pending(Tail(s), Lists, n))
         /\ s[1].do \in Lists /\ s[1].how = n => Pending(s, Lists, n) /\ ~Pending(Tail(s), Lists, n)
         /\ ~(s[1].do = "query" /\ s[1].how = n) =>
              (Pending(s, {"query"}, n) <=> Pending(Tail(s), {"query"}, n))
         /\ s[1].do = "query" /\ s[1].how = n =>
              Pending(s, {"query"}, n) /\ ~Pending(Tail(s), {"query"}, n)
<1>1. PICK t \in Seq(StepRec) : t = Tail(s)
  BY Tails
<1>2. /\ 1 \in DOMAIN s /\ DOMAIN s = 1..Len(s) /\ DOMAIN t = 1..(Len(s) - 1) /\ Len(s) \in Nat
      /\ \A j \in DOMAIN t : j + 1 \in DOMAIN s /\ t[j] = s[j + 1] /\ j + 1 # 1
      /\ \A j \in DOMAIN s \ {1} : j - 1 \in DOMAIN t /\ t[j - 1] = s[j]
  BY <1>1, Tails
<1>3. \A do : Pending(s, do, n) <=> (s[1].do \in do /\ s[1].how = n) \/ Pending(t, do, n)
  <2> TAKE do
  <2>1. Pending(t, do, n) => Pending(s, do, n)
    BY <1>2 DEF Pending
  <2>2. s[1].do \in do /\ s[1].how = n => Pending(s, do, n)
    BY <1>2 DEF Pending
  <2>3. ASSUME NEW j \in DOMAIN s, s[j].do \in do, s[j].how = n
        PROVE  (s[1].do \in do /\ s[1].how = n) \/ Pending(t, do, n)
    <3>1. CASE j = 1
      BY <2>3, <3>1
    <3>2. CASE j # 1
      <4>1. j - 1 \in DOMAIN t /\ t[j - 1] = s[j]
        BY <1>2, <3>2
      <4>. QED
        BY <2>3, <4>1 DEF Pending
    <3>. QED
      BY <3>1, <3>2
  <2>. QED
    BY <2>1, <2>2, <2>3 DEF Pending
<1>4. ASSUME s[1].do \in Lists, s[1].how = n PROVE ~Pending(t, Lists, n)
  <2>1. \A j \in DOMAIN s : Pair(s[1], s[j], 1, j)
    BY <1>2 DEF Reading
  <2>2. \A j \in DOMAIN s : s[j].do \in Lists /\ s[j].how = n => j = 1
    BY <1>4, <2>1 DEF Pair
  <2>. QED
    BY <1>2, <2>2 DEF Pending
<1>5. ASSUME s[1].do = "query", s[1].how = n PROVE ~Pending(t, {"query"}, n)
  <2>1. \A j \in DOMAIN s : Pair(s[1], s[j], 1, j)
    BY <1>2 DEF Reading
  <2>2. \A j \in DOMAIN s : s[j].do = "query" /\ s[j].how = n => j = 1
    BY <1>5, <2>1 DEF Pair
  <2>. QED
    BY <1>2, <2>2 DEF Pending
<1>6. i + 1 \in DOMAIN s /\ t[i] = s[i + 1] /\ t # <<>>
  BY <1>1, <1>2
<1>. QED
  BY <1>1, <1>3, <1>4, <1>5, <1>6

\* What a recall has found so far, in the terms of the rest of its script.
LEMMA RecallsNow ==
  ASSUME IInv, NEW c \in Slot, NEW s \in Seq(StepRec), s = todo[c], s # <<>>, Reading(s),
         NEW i \in DOMAIN Tail(s), Recalling(Tail(s)[i]), NEW k \in Key \ touched[c]
  PROVE  /\ k \in seen[c].listed => ~Pending(s, Lists, KindOf(k)) /\ Wanted(k, Tail(s)[i].how)
         /\ k \in seen[c].fits => k \in seen[c].listed
         /\ KindOf(k) \notin seen[c].cut /\ ~Pending(s, Lists, KindOf(k))
              /\ Wanted(k, Tail(s)[i].how)
              => k \in seen[c].listed /\ (ScopeOf(k) \in InScope => k \in seen[c].fits)
         /\ KindOf(k) \notin seen[c].cut /\ ~Pending(s, {"query"}, KindOf(k)) /\ index[k] # None
              => k \in seen[c].hits
<1>1. i + 1 \in DOMAIN s /\ Tail(s)[i] = s[i + 1]
  BY PendingTail
<1>2. RecallsIn(c, s)
  BY DEF IInv, Honest, RecallsBy
<1>. QED
  BY <1>1, <1>2 DEF RecallsIn

LEMMA KindOfIs ==
  ASSUME NEW k \in Key, NEW n
  PROVE  k \in OfKind(n) <=> KindOf(k) = n
BY BrainAssumption DEF OfKind, KindOf, Key

\* What a listing that has come about adds.
LEMMA ListedNow ==
  ASSUME IInv, NEW c \in Slot, NEW s \in Seq(StepRec), s = todo[c], s # <<>>, Reading(s),
         Now(c) = s[1], Now(c).do \in Lists, Go(c, {}), UNCHANGED <<row, index, newer>>,
         NEW rows, NEW cut,
         \A k \in Key :
           LET shown == \/ IsLive(k)
                        \/ Now(c).do = "list all" /\ k \notin Task /\ row[k].state = "archived" IN
           /\ k \in rows => KindOf(k) = Now(c).how /\ shown
           /\ KindOf(k) = Now(c).how /\ shown /\ KindOf(k) \notin cut => k \in rows,
         seen'[c].listed = seen[c].listed \cup rows, seen'[c].hits = seen[c].hits,
         seen'[c].fits = seen[c].fits \cup {k \in rows : ScopeOf(k) \in InScope},
         seen'[c].cut = cut, seen[c].cut \subseteq cut
  PROVE  RecallsBy(c)'
<1>1. PICK t \in Seq(StepRec) : t = Tail(s)
  BY Tails
<1>2. todo'[c] = t /\ (t # <<>> => touched'[c] = touched[c])
  BY <1>1 DEF Go, Advance, IInv, TypePart
<1>3. SUFFICES ASSUME NEW i \in DOMAIN t, Recalling(t[i]), NEW k \in Key \ touched'[c]
               PROVE  /\ k \in seen'[c].listed =>
                           ~Pending(t, Lists, KindOf(k)) /\ Wanted(k, t[i].how)'
                      /\ k \in seen'[c].fits => k \in seen'[c].listed
                      /\ KindOf(k) \notin seen'[c].cut /\ ~Pending(t, Lists, KindOf(k))
                           /\ Wanted(k, t[i].how)'
                           => /\ k \in seen'[c].listed
                              /\ ScopeOf(k)' \in InScope => k \in seen'[c].fits
                      /\ KindOf(k) \notin seen'[c].cut /\ ~Pending(t, {"query"}, KindOf(k))
                           /\ index'[k] # None => k \in seen'[c].hits
  <2>1. SUFFICES RecallsIn(c, t)'
    BY <1>2 DEF RecallsBy
  <2>. QED
    BY DEF RecallsIn, KindOf, Wanted, IsLive, Pending, ScopeOf
<1> DEFINE n == KindOf(k)
           how == t[i].how
<1>4. /\ i + 1 \in DOMAIN s /\ t[i] = s[i + 1] /\ t # <<>>
      /\ ~(s[1].do \in Lists /\ s[1].how = n) =>
            (Pending(s, Lists, n) <=> Pending(t, Lists, n))
      /\ s[1].do \in Lists /\ s[1].how = n => Pending(s, Lists, n) /\ ~Pending(t, Lists, n)
      /\ s[1].do # "query" => (Pending(s, {"query"}, n) <=> Pending(t, {"query"}, n))
  <2>1. PICK z : z = n
    OBVIOUS
  <2>2. /\ i + 1 \in DOMAIN s /\ t[i] = s[i + 1] /\ t # <<>>
        /\ ~(s[1].do \in Lists /\ s[1].how = z) => (Pending(s, Lists, z) <=> Pending(t, Lists, z))
        /\ s[1].do \in Lists /\ s[1].how = z => Pending(s, Lists, z) /\ ~Pending(t, Lists, z)
        /\ ~(s[1].do = "query" /\ s[1].how = z) =>
              (Pending(s, {"query"}, z) <=> Pending(t, {"query"}, z))
    <3>1. i \in DOMAIN Tail(s)
      BY <1>1, <1>3
    <3>2. /\ i + 1 \in DOMAIN s /\ Tail(s)[i] = s[i + 1] /\ Tail(s) # <<>>
          /\ ~(s[1].do \in Lists /\ s[1].how = z) =>
                (Pending(s, Lists, z) <=> Pending(Tail(s), Lists, z))
          /\ s[1].do \in Lists /\ s[1].how = z =>
                Pending(s, Lists, z) /\ ~Pending(Tail(s), Lists, z)
          /\ ~(s[1].do = "query" /\ s[1].how = z) =>
                (Pending(s, {"query"}, z) <=> Pending(Tail(s), {"query"}, z))
      BY <3>1, PendingTail
    <3>. QED
      BY <1>1, <3>2
  <2>. QED
    BY <2>1, <2>2
<1>5. touched'[c] = touched[c] /\ k \in Key \ touched[c]
  BY <1>2, <1>3, <1>4
<1>6. /\ k \in seen[c].listed => ~Pending(s, Lists, n) /\ Wanted(k, how)
      /\ k \in seen[c].fits => k \in seen[c].listed
      /\ n \notin seen[c].cut /\ ~Pending(s, Lists, n) /\ Wanted(k, how)
           => k \in seen[c].listed /\ (ScopeOf(k) \in InScope => k \in seen[c].fits)
      /\ n \notin seen[c].cut /\ ~Pending(s, {"query"}, n) /\ index[k] # None => k \in seen[c].hits
  BY <1>1, <1>3, <1>5, RecallsNow
<1>7. Wanted(k, how)' = Wanted(k, how) /\ ScopeOf(k)' = ScopeOf(k) /\ index'[k] = index[k]
  BY <1>5 DEF Wanted, IsLive, ScopeOf
<1>8. s[1].do # "query"
  BY DEF Lists
<1>9. n = Now(c).how /\ n # "task" => (s[1].do = "list all" <=> how = "all")
  <2>1. Pair(s[i + 1], s[1], i + 1, 1)
    <3>1. 1 \in DOMAIN s
      BY Tails
    <3>. QED
      BY <1>4, <3>1 DEF Reading
  <2>2. n \in Kinds
    BY DEF KindOf, Kinds
  <2>. QED
    BY <1>3, <1>4, <2>1, <2>2 DEF Pair, Kinds, Lists
<1>10. k \in Task <=> n = "task"
  BY BrainAssumption DEF KindOf, Key
<1> HIDE DEF n, how
<1>13. n \notin seen'[c].cut => n \notin seen[c].cut
  OBVIOUS
<1>14. /\ k \in seen'[c].listed <=> k \in seen[c].listed \/ k \in rows
       /\ k \in seen'[c].fits <=> k \in seen[c].fits \/ (k \in rows /\ ScopeOf(k) \in InScope)
  OBVIOUS
<1>11. CASE n = Now(c).how
  <2>1. /\ k \in rows => Wanted(k, how)
        /\ Wanted(k, how) /\ n \notin seen'[c].cut => k \in rows
    BY <1>5, <1>9, <1>10, <1>11 DEF Wanted, n
  <2>2. Pending(s, Lists, n) /\ ~Pending(t, Lists, n) /\ k \notin seen[c].listed
    BY <1>4, <1>6, <1>11
  <2>. QED
    BY <1>4, <1>6, <1>7, <1>8, <1>13, <1>14, <2>1, <2>2 DEF n, how
<1>12. CASE n # Now(c).how
  <2>1. k \notin rows
    BY <1>5, <1>12 DEF n
  <2>. QED
    BY <1>4, <1>6, <1>7, <1>8, <1>12, <1>13, <1>14, <2>1 DEF n, how
<1>. QED
  BY <1>11, <1>12

LEMMA TiesSeen ==
  ASSUME NEW r, NEW x,
         r = [listed |-> r.listed, fits |-> r.fits, links |-> r.links, ties |-> r.ties,
              hits |-> r.hits, cut |-> r.cut]
  PROVE  [r EXCEPT !.ties = x] =
           [listed |-> r.listed, fits |-> r.fits, links |-> r.links, ties |-> x,
            hits |-> r.hits, cut |-> r.cut]
<1>1. PICK a, b, d, e, f, g :
        r = [listed |-> a, fits |-> b, links |-> d, ties |-> e, hits |-> f, cut |-> g]
  OBVIOUS
<1>2. r.listed = a /\ r.fits = b /\ r.links = d /\ r.ties = e /\ r.hits = f /\ r.cut = g
  BY <1>1
<1>3. [r EXCEPT !.ties = x] =
        [listed |-> a, fits |-> b, links |-> d, ties |-> x, hits |-> f, cut |-> g]
  BY ONLY <1>1
<1>. QED
  BY <1>2, <1>3

\* What is taken of a list is a part of it, and all of it if it is short enough.
LEMMA FirstOfIs ==
  ASSUME NEW n, NEW K, NEW W \in FirstOf(n, K)
  PROVE  W \subseteq K /\ (Cardinality(K) <= n => W = K)
<1>1. CASE Cardinality(K) <= n
  BY <1>1 DEF FirstOf
<1>2. CASE ~(Cardinality(K) <= n)
  BY <1>2 DEF FirstOf
<1>. QED
  BY <1>1, <1>2

LEMMA ListRecordsKeeps ==
  ASSUME IInv, NEW c \in Slot, ListRecords(c)
  PROVE  IInv'
<1>1. /\ todo[c] # <<>> /\ Now(c).do \in Lists /\ Go(c, {})
      /\ UNCHANGED <<row, rel, index, hint, newer, old, up>> /\ UNCHANGED <<torn, cascaded>>
  BY DEF ListRecords, Doing, Lists, store, past
<1>2. PICK s \in Seq(StepRec) : s = todo[c] /\ s # <<>> /\ Now(c) = s[1]
  BY <1>1, NowTyped
<1>3. Reading(s)
  <2>1. Now(c).do \notin Writes \cup {"forget", "drop", "drop hint"}
    BY <1>1 DEF Writes, Lists
  <2>. QED
    BY <1>1, <1>2, <2>1, NowTyped
<1>4. PICK n : n = Now(c).how
  OBVIOUS
<1>5. Now(c).do = "list all" => n # "task"
  <2>1. 1 \in DOMAIN s
    BY <1>2
  <2>. QED
    BY <1>2, <1>3, <1>4, <2>1 DEF Reading, ReadSteps, Typed
<1>6. /\ c \in DOMAIN seen
      /\ seen[c] = [listed |-> seen[c].listed, fits |-> seen[c].fits, links |-> seen[c].links,
                    ties |-> seen[c].ties, hits |-> seen[c].hits, cut |-> seen[c].cut]
  <2>1. SeenTyped
    BY Types DEF IInv
  <2>. QED
    BY <2>1 DEF SeenTyped
<1> DEFINE live(k)  == IsLive(k) \/ (Now(c).do = "list all" /\ row[k].state = "archived")
           shown(W) == {k \in W : live(k)}
           rows     == {k \in OfKind(n) : row[k] # Absent}
<1>7. CASE n = "relation"
  <2>1. PICK W : seen' = [seen EXCEPT ![c].ties = W]
    BY <1>4, <1>7 DEF ListRecords
  <2>2. [seen[c] EXCEPT !.ties = W] =
          [listed |-> seen[c].listed, fits |-> seen[c].fits, links |-> seen[c].links,
           ties |-> W, hits |-> seen[c].hits, cut |-> seen[c].cut]
    BY <1>6, TiesSeen
  <2>3. seen' = [seen EXCEPT ![c] =
          [listed |-> seen[c].listed, fits |-> seen[c].fits, links |-> seen[c].links,
           ties |-> W, hits |-> seen[c].hits, cut |-> seen[c].cut]]
    BY <2>1, <2>2
  <2>4. /\ seen'[c].listed = seen[c].listed /\ seen'[c].fits = seen[c].fits
        /\ seen'[c].hits = seen[c].hits /\ seen'[c].cut = seen[c].cut
    BY <1>6, <2>3
  <2>5. /\ seen'[c].listed = seen[c].listed \cup {}
        /\ seen'[c].fits = seen[c].fits \cup {k \in {} : ScopeOf(k) \in InScope}
    <3>1. {k \in {} : ScopeOf(k) \in InScope} = {}
      OBVIOUS
    <3>. QED
      BY <2>4, <3>1
  <2>6. PICK found, cut : found = {} /\ cut = seen[c].cut
    OBVIOUS
  <2>9. \A k \in Key :
           LET out == \/ IsLive(k)
                      \/ Now(c).do = "list all" /\ k \notin Task /\ row[k].state = "archived" IN
           /\ k \in found => KindOf(k) = Now(c).how /\ out
           /\ KindOf(k) = Now(c).how /\ out /\ KindOf(k) \notin cut => k \in found
    BY <1>4, <1>7, <2>6 DEF KindOf
  <2>10. /\ seen'[c].listed = seen[c].listed \cup found /\ seen'[c].hits = seen[c].hits
         /\ seen'[c].fits = seen[c].fits \cup {k \in found : ScopeOf(k) \in InScope}
         /\ seen'[c].cut = cut /\ seen[c].cut \subseteq cut
    BY <2>4, <2>5, <2>6
  <2>7. RecallsBy(c)'
    BY <1>1, <1>2, <1>3, <2>9, <2>10, ListedNow
  <2>. QED
    BY <1>1, <1>2, <1>3, <2>3, <2>7, SeeingKeeps DEF Lists
<1>8. CASE n # "relation"
  <2>1. PICK W \in IF n = "task" THEN {InWindow} ELSE FirstOf(Window[n], rows) :
          seen' = [seen EXCEPT ![c] =
            [listed |-> seen[c].listed \cup shown(W),
             fits   |-> seen[c].fits \cup {k \in shown(W) : ScopeOf(k) \in InScope},
             links  |-> seen[c].links
                \cup UNION {{t} \X Range(row[t].val.links) : t \in shown(W) \cap Task},
             ties   |-> seen[c].ties,
             hits   |-> seen[c].hits,
             cut    |-> IF W = rows THEN seen[c].cut ELSE seen[c].cut \cup {n}]]
    BY <1>4, <1>8 DEF ListRecords
  <2>9. /\ \A k : k \in rows <=> k \in OfKind(n) /\ row[k] # Absent
        /\ \A k : k \in shown(W) <=> k \in W /\ live(k)
        /\ \A k : live(k) <=> IsLive(k) \/ (Now(c).do = "list all" /\ row[k].state = "archived")
    OBVIOUS
  <2>10. n = "task" => InWindow \subseteq rows
    <3>1. n = "task" => OfKind(n) = Task
      BY DEF OfKind
    <3>. QED
      BY <2>9, <3>1 DEF InWindow, TaskRows
  <2> HIDE DEF rows, shown, live
  <2>2. W \subseteq rows
    <3>1. CASE n = "task"
      BY <2>1, <2>10, <3>1
    <3>2. CASE n # "task"
      <4>1. W \in FirstOf(Window[n], rows)
        BY <2>1, <3>2
      <4>. QED
        BY <4>1, FirstOfIs
    <3>. QED
      BY <3>1, <3>2
  <2> DEFINE cut   == IF W = rows THEN seen[c].cut ELSE seen[c].cut \cup {n}
             links == seen[c].links
                        \cup UNION {{t} \X Range(row[t].val.links) : t \in shown(W) \cap Task}
             S     == shown(W)
  <2>6. seen' = [seen EXCEPT ![c] =
          [listed |-> seen[c].listed \cup S,
           fits   |-> seen[c].fits \cup {k \in S : ScopeOf(k) \in InScope},
           links  |-> links, ties |-> seen[c].ties, hits |-> seen[c].hits, cut |-> cut]]
    BY <2>1
  <2>3. /\ seen[c].cut \subseteq cut /\ (n \notin cut => W = rows)
        /\ \A k : k \in S <=> k \in W /\ live(k)
    BY <2>9
  <2> HIDE DEF cut, links, S
  <2>11. seen[c].cut \subseteq cut
    BY <2>3
  <2>5. ASSUME NEW k \in Key
        PROVE  LET out == \/ IsLive(k)
                          \/ Now(c).do = "list all" /\ k \notin Task /\ row[k].state = "archived" IN
               /\ k \in S => KindOf(k) = Now(c).how /\ out
               /\ KindOf(k) = Now(c).how /\ out /\ KindOf(k) \notin cut => k \in S
    <3>1. k \in OfKind(n) <=> KindOf(k) = n
      BY KindOfIs
    <3>2. k \in Task => KindOf(k) = "task"
      BY BrainAssumption DEF KindOf
    <3>3. live(k) => row[k] # Absent
      <4>1. Absent.state = "absent"
        BY DEF Absent
      <4>. QED
        BY <2>9, <4>1 DEF IsLive
    <3>5. k \in S => KindOf(k) = n /\ live(k)
      BY <2>2, <2>3, <2>9, <3>1
    <3>6. ASSUME KindOf(k) = n, live(k), n \notin cut PROVE k \in S
      <4>1. W = rows
        BY <2>3, <3>6
      <4>2. k \in rows
        BY <2>9, <3>1, <3>3, <3>6
      <4>. QED
        BY <2>3, <3>6, <4>1, <4>2
    <3>7. live(k) <=> IsLive(k) \/ (Now(c).do = "list all" /\ row[k].state = "archived")
      BY <2>9
    <3>. QED
      BY <1>4, <1>5, <3>2, <3>5, <3>6, <3>7
  <2>7. /\ seen'[c].listed = seen[c].listed \cup S /\ seen'[c].hits = seen[c].hits
        /\ seen'[c].fits = seen[c].fits \cup {k \in S : ScopeOf(k) \in InScope}
        /\ seen'[c].cut = cut
    BY <1>6, <2>6
  <2>8. RecallsBy(c)'
    BY <1>1, <1>2, <1>3, <2>5, <2>7, <2>11, ListedNow
  <2>. QED
    BY <1>1, <1>2, <1>3, <2>6, <2>8, SeeingKeeps DEF Lists
<1>. QED
  BY <1>7, <1>8

LEMMA QueryHitsKeeps ==
  ASSUME IInv, NEW c \in Slot, QueryHits(c)
  PROVE  IInv'
<1>1. /\ todo[c] # <<>> /\ Now(c).do = "query" /\ Go(c, {})
      /\ UNCHANGED <<row, rel, index, hint, newer, old, up>> /\ UNCHANGED <<torn, cascaded>>
  BY DEF QueryHits, Doing, store, past
<1>2. PICK s \in Seq(StepRec) : s = todo[c] /\ s # <<>> /\ Now(c) = s[1]
  BY <1>1, NowTyped
<1>3. Reading(s)
  <2>1. Now(c).do \notin Writes \cup {"forget", "drop", "drop hint"}
    BY <1>1 DEF Writes
  <2>. QED
    BY <1>1, <1>2, <2>1, NowTyped
<1>0. SeenTyped
  BY Types DEF IInv
<1>4. PICK hits, cut :
        /\ seen' = [seen EXCEPT ![c] =
             [listed |-> seen[c].listed, fits |-> seen[c].fits, links |-> seen[c].links,
              ties |-> seen[c].ties, hits |-> seen[c].hits \cup hits, cut |-> cut]]
        /\ seen[c].cut \subseteq cut
        /\ Now(c).how \notin cut =>
             \A k \in Key : KindOf(k) = Now(c).how /\ index[k] # None => k \in hits
  <2>1. seen[c] = [listed |-> seen[c].listed, fits |-> seen[c].fits, links |-> seen[c].links,
                   ties |-> seen[c].ties, hits |-> seen[c].hits, cut |-> seen[c].cut]
        /\ c \in DOMAIN seen
    BY <1>0 DEF SeenTyped
  <2>2. PICK W, all : /\ all = {k \in OfKind(Now(c).how) : index[k] # None}
                      /\ seen' = [seen EXCEPT ![c].hits = @ \cup W,
                              ![c].cut = IF W = all THEN @ ELSE @ \cup {Now(c).how}]
    BY DEF QueryHits
  <2>3. PICK h, x : /\ h = seen[c].hits \cup W
                    /\ x = IF W = all THEN seen[c].cut ELSE seen[c].cut \cup {Now(c).how}
    OBVIOUS
  <2>4. [[seen[c] EXCEPT !.hits = h] EXCEPT !.cut = x] =
          [listed |-> seen[c].listed, fits |-> seen[c].fits, links |-> seen[c].links,
           ties |-> seen[c].ties, hits |-> h, cut |-> x]
    <3>1. PICK a, b, d, e, f, g :
            seen[c] = [listed |-> a, fits |-> b, links |-> d, ties |-> e, hits |-> f, cut |-> g]
      BY <2>1
    <3>2. /\ seen[c].listed = a /\ seen[c].fits = b /\ seen[c].links = d /\ seen[c].ties = e
      BY <3>1
    <3>3. PICK q : q = [listed |-> a, fits |-> b, links |-> d, ties |-> e, hits |-> h, cut |-> g]
      OBVIOUS
    <3>4. [seen[c] EXCEPT !.hits = h] = q
      BY ONLY <3>1, <3>3
    <3>5. [q EXCEPT !.cut = x] =
            [listed |-> a, fits |-> b, links |-> d, ties |-> e, hits |-> h, cut |-> x]
      BY ONLY <3>3
    <3>. QED
      BY <3>2, <3>4, <3>5
  <2>5. seen' = [seen EXCEPT ![c] = [[seen[c] EXCEPT !.hits = h] EXCEPT !.cut = x]]
    <3>1. [seen[c] EXCEPT !.hits = h].cut = seen[c].cut
      BY <2>1
    <3>. QED
      BY <2>1, <2>2, <2>3, <3>1
  <2>6. Now(c).how \notin x =>
          \A k \in Key : KindOf(k) = Now(c).how /\ index[k] # None => k \in W
    BY <2>2, <2>3, KindOfIs
  <2>. QED
    BY <2>3, <2>4, <2>5, <2>6
<1>5. /\ seen'[c].listed = seen[c].listed /\ seen'[c].hits = seen[c].hits \cup hits
      /\ seen'[c].fits = seen[c].fits /\ seen'[c].cut = cut
  BY <1>0, <1>4 DEF SeenTyped
<1>6. RecallsBy(c)'
  <2>1. PICK t \in Seq(StepRec) : t = Tail(s)
    BY <1>2, Tails
  <2>2. todo'[c] = t /\ (t # <<>> => touched'[c] = touched[c])
    BY <1>1, <1>2, <2>1 DEF Go, Advance, IInv, TypePart
  <2>3. SUFFICES ASSUME NEW i \in DOMAIN t, Recalling(t[i]), NEW k \in Key \ touched'[c]
        PROVE  /\ k \in seen[c].listed =>
                    ~Pending(t, Lists, KindOf(k)) /\ Wanted(k, t[i].how)'
               /\ k \in seen[c].fits => k \in seen[c].listed
               /\ KindOf(k) \notin cut /\ ~Pending(t, Lists, KindOf(k)) /\ Wanted(k, t[i].how)'
                    => /\ k \in seen[c].listed
                       /\ ScopeOf(k)' \in InScope => k \in seen[c].fits
               /\ KindOf(k) \notin cut /\ ~Pending(t, {"query"}, KindOf(k)) /\ index'[k] # None
                    => k \in seen'[c].hits
    <3>1. SUFFICES RecallsIn(c, t)'
      BY <2>2 DEF RecallsBy
    <3>. QED
      BY <1>5 DEF RecallsIn, KindOf, Wanted, IsLive, Pending, ScopeOf
  <2>4. PICK z : z = KindOf(k)
    OBVIOUS
  <2>5. /\ t # <<>> /\ (Pending(s, Lists, z) <=> Pending(t, Lists, z))
        /\ ~(s[1].how = z) => (Pending(s, {"query"}, z) <=> Pending(t, {"query"}, z))
        /\ s[1].how = z => ~Pending(t, {"query"}, z)
    <3>1. i \in DOMAIN Tail(s)
      BY <2>1, <2>3
    <3>2. s[1].do = "query" /\ s[1].do \notin Lists
      BY <1>1, <1>2 DEF Lists
    <3>3. /\ Tail(s) # <<>>
          /\ ~(s[1].do \in Lists /\ s[1].how = z) =>
                (Pending(s, Lists, z) <=> Pending(Tail(s), Lists, z))
          /\ ~(s[1].do = "query" /\ s[1].how = z) =>
                (Pending(s, {"query"}, z) <=> Pending(Tail(s), {"query"}, z))
          /\ s[1].do = "query" /\ s[1].how = z =>
               Pending(s, {"query"}, z) /\ ~Pending(Tail(s), {"query"}, z)
      BY <1>2, <1>3, <3>1, PendingTail
    <3>. QED
      BY <2>1, <3>2, <3>3
  <2>6. touched'[c] = touched[c] /\ k \in Key \ touched[c]
    BY <2>2, <2>3, <2>5
  <2>7. /\ k \in seen[c].listed => ~Pending(s, Lists, KindOf(k)) /\ Wanted(k, t[i].how)
        /\ k \in seen[c].fits => k \in seen[c].listed
        /\ KindOf(k) \notin seen[c].cut /\ ~Pending(s, Lists, KindOf(k)) /\ Wanted(k, t[i].how)
             => k \in seen[c].listed /\ (ScopeOf(k) \in InScope => k \in seen[c].fits)
        /\ KindOf(k) \notin seen[c].cut /\ ~Pending(s, {"query"}, KindOf(k)) /\ index[k] # None
             => k \in seen[c].hits
    BY <1>2, <1>3, <2>1, <2>3, <2>6, RecallsNow
  <2>8. /\ Wanted(k, t[i].how)' = Wanted(k, t[i].how) /\ ScopeOf(k)' = ScopeOf(k)
        /\ index'[k] = index[k] /\ (z \notin cut => z \notin seen[c].cut)
    BY <1>1, <1>4, <2>6 DEF Wanted, IsLive, ScopeOf
  <2>9. z \notin cut /\ ~Pending(t, {"query"}, z) /\ index'[k] # None => k \in seen'[c].hits
    <3>1. CASE s[1].how = z
      BY <1>2, <1>4, <1>5, <2>4, <2>6, <2>8, <3>1
    <3>2. CASE s[1].how # z
      BY <1>5, <2>4, <2>5, <2>7, <2>8, <3>2
    <3>. QED
      BY <3>1, <3>2
  <2>. QED
    BY <2>4, <2>5, <2>7, <2>8, <2>9
<1>. QED
  BY <1>1, <1>2, <1>3, <1>4, <1>6, SeeingKeeps

LEMMA ReturnKeeps ==
  ASSUME IInv, NEW c \in Slot, Return(c)
  PROVE  IInv'
<1>1. /\ todo[c] # <<>> /\ Now(c).do = "answer" /\ Go(c, {}) /\ seen' = [seen EXCEPT ![c] = Nothing]
      /\ UNCHANGED <<row, rel, index, hint, newer, old, up>> /\ UNCHANGED <<torn, cascaded>>
  BY DEF Return, Doing, store, past
<1>2. PICK s \in Seq(StepRec) : s = todo[c] /\ s # <<>> /\ Now(c) = s[1]
  BY <1>1, NowTyped
<1>3. Reading(s)
  <2>1. Now(c).do \notin Writes \cup {"forget", "drop", "drop hint"}
    BY <1>1 DEF Writes
  <2>. QED
    BY <1>1, <1>2, <2>1, NowTyped
<1>4. seen'[c] = Nothing
  <2>1. SeenTyped
    BY Types DEF IInv
  <2>. QED
    BY <1>1, <2>1 DEF SeenTyped
<1>5. RecallsBy(c)'
  <2>1. PICK t \in Seq(StepRec) : t = Tail(s)
    BY <1>2, Tails
  <2>2. todo'[c] = t
    BY <1>1, <1>2, <2>1 DEF Go, Advance, IInv, TypePart
  <2>3. ASSUME NEW i \in DOMAIN t PROVE ~Recalling(t[i])
    <3>1. i + 1 \in DOMAIN s /\ t[i] = s[i + 1] /\ 1 \in DOMAIN s /\ i + 1 # 1
      BY <1>2, <2>1, <2>3, Tails
    <3>2. Pair(s[1], s[i + 1], 1, i + 1)
      BY <1>3, <3>1 DEF Reading
    <3>. QED
      BY <1>1, <1>2, <3>1, <3>2 DEF Pair, Recalling
  <2>. QED
    BY <2>2, <2>3 DEF RecallsBy, RecallsIn, Recalling
<1>. QED
  BY <1>1, <1>2, <1>3, <1>4, <1>5, SeeingKeeps DEF Nothing

-----------------------------------------------------------------------------
(* Steps that decide what follows them.                                    *)

\* A script that writes the facts of another after the same entities.
LEMMA GroundedAmong ==
  ASSUME NEW c, NEW s, NEW u, NEW d \in Int, GroundedIn(c, s),
         NEW n \in Nat, DOMAIN s = 1..n, DOMAIN u \subseteq Nat,
         \A i \in DOMAIN u : u[i].do = "put" /\ u[i].key \in Fact =>
            i + d \in DOMAIN s /\ s[i + d] = u[i],
         \A j \in DOMAIN s : s[j].do = "put" =>
            j - d \in DOMAIN u /\ j - d > 0 /\ u[j - d] = s[j]
  PROVE  GroundedIn(c, u)
<1> SUFFICES ASSUME NEW i \in DOMAIN u, u[i].do = "put", u[i].key \in Fact \ Contexts
             PROVE  \/ \E j \in 1..(i - 1) : u[j].do = "put" /\ u[j].key = EntityOf[u[i].key]
                    \/ IsLive(EntityOf[u[i].key])
                    \/ EntityOf[u[i].key] \in touched[c]
  BY DEF GroundedIn
<1>1. i + d \in DOMAIN s /\ s[i + d] = u[i] /\ i \in Nat /\ i + d \in Nat
  OBVIOUS
<1>2. \/ \E j \in 1..((i + d) - 1) : s[j].do = "put" /\ s[j].key = EntityOf[u[i].key]
      \/ IsLive(EntityOf[u[i].key])
      \/ EntityOf[u[i].key] \in touched[c]
  BY <1>1 DEF GroundedIn
<1>3. ASSUME NEW j \in 1..((i + d) - 1), s[j].do = "put",
             s[j].key = EntityOf[u[i].key]
      PROVE  \E m \in 1..(i - 1) : u[m].do = "put" /\ u[m].key = EntityOf[u[i].key]
  <2>0. j \in DOMAIN s /\ j \in Nat
    BY <1>1
  <2>1. j - d \in DOMAIN u /\ j - d > 0 /\ u[j - d] = s[j]
    BY <1>3, <2>0
  <2>2. j - d \in 1..(i - 1)
    BY <1>1, <1>3, <2>1
  <2>. QED
    BY <1>3, <2>1, <2>2
<1>. QED
  BY <1>2, <1>3

LEMMA GroundedRest ==
  ASSUME NEW c, NEW s \in Seq(StepRec), s # <<>>, s[1].do # "put", GroundedIn(c, s)
  PROVE  GroundedIn(c, Tail(s))
<1>1. PICK t \in Seq(StepRec) : t = Tail(s)
  BY Tails
<1>2. /\ DOMAIN s = 1..Len(s) /\ DOMAIN t = 1..(Len(s) - 1) /\ Len(s) \in Nat
      /\ \A i \in DOMAIN t : i + 1 \in DOMAIN s /\ t[i] = s[i + 1]
  BY <1>1, Tails
<1>3. \A j \in DOMAIN s : s[j].do = "put" => j - 1 \in DOMAIN t /\ j - 1 > 0 /\ t[j - 1] = s[j]
  <2> TAKE j \in DOMAIN s
  <2> HAVE s[j].do = "put"
  <2>1. j # 1 /\ j \in 1..Len(s)
    BY <1>2
  <2>2. j - 1 \in DOMAIN t /\ j - 1 > 0 /\ (j - 1) + 1 = j
    BY <1>2, <2>1
  <2>. QED
    BY <1>2, <2>2
<1>4. 1 \in Int /\ DOMAIN t \subseteq Nat
  BY <1>2
<1>6. \A i \in DOMAIN t : t[i].do = "put" /\ t[i].key \in Fact =>
        i + 1 \in DOMAIN s /\ s[i + 1] = t[i]
  BY <1>2
<1>5. GroundedIn(c, t)
  <2>1. PICK d \in Int : d = 1
    OBVIOUS
  <2>2. PICK n \in Nat : n = Len(s)
    BY <1>2
  <2>3. DOMAIN s = 1..n /\ DOMAIN t \subseteq Nat
    BY <1>2, <2>2
  <2>4. \A i \in DOMAIN t : t[i].do = "put" /\ t[i].key \in Fact =>
          i + d \in DOMAIN s /\ s[i + d] = t[i]
    BY <1>6, <2>1
  <2>5. \A j \in DOMAIN s : s[j].do = "put" => j - d \in DOMAIN t /\ j - d > 0 /\ t[j - d] = s[j]
    BY <1>3, <2>1
  <2>. QED
    BY ONLY <2>1, <2>2, <2>3, <2>4, <2>5, GroundedIn(c, s), GroundedAmong, SMTT(30)
<1>. QED
  BY <1>1, <1>5

LEMMA GroundedBound ==
  ASSUME NEW c, NEW s, Plan(s), NEW t \in Task, GroundedIn(c, s)
  PROVE  GroundedIn(c, Bind(s, t))
<1>1. PICK u : u = Bind(s, t)
  OBVIOUS
<1>2. /\ DOMAIN u = DOMAIN s
      /\ \A i \in DOMAIN s : u[i].do = s[i].do /\ (s[i].do # "relate" => u[i] = s[i])
  BY <1>1, Bound
<1>3. DOMAIN s = 1..Len(s) /\ Len(s) \in Nat /\ 0 \in Int
  BY DEF Plan
<1>4. \A i \in DOMAIN s : i + 0 = i /\ i - 0 = i /\ i > 0 /\ i \in Nat
  BY <1>3
<1>5. GroundedIn(c, u)
  BY <1>2, <1>3, <1>4, GroundedAmong
<1>. QED
  BY <1>1, <1>5

\* ... and after steps that write no fact.
LEMMA GroundedBehind ==
  ASSUME NEW c, NEW p \in Seq(StepRec), NEW s \in Seq(StepRec), GroundedIn(c, s),
         \A i \in DOMAIN p : p[i].do = "put" => p[i].key \notin Fact
  PROVE  GroundedIn(c, p \o s)
<1>1. PICK u : u = p \o s
  OBVIOUS
<1>2. PICK n \in Nat : n = Len(p)
  OBVIOUS
<1>3. /\ DOMAIN p = 1..n /\ DOMAIN s = 1..Len(s) /\ Len(s) \in Nat
      /\ DOMAIN u = 1..(n + Len(s))
      /\ \A i \in 1..n : u[i] = p[i]
      /\ \A i \in 1..Len(s) : u[n + i] = s[i]
  BY <1>1, <1>2, Joined
<1>4. ASSUME NEW i \in DOMAIN u, u[i].do = "put", u[i].key \in Fact
      PROVE  i + (-n) \in DOMAIN s /\ s[i + (-n)] = u[i]
  <2>1. i \notin 1..n
    BY <1>3, <1>4
  <2>2. i + (-n) \in 1..Len(s) /\ n + (i + (-n)) = i
    BY <1>3, <2>1
  <2>. QED
    BY <1>3, <2>2
<1>5. ASSUME NEW j \in DOMAIN s
      PROVE  j - (-n) \in DOMAIN u /\ j - (-n) > 0 /\ u[j - (-n)] = s[j]
  <2>1. j - (-n) = n + j /\ n + j \in 1..(n + Len(s)) /\ n + j > 0
    BY <1>3
  <2>. QED
    BY <1>3, <2>1
<1>6. -n \in Int /\ DOMAIN u \subseteq Nat
  BY <1>3
<1>7. GroundedIn(c, u)
  <2>1. PICK d \in Int : d = -n
    BY <1>6
  <2>2. PICK m \in Nat : m = Len(s)
    BY <1>3
  <2>3. DOMAIN s = 1..m /\ DOMAIN u \subseteq Nat
    BY <1>3, <2>2
  <2>4. \A i \in DOMAIN u : u[i].do = "put" /\ u[i].key \in Fact =>
          i + d \in DOMAIN s /\ s[i + d] = u[i]
    BY <1>4, <2>1
  <2>5. \A j \in DOMAIN s : s[j].do = "put" => j - d \in DOMAIN u /\ j - d > 0 /\ u[j - d] = s[j]
    BY <1>5, <2>1
  <2>. QED
    BY ONLY <2>3, <2>4, <2>5, GroundedIn(c, s), GroundedAmong
<1>. QED
  BY <1>1, <1>7

\* A look-up: what it found comes first, and then the rest of the script.
LEMMA LookUpKeeps ==
  ASSUME IInv, NEW c \in Slot, todo[c] # <<>>, Now(c).do \in {"similar", "related", "read"},
         NEW t \in Task, NEW v \in TaskVal, NEW how \in Words, NEW r, Plan(r), GroundedIn(c, r),
         Advance(c, UpsertTask(t, v, how) \o r, {}), Held(c, t, v, how),
         UNCHANGED <<row, rel, index, hint, newer, old, seen, up>>, UNCHANGED <<torn, cascaded>>
  PROVE  IInv'
<1>1. PICK s \in Seq(StepRec) : s = todo[c] /\ s # <<>> /\ Now(c) = s[1]
  BY NowTyped
<1>2. Writing(s)
  <2>1. Now(c).do \notin Reads \cup {"forget", "drop", "drop hint"}
    BY DEF Reads
  <2>. QED
    BY <1>1, <2>1, NowTyped
<1>3. PICK p \in Seq(StepRec) : p = UpsertTask(t, v, how)
  BY TaskUpsert
<1>4. PICK u : u = p \o r
  OBVIOUS
<1>5. /\ u \in Seq(StepRec) /\ Writing(u) /\ u # <<>> /\ u[1] = Put(t, v, how)
      /\ p[1].key = t /\ DOMAIN p = {1, 2, 3} /\ p[2].do = "index" /\ p[3].do = "hint"
  <2>1. u \in Seq(StepRec) /\ Writing(u) /\ u # <<>> /\ u[1] = Put(t, v, how)
    BY <1>3, <1>4, LookUpScript
  <2>2. p[1] = Put(t, v, how) /\ DOMAIN p = {1, 2, 3} /\ p[2].do = "index" /\ p[3].do = "hint"
    BY <1>3, TaskUpsert
  <2>. QED
    BY <2>1, <2>2 DEF Put
<1>6. Watched({}) /\ Advance(c, u, {}) /\ \A d \in Slot \ {c} : seen'[d] = seen[d]
  BY <1>3, <1>4, NothingWatched
<1>7. Turn(c, u, {})
  BY <1>5, <1>6 DEF Turn
<1>8. todo'[c] = u /\ todo' = [todo EXCEPT ![c] = u] /\ touched'[c] = touched[c]
  BY <1>5, <1>7, Turned
<1>9. StoreTyped' /\ SeenTyped'
  <2>1. SeenTyped'
    BY Types DEF IInv, SeenTyped
  <2>. QED
    BY <2>1, Types, SameStore DEF IInv
<1>10. InStep'
  <2>1. \A k : Owed(s, k) = {}
    BY <1>1, <1>2, WritingOwesNothing
  <2>2. u[1].do = "put"
    BY <1>5 DEF Put
  <2>3. \A k : Owed(u, k) = {}
    BY <1>5, <2>2, WritingOwesNothing
  <2>4. todo \in [Slot -> Seq(StepRec)] /\ InStep
    BY DEF IInv, TypePart
  <2>5. ASSUME NEW k \in Key \ torn PROVE Sound(k)'
    BY <1>1, <1>8, <2>1, <2>3, <2>4, <2>5, QuietSound DEF InStep
  <2>. QED
    BY <2>5 DEF InStep
<1>11. HeldBy(c)'
  <2> SUFFICES ASSUME Doing(c, "put")'
               PROVE  Held(c, Now(c).key, Now(c).val, Now(c).how)'
    BY DEF HeldBy
  <2>1. Now(c)' = Put(t, v, how)
    BY <1>5, <1>8 DEF Now
  <2>2. Held(c, t, v, how)'
    <3>1. InWindow' = InWindow /\ Similar(v.text)' = Similar(v.text) /\ Calm(c)' = Calm(c)
      BY <1>8 DEF InWindow, TaskRows, Similar, Listed, IsLive, Calm
    <3>. QED
      BY <1>8, <3>1 DEF Held, IsLive
  <2>. QED
    BY <2>1, <2>2 DEF Put
<1>12. GroundedBy(c)'
  <2>1. \A i \in DOMAIN p : p[i].do = "put" => p[i].key \notin Fact
    BY <1>5, BrainAssumption
  <2>2. GroundedIn(c, u)
    BY <1>4, <2>1, GroundedBehind DEF Plan
  <2>. QED
    BY <1>8, <2>2 DEF GroundedBy, GroundedIn, IsLive
<1>13. RecallsBy(c)'
  BY <1>5, <1>8, UnaskedRecalls
<1>14. seen'[c] = Nothing
  <2>1. \A i \in DOMAIN s : s[i].do # "answer"
    BY <1>2 DEF Writing, Writes
  <2>. QED
    BY <1>1, <2>1 DEF IInv, Sessions
<1>. QED
  BY <1>7, <1>9, <1>10, <1>11, <1>12, <1>13, <1>14, TurnKeeps

\* What a look-up leaves of its script.
LEMMA RestOfLookUp ==
  ASSUME IInv, NEW c \in Slot, todo[c] # <<>>, Now(c).do \in {"similar", "related", "read"}
  PROVE  /\ Plan(Tail(todo[c])) /\ GroundedIn(c, Tail(todo[c])) /\ Typed(Now(c))
         /\ \A t \in Task : Plan(Bind(Tail(todo[c]), t)) /\ GroundedIn(c, Bind(Tail(todo[c]), t))
<1>1. PICK s \in Seq(StepRec) : s = todo[c] /\ s # <<>> /\ Now(c) = s[1]
  BY NowTyped
<1>2. Writing(s) /\ Typed(Now(c))
  <2>1. Now(c).do \notin Reads \cup {"forget", "drop", "drop hint"}
    BY DEF Reads
  <2>. QED
    BY <1>1, <2>1, NowTyped
<1>3. Plan(Tail(s))
  BY <1>1, <1>2, PlanAfter
<1>4. GroundedIn(c, Tail(s))
  BY <1>1, GroundedRest DEF IInv, Honest, GroundedBy
<1>5. ASSUME NEW t \in Task
      PROVE  Plan(Bind(Tail(s), t)) /\ GroundedIn(c, Bind(Tail(s), t))
  BY <1>3, <1>4, Bound, GroundedBound
<1>. QED
  BY <1>1, <1>2, <1>3, <1>4, <1>5

\* A call that goes on with the rest of its script.
LEMMA PassedKeeps ==
  ASSUME IInv, NEW c \in Slot, todo[c] # <<>>, Now(c).do \in {"similar", "related", "read"},
         Go(c, {}),
         UNCHANGED <<row, rel, index, hint, newer, old, seen, up>>, UNCHANGED <<torn, cascaded>>
  PROVE  IInv'
<1>1. Watched({}) /\ {} \in SUBSET Key
  BY NothingWatched
<1>2. StoreTyped'
  BY Types, SameStore DEF IInv
<1>3. InStep'
  <2>1. todo' = [todo EXCEPT ![c] = Tail(todo[c])]
    BY DEF Go, Advance
  <2>. QED
    BY <2>1, QuietTail DEF Projects
<1>. QED
  BY <1>1, <1>2, <1>3, PlainGoKeeps DEF Lists

LEMMA ResolveKeeps ==
  ASSUME IInv, NEW c \in Slot, todo[c] # <<>>, Now(c).do = "similar",
         NEW t \in Task, NEW how \in Words, Resolve(c, t, how), Held(c, t, Now(c).val, how),
         UNCHANGED <<row, rel, index, hint, newer, old, seen, up>>, UNCHANGED <<torn, cascaded>>
  PROVE  IInv'
<1>1. PICK v : v = Now(c).val
  OBVIOUS
<1>2. PICK r : r = Bind(Tail(todo[c]), t)
  OBVIOUS
<1>3. v \in TaskVal /\ Plan(r) /\ GroundedIn(c, r)
  BY <1>1, <1>2, RestOfLookUp DEF Typed
<1>4. Advance(c, UpsertTask(t, v, how) \o r, {}) /\ Held(c, t, v, how)
  BY <1>1, <1>2 DEF Resolve
<1>. QED
  BY <1>3, <1>4, LookUpKeeps

LEMMA FindSimilarKeeps ==
  ASSUME IInv, NEW c \in Slot, FindSimilar(c)
  PROVE  IInv'
<1>1. /\ todo[c] # <<>> /\ Now(c).do = "similar"
      /\ UNCHANGED <<row, rel, index, hint, newer, old, seen, up>> /\ UNCHANGED <<torn, cascaded>>
      /\ \/ \E t \in Similar(Now(c).key) : Resolve(c, t, "found")
         \/ Similar(Now(c).key) = {} /\ Resolve(c, IdOf[Now(c).key], "new")
  BY DEF FindSimilar, Doing, store, past
<1>2. /\ Now(c).key \in Text /\ Now(c).val \in TaskVal /\ Now(c).val.text = Now(c).key
      /\ "found" \in Words /\ "new" \in Words
  BY <1>1, NowTyped DEF Typed, Words
<1>3. ASSUME NEW t \in Similar(Now(c).key), Resolve(c, t, "found")
      PROVE  IInv'
  <2>1. t \in Task /\ IsLive(t) /\ <<row[t].val.text, Now(c).key>> \in Attracts
    BY <1>3 DEF Similar, Listed, InWindow, TaskRows
  <2>2. Held(c, t, Now(c).val, "found")
    BY <1>2, <2>1 DEF Held
  <2>. QED
    BY <1>1, <1>2, <1>3, <2>1, <2>2, ResolveKeeps
<1>4. ASSUME Similar(Now(c).key) = {}, Resolve(c, IdOf[Now(c).key], "new")
      PROVE  IInv'
  <2>1. IdOf[Now(c).key] \in Task
    BY <1>2, BrainAssumption
  <2>2. Held(c, IdOf[Now(c).key], Now(c).val, "new")
    BY <1>2, <1>4 DEF Held
  <2>. QED
    BY <1>1, <1>2, <1>4, <2>1, <2>2, ResolveKeeps
<1>. QED
  BY <1>1, <1>3, <1>4

LEMMA FindRelatedKeeps ==
  ASSUME IInv, NEW c \in Slot, FindRelated(c)
  PROVE  IInv'
<1>1. /\ todo[c] # <<>> /\ Now(c).do = "related"
      /\ UNCHANGED <<row, rel, index, hint, newer, old, seen, up>> /\ UNCHANGED <<torn, cascaded>>
      /\ \/ \E t \in Related(Now(c).key) :
              Advance(c, UpsertTask(t, [row[t].val EXCEPT !.status = "done"], "closed")
                           \o Tail(todo[c]), {})
         \/ Go(c, {})
  BY DEF FindRelated, Doing, store, past
<1>2. ASSUME NEW t \in Related(Now(c).key),
             Advance(c, UpsertTask(t, [row[t].val EXCEPT !.status = "done"], "closed")
                          \o Tail(todo[c]), {})
      PROVE  IInv'
  <2>1. t \in Task /\ IsLive(t) /\ row[t].val.status \in Active
    BY <1>2 DEF Related, Listed, InWindow, TaskRows
  <2>2. row[t].val \in TaskVal
    <3>1. StoreTyped /\ t \in Key
      BY <2>1, Types DEF IInv, Key
    <3>2. row[t] # Absent
      BY <2>1 DEF IsLive, Absent
    <3>3. row[t].val \in ValOf(t)
      BY <3>1, <3>2 DEF StoreTyped
    <3>. QED
      BY <2>1, <3>3 DEF ValOf
  <2>3. PICK v : v = [row[t].val EXCEPT !.status = "done"]
    OBVIOUS
  <2>4. v \in TaskVal
    BY <2>2, <2>3 DEF TaskVal, Status
  <2>5. "closed" \in Words
    BY DEF Words
  <2>6. Held(c, t, v, "closed")
    BY <2>1, <2>3 DEF Held
  <2>7. Plan(Tail(todo[c])) /\ GroundedIn(c, Tail(todo[c]))
    BY <1>1, RestOfLookUp
  <2>. QED
    BY <1>1, <1>2, <2>1, <2>3, <2>4, <2>5, <2>6, <2>7, LookUpKeeps
<1>3. Go(c, {}) => IInv'
  BY <1>1, PassedKeeps
<1>. QED
  BY <1>1, <1>2, <1>3

LEMMA ReadTaskKeeps ==
  ASSUME IInv, NEW c \in Slot, ReadTask(c)
  PROVE  IInv'
<1>1. PICK u : u = Now(c).val
  OBVIOUS
<1>2. PICK how : how = Keeps(u)
  OBVIOUS
<1>3. PICK v, t : v = Updated(u) /\ t = u.task
  OBVIOUS
<1>4. /\ todo[c] # <<>> /\ Now(c).do = "read"
      /\ UNCHANGED <<row, rel, index, hint, newer, old, seen, up>> /\ UNCHANGED <<torn, cascaded>>
      /\ Advance(c, UpsertTask(t, v, how) \o LinkRecord("about", t, v.links) \o Tail(todo[c]), {})
  BY <1>1, <1>2, <1>3 DEF ReadTask, Doing, store, past
<1>5. /\ u \in Update /\ t \in Task /\ u.text \in Text \cup {None} /\ u.status \in Status
      /\ u.links = None \/ u.links \in Seq(Entity)
  <2>1. u \in Update
    BY <1>1, <1>4, NowTyped DEF Typed
  <2>. QED
    BY <1>3, <2>1, RequestAssumption
<1>6. t \in InWindow => row[t].val \in TaskVal
  <2>1. SUFFICES ASSUME t \in InWindow PROVE row[t].val \in TaskVal
    OBVIOUS
  <2>2. t \in Task /\ row[t] # Absent /\ t \in Key /\ StoreTyped
    BY <1>5, <2>1, Types DEF IInv, InWindow, TaskRows, Key
  <2>. QED
    BY <2>2 DEF StoreTyped, ValOf
<1>7. v = [text   |-> IF u.text # None THEN u.text ELSE IF t \in InWindow THEN row[t].val.text ELSE Bare,
           status |-> u.status, low |-> FALSE,
           links  |-> IF u.links # None THEN u.links
                      ELSE IF t \in InWindow THEN row[t].val.links ELSE <<>>]
  BY <1>3 DEF Updated
<1>8. v \in TaskVal
  <2>1. Bare \in Text
    BY BrainAssumption
  <2>2. t \in InWindow => row[t].val.text \in Text /\ row[t].val.links \in Seq(Entity)
    BY <1>6 DEF TaskVal
  <2>3. v.text \in Text
    BY <1>5, <1>7, <2>1, <2>2
  <2>4. v.links \in Seq(Entity)
    BY <1>5, <1>7, <2>2
  <2>. QED
    BY <1>5, <1>7, <2>3, <2>4 DEF TaskVal
<1>16. /\ how \in {"kept", "kept text", "kept links", "name"}
       /\ how \in {"kept", "kept text"} => u.text = None
       /\ how \in {"kept", "kept links"} => u.links = None
  BY <1>2 DEF Keeps
<1>9. how \in Words
  BY <1>16 DEF Words
<1>10. Held(c, t, v, how)
  BY <1>7, <1>16 DEF Held
<1>11. PICK p, q : p = LinkRecord("about", t, v.links) /\ q = Tail(todo[c])
  OBVIOUS
<1>12. Plan(q) /\ GroundedIn(c, q)
  BY <1>4, <1>11, RestOfLookUp
<1>13. Plan(p) /\ Puts(p) = {}
  <2>1. "about" \in Ties /\ t \in Key /\ v.links \in Seq(Entity)
    BY <1>5, <1>8 DEF Ties, Key, TaskVal
  <2>2. Script(LinkRecord("about", t, v.links), {})
    BY <2>1, ScriptOfLinks
  <2>. QED
    BY <1>11, <2>2 DEF Script
<1>14. Plan(p \o q) /\ GroundedIn(c, p \o q)
  <2>1. \A i \in DOMAIN p : p[i].do # "put"
    BY <1>13 DEF Puts
  <2>2. p \in Seq(StepRec) /\ q \in Seq(StepRec)
    BY <1>12, <1>13 DEF Plan
  <2>. QED
    BY <1>12, <1>13, <2>1, <2>2, PlanJoined, GroundedBehind
<1>15. Advance(c, UpsertTask(t, v, how) \o (p \o q), {})
  <2>1. PICK w \in Seq(StepRec) : w = UpsertTask(t, v, how)
    BY <1>5, <1>8, <1>9, TaskUpsert
  <2>2. (w \o p) \o q = w \o (p \o q)
    <3>1. w \in Seq(StepRec) /\ p \in Seq(StepRec) /\ q \in Seq(StepRec)
      BY <1>12, <1>13 DEF Plan
    <3>. QED
      BY ONLY <3>1
  <2>. QED
    BY <1>4, <1>11, <2>1, <2>2
<1>. QED
  BY <1>4, <1>5, <1>8, <1>9, <1>10, <1>14, <1>15, LookUpKeeps

LEMMA ListSuggestionsKeeps ==
  ASSUME IInv, NEW c \in Slot, ListSuggestions(c)
  PROVE  IInv'
<1>1. PICK n \in 0..Cardinality(Suggested) : \E best \in Injection(1..n, Suggested) :
        Advance(c, Tail(todo[c]) \o
                     [i \in 1..n |-> Step("offer", best[i], row[best[i]].val.text)], {})
  BY DEF ListSuggestions
<1>2. PICK best \in Injection(1..n, Suggested) :
        Advance(c, Tail(todo[c]) \o
                     [i \in 1..n |-> Step("offer", best[i], row[best[i]].val.text)], {})
  BY <1>1
<1>3. /\ todo[c] # <<>> /\ Now(c).do = "suggest"
      /\ UNCHANGED <<row, rel, index, hint, newer, old, seen, up>> /\ UNCHANGED <<torn, cascaded>>
  BY DEF ListSuggestions, Doing, store, past
<1>4. PICK s \in Seq(StepRec) : s = todo[c] /\ s # <<>> /\ Now(c) = s[1]
  BY <1>3, NowTyped
<1>5. Reading(s)
  <2>1. Now(c).do \notin Writes \cup {"forget", "drop", "drop hint"}
    BY <1>3 DEF Writes
  <2>. QED
    BY <1>3, <1>4, <2>1, NowTyped
<1>6. PICK u \in Seq(StepRec) : u = Tail(s)
  BY <1>4, Tails
<1>7. PICK o : o = [i \in 1..n |-> Step("offer", best[i], row[best[i]].val.text)]
  OBVIOUS
<1>8. ASSUME NEW i \in 1..n
      PROVE  /\ o[i].do = "offer" /\ o[i] \in StepRec /\ Typed(o[i])
             /\ \A k : o[i].key = k => Fits(o[i], k)
  <2>1. PICK t : t = best[i]
    OBVIOUS
  <2>2. t \in Suggested
    BY <2>1 DEF Injection
  <2>3. t \in Task /\ t \in Key /\ row[t] # Absent
    BY <2>2 DEF Suggested, Listed, InWindow, TaskRows, Key
  <2>4. row[t].val \in TaskVal
    <3>1. StoreTyped
      BY Types DEF IInv
    <3>. QED
      BY <2>3, <3>1 DEF StoreTyped, ValOf
  <2>5. row[t].val.text \in Text
    BY <2>4 DEF TaskVal
  <2>6. o[i] = Step("offer", t, row[t].val.text)
    BY <1>7, <2>1
  <2>7. t \in Names /\ "offer" \in Steps /\ row[t].val.text \in Val \cup Text \cup Update
    BY <2>3, <2>5 DEF Names, Steps
  <2>8. o[i] \in StepRec
    BY <2>6, <2>7, StepTypes
  <2>9. o[i].do = "offer" /\ o[i].key = t /\ o[i].val = row[t].val.text
    BY <2>6 DEF Step
  <2>. QED
    BY <2>3, <2>5, <2>8, <2>9 DEF Typed, Fits
<1>9. n \in Nat
  BY <1>1
<1>10. o \in Seq(StepRec) /\ DOMAIN o = 1..n
  <2>1. o \in [1..n -> StepRec]
    BY <1>7, <1>8
  <2>. QED
    BY <1>9, <2>1
<1>11. PICK r : r = u \o o
  OBVIOUS
<1>12. Advance(c, r, {})
  BY <1>2, <1>4, <1>6, <1>7, <1>11
<1> HIDE <1>1, <1>2
<1>13. Reading(u)
  BY <1>4, <1>5, <1>6, ReadingTail
<1>14. \A i \in DOMAIN o : o[i].do = "offer" /\ Typed(o[i])
  BY <1>8, <1>10
<1>15. /\ r \in Seq(StepRec) /\ Reading(r)
       /\ \A i \in DOMAIN r : (i \in DOMAIN u /\ r[i] = u[i]) \/ (\E j \in DOMAIN o : r[i] = o[j])
       /\ \A i \in DOMAIN u : i \in DOMAIN r /\ r[i] = u[i]
  <2>1. /\ u \o o \in Seq(StepRec) /\ Reading(u \o o)
        /\ \A i \in DOMAIN (u \o o) : \/ i \in DOMAIN u /\ (u \o o)[i] = u[i]
                                     \/ \E j \in DOMAIN o : (u \o o)[i] = o[j]
        /\ \A i \in DOMAIN u : i \in DOMAIN (u \o o) /\ (u \o o)[i] = u[i]
    BY ONLY u \in Seq(StepRec), <1>10, <1>13, <1>14, OffersRead
  <2>. QED
    BY <1>11, <2>1
<1>16. Turn(c, r, {})
  <2>1. Watched({}) /\ \A d \in Slot \ {c} : seen'[d] = seen[d]
    BY <1>3, NothingWatched
  <2>. QED
    BY <1>3, <1>12, <1>15, <2>1 DEF Turn
<1>17. /\ todo'[c] = r /\ todo' = [todo EXCEPT ![c] = r]
       /\ r # <<>> => touched'[c] = touched[c]
  BY <1>16, Turned
<1>18. StoreTyped' /\ SeenTyped'
  <2>1. SeenTyped'
    BY <1>3, Types DEF IInv, SeenTyped
  <2>. QED
    BY <1>3, <2>1, Types, SameStore DEF IInv
<1>19. \A i \in DOMAIN r : r[i].do # "put"
  BY <1>15 DEF Reading, ReadSteps, Reads
<1>20. HeldBy(c)' /\ GroundedBy(c)'
  <2>1. r # <<>> => 1 \in DOMAIN r
    BY <1>15
  <2>2. HeldBy(c)'
    BY <1>15, <1>17, <1>19, <2>1, OpenHeld
  <2>. QED
    BY <1>17, <1>19, <2>2, UnputGrounded
<1>21. InStep'
  <2>1. todo \in [Slot -> Seq(StepRec)] /\ InStep
    BY DEF IInv, TypePart
  <2>2. ASSUME NEW k, NEW x \in Owed(r, k) PROVE x \in Owed(s, k) \/ Fits(x, k)
    <3>1. PICK i \in DOMAIN r : r[i] = x /\ x.do = "offer" /\ x.key = k
      BY <1>15, <2>2, OwedByReading
    <3>2. CASE i \in DOMAIN u /\ r[i] = u[i]
      <4>1. i + 1 \in DOMAIN s /\ u[i] = s[i + 1]
        BY <1>4, <1>6, <3>2, Tails
      <4>. QED
        BY <1>5, <3>1, <3>2, <4>1, OwedByReading
    <3>3. CASE \E j \in DOMAIN o : r[i] = o[j]
      BY <1>8, <1>10, <3>1, <3>3
    <3>. QED
      BY <1>15, <3>2, <3>3
  <2>3. ASSUME NEW k, NEW x \in Owed(s, k) PROVE x \in Owed(r, k)
    <3>1. PICK i \in DOMAIN s : s[i] = x /\ x.do = "offer" /\ x.key = k
      BY <1>5, <2>3, OwedByReading
    <3>2. i # 1
      BY <1>3, <1>4, <3>1
    <3>3. i - 1 \in DOMAIN u /\ (i - 1) + 1 = i
      BY <1>4, <1>6, <3>2, Tails
    <3>4. u[i - 1] = s[i]
      BY <1>4, <1>6, <3>3, Tails
    <3>5. i - 1 \in DOMAIN r /\ r[i - 1] = x
      BY <1>15, <3>1, <3>3, <3>4
    <3>. QED
      BY <1>15, <3>1, <3>5, OwedByReading
  <2>4. ASSUME NEW k \in Key \ torn PROVE Sound(k)'
    BY <1>3, <1>4, <1>17, <2>1, <2>2, <2>3, <2>4, QuietSound DEF InStep
  <2>. QED
    BY <1>3, <2>4 DEF InStep
<1>22. RecallsBy(c)'
  <2>1. CASE r = <<>>
    BY <1>17, <2>1 DEF RecallsBy, RecallsIn
  <2>2. CASE r # <<>>
    <3>1. touched'[c] = touched[c] /\ Now(c).do \notin Lists \cup {"query"}
      BY <1>3, <1>17, <2>2 DEF Lists
    <3>2. RecallsIn(c, u)'
      BY <1>3, <1>4, <1>5, <1>6, <3>1, TailRecalls
    <3>3. ASSUME NEW i \in DOMAIN r, Recalling(r[i])
          PROVE  i \in DOMAIN u /\ r[i] = u[i]
      BY <1>14, <1>15, <3>3 DEF Recalling
    <3>4. ASSUME NEW do \in {Lists, {"query"}}, NEW k
          PROVE  Pending(r, do, k) <=> Pending(u, do, k)
      <4>1. \A i \in DOMAIN o : o[i].do \notin do
        BY <1>14 DEF Lists
      <4>. QED
        BY <1>15, <4>1 DEF Pending
    <3>5. RecallsIn(c, r)'
      <4>1. /\ \A k : Pending(r, Lists, k) <=> Pending(u, Lists, k)
            /\ \A k : Pending(r, {"query"}, k) <=> Pending(u, {"query"}, k)
        BY <3>4
      <4> SUFFICES ASSUME NEW i \in DOMAIN r, Recalling(r[i]), NEW k \in Key \ touched'[c]
            PROVE  /\ k \in seen'[c].listed =>
                        ~Pending(r, Lists, KindOf(k)) /\ Wanted(k, r[i].how)'
                   /\ k \in seen'[c].fits => k \in seen'[c].listed
                   /\ KindOf(k) \notin seen'[c].cut /\ ~Pending(r, Lists, KindOf(k)) /\ Wanted(k, r[i].how)'
                        => /\ k \in seen'[c].listed
                           /\ ScopeOf(k)' \in InScope => k \in seen'[c].fits
                   /\ KindOf(k) \notin seen'[c].cut /\ ~Pending(r, {"query"}, KindOf(k)) /\ index'[k] # None
                        => k \in seen'[c].hits
        BY DEF RecallsIn, KindOf, Wanted, IsLive, Pending, ScopeOf
      <4>2. i \in DOMAIN u /\ r[i] = u[i]
        BY <3>3
      <4>3. /\ k \in seen'[c].listed =>
                 ~Pending(u, Lists, KindOf(k)) /\ Wanted(k, u[i].how)'
            /\ k \in seen'[c].fits => k \in seen'[c].listed
            /\ KindOf(k) \notin seen'[c].cut /\ ~Pending(u, Lists, KindOf(k)) /\ Wanted(k, u[i].how)'
                 => /\ k \in seen'[c].listed
                    /\ ScopeOf(k)' \in InScope => k \in seen'[c].fits
            /\ KindOf(k) \notin seen'[c].cut /\ ~Pending(u, {"query"}, KindOf(k)) /\ index'[k] # None
                 => k \in seen'[c].hits
        BY <3>2, <4>2 DEF RecallsIn, KindOf, Wanted, IsLive, Pending, ScopeOf
      <4>. QED
        BY <4>1, <4>2, <4>3
    <3>. QED
      BY <1>17, <3>5 DEF RecallsBy
  <2>. QED
    BY <2>1, <2>2
<1>23. seen'[c] # Nothing => \E i \in DOMAIN r : r[i].do = "answer"
  <2>1. SUFFICES ASSUME seen'[c] # Nothing PROVE \E i \in DOMAIN r : r[i].do = "answer"
    OBVIOUS
  <2>2. PICK i \in DOMAIN u : u[i].do = "answer"
    BY <1>3, <1>4, <1>6, <2>1, TailAnswers DEF Nothing
  <2>. QED
    BY <1>15, <2>2
<1>. QED
  BY <1>3, <1>16, <1>18, <1>20, <1>21, <1>22, <1>23, TurnKeeps

-----------------------------------------------------------------------------
(* Steps that write rows.                                                  *)

\* What a bump does to the order of the tasks.
LEMMA Bumped ==
  ASSUME StoreTyped, NEW K, K \cap Task \subseteq TaskRows \/ \E x : K \cap Task = {x}
  PROVE  /\ Ranks(Bump(K), TaskRows \cup (K \cap Task))
         /\ K \cap Task = {} => Bump(K) = newer
<1>1. Ranks(newer, TaskRows) /\ newer \subseteq TaskRows \X TaskRows /\ TaskRows \subseteq Task
  BY DEF StoreTyped, Ranks, TaskRows
<1>2. PICK L : L = K \cap Task
  OBVIOUS
<1>3. \A p \in newer : (p[2] \in K <=> p[2] \in L) /\ (p[1] \in K <=> p[1] \in L)
  <2>1. \A p \in newer : p[1] \in Task /\ p[2] \in Task
    BY <1>1
  <2>. QED
    BY <1>2, <2>1
<1>4. TaskRows \ K = TaskRows \ L
  BY <1>1, <1>2
<1>5. Bump(K) = {p \in newer : p[2] \in L => p[1] \in L} \cup (L \X (TaskRows \ L))
  <2>1. {p \in newer : p[2] \in K => p[1] \in K} = {p \in newer : p[2] \in L => p[1] \in L}
    BY <1>3
  <2>. QED
    BY <1>2, <1>4, <2>1 DEF Bump
<1>6. Ranks({p \in newer : p[2] \in L => p[1] \in L} \cup (L \X (TaskRows \ L)), TaskRows \cup L)
  <2>1. L \subseteq TaskRows \/ \E x : L = {x}
    BY <1>2
  <2>2. PICK o, S : o = newer /\ S = TaskRows
    OBVIOUS
  <2>3. Ranks(o, S) /\ (L \subseteq S \/ \E x : L = {x})
    BY <1>1, <2>1, <2>2
  <2>4. Ranks({p \in o : p[2] \in L => p[1] \in L} \cup (L \X (S \ L)), S \cup L)
    BY ONLY <2>3, BumpRanks
  <2>. QED
    BY <2>2, <2>4
<1>7. L = {} => Bump(K) = newer
  BY <1>5
<1>. QED
  BY <1>2, <1>5, <1>6, <1>7

LEMMA PutRowKeeps ==
  ASSUME IInv, NEW c \in Slot, PutRow(c)
  PROVE  IInv'
<1>1. PICK k, v : k = Now(c).key /\ v = Now(c).val
  OBVIOUS
<1>2. /\ todo[c] # <<>> /\ Now(c).do = "put" /\ Go(c, {k})
      /\ row' = [row EXCEPT ![k] = Live(v)] /\ newer' = Bump({k}) /\ old' = old \ {k}
      /\ torn' = (torn \ {k}) \cup ExposedTo(c, {k}) /\ cascaded' = cascaded \ {k}
      /\ UNCHANGED <<rel, index, hint, seen, up>>
  BY <1>1 DEF PutRow, Doing
<1>3. PICK s \in Seq(StepRec) : s = todo[c] /\ s # <<>> /\ Now(c) = s[1]
  BY <1>2, NowTyped
<1>4. Writing(s)
  <2>1. Now(c).do \notin Reads \cup {"forget", "drop", "drop hint"}
    BY <1>2 DEF Reads
  <2>. QED
    BY <1>2, <1>3, <2>1, NowTyped
<1>5. k \in Key /\ v \in ValOf(k) /\ v \in Val
  BY <1>1, <1>2, NowTyped DEF Typed, ValOf, Val
<1>6. StoreTyped
  BY Types DEF IInv
<1>7. /\ row' \in [Key -> [state : {"absent", "live", "archived"}, val : Val]]
      /\ row'[k] = Live(v) /\ \A j \in Key \ {k} : row'[j] = row[j]
  <2>1. Live(v) \in [state : {"absent", "live", "archived"}, val : Val]
    BY <1>5 DEF Live
  <2>. QED
    BY <1>2, <1>5, <1>6, <2>1 DEF StoreTyped
<1>8. row'[k].state = "live" /\ row'[k].val = v /\ row'[k] # Absent
  BY <1>7 DEF Live, Absent
<1>9. TaskRows' = TaskRows \cup ({k} \cap Task)
  BY <1>7, <1>8 DEF TaskRows, Key
<1>10. /\ Ranks(newer, TaskRows)' /\ ({k} \cap Task = {} => newer' = newer)
  <2>1. {k} \cap Task \subseteq TaskRows \/ \E x : {k} \cap Task = {x}
    OBVIOUS
  <2>2. /\ Ranks(Bump({k}), TaskRows \cup ({k} \cap Task))
        /\ {k} \cap Task = {} => Bump({k}) = newer
    BY <1>6, <2>1, Bumped
  <2>3. PICK o, S : o = newer' /\ S = TaskRows'
    OBVIOUS
  <2>4. Ranks(o, S)
    BY <1>2, <1>9, <2>2, <2>3
  <2>5. Ranks(newer, TaskRows)'
    BY <2>3, <2>4 DEF Ranks
  <2>. QED
    BY <1>2, <2>2, <2>5
<1>11. StoreTyped'
  <2>1. ASSUME NEW j \in Key
        PROVE  \/ row'[j] = Absent
               \/ row'[j].state \in {"live", "archived"} /\ row'[j].val \in ValOf(j)
    <3>1. CASE j = k
      BY <1>5, <1>8, <3>1
    <3>2. CASE j # k
      BY <1>6, <1>7, <3>2 DEF StoreTyped
    <3>. QED
      BY <3>1, <3>2
  <2>2. old' \subseteq TaskRows'
    BY <1>2, <1>6, <1>9 DEF StoreTyped
  <2>. QED
    BY <1>2, <1>6, <1>7, <1>10, <2>1, <2>2 DEF StoreTyped
<1>12. Watched({k}) /\ {k} \in SUBSET Key
  BY <1>2, <1>5, <1>7, <1>10 DEF Watched
<1>13. PICK t \in Seq(StepRec) : t = Tail(s)
  BY <1>3, Tails
<1>14. todo' = [todo EXCEPT ![c] = t] /\ todo'[c] = t
  BY <1>2, <1>3, <1>13 DEF Go, Advance, IInv, TypePart
<1>15. todo \in [Slot -> Seq(StepRec)] /\ InStep
  BY DEF IInv, TypePart
<1>16. ASSUME NEW j \in Key \ torn', j # k PROVE Sound(j)'
  <2>1. Sound(j)
    BY <1>2, <1>15, <1>16 DEF InStep
  <2>2. Owed(s, j) = Owed(t, j)
    <3>1. s[1].do = "put" /\ s[1].key = k /\ s[1].do \notin Projects
      BY <1>1, <1>2, <1>3 DEF Projects
    <3>. QED
      BY <1>3, <1>13, <1>16, <3>1, OwedTail
  <2>3. row'[j] = row[j] /\ (j \in cascaded => j \in cascaded')
    BY <1>2, <1>7, <1>16
  <2>. QED
    BY <1>2, <1>3, <1>14, <1>15, <2>1, <2>2, <2>3, QuietSound
<1>17. ASSUME k \notin torn' PROVE Sound(k)'
  <2>1. \A d \in Slot \ {c} : Owed(todo[d], k) = {}
    BY <1>2, <1>5, <1>17 DEF ExposedTo, Exposed
  <2>2. /\ \A x \in Owed(t, k) : \/ x.do = "index" /\ x.val = v
                                 \/ k \in Task /\ x.do = "hint" /\ x.val = v.text
        /\ \E x \in Owed(t, k) : x.do = "index"
        /\ k \in Task => \E x \in Owed(t, k) : x.do = "hint"
    <3>1. s[1].do = "put" /\ s[1].key = k /\ s[1].val = v
      BY <1>1, <1>2, <1>3
    <3>. QED
      BY <1>3, <1>4, <1>13, <3>1, OwedAfterPut
  <2>3. \A d \in Slot : (d = c => todo'[d] = t) /\ (d # c => Owed(todo'[d], k) = {})
    BY <1>14, <1>15, <2>1
  <2>4. \A d \in Slot : \A x \in Owed(todo'[d], k) : Fits(x, k)'
    <3> TAKE d \in Slot
    <3> TAKE x \in Owed(todo'[d], k)
    <3>1. x \in Owed(t, k)
      BY <2>3
    <3>. QED
      BY <1>8, <2>2, <3>1 DEF Fits
  <2>5. \E x \in Owed(todo'[c], k) : x.do \in {"index", "drop"}
    BY <1>14, <2>2
  <2>6. k \in Task => \E x \in Owed(todo'[c], k) : x.do \in {"hint", "drop hint"}
    BY <1>14, <2>2
  <2>. QED
    BY <2>4, <2>5, <2>6 DEF Sound, Fits
<1>18. InStep'
  <2>1. ASSUME NEW j \in Key \ torn' PROVE Sound(j)'
    <3>1. CASE j = k
      BY <1>17, <2>1, <3>1
    <3>2. CASE j # k
      BY <1>16, <2>1, <3>2
    <3>. QED
      BY <3>1, <3>2
  <2>. QED
    BY <2>1 DEF InStep
<1>19. RecallsBy(c)'
  <2>1. Writing(t)
    BY <1>3, <1>4, <1>13, WritingTail
  <2>. QED
    BY <1>14, <2>1, UnaskedRecalls
<1>20. SeenTyped'
  BY <1>2, Types DEF IInv, SeenTyped
<1>21. \A e \in Entity : IsLive(e) => IsLive(e)'
  BY <1>7, <1>8 DEF IsLive, Key
<1>22. seen'[c] # Nothing => \E i \in DOMAIN Tail(todo[c]) : Tail(todo[c])[i].do = "answer"
  BY <1>2, TailAnswers
<1>23. row'[Now(c).key].state = "live" /\ \A d \in Slot \ {c} : seen'[d] = seen[d]
  BY <1>1, <1>2, <1>8
<1>. QED
  BY <1>2, <1>11, <1>12, <1>18, <1>19, <1>20, <1>21, <1>22, <1>23, GoKeeps

-----------------------------------------------------------------------------
(* Forgetting.                                                             *)

RowTyped(j) == \/ row[j] = Absent
               \/ row[j].state \in {"live", "archived"} /\ row[j].val \in ValOf(j)

LEMMA RowsArchived ==
  ASSUME StoreTyped, NEW K \in SUBSET Key, row' = InState(K, "archived")
  PROVE  /\ row' \in [Key -> [state : {"absent", "live", "archived"}, val : Val]]
         /\ \A j \in Key : /\ RowTyped(j)' /\ row'[j].val = row[j].val
                           /\ row'[j] = Absent <=> row[j] = Absent
                           /\ j \notin K => row'[j] = row[j]
         /\ TaskRows' = TaskRows
<1>1. ASSUME NEW j \in Key
      PROVE  /\ row'[j] \in [state : {"absent", "live", "archived"}, val : Val]
             /\ RowTyped(j)' /\ row'[j].val = row[j].val
             /\ row'[j] = Absent <=> row[j] = Absent
             /\ j \notin K => row'[j] = row[j]
  <2>1. row[j] \in [state : {"absent", "live", "archived"}, val : Val] /\ RowTyped(j)
    BY DEF StoreTyped, RowTyped
  <2>2. row'[j] = IF j \in K /\ row[j].state # "absent" THEN [row[j] EXCEPT !.state = "archived"]
                  ELSE row[j]
    BY DEF InState
  <2>3. CASE j \in K /\ row[j].state # "absent"
    <3>1. row'[j] = [state |-> "archived", val |-> row[j].val] /\ row[j] # Absent
      BY <2>1, <2>2, <2>3 DEF Absent
    <3>2. row'[j] # Absent /\ row'[j].state = "archived" /\ row'[j].val = row[j].val
      BY <3>1 DEF Absent
    <3>. QED
      BY <2>1, <2>3, <3>1, <3>2 DEF RowTyped
  <2>4. CASE ~(j \in K /\ row[j].state # "absent")
    BY <2>1, <2>2, <2>4 DEF RowTyped
  <2>. QED
    BY <2>3, <2>4
<1>2. row' \in [Key -> [state : {"absent", "live", "archived"}, val : Val]]
  BY <1>1 DEF InState
<1>3. TaskRows' = TaskRows
  BY <1>1 DEF TaskRows, Key
<1>. QED
  BY <1>1, <1>2, <1>3

LEMMA RowsDeleted ==
  ASSUME StoreTyped, NEW K \in SUBSET Key, row' = Without(K)
  PROVE  /\ row' \in [Key -> [state : {"absent", "live", "archived"}, val : Val]]
         /\ \A j \in Key : /\ RowTyped(j)'
                           /\ j \in K => row'[j] = Absent
                           /\ j \notin K => row'[j] = row[j]
         /\ TaskRows' = TaskRows \ K
<1>1. ASSUME NEW j \in Key
      PROVE  /\ row'[j] \in [state : {"absent", "live", "archived"}, val : Val]
             /\ RowTyped(j)'
             /\ j \in K => row'[j] = Absent
             /\ j \notin K => row'[j] = row[j]
  <2>1. row[j] \in [state : {"absent", "live", "archived"}, val : Val] /\ RowTyped(j)
    BY DEF StoreTyped, RowTyped
  <2>2. row'[j] = IF j \in K THEN Absent ELSE row[j]
    BY DEF Without
  <2>3. Absent \in [state : {"absent", "live", "archived"}, val : Val]
    BY NoneTypes DEF Absent
  <2>. QED
    BY <2>1, <2>2, <2>3 DEF RowTyped
<1>2. row' \in [Key -> [state : {"absent", "live", "archived"}, val : Val]]
  BY <1>1 DEF Without
<1>3. TaskRows' = TaskRows \ K
  BY <1>1 DEF TaskRows, Key
<1>. QED
  BY <1>1, <1>2, <1>3

LEMMA Unlisted ==
  ASSUME StoreTyped, NEW K
  PROVE  /\ Ranks(Unlist(K), TaskRows \ K)
         /\ K \cap TaskRows = {} => Unlist(K) = newer
<1>1. Ranks(newer, TaskRows) /\ newer \subseteq TaskRows \X TaskRows
  BY DEF StoreTyped, Ranks
<1>2. PICK o, S : o = newer /\ S = TaskRows
  OBVIOUS
<1>3. Ranks({p \in o : p[1] \notin K /\ p[2] \notin K}, S \ K)
  BY <1>1, <1>2, UnlistRanks
<1>4. ASSUME K \cap TaskRows = {} PROVE Unlist(K) = newer
  <2>1. \A p \in newer : p[1] \notin K /\ p[2] \notin K
    BY <1>1, <1>4
  <2>. QED
    BY <2>1 DEF Unlist
<1>. QED
  BY <1>2, <1>3, <1>4 DEF Unlist

LEMMA RanksNow ==
  ASSUME NEW o, NEW S, Ranks(o, S), newer' = o, TaskRows' = S
  PROVE  Ranks(newer, TaskRows)'
BY DEF Ranks

LEMMA StoreForgotten ==
  ASSUME StoreTyped, row' \in [Key -> [state : {"absent", "live", "archived"}, val : Val]],
         \A j \in Key : RowTyped(j)', rel'.live \cap rel'.archived = {},
         Ranks(newer, TaskRows)', old' \subseteq TaskRows', UNCHANGED <<index, hint>>
  PROVE  StoreTyped'
BY DEF StoreTyped, RowTyped

\* A forget goes on with its projections, or ends.
LEMMA ForgetKeeps ==
  ASSUME IInv, NEW c \in Slot, todo[c] # <<>>, Forgetting(todo[c]),
         NEW t \in Seq(StepRec), Forgetting(t), NEW K \in SUBSET Key, Advance(c, t, K), Watched(K),
         UNCHANGED <<seen, up>>, StoreTyped', InStep'
  PROVE  IInv'
<1>1. Turn(c, t, K)
  BY DEF Turn
<1>2. todo'[c] = t
  BY <1>1, Turned
<1>3. \A i \in DOMAIN t : t[i].do \notin {"put", "answer"}
  BY DEF Forgetting
<1>4. HeldBy(c)'
  <2>1. t # <<>> => 1 \in DOMAIN t
    OBVIOUS
  <2>. QED
    BY <1>2, <1>3, <2>1, OpenHeld
<1>5. GroundedBy(c)'
  BY <1>2, <1>3, UnputGrounded
<1>6. RecallsBy(c)'
  BY <1>2, UnaskedRecalls
<1>7. seen'[c] = Nothing
  <2>1. \A i \in DOMAIN todo[c] : todo[c][i].do # "answer"
    BY DEF Forgetting
  <2>. QED
    BY <2>1 DEF IInv, Sessions
<1>8. SeenTyped'
  BY Types DEF IInv, SeenTyped
<1>. QED
  BY <1>1, <1>4, <1>5, <1>6, <1>7, <1>8, TurnKeeps

\* A forget that comes to its rows owes nothing yet.
LEMMA ForgetStarts ==
  ASSUME IInv, NEW c \in Slot, todo[c] # <<>>, Now(c).do = "forget"
  PROVE  /\ todo[c] \in Seq(StepRec) /\ Forgetting(todo[c]) /\ Now(c) = todo[c][1]
         /\ \A j : Owed(todo[c], j) = {}
         /\ Forgetting(Tail(todo[c])) /\ Tail(todo[c]) \in Seq(StepRec)
         /\ todo \in [Slot -> Seq(StepRec)] /\ InStep /\ StoreTyped
<1>1. PICK s \in Seq(StepRec) : s = todo[c] /\ s # <<>> /\ Now(c) = s[1]
  BY NowTyped
<1>2. Forgetting(s)
  <2>1. Now(c).do \notin Reads \cup Writes
    BY DEF Reads, Writes
  <2>. QED
    BY <1>1, <2>1, NowTyped
<1>3. ASSUME NEW j PROVE Owed(s, j) = {}
  <2>1. s[1].do = "forget"
    BY <1>1
  <2>2. /\ s[1].key # j => Owed(s, j) = {}
        /\ s[1].do = "forget" /\ s[1].key = j => Owed(s, j) = {}
    BY ONLY <1>1, <1>2, OwedByForget
  <2>. QED
    BY <2>1, <2>2
<1>4. Forgetting(Tail(s)) /\ Tail(s) \in Seq(StepRec)
  BY <1>1, <1>2, ForgettingTail, Tails
<1>5. todo \in [Slot -> Seq(StepRec)] /\ InStep /\ StoreTyped
  BY Types DEF IInv, TypePart
<1>. QED
  BY <1>1, <1>2, <1>3, <1>4, <1>5

\* Of a row that is gone, and that no other call owes a projection.
LEMMA GoneSound ==
  ASSUME NEW c \in Slot, NEW t, NEW k, todo' = [todo EXCEPT ![c] = t],
         todo \in [Slot -> Seq(StepRec)], row'[k] = Absent,
         \A d \in Slot \ {c} : Owed(todo[d], k) = {},
         \A x \in Owed(t, k) : x.do \in {"drop", "drop hint"},
         \/ index'[k] = None \/ k \in cascaded' \/ \E x \in Owed(t, k) : x.do = "drop",
         k \in Task => \E x \in Owed(t, k) : x.do = "drop hint"
  PROVE  Sound(k)'
<1>1. \A d \in Slot : (d = c => todo'[d] = t) /\ (d # c => Owed(todo'[d], k) = {})
  OBVIOUS
<1>2. \A d \in Slot : \A x \in Owed(todo'[d], k) : Fits(x, k)'
  <2> TAKE d \in Slot
  <2> TAKE x \in Owed(todo'[d], k)
  <2>1. x \in Owed(t, k)
    BY <1>1
  <2>. QED
    BY <2>1 DEF Fits
<1>3. todo'[c] = t /\ row'[k].val = None
  <2>1. todo'[c] = t
    BY <1>1
  <2>2. row'[k].val = None
    <3>1. Absent.val = None
      BY DEF Absent
    <3>. QED
      BY <3>1
  <2>. QED
    BY <2>1, <2>2
<1>. QED
  BY <1>2, <1>3 DEF Sound, Fits

LEMMA AlongIs ==
  ASSUME NEW n, NEW k
  PROVE  /\ Along(n, k) \in SUBSET Key /\ Along(n, k) \cap Task \subseteq {k}
         /\ Along(n, k) \ {k} \subseteq Fact
         /\ {k} \cap OfKind(n) \subseteq Along(n, k)
         /\ n = "entity" => /\ Along(n, k) \cap Task = {}
                            /\ Along(n, k) \ ({k} \cap OfKind(n)) \subseteq Fact
         /\ n = "task" => {k} \cap OfKind(n) \subseteq Task
BY BrainAssumption DEF Along, FactsOf, OfKind, Key

\* A forget of the archive mode.
LEMMA ArchivingKeeps ==
  ASSUME IInv, NEW c \in Slot, todo[c] # <<>>, Now(c).do = "forget",
         NEW A \in SUBSET Key, row' = InState(A, "archived"),
         newer' = newer \/ \E k \in TaskRows : newer' = Bump({k}) /\ k \in A,
         rel'.live \cap rel'.archived = {}, old' \subseteq old,
         UNCHANGED <<index, hint, seen, up, torn, cascaded>>,
         NEW K \in SUBSET Key, \A j \in A : row'[j] # row[j] => j \in K,
         newer' # newer => K \cap Task # {},
         Advance(c, <<>>, K)
  PROVE  IInv'
<1>1. /\ Forgetting(todo[c]) /\ todo \in [Slot -> Seq(StepRec)] /\ InStep /\ StoreTyped
      /\ \A j : Owed(todo[c], j) = {}
  BY ForgetStarts
<1>2. /\ row' \in [Key -> [state : {"absent", "live", "archived"}, val : Val]]
      /\ \A j \in Key : /\ RowTyped(j)' /\ row'[j].val = row[j].val
                        /\ row'[j] = Absent <=> row[j] = Absent
                        /\ j \notin A => row'[j] = row[j]
      /\ TaskRows' = TaskRows
  BY <1>1, RowsArchived
<1>3. Ranks(newer, TaskRows)'
  <2>1. Ranks(newer, TaskRows) /\ TaskRows \subseteq Task
    BY <1>1 DEF StoreTyped, TaskRows
  <2>3. ASSUME NEW k \in TaskRows PROVE Ranks(Bump({k}), TaskRows)
    <3>1. {k} \cap Task \subseteq TaskRows /\ TaskRows \cup ({k} \cap Task) = TaskRows
      OBVIOUS
    <3>2. Ranks(Bump({k}), TaskRows \cup ({k} \cap Task))
      BY <1>1, <3>1, Bumped
    <3>. QED
      BY <3>1, <3>2
  <2>4. PICK o : o = newer'
    OBVIOUS
  <2>5. Ranks(o, TaskRows)
    BY <2>1, <2>3, <2>4
  <2>. QED
    BY <1>2, <2>4, <2>5, RanksNow
<1>4. StoreTyped'
  <2>1. old' \subseteq TaskRows'
    BY <1>1, <1>2 DEF StoreTyped
  <2>. QED
    BY <1>1, <1>2, <1>3, <2>1, StoreForgotten
<1>5. Watched(K)
  BY <1>2 DEF Watched
<1>6. Forgetting(<<>>) /\ <<>> \in Seq(StepRec)
  BY DEF Forgetting
<1>7. InStep'
  <2>1. todo' = [todo EXCEPT ![c] = <<>>]
    BY DEF Advance
  <2>2. \A j : Owed(<<>>, j) = {}
    BY DEF Owed
  <2>3. ASSUME NEW j \in Key \ torn PROVE Sound(j)'
    BY <1>1, <1>2, <2>1, <2>2, <2>3, QuietSound DEF InStep
  <2>. QED
    BY <2>3 DEF InStep
<1>. QED
  BY <1>1, <1>4, <1>5, <1>6, <1>7, ForgetKeeps

\* What a forget that goes on with the steps t owes to a record it has deleted, and to
\* another: nothing, unless that is what it named and there was no such row.
Dropping(t, j) ==
  /\ \A x \in Owed(t, j) : x.do \in {"drop", "drop hint"}
  /\ \/ index[j] = None \/ j \in cascaded' \/ \E x \in Owed(t, j) : x.do = "drop"
  /\ j \in Task => \E x \in Owed(t, j) : x.do = "drop hint"
Missed(t, j) ==
  /\ row[j] = Absent
  /\ \A x \in Owed(t, j) : x.do \in {"drop", "drop hint"}
  /\ \E x \in Owed(t, j) : x.do = "drop"
  /\ j \in Task => \E x \in Owed(t, j) : x.do = "drop hint"
Apart(t, j) == Missed(t, j) \/ (Owed(t, j) = {} /\ (j \in cascaded => j \in cascaded'))

LEMMA MissedSound ==
  ASSUME NEW c \in Slot, NEW t, NEW k, todo' = [todo EXCEPT ![c] = t],
         todo \in [Slot -> Seq(StepRec)], row'[k] = row[k], Sound(k), Missed(t, k)
  PROVE  Sound(k)'
<1>1. \A d \in Slot : (d = c => todo'[d] = t) /\ (d # c => todo'[d] = todo[d])
  OBVIOUS
<1>2. \A d \in Slot : \A x \in Owed(todo'[d], k) : Fits(x, k)'
  <2> TAKE d \in Slot
  <2> TAKE x \in Owed(todo'[d], k)
  <2>1. CASE d = c
    <3>1. x \in Owed(t, k)
      BY <1>1, <2>1
    <3>. QED
      BY <3>1 DEF Fits, Missed
  <2>2. CASE d # c
    <3>1. x \in Owed(todo[d], k)
      BY <1>1, <2>2
    <3>2. Fits(x, k)
      BY <3>1 DEF Sound
    <3>. QED
      BY <3>2 DEF Fits
  <2>. QED
    BY <2>1, <2>2
<1>. QED
  BY <1>1, <1>2 DEF Sound, Missed

\* A forget of the other mode, and the records it leaves without their projections.
LEMMA DeletingKeeps ==
  ASSUME IInv, NEW c \in Slot, todo[c] # <<>>, Now(c).do = "forget",
         NEW A \in SUBSET Key, row' = Without(A), newer' = Unlist(A \cap Task),
         rel'.live \cap rel'.archived = {}, old' \subseteq old \ (A \cap Task),
         UNCHANGED <<index, hint, seen, up>>, torn \cup ExposedTo(c, A) \subseteq torn',
         NEW K \in SUBSET Key, \A j \in A : row'[j] # row[j] => j \in K,
         NEW t, Forgetting(t), t \in Seq(StepRec), Advance(c, t, K),
         \A j \in Key \ (A \cup torn') : Apart(t, j), \A j \in A \ torn' : Dropping(t, j)
  PROVE  IInv'
<1>1. /\ Forgetting(todo[c]) /\ todo \in [Slot -> Seq(StepRec)] /\ InStep /\ StoreTyped
      /\ \A j : Owed(todo[c], j) = {}
  BY ForgetStarts
<1>2. /\ row' \in [Key -> [state : {"absent", "live", "archived"}, val : Val]]
      /\ \A j \in Key : /\ RowTyped(j)'
                        /\ j \in A => row'[j] = Absent
                        /\ j \notin A => row'[j] = row[j]
      /\ TaskRows' = TaskRows \ A
  BY <1>1, RowsDeleted
<1>3. /\ Ranks(newer, TaskRows)'
      /\ A \cap TaskRows = {} => newer' = newer
  <2>1. TaskRows \ (A \cap Task) = TaskRows \ A /\ (A \cap Task) \cap TaskRows = A \cap TaskRows
    BY DEF TaskRows
  <2>2. PICK L : L = A \cap Task
    OBVIOUS
  <2>3. /\ Ranks(Unlist(L), TaskRows \ L)
        /\ L \cap TaskRows = {} => Unlist(L) = newer
    BY <1>1, Unlisted
  <2>4. PICK o, S : o = Unlist(L) /\ S = TaskRows \ L
    OBVIOUS
  <2>5. Ranks(o, S) /\ newer' = o /\ TaskRows' = S
    BY <1>2, <2>1, <2>2, <2>3, <2>4
  <2>6. Ranks(newer, TaskRows)'
    BY <2>5, RanksNow
  <2>. QED
    BY <2>1, <2>2, <2>3, <2>6
<1>4. StoreTyped'
  <2>1. old' \subseteq TaskRows'
    BY <1>1, <1>2 DEF StoreTyped, TaskRows
  <2>. QED
    BY <1>1, <1>2, <1>3, <2>1, StoreForgotten
<1>5. Watched(K)
  <2>1. \A j \in Key \ K : row'[j] = row[j] /\ index'[j] = index[j]
    BY <1>2
  <2>2. ASSUME K \cap Task = {} PROVE A \cap TaskRows = {}
    <3>1. SUFFICES ASSUME NEW j \in A, j \in TaskRows PROVE FALSE
      OBVIOUS
    <3>2. j \in Task /\ row[j] # Absent /\ row'[j] = Absent
      BY <1>2, <3>1 DEF TaskRows
    <3>. QED
      BY <2>2, <3>1, <3>2
  <2>. QED
    BY <1>3, <2>1, <2>2 DEF Watched
<1>6. InStep'
  <2>1. todo' = [todo EXCEPT ![c] = t]
    BY DEF Advance
  <2>2. ASSUME NEW j \in Key \ torn', j \notin A PROVE Sound(j)'
    <3>1. Sound(j) /\ row'[j] = row[j] /\ Apart(t, j)
      BY <1>1, <1>2, <2>2 DEF InStep
    <3>2. CASE Missed(t, j)
      BY <1>1, <2>1, <3>1, <3>2, MissedSound
    <3>3. CASE Owed(t, j) = {} /\ (j \in cascaded => j \in cascaded')
      BY <1>1, <2>1, <3>1, <3>3, QuietSound
    <3>. QED
      BY <3>1, <3>2, <3>3 DEF Apart
  <2>3. ASSUME NEW j \in Key \ torn', j \in A PROVE Sound(j)'
    <3>1. \A d \in Slot \ {c} : Owed(todo[d], j) = {}
      BY <2>3 DEF ExposedTo, Exposed
    <3>2. row'[j] = Absent
      BY <1>2, <2>3
    <3>3. /\ \A x \in Owed(t, j) : x.do \in {"drop", "drop hint"}
          /\ \/ index'[j] = None \/ j \in cascaded' \/ \E x \in Owed(t, j) : x.do = "drop"
          /\ j \in Task => \E x \in Owed(t, j) : x.do = "drop hint"
      BY <2>3 DEF Dropping
    <3>. QED
      BY <1>1, <2>1, <3>1, <3>2, <3>3, GoneSound
  <2>4. ASSUME NEW j \in Key \ torn' PROVE Sound(j)'
    BY <2>2, <2>3, <2>4
  <2>. QED
    BY <2>4 DEF InStep
<1>. QED
  BY <1>1, <1>4, <1>5, <1>6, ForgetKeeps

LEMMA OwedAfterForget ==
  ASSUME NEW s \in Seq(StepRec), Forgetting(s), s # <<>>, NEW k,
         s[1].do = "forget", s[1].key = k, s[1].how # "archive"
  PROVE  /\ \A x \in Owed(Tail(s), k) : x.do \in {"drop", "drop hint"}
         /\ k \in Key => \E x \in Owed(Tail(s), k) : x.do = "drop"
         /\ k \in Task => \E x \in Owed(Tail(s), k) : x.do = "drop hint"
<1>1. \A x \in Owed(Tail(s), k) : x.do \in {"drop", "drop hint"}
  BY OwedByForget
<1>2. k \in Key => \E x \in Owed(Tail(s), k) : x.do = "drop"
  BY OwedByForget
<1>3. k \in Task => \E x \in Owed(Tail(s), k) : x.do = "drop hint"
  BY OwedByForget
<1>. QED
  BY <1>1, <1>2, <1>3

LEMMA ForgetRowsKeeps ==
  ASSUME IInv, NEW c \in Slot, ForgetRows(c)
  PROVE  IInv'
<1>1. PICK n, k, how, A : /\ n = Now(c).val.kind /\ k = Now(c).key /\ how = Now(c).how
                          /\ A = Along(n, k)
  OBVIOUS
<1>2. PICK K : K = {j \in A : row'[j] # row[j]} \cup (A \cap TaskRows)
  OBVIOUS
<1>3. /\ todo[c] # <<>> /\ Now(c).do = "forget" /\ Go(c, K)
      /\ IF how = "archive" THEN Archive(n, k) ELSE Delete(n, k)
      /\ old' = old \ A
      /\ torn' = IF how = "archive" THEN torn ELSE torn \cup ExposedTo(c, A) \cup Stripped(n, k)
      /\ UNCHANGED <<index, hint, seen, up>>
  BY <1>1, <1>2 DEF ForgetRows, Doing
<1>4. PICK s \in Seq(StepRec) : /\ s = todo[c] /\ s # <<>> /\ Now(c) = s[1] /\ Forgetting(s)
                               /\ Forgetting(Tail(s)) /\ StoreTyped
  BY <1>3, ForgetStarts
<1>5. PICK t \in Seq(StepRec) : t = Tail(s) /\ Forgetting(t) /\ Advance(c, t, K)
  BY <1>3, <1>4, Tails DEF Go
<1>6. A \in SUBSET Key /\ A \cap Task \subseteq {k} /\ A \ {k} \subseteq Fact
  BY <1>1, AlongIs
<1>7. K \in SUBSET Key /\ \A j \in A : row'[j] # row[j] => j \in K
  BY <1>2, <1>6 DEF TaskRows, Key
<1>8. rel.live \cap rel.archived = {} /\ newer \subseteq TaskRows \X TaskRows /\ TaskRows \subseteq Task
  BY <1>4 DEF StoreTyped, Ranks, TaskRows
<1>9. CASE how = "archive"
  <2>1. /\ row' = InState(A, "archived") /\ newer' = Bump(A \cap TaskRows) /\ cascaded' = cascaded
        /\ \E R : rel' = HideRelations(R)
        /\ torn' = torn /\ old' \subseteq old
    BY <1>1, <1>3, <1>9 DEF Archive
  <2>2. rel'.live \cap rel'.archived = {}
    BY <1>8, <2>1 DEF HideRelations
  <2>3. /\ newer' = newer \/ \E j \in TaskRows : newer' = Bump({j}) /\ j \in A
        /\ newer' # newer => K \cap Task # {}
    <3>1. CASE k \in A \cap TaskRows
      <4>1. A \cap TaskRows = {k} /\ k \in K /\ k \in Task
        BY <1>2, <1>6, <3>1 DEF TaskRows
      <4>. QED
        BY <2>1, <3>1, <4>1
    <3>2. CASE k \notin A \cap TaskRows
      <4>1. A \cap TaskRows = {}
        BY <1>6, <1>8, <3>2
      <4>2. Bump({}) = newer
        BY DEF Bump
      <4>. QED
        BY <2>1, <4>1, <4>2
    <3>. QED
      BY <3>1, <3>2
  <2>4. t = <<>>
    <3>1. s[1].do = "forget" /\ s[1].how = "archive"
      BY <1>1, <1>3, <1>4, <1>9
    <3>. QED
      BY <1>4, <1>5, <3>1, OwedByForget
  <2>. QED
    BY <1>3, <1>5, <1>6, <1>7, <2>1, <2>2, <2>3, <2>4, ArchivingKeeps
<1>10. CASE how # "archive"
  <2>1. /\ row' = Without(A) /\ newer' = Unlist(A)
        /\ \E R : rel' = DropRelations(R)
        /\ cascaded' = (cascaded \cup {f \in A \ {k} : index[f] # None}) \ {k}
        /\ torn' = torn \cup ExposedTo(c, A) \cup Stripped(n, k)
    BY <1>1, <1>3, <1>10 DEF Delete
  <2>2. rel'.live \cap rel'.archived = {}
    BY <1>8, <2>1 DEF DropRelations
  <2>4. newer' = Unlist(A \cap Task)
    <3>1. \A p \in newer : p[1] \in Task /\ p[2] \in Task
      BY <1>8
    <3>2. Unlist(A \cap Task) = Unlist(A)
      BY <3>1 DEF Unlist
    <3>. QED
      BY <2>1, <3>2
  <2>5. old' \subseteq old \ (A \cap Task)
    BY <1>3
  <2>6. s[1].do = "forget" /\ s[1].key = k /\ s[1].how # "archive"
    BY <1>1, <1>3, <1>4, <1>10
  <2>7. ASSUME NEW j \in Key, j # k
        PROVE  Owed(t, j) = {}
    BY <1>4, <1>5, <2>6, <2>7, OwedByForget
  <2>8. /\ \A x \in Owed(t, k) : x.do \in {"drop", "drop hint"}
        /\ k \in Key => \E x \in Owed(t, k) : x.do = "drop"
        /\ k \in Task => \E x \in Owed(t, k) : x.do = "drop hint"
    <3>1. /\ \A x \in Owed(Tail(s), k) : x.do \in {"drop", "drop hint"}
          /\ k \in Key => \E x \in Owed(Tail(s), k) : x.do = "drop"
          /\ k \in Task => \E x \in Owed(Tail(s), k) : x.do = "drop hint"
      BY <1>4, <2>6, OwedAfterForget
    <3>. QED
      BY <1>5, <3>1
  <2>9. ASSUME NEW j \in Key \ (A \cup torn')
        PROVE  Apart(t, j)
    <3>1. CASE j # k
      BY <2>1, <2>7, <3>1 DEF Apart
    <3>2. CASE j = k
      <4>1. row[j] = Absent
        BY <1>1, <2>1, <2>9, <3>2 DEF Stripped
      <4>. QED
        BY <2>8, <3>2, <4>1 DEF Apart, Missed
    <3>. QED
      BY <3>1, <3>2
  <2>10. ASSUME NEW j \in A \ torn'
         PROVE  Dropping(t, j)
    <3>1. CASE j = k
      BY <1>6, <2>8, <3>1 DEF Dropping
    <3>2. CASE j # k
      <4>1. Owed(t, j) = {} /\ j \notin Task
        BY <1>6, <2>7, <3>2
      <4>2. index[j] = None \/ j \in cascaded'
        BY <2>1, <3>2
      <4>. QED
        BY <4>1, <4>2 DEF Dropping
    <3>. QED
      BY <3>1, <3>2
  <2>11. /\ todo[c] # <<>> /\ Now(c).do = "forget" /\ UNCHANGED <<index, hint, seen, up>>
         /\ torn \cup ExposedTo(c, A) \subseteq torn' /\ A \in SUBSET Key /\ row' = Without(A)
    BY <1>3, <1>6, <2>1
  <2>. QED
    BY <1>5, <1>7, <2>2, <2>4, <2>5, <2>9, <2>10, <2>11, DeletingKeeps
<1>. QED
  BY <1>9, <1>10

LEMMA ForgetCutKeeps ==
  ASSUME IInv, NEW c \in Slot, ForgetCut(c)
  PROVE  IInv'
<1>1. PICK n, k, how, m : /\ n = Now(c).val.kind /\ k = Now(c).key /\ how = Now(c).how
                          /\ m = {k} \cap OfKind(n)
  OBVIOUS
<1>2. PICK A \in CASE n = "entity" /\ how = "archive"    -> {m, Along(n, k)}
                   [] n = "entity" /\ ~(how = "archive") -> {Along(n, k) \ m}
                   [] n = "task" /\ ~(how = "archive")   -> {m}
                   [] OTHER -> {} :
        /\ row' = IF how = "archive" THEN InState(A, "archived") ELSE Without(A)
        /\ rel' \in IF n = "entity" /\ ~(how = "archive") THEN {rel, DropRelations(Touching(k))}
                   ELSE {rel}
        /\ newer' = Unlist(A) /\ old' = old \ A
        /\ cascaded' = IF how = "archive" THEN cascaded
                       ELSE cascaded \cup {f \in A \cap Fact : index[f] # None}
        /\ torn' = IF how = "archive" THEN torn ELSE torn \cup (A \cap Task) \cup ExposedTo(c, A)
        /\ Advance(c, <<>>, {j \in A : row'[j] # row[j]})
  BY <1>1 DEF ForgetCut
<1>3. PICK K : K = {j \in A : row'[j] # row[j]}
  OBVIOUS
<1>4. /\ todo[c] # <<>> /\ Now(c).do = "forget" /\ Advance(c, <<>>, K)
      /\ UNCHANGED <<index, hint, seen, up>>
  BY <1>2, <1>3 DEF ForgetCut, Doing
<1>12. /\ A \subseteq Along(n, k)
       /\ how = "archive" => n = "entity"
       /\ how # "archive" => (n = "entity" /\ A = Along(n, k) \ m) \/ (n = "task" /\ A = m)
  <2>1. m \subseteq Along(n, k)
    BY <1>1, AlongIs
  <2>. QED
    BY <1>2, <2>1
<1>5. A \in SUBSET Key /\ K \in SUBSET Key /\ \A j \in A : row'[j] # row[j] => j \in K
  <2>1. A \in SUBSET Key
    BY <1>12, AlongIs
  <2>. QED
    BY <1>3, <2>1
<1>6. StoreTyped
  BY <1>4, ForgetStarts
<1>7. rel.live \cap rel.archived = {} /\ newer \subseteq TaskRows \X TaskRows /\ TaskRows \subseteq Task
  BY <1>6 DEF StoreTyped, Ranks, TaskRows
<1>8. rel'.live \cap rel'.archived = {}
  BY <1>2, <1>7 DEF DropRelations
<1>9. Unlist(A) = Unlist(A \cap Task)
  <2>1. \A p \in newer : p[1] \in Task /\ p[2] \in Task
    BY <1>7
  <2>. QED
    BY <2>1 DEF Unlist
<1>10. CASE how = "archive"
  <2>1. A \cap Task = {}
    <3>1. n = "entity" /\ A \subseteq Along(n, k)
      BY <1>10, <1>12
    <3>. QED
      BY <3>1, AlongIs
  <2>2. newer' = newer
    <3>1. Unlist({}) = newer
      BY DEF Unlist
    <3>. QED
      BY <1>2, <1>9, <2>1, <3>1
  <2>3. row' = InState(A, "archived") /\ UNCHANGED <<torn, cascaded>> /\ old' \subseteq old
    BY <1>2, <1>10
  <2>. QED
    BY <1>4, <1>5, <1>8, <2>2, <2>3, ArchivingKeeps
<1>11. CASE how # "archive"
  <2>1. /\ row' = Without(A) /\ newer' = Unlist(A \cap Task) /\ old' \subseteq old \ (A \cap Task)
        /\ cascaded' = cascaded \cup {f \in A \cap Fact : index[f] # None}
        /\ torn' = torn \cup (A \cap Task) \cup ExposedTo(c, A)
    BY <1>2, <1>9, <1>11
  <2>2. A \subseteq Fact \/ A \subseteq Task
    BY <1>1, <1>11, <1>12, AlongIs
  <2>3. Forgetting(<<>>) /\ <<>> \in Seq(StepRec) /\ \A j : Owed(<<>>, j) = {}
    BY DEF Forgetting, Owed
  <2>4. \A j \in Key \ A : Apart(<<>>, j)
    BY <2>1, <2>3 DEF Apart
  <2>5. ASSUME NEW j \in A \ torn'
        PROVE  Dropping(<<>>, j)
    <3>1. j \notin Task /\ j \in Fact
      BY <2>1, <2>2, <2>5
    <3>. QED
      BY <2>1, <2>3, <3>1 DEF Dropping
  <2>6. torn \cup ExposedTo(c, A) \subseteq torn'
    BY <2>1
  <2>. QED
    BY <1>4, <1>5, <1>8, <2>1, <2>3, <2>4, <2>5, <2>6, DeletingKeeps
<1>. QED
  BY <1>10, <1>11

-----------------------------------------------------------------------------
(* Failures.                                                               *)

LEMMA EmptyScript ==
  <<>> \in Seq(StepRec) /\ Writing(<<>>) /\ \A k : Owed(<<>>, k) = {}
BY DEF Writing, Owed

LEMMA NothingSeen ==
  Nothing = [listed |-> Nothing.listed, fits |-> Nothing.fits, links |-> Nothing.links,
             ties |-> Nothing.ties, hits |-> Nothing.hits, cut |-> Nothing.cut]
BY DEF Nothing

LEMMA StepFailsKeeps ==
  ASSUME IInv, NEW c \in Slot, StepFails(c)
  PROVE  IInv'
<1>1. /\ todo[c] # <<>> /\ Advance(c, <<>>, {})
      /\ UNCHANGED <<row, rel, index, hint, newer, old, cascaded>>
      /\ torn' = torn \cup {k \in Key : Exposed(c, k)}
      /\ seen' = [seen EXCEPT ![c] = Nothing]
      /\ up' = IF c = Boot THEN "down" ELSE up
  BY DEF StepFails, store
<1>2. SeenTyped /\ StoreTyped /\ InStep /\ todo \in [Slot -> Seq(StepRec)]
  BY Types DEF IInv, CallsTyped
<1>3. /\ seen'[c] = Nothing /\ \A d \in Slot \ {c} : seen'[d] = seen[d]
      /\ SeenTyped'
  <2>1. DOMAIN seen = Slot
    BY <1>2 DEF SeenTyped
  <2>2. seen'[c] = Nothing /\ (\A d \in Slot \ {c} : seen'[d] = seen[d]) /\ DOMAIN seen' = Slot
    BY <1>1, <2>1
  <2>3. ASSUME NEW d \in Slot
        PROVE  seen'[d] = [listed |-> seen'[d].listed, fits |-> seen'[d].fits,
                           links |-> seen'[d].links, ties |-> seen'[d].ties,
                           hits |-> seen'[d].hits, cut |-> seen'[d].cut]
    <3>1. CASE d = c
      BY <2>2, <3>1, NothingSeen
    <3>2. CASE d # c
      BY <1>2, <2>2, <3>2 DEF SeenTyped
    <3>. QED
      BY <3>1, <3>2
  <2>4. seen' = [d \in Slot |-> seen'[d]]
    BY <1>1, <2>1
  <2>. QED
    BY <2>2, <2>3, <2>4 DEF SeenTyped
<1>4. Watched({}) /\ {} \in SUBSET Key
  BY <1>1, NothingWatched
<1>5. Turn(c, <<>>, {})
  BY <1>1, <1>3, <1>4, EmptyScript DEF Turn
<1>6. todo' = [todo EXCEPT ![c] = <<>>] /\ todo'[c] = <<>>
  BY <1>5, Turned
<1>7. ASSUME NEW k \in Key \ torn' PROVE Sound(k)'
  <2>1. Sound(k) /\ Owed(todo[c], k) = {}
    BY <1>1, <1>2, <1>7 DEF InStep, Exposed
  <2>2. Owed(<<>>, k) = {}
    BY EmptyScript
  <2>. QED
    BY <1>1, <1>2, <1>6, <2>1, <2>2, QuietSound
<1>8. InStep'
  BY <1>7 DEF InStep
<1>9. StoreTyped'
  BY <1>1, <1>2, SameStore
<1>10. (HeldBy(c) /\ GroundedBy(c) /\ RecallsBy(c))'
  <2>1. HeldBy(c)'
    BY <1>6, EmptyScript, OpenHeld
  <2>2. GroundedBy(c)'
    BY <1>6, UnputGrounded
  <2>3. RecallsBy(c)'
    BY <1>6, EmptyScript, UnaskedRecalls
  <2>. QED
    BY <2>1, <2>2, <2>3
<1>11. up' = up \/ (c = Boot /\ <<>> = <<>> /\ up' = "down")
  BY <1>1
<1>. QED
  BY <1>3, <1>5, <1>8, <1>9, <1>10, <1>11, TurnKeeps

LEMMA StepIgnoredKeeps ==
  ASSUME IInv, NEW c \in Slot, StepIgnored(c)
  PROVE  IInv'
<1>1. /\ todo[c] # <<>>
      /\ UNCHANGED <<row, rel, index, hint, newer, old, seen, up>> /\ cascaded' = cascaded
  BY DEF StepIgnored, store
<1>2. Watched({}) /\ {} \in SUBSET Key
  BY <1>1, NothingWatched
<1>3. CASE /\ Now(c).do \in {"offer", "drop", "drop hint"}
           /\ torn' = torn \cup {Now(c).key} /\ Go(c, {})
  <2>1. StoreTyped'
    BY <1>1, Types, SameStore DEF IInv
  <2>2. InStep'
    <3>1. PICK n : n = Now(c).key
      OBVIOUS
    <3>2. todo' = [todo EXCEPT ![c] = Tail(todo[c])]
      BY <1>3 DEF Go, Advance
    <3>3. Now(c).do \in Projects
      BY <1>3 DEF Projects
    <3>. QED
      BY <1>1, <1>3, <3>1, <3>2, <3>3, PaidInStep
  <2>. QED
    BY <1>1, <1>2, <1>3, <2>1, <2>2, PlainGoKeeps DEF Lists
<1>4. CASE /\ Now(c).do = "similar" /\ Resolve(c, IdOf[Now(c).key], "blind")
           /\ UNCHANGED torn
  <2>1. IdOf[Now(c).key] \in Task
    BY <1>1, <1>4, NowTyped, BrainAssumption DEF Typed
  <2>2. Held(c, IdOf[Now(c).key], Now(c).val, "blind")
    BY DEF Held
  <2>3. "blind" \in Words
    BY DEF Words
  <2>. QED
    BY <1>1, <1>4, <2>1, <2>2, <2>3, ResolveKeeps
<1>5. CASE Now(c).do = "related" /\ Go(c, {}) /\ UNCHANGED torn
  BY <1>1, <1>5, PassedKeeps
<1>. QED
  BY <1>3, <1>4, <1>5 DEF StepIgnored

LEMMA CrashKeeps ==
  ASSUME IInv, Crash
  PROVE  IInv'
<1>1. /\ UNCHANGED <<row, rel, index, hint, newer, old, cascaded>>
      /\ up' = "down" /\ todo' = [c \in Slot |-> <<>>] /\ touched' = [c \in Slot |-> {}]
      /\ seen' = [c \in Slot |-> Nothing]
      /\ torn' = torn \cup {k \in Key : \E c \in Slot : Exposed(c, k)}
  BY DEF Crash, store
<1>2. StoreTyped' /\ InStep
  BY <1>1, Types, SameStore DEF IInv
<1>3. \A c \in Slot : todo'[c] = <<>> /\ seen'[c] = Nothing /\ touched'[c] = {}
  BY <1>1
<1>4. SeenTyped'
  <2>1. seen' = [c \in Slot |->
          [listed |-> Nothing.listed, fits |-> Nothing.fits, links |-> Nothing.links,
           ties |-> Nothing.ties, hits |-> Nothing.hits, cut |-> Nothing.cut]]
    BY <1>1, NothingSeen
  <2>. QED
    BY <1>3, <2>1 DEF SeenTyped
<1>5. CallsTyped'
  <2>1. todo' \in [Slot -> Seq(StepRec)] /\ touched' \in [Slot -> SUBSET Key]
    BY <1>1, EmptyScript
  <2>. QED
    BY <1>1, <1>3, <2>1 DEF CallsTyped, Nothing
<1>6. (TypeOK /\ TypePart)'
  <2>1. (TypeOK /\ TypePart <=> StoreTyped /\ SeenTyped /\ CallsTyped)'
    BY Types, PTL
  <2>. QED
    BY <1>2, <1>4, <1>5, <2>1
<1>7. Scripts' /\ Sessions'
  <2>1. Scripts'
    BY <1>3, EmptyScript DEF Scripts
  <2>2. Boot \in Slot
    BY DEF Slot
  <2>. QED
    BY <1>3, <2>1, <2>2 DEF Sessions, Nothing
<1>8. ASSUME NEW k \in Key \ torn' PROVE Sound(k)'
  <2>1. Sound(k) /\ \A c \in Slot : Owed(todo[c], k) = {}
    BY <1>1, <1>2, <1>8 DEF InStep, Exposed
  <2>2. \A c \in Slot : Owed(todo'[c], k) = {}
    BY <1>3, EmptyScript
  <2>3. /\ index[k] = row[k].val \/ (k \in cascaded /\ row[k] = Absent)
        /\ k \in Task => hint[k] = IF row[k] = Absent THEN None ELSE row[k].val.text
    BY <2>1 DEF Sound
  <2>. QED
    BY <1>1, <2>2, <2>3 DEF Sound
<1>9. ASSUME NEW c \in Slot PROVE (HeldBy(c) /\ GroundedBy(c) /\ RecallsBy(c))'
  <2>1. HeldBy(c)'
    BY <1>3, EmptyScript, OpenHeld
  <2>2. GroundedBy(c)'
    BY <1>3, UnputGrounded
  <2>3. RecallsBy(c)'
    BY <1>3, EmptyScript, UnaskedRecalls
  <2>. QED
    BY <2>1, <2>2, <2>3
<1>. QED
  BY <1>6, <1>7, <1>8, <1>9 DEF IInv, InStep, Honest

-----------------------------------------------------------------------------
(* Starts, operations and the passing of time.                             *)

\* Nothing that a call or a store goes by changes.
LEMMA RestKeeps ==
  ASSUME IInv, UNCHANGED <<row, rel, index, hint, newer, todo, seen, touched, torn, cascaded>>,
         old' \subseteq TaskRows, up' \in {"starting", "serving", "down"},
         todo[Boot] # <<>> => up' = "starting"
  PROVE  IInv'
<1>1. StoreTyped /\ SeenTyped /\ CallsTyped
  BY Types DEF IInv
<1>2. StoreTyped' /\ SeenTyped' /\ CallsTyped'
  BY <1>1 DEF StoreTyped, SeenTyped, CallsTyped, TaskRows, Ranks, Nothing
<1>3. (TypeOK /\ TypePart)'
  <2>1. (TypeOK /\ TypePart <=> StoreTyped /\ SeenTyped /\ CallsTyped)'
    BY Types, PTL
  <2>. QED
    BY <1>2, <2>1
<1>4. Scripts' /\ Sessions'
  BY DEF IInv, Scripts, Sessions, Nothing
<1>5. InStep'
  <2>1. \A x, k : Fits(x, k)' = Fits(x, k)
    BY DEF Fits
  <2>2. ASSUME NEW k \in Key \ torn PROVE Sound(k)'
    <3>1. Sound(k)
      BY <2>2 DEF IInv, InStep
    <3>. QED
      BY <2>1, <3>1 DEF Sound
  <2>. QED
    BY <2>2 DEF InStep
<1>6. Watched({})
  BY NothingWatched
<1>7. ASSUME NEW d \in Slot PROVE (HeldBy(d) /\ GroundedBy(d) /\ RecallsBy(d))'
  <2>1. Waits(d, {})
    BY DEF Waits
  <2>2. /\ todo[d] \in Seq(StepRec) /\ HeldBy(d) /\ GroundedBy(d) /\ RecallsBy(d)
        /\ Writing(todo[d]) \/ Forgetting(todo[d]) \/ Reading(todo[d])
    BY DEF IInv, TypePart, Honest, Scripts
  <2>. QED
    BY <1>6, <2>1, <2>2, HonestKept
<1>. QED
  BY <1>3, <1>4, <1>5, <1>7 DEF IInv, Honest

LEMMA BeginsKeeps ==
  ASSUME IInv, NEW c \in Slot, todo[c] = <<>>, NEW s \in Seq(StepRec),
         Writing(s) \/ Forgetting(s) \/ Reading(s), \A k : Owed(s, k) = {},
         todo' = [todo EXCEPT ![c] = s],
         UNCHANGED <<row, rel, index, hint, newer, old, seen, touched, torn, cascaded>>,
         up' \in {"starting", "serving", "down"}, todo'[Boot] # <<>> => up' = "starting",
         (HeldBy(c) /\ GroundedBy(c) /\ RecallsBy(c))'
  PROVE  IInv'
<1>1. StoreTyped /\ SeenTyped /\ CallsTyped /\ Scripts /\ Sessions /\ InStep /\ Honest
  BY Types DEF IInv
<1>2. /\ todo' \in [Slot -> Seq(StepRec)] /\ todo'[c] = s
      /\ \A d \in Slot \ {c} : todo'[d] = todo[d]
  BY <1>1 DEF CallsTyped
<1>3. seen[c] = Nothing /\ touched[c] = {}
  BY <1>1 DEF CallsTyped
<1>4. StoreTyped' /\ SeenTyped'
  BY <1>1, SameStore DEF SeenTyped
<1>5. CallsTyped'
  <2>1. ASSUME NEW d \in Slot, todo'[d] = <<>> PROVE touched[d] = {} /\ seen[d] = Nothing
    <3>1. CASE d = c
      BY <1>3, <3>1
    <3>2. CASE d # c
      BY <1>1, <1>2, <2>1, <3>2 DEF CallsTyped
    <3>. QED
      BY <3>1, <3>2
  <2>. QED
    BY <1>1, <1>2, <2>1 DEF CallsTyped, Nothing
<1>6. (TypeOK /\ TypePart)'
  <2>1. (TypeOK /\ TypePart <=> StoreTyped /\ SeenTyped /\ CallsTyped)'
    BY Types, PTL
  <2>. QED
    BY <1>4, <1>5, <2>1
<1>7. Scripts'
  BY <1>1, <1>2 DEF Scripts
<1>8. Sessions'
  <2>1. \A d \in Slot : seen'[d] # Nothing => \E i \in DOMAIN todo'[d] : todo'[d][i].do = "answer"
    BY <1>1, <1>2, <1>3 DEF Sessions
  <2>. QED
    BY <2>1 DEF Sessions, Nothing
<1>9. ASSUME NEW k \in Key \ torn PROVE Sound(k)'
  <2>1. Sound(k) /\ Owed(s, k) = {} /\ Owed(todo[c], k) = {}
    BY <1>1, <1>9, EmptyScript DEF InStep
  <2>2. todo \in [Slot -> Seq(StepRec)]
    BY <1>1 DEF CallsTyped
  <2>. QED
    BY <2>1, <2>2, QuietSound
<1>10. InStep'
  BY <1>9 DEF InStep
<1>11. Watched({})
  BY NothingWatched
<1>12. ASSUME NEW d \in Slot PROVE (HeldBy(d) /\ GroundedBy(d) /\ RecallsBy(d))'
  <2>1. CASE d = c
    BY <2>1
  <2>2. CASE d # c
    <3>1. Waits(d, {})
      BY <1>2, <2>2 DEF Waits
    <3>2. /\ todo[d] \in Seq(StepRec) /\ HeldBy(d) /\ GroundedBy(d) /\ RecallsBy(d)
          /\ Writing(todo[d]) \/ Forgetting(todo[d]) \/ Reading(todo[d])
      BY <1>1 DEF CallsTyped, Honest, Scripts
    <3>. QED
      BY <1>11, <3>1, <3>2, HonestKept
  <2>. QED
    BY <2>1, <2>2
<1>. QED
  BY <1>6, <1>7, <1>8, <1>10, <1>12 DEF IInv, Honest

\* What is the same for every operation.
Beginning(c, s) ==
  /\ todo[c] = <<>> /\ todo' = [todo EXCEPT ![c] = s]
  /\ UNCHANGED <<row, rel, index, hint, newer, old, seen, touched, torn, cascaded>>
  /\ up' \in {"starting", "serving", "down"} /\ (todo'[Boot] # <<>> => up' = "starting")

LEMMA WritingBegins ==
  ASSUME IInv, NEW c \in Slot, NEW s, NEW K, Script(s, K), Beginning(c, s)
  PROVE  IInv'
<1>1. s \in Seq(StepRec) /\ Writing(s) /\ Opens(s) /\ Based(s)
  BY DEF Script, Plan
<1>2. todo'[c] = s
  BY DEF Beginning, IInv, TypePart
<1>3. HeldBy(c)'
  BY <1>1, <1>2, OpenHeld DEF Opens
<1>4. GroundedBy(c)'
  BY <1>1, <1>2 DEF Based, GroundedBy, GroundedIn
<1>5. RecallsBy(c)'
  BY <1>1, <1>2, UnaskedRecalls
<1>6. \A k : Owed(s, k) = {}
  BY <1>1, WritingOwesNothing DEF Opens
<1>. QED
  BY <1>1, <1>3, <1>4, <1>5, <1>6, BeginsKeeps DEF Beginning

LEMMA ForgettingBegins ==
  ASSUME IInv, NEW c \in Slot, NEW s \in Seq(StepRec), Forgetting(s), s # <<>>,
         s[1].do = "forget", Beginning(c, s)
  PROVE  IInv'
<1>1. todo'[c] = s
  BY DEF Beginning, IInv, TypePart
<1>2. HeldBy(c)'
  BY <1>1, OpenHeld
<1>3. GroundedBy(c)'
  <2>1. \A i \in DOMAIN s : s[i].do # "put"
    BY DEF Forgetting
  <2>. QED
    BY <1>1, <2>1, UnputGrounded
<1>4. RecallsBy(c)'
  BY <1>1, UnaskedRecalls
<1>5. ASSUME NEW k PROVE Owed(s, k) = {}
  <2>1. CASE s[1].key = k
    BY <2>1, OwedByForget
  <2>2. CASE s[1].key # k
    BY <2>2, OwedByForget
  <2>. QED
    BY <2>1, <2>2
<1>. QED
  BY <1>2, <1>3, <1>4, <1>5, BeginsKeeps DEF Beginning

LEMMA ReadingBegins ==
  ASSUME IInv, NEW c \in Slot, NEW s \in Seq(StepRec), Reading(s), s[1].do = "retain",
         \A i \in DOMAIN s : s[i].do # "offer", Beginning(c, s)
  PROVE  IInv'
<1>1. todo'[c] = s /\ seen'[c] = Nothing
  BY DEF Beginning, IInv, TypePart, TypeOK
<1>2. \A i \in DOMAIN s : s[i].do # "put"
  BY DEF Reading, ReadSteps, Reads
<1>3. GroundedBy(c)'
  BY <1>1, <1>2, UnputGrounded
<1>4. HeldBy(c)'
  BY <1>1, OpenHeld
<1>5. ASSUME NEW k PROVE Owed(s, k) = {}
  <2>1. Owed(s, k) = {s[i] : i \in {i \in DOMAIN s : s[i].do = "offer" /\ s[i].key = k}}
    BY OwedByReading
  <2>. QED
    BY <2>1
<1>6. RecallsBy(c)'
  <2> SUFFICES ASSUME NEW i \in DOMAIN s, Recalling(s[i]), NEW k \in Key
               PROVE  /\ Pending(s, Lists, KindOf(k)) /\ Pending(s, {"query"}, KindOf(k))
                      /\ k \notin Nothing.listed /\ k \notin Nothing.fits
    BY <1>1 DEF RecallsBy, RecallsIn, Recalling, Pending, KindOf
  <2>1. KindOf(k) \in Kinds
    BY DEF KindOf, Kinds
  <2>2. 1 \in DOMAIN s /\ 1 < i
    <3>1. i \in 1..Len(s) /\ Len(s) \in Nat
      OBVIOUS
    <3>2. i # 1
      BY DEF Recalling
    <3>. QED
      BY <3>1, <3>2
  <2>3. /\ \E m \in DOMAIN s : m > 1 /\ s[m].do \in Lists /\ s[m].how = KindOf(k)
        /\ \E m \in DOMAIN s : m > 1 /\ s[m].do = "query" /\ s[m].how = KindOf(k)
    BY <2>1, <2>2 DEF Reading, RetainsFirst
  <2>. QED
    BY <2>3 DEF Pending, Nothing
<1>. QED
  BY <1>3, <1>4, <1>5, <1>6, BeginsKeeps DEF Beginning

\* UpsertMemory writes a projection of a record that no call owes it.
LEMMA UpsertMemoryKeeps ==
  ASSUME IInv, NEW c \in Slot, UpsertMemory(c)
  PROVE  IInv'
<1>1. PICK k \in Direct :
        /\ \/ index' = [index EXCEPT ![k] = Foreign] /\ UNCHANGED hint
           \/ k \in Task /\ hint' = [hint EXCEPT ![k] = Foreign] /\ UNCHANGED index
        /\ torn' = torn \cup {k}
        /\ Advance(c, <<>>, {k})
  BY DEF UpsertMemory
<1>2. /\ todo[c] = <<>> /\ up' = up
      /\ UNCHANGED <<row, rel, newer, old, seen, cascaded>>
  BY DEF UpsertMemory
<1>3. k \in Key
  BY RequestAssumption
<1>4. StoreTyped /\ SeenTyped /\ CallsTyped /\ Scripts /\ Sessions /\ InStep /\ Honest
  BY Types DEF IInv
<1>5. /\ todo' = [todo EXCEPT ![c] = <<>>] /\ todo' = todo
      /\ touched' \in [Slot -> SUBSET Key]
      /\ \A d \in Slot : /\ todo[d] = <<>> => touched'[d] = {}
                         /\ todo[d] # <<>> => touched'[d] = touched[d] \cup {k}
  <2>1. todo \in [Slot -> Seq(StepRec)] /\ touched \in [Slot -> SUBSET Key]
    BY <1>4 DEF CallsTyped
  <2>2. /\ todo' = [todo EXCEPT ![c] = <<>>]
        /\ touched' = [d \in Slot |-> IF d = c THEN IF <<>> = <<>> THEN {} ELSE touched[d]
                                      ELSE IF todo[d] = <<>> THEN {} ELSE touched[d] \cup {k}]
    BY <1>1 DEF Advance
  <2>3. todo' = todo
    BY <1>2, <2>1, <2>2
  <2>. QED
    BY <1>2, <1>3, <2>1, <2>2, <2>3
<1>6. /\ index' \in [Key -> Val \cup {Foreign}] /\ hint' \in [Task -> Text \cup {None, Foreign}]
      /\ \A j \in Key : index'[j] = index[j] \/ (j = k /\ index'[j] = Foreign)
      /\ \A t \in Task \ {k} : hint'[t] = hint[t]
  BY <1>1, <1>3, <1>4 DEF StoreTyped
<1>7. StoreTyped' /\ SeenTyped'
  <2>1. \A j \in Key : index'[j] \in {None, Foreign} \/ index'[j] \in ValOf(j)
    BY <1>4, <1>6 DEF StoreTyped
  <2>. QED
    BY <1>2, <1>4, <1>6, <2>1 DEF StoreTyped, SeenTyped, TaskRows, Ranks
<1>8. CallsTyped' /\ Scripts' /\ Sessions'
  <2>1. \A d \in Slot : todo[d] = <<>> => touched'[d] = {} /\ seen[d] = Nothing
    BY <1>4, <1>5 DEF CallsTyped
  <2>. QED
    BY <1>2, <1>4, <1>5, <2>1 DEF CallsTyped, Scripts, Sessions, Nothing
<1>9. (TypeOK /\ TypePart)'
  <2>1. (TypeOK /\ TypePart <=> StoreTyped /\ SeenTyped /\ CallsTyped)'
    BY Types, PTL
  <2>. QED
    BY <1>7, <1>8, <2>1
<1>10. ASSUME NEW j \in Key \ torn' PROVE Sound(j)'
  <2>1. j # k /\ Sound(j) /\ (j \in Task => hint'[j] = hint[j]) /\ index'[j] = index[j]
    BY <1>1, <1>4, <1>6, <1>10 DEF InStep
  <2>2. Owed(<<>>, j) = {} /\ Owed(todo[c], j) = {} /\ todo \in [Slot -> Seq(StepRec)]
    BY <1>2, <1>4, EmptyScript DEF CallsTyped
  <2>. QED
    BY <1>2, <1>5, <2>1, <2>2, QuietSound
<1>11. ASSUME NEW d \in Slot PROVE (HeldBy(d) /\ GroundedBy(d) /\ RecallsBy(d))'
  <2>1. CASE todo[d] = <<>>
    <3>1. todo'[d] = <<>>
      BY <1>5, <2>1
    <3>. QED
      BY <3>1 DEF HeldBy, GroundedBy, RecallsBy, GroundedIn, RecallsIn, Doing
  <2>2. CASE todo[d] # <<>>
    <3>1. Waits(d, {k}) /\ Watched({k})
      BY <1>2, <1>5, <1>6, <2>2 DEF Waits, Watched
    <3>2. /\ todo[d] \in Seq(StepRec) /\ HeldBy(d) /\ GroundedBy(d) /\ RecallsBy(d)
          /\ Writing(todo[d]) \/ Forgetting(todo[d]) \/ Reading(todo[d])
      BY <1>4 DEF CallsTyped, Honest, Scripts
    <3>. QED
      BY <3>1, <3>2, HonestKept
  <2>. QED
    BY <2>1, <2>2
<1>. QED
  BY <1>8, <1>9, <1>10, <1>11 DEF IInv, InStep, Honest

LEMMA OperationKeeps ==
  ASSUME IInv, NEW c \in Caller, Operation(c)
  PROVE  IInv'
<1>0. c \in Slot /\ c # Boot
  BY BrainAssumption DEF Slot
<1>1. ASSUME NEW s, Begin(c, s)
      PROVE  Beginning(c, s)
  <2>1. /\ up = "serving" /\ todo[c] = <<>> /\ todo' = [todo EXCEPT ![c] = s] /\ up' = up
        /\ UNCHANGED <<row, rel, index, hint, newer, old, seen, touched, torn, cascaded>>
    BY <1>1 DEF Begin, store, past
  <2>2. todo'[Boot] = <<>>
    BY <1>0, <2>1 DEF IInv, Sessions, Slot, TypePart
  <2>. QED
    BY <2>1, <2>2 DEF Beginning
<1>2. CASE Remember(c)
  <2>1. PICK m \in Memo : Begin(c, RememberPlan(m))
    BY <1>2 DEF Remember
  <2>. QED
    BY <1>0, <1>1, <2>1, RememberScript, WritingBegins
<1>3. CASE RememberTask(c)
  <2>1. PICK m \in TaskMemo : Begin(c, RememberTaskPlan(m))
    BY <1>3 DEF RememberTask
  <2>. QED
    BY <1>0, <1>1, <2>1, RememberTaskScript, WritingBegins
<1>4. CASE Recall(c)
  <2>1. PICK archived \in BOOLEAN : Begin(c, RecallPlan(archived))
    BY <1>4 DEF Recall
  <2>. QED
    BY <1>0, <1>1, <2>1, RecallReads, ReadingBegins
<1>5. CASE Suggest(c)
  BY <1>0, <1>1, <1>5, SuggestReads, ReadingBegins DEF Suggest
<1>6. CASE ListTaskRecords(c)
  BY <1>0, <1>1, <1>6, ListTasksReads, ReadingBegins DEF ListTaskRecords
<1>7. CASE BuildContextPack(c)
  BY <1>0, <1>1, <1>7, ContextReads, ReadingBegins DEF BuildContextPack
<1>8. CASE UpdateTaskRecord(c)
  <2>1. PICK u \in Update : Begin(c, UpdatePlan(u))
    BY <1>8 DEF UpdateTaskRecord
  <2>. QED
    BY <1>0, <1>1, <2>1, UpdateScript, WritingBegins
<1>9. CASE Forget(c)
  <2>1. PICK g \in Target, mode \in {"archive", "delete"} :
          Begin(c, ForgetPlan(g.kind, g.key, mode))
    BY <1>9 DEF Forget
  <2>. QED
    BY <1>0, <1>1, <2>1, ForgetScript, ForgettingBegins
<1>10. CASE IngestMessage(c)
  <2>1. PICK m \in Message : Begin(c, MessagePlan(m))
    BY <1>10 DEF IngestMessage
  <2>. QED
    BY <1>0, <1>1, <2>1, MessageScript, WritingBegins
<1>11. CASE IngestToolResult(c)
  <2>1. PICK t \in Tool : Begin(c, ToolPlan(t))
    BY <1>11 DEF IngestToolResult
  <2>. QED
    BY <1>0, <1>1, <2>1, ToolScript, WritingBegins
<1>12. CASE IngestReply(c)
  <2>1. PICK text \in Text : Begin(c, ReplyPlan(text))
    BY <1>12 DEF IngestReply
  <2>. QED
    BY <1>0, <1>1, <2>1, ReplyScript, WritingBegins
<1>13. CASE UpsertMemory(c)
  BY <1>0, <1>13, UpsertMemoryKeeps
<1>. QED
  BY <1>2, <1>3, <1>4, <1>5, <1>6, <1>7, <1>8, <1>9, <1>10, <1>11, <1>12, <1>13 DEF Operation

LEMMA ProgressKeeps ==
  ASSUME IInv, NEW c \in Slot, Progress(c)
  PROVE  IInv'
BY PutRowKeeps, PutIndexKeeps, PutHintKeeps, PutRelationKeeps, PassOverKeeps,
   ApplyRetentionKeeps, FindSimilarKeeps, FindRelatedKeeps, ReadTaskKeeps, ListRecordsKeeps,
   QueryHitsKeeps, ReturnKeeps, ListSuggestionsKeeps, ForgetRowsKeeps, ForgetCutKeeps,
   DropIndexKeeps, DropHintKeeps, StepFailsKeeps, StepIgnoredKeeps
DEF Progress

LEMMA StartKeeps ==
  ASSUME IInv, Start
  PROVE  IInv'
<1>1. Boot \in Slot
  BY DEF Slot
<1>2. /\ up = "down" /\ up' = "starting" /\ todo' = [todo EXCEPT ![Boot] = BaselinePlan]
      /\ UNCHANGED <<row, rel, index, hint, newer, old, seen, touched, torn, cascaded>>
  BY DEF Start, store, past
<1>3. todo[Boot] = <<>>
  BY <1>2 DEF IInv, Sessions
<1>4. Beginning(Boot, BaselinePlan)
  BY <1>2, <1>3 DEF Beginning
<1>. QED
  BY <1>1, <1>4, BaselineScript, WritingBegins

LEMMA ServeKeeps ==
  ASSUME IInv, Serve
  PROVE  IInv'
<1>1. /\ todo[Boot] = <<>> /\ up' = "serving" /\ old' = old
      /\ UNCHANGED <<row, rel, index, hint, newer, todo, seen, touched, torn, cascaded>>
  BY DEF Serve, store, past
<1>. QED
  BY <1>1, RestKeeps DEF IInv, TypeOK

LEMMA DaysPassKeeps ==
  ASSUME IInv, DaysPass
  PROVE  IInv'
<1>1. /\ up' = up /\ old' = TaskRows
      /\ UNCHANGED <<row, rel, index, hint, newer, todo, seen, touched, torn, cascaded>>
  BY DEF DaysPass, past
<1>. QED
  BY <1>1, RestKeeps DEF IInv, TypeOK, Sessions

LEMMA StutterKeeps ==
  ASSUME IInv, UNCHANGED vars
  PROVE  IInv'
<1>1. /\ up' = up /\ old' = old
      /\ UNCHANGED <<row, rel, index, hint, newer, todo, seen, touched, torn, cascaded>>
  BY DEF vars, store, past
<1>. QED
  BY <1>1, RestKeeps DEF IInv, TypeOK, Sessions

LEMMA StepKeeps == IInv /\ [Next]_vars => IInv'
BY OperationKeeps, ProgressKeeps, CrashKeeps, StartKeeps, ServeKeeps, DaysPassKeeps, StutterKeeps
DEF Next

LEMMA InitHolds == Init => IInv
<1> SUFFICES ASSUME Init PROVE IInv
  OBVIOUS
<1>1. PICK tasks \in Earlier :
        /\ row = [k \in Key |-> IF k \in Range(Baseline) THEN Live(Observed)
                                ELSE IF k \in DOMAIN tasks THEN tasks[k] ELSE Absent]
        /\ index = [k \in Key |-> row[k].val]
        /\ hint = [t \in Task |-> IF t \in DOMAIN tasks THEN tasks[t].val.text ELSE None]
        /\ newer \in {o \in SUBSET ((DOMAIN tasks) \X (DOMAIN tasks)) : Ranks(o, DOMAIN tasks)}
  BY DEF Init
<1>2. /\ DOMAIN tasks \subseteq Task
      /\ \A t \in DOMAIN tasks : tasks[t] \in [state : {"live", "archived"}, val : TaskVal]
  BY RequestAssumption
<1>3. Range(Baseline) \subseteq Entity /\ Observed \in Content
  <2>1. Baseline \in Seq(Entity)
    BY BaselineEntities DEF Baseline
  <2>2. \A i \in DOMAIN Baseline : Baseline[i] \in Entity
    BY <2>1
  <2>. QED
    BY <2>2, BaselineEntities DEF Range
<1>4. /\ Entity \subseteq Key /\ Task \subseteq Key /\ Entity \cap Task = {} /\ Entity \cap Fact = {}
      /\ None \notin Text
  BY BrainAssumption DEF Key
<1>5. \A k \in Key : /\ k \in Range(Baseline) => row[k] = Live(Observed)
                     /\ k \in DOMAIN tasks => row[k] = tasks[k]
                     /\ k \notin Range(Baseline) /\ k \notin DOMAIN tasks => row[k] = Absent
  BY <1>1, <1>2, <1>3, <1>4
<1>6. ASSUME NEW k \in Key
      PROVE  /\ \/ row[k] = Absent
                \/ row[k].state \in {"live", "archived"} /\ row[k].val \in ValOf(k)
             /\ row[k] \in [state : {"absent", "live", "archived"}, val : Val]
             /\ row[k] # Absent <=> k \in Range(Baseline) \cup DOMAIN tasks
             /\ row[k] = Absent => row[k].val = None
  <2>1. CASE k \in Range(Baseline)
    <3>1. row[k] = Live(Observed) /\ k \in Entity /\ k \notin Task /\ k \notin Fact
      BY <1>3, <1>4, <1>5, <2>1
    <3>2. row[k].state = "live" /\ row[k].val = Observed
      BY <3>1 DEF Live
    <3>. QED
      BY <1>3, <2>1, <3>1, <3>2 DEF ValOf, Val, Live, Absent
  <2>2. CASE k \in DOMAIN tasks
    <3>1. row[k] \in [state : {"live", "archived"}, val : TaskVal] /\ k \in Task
      BY <1>2, <1>5, <2>2
    <3>. QED
      BY <2>2, <3>1 DEF ValOf, Val, Absent
  <2>3. CASE k \notin Range(Baseline) /\ k \notin DOMAIN tasks
    <3>1. row[k] = Absent
      BY <1>5, <2>3
    <3>2. Absent \in [state : {"absent", "live", "archived"}, val : Val] /\ Absent.val = None
      BY DEF Absent, Val
    <3>3. k \notin Range(Baseline) \cup DOMAIN tasks
      BY <2>3
    <3>4. row[k] \in [state : {"absent", "live", "archived"}, val : Val] /\ row[k].val = None
      BY <3>1, <3>2
    <3>. QED
      BY <3>1, <3>3, <3>4
  <2>. QED
    BY <2>1, <2>2, <2>3
<1>7. TaskRows = DOMAIN tasks
  BY <1>2, <1>3, <1>4, <1>6 DEF TaskRows
<1>8. /\ rel.live \cap rel.archived = {} /\ old = {} /\ torn = {} /\ cascaded = {} /\ up = "down"
      /\ todo = [c \in Slot |-> <<>>] /\ seen = [c \in Slot |-> Nothing]
      /\ touched = [c \in Slot |-> {}]
  BY DEF Init
<1>9. hint \in [Task -> Text \cup {None, Foreign}]
  <2>1. \A t \in DOMAIN tasks : tasks[t].val.text \in Text
    BY <1>2 DEF TaskVal
  <2>. QED
    BY <1>1, <2>1
<1>10. StoreTyped
  <2>1. \A k \in Key : index[k] = row[k].val
    BY <1>1
  <2>2. \A k \in Key : index[k] \in {None, Foreign} \/ index[k] \in ValOf(k)
    BY <1>6, <2>1
  <2>3. index \in [Key -> Val \cup {Foreign}]
    BY <1>1, <1>6
  <2>4. row \in [Key -> [state : {"absent", "live", "archived"}, val : Val]]
    BY <1>1, <1>6
  <2>5. Ranks(newer, TaskRows)
    BY <1>1, <1>7
  <2>. QED
    BY <1>6, <1>8, <1>9, <2>2, <2>3, <2>4, <2>5 DEF StoreTyped
<1>11. SeenTyped
  <2>1. seen = [c \in Slot |->
          [listed |-> Nothing.listed, fits |-> Nothing.fits, links |-> Nothing.links,
           ties |-> Nothing.ties, hits |-> Nothing.hits, cut |-> Nothing.cut]]
    BY <1>8, NothingSeen
  <2>2. \A c \in Slot : seen[c] = Nothing
    BY <1>8
  <2>. QED
    BY <2>1, <2>2 DEF SeenTyped
<1>12. CallsTyped
  BY <1>8, EmptyScript DEF CallsTyped
<1>13. \A c \in Slot : todo[c] = <<>> /\ seen[c] = Nothing
  BY <1>8
<1>14. Scripts /\ Sessions
  <2>1. Boot \in Slot
    BY DEF Slot
  <2>. QED
    BY <1>13, <2>1, EmptyScript DEF Scripts, Sessions
<1>15. InStep
  <2>1. ASSUME NEW k \in Key PROVE Sound(k)
    <3>1. \A c \in Slot : Owed(todo[c], k) = {}
      BY <1>13, EmptyScript
    <3>2. index[k] = row[k].val
      BY <1>1
    <3>3. k \in Task => hint[k] = IF row[k] = Absent THEN None ELSE row[k].val.text
      BY <1>1, <1>2, <1>3, <1>4, <1>5, <1>6
    <3>. QED
      BY <3>1, <3>2, <3>3 DEF Sound
  <2>. QED
    BY <2>1 DEF InStep
<1>16. Honest
  BY <1>13 DEF Honest, HeldBy, Doing, GroundedBy, GroundedIn, RecallsBy, RecallsIn
<1>. QED
  BY <1>10, <1>11, <1>12, <1>14, <1>15, <1>16, Types DEF IInv

-----------------------------------------------------------------------------
(* What follows from the invariant.                                        *)

LEMMA Invariance == Spec => []IInv
BY InitHolds, StepKeeps, PTL DEF Spec

\* Every row, projection and suggestion holds what its columns allow, the order of the
\* task rows is total, and a call that has ended keeps nothing of what a recall read.
THEOREM RecordsTyped == Spec => []TypeOK
<1>1. IInv => TypeOK
  BY DEF IInv
<1>. QED
  BY <1>1, Invariance, PTL

\* The upserts and forget leave the projections of a record in step with its row, up to
\* records whose writers overlapped or were cut short, and the facts that forget deletes
\* along with their entity.
THEOREM ProjectionsAgree == Spec => []IndexAgrees
<1>1. ASSUME IInv, NEW k \in Key \ torn, ~Busy(k)
      PROVE  /\ index[k] = row[k].val \/ (k \in cascaded /\ row[k] = Absent)
             /\ k \in Task => hint[k] = IF row[k] = Absent THEN None ELSE row[k].val.text
  <2>1. Sound(k)
    BY <1>1 DEF IInv, InStep
  <2>2. \A c \in Slot : Owed(todo[c], k) = {}
    BY <1>1 DEF Busy, Exposed
  <2>. QED
    BY <2>1, <2>2 DEF Sound
<1>2. IInv => IndexAgrees
  BY <1>1 DEF IndexAgrees
<1>. QED
  BY <1>2, Invariance, PTL

\* recall returns no record that is forgotten, and of the kinds that neither a window nor
\* its limit has cut it misses no live record that has a projection and fits its scope:
\* always of the records that other calls left alone since it began.
THEOREM RecallIsHonest == Spec => []RecallHonest
<1>1. IInv => RecallHonest
  <2> SUFFICES ASSUME IInv, NEW c \in Caller, Doing(c, "answer"), Now(c).how # "tasks",
                      NEW k \in Key \ touched[c], NEW answer \in Answers(c)
               PROVE  /\ k \in answer => Wanted(k, Now(c).how)
                      /\ Wanted(k, Now(c).how) /\ index[k] # None /\ ScopeOf(k) \in InScope
                           /\ Whole(c, KindOf(k)) => k \in answer
    BY DEF RecallHonest, Wanted
  <2>1. PICK s \in Seq(StepRec) : s = todo[c] /\ s # <<>> /\ Now(c) = s[1] /\ s[1].do = "answer"
    <3>1. c \in Slot
      BY DEF Slot
    <3>. QED
      BY <3>1, NowTyped DEF Doing
  <2>2. Reading(s) /\ RecallsIn(c, s)
    <3>1. c \in Slot
      BY DEF Slot
    <3>2. RecallsIn(c, s)
      BY <2>1, <3>1 DEF IInv, Honest, RecallsBy
    <3>3. 1 \in DOMAIN s
      BY <2>1
    <3>4. ~Writing(s) /\ ~Forgetting(s)
      BY <2>1, <3>3 DEF Writing, Writes, Forgetting
    <3>. QED
      BY <2>1, <3>1, <3>2, <3>4 DEF IInv, Scripts
  <2>3. 1 \in DOMAIN s /\ Recalling(s[1])
    BY <2>1 DEF Recalling
  <2>4. \A n : ~Pending(s, Lists, n) /\ ~Pending(s, {"query"}, n)
    <3>1. \A j \in DOMAIN s : s[j].do \notin Lists \cup {"query"}
      <4>1. ASSUME NEW j \in DOMAIN s, s[j].do \in Lists \cup {"query"} PROVE FALSE
        <5>1. Pair(s[1], s[j], 1, j)
          BY <2>2, <2>3, <4>1 DEF Reading
        <5>2. j < 1
          BY <2>1, <4>1, <5>1 DEF Pair
        <5>3. j \in 1..Len(s)
          BY <4>1
        <5>. QED
          BY <5>2, <5>3
      <4>. QED
        BY <4>1
    <3>. QED
      BY <3>1 DEF Pending
  <2>5. /\ k \in seen[c].listed => Wanted(k, Now(c).how)
        /\ k \in seen[c].fits => k \in seen[c].listed
        /\ KindOf(k) \notin seen[c].cut /\ Wanted(k, Now(c).how) /\ ScopeOf(k) \in InScope =>
             k \in seen[c].fits
        /\ KindOf(k) \notin seen[c].cut /\ index[k] # None => k \in seen[c].hits
    BY <2>1, <2>2, <2>3, <2>4 DEF RecallsIn
  <2>6. PICK A, F, T, W :
               /\ A \in FirstOf(Limit, Matched(c, "entity"))
               /\ F \in FirstOf(Limit, Matched(c, "fact"))
               /\ T \in FirstOf(Limit, Matched(c, "task"))
               /\ W \in FirstOf(Limit - Cardinality(A), Around(c, A \cup F \cup T) \ A)
               /\ answer = A \cup F \cup T \cup W
    <3>1. PICK m \in FirstOf(Limit, Matched(c, "entity")) \X FirstOf(Limit, Matched(c, "fact"))
                       \X FirstOf(Limit, Matched(c, "task")) :
            answer \in LET more == Around(c, m[1] \cup m[2] \cup m[3]) \ m[1] IN
                       {m[1] \cup m[2] \cup m[3] \cup W :
                          W \in FirstOf(Limit - Cardinality(m[1]), more)}
      BY DEF Answers
    <3>2. PICK A, F, T : A = m[1] /\ F = m[2] /\ T = m[3]
      OBVIOUS
    <3>3. /\ A \in FirstOf(Limit, Matched(c, "entity"))
          /\ F \in FirstOf(Limit, Matched(c, "fact")) /\ T \in FirstOf(Limit, Matched(c, "task"))
      BY <3>1, <3>2
    <3>4. answer \in {A \cup F \cup T \cup W :
                       W \in FirstOf(Limit - Cardinality(A), Around(c, A \cup F \cup T) \ A)}
      BY <3>1, <3>2
    <3>5. PICK W \in FirstOf(Limit - Cardinality(A), Around(c, A \cup F \cup T) \ A) :
            answer = A \cup F \cup T \cup W
      BY <3>4
    <3>. QED
      BY <3>3, <3>5
  <2>7. /\ A \subseteq Matched(c, "entity") /\ F \subseteq Matched(c, "fact")
        /\ T \subseteq Matched(c, "task") /\ W \subseteq Around(c, A \cup F \cup T)
        /\ Cardinality(Matched(c, "entity")) <= Limit => A = Matched(c, "entity")
        /\ Cardinality(Matched(c, "fact")) <= Limit => F = Matched(c, "fact")
        /\ Cardinality(Matched(c, "task")) <= Limit => T = Matched(c, "task")
    <3>1. A \subseteq Matched(c, "entity")
          /\ (Cardinality(Matched(c, "entity")) <= Limit => A = Matched(c, "entity"))
      BY <2>6, FirstOfIs
    <3>2. F \subseteq Matched(c, "fact")
          /\ (Cardinality(Matched(c, "fact")) <= Limit => F = Matched(c, "fact"))
      BY <2>6, FirstOfIs
    <3>3. T \subseteq Matched(c, "task")
          /\ (Cardinality(Matched(c, "task")) <= Limit => T = Matched(c, "task"))
      BY <2>6, FirstOfIs
    <3>4. W \subseteq Around(c, A \cup F \cup T) \ A
      BY <2>6, FirstOfIs
    <3>. QED
      BY <3>1, <3>2, <3>3, <3>4
  <2>8. k \in answer => k \in seen[c].listed
    <3>1. \A n : Matched(c, n) \subseteq seen[c].fits
      BY DEF Matched
    <3>2. Around(c, A \cup F \cup T) \subseteq seen[c].listed
      BY DEF Around
    <3>. QED
      BY <2>5, <2>6, <2>7, <3>1, <3>2
  <2>9. ASSUME Wanted(k, Now(c).how), index[k] # None, ScopeOf(k) \in InScope, Whole(c, KindOf(k))
        PROVE  k \in answer
    <3>1. k \in Matched(c, KindOf(k)) /\ Cardinality(Matched(c, KindOf(k))) <= Limit
      BY <2>5, <2>9, KindOfIs DEF Whole, Matched
    <3>2. KindOf(k) \in {"entity", "fact", "task"}
      BY DEF KindOf
    <3>. QED
      BY <2>6, <2>7, <3>1, <3>2
  <2>. QED
    BY <2>5, <2>8, <2>9
<1>. QED
  BY <1>1, Invariance, PTL

\* A task that find_similar_task or find_related_tool_task has looked up is live and still is
\* what they found when it is written, and what update_task_record keeps of the summary and
\* the links is what the task has, unless another call came in between; update_task_record
\* revives an archived task by intent, and is not said to do otherwise.
THEOREM WritesHold == Spec => WritesWhatItFound
<1>1. ASSUME IInv, NEW c \in Slot, PutRow(c)
      PROVE  Taken(c, Now(c).key) \/ Now(c).key \in touched[c]
  <2>1. Held(c, Now(c).key, Now(c).val, Now(c).how)
    BY <1>1 DEF IInv, Honest, HeldBy, PutRow
  <2>. QED
    BY <2>1 DEF Held, Taken, Calm
<1>2. IInv /\ [Next]_vars =>
        [\A c \in Slot : PutRow(c) => Taken(c, Now(c).key) \/ Now(c).key \in touched[c]]_vars
  BY <1>1
<1>. QED
  BY <1>2, Invariance, PTL DEF Spec, WritesWhatItFound

\* upsert_or_merge_task opens a second task beside a live one that resembles it only
\* after the tasks changed behind its search, beyond its window, or without it.
THEOREM NoOtherTwins == Spec => TwinsExplained
<1>1. ASSUME IInv, NEW c \in Slot, PutRow(c), Now(c).how = "new", touched[c] \cap Task = {},
             NEW t \in InWindow, IsLive(t), <<row[t].val.text, Now(c).val.text>> \in Attracts
      PROVE  FALSE
  <2>1. Held(c, Now(c).key, Now(c).val, "new")
    BY <1>1 DEF IInv, Honest, HeldBy, PutRow
  <2>2. Similar(Now(c).val.text) = {}
    BY <1>1, <2>1 DEF Held, Calm
  <2>. QED
    BY <1>1, <2>2 DEF Similar, Listed
<1>2. IInv /\ [Next]_vars =>
        [\A c \in Slot :
           PutRow(c) /\ Now(c).how = "new" /\ touched[c] \cap Task = {} =>
             ~\E t \in InWindow \ {Now(c).key} :
                IsLive(t) /\ <<row[t].val.text, Now(c).val.text>> \in Attracts]_vars
  BY <1>1
<1>. QED
  BY <1>2, Invariance, PTL DEF Spec, TwinsExplained

\* Entities and facts change only where a row is put and in forget.
LEMMA RowsOtherwiseStay ==
  ASSUME IInv, [Next]_vars
  PROVE  \/ \A k \in Key \ Task : row'[k] = row[k]
         \/ \E c \in Slot : PutRow(c) \/ ForgetRows(c) \/ ForgetCut(c)
<1>1. ASSUME NEW c \in Slot, ApplyRetention(c), NEW k \in Key \ Task
      PROVE  row'[k] = row[k]
  <2>1. k \notin old
    BY DEF IInv, TypeOK, TaskRows
  <2>. QED
    BY <1>1, <2>1 DEF ApplyRetention
<1>2. ASSUME NEW c \in Slot, Progress(c)
      PROVE  \/ row' = row \/ ApplyRetention(c)
             \/ PutRow(c) \/ ForgetRows(c) \/ ForgetCut(c)
  BY <1>2 DEF Progress, PutIndex, PutHint, PutRelation, PassOver, FindSimilar, FindRelated,
     ReadTask, ListRecords, QueryHits, Return, ListSuggestions, DropIndex, DropHint, StepFails,
     StepIgnored, store
<1>3. ASSUME NEW c \in Caller, Operation(c) PROVE row' = row
  BY <1>3 DEF Operation, Remember, RememberTask, Recall, Suggest, ListTaskRecords,
     BuildContextPack, UpdateTaskRecord, Forget, IngestMessage, IngestToolResult, IngestReply,
     UpsertMemory, Begin, store
<1>4. Crash \/ Start \/ Serve \/ DaysPass \/ UNCHANGED vars => row' = row
  BY DEF Crash, Start, Serve, DaysPass, vars, store
<1>. QED
  BY <1>1, <1>2, <1>3, <1>4 DEF Next

\* A live fact loses its entity only to the races of an upsert_fact with a forget, as the
\* context of a tool, and to a forget that fails between its statements.
THEOREM LooseFactsExplained == Spec => FactsHaveEntity
<1> DEFINE Excused(f) ==
             \/ \E c \in Slot : /\ PutRow(c) /\ Now(c).key = f
                                /\ \/ EntityOf[f] \in touched[c]
                                   \/ \E t \in Tool : t.context = f
             \/ \E c \in Slot : ForgetCut(c) /\ Now(c).key = EntityOf[f]
<1>1. ASSUME IInv, [Next]_vars, NEW f \in Fact, Loose(f)', ~Loose(f)
      PROVE  Excused(f)
  <2>1. PICK e : e = EntityOf[f]
    OBVIOUS
  <2>2. e \in Entity /\ e \in Key \ Task /\ f \in Key \ Task /\ e # f
    BY <2>1, BrainAssumption DEF Key
  <2>3. /\ row'[f].state = "live" /\ row'[e].state # "live"
        /\ row[f].state # "live" \/ row[e].state = "live"
    BY <1>1, <2>1 DEF Loose, IsLive
  <2>4. ASSUME NEW c \in Slot, PutRow(c) PROVE Excused(f)
    <3>1. PICK n : n = Now(c).key
      OBVIOUS
    <3>2. Doing(c, "put") /\ row' = [row EXCEPT ![n] = Live(Now(c).val)]
      BY <2>4, <3>1 DEF PutRow
    <3>3. n # e
      BY <2>2, <2>3, <3>2 DEF IInv, TypePart, Live
    <3>4. n = f /\ row[e].state # "live"
      BY <2>2, <2>3, <3>2, <3>3 DEF IInv, TypePart
    <3>5. PICK s \in Seq(StepRec) : s = todo[c] /\ s # <<>> /\ Now(c) = s[1]
      BY <3>2, NowTyped, <1>1 DEF Doing
    <3>6. 1 \in DOMAIN s /\ s[1].do = "put" /\ s[1].key = f /\ GroundedIn(c, s)
      <4>1. GroundedBy(c)
        BY <1>1 DEF IInv, Honest
      <4>2. 1 \in DOMAIN s
        BY <3>5
      <4>. QED
        BY <3>1, <3>2, <3>4, <3>5, <4>1, <4>2 DEF GroundedBy, Doing
    <3>7. f \in Contexts \/ e \in touched[c]
      <4>1. 1..(1 - 1) = {}
        OBVIOUS
      <4>. QED
        BY <2>1, <3>4, <3>6, <4>1 DEF GroundedIn, IsLive
    <3>. QED
      BY <2>1, <2>4, <3>1, <3>4, <3>7 DEF Contexts
  <2>5. ASSUME NEW A, row' = InState(A, "archived") \/ row' = Without(A)
        PROVE  f \notin A /\ e \in A
    <3>1. f \notin A
      <4>1. row[f] \in [state : {"absent", "live", "archived"}, val : Val]
        BY <1>1, <2>2 DEF IInv, TypePart
      <4>2. ASSUME f \in A, row' = InState(A, "archived") PROVE row'[f].state # "live"
        <5>1. row'[f] = IF row[f].state # "absent" THEN [row[f] EXCEPT !.state = "archived"]
                        ELSE row[f]
          BY <2>2, <4>2 DEF InState
        <5>. QED
          BY <4>1, <5>1
      <4>3. ASSUME f \in A, row' = Without(A) PROVE row'[f].state # "live"
        BY <2>2, <4>3 DEF Without, Absent
      <4>. QED
        BY <2>3, <2>5, <4>2, <4>3
    <3>2. row'[f] = row[f]
      BY <2>2, <2>5, <3>1 DEF InState, Without
    <3>3. e \notin A => row'[e] = row[e]
      BY <2>2, <2>5 DEF InState, Without
    <3>. QED
      BY <2>3, <3>1, <3>2, <3>3
  <2>6. ASSUME NEW c \in Slot, ForgetRows(c) PROVE FALSE
    <3>1. PICK n, kind : n = Now(c).key /\ kind = Now(c).val.kind
      OBVIOUS
    <3>2. row' = InState(Along(kind, n), "archived") \/ row' = Without(Along(kind, n))
      BY <2>6, <3>1 DEF ForgetRows, Archive, Delete
    <3>3. f \notin Along(kind, n) /\ e \in Along(kind, n)
      BY <2>5, <3>2
    <3>4. e = n /\ kind = "entity"
      BY <2>2, <3>3, BrainAssumption DEF Along, FactsOf, OfKind
    <3>. QED
      BY <2>1, <2>2, <3>3, <3>4 DEF Along, FactsOf
  <2>7. ASSUME NEW c \in Slot, ForgetCut(c) PROVE Excused(f)
    <3>1. PICK n, kind, archive :
            n = Now(c).key /\ kind = Now(c).val.kind /\ archive = (Now(c).how = "archive")
      OBVIOUS
    <3>2. PICK A \in CASE kind = "entity" /\ archive  -> {{n} \cap OfKind(kind), Along(kind, n)}
                       [] kind = "entity" /\ ~archive -> {Along(kind, n) \ ({n} \cap OfKind(kind))}
                       [] kind = "task" /\ ~archive   -> {{n} \cap OfKind(kind)}
                       [] OTHER -> {} :
            row' = IF archive THEN InState(A, "archived") ELSE Without(A)
      BY <2>7, <3>1 DEF ForgetCut
    <3>3. f \notin A /\ e \in A
      BY <2>5, <3>2
    <3>4. A \subseteq {n} \cup Along(kind, n)
      BY <3>2
    <3>5. e = n
      BY <2>2, <3>3, <3>4, BrainAssumption DEF Along, FactsOf, OfKind
    <3>. QED
      BY <2>1, <2>7, <3>1, <3>5
  <2>8. \E c \in Slot : PutRow(c) \/ ForgetRows(c) \/ ForgetCut(c)
    BY <1>1, <2>2, <2>3, RowsOtherwiseStay
  <2>. QED
    BY <2>4, <2>6, <2>7, <2>8
<1>2. IInv /\ [Next]_vars => [\A f \in Fact : Loose(f)' /\ ~Loose(f) => Excused(f)]_vars
  BY <1>1
<1>. QED
  BY <1>2, Invariance, PTL DEF Spec, FactsHaveEntity
=============================================================================
