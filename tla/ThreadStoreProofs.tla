------------------------- MODULE ThreadStoreProofs -------------------------
(***************************************************************************)
(* Lemmas about the statements and blocks of ThreadStore: what each makes  *)
(* of a coherent database, and how what a turn commits follows from the    *)
(* database the turn found.                                                *)
(***************************************************************************)
EXTENDS ThreadStore, TaskRepoProofs, FiniteSetTheorems, SequenceTheorems,
        WellFoundedInduction

USE NoTaskAssumption

-----------------------------------------------------------------------------
(* The largest of some positions, and the task a submit inserts. *)

\* A bounded set of naturals that has an element has a greatest one.
LEMMA GreatestNatural ==
    ASSUME NEW n \in Nat, NEW S, S \subseteq 1 .. n, S # {}
    PROVE  \E m \in S : \A x \in S : m >= x
<1> DEFINE Less == OpToRel(<, Nat)
           From == {n - x : x \in S}
<1>1. From \subseteq Nat /\ From # {}
  <2>1. \A x \in S : n - x \in Nat
    OBVIOUS
  <2>2. PICK x \in S : TRUE
    OBVIOUS
  <2>3. n - x \in From
    OBVIOUS
  <2> QED BY <2>1, <2>3
<1>2. PICK k \in From : \A x \in From : ~(<<x, k>> \in Less)
  <2>1. IsWellFoundedOn(Less, Nat)
    BY NatLessThanWellFounded
  <2> HIDE DEF Less, From
  <2> QED BY <1>1, <2>1, WFMin, Zenon
<1>3. PICK m \in S : k = n - m
  BY <1>2
<1>4. ASSUME NEW x \in S
      PROVE  m >= x
  <2>1. n - x \in From /\ n - x \in Nat /\ k \in Nat
    BY <1>1
  <2>2. ~(<<n - x, k>> \in Less)
    BY <1>2, <2>1
  <2>3. ~(n - x < k)
    BY <2>1, <2>2 DEF OpToRel
  <2> QED BY <1>3, <2>3
<1> QED BY <1>4

\* The idempotency key is the newest of the comments a task covers.
LEMMA KeyIsNewest ==
    ASSUME NEW n \in Nat, NEW S, S \subseteq 1 .. n, S # {}
    PROVE  /\ idempotency_key(S) \in S
           /\ \A c \in S : c <= idempotency_key(S)
<1> DEFINE Greatest(m) == \A x \in S : m >= x
<1>1. \E m \in S : Greatest(m)
  BY GreatestNatural
<1>2. idempotency_key(S) = CHOOSE m \in S : Greatest(m)
  BY DEF idempotency_key, Max
<1>3. idempotency_key(S) \in S /\ Greatest(idempotency_key(S))
  <2> HIDE DEF Greatest
  <2> QED BY <1>1, <1>2, Zenon
<1> QED BY <1>3

LEMMA LeastTask ==
    ASSUME NEW S, S \subseteq Tasks, S # {}
    PROVE  \E t \in S : IsOldest(t, S)
<1> DEFINE Less == OpToRel(<, Nat)
<1>1. PICK n \in S : \A m \in S : ~(<<m, n>> \in Less)
  <2>1. IsWellFoundedOn(Less, Nat)
    BY NatLessThanWellFounded
  <2>2. S \subseteq Nat
    BY TasksAssumption
  <2> HIDE DEF Less
  <2> QED BY <2>1, <2>2, WFMin, Zenon
<1>2. \A m \in S : ~(m < n)
  BY <1>1, TasksAssumption DEF OpToRel
<1> QED BY <1>2, TasksAssumption DEF IsOldest

-----------------------------------------------------------------------------
(* What the statements together keep of a thread. *)

Key(d, t) == idempotency_key(d.comment_ids[t])

Cancelled(d, t) == d.rows[t].state = "cancelled"

\* Every inserted task covers comments of the thread.  A comment two tasks
\* cover was handed on by a cancelled one to the task that combined it; the
\* newest comment of a task is in no other but through that, and no two tasks
\* share it.
Covering(d) ==
    /\ Len(d.comments) <= MaxComments
    /\ \A t \in Tasks : /\ d.comment_ids[t] \subseteq 1 .. Len(d.comments)
                        /\ d.rows[t].state = "none" <=> d.comment_ids[t] = {}
    /\ \A t, u \in Tasks : t # u =>
        /\ d.comment_ids[t] \cap d.comment_ids[u] # {} => Cancelled(d, t) \/ Cancelled(d, u)
        /\ d.comment_ids[t] # {} /\ Key(d, t) \in d.comment_ids[u] => Cancelled(d, t)
        /\ d.comment_ids[t] # {} /\ d.comment_ids[u] # {} => Key(d, t) # Key(d, u)

\* Every iteration addresses comments of the thread, each its own newest.
Addressing(d) ==
    /\ \A i \in DOMAIN d.iterations :
        /\ d.iterations[i].comment_ids # {}
        /\ d.iterations[i].comment_ids \subseteq 1 .. Len(d.comments)
    /\ \A i, j \in DOMAIN d.iterations :
        i # j => idempotency_key(d.iterations[i].comment_ids)
                     # idempotency_key(d.iterations[j].comment_ids)

Coherent(d) == d \in Database /\ GoodTable(d.rows) /\ Covering(d) /\ Addressing(d)

LEMMA NewThreadIsCoherent == Coherent(NewThread)
<1>1. GoodTable(EmptyTable)
  BY EmptyIsGood
<1>2. NewThread \in Database
  BY <1>1 DEF NewThread, Database, GoodTable, Statuses
<1>3. Covering(NewThread)
  BY EnoughTasks DEF NewThread, Covering, EmptyTable, NoRow
<1>4. Addressing(NewThread)
  BY DEF NewThread, Addressing
<1> QED BY <1>1, <1>2, <1>3, <1>4 DEF Coherent, NewThread

LEMMA CommentsCounted ==
    ASSUME NEW d, Coherent(d)
    PROVE  /\ Len(d.comments) \in Nat
           /\ d.comment_ids \in [Tasks -> SUBSET Nat]
           /\ d.rows \in Table
           /\ d.iterations \in Seq(Iteration)
BY DEF Coherent, Database

\* As long as some comment is covered by no task, there is a task to insert:
\* each of those inserted has a newest comment of its own.
LEMMA FreshTaskIsFresh ==
    ASSUME NEW d, Coherent(d),
           NEW c \in 1 .. Len(d.comments), c \notin covered_comment_ids(d)
    PROVE  FreshTask(d) \in Tasks /\ IsFresh(d.rows, FreshTask(d))
<1>1. Len(d.comments) \in Nat /\ Len(d.comments) <= MaxComments /\ MaxComments \in Nat
  BY CommentsCounted, EnoughTasks DEF Coherent, Covering
<1>2. InState(d.rows, "none") # {}
  <2> SUFFICES ASSUME InState(d.rows, "none") = {} PROVE FALSE
    OBVIOUS
  <2>1. \A t \in Tasks : /\ d.comment_ids[t] # {}
                         /\ d.comment_ids[t] \subseteq 1 .. Len(d.comments)
    BY DEF InState, Coherent, Covering
  <2>2. \A t \in Tasks : Key(d, t) \in d.comment_ids[t]
    BY <1>1, <2>1, KeyIsNewest DEF Key
  <2> DEFINE T == (1 .. MaxComments) \ {c}
             f == [t \in Tasks |-> Key(d, t)]
  <2>3. f \in [Tasks -> T]
    <3> SUFFICES ASSUME NEW t \in Tasks PROVE Key(d, t) \in T
      OBVIOUS
    <3>1. Key(d, t) \in 1 .. MaxComments
      BY <1>1, <2>1, <2>2
    <3>2. Key(d, t) # c
      BY <2>2 DEF covered_comment_ids
    <3> QED BY <3>1, <3>2
  <2>4. IsFiniteSet(Tasks) /\ Cardinality(Tasks) = MaxComments
    BY <1>1, FS_Interval, EnoughTasks
  <2>5. IsFiniteSet(T) /\ Cardinality(T) < Cardinality(Tasks)
    <3>1. IsFiniteSet(1 .. MaxComments) /\ Cardinality(1 .. MaxComments) = MaxComments
      BY <2>4, EnoughTasks
    <3>2. c \in 1 .. MaxComments
      BY <1>1
    <3>3. Cardinality(T) = MaxComments - 1 /\ IsFiniteSet(T)
      BY <3>1, <3>2, FS_RemoveElement
    <3> QED BY <1>1, <2>4, <3>3
  <2>6. \E t, u \in Tasks : t # u /\ f[t] = f[u]
    <3> HIDE DEF T, f
    <3> QED BY <2>3, <2>4, <2>5, FS_PigeonHole
  <2> QED BY <2>1, <2>6 DEF Coherent, Covering
<1>3. \E t \in Tasks : IsFresh(d.rows, t)
  BY <1>2, LeastTask DEF IsFresh, InState
<1> QED BY <1>3, Zenon DEF FreshTask

\* The active task is a live one, and there is one as long as there is a live
\* one.
LEMMA ActiveIsLive ==
    ASSUME NEW d
    PROVE  /\ active_for_thread(d) # NoTask => active_for_thread(d) \in Live(d.rows)
           /\ active_for_thread(d) # NoTask => active_for_thread(d) \in Tasks
           /\ active_for_thread(d) = NoTask <=> Live(d.rows) = {}
<1>1. CASE Live(d.rows) = {}
  BY <1>1 DEF active_for_thread
<1>2. CASE Live(d.rows) # {}
  <2>1. Live(d.rows) \subseteq Tasks
    BY DEF Live, InState
  <2>2. \E t \in Tasks : IsNewest(t, Live(d.rows))
    <3>1. Live(d.rows) \subseteq 1 .. MaxComments /\ MaxComments \in Nat
      BY <2>1, EnoughTasks
    <3>2. PICK m \in Live(d.rows) : \A x \in Live(d.rows) : m >= x
      BY <1>2, <3>1, GreatestNatural
    <3> QED BY <2>1, <3>2, TasksAssumption DEF IsNewest
  <2>3. active_for_thread(d) = CHOOSE t \in Tasks : IsNewest(t, Live(d.rows))
    BY <1>2 DEF active_for_thread
  <2>4. active_for_thread(d) \in Tasks /\ IsNewest(active_for_thread(d), Live(d.rows))
    BY <2>2, <2>3, Zenon
  <2> QED BY <1>2, <2>4 DEF IsNewest
<1> QED BY <1>1, <1>2

-----------------------------------------------------------------------------
(* Statements that leave the tasks' work as it is, or only move its rows. *)

SameWork(d, e) ==
    /\ e.rows = d.rows /\ e.comment_ids = d.comment_ids
    /\ e.comments = d.comments /\ e.iterations = d.iterations

LEMMA SameWorkCoherent ==
    ASSUME NEW d, Coherent(d), NEW e \in Database, SameWork(d, e)
    PROVE  Coherent(e)
BY DEF Coherent, SameWork, Covering, Addressing, Key, Cancelled

LEMMA SetStatus ==
    ASSUME NEW d \in Database, NEW status \in Statuses
    PROVE  set_status(d, status) \in Database /\ SameWork(d, set_status(d, status))
BY DEF set_status, Database, SameWork

LEMMA SetPrUrl ==
    ASSUME NEW d \in Database, NEW version \in Nat
    PROVE  set_pr_url(d, version) \in Database /\ SameWork(d, set_pr_url(d, version))
BY DEF set_pr_url, Database, SameWork

LEMMA WithRows ==
    ASSUME NEW d \in Database, NEW R \in Table
    PROVE  /\ with_rows(d, R) \in Database
           /\ with_rows(d, R).rows = R
           /\ with_rows(d, R).comment_ids = d.comment_ids
           /\ with_rows(d, R).comments = d.comments
           /\ with_rows(d, R).iterations = d.iterations
BY DEF with_rows, Database

LEMMA AppendComment ==
    ASSUME NEW d \in Database, NEW agent \in BOOLEAN, NEW sha \in Int
    PROVE  LET e == append_comment(d, agent, sha)
           IN /\ e \in Database
              /\ e.rows = d.rows /\ e.comment_ids = d.comment_ids
              /\ e.iterations = d.iterations
              /\ Len(e.comments) = Len(d.comments) + 1
<1> DEFINE c == [agent |-> agent, sha |-> sha]
<1>1. d.comments \in Seq(Comment)
  BY DEF Database
<1>2. c \in Comment
  BY DEF Comment
<1>3. Append(d.comments, c) \in Seq(Comment) /\ Len(Append(d.comments, c)) = Len(d.comments) + 1
  <2> HIDE DEF c
  <2> QED BY <1>1, <1>2
<1>4. append_comment(d, agent, sha) = [d EXCEPT !.comments = Append(d.comments, c)]
  BY DEF append_comment
<1> HIDE DEF c
<1> QED BY <1>3, <1>4 DEF Database

\* A row more or less advanced in its life still covers what it covers.
LEMMA RowsCoherent ==
    ASSUME NEW d, Coherent(d), NEW e \in Database,
           GoodTable(e.rows),
           e.comment_ids = d.comment_ids, e.comments = d.comments,
           e.iterations = d.iterations,
           \A t \in Tasks : /\ e.rows[t].state = "none" <=> d.rows[t].state = "none"
                            /\ Cancelled(d, t) => Cancelled(e, t)
    PROVE  Coherent(e)
<1>1. Covering(e)
  BY DEF Coherent, Covering, Key
<1>2. Addressing(e)
  BY DEF Coherent, Addressing
<1> QED BY <1>1, <1>2 DEF Coherent

\* A comment more.
LEMMA CommentCoherent ==
    ASSUME NEW d, Coherent(d), NEW e \in Database,
           e.rows = d.rows, e.comment_ids = d.comment_ids, e.iterations = d.iterations,
           Len(e.comments) = Len(d.comments) + 1, Len(d.comments) < MaxComments
    PROVE  Coherent(e)
<1>1. Len(d.comments) \in Nat /\ MaxComments \in Nat
  BY CommentsCounted, EnoughTasks
<1>2. 1 .. Len(d.comments) \subseteq 1 .. Len(e.comments) /\ Len(e.comments) <= MaxComments
  BY <1>1
<1>3. Covering(e)
  BY <1>2 DEF Coherent, Covering, Key, Cancelled
<1>4. Addressing(e)
  BY <1>2 DEF Coherent, Addressing
<1> QED BY <1>3, <1>4 DEF Coherent

-----------------------------------------------------------------------------
(* Statements that change what a task covers. *)

\* What _submit may be asked to make a task of.
Submittable(d, ids) ==
    /\ ids # {} /\ ids \subseteq 1 .. Len(d.comments)
    /\ idempotency_key(ids) \notin covered_comment_ids(d)
    /\ \A u \in Tasks : d.comment_ids[u] \cap ids # {} => Cancelled(d, u)

\* e is d with a new task t for ids.
Enqueued(d, t, ids, e) ==
    /\ e \in Database
    /\ e.rows = enqueue(d.rows, t)
    /\ e.comment_ids = [d.comment_ids EXCEPT ![t] = ids]
    /\ e.comments = d.comments /\ e.iterations = d.iterations
    /\ e.status = d.status /\ e.preview_sha = d.preview_sha /\ e.pr_url = d.pr_url

LEMMA EnqueueTask ==
    ASSUME NEW d, Coherent(d), NEW t \in Tasks, NEW ids, ids \in SUBSET Nat
    PROVE  Enqueued(d, t, ids, enqueue_task(d, t, ids))
<1>1. enqueue(d.rows, t) \in Table
  BY EnqueueKeepsGood DEF Coherent, GoodTable
<1>2. [d.comment_ids EXCEPT ![t] = ids] \in [Tasks -> SUBSET Nat]
  BY DEF Coherent, Database
<1>3. enqueue_task(d, t, ids) =
        [d EXCEPT !.rows = enqueue(d.rows, t),
                  !.comment_ids = [d.comment_ids EXCEPT ![t] = ids]]
  BY DEF enqueue_task, Coherent, Database
<1> QED BY <1>1, <1>2, <1>3 DEF Enqueued, Coherent, Database

LEMMA EnqueueCoherent ==
    ASSUME NEW d, Coherent(d), NEW t \in Tasks, d.rows[t].state = "none",
           NEW ids, Submittable(d, ids)
    PROVE  Coherent(enqueue_task(d, t, ids))
<1> DEFINE e == enqueue_task(d, t, ids)
<1>1. Len(d.comments) \in Nat /\ ids \in SUBSET Nat
  BY CommentsCounted DEF Submittable
<1>a. Enqueued(d, t, ids, e)
  BY <1>1, EnqueueTask
<1> HIDE DEF e
<1>2. /\ e \in Database
      /\ e.rows = enqueue(d.rows, t)
      /\ e.comment_ids = [d.comment_ids EXCEPT ![t] = ids]
      /\ e.comments = d.comments /\ e.iterations = d.iterations
  BY <1>a DEF Enqueued
<1>3. GoodTable(e.rows)
  BY <1>2, EnqueueKeepsGood DEF Coherent
<1>4. /\ e.rows[t].state = "queued" /\ e.comment_ids[t] = ids
      /\ \A u \in Tasks : u # t => e.rows[u] = d.rows[u] /\ e.comment_ids[u] = d.comment_ids[u]
  BY <1>2, CommentsCounted DEF enqueue, NoRow, Table
<1>5. idempotency_key(ids) \in ids
  BY <1>1, KeyIsNewest DEF Submittable
<1>6. \A u \in Tasks : d.comment_ids[u] # {} => Key(d, u) \in d.comment_ids[u]
  BY <1>1, KeyIsNewest DEF Coherent, Covering, Key
<1>7. Covering(e)
  <2>1. \A u \in Tasks : idempotency_key(ids) \notin d.comment_ids[u]
    BY DEF Submittable, covered_comment_ids
  <2>2. ASSUME NEW u \in Tasks, u # t
        PROVE  /\ e.comment_ids[t] \cap e.comment_ids[u] # {} => Cancelled(e, u)
               /\ Key(e, t) \notin e.comment_ids[u]
               /\ e.comment_ids[u] # {} /\ Key(e, u) \in e.comment_ids[t] => Cancelled(e, u)
               /\ e.comment_ids[u] # {} => Key(e, t) # Key(e, u)
    BY <2>1, <2>2, <1>4, <1>5, <1>6 DEF Submittable, Key, Cancelled
  <2>3. ASSUME NEW u \in Tasks, NEW v \in Tasks, u # t, v # t, u # v
        PROVE  /\ e.comment_ids[u] \cap e.comment_ids[v] # {} => Cancelled(e, u) \/ Cancelled(e, v)
               /\ e.comment_ids[u] # {} /\ Key(e, u) \in e.comment_ids[v] => Cancelled(e, u)
               /\ e.comment_ids[u] # {} /\ e.comment_ids[v] # {} => Key(e, u) # Key(e, v)
    BY <2>3, <1>4 DEF Coherent, Covering, Key, Cancelled
  <2>4. ASSUME NEW u \in Tasks
        PROVE  /\ e.comment_ids[u] \subseteq 1 .. Len(e.comments)
               /\ e.rows[u].state = "none" <=> e.comment_ids[u] = {}
    <3>1. CASE u = t
      BY <1>2, <1>4, <3>1 DEF Submittable
    <3>2. CASE u # t
      <4>1. /\ d.comment_ids[u] \subseteq 1 .. Len(d.comments)
            /\ d.rows[u].state = "none" <=> d.comment_ids[u] = {}
        BY DEF Coherent, Covering
      <4> QED BY <1>2, <1>4, <3>2, <4>1
    <3> QED BY <3>1, <3>2
  <2>5. Len(e.comments) <= MaxComments
    BY <1>2 DEF Coherent, Covering
  <2> QED BY <2>2, <2>3, <2>4, <2>5 DEF Covering
<1>8. Addressing(e)
  BY <1>2 DEF Coherent, Addressing
<1> QED BY <1>2, <1>3, <1>7, <1>8 DEF Coherent, e

\* A queued task takes on the comment just made.
LEMMA CoalesceCoherent ==
    ASSUME NEW d, Coherent(d), NEW t \in Tasks, d.rows[t].state = "queued",
           NEW c, c = Len(d.comments), c > 0, c \notin covered_comment_ids(d)
    PROVE  LET e == coalesce_comment(d, t, c)
           IN /\ Coherent(e)
              /\ e.rows = d.rows /\ e.comments = d.comments /\ e.iterations = d.iterations
              /\ e.comment_ids = [d.comment_ids EXCEPT ![t] = d.comment_ids[t] \cup {c}]
<1> DEFINE e == coalesce_comment(d, t, c)
           ids == d.comment_ids[t] \cup {c}
<1>1. c \in Nat /\ d.comment_ids \in [Tasks -> SUBSET Nat]
  BY CommentsCounted
<1>2. /\ e \in Database
      /\ e.comment_ids = [d.comment_ids EXCEPT ![t] = ids]
      /\ e.rows = d.rows /\ e.comments = d.comments /\ e.iterations = d.iterations
  <2>1. [d.comment_ids EXCEPT ![t] = ids] \in [Tasks -> SUBSET Nat]
    BY <1>1
  <2>2. e = [d EXCEPT !.comment_ids = [d.comment_ids EXCEPT ![t] = ids]]
    BY DEF coalesce_comment
  <2> HIDE DEF e, ids
  <2> QED BY <2>1, <2>2 DEF Coherent, Database
<1>3. ids # {} /\ ids \subseteq 1 .. Len(d.comments)
  BY <1>1 DEF Coherent, Covering
<1>4. idempotency_key(ids) = c
  <2>1. c \in ids /\ \A x \in ids : x <= c /\ x \in Nat
    BY <1>1, <1>3
  <2>2. idempotency_key(ids) \in ids /\ c <= idempotency_key(ids)
    BY <1>1, <1>3, <2>1, KeyIsNewest
  <2> QED BY <1>1, <2>1, <2>2
<1>5. /\ e.comment_ids[t] = ids
      /\ \A u \in Tasks : u # t => e.comment_ids[u] = d.comment_ids[u]
  BY <1>1, <1>2
<1> HIDE DEF e, ids
<1>6. \A u \in Tasks : d.comment_ids[u] # {} => Key(d, u) \in d.comment_ids[u]
  BY <1>1, KeyIsNewest DEF Coherent, Covering, Key
<1>7. \A u \in Tasks : c \notin d.comment_ids[u]
  BY DEF covered_comment_ids
<1>8. Covering(e)
  <2>1. ASSUME NEW u \in Tasks, u # t
        PROVE  /\ e.comment_ids[t] \cap e.comment_ids[u] # {} => Cancelled(e, u)
               /\ Key(e, t) \notin e.comment_ids[u]
               /\ e.comment_ids[u] # {} /\ Key(e, u) \in e.comment_ids[t] => Cancelled(e, u)
               /\ e.comment_ids[u] # {} => Key(e, t) # Key(e, u)
    <3>1. d.comment_ids[t] \cap d.comment_ids[u] # {} => Cancelled(d, u)
      BY <2>1 DEF Coherent, Covering, Cancelled
    <3>2. d.comment_ids[u] # {} /\ Key(d, u) \in d.comment_ids[t] => Cancelled(d, u)
      BY <2>1 DEF Coherent, Covering
    <3> QED BY <2>1, <3>1, <3>2, <1>2, <1>4, <1>5, <1>6, <1>7 DEF Key, Cancelled, ids
  <2>2. ASSUME NEW u \in Tasks, NEW v \in Tasks, u # t, v # t, u # v
        PROVE  /\ e.comment_ids[u] \cap e.comment_ids[v] # {} => Cancelled(e, u) \/ Cancelled(e, v)
               /\ e.comment_ids[u] # {} /\ Key(e, u) \in e.comment_ids[v] => Cancelled(e, u)
               /\ e.comment_ids[u] # {} /\ e.comment_ids[v] # {} => Key(e, u) # Key(e, v)
    BY <2>2, <1>2, <1>5 DEF Coherent, Covering, Key, Cancelled
  <2>3. \A u \in Tasks : /\ e.comment_ids[u] \subseteq 1 .. Len(e.comments)
                         /\ e.rows[u].state = "none" <=> e.comment_ids[u] = {}
    BY <1>2, <1>3, <1>5 DEF Coherent, Covering
  <2>4. Len(e.comments) <= MaxComments
    BY <1>2 DEF Coherent, Covering
  <2> QED BY <2>1, <2>2, <2>3, <2>4 DEF Covering
<1>9. Addressing(e)
  BY <1>2 DEF Coherent, Addressing
<1>10. Coherent(e)
  BY <1>2, <1>8, <1>9 DEF Coherent
<1> QED BY <1>2, <1>10 DEF e, ids

-----------------------------------------------------------------------------
(* An iteration more. *)

LEMMA AddressedAppend ==
    ASSUME NEW d, d.iterations \in Seq(Iteration), NEW it \in Iteration,
           NEW e, e.iterations = Append(d.iterations, it)
    PROVE  addressed(e) = addressed(d) \cup it.comment_ids
<1>1. /\ DOMAIN e.iterations = 1 .. Len(d.iterations) + 1
      /\ DOMAIN d.iterations = 1 .. Len(d.iterations)
      /\ e.iterations[Len(d.iterations) + 1] = it
      /\ \A i \in 1 .. Len(d.iterations) : e.iterations[i] = d.iterations[i]
      /\ Len(d.iterations) \in Nat
  OBVIOUS
<1>2. Len(d.iterations) + 1 \in DOMAIN e.iterations
  BY <1>1
<1>3. \A c : c \in addressed(e) => c \in addressed(d) \cup it.comment_ids
  BY <1>1 DEF addressed
<1>4. \A c : c \in addressed(d) => c \in addressed(e)
  BY <1>1 DEF addressed
<1>5. \A c : c \in it.comment_ids => c \in addressed(e)
  BY <1>1, <1>2 DEF addressed
<1> QED BY <1>3, <1>4, <1>5

\* The database after the first commit of add_iteration, and the last.
LEMMA AddIteration ==
    ASSUME NEW d, Coherent(d), NEW parent \in Nat,
           NEW ids, ids # {}, ids \subseteq 1 .. Len(d.comments), ~already_applied(d, ids)
    PROVE  LET it == [parent |-> parent, comment_ids |-> ids]
               d1 == [d EXCEPT !.iterations = Append(d.iterations, it)]
               d2 == [d1 EXCEPT !.preview_sha = Len(d1.iterations)]
           IN /\ add_iteration_commits(d, parent, ids) = <<d1, d2>>
              /\ Coherent(d1) /\ Coherent(d2)
              /\ SameWork(d1, d2)
              /\ d1.rows = d.rows /\ d1.comment_ids = d.comment_ids
              /\ d1.comments = d.comments
              /\ d1.iterations = Append(d.iterations, it)
<1> DEFINE it == [parent |-> parent, comment_ids |-> ids]
           its == Append(d.iterations, it)
           d1 == [d EXCEPT !.iterations = its]
           d2 == [d1 EXCEPT !.preview_sha = Len(d1.iterations)]
<1>1. /\ it \in Iteration /\ it.comment_ids = ids
      /\ d.iterations \in Seq(Iteration) /\ Len(d.comments) \in Nat
  BY CommentsCounted DEF Iteration
<1>2. add_iteration_commits(d, parent, ids) = <<d1, d2>>
  BY DEF add_iteration_commits
<1> HIDE DEF it
<1>3. /\ its \in Seq(Iteration) /\ Len(its) \in Nat /\ Len(its) = Len(d.iterations) + 1
      /\ DOMAIN its = 1 .. Len(its)
      /\ its[Len(its)] = it
      /\ \A i \in 1 .. Len(d.iterations) : its[i] = d.iterations[i]
      /\ DOMAIN d.iterations = 1 .. Len(d.iterations)
  BY <1>1
<1> HIDE DEF its
<1>4. /\ d1 \in Database /\ d1.iterations = its
      /\ d1.rows = d.rows /\ d1.comment_ids = d.comment_ids /\ d1.comments = d.comments
  BY <1>3 DEF Coherent, Database
<1>5. Addressing(d1)
  <2>1. \A i \in 1 .. Len(d.iterations) :
            /\ its[i].comment_ids = d.iterations[i].comment_ids
            /\ its[i].comment_ids # {}
            /\ its[i].comment_ids \subseteq 1 .. Len(d.comments)
    BY <1>3 DEF Coherent, Addressing
  <2>2. its[Len(its)].comment_ids = ids
    BY <1>1, <1>3
  <2>3. ASSUME NEW i \in 1 .. Len(d.iterations)
        PROVE  idempotency_key(its[i].comment_ids) # idempotency_key(ids)
    <3>1. idempotency_key(its[i].comment_ids) \in d.iterations[i].comment_ids
      BY <1>1, <2>1, KeyIsNewest
    <3>2. idempotency_key(its[i].comment_ids) \in addressed(d)
      BY <1>3, <3>1 DEF addressed
    <3> QED BY <3>2 DEF already_applied
  <2>4. \A i, j \in 1 .. Len(d.iterations) :
            i # j => idempotency_key(its[i].comment_ids) # idempotency_key(its[j].comment_ids)
    BY <1>3 DEF Coherent, Addressing
  <2>5. \A i \in DOMAIN its : i \in 1 .. Len(d.iterations) \/ i = Len(its)
    BY <1>1, <1>3
  <2> HIDE DEF d1
  <2> QED BY <1>4, <2>1, <2>2, <2>3, <2>4, <2>5 DEF Addressing
<1>6. Coherent(d1)
  <2> HIDE DEF d1
  <2> QED BY <1>4, <1>5 DEF Coherent, Covering, Key, Cancelled
<1>7. d2 \in Database /\ SameWork(d1, d2)
  <2>1. Len(d1.iterations) \in Nat
    BY <1>3, <1>4
  <2> HIDE DEF d1
  <2> QED BY <1>4, <2>1 DEF Database, SameWork
<1>8. Coherent(d2)
  <2> HIDE DEF d1, d2
  <2> QED BY <1>6, <1>7, SameWorkCoherent
<1> QED BY <1>2, <1>4, <1>6, <1>7, <1>8 DEF its, it

IterationOf(parent, ids) == [parent |-> parent, comment_ids |-> ids]

\* d1 is d with an iteration more, d2 differs from it by no work.
Recording(d, parent, ids, d1, d2) ==
    /\ add_iteration_commits(d, parent, ids) = <<d1, d2>>
    /\ SameWork(d1, d2)
    /\ d1.rows = d.rows /\ d1.comment_ids = d.comment_ids
    /\ d1.comments = d.comments
    /\ d1.iterations = Append(d.iterations, IterationOf(parent, ids))

\* The same, by what the two statements leave and change.
LEMMA TwoStatements ==
    ASSUME NEW d, Coherent(d), NEW parent \in Nat,
           NEW ids, ids # {}, ids \subseteq 1 .. Len(d.comments), ~already_applied(d, ids)
    PROVE  \E d1, d2 : Recording(d, parent, ids, d1, d2)
<1> DEFINE it == [parent |-> parent, comment_ids |-> ids]
           d1 == [d EXCEPT !.iterations = Append(d.iterations, it)]
           d2 == [d1 EXCEPT !.preview_sha = Len(d1.iterations)]
<1>1. /\ add_iteration_commits(d, parent, ids) = <<d1, d2>>
      /\ SameWork(d1, d2)
      /\ d1.rows = d.rows /\ d1.comment_ids = d.comment_ids
      /\ d1.comments = d.comments
      /\ d1.iterations = Append(d.iterations, it)
  BY AddIteration
<1> HIDE DEF d1, d2
<1> QED BY <1>1 DEF Recording, IterationOf

-----------------------------------------------------------------------------
(* What a turn may make of the database it found. *)

Oldest(d, t) == \A u \in Tasks : d.rows[u].state = "queued" => t <= u

\* Comments a task may be given: new ones, and those of tasks that were not
\* cancelled.
Clean(d, ids) ==
    \A c \in ids : c \in covered_comment_ids(d) =>
        \E u \in Tasks : ~Cancelled(d, u) /\ c \in d.comment_ids[u]

\* Every task takes at most one step of its life; a delivered one keeps its
\* comments; what was covered stays covered; nothing comes back from a
\* cancelled task.
After(d, e) ==
    /\ \A t \in Tasks : /\ Moved(d.rows[t], e.rows[t], Oldest(d, t))
                        /\ d.rows[t].state \notin {"none", "queued"} =>
                                e.comment_ids[t] = d.comment_ids[t]
                        /\ ~Cancelled(e, t) => Clean(d, e.comment_ids[t])
    /\ covered_comment_ids(d) \subseteq covered_comment_ids(e)

\* The coherent databases a turn may commit with iterations its.
Later(d, its) == {e \in Database : Coherent(e) /\ After(d, e) /\ e.iterations = its}

\* The database a list of commits leaves.
End(d, commits) == IF commits = <<>> THEN d ELSE Last(commits)

KeepsRows(d, e) == \A t \in Tasks : d.rows[t].state # "none" => e.rows[t] = d.rows[t]

LEMMA LaterSelf ==
    ASSUME NEW d, Coherent(d)
    PROVE  d \in Later(d, d.iterations)
<1>1. After(d, d)
  BY DEF After, Moved, Clean
<1> QED BY <1>1 DEF Later, Coherent

LEMMA LaterSameWork ==
    ASSUME NEW d, NEW its, NEW e \in Later(d, its), NEW f \in Database, SameWork(e, f)
    PROVE  f \in Later(d, its)
<1>1. Coherent(f)
  BY SameWorkCoherent DEF Later
<1>2. After(d, f)
  BY DEF Later, SameWork, After, Cancelled, covered_comment_ids
<1> QED BY <1>1, <1>2 DEF Later, SameWork

LEMMA LaterStatus ==
    ASSUME NEW d, NEW its, NEW e \in Later(d, its), NEW status \in Statuses
    PROVE  /\ set_status(e, status) \in Later(d, its)
           /\ SameWork(e, set_status(e, status))
BY SetStatus, LaterSameWork DEF Later

\* Rows that take a step.
LEMMA LaterRows ==
    ASSUME NEW d, NEW its, NEW e \in Later(d, its), e.rows = d.rows,
           NEW R, GoodTable(R),
           \A t \in Tasks : /\ Moved(d.rows[t], R[t], Oldest(d, t))
                            /\ R[t].state = "none" <=> d.rows[t].state = "none"
    PROVE  /\ with_rows(e, R) \in Later(d, its)
           /\ with_rows(e, R).rows = R
           /\ with_rows(e, R).comment_ids = e.comment_ids
           /\ with_rows(e, R).comments = e.comments
<1> DEFINE f == with_rows(e, R)
<1>1. /\ f \in Database /\ f.rows = R
      /\ f.comment_ids = e.comment_ids /\ f.comments = e.comments
      /\ f.iterations = e.iterations
  BY WithRows DEF GoodTable, Later
<1> HIDE DEF f
<1>2. \A t \in Tasks : Cancelled(e, t) => Cancelled(f, t)
  BY <1>1 DEF Moved, Cancelled
<1>3. Coherent(f)
  BY <1>1, <1>2, RowsCoherent DEF Later
<1>4. After(d, f)
  BY <1>1, <1>2 DEF Later, After, covered_comment_ids
<1> QED BY <1>1, <1>3, <1>4 DEF Later, f

\* One row that takes a step.
LEMMA LaterRow ==
    ASSUME NEW d, NEW its, NEW e \in Later(d, its), e.rows = d.rows,
           NEW t \in Tasks, d.rows[t].state # "none",
           NEW R, GoodTable(R),
           Moved(d.rows[t], R[t], Oldest(d, t)), R[t].state # "none",
           \A u \in Tasks : u # t => R[u] = d.rows[u]
    PROVE  /\ with_rows(e, R) \in Later(d, its)
           /\ with_rows(e, R).rows = R
           /\ with_rows(e, R).comment_ids = e.comment_ids
           /\ with_rows(e, R).comments = e.comments
<1>1. ASSUME NEW u \in Tasks
      PROVE  /\ Moved(d.rows[u], R[u], Oldest(d, u))
             /\ R[u].state = "none" <=> d.rows[u].state = "none"
  BY DEF Moved
<1> QED BY <1>1, LaterRows

LEMMA LaterComment ==
    ASSUME NEW d, Coherent(d), Len(d.comments) < MaxComments,
           NEW agent \in BOOLEAN, NEW sha \in Int
    PROVE  append_comment(d, agent, sha) \in Later(d, d.iterations)
<1> DEFINE e == append_comment(d, agent, sha)
<1>1. /\ e \in Database
      /\ e.rows = d.rows /\ e.comment_ids = d.comment_ids /\ e.iterations = d.iterations
      /\ Len(e.comments) = Len(d.comments) + 1
  BY AppendComment DEF Coherent
<1> HIDE DEF e
<1>2. Coherent(e)
  BY <1>1, CommentCoherent
<1>3. After(d, e)
  BY <1>1 DEF After, Moved, Clean, Cancelled, covered_comment_ids
<1> QED BY <1>1, <1>2, <1>3 DEF Later, e

LEMMA LaterCoalesced ==
    ASSUME NEW d, NEW its, NEW e \in Later(d, its), e.rows = d.rows,
           NEW t \in Tasks, e.rows[t].state = "queued",
           NEW c, c = Len(e.comments), c > 0, c \notin covered_comment_ids(e)
    PROVE  /\ coalesce_comment(e, t, c) \in Later(d, its)
           /\ coalesce_comment(e, t, c).rows = e.rows
<1> DEFINE f == coalesce_comment(e, t, c)
<1>1. /\ Coherent(f)
      /\ f.rows = e.rows /\ f.comments = e.comments /\ f.iterations = e.iterations
      /\ f.comment_ids = [e.comment_ids EXCEPT ![t] = e.comment_ids[t] \cup {c}]
  BY CoalesceCoherent DEF Later
<1> HIDE DEF f
<1>2. /\ f.comment_ids[t] = e.comment_ids[t] \cup {c}
      /\ \A u \in Tasks : u # t => f.comment_ids[u] = e.comment_ids[u]
  BY <1>1, CommentsCounted DEF Later
<1>3. covered_comment_ids(d) \subseteq covered_comment_ids(f)
  BY <1>2 DEF Later, After, covered_comment_ids
<1>4. Clean(d, f.comment_ids[t])
  <2>1. Clean(d, e.comment_ids[t])
    BY DEF Later, After, Cancelled
  <2>2. c \notin covered_comment_ids(d)
    BY DEF Later, After
  <2> QED BY <1>2, <2>1, <2>2 DEF Clean
<1>5. After(d, f)
  BY <1>1, <1>2, <1>3, <1>4 DEF Later, After, Cancelled
<1> QED BY <1>1, <1>5 DEF Later, Coherent, f

LEMMA LaterEnqueued ==
    ASSUME NEW d, NEW its, NEW e \in Later(d, its),
           NEW t \in Tasks, e.rows[t].state = "none",
           NEW ids, Submittable(e, ids), Clean(d, ids)
    PROVE  /\ enqueue_task(e, t, ids) \in Later(d, its)
           /\ KeepsRows(e, enqueue_task(e, t, ids))
<1> DEFINE f == enqueue_task(e, t, ids)
<1>1. Coherent(e) /\ ids \in SUBSET Nat
  BY DEF Later, Submittable
<1>2. /\ Coherent(f)
      /\ f.rows = enqueue(e.rows, t)
      /\ f.comment_ids = [e.comment_ids EXCEPT ![t] = ids]
      /\ f.iterations = e.iterations
  <2>1. Coherent(f)
    BY <1>1, EnqueueCoherent
  <2>2. Enqueued(e, t, ids, f)
    BY <1>1, EnqueueTask
  <2> HIDE DEF f
  <2> QED BY <2>1, <2>2 DEF Enqueued
<1> HIDE DEF f
<1>3. /\ f.rows[t].state = "queued" /\ f.rows[t].attempts = 0 /\ f.comment_ids[t] = ids
      /\ \A u \in Tasks : u # t => f.rows[u] = e.rows[u] /\ f.comment_ids[u] = e.comment_ids[u]
  BY <1>1, <1>2, CommentsCounted DEF enqueue, NoRow, Table
<1>4. d.rows[t].state = "none"
  BY DEF Later, After, Moved
<1>5. covered_comment_ids(d) \subseteq covered_comment_ids(f)
  <2>1. e.comment_ids[t] = {}
    BY <1>1 DEF Coherent, Covering
  <2> QED BY <1>3, <2>1 DEF Later, After, covered_comment_ids
<1>6. Moved(d.rows[t], f.rows[t], Oldest(d, t))
  BY <1>3, <1>4 DEF Moved
<1>7. After(d, f)
  BY <1>3, <1>4, <1>5, <1>6 DEF Later, After, Cancelled
<1>8. KeepsRows(e, f)
  BY <1>3 DEF KeepsRows
<1> QED BY <1>2, <1>7, <1>8 DEF Later, Coherent, f

\* The commits of add_iteration.
LEMMA LaterIteration ==
    ASSUME NEW d, Coherent(d), NEW parent \in Nat,
           NEW ids, ids # {}, ids \subseteq 1 .. Len(d.comments), ~already_applied(d, ids)
    PROVE  LET s == add_iteration_commits(d, parent, ids)
               its == Append(d.iterations, [parent |-> parent, comment_ids |-> ids])
           IN /\ s \in Seq(Later(d, its)) /\ s # <<>>
              /\ Last(s) \in Later(d, its)
              /\ Last(s).rows = d.rows
<1> DEFINE it == [parent |-> parent, comment_ids |-> ids]
           its == Append(d.iterations, it)
           d1 == [d EXCEPT !.iterations = its]
           d2 == [d1 EXCEPT !.preview_sha = Len(d1.iterations)]
<1>1. /\ add_iteration_commits(d, parent, ids) = <<d1, d2>>
      /\ Coherent(d1) /\ Coherent(d2) /\ SameWork(d1, d2)
      /\ d1.rows = d.rows /\ d1.comment_ids = d.comment_ids
      /\ d1.iterations = its
  BY AddIteration
<1> HIDE DEF d1, d2, its
<1>2. After(d, d)
  BY LaterSelf DEF Later
<1>3. d1 \in Later(d, its)
  BY <1>1, <1>2 DEF Later, After, Cancelled, covered_comment_ids, Coherent
<1>4. d2 \in Later(d, its) /\ d2.rows = d.rows
  BY <1>1, <1>3, LaterSameWork DEF SameWork, Coherent
<1>5. <<d1, d2>> \in Seq(Later(d, its)) /\ <<d1, d2>> # <<>> /\ Last(<<d1, d2>>) = d2
  BY <1>3, <1>4 DEF Last
<1> QED BY <1>1, <1>4, <1>5 DEF its

LEMMA EndIsLater ==
    ASSUME NEW d, NEW its, NEW e \in Later(d, its), NEW commits \in Seq(Later(d, its))
    PROVE  End(e, commits) \in Later(d, its)
<1>1. CASE commits = <<>>
  BY <1>1 DEF End
<1>2. CASE commits # <<>>
  <2>1. Len(commits) \in 1 .. Len(commits)
    BY <1>2
  <2>2. commits[Len(commits)] \in Later(d, its)
    BY <2>1
  <2> QED BY <1>2, <2>2 DEF End, Last
<1> QED BY <1>1, <1>2

-----------------------------------------------------------------------------
(* Blocks of the runner. *)

\* What _submit leaves.
Submitted(d, ids) == enqueue_task(set_status(d, "triggered"), FreshTask(d), ids)

LEMMA SubmitCommits ==
    ASSUME NEW d, NEW its, NEW e \in Later(d, its),
           NEW ids, Submittable(e, ids), Clean(d, ids)
    PROVE  /\ submit_commits(e, ids) \in Seq(Later(d, its))
           /\ submit_commits(e, ids) = <<set_status(e, "triggered"), Submitted(e, ids)>>
           /\ submit_commits(e, ids) # <<>>
           /\ Last(submit_commits(e, ids)) = Submitted(e, ids)
           /\ KeepsRows(e, Last(submit_commits(e, ids)))
<1> DEFINE e1 == set_status(e, "triggered")
           t == FreshTask(e)
           e2 == enqueue_task(e1, t, ids)
<1>1. Coherent(e) /\ e \in Database
  BY DEF Later
<1>2. e1 \in Later(d, its) /\ SameWork(e, e1)
  BY LaterStatus DEF Statuses, InFlightStatuses
<1>3. t \in Tasks /\ e.rows[t].state = "none"
  <2>1. idempotency_key(ids) \in ids
    BY <1>1, CommentsCounted, KeyIsNewest DEF Submittable
  <2>2. FreshTask(e) \in Tasks /\ IsFresh(e.rows, FreshTask(e))
    BY <1>1, <2>1, FreshTaskIsFresh DEF Submittable
  <2> QED BY <2>2 DEF IsFresh, IsOldest, InState
<1>4. submit_commits(e, ids) = <<e1, e2>>
  <2>1. active_for_thread(e) # NoTask =>
            idempotency_key(e.comment_ids[active_for_thread(e)]) # idempotency_key(ids)
    <3> SUFFICES ASSUME active_for_thread(e) # NoTask
                 PROVE  idempotency_key(e.comment_ids[active_for_thread(e)])
                            \in covered_comment_ids(e)
      BY DEF Submittable
    <3> DEFINE u == active_for_thread(e)
    <3>1. u \in Tasks /\ e.rows[u].state # "none"
      BY ActiveIsLive DEF Live, InState
    <3>2. e.comment_ids[u] # {} /\ e.comment_ids[u] \subseteq 1 .. Len(e.comments)
      BY <1>1, <3>1 DEF Coherent, Covering
    <3>3. idempotency_key(e.comment_ids[u]) \in e.comment_ids[u]
      BY <1>1, <3>2, CommentsCounted, KeyIsNewest
    <3> QED BY <3>1, <3>3 DEF covered_comment_ids
  <2> QED BY <2>1 DEF submit_commits
<1>9. e1 = set_status(e, "triggered") /\ e2 = Submitted(e, ids)
  BY DEF Submitted
<1> HIDE DEF e1, t
<1>5. Submittable(e1, ids) /\ e1.rows[t].state = "none"
  BY <1>2, <1>3 DEF Submittable, SameWork, Cancelled, covered_comment_ids
<1>6. e2 \in Later(d, its) /\ KeepsRows(e1, e2)
  BY <1>2, <1>3, <1>5, LaterEnqueued
<1> HIDE DEF e2
<1>7. <<e1, e2>> \in Seq(Later(d, its)) /\ <<e1, e2>> # <<>> /\ Last(<<e1, e2>>) = e2
  BY <1>2, <1>6 DEF Last
<1>8. KeepsRows(e, e2)
  BY <1>2, <1>6 DEF KeepsRows, SameWork
<1> QED BY <1>4, <1>7, <1>8, <1>9

\* f is e with a task more, t, which waits for a worker.
Added(e, t, ids, f) ==
    /\ e.rows[t].state = "none"
    /\ f.rows[t].state = "queued" /\ f.comment_ids[t] = ids
    /\ \A u \in Tasks : u # t => f.rows[u] = e.rows[u] /\ f.comment_ids[u] = e.comment_ids[u]
    /\ f.comments = e.comments /\ f.iterations = e.iterations
    /\ f.status = "triggered"

LEMMA SubmittedTask ==
    ASSUME NEW e, Coherent(e), NEW ids, Submittable(e, ids)
    PROVE  \E t \in Tasks : Added(e, t, ids, Submitted(e, ids))
<1> DEFINE e1 == set_status(e, "triggered")
           t == FreshTask(e)
           f == enqueue_task(e1, t, ids)
<1>1. e \in Database /\ Len(e.comments) \in Nat
  BY CommentsCounted DEF Coherent
<1>2. idempotency_key(ids) \in ids /\ ids \in SUBSET Nat
  <2>1. ids # {} /\ ids \subseteq 1 .. Len(e.comments)
    BY DEF Submittable
  <2>2. idempotency_key(ids) \in ids
    BY <1>1, <2>1, KeyIsNewest
  <2> QED BY <1>1, <2>1, <2>2
<1>3. t \in Tasks /\ e.rows[t].state = "none"
  <2>1. FreshTask(e) \in Tasks /\ IsFresh(e.rows, FreshTask(e))
    BY <1>2, FreshTaskIsFresh DEF Submittable
  <2> QED BY <2>1 DEF IsFresh, IsOldest, InState
<1>9. f = Submitted(e, ids)
  BY DEF Submitted
<1> HIDE DEF t
<1>4. e1 \in Database /\ SameWork(e, e1) /\ e1.status = "triggered"
  BY <1>1, SetStatus DEF set_status, Database, Statuses, InFlightStatuses
<1>5. Coherent(e1)
  BY <1>4, SameWorkCoherent
<1> HIDE DEF e1
<1>6. Enqueued(e1, t, ids, f)
  BY <1>2, <1>3, <1>5, EnqueueTask
<1> HIDE DEF f
<1>7. /\ f.rows = enqueue(e.rows, t)
      /\ f.comment_ids = [e.comment_ids EXCEPT ![t] = ids]
      /\ f.comments = e.comments /\ f.iterations = e.iterations /\ f.status = "triggered"
  BY <1>4, <1>6 DEF Enqueued, SameWork
<1>8. /\ f.rows[t].state = "queued" /\ f.comment_ids[t] = ids
      /\ \A u \in Tasks : u # t => f.rows[u] = e.rows[u] /\ f.comment_ids[u] = e.comment_ids[u]
  BY <1>3, <1>7, CommentsCounted DEF enqueue, NoRow, Table
<1>10. Added(e, t, ids, f)
  BY <1>3, <1>7, <1>8 DEF Added
<1> QED BY <1>3, <1>9, <1>10

\* What waits for a drain may be made a task of.
LEMMA PendingIsSubmittable ==
    ASSUME NEW d, NEW its, NEW e \in Later(d, its), pending_comment_ids(e) # {}
    PROVE  Submittable(e, pending_comment_ids(e)) /\ Clean(d, pending_comment_ids(e))
<1> DEFINE ids == pending_comment_ids(e)
<1>1. /\ ids \subseteq 1 .. Len(e.comments)
      /\ \A c \in ids : c \notin covered_comment_ids(e)
  BY DEF pending_comment_ids, asks, Later, Database
<1> HIDE DEF ids
<1>2. idempotency_key(ids) \in ids
  <2>1. ids # {} /\ Len(e.comments) \in Nat
    BY CommentsCounted DEF Later, ids
  <2> QED BY <1>1, <2>1, KeyIsNewest
<1>3. Submittable(e, ids)
  BY <1>1, <1>2 DEF Submittable, covered_comment_ids
<1>4. Clean(d, ids)
  BY <1>1 DEF Clean, Later, After
<1> QED BY <1>3, <1>4 DEF ids

LEMMA DrainCommits ==
    ASSUME NEW d, NEW its, NEW e \in Later(d, its)
    PROVE  /\ drain_pending_commits(e) \in Seq(Later(d, its))
           /\ KeepsRows(e, End(e, drain_pending_commits(e)))
<1> DEFINE ids == pending_comment_ids(e)
<1>1. CASE e.status \in ClosedStatuses \cup {"failed"} \/ ids = {}
  <2>1. drain_pending_commits(e) = <<>>
    BY <1>1 DEF drain_pending_commits
  <2> QED BY <2>1 DEF End, KeepsRows
<1>2. CASE ~(e.status \in ClosedStatuses \cup {"failed"} \/ ids = {})
  <2>1. drain_pending_commits(e) = submit_commits(e, ids)
    BY <1>2 DEF drain_pending_commits
  <2>2. Submittable(e, ids) /\ Clean(d, ids)
    BY <1>2, PendingIsSubmittable
  <2> HIDE DEF ids
  <2> QED BY <2>1, <2>2, SubmitCommits DEF End
<1> QED BY <1>1, <1>2

LEMMA ThenDrain ==
    ASSUME NEW d, NEW its, NEW e, NEW commits \in Seq(Later(d, its)),
           End(e, commits) \in Later(d, its)
    PROVE  /\ then_drain(e, commits) \in Seq(Later(d, its))
           /\ End(e, then_drain(e, commits)) =
                End(End(e, commits), drain_pending_commits(End(e, commits)))
           /\ KeepsRows(End(e, commits), End(e, then_drain(e, commits)))
           /\ commits # <<>> => then_drain(e, commits) # <<>>
<1> DEFINE drained == drain_pending_commits(End(e, commits))
<1>1. drained \in Seq(Later(d, its)) /\ KeepsRows(End(e, commits), End(End(e, commits), drained))
  BY DrainCommits
<1>2. then_drain(e, commits) = commits \o drained
  BY DEF then_drain, End
<1>3. drained = drain_pending_commits(End(e, commits))
  OBVIOUS
<1> HIDE DEF drained
<1>4. commits \o drained \in Seq(Later(d, its)) /\ (commits # <<>> => commits \o drained # <<>>)
  BY <1>1
<1>5. End(e, commits \o drained) = End(End(e, commits), drained)
  <2>1. CASE drained = <<>>
    BY <2>1 DEF End
  <2>2. CASE drained # <<>>
    <3>1. Len(drained) > 0 /\ commits \o drained # <<>>
      BY <1>1, <2>2
    <3>2. (commits \o drained)[Len(commits \o drained)] = drained[Len(drained)]
      BY <1>1, <3>1
    <3> QED BY <2>2, <3>1, <3>2 DEF End, Last
  <2> QED BY <2>1, <2>2
<1> QED BY <1>1, <1>2, <1>4, <1>5, <1>3

-----------------------------------------------------------------------------
(* A thread nothing went wrong with: one task with work to do, the newest,   *)
(* and a status that tells of it.                                            *)

Applied(d, t) == already_applied(d, d.comment_ids[t])

\* The tasks with work to do, and those whose work has landed.
Open(d) == {t \in Live(d.rows) : ~Applied(d, t)}
Lingering(d) == {t \in Live(d.rows) : Applied(d, t)}

Arranged(d) ==
    /\ \A t, u \in Tasks : t < u /\ d.rows[t].state = "none" => d.rows[u].state = "none"
    /\ \A t \in Open(d) : \A u \in Live(d.rows) : u <= t
    /\ \A t \in Open(d) : d.comment_ids[t] \cap addressed(d) = {}
    /\ \A i, j \in DOMAIN d.iterations :
        i # j => d.iterations[i].comment_ids \cap d.iterations[j].comment_ids = {}
    /\ d.preview_sha = Len(d.iterations)

Ordered(d) == Arranged(d) /\ (d.status \in InFlightStatuses <=> Open(d) # {})

SameVersions(d, e) ==
    /\ e.preview_sha = d.preview_sha /\ e.pr_url = d.pr_url
    /\ e.comments = d.comments /\ e.iterations = d.iterations

LEMMA OneOpen ==
    ASSUME NEW d, Arranged(d), NEW t \in Open(d), NEW u \in Open(d)
    PROVE  t = u
<1>1. t \in Tasks /\ u \in Tasks /\ t \in Live(d.rows) /\ u \in Live(d.rows)
  BY DEF Open, Live, InState
<1>2. t <= u /\ u <= t
  BY <1>1 DEF Arranged
<1> QED BY <1>1, <1>2, TasksAssumption

\* The active task is the one with work to do, if there is one.
LEMMA OpenIsActive ==
    ASSUME NEW d, Arranged(d), NEW t \in Open(d)
    PROVE  active_for_thread(d) = t
<1>1. t \in Live(d.rows) /\ t \in Tasks /\ Live(d.rows) \subseteq Tasks
  BY DEF Open, Live, InState
<1>2. \E u \in Tasks : IsNewest(u, Live(d.rows))
  BY <1>1 DEF Arranged, IsNewest
<1>3. active_for_thread(d) = CHOOSE u \in Tasks : IsNewest(u, Live(d.rows))
  BY <1>1 DEF active_for_thread
<1> DEFINE u == active_for_thread(d)
<1>4. u \in Tasks /\ IsNewest(u, Live(d.rows))
  BY <1>2, <1>3, Zenon
<1> HIDE DEF u
<1>5. u <= t /\ t <= u
  BY <1>1, <1>4 DEF IsNewest, Arranged
<1>6. u = t
  BY <1>1, <1>4, <1>5, TasksAssumption
<1> QED BY <1>6 DEF u

\* What rows that take a step, or are taken out of life, leave.
LEMMA FewerLive ==
    ASSUME NEW d, Arranged(d), NEW e,
           e.comment_ids = d.comment_ids, e.iterations = d.iterations,
           e.preview_sha = d.preview_sha,
           \A t \in Tasks : e.rows[t].state = "none" <=> d.rows[t].state = "none",
           Live(e.rows) \subseteq Live(d.rows)
    PROVE  /\ Arranged(e)
           /\ Open(e) = Open(d) \cap Live(e.rows)
           /\ Lingering(e) = Lingering(d) \cap Live(e.rows)
<1>1. addressed(e) = addressed(d)
  BY DEF addressed
<1>2. \A t : Applied(e, t) <=> Applied(d, t)
  BY <1>1 DEF Applied, already_applied
<1>3. /\ Open(e) = Open(d) \cap Live(e.rows)
      /\ Lingering(e) = Lingering(d) \cap Live(e.rows)
  BY <1>2 DEF Open, Lingering
<1>4. Arranged(e)
  BY <1>1, <1>3 DEF Arranged
<1> QED BY <1>3, <1>4

\* A task for comments nobody addressed, when there is no other to do.
LEMMA SubmitOrdered ==
    ASSUME NEW d, NEW its, NEW e \in Later(d, its), Arranged(e), Open(e) = {},
           NEW ids, Submittable(e, ids), ids \cap addressed(e) = {}
    PROVE  /\ Ordered(Submitted(e, ids))
           /\ SameVersions(e, Submitted(e, ids))
           /\ Lingering(Submitted(e, ids)) \subseteq Lingering(e)
           /\ Submitted(e, ids).status = "triggered"
<1> DEFINE e1 == set_status(e, "triggered")
           t == FreshTask(e)
           f == enqueue_task(e1, t, ids)
<1>1. Coherent(e) /\ e \in Database /\ Len(e.comments) \in Nat
  BY CommentsCounted DEF Later
<1>2. idempotency_key(ids) \in ids /\ ids \in SUBSET Nat
  <2>1. ids # {} /\ ids \subseteq 1 .. Len(e.comments)
    BY DEF Submittable
  <2>2. idempotency_key(ids) \in ids
    BY <1>1, <2>1, KeyIsNewest
  <2> QED BY <1>1, <2>1, <2>2
<1>3. t \in Tasks /\ IsFresh(e.rows, t)
  BY <1>1, <1>2, FreshTaskIsFresh DEF Submittable
<1> HIDE DEF t
<1>4. /\ e1 \in Database /\ SameWork(e, e1) /\ e1.status = "triggered"
      /\ e1.preview_sha = e.preview_sha /\ e1.pr_url = e.pr_url
  BY <1>1, SetStatus DEF set_status, Database, Statuses, InFlightStatuses
<1>5. Coherent(e1)
  BY <1>1, <1>4, SameWorkCoherent
<1> HIDE DEF e1
<1>a. Enqueued(e1, t, ids, f)
  BY <1>2, <1>3, <1>5, EnqueueTask
<1> HIDE DEF f
<1>6. /\ f.rows = enqueue(e.rows, t)
      /\ f.comment_ids = [e.comment_ids EXCEPT ![t] = ids]
      /\ f.comments = e.comments /\ f.iterations = e.iterations
  BY <1>4, <1>a DEF Enqueued, SameWork
<1>7. f.status = "triggered" /\ f.preview_sha = e.preview_sha /\ f.pr_url = e.pr_url
  BY <1>4, <1>a DEF Enqueued
<1>8. /\ f.rows[t].state = "queued" /\ f.comment_ids[t] = ids
      /\ \A u \in Tasks : u # t => f.rows[u] = e.rows[u] /\ f.comment_ids[u] = e.comment_ids[u]
  BY <1>1, <1>3, <1>6, CommentsCounted DEF enqueue, NoRow, Table
<1>9. e.rows[t].state = "none" /\ \A u \in Tasks : e.rows[u].state = "none" => t <= u
  BY <1>3 DEF IsFresh, IsOldest, InState
<1>10. addressed(f) = addressed(e)
  BY <1>6 DEF addressed
<1>11. Live(f.rows) = Live(e.rows) \cup {t} /\ Live(e.rows) \subseteq Tasks
  BY <1>3, <1>8, <1>9 DEF Live, InState
<1>12. \A u \in Live(e.rows) : u \in Tasks /\ u # t /\ u < t
  <2> SUFFICES ASSUME NEW u \in Live(e.rows) PROVE u \in Tasks /\ u # t /\ u < t
    OBVIOUS
  <2>1. u \in Tasks /\ e.rows[u].state # "none" /\ u # t
    BY <1>9 DEF Live, InState
  <2>2. ~(t < u)
    BY <1>3, <1>9, <2>1 DEF Arranged
  <2> QED BY <1>3, <2>1, <2>2, TasksAssumption
<1>13. \A u \in Live(e.rows) : Applied(f, u) <=> Applied(e, u)
  BY <1>8, <1>10, <1>12 DEF Applied, already_applied
<1>14. ~Applied(f, t)
  BY <1>2, <1>8, <1>10 DEF Applied, already_applied
<1>15. Open(f) = {t} /\ Lingering(f) \subseteq Lingering(e)
  BY <1>11, <1>13, <1>14 DEF Open, Lingering
<1>16. Arranged(f)
  <2>1. ASSUME NEW u \in Tasks, NEW v \in Tasks, u < v, f.rows[u].state = "none"
        PROVE  f.rows[v].state = "none"
    <3>1. u # t /\ e.rows[u].state = "none" /\ e.rows[v].state = "none"
      BY <1>8, <2>1 DEF Arranged
    <3>2. t <= u /\ v # t
      BY <1>3, <1>9, <2>1, <3>1, TasksAssumption
    <3> QED BY <1>8, <3>1, <3>2
  <2>2. ASSUME NEW u \in Live(f.rows) PROVE u <= t
    <3>1. CASE u = t
      <4>1. t \in Nat
        BY <1>3, TasksAssumption
      <4> QED BY <3>1, <4>1
    <3>2. CASE u \in Live(e.rows)
      <4>1. u \in Tasks /\ u < t
        BY <1>12, <3>2
      <4>2. u \in Nat /\ t \in Nat
        BY <1>3, <4>1, TasksAssumption
      <4> QED BY <4>1, <4>2
    <3> QED BY <1>11, <3>1, <3>2
  <2> QED BY <1>6, <1>7, <1>8, <1>10, <1>15, <2>1, <2>2 DEF Arranged
<1>17. "triggered" \in InFlightStatuses
  BY DEF InFlightStatuses
<1> QED BY <1>6, <1>7, <1>15, <1>16, <1>17 DEF Ordered, SameVersions, Submitted, f, e1, t

\* A drain, when there is nothing else to do.
LEMMA DrainOrdered ==
    ASSUME NEW d, NEW its, NEW e \in Later(d, its), Ordered(e), Open(e) = {}
    PROVE  LET f == End(e, drain_pending_commits(e))
           IN /\ Ordered(f)
              /\ SameVersions(e, f)
              /\ Lingering(f) \subseteq Lingering(e)
              /\ f.status \in {e.status, "triggered"}
              /\ e.status \in ClosedStatuses => f.status = e.status
<1> DEFINE ids == pending_comment_ids(e)
<1>1. CASE e.status \in ClosedStatuses \cup {"failed"} \/ ids = {}
  <2>1. drain_pending_commits(e) = <<>>
    BY <1>1 DEF drain_pending_commits
  <2> QED BY <2>1 DEF End, SameVersions
<1>2. CASE ~(e.status \in ClosedStatuses \cup {"failed"} \/ ids = {})
  <2>1. drain_pending_commits(e) = submit_commits(e, ids)
    BY <1>2 DEF drain_pending_commits
  <2>2. Submittable(e, ids) /\ Clean(d, ids)
    BY <1>2, PendingIsSubmittable
  <2>3. ids \cap addressed(e) = {}
    BY DEF pending_comment_ids
  <2> HIDE DEF ids
  <2>4. End(e, drain_pending_commits(e)) = Submitted(e, ids)
    BY <2>1, <2>2, SubmitCommits DEF End
  <2> QED BY <1>2, <2>2, <2>3, <2>4, SubmitOrdered DEF Ordered
<1> QED BY <1>1, <1>2

\* A comment that joins the task with work to do.
LEMMA CoalesceOrdered ==
    ASSUME NEW d, Coherent(d), Ordered(d), NEW t \in Open(d), d.rows[t].state = "queued",
           NEW c, c = Len(d.comments), c > 0,
           c \notin covered_comment_ids(d), c \notin addressed(d)
    PROVE  LET e == coalesce_comment(d, t, c)
           IN /\ Ordered(e) /\ SameVersions(d, e)
              /\ e.rows = d.rows /\ e.status = d.status
              /\ \A u \in Tasks : u # t => e.comment_ids[u] = d.comment_ids[u]
              /\ Lingering(e) \subseteq Lingering(d)
<1> DEFINE e == coalesce_comment(d, t, c)
           ids == d.comment_ids[t] \cup {c}
<1>1. t \in Tasks /\ d \in Database /\ c \in Nat
  BY CommentsCounted DEF Open, Live, InState, Coherent
<1>2. /\ e.rows = d.rows /\ e.comments = d.comments /\ e.iterations = d.iterations
      /\ e.comment_ids = [d.comment_ids EXCEPT ![t] = ids]
  BY <1>1, CoalesceCoherent
<1>3. e.status = d.status /\ e.preview_sha = d.preview_sha /\ e.pr_url = d.pr_url
  BY <1>1 DEF coalesce_comment, Database
<1>4. ids \subseteq 1 .. c /\ c \in ids
  BY <1>1 DEF Coherent, Covering
<1> HIDE DEF e
<1>5. e.comment_ids[t] = ids /\ \A u \in Tasks : u # t => e.comment_ids[u] = d.comment_ids[u]
  BY <1>1, <1>2, CommentsCounted
<1>6. idempotency_key(ids) = c
  <2> HIDE DEF ids
  <2> DEFINE k == idempotency_key(ids)
  <2>1. k \in ids /\ c <= k
    BY <1>1, <1>4, KeyIsNewest
  <2> HIDE DEF k
  <2>2. k \in 1 .. c
    BY <1>4, <2>1
  <2>3. k = c
    BY <1>1, <2>1, <2>2
  <2> QED BY <2>3 DEF k
<1>7. addressed(e) = addressed(d)
  BY <1>2 DEF addressed
<1>8. \A u \in Live(d.rows) : Applied(e, u) <=> Applied(d, u)
  <2> SUFFICES ASSUME NEW u \in Live(d.rows) PROVE Applied(e, u) <=> Applied(d, u)
    OBVIOUS
  <2>1. CASE u = t
    BY <1>5, <1>6, <1>7, <2>1 DEF Applied, already_applied, Open
  <2>2. CASE u # t
    <3>1. e.comment_ids[u] = d.comment_ids[u]
      BY <1>5, <2>2 DEF Live, InState
    <3> QED BY <1>7, <3>1 DEF Applied, already_applied
  <2> QED BY <2>1, <2>2
<1>9. Open(e) = Open(d) /\ Lingering(e) = Lingering(d)
  BY <1>2, <1>8 DEF Open, Lingering
<1>10. \A u \in Open(e) : e.comment_ids[u] \cap addressed(e) = {}
  <2> SUFFICES ASSUME NEW u \in Open(d) PROVE e.comment_ids[u] \cap addressed(d) = {}
    BY <1>7, <1>9
  <2>1. u = t
    BY OneOpen DEF Ordered
  <2>2. d.comment_ids[t] \cap addressed(d) = {}
    BY DEF Ordered, Arranged
  <2> QED BY <1>5, <2>1, <2>2
<1>11. Arranged(e)
  BY <1>2, <1>3, <1>9, <1>10 DEF Ordered, Arranged
<1> QED BY <1>2, <1>3, <1>5, <1>9, <1>11 DEF Ordered, SameVersions, e

\* The iteration of the task with work to do: nothing is left to do.
LEMMA RecordOrdered ==
    ASSUME NEW d, Coherent(d), Ordered(d), NEW t \in Open(d), NEW parent \in Nat
    PROVE  LET x == set_status(Last(add_iteration_commits(d, parent, d.comment_ids[t])),
                               "preview_ready")
           IN /\ Ordered(x) /\ Open(x) = {} /\ Lingering(x) \subseteq Lingering(d) \cup {t}
              /\ x.status = "preview_ready" /\ x.pr_url = d.pr_url
              /\ x.comments = d.comments
              /\ addressed(x) = addressed(d) \cup d.comment_ids[t]
<1> DEFINE ids == d.comment_ids[t]
           it == [parent |-> parent, comment_ids |-> ids]
           its == Append(d.iterations, it)
           d1 == [d EXCEPT !.iterations = its]
           d2 == [d1 EXCEPT !.preview_sha = Len(d1.iterations)]
           x == set_status(d2, "preview_ready")
<1>1. t \in Tasks /\ t \in Live(d.rows) /\ d.rows[t].state # "none" /\ ~Applied(d, t)
  BY DEF Open, Live, InState
<1>2. ids # {} /\ ids \subseteq 1 .. Len(d.comments) /\ Len(d.comments) \in Nat
  BY <1>1, CommentsCounted DEF Coherent, Covering
<1>3. ids \cap addressed(d) = {}
  BY DEF Ordered, Arranged
<1>4. /\ add_iteration_commits(d, parent, ids) = <<d1, d2>>
      /\ Coherent(d1) /\ Coherent(d2) /\ SameWork(d1, d2)
      /\ d1.rows = d.rows /\ d1.comment_ids = d.comment_ids
      /\ d1.comments = d.comments /\ d1.iterations = its
  <2>1. ~already_applied(d, ids)
    BY <1>1 DEF Applied
  <2> HIDE DEF ids
  <2> QED BY <1>2, <2>1, AddIteration
<1>5. /\ d1.pr_url = d.pr_url /\ d2.pr_url = d.pr_url
      /\ d2.preview_sha = Len(d1.iterations)
  BY DEF Coherent, Database
<1>6. Last(add_iteration_commits(d, parent, ids)) = d2
  <2> HIDE DEF d1, d2
  <2> QED BY <1>4 DEF Last
<1>7. it \in Iteration /\ it.comment_ids = ids /\ d.iterations \in Seq(Iteration)
  BY <1>2, CommentsCounted DEF Iteration
<1> HIDE DEF it
<1>8. /\ Len(its) = Len(d.iterations) + 1 /\ DOMAIN its = 1 .. Len(d.iterations) + 1
      /\ its[Len(d.iterations) + 1] = it
      /\ \A i \in 1 .. Len(d.iterations) : its[i] = d.iterations[i]
      /\ DOMAIN d.iterations = 1 .. Len(d.iterations) /\ Len(d.iterations) \in Nat
  BY <1>7
<1> HIDE DEF its, d1, d2
<1>9. /\ x.rows = d.rows /\ x.comment_ids = d.comment_ids /\ x.comments = d.comments
      /\ x.iterations = its /\ x.preview_sha = Len(its)
      /\ x.pr_url = d.pr_url /\ x.status = "preview_ready"
  <2>1. d2 \in Database
    BY <1>4 DEF Coherent
  <2>2. /\ x.rows = d2.rows /\ x.comment_ids = d2.comment_ids /\ x.comments = d2.comments
        /\ x.iterations = d2.iterations /\ x.preview_sha = d2.preview_sha
        /\ x.pr_url = d2.pr_url /\ x.status = "preview_ready"
    BY <2>1 DEF set_status, Database
  <2> HIDE DEF x
  <2> QED BY <1>4, <1>5, <2>2 DEF SameWork
<1> HIDE DEF x
<1>10. addressed(x) = addressed(d) \cup ids
  <2>1. \A c : c \in addressed(x) => c \in addressed(d) \cup ids
    BY <1>7, <1>8, <1>9 DEF addressed
  <2>2. \A c : c \in addressed(d) => c \in addressed(x)
    BY <1>8, <1>9 DEF addressed
  <2>3. \A c : c \in ids => c \in addressed(x)
    <3>1. Len(d.iterations) + 1 \in DOMAIN x.iterations
      BY <1>8, <1>9
    <3> QED BY <1>7, <1>8, <1>9, <3>1 DEF addressed
  <2> QED BY <2>1, <2>2, <2>3
<1>11. \A u : Applied(d, u) => Applied(x, u)
  BY <1>9, <1>10 DEF Applied, already_applied
<1>12. Applied(x, t)
  <2>1. idempotency_key(ids) \in ids
    <3> HIDE DEF ids
    <3> QED BY <1>2, KeyIsNewest
  <2> QED BY <1>9, <1>10, <2>1 DEF Applied, already_applied
<1>13. Open(x) = {}
  <2> SUFFICES ASSUME NEW u \in Open(x) PROVE FALSE
    OBVIOUS
  <2>1. u \in Open(d)
    BY <1>9, <1>11 DEF Open
  <2>2. u = t
    BY <2>1, OneOpen DEF Ordered
  <2> QED BY <1>12, <2>2 DEF Open
<1>14. Lingering(x) \subseteq Lingering(d) \cup {t}
  <2> SUFFICES ASSUME NEW u \in Lingering(x), u # t PROVE u \in Lingering(d)
    OBVIOUS
  <2>1. u \in Live(d.rows) /\ u \notin Open(d)
    BY <1>9, OneOpen DEF Ordered, Lingering
  <2> QED BY <2>1 DEF Open, Lingering
<1>15. ASSUME NEW i \in DOMAIN x.iterations, NEW j \in DOMAIN x.iterations, i # j
       PROVE  x.iterations[i].comment_ids \cap x.iterations[j].comment_ids = {}
  <2>1. \A k \in 1 .. Len(d.iterations) : its[k].comment_ids \subseteq addressed(d)
    BY <1>8 DEF addressed
  <2>2. CASE i \in 1 .. Len(d.iterations) /\ j \in 1 .. Len(d.iterations)
    BY <1>8, <1>9, <1>15, <2>2 DEF Ordered, Arranged
  <2>3. CASE i \in 1 .. Len(d.iterations) /\ j = Len(d.iterations) + 1
    BY <1>3, <1>7, <1>8, <1>9, <2>1, <2>3
  <2>4. CASE j \in 1 .. Len(d.iterations) /\ i = Len(d.iterations) + 1
    BY <1>3, <1>7, <1>8, <1>9, <2>1, <2>4
  <2> QED BY <1>8, <1>9, <1>15, <2>2, <2>3, <2>4
<1>16. Arranged(x)
  BY <1>9, <1>13, <1>15 DEF Ordered, Arranged
<1>17. Ordered(x)
  BY <1>9, <1>13, <1>16 DEF Ordered, InFlightStatuses
<1> QED BY <1>6, <1>9, <1>10, <1>13, <1>14, <1>17 DEF x, ids
=============================================================================
