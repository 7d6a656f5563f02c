------------------------ MODULE AgentTaskQueueProofs ------------------------
(***************************************************************************)
(* Proofs about AgentTaskQueue, for every set of tasks and workers and     *)
(* every allowance of attempts.                                            *)
(***************************************************************************)
EXTENDS AgentTaskQueue, TaskRepoProofs

USE TasksAssumption, WorkersAssumption, MaxAttemptsAssumption, NoTaskAssumption,
    StallsAssumption

-----------------------------------------------------------------------------
(* The types of the variables, and what the attempts counter says. *)

Typed == TypeOK /\ DeliveryCounts

LEMMA TypedTable == Typed => GoodTable(rows)
BY DEF Typed, TypeOK, DeliveryCounts, GoodTable

LEMMA TypedInit == Init => Typed
BY EmptyIsGood
   DEF Init, Typed, TypeOK, DeliveryCounts, GoodTable, Phases, Engaged

\* The bookkeeping a worker drops when it resumes.
LEMMA UnwindKeepsTypes ==
    ASSUME Typed, NEW w \in Workers, NEW next \in {"idle", "ended"},
           Engaged(w), unwind(w, next), GoodTable(rows')
    PROVE  Typed'
BY DEF Typed, TypeOK, DeliveryCounts, GoodTable, unwind, Phases, Engaged

LEMMA TypedStep == Typed /\ [Next]_vars => Typed'
<1> SUFFICES ASSUME Typed, [Next]_vars
             PROVE  Typed'
  OBVIOUS
<1> USE DEF Typed, TypeOK, DeliveryCounts, GoodTable
<1>1. GoodTable(rows)
  BY TypedTable
<1>2. CASE start
  BY <1>2 DEF start, Phases, Engaged
<1>3. CASE stop
  BY <1>3 DEF stop, Phases, Engaged
<1>4. CASE stopped
  BY <1>4 DEF stopped, Engaged
<1>5. CASE crash
  BY <1>5 DEF crash, Phases, Engaged
<1>6. CASE sweep
  BY <1>1, <1>6, SweepKeepsGood DEF sweep, Engaged
<1>7. ASSUME NEW t \in Tasks, submit(t)
      PROVE  Typed'
  BY <1>1, <1>7, EnqueueKeepsGood DEF submit, Engaged
<1>8. ASSUME NEW t \in Tasks, cancel_task(t)
      PROVE  Typed'
  BY <1>1, <1>8, CancelKeepsGood DEF cancel_task, interrupted, Phases, Engaged
<1>9. ASSUME NEW t \in Tasks, replay(t)
      PROVE  Typed'
  BY <1>1, <1>9, EnqueueKeepsGood DEF replay, requeue_from_dlq, Engaged
<1>10. ASSUME NEW t \in Tasks, lease_lapses(t)
       PROVE  Typed'
  BY <1>1, <1>10, LeaseKeepsGood DEF lease_lapses, Engaged
<1>11. ASSUME NEW w \in Workers, NEW t \in Tasks, claim(w, t)
       PROVE  Typed'
  <2>1. t \in InState(rows, "queued")
    BY <1>11 DEF claim, IsOldest
  <2>2. GoodTable(rows')
    BY <1>1, <1>11, <2>1, ClaimKeepsGood DEF claim, InState
  <2> QED BY <1>11, <2>2 DEF claim, Phases, Engaged
<1>12. ASSUME NEW w \in Workers, handler_ends(w)
       PROVE  Typed'
  BY <1>12 DEF handler_ends, Phases, Engaged
<1>13. ASSUME NEW w \in Workers, deadline(w)
       PROVE  Typed'
  BY <1>13 DEF deadline, Phases, Engaged
<1>14. ASSUME NEW w \in Workers, resumes(w)
       PROVE  Typed'
  <2>1. Engaged(w) /\ held[w] \in Tasks
    BY <1>14 DEF resumes, finishes, attempt_fails, gives_up, shuts_down, walks_away
  <2>2. CASE finishes(w)
    BY <1>1, <2>1, <2>2, CompleteKeepsGood, UnwindKeepsTypes DEF finishes
  <2>3. CASE attempt_fails(w)
    BY <1>1, <2>1, <2>3, FailKeepsGood, UnwindKeepsTypes DEF attempt_fails
  <2>4. CASE gives_up(w)
    BY <1>1, <2>1, <2>4, CancelKeepsGood, UnwindKeepsTypes DEF gives_up
  <2>5. CASE shuts_down(w)
    BY <1>1, <2>1, <2>5, UnwindKeepsTypes DEF shuts_down
  <2>6. CASE walks_away(w)
    BY <1>1, <2>1, <2>6, UnwindKeepsTypes DEF walks_away
  <2> QED BY <1>14, <2>2, <2>3, <2>4, <2>5, <2>6 DEF resumes
<1>15. ASSUME NEW w \in Workers, beat(w)
       PROVE  Typed'
  <2>1. held[w] \in Tasks
    BY <1>15 DEF beat
  <2>2. GoodTable(rows')
    BY <1>1, <1>15, <2>1, LeaseKeepsGood DEF beat, heartbeat
  <2> QED BY <1>15, <2>2 DEF beat, Engaged
<1>16. CASE UNCHANGED vars
  BY <1>16 DEF vars, Engaged
<1> QED BY <1>2, <1>3, <1>4, <1>5, <1>6, <1>7, <1>8, <1>9, <1>10, <1>11,
           <1>12, <1>13, <1>14, <1>15, <1>16 DEF Next

\* The variables keep their types.
THEOREM TypeCorrect == Spec => []TypeOK
<1>1. Typed => TypeOK
  BY DEF Typed
<1> QED BY <1>1, TypedInit, TypedStep, PTL DEF Spec

\* Deliveries are counted and bounded: in every reachable state, with any
\* crashes, stalls, deadlines and replays, a queued task has a delivery left,
\* a running one has an owner, and a dead letter had exactly MaxAttempts.
THEOREM DeliveriesCounted == Spec => []DeliveryCounts
<1>1. Typed => DeliveryCounts
  BY DEF Typed
<1> QED BY <1>1, TypedInit, TypedStep, PTL DEF Spec

-----------------------------------------------------------------------------
(* Delivery is exclusive while leases are kept. *)

\* The inductive invariant.  A claim overwrites _running and relies on nobody
\* being engaged on a queued row, which is what ExclusiveDelivery says; that a
\* cancelled row has no active run relies on _running naming the run.
Exclusive == Typed /\ RunsAreTracked /\ ExclusiveDelivery

LEMMA ExclusiveInit == Init => Exclusive
<1> SUFFICES ASSUME Init PROVE Exclusive
  OBVIOUS
<1>1. Typed
  BY TypedInit
<1> QED BY <1>1 DEF Init, Exclusive, RunsAreTracked, ExclusiveDelivery, Engaged

\* _running has one entry a task, so a task has one worker.
LEMMA OneHolder ==
    ASSUME Exclusive, NEW v \in Workers, NEW w \in Workers,
           Engaged(v), Engaged(w), held[v] = held[w]
    PROVE  v = w
<1>1. held[v] \in Tasks
  BY DEF Exclusive, Typed, TypeOK
<1>2. running[held[v]] = v
  BY <1>1 DEF Exclusive, RunsAreTracked
<1>3. running[held[v]] = w
  BY <1>1 DEF Exclusive, RunsAreTracked
<1> QED BY <1>2, <1>3

\* Dropping the bookkeeping of the one worker engaged on a task, when no
\* other row changed.
LEMMA UnwindKeepsExclusive ==
    ASSUME Exclusive, NEW w \in Workers, NEW next \in {"idle", "ended"},
           Engaged(w), unwind(w, next),
           \A t \in Tasks : t # held[w] => rows'[t] = rows[t]
    PROVE  RunsAreTracked' /\ ExclusiveDelivery'
<1>1. held[w] \in Tasks
  BY DEF Exclusive, Typed, TypeOK
<1>2. \A v \in Workers : Engaged(v)' => v # w /\ Engaged(v) /\ held'[v] = held[v]
                                       /\ phase'[v] = phase[v]
  BY DEF Exclusive, Typed, TypeOK, unwind, Engaged
<1>3. \A v \in Workers : Engaged(v) /\ held[v] = held[w] => v = w
  BY OneHolder
<1>4. ExclusiveDelivery'
  <2>1. \A v \in Workers : Engaged(v)' => held[v] \in Tasks /\ rows'[held[v]] = rows[held[v]]
    BY <1>2, <1>3 DEF Exclusive, Typed, TypeOK
  <2> QED BY <1>2, <2>1 DEF Exclusive, ExclusiveDelivery
<1>5. RunsAreTracked'
  <2> SUFFICES ASSUME NEW t \in Tasks, NEW v \in Workers
               PROVE  running'[t] = v <=> (Engaged(v)' /\ held'[v] = t)
    BY DEF RunsAreTracked
  <2>1. CASE t = held[w]
    BY <1>2, <1>3, <2>1, WorkersAssumption DEF Exclusive, Typed, TypeOK, unwind
  <2>2. CASE t # held[w]
    <3>1. running'[t] = running[t]
      BY <2>2 DEF Exclusive, Typed, TypeOK, unwind
    <3>2. (Engaged(v)' /\ held'[v] = t) <=> (Engaged(v) /\ held[v] = t)
      BY <1>2, <2>2 DEF Exclusive, Typed, TypeOK, unwind, Engaged
    <3> QED BY <3>1, <3>2 DEF Exclusive, RunsAreTracked
  <2> QED BY <2>1, <2>2
<1> QED BY <1>4, <1>5

\* A step that lets no lease lapse under a worker.
LeasesKept == \A t \in Tasks : lease_lapses(t) => EngagedOn(t) = {}

LEMMA ExclusiveStep ==
    ASSUME Exclusive, [Next]_vars, LeasesKept
    PROVE  Exclusive'
<1> SUFFICES RunsAreTracked' /\ ExclusiveDelivery'
  BY TypedStep DEF Exclusive
<1> USE DEF Exclusive, Typed, TypeOK
<1>1. rows \in Table
  OBVIOUS
<1>2. CASE start
  <2>1. \A w \in Workers : ~Engaged(w) /\ ~Engaged(w)'
    BY <1>2 DEF start, Engaged
  <2>2. \A t \in Tasks, w \in Workers : running'[t] # w
    BY <1>2, <2>1 DEF start, RunsAreTracked
  <2> QED BY <2>1, <2>2 DEF RunsAreTracked, ExclusiveDelivery
<1>3. CASE stop
  BY <1>3 DEF stop, RunsAreTracked, ExclusiveDelivery, Engaged
<1>4. CASE stopped
  BY <1>4 DEF stopped, RunsAreTracked, ExclusiveDelivery, Engaged
<1>5. CASE crash
  BY <1>5 DEF crash, RunsAreTracked, ExclusiveDelivery, Engaged
<1>6. CASE sweep
  \* The rows swept have expired leases: nobody is engaged on them.
  <2>1. \A w \in Workers : Engaged(w) => rows'[held[w]] = rows[held[w]]
    BY <1>6 DEF sweep, reap_expired, Expired, InState, ExclusiveDelivery
  <2> QED BY <1>6, <2>1 DEF sweep, RunsAreTracked, ExclusiveDelivery, Engaged
<1>7. ASSUME NEW t \in Tasks, submit(t)
      PROVE  RunsAreTracked' /\ ExclusiveDelivery'
  <2>1. \A w \in Workers : Engaged(w) => held[w] # t
    BY <1>7 DEF submit, IsFresh, IsOldest, InState, ExclusiveDelivery
  <2> QED BY <1>1, <1>7, <2>1
          DEF submit, enqueue, Table, RunsAreTracked, ExclusiveDelivery, Engaged
<1>8. ASSUME NEW t \in Tasks, cancel_task(t)
      PROVE  RunsAreTracked' /\ ExclusiveDelivery'
  <2>1. \A w \in Workers : Engaged(w)' <=> Engaged(w)
    BY <1>8 DEF cancel_task, interrupted, Engaged
  <2>2. RunsAreTracked'
    BY <1>8, <2>1 DEF cancel_task, RunsAreTracked
  <2>3. ASSUME NEW w \in Workers, Engaged(w)', held[w] = t
        PROVE  rows'[t].state = "cancelled" /\ phase'[w] # "active"
    <3>1. running[t] = w
      BY <2>1, <2>3 DEF RunsAreTracked
    <3>2. phase'[w] # "active"
      BY <1>8, <3>1 DEF cancel_task, interrupted
    <3>3. rows'[t].state = "cancelled"
      BY <1>1, <1>8 DEF cancel_task, cancel, Table, Row
    <3> QED BY <3>2, <3>3
  <2>4. ASSUME NEW w \in Workers, Engaged(w)', held[w] # t
        PROVE  rows'[held[w]] = rows[held[w]] /\ phase'[w] = phase[w]
    <3>1. running[t] # w
      BY <2>4 DEF RunsAreTracked
    <3> QED BY <1>1, <1>8, <2>1, <2>4, <3>1
            DEF cancel_task, cancel, interrupted, Table
  <2>5. ExclusiveDelivery'
    BY <1>8, <2>1, <2>3, <2>4 DEF cancel_task, ExclusiveDelivery
  <2> QED BY <2>2, <2>5
<1>9. ASSUME NEW t \in Tasks, replay(t)
      PROVE  RunsAreTracked' /\ ExclusiveDelivery'
  <2>1. \A w \in Workers : Engaged(w) => held[w] # t
    BY <1>9 DEF replay, ExclusiveDelivery
  <2> QED BY <1>1, <1>9, <2>1
          DEF replay, requeue_from_dlq, enqueue, Table, RunsAreTracked,
              ExclusiveDelivery, Engaged
<1>10. ASSUME NEW t \in Tasks, lease_lapses(t)
       PROVE  RunsAreTracked' /\ ExclusiveDelivery'
  <2>1. \A w \in Workers : Engaged(w) => held[w] # t
    BY <1>10 DEF LeasesKept, EngagedOn
  <2> QED BY <1>1, <1>10, <2>1
          DEF lease_lapses, Table, RunsAreTracked, ExclusiveDelivery, Engaged
<1>11. ASSUME NEW w \in Workers, NEW t \in Tasks, claim(w, t)
       PROVE  RunsAreTracked' /\ ExclusiveDelivery'
  <2>1. rows[t].state = "queued"
    BY <1>11 DEF claim, IsOldest, InState
  <2>2. \A v \in Workers : Engaged(v) => held[v] # t
    BY <2>1 DEF ExclusiveDelivery
  <2>3. ~Engaged(w) /\ held[w] \notin Tasks /\ Engaged(w)' /\ held'[w] = t
    BY <1>11 DEF claim, Engaged
  <2>4. \A v \in Workers : v # w => held'[v] = held[v] /\ (Engaged(v)' <=> Engaged(v))
                                    /\ phase'[v] = phase[v]
    BY <1>11 DEF claim, Engaged
  <2>5. running' = [running EXCEPT ![t] = w]
    BY <1>11 DEF claim
  <2>6. RunsAreTracked'
    BY <2>2, <2>3, <2>4, <2>5 DEF RunsAreTracked
  <2>7. rows'[t].state = "running" /\ rows'[t].claimed_by = w /\ rows'[t].lease = "held"
    BY <1>1, <1>11 DEF claim, claim_next, Table
  <2>8. \A u \in Tasks : u # t => rows'[u] = rows[u]
    BY <1>1, <1>11 DEF claim, claim_next, Table
  <2>9. ASSUME NEW v \in Workers, v # w, Engaged(v)'
        PROVE  rows'[held'[v]] = rows[held[v]] /\ phase'[v] = phase[v] /\ Engaged(v)
               /\ held'[v] = held[v]
    BY <2>2, <2>4, <2>8, <2>9
  <2>10. ExclusiveDelivery'
    BY <2>3, <2>7, <2>9 DEF ExclusiveDelivery
  <2> QED BY <2>6, <2>10
<1>12. ASSUME NEW w \in Workers, handler_ends(w)
       PROVE  RunsAreTracked' /\ ExclusiveDelivery'
  BY <1>12 DEF handler_ends, RunsAreTracked, ExclusiveDelivery, Engaged
<1>13. ASSUME NEW w \in Workers, deadline(w)
       PROVE  RunsAreTracked' /\ ExclusiveDelivery'
  BY <1>13 DEF deadline, RunsAreTracked, ExclusiveDelivery, Engaged
<1>14. ASSUME NEW w \in Workers, resumes(w)
       PROVE  RunsAreTracked' /\ ExclusiveDelivery'
  <2>1. Engaged(w) /\ (unwind(w, "idle") \/ unwind(w, "ended"))
    BY <1>14 DEF resumes, finishes, attempt_fails, gives_up, shuts_down, walks_away
  <2>2. \A t \in Tasks : t # held[w] => rows'[t] = rows[t]
    BY <1>1, <1>14
       DEF resumes, finishes, attempt_fails, gives_up, shuts_down, walks_away,
           complete, fail, cancel, Table
  <2> QED BY <2>1, <2>2, UnwindKeepsExclusive
<1>15. ASSUME NEW w \in Workers, beat(w)
       PROVE  RunsAreTracked' /\ ExclusiveDelivery'
  <2>2. UNCHANGED <<held, phase, running>>
    BY <1>15 DEF beat
  <2>3. RunsAreTracked'
    BY <2>2 DEF RunsAreTracked, Engaged
  <2>4. ExclusiveDelivery'
    <3> SUFFICES ASSUME NEW v \in Workers, Engaged(v)
                 PROVE  LET r == rows'[held[v]] IN
                        \/ r.state = "running" /\ r.claimed_by = v /\ r.lease = "held"
                        \/ r.state = "cancelled" /\ phase[v] # "active"
      BY <2>2 DEF ExclusiveDelivery, Engaged
    <3>1. PICK u \in Tasks : u = held[v]
      OBVIOUS
    <3>2. \/ rows[u].state = "running" /\ rows[u].claimed_by = v /\ rows[u].lease = "held"
          \/ rows[u].state = "cancelled" /\ phase[v] # "active"
      BY <3>1 DEF ExclusiveDelivery
    <3>3. /\ rows'[u].state = rows[u].state
          /\ rows'[u].claimed_by = rows[u].claimed_by
          /\ rows'[u].lease = rows[u].lease \/ rows'[u].lease = "held"
      BY <1>1, <1>15 DEF beat, heartbeat, Table, Row
    <3> QED BY <3>1, <3>2, <3>3
  <2> QED BY <2>3, <2>4
<1>16. CASE UNCHANGED vars
  BY <1>16 DEF vars, RunsAreTracked, ExclusiveDelivery, Engaged
<1> QED BY <1>2, <1>3, <1>4, <1>5, <1>6, <1>7, <1>8, <1>9, <1>10, <1>11,
           <1>12, <1>13, <1>14, <1>15, <1>16 DEF Next

LEMMA KeptLeasesStep ==
    ASSUME ~Stalls
    PROVE  Exclusive /\ [Next]_vars => Exclusive'
BY ExclusiveStep DEF LeasesKept, lease_lapses

\* As long as a live worker's lease does not lapse, a handler runs only for
\* the worker its row names, with its lease in force, and a cancelled task has
\* no handler running.
THEOREM DeliveryIsExclusive ==
    ASSUME ~Stalls
    PROVE  Spec => []ExclusiveDelivery
<1>1. Exclusive => ExclusiveDelivery
  BY DEF Exclusive
<1>2. Exclusive /\ [Next]_vars => Exclusive'
  BY KeptLeasesStep
<1> QED BY <1>1, <1>2, ExclusiveInit, PTL DEF Spec

\* Under the same assumption cancel() reaches every run, and two workers are
\* never on one task.
THEOREM RunsCanBeCancelled ==
    ASSUME ~Stalls
    PROVE  Spec => [](RunsAreTracked /\ OneRunPerTask)
<1>1. Exclusive => RunsAreTracked /\ OneRunPerTask
  <2> SUFFICES ASSUME Exclusive, NEW v \in Workers, NEW w \in Workers,
                      Engaged(v), Engaged(w), held[v] = held[w]
               PROVE  v = w
    BY DEF Exclusive, OneRunPerTask
  <2> QED BY OneHolder
<1>2. Exclusive /\ [Next]_vars => Exclusive'
  BY KeptLeasesStep
<1> QED BY <1>1, <1>2, ExclusiveInit, PTL DEF Spec

-----------------------------------------------------------------------------
(* The queue implements TaskLifecycle. *)

\* The refinement mapping, row by row.
St == [t \in Tasks |-> rows[t].state]
At == [t \in Tasks |-> rows[t].attempts]

Oldest(t) == \A u \in Tasks : rows[u].state = "queued" => t <= u

\* A step that moves every row along an edge is a step of the promised life.
LEMMA MovesAreSteps ==
    ASSUME rows \in Table, rows' \in Table,
           \A t \in Tasks : Moved(rows[t], rows'[t], Oldest(t))
    PROVE  Lifecycle!Next
<1>1. St' \in [Tasks -> Lifecycle!States]
  BY DEF Table, Row, States, Lifecycle!States, St
<1>2. At' \in [Tasks -> Nat]
  BY MaxAttemptsAssumption DEF Table, Row, At
<1>3. ASSUME NEW t \in Tasks
      PROVE  \/ Lifecycle!Stay(t) \/ Lifecycle!Submit(t) \/ Lifecycle!Deliver(t)
             \/ Lifecycle!Finish(t) \/ Lifecycle!GiveBack(t)
             \/ Lifecycle!Cancel(t) \/ Lifecycle!Replay(t)
  <2>1. /\ St[t] = rows[t].state /\ St'[t] = rows'[t].state
        /\ At[t] = rows[t].attempts /\ At'[t] = rows'[t].attempts
    BY DEF St, At
  <2>2. Oldest(t) => \A u \in Tasks : St[u] = "queued" => t <= u
    BY DEF Oldest, St
  <2> QED BY <2>1, <2>2
          DEF Moved, Lifecycle!Stay, Lifecycle!Submit, Lifecycle!Deliver,
              Lifecycle!Finish, Lifecycle!GiveBack, Lifecycle!Cancel,
              Lifecycle!Replay, Lifecycle!Edge, Lifecycle!Counting, St, At
<1> QED BY <1>1, <1>2, <1>3 DEF Lifecycle!Next, St, At

LEMMA LifecycleStep == Typed /\ [Next]_vars => [Lifecycle!Next]_(Lifecycle!vars)
<1> SUFFICES ASSUME Typed, [Next]_vars
             PROVE  \A t \in Tasks : Moved(rows[t], rows'[t], Oldest(t))
  BY MovesAreSteps, TypedStep DEF Typed, TypeOK
<1>1. rows \in Table /\ GoodTable(rows)
  BY TypedTable DEF Typed, TypeOK
<1>2. ASSUME NEW t \in Tasks,
             Moved(rows[t], rows'[t], Oldest(t)),
             \A u \in Tasks : u # t => rows'[u] = rows[u]
      PROVE  \A u \in Tasks : Moved(rows[u], rows'[u], Oldest(u))
  BY <1>2 DEF Moved
<1>3. ASSUME rows' = rows
      PROVE  \A t \in Tasks : Moved(rows[t], rows'[t], Oldest(t))
  BY <1>3 DEF Moved
<1>4. CASE start \/ stop \/ stopped \/ crash \/ UNCHANGED vars
  BY <1>3, <1>4 DEF start, stop, stopped, crash, vars
<1>5. CASE sweep
  <2> SUFFICES ASSUME NEW t \in Tasks
               PROVE  Moved(rows[t], rows'[t], Oldest(t))
    OBVIOUS
  <2>1. Moved(rows[t], failed_row(rows, t), Oldest(t))
    BY <1>1, FailedRowMoves DEF Oldest
  <2>2. rows'[t] = failed_row(rows, t) \/ rows'[t] = rows[t]
    BY <1>5 DEF sweep, reap_expired
  <2> QED BY <2>1, <2>2 DEF Moved
<1>6. ASSUME NEW t \in Tasks, submit(t) \/ replay(t)
      PROVE  \A u \in Tasks : Moved(rows[u], rows'[u], Oldest(u))
  <2>1. rows[t].state \in {"none", "dlq"} /\ rows' = enqueue(rows, t)
    BY <1>6 DEF submit, replay, IsFresh, IsOldest, InState, requeue_from_dlq
  <2>2. rows'[t].state = "queued" /\ rows'[t].attempts = 0
    BY <1>1, <2>1 DEF enqueue, NoRow, Table
  <2>3. \A u \in Tasks : u # t => rows'[u] = rows[u]
    BY <1>1, <2>1 DEF enqueue, Table
  <2>4. Moved(rows[t], rows'[t], Oldest(t))
    BY <2>1, <2>2 DEF Moved
  <2> QED BY <1>2, <2>3, <2>4
<1>7. ASSUME NEW t \in Tasks, rows' = cancel(rows, t)
      PROVE  \A u \in Tasks : Moved(rows[u], rows'[u], Oldest(u))
  <2>1. Moved(rows[t], rows'[t], Oldest(t))
    BY <1>1, <1>7 DEF cancel, Live, InState, Table, Row, Moved
  <2>2. \A u \in Tasks : u # t => rows'[u] = rows[u]
    BY <1>1, <1>7 DEF cancel, Table
  <2> QED BY <1>2, <2>1, <2>2
<1>8. ASSUME NEW t \in Tasks, NEW l, rows' = [rows EXCEPT ![t].lease = l]
      PROVE  \A u \in Tasks : Moved(rows[u], rows'[u], Oldest(u))
  <2>1. Moved(rows[t], rows'[t], Oldest(t))
    BY <1>1, <1>8 DEF Table, Row, Moved
  <2>2. \A u \in Tasks : u # t => rows'[u] = rows[u]
    BY <1>1, <1>8 DEF Table
  <2> QED BY <1>2, <2>1, <2>2
<1>9. ASSUME NEW w \in Workers, NEW t \in Tasks, claim(w, t)
      PROVE  \A u \in Tasks : Moved(rows[u], rows'[u], Oldest(u))
  <2>1. rows[t].state = "queued" /\ Oldest(t)
    BY <1>9 DEF claim, IsOldest, InState, Oldest
  <2>2. rows[t].attempts < MaxAttempts
    BY <1>1, <2>1 DEF GoodTable, Counted
  <2>3. rows'[t].state = "running" /\ rows'[t].attempts = rows[t].attempts + 1
    BY <1>1, <1>9 DEF claim, claim_next, Table
  <2>4. Moved(rows[t], rows'[t], Oldest(t))
    BY <2>1, <2>2, <2>3 DEF Moved
  <2>5. \A u \in Tasks : u # t => rows'[u] = rows[u]
    BY <1>1, <1>9 DEF claim, claim_next, Table
  <2> QED BY <1>2, <2>4, <2>5
<1>10. ASSUME NEW t \in Tasks, rows' = complete(rows, t)
       PROVE  \A u \in Tasks : Moved(rows[u], rows'[u], Oldest(u))
  <2>1. Moved(rows[t], rows'[t], Oldest(t))
    BY <1>1, <1>10 DEF complete, Table, Row, Moved
  <2>2. \A u \in Tasks : u # t => rows'[u] = rows[u]
    BY <1>1, <1>10 DEF complete, Table
  <2> QED BY <1>2, <2>1, <2>2
<1>11. ASSUME NEW t \in Tasks, rows' = fail(rows, t)
       PROVE  \A u \in Tasks : Moved(rows[u], rows'[u], Oldest(u))
  <2>1. rows'[t] = failed_row(rows, t)
    BY <1>1, <1>11 DEF fail, Table
  <2>2. Moved(rows[t], rows'[t], Oldest(t))
    BY <1>1, <2>1, FailedRowMoves DEF Oldest
  <2>3. \A u \in Tasks : u # t => rows'[u] = rows[u]
    BY <1>1, <1>11 DEF fail, Table
  <2> QED BY <1>2, <2>2, <2>3
<1>12. ASSUME NEW w \in Workers, resumes(w) \/ beat(w)
       PROVE  \A u \in Tasks : Moved(rows[u], rows'[u], Oldest(u))
  <2>1. held[w] \in Tasks
    BY <1>12 DEF resumes, finishes, attempt_fails, gives_up, shuts_down, walks_away,
                 beat, Typed, TypeOK
  <2>2. CASE finishes(w)
    BY <1>10, <2>1, <2>2 DEF finishes
  <2>3. CASE attempt_fails(w)
    BY <1>11, <2>1, <2>3 DEF attempt_fails
  <2>4. CASE gives_up(w)
    BY <1>7, <2>1, <2>4 DEF gives_up
  <2>5. CASE shuts_down(w) \/ walks_away(w)
    BY <1>3, <2>5 DEF shuts_down, walks_away
  <2>6. CASE beat(w)
    BY <1>3, <1>8, <2>1, <2>6 DEF beat, heartbeat
  <2> QED BY <1>12, <2>2, <2>3, <2>4, <2>5, <2>6 DEF resumes
<1>13. ASSUME NEW t \in Tasks, cancel_task(t) \/ lease_lapses(t)
       PROVE  \A u \in Tasks : Moved(rows[u], rows'[u], Oldest(u))
  BY <1>7, <1>8, <1>13 DEF cancel_task, lease_lapses
<1>14. ASSUME NEW w \in Workers, handler_ends(w) \/ deadline(w)
       PROVE  \A u \in Tasks : Moved(rows[u], rows'[u], Oldest(u))
  BY <1>3, <1>14 DEF handler_ends, deadline
<1> QED BY <1>4, <1>5, <1>6, <1>9, <1>12, <1>13, <1>14 DEF Next

\* Every behaviour of the queue, stalls and crashes included, is a life the
\* tasks were promised.
THEOREM QueueImplementsLifecycle == Spec => LifecycleSpec
<1>1. Init => Lifecycle!Init
  BY DEF Init, Lifecycle!Init, EmptyTable, NoRow
<1>2. Typed /\ [Next]_vars => [Lifecycle!Next]_(Lifecycle!vars)
  BY LifecycleStep
<1> QED BY <1>1, <1>2, TypedInit, TypedStep, PTL DEF Spec, LifecycleSpec, Lifecycle!Spec
=============================================================================
