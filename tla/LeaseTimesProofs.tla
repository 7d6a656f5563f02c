------------------------- MODULE LeaseTimesProofs -------------------------
(***************************************************************************)
(* Proofs about LeaseTimes, for every number of tasks and workers and for  *)
(* every setting of the timers in which a heartbeat, run as late as the    *)
(* loop may run it, still comes before the end of the lease.               *)
(***************************************************************************)
EXTENDS LeaseTimes, AgentTaskQueueProofs

USE TimesAssumption

-----------------------------------------------------------------------------
(* A timed step is a step of the queue. *)

LEMMA TimedStepIsStep == [TimedNext]_timed_vars => [Next]_vars
<1>1. step => Next \/ UNCHANGED vars
  BY DEF step, timed_start, timed_call, timed_interruption, timed_sweep, looks,
         timed_end, timed_deadline, timed_resume, timed_beat, Next
<1>2. lapses => Next
  BY DEF lapses, ran_out, InState, Next
<1> QED BY <1>1, <1>2 DEF TimedNext, tick, timed_vars

-----------------------------------------------------------------------------
(* The heartbeat is in time. *)

\* A worker on a task it owns sleeps for less than is left of the lease, by
\* what the loop may be late; and it has not been kept waiting for longer.
Renewed ==
    \A w \in Workers :
        Engaged(w) /\ rows[held[w]].state = "running" =>
            /\ beat_in[w] >= -Delay
            /\ left[held[w]] >= beat_in[w] + Delay

Clocked == left \in [Tasks -> Int] /\ beat_in \in [Workers -> Int]

\* The inductive invariant.
InTime == Exclusive /\ Clocked /\ Renewed

LEMMA InTimeInit == TimedInit => InTime
BY ExclusiveInit
   DEF TimedInit, Init, InTime, Clocked, Renewed, Engaged

LEMMA Cadence ==
    /\ heartbeat_interval \in Nat /\ lease \in Nat
    /\ heartbeat_interval + Delay <= lease
BY DEF heartbeat_interval

\* A lease that has run out has nobody on its task.
LEMMA RanOutIsOrphan ==
    ASSUME InTime, NEW t \in ran_out
    PROVE  EngagedOn(t) = {}
<1> SUFFICES ASSUME NEW w \in Workers, Engaged(w), held[w] = t
             PROVE  FALSE
  BY DEF EngagedOn
<1>1. t \in Tasks /\ rows[t].state = "running" /\ left[t] < 0
  BY DEF ran_out, InState
<1>2. beat_in[w] \in Int /\ left[t] \in Int /\ Delay \in Nat
  BY <1>1 DEF InTime, Clocked
<1>3. beat_in[w] >= -Delay /\ left[t] >= beat_in[w] + Delay
  BY <1>1 DEF InTime, Renewed
<1> QED BY <1>1, <1>2, <1>3

\* No statement of TaskRepo makes a lease expire.
LEMMA StatementsExpireNothing ==
    ASSUME rows \in Table, \A w \in Workers : Engaged(w) => held[w] \in Tasks,
           step \/ tick \/ UNCHANGED timed_vars,
           NEW t \in Tasks, rows'[t].lease = "expired"
    PROVE  rows[t].lease = "expired"
<1> USE DEF Table, Row
<1>1. CASE rows' = rows
  BY <1>1
<1>2. ASSUME NEW u \in Tasks,
             \/ rows' = enqueue(rows, u) \/ rows' = requeue_from_dlq(rows, u)
             \/ rows' = cancel(rows, u) \/ rows' = complete(rows, u)
             \/ rows' = fail(rows, u)
      PROVE  rows[t].lease = "expired"
  <2>1. enqueue(rows, u)[t].lease \in {rows[t].lease, "null"}
    BY DEF enqueue, NoRow
  <2>2. cancel(rows, u)[t].lease = rows[t].lease
    BY DEF cancel
  <2>3. complete(rows, u)[t].lease = rows[t].lease
    BY DEF complete
  <2>4. fail(rows, u)[t].lease \in {rows[t].lease, "null"}
    BY DEF fail, failed_row
  <2> QED BY <1>2, <2>1, <2>2, <2>3, <2>4 DEF requeue_from_dlq
<1>3. ASSUME NEW u \in Tasks, NEW w \in Workers,
             rows' = claim_next(rows, u, w) \/ rows' = heartbeat(rows, u, w)
      PROVE  rows[t].lease = "expired"
  BY <1>3 DEF claim_next, heartbeat
<1>4. CASE rows' = reap_expired(rows)
  BY <1>4 DEF reap_expired, failed_row
<1>5. CASE tick \/ UNCHANGED timed_vars
  BY <1>1, <1>5 DEF tick, vars, timed_vars
<1>6. CASE timed_start \/ timed_interruption
  BY <1>1, <1>2, <1>6 DEF timed_start, timed_interruption, start, stop, stopped, crash, cancel_task
<1>7. CASE timed_call
  BY <1>2, <1>7 DEF timed_call, submit, replay
<1>8. CASE timed_sweep
  BY <1>1, <1>4, <1>8 DEF timed_sweep, sweep, vars
<1>9. ASSUME NEW w \in Workers, looks(w)
      PROVE  rows[t].lease = "expired"
  BY <1>1, <1>3, <1>9 DEF looks, claim, vars
<1>10. ASSUME NEW w \in Workers, timed_end(w) \/ timed_deadline(w)
       PROVE  rows[t].lease = "expired"
  BY <1>1, <1>10 DEF timed_end, timed_deadline, handler_ends, deadline
<1>11. ASSUME NEW w \in Workers, timed_resume(w) \/ timed_beat(w)
       PROVE  rows[t].lease = "expired"
  <2>1. held[w] \in Tasks
    BY <1>11 DEF timed_resume, timed_beat, beat, resumes, finishes, attempt_fails,
                 gives_up, shuts_down, walks_away
  <2> QED BY <2>1, <1>1, <1>2, <1>3, <1>11
     DEF timed_resume, timed_beat, beat, resumes, finishes, attempt_fails, gives_up,
         shuts_down, walks_away
<1> QED BY <1>5, <1>6, <1>7, <1>8, <1>9, <1>10, <1>11 DEF step

\* So a lease lapses only when it has run out, and then under nobody.
LEMMA TimedKeepsLeases ==
    ASSUME InTime, [TimedNext]_timed_vars
    PROVE  LeasesKept
<1> SUFFICES ASSUME NEW t \in Tasks, lease_lapses(t)
             PROVE  EngagedOn(t) = {}
  BY DEF LeasesKept
<1>1. rows \in Table /\ \A w \in Workers : Engaged(w) => held[w] \in Tasks
  BY DEF InTime, Exclusive, Typed, TypeOK
<1>2. rows[t].lease = "held" /\ rows'[t].lease = "expired"
  BY <1>1 DEF lease_lapses, Table, Row
<1>3. ~(step \/ tick \/ UNCHANGED timed_vars)
  BY <1>1, <1>2, StatementsExpireNothing
<1>4. PICK u \in ran_out : lease_lapses(u)
  BY <1>3 DEF TimedNext, lapses
<1>5. u \in Tasks /\ rows' = [rows EXCEPT ![u].lease = "expired"]
  BY <1>4 DEF lease_lapses, ran_out, InState
<1>6. t = u
  BY <1>1, <1>2, <1>5 DEF Table
<1> QED BY <1>4, <1>6, RanOutIsOrphan

\* A step that claims nothing and grants nothing.
LEMMA GoingOnKeepsRenewed ==
    ASSUME InTime,
           \A w \in Workers : Engaged(w)' => Engaged(w) /\ held'[w] = held[w],
           \A t \in Tasks : rows'[t].state = "running" => rows[t].state = "running",
           \A w \in Workers : Engaged(w)' => beat_in'[w] = beat_in[w],
           \A t \in Tasks : rows'[t].state = "running" => left'[t] = left[t]
    PROVE  Renewed'
<1>1. \A w \in Workers : Engaged(w) => held[w] \in Tasks
  BY DEF InTime, Exclusive, Typed, TypeOK
<1> QED BY <1>1 DEF InTime, Renewed

\* The statements that make no task run.
LEMMA RunningWasRunning ==
    ASSUME rows \in Table, \A w \in Workers : Engaged(w) => held[w] \in Tasks,
           \/ timed_start \/ timed_call \/ timed_interruption \/ timed_sweep
           \/ \E w \in Workers : timed_end(w) \/ timed_deadline(w) \/ timed_resume(w),
           NEW t \in Tasks, rows'[t].state = "running"
    PROVE  rows[t].state = "running"
<1> USE DEF Table, Row
<1>1. CASE rows' = rows
  BY <1>1
<1>2. ASSUME NEW u \in Tasks,
             \/ rows' = enqueue(rows, u) \/ rows' = requeue_from_dlq(rows, u)
             \/ rows' = cancel(rows, u) \/ rows' = complete(rows, u)
             \/ rows' = fail(rows, u)
      PROVE  rows[t].state = "running"
  <2>1. enqueue(rows, u)[t].state \in {rows[t].state, "queued"}
    BY DEF enqueue, NoRow
  <2>2. cancel(rows, u)[t].state \in {rows[t].state, "cancelled"}
    BY DEF cancel
  <2>3. complete(rows, u)[t].state \in {rows[t].state, "done"}
    BY DEF complete
  <2>4. fail(rows, u)[t].state \in {rows[t].state, "dlq", "queued"}
    BY DEF fail, failed_row, fail_result
  <2> QED BY <1>2, <2>1, <2>2, <2>3, <2>4 DEF requeue_from_dlq
<1>3. CASE rows' = reap_expired(rows)
  BY <1>3 DEF reap_expired, failed_row, fail_result
<1>4. CASE timed_start \/ timed_interruption
  BY <1>1, <1>2, <1>4 DEF timed_start, timed_interruption, start, stop, stopped, crash, cancel_task
<1>5. CASE timed_call
  BY <1>2, <1>5 DEF timed_call, submit, replay
<1>6. CASE timed_sweep
  BY <1>1, <1>3, <1>6 DEF timed_sweep, sweep, vars
<1>7. ASSUME NEW w \in Workers, timed_end(w) \/ timed_deadline(w)
      PROVE  rows[t].state = "running"
  BY <1>1, <1>7 DEF timed_end, timed_deadline, handler_ends, deadline
<1>8. ASSUME NEW w \in Workers, timed_resume(w)
      PROVE  rows[t].state = "running"
  <2>1. held[w] \in Tasks
    BY <1>8 DEF timed_resume, resumes, finishes, attempt_fails, gives_up, shuts_down, walks_away
  <2> QED BY <1>1, <1>2, <1>8, <2>1
          DEF timed_resume, resumes, finishes, attempt_fails, gives_up, shuts_down, walks_away
<1> QED BY <1>4, <1>5, <1>6, <1>7, <1>8

\* Only a claim engages a worker.
LEMMA EngagedWasEngaged ==
    ASSUME TypeOK,
           \/ timed_start \/ timed_call \/ timed_interruption \/ timed_sweep
           \/ \E w \in Workers : timed_end(w) \/ timed_deadline(w) \/ timed_resume(w),
           NEW v \in Workers, Engaged(v)'
    PROVE  Engaged(v) /\ held'[v] = held[v]
<1> USE DEF TypeOK, Engaged
<1>1. CASE UNCHANGED <<held, phase>>
  BY <1>1
<1>2. CASE timed_start
  BY <1>2 DEF timed_start, start
<1>3. CASE timed_call \/ timed_sweep
  BY <1>1, <1>3 DEF timed_call, submit, replay, timed_sweep, sweep, vars
<1>4. CASE timed_interruption
  BY <1>4 DEF timed_interruption, stop, stopped, crash, cancel_task, interrupted
<1>5. ASSUME NEW w \in Workers, timed_end(w) \/ timed_deadline(w)
      PROVE  Engaged(v) /\ held'[v] = held[v]
  BY <1>5 DEF timed_end, timed_deadline, handler_ends, deadline
<1>6. ASSUME NEW w \in Workers, timed_resume(w)
      PROVE  Engaged(v) /\ held'[v] = held[v]
  <2>1. Engaged(w) /\ (unwind(w, "idle") \/ unwind(w, "ended"))
    BY <1>6 DEF timed_resume, resumes, finishes, attempt_fails, gives_up, shuts_down, walks_away
  <2> QED BY <2>1 DEF unwind
<1> QED BY <1>2, <1>3, <1>4, <1>5, <1>6

LEMMA ClockedStep == InTime /\ [TimedNext]_timed_vars => Clocked'
<1> SUFFICES ASSUME Clocked, [TimedNext]_timed_vars
             PROVE  Clocked'
  BY DEF InTime
<1>1. CASE UNCHANGED <<left, beat_in>>
  BY <1>1 DEF Clocked
<1>2. CASE lapses \/ timed_start \/ UNCHANGED timed_vars
  BY <1>1, <1>2 DEF lapses, timed_start, clocks, timed_vars
<1>3. CASE tick
  BY <1>3 DEF tick, Clocked
<1>4. CASE timers_go_on
  <2>1. \A t \in Tasks : left'[t] \in {left[t], -1}
    BY <1>4 DEF timers_go_on
  <2>2. \A w \in Workers : beat_in'[w] \in {beat_in[w], 0}
    BY <1>4 DEF timers_go_on
  <2> QED BY <1>4, <2>1, <2>2 DEF timers_go_on, Clocked
<1>5. CASE timed_sweep
  <2>1. \A t \in Tasks : left'[t] \in {left[t], -1}
    BY <1>5 DEF timed_sweep
  <2> QED BY <1>5, <2>1 DEF timed_sweep, Clocked
<1>6. ASSUME NEW w \in Workers, looks(w)
      PROVE  Clocked'
  <2>1. \/ UNCHANGED <<left, beat_in>>
        \/ /\ \E t \in Tasks : left' = [left EXCEPT ![t] = lease]
           /\ beat_in' = [beat_in EXCEPT ![w] = heartbeat_interval]
    BY <1>6 DEF looks, granted
  <2> QED BY <1>1, <2>1, Cadence DEF Clocked
<1>7. ASSUME NEW w \in Workers, timed_beat(w)
      PROVE  Clocked'
  <2>1. left' = left \/ left' = [left EXCEPT ![held[w]] = lease]
    BY <1>7 DEF timed_beat, extended, granted
  <2>2. beat_in' = [beat_in EXCEPT ![w] = heartbeat_interval]
    BY <1>7 DEF timed_beat
  <2> QED BY <2>1, <2>2, Cadence DEF Clocked
<1>8. CASE step
  BY <1>2, <1>4, <1>5, <1>6, <1>7, <1>8
     DEF step, timed_call, timed_interruption, timed_end, timed_deadline, timed_resume
<1> QED BY <1>2, <1>3, <1>8 DEF TimedNext

LEMMA RenewedStep ==
    ASSUME InTime, [TimedNext]_timed_vars, Exclusive'
    PROVE  Renewed'
<1> USE DEF Table, Row
<1>1. /\ rows \in Table /\ TypeOK /\ Clocked /\ Delay \in Nat
      /\ \A w \in Workers : Engaged(w) => held[w] \in Tasks
  BY DEF InTime, Exclusive, Typed, TypeOK
<1>2. CASE lapses
  BY <1>1, <1>2, GoingOnKeepsRenewed DEF lapses, lease_lapses, clocks, Engaged
<1>3. CASE tick
  <2> SUFFICES ASSUME NEW w \in Workers, Engaged(w), rows[held[w]].state = "running"
               PROVE  beat_in'[w] >= -Delay /\ left'[held[w]] >= beat_in'[w] + Delay
    BY <1>3 DEF tick, vars, Renewed, Engaged
  <2>1. beat_in[w] > -Delay /\ beat_in'[w] = beat_in[w] - 1 /\ beat_in[w] \in Int
    BY <1>1, <1>3 DEF tick, no_delay_used_up, Clocked
  <2>2. left[held[w]] >= beat_in[w] + Delay /\ left[held[w]] \in Int
    BY <1>1 DEF InTime, Renewed, Clocked
  <2>3. left'[held[w]] = left[held[w]] - 1
    BY <1>1, <1>3, <2>1, <2>2 DEF tick
  <2> QED BY <1>1, <2>1, <2>2, <2>3
<1>4. CASE \/ timed_start \/ timed_call \/ timed_interruption \/ timed_sweep
           \/ \E w \in Workers : timed_end(w) \/ timed_deadline(w) \/ timed_resume(w)
  <2>1. \A w \in Workers : Engaged(w)' => Engaged(w) /\ held'[w] = held[w]
    BY <1>1, <1>4, EngagedWasEngaged
  <2>2. \A t \in Tasks : rows'[t].state = "running" => rows[t].state = "running"
    BY <1>1, <1>4, RunningWasRunning
  <2>3. /\ \A w \in Workers : Engaged(w)' => beat_in'[w] = beat_in[w]
        /\ \A t \in Tasks : rows'[t].state = "running" => left'[t] = left[t]
    BY <1>4 DEF timed_start, timed_call, timed_interruption, timed_sweep, timed_end,
                timed_deadline, timed_resume, timers_go_on
  <2> QED BY <2>1, <2>2, <2>3, GoingOnKeepsRenewed
<1>5. ASSUME NEW w \in Workers, NEW t \in Tasks, claim(w, t),
             left' = [left EXCEPT ![t] = granted],
             beat_in' = [beat_in EXCEPT ![w] = heartbeat_interval]
      PROVE  Renewed'
  <2> SUFFICES ASSUME NEW v \in Workers, Engaged(v)', rows'[held'[v]].state = "running"
               PROVE  beat_in'[v] >= -Delay /\ left'[held'[v]] >= beat_in'[v] + Delay
    BY DEF Renewed
  <2>1. CASE v = w
    <3>1. held'[w] = t /\ beat_in'[w] = heartbeat_interval /\ left'[t] = lease
      BY <1>1, <1>5 DEF claim, Clocked, TypeOK, granted
    <3> QED BY <1>1, <2>1, <3>1, Cadence
  <2>2. CASE v # w
    <3>1. Engaged(v) /\ held'[v] = held[v] /\ beat_in'[v] = beat_in[v]
      BY <1>1, <1>5, <2>2 DEF claim, Engaged, Clocked, TypeOK
    <3>2. held[v] # t
      BY <1>5, <3>1 DEF claim, IsOldest, InState, InTime, Exclusive, ExclusiveDelivery
    <3>3. left'[held[v]] = left[held[v]] /\ rows'[held[v]] = rows[held[v]]
      BY <1>1, <1>5, <3>1, <3>2 DEF Clocked, claim, claim_next
    <3> QED BY <3>1, <3>3 DEF InTime, Renewed
  <2> QED BY <2>1, <2>2
<1>6. ASSUME NEW w \in Workers, looks(w)
      PROVE  Renewed'
  <2>1. CASE UNCHANGED <<vars, left, beat_in>>
    BY <1>1, <2>1, GoingOnKeepsRenewed DEF vars, Engaged
  <2> QED BY <1>5, <1>6, <2>1 DEF looks
<1>7. ASSUME NEW w \in Workers, timed_beat(w)
      PROVE  Renewed'
  <2>1. Engaged(w) /\ rows' = heartbeat(rows, held[w], w) /\ UNCHANGED <<held, phase>>
    BY <1>7 DEF timed_beat, beat
  <2>2. \A t \in Tasks : rows'[t].state = rows[t].state
    BY <1>1, <2>1 DEF heartbeat
  <2> SUFFICES ASSUME NEW v \in Workers, Engaged(v), rows[held[v]].state = "running"
               PROVE  beat_in'[v] >= -Delay /\ left'[held[v]] >= beat_in'[v] + Delay
    BY <1>1, <2>1, <2>2 DEF Renewed, Engaged
  <2>3. rows[held[v]].claimed_by = v
    BY DEF InTime, Exclusive, ExclusiveDelivery
  <2>4. CASE v = w
    <3>1. beat_in'[w] = heartbeat_interval /\ left'[held[w]] = lease
      BY <1>1, <1>7, <2>1, <2>3, <2>4 DEF timed_beat, extended, granted, Clocked
    <3> QED BY <1>1, <2>4, <3>1, Cadence
  <2>5. CASE v # w
    <3>1. held[v] # held[w]
      BY <2>1, <2>5, OneHolder DEF InTime
    <3>2. beat_in'[v] = beat_in[v] /\ left'[held[v]] = left[held[v]]
      BY <1>1, <1>7, <2>5, <3>1 DEF timed_beat, extended, Clocked
    <3> QED BY <3>2 DEF InTime, Renewed
  <2> QED BY <2>4, <2>5
<1>8. CASE UNCHANGED timed_vars
  BY <1>1, <1>8, GoingOnKeepsRenewed DEF timed_vars, vars, clocks, Engaged
<1> QED BY <1>2, <1>3, <1>4, <1>6, <1>7, <1>8 DEF TimedNext, step

LEMMA InTimeStep == InTime /\ [TimedNext]_timed_vars => InTime'
<1> SUFFICES ASSUME InTime, [TimedNext]_timed_vars
             PROVE  InTime'
  OBVIOUS
<1>1. Exclusive'
  BY TimedStepIsStep, TimedKeepsLeases, ExclusiveStep DEF InTime
<1> QED BY <1>1, ClockedStep, RenewedStep DEF InTime

-----------------------------------------------------------------------------
\* With its timers the queue delivers exclusively: the heartbeat is an interval
\* and a delay of the loop inside the lease, whatever the lease, the deadline,
\* the poll and the janitor's interval are.
THEOREM TimersKeepDeliveryExclusive == TimedSpec => []ExclusiveDelivery
<1>1. InTime => ExclusiveDelivery
  BY DEF InTime, Exclusive
<1> QED BY <1>1, InTimeInit, InTimeStep, PTL DEF TimedSpec

\* Two workers are never on the same task, and cancel() reaches every run.
THEOREM TimersKeepRunsApart == TimedSpec => [](RunsAreTracked /\ OneRunPerTask)
<1>1. InTime => RunsAreTracked /\ OneRunPerTask
  BY OneHolder DEF InTime, Exclusive, OneRunPerTask
<1> QED BY <1>1, InTimeInit, InTimeStep, PTL DEF TimedSpec

-----------------------------------------------------------------------------
(* Wake-ups. *)

\* The invariant, and the one type it rests on.
Awake == Typed /\ wake_in \in [Workers -> Int] /\ NobodySleepsOnWork

LEMMA AwakeInit == TimedInit => Awake
BY TypedInit DEF TimedInit, Init, Awake, NobodySleepsOnWork

\* A step that queues nothing and puts nobody to sleep.
LEMMA QuietStep ==
    ASSUME Awake,
           \A t \in Tasks : rows'[t].state = "queued" => rows[t].state = "queued",
           \A w \in Workers : phase'[w] = "idle" /\ wake_in'[w] > 0 =>
                                phase[w] = "idle" /\ wake_in[w] > 0
    PROVE  NobodySleepsOnWork'
BY DEF Awake, NobodySleepsOnWork, InState

\* A step after which nobody sleeps.
LEMMA LoudStep ==
    ASSUME Awake, wakes(TRUE)
    PROVE  \A w \in Workers : ~(phase'[w] = "idle" /\ wake_in'[w] > 0)
BY DEF Awake, wakes

LEMMA SleepersStay ==
    ASSUME Awake, NEW signal \in BOOLEAN, wakes(signal)
    PROVE  \A w \in Workers : phase'[w] = "idle" /\ wake_in'[w] > 0 =>
                                phase[w] = "idle" /\ wake_in[w] > 0
BY DEF Awake, wakes

\* A step that puts no row in the queue.
NothingQueued == \A t \in Tasks : rows'[t].state = "queued" => rows[t].state = "queued"

LEMMA QueuedWasQueued ==
    ASSUME rows \in Table, \A w \in Workers : Engaged(w) => held[w] \in Tasks,
           \/ timed_start \/ timed_interruption
           \/ \E w \in Workers : looks(w) \/ timed_end(w) \/ timed_deadline(w) \/ timed_beat(w)
           \/ lapses \/ tick \/ UNCHANGED timed_vars
    PROVE  NothingQueued
<1> SUFFICES ASSUME NEW t \in Tasks, rows'[t].state = "queued"
             PROVE  rows[t].state = "queued"
  BY DEF NothingQueued
<1> USE DEF Table, Row
<1>1. CASE rows' = rows
  BY <1>1
<1>2. CASE timed_start \/ timed_interruption
  <2>1. \A u \in Tasks : cancel(rows, u)[t].state \in {rows[t].state, "cancelled"}
    BY DEF cancel
  <2> QED BY <1>1, <1>2, <2>1
          DEF timed_start, timed_interruption, start, stop, stopped, crash, cancel_task
<1>3. ASSUME NEW w \in Workers, looks(w)
      PROVE  rows[t].state = "queued"
  <2>1. \A u \in Tasks : claim_next(rows, u, w)[t].state \in {rows[t].state, "running"}
    BY DEF claim_next
  <2>2. rows' = rows \/ \E u \in Tasks : rows' = claim_next(rows, u, w)
    BY <1>3 DEF looks, claim, vars
  <2> QED BY <1>1, <2>1, <2>2
<1>4. ASSUME NEW w \in Workers, timed_end(w) \/ timed_deadline(w)
      PROVE  rows[t].state = "queued"
  BY <1>1, <1>4 DEF timed_end, timed_deadline, handler_ends, deadline
<1>5. ASSUME NEW w \in Workers, timed_beat(w)
      PROVE  rows[t].state = "queued"
  BY <1>5 DEF timed_beat, beat, heartbeat
<1>6. CASE lapses
  BY <1>6 DEF lapses, lease_lapses
<1>7. CASE tick \/ UNCHANGED timed_vars
  BY <1>1, <1>7 DEF tick, vars, timed_vars
<1> QED BY <1>2, <1>3, <1>4, <1>5, <1>6, <1>7

\* A failed attempt queues no task but its own, and reports it.
LEMMA RetriedIsReported ==
    ASSUME rows \in Table, NEW w \in Workers, Engaged(w) => held[w] \in Tasks,
           timed_resume(w)
    PROVE  NothingQueued \/ retried(w)
<1> SUFFICES ASSUME NEW t \in Tasks, rows'[t].state = "queued", ~retried(w)
             PROVE  rows[t].state = "queued"
  BY DEF NothingQueued
<1> USE DEF Table, Row
<1>1. CASE rows' = rows
  BY <1>1
<1>2. ASSUME NEW u \in Tasks, rows' = cancel(rows, u) \/ rows' = complete(rows, u)
      PROVE  rows[t].state = "queued"
  <2>1. cancel(rows, u)[t].state \in {rows[t].state, "cancelled"}
    BY DEF cancel
  <2>2. complete(rows, u)[t].state \in {rows[t].state, "done"}
    BY DEF complete
  <2> QED BY <1>2, <2>1, <2>2
<1>3. CASE attempt_fails(w)
  <2>1. /\ held[w] \in Tasks /\ rows' = fail(rows, held[w])
        /\ fail_result(rows, held[w]) # "queued"
    BY <1>3 DEF attempt_fails, retried
  <2> QED BY <2>1 DEF fail, failed_row
<1> QED BY <1>1, <1>2, <1>3
        DEF timed_resume, resumes, finishes, gives_up, shuts_down, walks_away

\* Nor does the janitor.
LEMMA ReclaimedIsReported ==
    ASSUME rows \in Table, timed_sweep
    PROVE  NothingQueued \/ reclaimed
<1> SUFFICES ASSUME NEW t \in Tasks, rows'[t].state = "queued", ~reclaimed
             PROVE  rows[t].state = "queued"
  BY DEF NothingQueued
<1>1. rows' = rows \/ rows' = reap_expired(rows)
  BY DEF timed_sweep, sweep, vars
<1>2. t \in Expired(rows) => fail_result(rows, t) # "queued"
  BY DEF reclaimed
<1> QED BY <1>1, <1>2 DEF reap_expired, failed_row, Table, Row

LEMMA AwakeStep == Awake /\ [TimedNext]_timed_vars => Awake'
<1> SUFFICES ASSUME Awake, [TimedNext]_timed_vars
             PROVE  wake_in' \in [Workers -> Int] /\ NobodySleepsOnWork'
  BY TypedStep, TimedStepIsStep DEF Awake
<1>1. /\ rows \in Table /\ wake_in \in [Workers -> Int] /\ poll \in Nat
      /\ phase \in [Workers -> Phases]
      /\ \A w \in Workers : Engaged(w) => held[w] \in Tasks
  BY DEF Awake, Typed, TypeOK
<1>2. ASSUME NEW signal \in BOOLEAN, wakes(signal)
      PROVE  wake_in' \in [Workers -> Int]
  BY <1>1, <1>2 DEF wakes
<1>3. ASSUME NEW signal \in BOOLEAN, wakes(signal), NothingQueued \/ signal
      PROVE  NobodySleepsOnWork'
  <2>1. CASE signal
    BY <1>3, <2>1, LoudStep DEF NobodySleepsOnWork
  <2>2. CASE NothingQueued
    BY <1>3, <2>2, QuietStep, SleepersStay DEF NothingQueued
  <2> QED BY <1>3, <2>1, <2>2
<1>4. CASE timed_start \/ timed_interruption
  <2>1. wakes(FALSE) /\ NothingQueued
    BY <1>1, <1>4, QueuedWasQueued DEF timed_start, timed_interruption
  <2> QED BY <1>2, <1>3, <2>1
<1>5. CASE timed_call
  BY <1>2, <1>3, <1>5 DEF timed_call
<1>6. CASE timed_sweep
  <2>1. wakes(reclaimed) /\ reclaimed \in BOOLEAN
    BY <1>6 DEF timed_sweep, reclaimed
  <2> QED BY <1>1, <1>2, <1>3, <1>6, <2>1, ReclaimedIsReported
<1>11. ASSUME NEW w \in Workers, timed_resume(w)
       PROVE  wake_in' \in [Workers -> Int] /\ NobodySleepsOnWork'
  <2>1. wakes(retried(w)) /\ retried(w) \in BOOLEAN
    BY <1>11 DEF timed_resume, retried
  <2> QED BY <1>1, <1>2, <1>3, <1>11, <2>1, RetriedIsReported
<1>7. ASSUME NEW w \in Workers, timed_end(w) \/ timed_deadline(w)
      PROVE  wake_in' \in [Workers -> Int] /\ NobodySleepsOnWork'
  <2>1. wakes(FALSE) /\ NothingQueued
    BY <1>1, <1>7, QueuedWasQueued DEF timed_end, timed_deadline
  <2> QED BY <1>2, <1>3, <2>1
<1>8. ASSUME NEW w \in Workers, looks(w)
      PROVE  wake_in' \in [Workers -> Int] /\ NobodySleepsOnWork'
  <2>1. CASE wakes(FALSE)
    BY <1>1, <1>2, <1>3, <1>8, <2>1, QueuedWasQueued
  <2>2. CASE InState(rows, "queued") = {} /\ wake_in' = [wake_in EXCEPT ![w] = poll]
             /\ UNCHANGED vars
    BY <1>1, <2>2 DEF NobodySleepsOnWork, InState, vars
  <2> QED BY <1>8, <2>1, <2>2 DEF looks
<1>9. CASE \/ lapses \/ UNCHANGED timed_vars
           \/ \E w \in Workers : timed_beat(w)
  <2>1. NothingQueued
    BY <1>1, <1>9, QueuedWasQueued
  <2>2. UNCHANGED <<phase, wake_in>>
    BY <1>9 DEF lapses, lease_lapses, clocks, timed_beat, beat, timed_vars, vars
  <2> QED BY <1>1, <2>1, <2>2, QuietStep DEF NothingQueued
<1>10. CASE tick
  <2>1. NothingQueued /\ wake_in' \in [Workers -> Int]
    BY <1>1, <1>10, QueuedWasQueued DEF tick
  <2>2. \A w \in Workers : wake_in'[w] > 0 => wake_in[w] > 0
    BY <1>1, <1>10 DEF tick
  <2>3. UNCHANGED phase
    BY <1>10 DEF tick, vars
  <2> QED BY <2>1, <2>2, <2>3, QuietStep DEF NothingQueued
<1> QED BY <1>4, <1>5, <1>6, <1>7, <1>8, <1>9, <1>10, <1>11 DEF TimedNext, step

\* No wake-up is lost: whoever queues a task wakes the sleeping workers, and one
\* that goes to sleep has seen the queue empty with nothing run in between.
THEOREM NoWakeupIsLost == TimedSpec => []NobodySleepsOnWork
<1>1. Awake => NobodySleepsOnWork
  BY DEF Awake
<1> QED BY <1>1, AwakeInit, AwakeStep, PTL DEF TimedSpec

-----------------------------------------------------------------------------
(* Orphans. *)

\* Where the countdowns of an orphan stand: while its lease lasts, its age and
\* what is left of the lease make up one lease at most; once it has lapsed, its
\* age and what is left of the janitor's sleep make up a lease and an interval.
\* A lease that runs out does so by a tick, so the janitor's sleep has begun.
InTurn ==
    /\ reap_in \in Int /\ orphaned \in [Tasks -> Int]
    /\ mode = "up" => -Delay <= reap_in /\ reap_in <= reaper_interval
    /\ \A t \in Tasks :
        /\ left[t] >= -1 /\ left[t] <= lease
        /\ ~Orphan(t) => orphaned[t] = 0
        /\ Orphan(t) /\ rows[t].lease = "held" => orphaned[t] + left[t] <= lease
        /\ Orphan(t) /\ rows[t].lease = "expired" =>
                orphaned[t] + reap_in <= lease + reaper_interval
    /\ mode = "up" /\ ran_out # {} => reap_in < reaper_interval

LEMMA Settings ==
    {lease, reaper_interval, Delay, heartbeat_interval, poll, task_timeout} \subseteq Nat
BY Cadence

LEMMA InTurnInit == TimedInit => InTurn
BY Settings
   DEF TimedInit, Init, InTurn, Orphan, ran_out, InState, EmptyTable, NoRow

\* What an untimed step makes of a task that runs: nothing, unless its worker
\* has just been granted a lease.
Granted(t) == ~Orphan(t)' /\ rows'[t].lease = "held" /\ left'[t] = lease

Untouched(t) == rows'[t] = rows[t] /\ left'[t] = left[t]

\* The statements that make no task run leave those that go on running alone.
LEMMA RunningUntouched ==
    ASSUME rows \in Table, \A w \in Workers : Engaged(w) => held[w] \in Tasks,
           \/ timed_start \/ timed_call \/ timed_interruption \/ timed_sweep
           \/ \E w \in Workers : timed_end(w) \/ timed_deadline(w) \/ timed_resume(w),
           NEW t \in Tasks, rows'[t].state = "running"
    PROVE  Untouched(t)
<1> USE DEF Table, Row
<1>1. left'[t] = left[t]
  BY DEF timed_start, timed_call, timed_interruption, timed_sweep, timed_end,
         timed_deadline, timed_resume, timers_go_on
<1>2. CASE rows' = rows
  BY <1>1, <1>2 DEF Untouched
<1>3. ASSUME NEW u \in Tasks,
             \/ rows' = enqueue(rows, u) \/ rows' = requeue_from_dlq(rows, u)
             \/ rows' = cancel(rows, u) \/ rows' = complete(rows, u)
             \/ rows' = fail(rows, u)
      PROVE  rows'[t] = rows[t]
  <2>1. enqueue(rows, u)[t].state = "queued" \/ enqueue(rows, u)[t] = rows[t]
    BY DEF enqueue, NoRow
  <2>2. cancel(rows, u)[t].state = "cancelled" \/ cancel(rows, u)[t] = rows[t]
    BY DEF cancel
  <2>3. complete(rows, u)[t].state = "done" \/ complete(rows, u)[t] = rows[t]
    BY DEF complete
  <2>4. fail(rows, u)[t].state \in {"dlq", "queued"} \/ fail(rows, u)[t] = rows[t]
    BY DEF fail, failed_row, fail_result
  <2> QED BY <1>3, <2>1, <2>2, <2>3, <2>4 DEF requeue_from_dlq
<1>4. CASE rows' = reap_expired(rows)
  <2>1. reap_expired(rows)[t].state \in {"dlq", "queued"} \/ reap_expired(rows)[t] = rows[t]
    BY DEF reap_expired, failed_row, fail_result, Expired, InState
  <2> QED BY <1>1, <1>4, <2>1 DEF Untouched
<1>5. CASE timed_start \/ timed_interruption
  BY <1>1, <1>2, <1>3, <1>5
     DEF timed_start, timed_interruption, start, stop, stopped, crash, cancel_task, Untouched
<1>6. CASE timed_call
  BY <1>1, <1>3, <1>6 DEF timed_call, submit, replay, Untouched
<1>7. CASE timed_sweep
  BY <1>2, <1>4, <1>7 DEF timed_sweep, sweep, vars
<1>8. ASSUME NEW w \in Workers, timed_end(w) \/ timed_deadline(w)
      PROVE  Untouched(t)
  BY <1>2, <1>8 DEF timed_end, timed_deadline, handler_ends, deadline
<1>9. ASSUME NEW w \in Workers, timed_resume(w)
      PROVE  Untouched(t)
  <2>1. held[w] \in Tasks
    BY <1>9 DEF timed_resume, resumes, finishes, attempt_fails, gives_up, shuts_down, walks_away
  <2> QED BY <1>1, <1>2, <1>3, <1>9, <2>1
          DEF timed_resume, resumes, finishes, attempt_fails, gives_up, shuts_down, walks_away,
              Untouched
<1> QED BY <1>5, <1>6, <1>7, <1>8, <1>9

LEMMA RunningByStep ==
    ASSUME InTime, step, NEW t \in Tasks, rows'[t].state = "running"
    PROVE  Untouched(t) \/ Granted(t)
<1>1. /\ rows \in Table /\ TypeOK /\ Clocked
      /\ \A w \in Workers : Engaged(w) => held[w] \in Tasks
  BY DEF InTime, Exclusive, Typed, TypeOK
<1> USE DEF Table, Row
<1>2. CASE \/ timed_start \/ timed_call \/ timed_interruption \/ timed_sweep
           \/ \E w \in Workers : timed_end(w) \/ timed_deadline(w) \/ timed_resume(w)
  BY <1>1, <1>2, RunningUntouched
<1>3. ASSUME NEW w \in Workers, NEW u \in Tasks, claim(w, u),
             left' = [left EXCEPT ![u] = granted]
      PROVE  Untouched(t) \/ Granted(t)
  <2>1. CASE t = u
    <3>1. rows'[t].lease = "held" /\ left'[t] = lease
      BY <1>1, <1>3, <2>1 DEF claim, claim_next, Clocked, granted
    <3>2. phase'[w] = "active" /\ held'[w] = t
      BY <1>1, <1>3, <2>1 DEF claim, TypeOK
    <3> QED BY <3>1, <3>2 DEF Granted, Orphan, EngagedOn, Engaged
  <2>2. CASE t # u
    BY <1>1, <1>3, <2>2 DEF claim, claim_next, Clocked, Untouched
  <2> QED BY <2>1, <2>2
<1>4. ASSUME NEW w \in Workers, looks(w)
      PROVE  Untouched(t) \/ Granted(t)
  BY <1>3, <1>4 DEF looks, vars, Untouched
<1>5. ASSUME NEW w \in Workers, timed_beat(w)
      PROVE  Untouched(t) \/ Granted(t)
  <2>1. /\ Engaged(w) /\ held[w] \in Tasks /\ UNCHANGED <<held, phase>>
        /\ rows' = heartbeat(rows, held[w], w) /\ left' = extended(w)
    BY <1>1, <1>5 DEF timed_beat, beat
  <2>2. CASE t = held[w] /\ rows[t].state = "running" /\ rows[t].claimed_by = w
    <3>1. rows'[t].lease = "held" /\ left'[t] = lease
      BY <1>1, <2>1, <2>2 DEF heartbeat, extended, Clocked, granted
    <3>2. w \in EngagedOn(t)'
      BY <2>1, <2>2 DEF EngagedOn, Engaged
    <3> QED BY <3>1, <3>2 DEF Granted, Orphan
  <2>3. CASE ~(t = held[w] /\ rows[t].state = "running" /\ rows[t].claimed_by = w)
    BY <1>1, <2>1, <2>3 DEF heartbeat, extended, Clocked, Untouched
  <2> QED BY <2>2, <2>3
<1> QED BY <1>2, <1>4, <1>5 DEF step

\* The countdown of a lease never goes past its ends.
LEMMA LeftByStep ==
    ASSUME InTime, InTurn, step, NEW t \in Tasks
    PROVE  left'[t] >= -1 /\ left'[t] <= lease
<1>1. /\ left \in [Tasks -> Int] /\ left[t] >= -1 /\ left[t] <= lease /\ lease \in Nat
  BY Settings DEF InTime, Clocked, InTurn
<1>2. left'[t] \in {left[t], -1, lease}
  <2>1. CASE timed_start
    BY <2>1 DEF timed_start
  <2>2. CASE \/ timed_call \/ timed_interruption \/ timed_sweep
             \/ \E w \in Workers : timed_end(w) \/ timed_deadline(w) \/ timed_resume(w)
    BY <2>2 DEF timed_call, timed_interruption, timed_sweep, timed_end, timed_deadline,
                timed_resume, timers_go_on
  <2>3. ASSUME NEW w \in Workers, looks(w) \/ timed_beat(w)
        PROVE  left'[t] \in {left[t], lease}
    BY <1>1, <2>3 DEF looks, timed_beat, extended, granted
  <2> QED BY <2>1, <2>2, <2>3 DEF step
<1> QED BY <1>1, <1>2

\* The janitor sleeps on, or has just gone to sleep: the process is new, or it
\* has swept up every lapsed lease.
LEMMA JanitorByStep ==
    ASSUME InTime, step
    PROVE  \/ mode' = "up" /\ mode = "up" /\ reap_in' = reap_in
           \/ mode' = "up" /\ mode = "down" /\ reap_in' = reaper_interval /\ rows' = rows
           \/ /\ mode' = "up" /\ mode = "up" /\ reap_in' = reaper_interval
              /\ \A t \in Tasks : ~(rows'[t].state = "running" /\ rows'[t].lease = "expired")
           \/ mode' # "up" /\ reap_in' \in {0, reap_in}
<1>1. /\ rows \in Table /\ Typed
  BY DEF InTime, Exclusive, Typed, TypeOK
<1>2. CASE timed_start
  BY <1>2 DEF timed_start, start
<1>3. CASE timed_sweep
  <2>1. mode = "up" /\ mode' = "up" /\ reap_in' = reaper_interval
    BY <1>3 DEF timed_sweep, sweep, vars
  <2>2. ASSUME NEW t \in Tasks, rows'[t].state = "running"
        PROVE  rows'[t].lease # "expired"
    <3>1. CASE Expired(rows) = {} /\ rows' = rows
      BY <2>2, <3>1 DEF Expired, InState
    <3>2. CASE rows' = reap_expired(rows)
      <4>1. t \notin Expired(rows)
        <5>1. failed_row(rows, t).state # "running" \/ rows[t].state # "running"
          BY <1>1 DEF failed_row, fail_result, Table, Row
        <5> QED BY <2>2, <3>2, <5>1 DEF reap_expired, Expired, InState
      <4> QED BY <2>2, <3>2, <4>1 DEF reap_expired, Expired, InState
    <3> QED BY <1>3, <3>1, <3>2 DEF timed_sweep, sweep, vars
  <2> QED BY <2>1, <2>2
<1>4. CASE \/ timed_call \/ timed_interruption
           \/ \E w \in Workers : timed_end(w) \/ timed_deadline(w) \/ timed_resume(w)
  <2>1. reap_in' = IF mode' = "up" THEN reap_in ELSE 0
    BY <1>4 DEF timed_call, timed_interruption, timed_end, timed_deadline, timed_resume,
                timers_go_on
  <2>2. mode' = "up" => mode = "up"
    BY <1>4 DEF timed_call, timed_interruption, timed_end, timed_deadline, timed_resume,
                submit, replay, stop, stopped, crash, cancel_task, handler_ends, deadline,
                resumes, finishes, attempt_fails, gives_up, shuts_down, walks_away, unwind
  <2> QED BY <2>1, <2>2
<1>5. ASSUME NEW w \in Workers, looks(w) \/ timed_beat(w)
      PROVE  UNCHANGED <<mode, reap_in>>
  BY <1>5 DEF looks, timed_beat, claim, beat, vars
<1> QED BY <1>2, <1>3, <1>4, <1>5 DEF step

LEMMA OrphanLease ==
    ASSUME InTime, NEW t \in Tasks, Orphan(t)
    PROVE  rows[t].lease \in {"held", "expired"}
<1>1. rows[t] \in Row /\ Counted(rows[t])
  BY DEF InTime, Exclusive, Typed, TypeOK, DeliveryCounts, Table
<1> QED BY <1>1 DEF Orphan, Counted, Row, Leases

LEMMA StepInTurn ==
    ASSUME InTime, InTurn, InTime', ran_out = {}, step, ages
    PROVE  InTurn'
<1>1. /\ left \in [Tasks -> Int] /\ left' \in [Tasks -> Int]
      /\ lease \in Nat /\ reaper_interval \in Nat /\ Delay \in Nat
  BY Settings DEF InTime, Clocked
<1>2. reap_in' \in Int /\ (mode' = "up" => -Delay <= reap_in' /\ reap_in' <= reaper_interval)
  BY <1>1, JanitorByStep DEF InTurn
<1>3. orphaned' \in [Tasks -> Int]
  <2>1. \A t \in Tasks : (IF Orphan(t)' THEN orphaned[t] ELSE 0) \in Int
    BY DEF InTurn
  <2> QED BY <2>1 DEF ages
<1>4. ASSUME NEW t \in Tasks, Orphan(t)'
      PROVE  /\ Untouched(t) /\ rows[t].state = "running" /\ left[t] \in Int
             /\ orphaned'[t] = orphaned[t] /\ (Orphan(t) \/ orphaned[t] = 0)
  <2>1. Untouched(t)
    BY <1>4, RunningByStep DEF Orphan, Granted
  <2> QED BY <1>1, <1>4, <2>1 DEF Orphan, Untouched, ages, InTurn
<1>5. ASSUME NEW t \in Tasks, Orphan(t)', rows'[t].lease = "held"
      PROVE  orphaned'[t] + left'[t] <= lease
  BY <1>1, <1>4, <1>5 DEF Untouched, InTurn
<1>6. ASSUME NEW t \in Tasks, Orphan(t)', rows'[t].lease = "expired"
      PROVE  orphaned'[t] + reap_in' <= lease + reaper_interval
  <2>1. mode' = "up" /\ rows'[t].state = "running" /\ reap_in \in Int
    BY <1>6 DEF Orphan, InTurn
  <2>2. CASE mode = "up" /\ reap_in' = reap_in
    <3>1. reap_in <= reaper_interval
      BY <2>2 DEF InTurn
    <3> QED BY <1>1, <1>4, <1>6, <2>1, <2>2, <3>1 DEF Untouched, InTurn
  <2>3. CASE mode = "down" /\ reap_in' = reaper_interval
    <3>1. ~Orphan(t)
      BY <2>3 DEF Orphan
    <3> QED BY <1>1, <1>4, <1>6, <2>3, <3>1
  <2> QED BY <1>6, <2>1, <2>2, <2>3, JanitorByStep
<1>7. ran_out' = {}
  <2> SUFFICES ASSUME NEW t \in Tasks, rows'[t].state = "running", rows'[t].lease = "held",
                      left'[t] < 0
               PROVE  FALSE
    BY DEF ran_out, InState
  <2>1. ~Granted(t)
    BY <1>1 DEF Granted
  <2>2. Untouched(t)
    BY <2>1, RunningByStep
  <2> QED BY <2>2 DEF Untouched, ran_out, InState
<1>8. \A t \in Tasks : ~Orphan(t)' => orphaned'[t] = 0
  BY DEF ages
<1> QED BY <1>2, <1>3, <1>5, <1>6, <1>7, <1>8, LeftByStep DEF InTurn

LEMMA TickInTurn ==
    ASSUME InTime, InTurn, ran_out = {}, tick
    PROVE  InTurn'
<1>1. /\ left \in [Tasks -> Int] /\ reap_in \in Int /\ orphaned \in [Tasks -> Int]
      /\ lease \in Nat /\ reaper_interval \in Nat /\ Delay \in Nat
  BY Settings DEF InTime, Clocked, InTurn
<1>2. /\ UNCHANGED vars
      /\ mode = "up" => reap_in > -Delay
      /\ reap_in' = IF mode = "up" THEN reap_in - 1 ELSE reap_in
      /\ \A t \in Tasks : left'[t] = IF left[t] >= 0 THEN left[t] - 1 ELSE left[t]
      /\ \A t \in Tasks : orphaned'[t] = IF Orphan(t) THEN orphaned[t] + 1 ELSE 0
      /\ orphaned' \in [Tasks -> Int]
  BY <1>1 DEF tick, no_delay_used_up
<1>3. \A t \in Tasks : Orphan(t)' <=> Orphan(t)
  BY <1>2 DEF vars, Orphan, EngagedOn, Engaged
<1>4. mode' = mode /\ rows' = rows
  BY <1>2 DEF vars
<1>5. ASSUME NEW t \in Tasks
      PROVE  /\ left'[t] >= -1 /\ left'[t] <= lease
             /\ ~Orphan(t) => orphaned'[t] = 0
             /\ Orphan(t) /\ rows[t].lease = "held" => orphaned'[t] + left'[t] <= lease
             /\ Orphan(t) /\ rows[t].lease = "expired" =>
                    orphaned'[t] + reap_in' <= lease + reaper_interval
  <2>1. left[t] \in Int /\ orphaned[t] \in Int /\ left[t] >= -1 /\ left[t] <= lease
    BY <1>1 DEF InTurn
  <2>2. ASSUME Orphan(t), rows[t].lease = "held"
        PROVE  orphaned'[t] + left'[t] <= lease
    <3>1. left[t] >= 0
      BY <2>1, <2>2 DEF ran_out, InState, Orphan
    <3>2. orphaned[t] + left[t] <= lease
      BY <2>2 DEF InTurn
    <3> QED BY <1>1, <1>2, <2>1, <2>2, <3>1, <3>2
  <2>3. ASSUME Orphan(t), rows[t].lease = "expired"
        PROVE  orphaned'[t] + reap_in' <= lease + reaper_interval
    <3>1. orphaned[t] + reap_in <= lease + reaper_interval /\ mode = "up"
      BY <2>3 DEF InTurn, Orphan
    <3> QED BY <1>1, <1>2, <2>1, <2>3, <3>1
  <2> QED BY <1>1, <1>2, <2>1, <2>2, <2>3
<1>6. mode = "up" => -Delay <= reap_in' /\ reap_in' < reaper_interval
  BY <1>1, <1>2 DEF InTurn
<1>7. reap_in' \in Int /\ (mode = "up" => reap_in' <= reaper_interval)
  BY <1>1, <1>2, <1>6
<1> QED BY <1>2, <1>3, <1>4, <1>5, <1>6, <1>7 DEF InTurn

\* A lease that has run out lapses before the janitor's next turn.
LEMMA LapseInTurn ==
    ASSUME InTime, InTurn, lapses
    PROVE  InTurn'
<1>1. /\ left \in [Tasks -> Int] /\ reap_in \in Int /\ orphaned \in [Tasks -> Int]
      /\ lease \in Nat /\ reaper_interval \in Nat /\ rows \in Table
  BY Settings DEF InTime, Clocked, InTurn, Exclusive, Typed, TypeOK
<1>2. PICK t \in ran_out : lease_lapses(t)
  BY DEF lapses
<1>3. t \in Tasks /\ rows[t].state = "running" /\ rows[t].lease = "held" /\ left[t] < 0
  BY <1>2 DEF ran_out, InState
<1>4. /\ rows' = [rows EXCEPT ![t].lease = "expired"]
      /\ UNCHANGED <<mode, held, phase, left, reap_in, orphaned>>
  BY <1>2 DEF lapses, lease_lapses, clocks
<1>5. \A u \in Tasks : Orphan(u)' <=> Orphan(u)
  BY <1>1, <1>3, <1>4 DEF Orphan, EngagedOn, Engaged, Table, Row
<1>6. ran_out' \subseteq ran_out
  BY <1>1, <1>3, <1>4 DEF ran_out, InState, Table, Row
<1>7. ASSUME NEW u \in Tasks, u # t
      PROVE  rows'[u] = rows[u]
  BY <1>1, <1>4, <1>7 DEF Table
<1>8. rows'[t].lease = "expired"
  BY <1>1, <1>3, <1>4 DEF Table, Row
<1>9. ASSUME Orphan(t)
      PROVE  orphaned[t] + reap_in <= lease + reaper_interval
  <2>1. reap_in < reaper_interval
    BY <1>2, <1>9 DEF Orphan, InTurn
  <2>2. orphaned[t] + left[t] <= lease /\ left[t] >= -1
    BY <1>3, <1>9 DEF InTurn
  <2>3. left[t] \in Int /\ orphaned[t] \in Int
    BY <1>1, <1>3
  <2> QED BY <1>1, <2>1, <2>2, <2>3
<1>10. ASSUME NEW u \in Tasks
       PROVE  /\ Orphan(u) /\ rows'[u].lease = "held" => orphaned[u] + left[u] <= lease
              /\ Orphan(u) /\ rows'[u].lease = "expired" =>
                    orphaned[u] + reap_in <= lease + reaper_interval
  BY <1>7, <1>8, <1>9 DEF InTurn
<1> QED BY <1>4, <1>5, <1>6, <1>10 DEF InTurn

LEMMA InTurnStep == InTime /\ InTurn /\ [TimedNext]_timed_vars => InTurn'
<1> SUFFICES ASSUME InTime, InTurn, [TimedNext]_timed_vars
             PROVE  InTurn'
  OBVIOUS
<1>1. InTime'
  BY InTimeStep
<1>2. CASE UNCHANGED timed_vars
  BY <1>2 DEF timed_vars, vars, clocks, InTurn, Orphan, EngagedOn, Engaged, ran_out, InState
<1> QED BY <1>1, <1>2, StepInTurn, TickInTurn, LapseInTurn DEF TimedNext

\* A task whose worker is gone, with its process or alone, is taken back within
\* a lease, an interval of the janitor and a delay of the loop.
THEOREM OrphansAreTakenBack == TimedSpec => []OrphansReclaimed
<1>1. ASSUME InTime, InTurn, NEW t \in Tasks
      PROVE  orphaned[t] <= lease + reaper_interval + Delay
  <2>1. /\ left[t] \in Int /\ orphaned[t] \in Int /\ reap_in \in Int
        /\ lease \in Nat /\ reaper_interval \in Nat /\ Delay \in Nat
    BY <1>1, Settings DEF InTime, Clocked, InTurn
  <2>2. CASE ~Orphan(t)
    BY <1>1, <2>1, <2>2 DEF InTurn
  <2>3. CASE Orphan(t)
    <3>1. mode = "up" /\ -Delay <= reap_in /\ rows[t].state = "running"
      BY <1>1, <2>3 DEF InTurn, Orphan
    <3>2. CASE rows[t].lease = "expired"
      <4>1. orphaned[t] + reap_in <= lease + reaper_interval
        BY <1>1, <2>3, <3>2 DEF InTurn
      <4> QED BY <2>1, <3>1, <4>1
    <3>3. CASE rows[t].lease = "held"
      <4>1. orphaned[t] + left[t] <= lease /\ left[t] >= -1
        BY <1>1, <2>3, <3>3 DEF InTurn
      <4>2. left[t] < 0 => reap_in < reaper_interval
        BY <1>1, <3>1, <3>3 DEF InTurn, ran_out, InState
      <4> QED BY <2>1, <3>1, <4>1, <4>2
    <3> QED BY <1>1, <2>3, <3>2, <3>3, OrphanLease
  <2> QED BY <2>2, <2>3
<1>2. InTime /\ InTurn => OrphansReclaimed
  BY <1>1 DEF OrphansReclaimed
<1> QED BY <1>2, InTimeInit, InTimeStep, InTurnInit, InTurnStep, PTL DEF TimedSpec

-----------------------------------------------------------------------------
(* The queue with its timers is the queue whose leases are kept. *)

\* The two queues differ in what lets a lease lapse, and in nothing else.
LEMMA KeptStep ==
    ASSUME [Next]_vars, LeasesKept
    PROVE  [Kept!Next]_(Kept!vars)
<1> USE DEF Alive, Kept!Alive, Engaged, Kept!Engaged, InState, Kept!InState,
            IsOldest, Kept!IsOldest
<1>1. CASE UNCHANGED vars
  BY <1>1 DEF vars, Kept!vars
<1>2. CASE start \/ stop \/ stopped \/ crash
  BY <1>2 DEF start, Kept!start, stop, Kept!stop, stopped, Kept!stopped, crash, Kept!crash,
              Kept!Next
<1>3. CASE sweep
  BY <1>3 DEF sweep, Kept!sweep, Expired, Kept!Expired, reap_expired, Kept!reap_expired,
              failed_row, Kept!failed_row, fail_result, Kept!fail_result, Kept!Next
<1>4. ASSUME NEW t \in Tasks, submit(t)
      PROVE  Kept!Next
  BY <1>4 DEF submit, Kept!submit, IsFresh, Kept!IsFresh, enqueue, Kept!enqueue,
              NoRow, Kept!NoRow, Kept!Next
<1>5. ASSUME NEW t \in Tasks, cancel_task(t)
      PROVE  Kept!Next
  BY <1>5 DEF cancel_task, Kept!cancel_task, Live, Kept!Live, cancel, Kept!cancel,
              interrupted, Kept!interrupted, Kept!Next
<1>6. ASSUME NEW t \in Tasks, replay(t)
      PROVE  Kept!Next
  BY <1>6 DEF replay, Kept!replay, requeue_from_dlq, Kept!requeue_from_dlq,
              enqueue, Kept!enqueue, NoRow, Kept!NoRow, Kept!Next
<1>7. ASSUME NEW t \in Tasks, lease_lapses(t)
      PROVE  Kept!Next
  <2>1. EngagedOn(t) = {}
    BY <1>7 DEF LeasesKept
  <2> QED BY <1>7, <2>1 DEF lease_lapses, Kept!lease_lapses, EngagedOn, Kept!EngagedOn, Kept!Next
<1>8. ASSUME NEW w \in Workers, NEW t \in Tasks, claim(w, t)
      PROVE  Kept!Next
  BY <1>8 DEF claim, Kept!claim, claim_next, Kept!claim_next, Kept!Next
<1>9. ASSUME NEW w \in Workers, handler_ends(w) \/ deadline(w)
      PROVE  Kept!Next
  BY <1>9 DEF handler_ends, Kept!handler_ends, deadline, Kept!deadline, Kept!Next
<1>10. ASSUME NEW w \in Workers, resumes(w)
       PROVE  Kept!Next
  <2>1. Kept!resumes(w)
    BY <1>10 DEF resumes, Kept!resumes, finishes, Kept!finishes, attempt_fails,
                 Kept!attempt_fails, gives_up, Kept!gives_up, shuts_down, Kept!shuts_down,
                 walks_away, Kept!walks_away, unwind, Kept!unwind, Resumes, Kept!Resumes,
                 complete, Kept!complete, fail, Kept!fail, failed_row, Kept!failed_row,
                 fail_result, Kept!fail_result, cancel, Kept!cancel, Live, Kept!Live
  <2> QED BY <2>1 DEF Kept!Next
<1>11. ASSUME NEW w \in Workers, beat(w)
       PROVE  Kept!Next
  BY <1>11 DEF beat, Kept!beat, heartbeat, Kept!heartbeat, Kept!Next
<1> QED BY <1>1, <1>2, <1>3, <1>4, <1>5, <1>6, <1>7, <1>8, <1>9, <1>10, <1>11 DEF Next

\* Under its timers the queue behaves as one in which a live worker's lease
\* never lapses: what is assumed elsewhere (Stalls = FALSE) is what they achieve.
THEOREM TimersKeepLeases == TimedSpec => KeptSpec
<1>1. TimedInit => Kept!Init
  BY DEF TimedInit, Init, Kept!Init, EmptyTable, Kept!EmptyTable, NoRow, Kept!NoRow
<1>2. InTime /\ [TimedNext]_timed_vars => [Kept!Next]_(Kept!vars)
  BY TimedStepIsStep, TimedKeepsLeases, KeptStep
<1> QED BY <1>1, <1>2, InTimeInit, InTimeStep, PTL DEF TimedSpec, KeptSpec, Kept!Spec
=============================================================================
