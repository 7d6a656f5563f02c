----------------------------- MODULE LeaseTimes -----------------------------
(***************************************************************************)
(* The timers of backend/agent/queue.py: the lease and its heartbeat, the  *)
(* deadline of an attempt, the janitor's interval, the poll of an idle     *)
(* worker.  AgentTaskQueue says what each coroutine does; here every step  *)
(* of it also has its time.                                                *)
(*                                                                         *)
(* A timer counts down in ticks; at 0 it is due, and the loop, which may   *)
(* be busy with other callbacks, runs it at most Delay ticks later.  With  *)
(* Stalls = TRUE the queue itself says nothing of when a lease lapses: it  *)
(* does so when it has run out, and that this never happens to a live      *)
(* worker (AgentTaskQueue with Stalls = FALSE) is shown.                   *)
(***************************************************************************)
EXTENDS AgentTaskQueue

CONSTANTS
    lease,            \* lease_ms
    half_second,
    poll,             \* poll_s
    reaper_interval,  \* reaper_interval_s
    task_timeout,     \* task_timeout_s
    Delay             \* how late the loop may run what is due

\* The interval of _heartbeat.
heartbeat_interval == IF lease \div 3 > half_second THEN lease \div 3 ELSE half_second

\* The loop is never busy for so long that a heartbeat misses its lease.
ASSUME TimesAssumption ==
    /\ {lease, half_second, poll, reaper_interval, task_timeout, Delay} \subseteq Nat
    /\ heartbeat_interval + Delay <= lease

VARIABLES
    left,      \* left[t]: what is left of the lease of task t, -1 when it has run out
    beat_in,   \* beat_in[w]: the heartbeat's sleep
    kill_in,   \* kill_in[w]: the timer of _deadline
    wake_in,   \* wake_in[w]: until a worker that can go on does
    reap_in,   \* the janitor's sleep
    orphaned   \* history: how long task t has had no worker, the process being up

clocks == <<left, beat_in, kill_in, wake_in, reap_in, orphaned>>
timed_vars == <<vars, clocks>>

TimedInit ==
    /\ Init
    /\ left = [t \in Tasks |-> -1]
    /\ beat_in = [w \in Workers |-> 0]
    /\ kill_in = [w \in Workers |-> 0]
    /\ wake_in = [w \in Workers |-> 0]
    /\ reap_in = 0
    /\ orphaned = [t \in Tasks |-> 0]

-----------------------------------------------------------------------------
(* What the steps of the queue do to the timers. *)

\* A worker whose phase the step changed has something to do at once; the
\* event _wake, when set, wakes the idle ones, all of them.  Its flag tells
\* nothing more and is left out: on the Python of the Dockerfile, 3.12, wait_for
\* awaits the event itself, so "claim nothing, look at the flag, wait" is one
\* turn, and clear() is followed by a claim in the turn it is called in.  A
\* worker that finds the flag set clears it, claims again, finds nothing again,
\* and waits.
wakes(signal) ==
    wake_in' = [w \in Workers |->
        IF phase'[w] # phase[w] \/ (signal /\ phase[w] = "idle" /\ wake_in[w] > 0)
        THEN 0 ELSE wake_in[w]]

\* Variant of a failed attempt that leaves the idle ones asleep.
never_retried(w) == FALSE

\* outcome == "retry": the attempt failed, and fail() says it is queued again.
\* (It may have been cancelled meanwhile: then the event is set for nothing.)
retried(w) ==
    /\ \/ Resumes(w) = "error"
       \/ Resumes(w) = "cancelled" /\ timed_out[w]
    /\ fail_result(rows, held[w]) = "queued"

\* The janitor was told that some orphan is queued again.
reclaimed == \E t \in Expired(rows) : fail_result(rows, t) = "queued"

Orphan(t) == rows[t].state = "running" /\ EngagedOn(t) = {} /\ mode = "up"

\* The timers that go on are the ones still wanted: "finally" cancels the
\* heartbeat and the deadline, stop() the janitor, and a process that dies
\* takes them all along.
timers_go_on ==
    /\ left' = [t \in Tasks |-> IF rows'[t].state = "running" THEN left[t] ELSE -1]
    /\ beat_in' = [w \in Workers |-> IF Engaged(w)' THEN beat_in[w] ELSE 0]
    /\ kill_in' = [w \in Workers |-> IF Engaged(w)' THEN kill_in[w] ELSE 0]
    /\ reap_in' = IF mode' = "up" THEN reap_in ELSE 0

ages == orphaned' = [t \in Tasks |-> IF Orphan(t)' THEN orphaned[t] ELSE 0]

timed_start ==
    /\ start
    /\ wakes(FALSE)
    /\ reap_in' = reaper_interval
    /\ UNCHANGED <<left, beat_in, kill_in>>

\* submit() and requeue_from_dlq() set the event.
timed_call ==
    /\ \E t \in Tasks : submit(t) \/ replay(t)
    /\ wakes(TRUE)
    /\ timers_go_on

timed_interruption ==
    /\ stop \/ stopped \/ crash \/ \E t \in Tasks : cancel_task(t)
    /\ wakes(FALSE)
    /\ timers_go_on

\* lease_expires_at = now_ms() + lease_ms
granted == lease

\* The top of the loop of a worker: claim, or wait for the event or the poll.
looks(w) ==
    /\ phase[w] = "idle" /\ wake_in[w] <= 0
    /\ \/ \E t \in Tasks :
            /\ claim(w, t)
            /\ left' = [left EXCEPT ![t] = granted]
            /\ beat_in' = [beat_in EXCEPT ![w] = heartbeat_interval]
            /\ kill_in' = [kill_in EXCEPT ![w] = task_timeout]
            /\ wakes(FALSE)
       \/ /\ InState(rows, "queued") = {}
          /\ wake_in' = [wake_in EXCEPT ![w] = poll]
          /\ UNCHANGED <<vars, left, beat_in, kill_in>>
    /\ UNCHANGED reap_in

timed_end(w) ==
    /\ handler_ends(w)
    /\ wakes(FALSE)
    /\ timers_go_on

timed_deadline(w) ==
    /\ kill_in[w] <= 0
    /\ deadline(w)
    /\ wakes(FALSE)
    /\ timers_go_on

timed_resume(w) ==
    /\ wake_in[w] <= 0
    /\ resumes(w)
    /\ wakes(retried(w))
    /\ timers_go_on

\* Variant of a heartbeat that touches the row but not the lease.
not_extended(w) == left

\* The statement of a heartbeat.
extended(w) ==
    IF rows[held[w]].state = "running" /\ rows[held[w]].claimed_by = w
    THEN [left EXCEPT ![held[w]] = granted] ELSE left

\* A heartbeat of a task that is no longer the worker's ends; to go on doing
\* nothing is the same.
timed_beat(w) ==
    /\ beat_in[w] <= 0
    /\ beat(w)
    /\ left' = extended(w)
    /\ beat_in' = [beat_in EXCEPT ![w] = heartbeat_interval]
    /\ UNCHANGED <<kill_in, wake_in, reap_in>>

timed_sweep ==
    /\ mode = "up" /\ reap_in <= 0
    /\ sweep \/ (Expired(rows) = {} /\ UNCHANGED vars)
    /\ reap_in' = reaper_interval
    /\ wakes(reclaimed)
    /\ left' = [t \in Tasks |-> IF rows'[t].state = "running" THEN left[t] ELSE -1]
    /\ UNCHANGED <<beat_in, kill_in>>

-----------------------------------------------------------------------------
(* Time. *)

\* A worker waits for something that comes by itself.
Waits(w) == phase[w] \in {"idle", "ok", "error", "vanished", "cancelled"}

\* Nothing that is due has waited for as long as it may.
no_delay_used_up ==
    /\ mode = "up" => reap_in > -Delay
    /\ \A w \in Workers :
        /\ Engaged(w) => beat_in[w] > -Delay
        /\ Engaged(w) /\ ~timed_out[w] => kill_in[w] > -Delay
        /\ Waits(w) => wake_in[w] > -Delay

\* lease_expires_at < now_ms()
ran_out ==
    {t \in InState(rows, "running") : rows[t].lease = "held" /\ left[t] < 0}

\* In the same instant, as every statement sees it.
lapses ==
    /\ \E t \in ran_out : lease_lapses(t)
    /\ UNCHANGED clocks

tick ==
    /\ no_delay_used_up
    /\ left' = [t \in Tasks |-> IF left[t] >= 0 THEN left[t] - 1 ELSE left[t]]
    /\ beat_in' = [w \in Workers |-> IF Engaged(w) THEN beat_in[w] - 1 ELSE beat_in[w]]
    /\ kill_in' = [w \in Workers |-> IF Engaged(w) /\ ~timed_out[w]
                                     THEN kill_in[w] - 1 ELSE kill_in[w]]
    /\ wake_in' = [w \in Workers |-> IF Waits(w) THEN wake_in[w] - 1 ELSE wake_in[w]]
    /\ reap_in' = IF mode = "up" THEN reap_in - 1 ELSE reap_in
    /\ orphaned' = [t \in Tasks |-> IF Orphan(t) THEN orphaned[t] + 1 ELSE 0]
    /\ UNCHANGED vars

step ==
    \/ timed_start \/ timed_call \/ timed_interruption \/ timed_sweep
    \/ \E w \in Workers :
        looks(w) \/ timed_end(w) \/ timed_deadline(w) \/ timed_resume(w) \/ timed_beat(w)

TimedNext ==
    \/ lapses
    \/ ran_out = {} /\ tick
    \/ ran_out = {} /\ step /\ ages

TimedSpec == TimedInit /\ [][TimedNext]_timed_vars

-----------------------------------------------------------------------------
(* Properties. *)

\* With its timers the queue is the one whose leases are kept: no lease lapses
\* while a worker is on its task, so no run is ever reclaimed under it.
Kept == INSTANCE AgentTaskQueue WITH Stalls <- FALSE
KeptSpec == Kept!Spec

\* No idle worker sleeps on while a task is queued: whoever queues one, a
\* submit, a replay, a failed attempt that is retried or the janitor, sets the
\* event, and no worker that found nothing has gone to sleep without looking.
NobodySleepsOnWork ==
    \A w \in Workers :
        phase[w] = "idle" /\ wake_in[w] > 0 => InState(rows, "queued") = {}

\* A task whose worker is gone is taken back within a lease and an interval of
\* the janitor, however its timers lay.
OrphansReclaimed ==
    \A t \in Tasks : orphaned[t] <= lease + reaper_interval + Delay
=============================================================================
