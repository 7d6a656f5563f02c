--------------------------- MODULE AgentTaskQueue ---------------------------
(***************************************************************************)
(* The delivery machine of backend/agent/queue.py: a pool of workers and a *)
(* janitor over the agent_tasks table, inside one asyncio event loop.      *)
(*                                                                         *)
(* Code between two awaits is atomic, so an action is one turn of the loop *)
(* in one coroutine or callback: a worker's claim, the end of a handler,   *)
(* the deadline timer, a worker's wake-up after "await run", a heartbeat,  *)
(* a janitor sweep, a call from the outside.  The end of a handler and the *)
(* wake-up of its worker are different turns; everything that can happen   *)
(* between them is what makes this code hard.  The handler itself is a     *)
(* black box here (AgentRunner.tla opens it).                              *)
(***************************************************************************)
EXTENDS TaskRepo

CONSTANTS
    NoTask,   \* the worker holds no task
    Stalls    \* may a live worker's lease lapse (a loop stalled longer than
              \* the lease, a clock jump, a lease shorter than its heartbeat)?

ASSUME NoTaskAssumption == NoTask \notin Tasks
ASSUME StallsAssumption == Stalls \in BOOLEAN

VARIABLES
    rows,       \* the agent_tasks table; the only state a restart keeps
    mode,       \* "up", "stopping" (stop() was called), "down" (no process)
    held,       \* held[w]: the task of the worker's current pass of its loop
    phase,      \* phase[w]: where that pass, and the run it awaits, are
    timed_out,  \* timed_out[w]: the flag _deadline sets for that pass
    quit,       \* quit[w]: stop() cancelled the worker inside "await run"
    running     \* the dict _running, task -> the worker whose run it names

vars == <<rows, mode, held, phase, timed_out, quit, running>>

(***************************************************************************)
(* "idle"       between passes: about to claim, or waiting for a wake-up   *)
(* "active"     the handler is running                                     *)
(* "ok", "error", "vanished", "cancelled"                                  *)
(*              the handler ended so, its worker has not resumed yet       *)
(* "ended"      the worker's loop is over (or there is no process)         *)
(***************************************************************************)
Phases == {"idle", "active", "ok", "error", "vanished", "cancelled", "ended"}

Engaged(w) == phase[w] \notin {"idle", "ended"}

EngagedOn(t) == {w \in Workers : Engaged(w) /\ held[w] = t}

Alive == mode # "down"

Init ==
    /\ rows = EmptyTable
    /\ mode = "down"
    /\ held = [w \in Workers |-> NoTask]
    /\ phase = [w \in Workers |-> "ended"]
    /\ timed_out = [w \in Workers |-> FALSE]
    /\ quit = [w \in Workers |-> FALSE]
    /\ running = [t \in Tasks |-> NoWorker]

-----------------------------------------------------------------------------
(* Calls into the queue. *)

start ==
    /\ mode = "down"
    /\ mode' = "up"
    /\ phase' = [w \in Workers |-> "idle"]
    /\ UNCHANGED <<rows, held, timed_out, quit, running>>

submit(t) ==
    /\ Alive
    /\ IsFresh(rows, t)
    /\ rows' = enqueue(rows, t)
    /\ UNCHANGED <<mode, held, phase, timed_out, quit, running>>

\* Variant of interrupted: the row is tombstoned, the run is left alone.
not_interrupted(t) == phase

\* asyncio-cancelling the run a task maps to: a handler that has ended
\* already cannot be cancelled any more.
interrupted(t) ==
    [w \in Workers |->
        IF running[t] = w /\ phase[w] = "active" THEN "cancelled" ELSE phase[w]]

cancel_task(t) ==
    /\ Alive
    /\ t \in Live(rows)
    /\ rows' = cancel(rows, t)
    /\ phase' = interrupted(t)
    /\ UNCHANGED <<mode, held, timed_out, quit, running>>

replay(t) ==
    /\ Alive
    /\ rows[t].state = "dlq"
    /\ rows' = requeue_from_dlq(rows, t)
    /\ UNCHANGED <<mode, held, phase, timed_out, quit, running>>

\* stop(): a worker waiting for work ends at once; one inside "await run"
\* has its run cancelled, or finds the CancelledError when it resumes.
stop ==
    /\ mode = "up"
    /\ mode' = "stopping"
    /\ quit' = [w \in Workers |-> Engaged(w)]
    /\ phase' = [w \in Workers |->
                    CASE phase[w] = "idle"   -> "ended"
                      [] phase[w] = "active" -> "cancelled"
                      [] OTHER               -> phase[w]]
    /\ UNCHANGED <<rows, held, timed_out, running>>

\* gather() returned, and with it the process.
stopped ==
    /\ mode = "stopping"
    /\ \A w \in Workers : phase[w] = "ended"
    /\ mode' = "down"
    /\ UNCHANGED <<rows, held, phase, timed_out, quit, running>>

\* The process dies: memory is lost, the table is not.
crash ==
    /\ Alive
    /\ mode' = "down"
    /\ held' = [w \in Workers |-> NoTask]
    /\ phase' = [w \in Workers |-> "ended"]
    /\ timed_out' = [w \in Workers |-> FALSE]
    /\ quit' = [w \in Workers |-> FALSE]
    /\ running' = [t \in Tasks |-> NoWorker]
    /\ UNCHANGED rows

-----------------------------------------------------------------------------
(* One pass of a worker's loop (_worker). *)

\* The top of the loop.  A worker that swallowed its own cancellation comes
\* back here while the queue is stopping.
claim(w, t) ==
    /\ phase[w] = "idle"
    /\ IsOldest(t, InState(rows, "queued"))
    /\ rows' = claim_next(rows, t, w)
    /\ held' = [held EXCEPT ![w] = t]
    /\ phase' = [phase EXCEPT ![w] = "active"]
    /\ timed_out' = [timed_out EXCEPT ![w] = FALSE]
    /\ running' = [running EXCEPT ![t] = w]
    /\ UNCHANGED <<mode, quit>>

\* The handler returns, raises, or raises WorkerVanished.
handler_ends(w) ==
    /\ phase[w] = "active"
    /\ \E end \in {"ok", "error", "vanished"} :
            phase' = [phase EXCEPT ![w] = end]
    /\ UNCHANGED <<rows, mode, held, timed_out, quit, running>>

\* call_later's timer: armed until the worker resumes.
deadline(w) ==
    /\ Engaged(w)
    /\ ~timed_out[w]
    /\ timed_out' = [timed_out EXCEPT ![w] = TRUE]
    /\ phase' = [phase EXCEPT ![w] = IF @ = "active" THEN "cancelled" ELSE @]
    /\ UNCHANGED <<rows, mode, held, quit, running>>

\* Variant of unwind that leaves the run in _running.
unwind_leaving_run(w, next) ==
    /\ held' = [held EXCEPT ![w] = NoTask]
    /\ phase' = [phase EXCEPT ![w] = next]
    /\ timed_out' = [timed_out EXCEPT ![w] = FALSE]
    /\ quit' = [quit EXCEPT ![w] = FALSE]
    /\ UNCHANGED <<mode, running>>

\* "finally": whatever the pass came to, its bookkeeping is dropped.
unwind(w, next) ==
    /\ held' = [held EXCEPT ![w] = NoTask]
    /\ phase' = [phase EXCEPT ![w] = next]
    /\ timed_out' = [timed_out EXCEPT ![w] = FALSE]
    /\ quit' = [quit EXCEPT ![w] = FALSE]
    /\ running' = [running EXCEPT ![held[w]] = NoWorker]
    /\ UNCHANGED mode

\* What "await run" raises in the worker.  stop() having cancelled the
\* worker, it is a CancelledError however the handler ended.
Resumes(w) == IF quit[w] THEN "cancelled" ELSE phase[w]

finishes(w) ==
    /\ Engaged(w) /\ Resumes(w) = "ok"
    /\ rows' = complete(rows, held[w])
    /\ unwind(w, "idle")

\* A failed attempt: the handler raised, or the deadline cancelled it.
attempt_fails(w) ==
    /\ Engaged(w)
    /\ \/ Resumes(w) = "error"
       \/ Resumes(w) = "cancelled" /\ timed_out[w]
    /\ rows' = fail(rows, held[w])
    /\ unwind(w, "idle")

\* The run, not the worker, was cancelled: interrupted on purpose, no retry.
gives_up(w) ==
    /\ Engaged(w) /\ Resumes(w) = "cancelled" /\ ~timed_out[w]
    /\ phase[w] = "cancelled" /\ mode = "up"
    /\ rows' = cancel(rows, held[w])
    /\ unwind(w, "idle")

\* The worker was cancelled: the error goes on and ends its loop; the row
\* stays running for the janitor of the next process.
shuts_down(w) ==
    /\ Engaged(w) /\ Resumes(w) = "cancelled" /\ ~timed_out[w]
    /\ ~(phase[w] = "cancelled" /\ mode = "up")
    /\ unwind(w, "ended")
    /\ UNCHANGED rows

walks_away(w) ==
    /\ Engaged(w) /\ Resumes(w) = "vanished"
    /\ unwind(w, "idle")
    /\ UNCHANGED rows

resumes(w) ==
    \/ finishes(w) \/ attempt_fails(w) \/ gives_up(w)
    \/ shuts_down(w) \/ walks_away(w)

-----------------------------------------------------------------------------
(* Leases: _heartbeat, _janitor, and time. *)

beat(w) ==
    /\ Engaged(w)
    /\ rows' = heartbeat(rows, held[w], w)
    /\ UNCHANGED <<mode, held, phase, timed_out, quit, running>>

\* A worker that is there heartbeats in time, unless the loop stalls.
lease_lapses(t) ==
    /\ rows[t].state = "running" /\ rows[t].lease = "held"
    /\ Stalls \/ EngagedOn(t) = {}
    /\ rows' = [rows EXCEPT ![t].lease = "expired"]
    /\ UNCHANGED <<mode, held, phase, timed_out, quit, running>>

\* stop() cancels the janitor first thing.
sweep ==
    /\ mode = "up"
    /\ Expired(rows) # {}
    /\ rows' = reap_expired(rows)
    /\ UNCHANGED <<mode, held, phase, timed_out, quit, running>>

-----------------------------------------------------------------------------
Next ==
    \/ start \/ stop \/ stopped \/ crash \/ sweep
    \/ \E t \in Tasks : submit(t) \/ cancel_task(t) \/ replay(t) \/ lease_lapses(t)
    \/ \E w \in Workers :
        \/ \E t \in Tasks : claim(w, t)
        \/ handler_ends(w) \/ deadline(w) \/ resumes(w) \/ beat(w)

Spec == Init /\ [][Next]_vars

(***************************************************************************)
(* Fairness.  The loop runs every worker that can be resumed and polls for *)
(* work every poll_s; timers fire; the janitor wakes every                 *)
(* reaper_interval_s; an unrenewed lease runs out.  Nothing is assumed of  *)
(* the handler (it may hang), of the callers, of crashes or of restarts.   *)
(***************************************************************************)
Fairness ==
    /\ WF_vars(sweep)
    /\ WF_vars(stopped)
    /\ \A t \in Tasks : WF_vars(lease_lapses(t))
    /\ \A w \in Workers : /\ WF_vars(\E t \in Tasks : claim(w, t))
                          /\ WF_vars(deadline(w))
                          /\ WF_vars(resumes(w))

FairSpec == Spec /\ Fairness

-----------------------------------------------------------------------------
(* Properties. *)

\* The types of the variables.
TypeOK ==
    /\ rows \in Table
    /\ mode \in {"up", "stopping", "down"}
    /\ held \in [Workers -> Tasks \cup {NoTask}]
    /\ phase \in [Workers -> Phases]
    /\ timed_out \in [Workers -> BOOLEAN]
    /\ quit \in [Workers -> BOOLEAN]
    /\ running \in [Tasks -> Workers \cup {NoWorker}]
    /\ \A w \in Workers : Engaged(w) <=> held[w] \in Tasks
    /\ mode = "down" => \A w \in Workers : phase[w] = "ended"

\* "attempts counts claims", and what the retry test makes of it: a queued
\* task has a delivery left and belongs to nobody, a running one is owned and
\* within its allowance, and only a task that used its whole allowance is
\* dead-lettered.  (claim_next, fail, reap_expired, requeue_from_dlq together.)
DeliveryCounts == \A t \in Tasks : Counted(rows[t])

\* The dict _running names exactly the runs there are, so cancel() reaches
\* every run and inflight counts them.  (Fails with Stalls: the run of a
\* reclaimed task is overwritten by the run that replaces it.)
RunsAreTracked ==
    \A t \in Tasks, w \in Workers :
        running[t] = w <=> (Engaged(w) /\ held[w] = t)

\* While leases are kept, a handler runs only for the worker its row names,
\* with the lease in force; a worker left over from a cancelled task has a
\* run that has ended; no other row has anybody working on it.
ExclusiveDelivery ==
    \A w \in Workers : Engaged(w) =>
        LET r == rows[held[w]] IN
        \/ r.state = "running" /\ r.claimed_by = w /\ r.lease = "held"
        \/ r.state = "cancelled" /\ phase[w] # "active"

\* "atomic claim": two workers are never on the same task.
OneRunPerTask ==
    \A v, w \in Workers : Engaged(v) /\ Engaged(w) /\ held[v] = held[w] => v = w

\* The queue implements the life a task is promised.
Lifecycle == INSTANCE TaskLifecycle
    WITH state      <- [t \in Tasks |-> rows[t].state],
         deliveries <- [t \in Tasks |-> rows[t].attempts]

LifecycleSpec == Lifecycle!Spec

\* Whatever handlers do, and whenever the process died before: once it stays
\* up and nobody replays dead letters any more, every queued task is
\* eventually done, cancelled or dead-lettered.
EveryDeliverySettles ==
    (<>[](mode = "up") /\ <>[][\A t \in Tasks : ~replay(t)]_vars) =>
        \A t \in Tasks :
            rows[t].state = "queued" ~> rows[t].state \in {"done", "cancelled", "dlq"}

\* What stop() says of the flag _stopping: no worker "would swallow its own
\* cancellation and loop forever", so a shutdown ends.  (It does not: the
\* timed-out branch is taken before the flag is looked at.)
StopEnds == (mode = "stopping") ~> (mode = "down")

\* fail() "returns the resulting state", and the worker reports it to the
\* thread.  (It does not when the row was cancelled meanwhile.)
OutcomeIsTrue ==
    [][\A w \in Workers :
        attempt_fails(w) => rows'[held[w]].state = fail_result(rows, held[w])]_vars
=============================================================================
