----------------------------- MODULE AgentRunner -----------------------------
(***************************************************************************)
(* The life of one thread: backend/agent/runner.py driving                 *)
(* backend/agent/queue.py, with the agent's phases (agent.py, launchers)   *)
(* and the PR flow, over the database of ThreadStore.                      *)
(*                                                                         *)
(* One process, one asyncio event loop.  An action is one turn of the loop *)
(* in one coroutine: an HTTP handler, the next stretch of a run up to its  *)
(* next await, a worker's wake-up, a timer, the next stretch of a PR flow. *)
(* Its durable part is the list of databases it commits; Turn takes the    *)
(* last of them, or lets the process die after some of them.               *)
(*                                                                         *)
(* Worker and lease bookkeeping is that of AgentTaskQueue, which this      *)
(* module is checked to implement; here the handler is the runner's        *)
(* _execute.  Graceful shutdown is left to AgentTaskQueue: for the thread  *)
(* it is a crash between two turns.                                        *)
(***************************************************************************)
EXTENDS ThreadStore

CONSTANTS
    Flows,         \* slots for the PR flows one process may have going
    Versions,      \* the captures comments come with, see ThreadStore
    PlainComments, \* may comments that do not mention the agent be posted?
    Faults,        \* how attempts fail: some of "error", "vanished", "deadline"
    PRFaults,      \* may opening a PR, CI or the merge fail?
    TornCrashes,   \* may the process die between the commits of one turn?
    QuietFailures, \* assume no comment, cancel or deadline comes in between
                   \* the end of a run and the wake-up of its worker
    MaxCrashes,    \* bounds: deaths of the process
    MaxCancels,    \*         uses of the cancel button
    MaxReplays     \*         replays from the dead-letter queue

ASSUME BoundsAssumption ==
    /\ {MaxCrashes, MaxCancels, MaxReplays} \subseteq Nat
    /\ Versions \subseteq Int
    /\ Faults \subseteq {"error", "vanished", "deadline"}
    /\ {PlainComments, PRFaults, TornCrashes, QuietFailures} \subseteq BOOLEAN

VARIABLES
    db,         \* the database (ThreadStore)
    proc,       \* the memory of the process
    renounced,  \* history: asks of the tasks the user cancelled
    approved,   \* history: versions an approver named and had accepted
    shipped,    \* history: versions that were merged
    used        \* how much of the bounds is used up

vars == <<db, proc, renounced, approved, shipped, used>>

(***************************************************************************)
(* Runs: "created" (the handler's first turn is due), "analyzing",         *)
(* "coding", "deploying" (it awaits the launcher or the deployment), then  *)
(* "ok", "error", "vanished", "cancelled" until its worker resumes.        *)
(***************************************************************************)
ActivePhases == {"created", "analyzing", "coding", "deploying"}
EndedPhases == {"ok", "error", "vanished", "cancelled"}

NoFlow == [at |-> "none", sha |-> 0]

FlowStages ==
    {"none", "approved", "opening", "resuming", "reopening", "ci", "merging"}

Process ==
    [up : BOOLEAN,
     held : [Workers -> Tasks \cup {NoTask}],
     phase : [Workers -> ActivePhases \cup EndedPhases \cup {"idle", "ended"}],
     timed_out : [Workers -> BOOLEAN],
     running : [Tasks -> Workers \cup {NoWorker}],
     ids : [Workers -> SUBSET Nat],          \* task.comment_ids as claimed
     parent : [Workers -> Nat],              \* spec.base_sha
     flows : [Flows -> [at : FlowStages, sha : Nat]]]

Dead ==
    [up |-> FALSE,
     held |-> [w \in Workers |-> NoTask],
     phase |-> [w \in Workers |-> "ended"],
     timed_out |-> [w \in Workers |-> FALSE],
     running |-> [t \in Tasks |-> NoWorker],
     ids |-> [w \in Workers |-> {}],
     parent |-> [w \in Workers |-> 0],
     flows |-> [f \in Flows |-> NoFlow]]

Engaged(w) == proc.phase[w] \in ActivePhases \cup EndedPhases

EngagedOn(t) == {w \in Workers : Engaged(w) /\ proc.held[w] = t}

Init ==
    /\ db = NewThread
    /\ proc = Dead
    /\ renounced = {} /\ approved = {} /\ shipped = {}
    /\ used = [crashes |-> 0, cancels |-> 0, replays |-> 0]

\* One turn that uses the bounds up to `spent`: its commits happen in order
\* and its memory is `after`, or the process dies having made some of the
\* commits but not all.
TurnSpending(commits, after, spent) ==
    \/ /\ db' = IF commits = <<>> THEN db ELSE Last(commits)
       /\ proc' = after
       /\ used' = spent
    \/ /\ TornCrashes /\ used.crashes < MaxCrashes
       /\ \E k \in 1 .. Len(commits) - 1 : db' = commits[k]
       /\ proc' = Dead
       /\ used' = [spent EXCEPT !.crashes = @ + 1]

Turn(commits, after) == TurnSpending(commits, after, used)

\* No failed run is waiting for its worker, where that is assumed.
Quiet ==
    QuietFailures =>
        \A w \in Workers : /\ proc.phase[w] # "error"
                           /\ ~(proc.phase[w] = "cancelled" /\ proc.timed_out[w])

\* Variant of queue.cancel that does not reach the run.
not_interrupted(t) == proc

\* The memory after queue.cancel(t): the run _running names is cancelled
\* unless it has ended.
interrupted(t) ==
    [proc EXCEPT !.phase = [w \in Workers |->
        IF proc.running[t] = w /\ proc.phase[w] \in ActivePhases
        THEN "cancelled" ELSE proc.phase[w]]]

\* create_task of a PR flow.
FreeFlows == {f \in Flows : proc.flows[f].at = "none"}
with_flow(m, f, at, sha) == [m EXCEPT !.flows[f] = [at |-> at, sha |-> sha]]

-----------------------------------------------------------------------------
(* The process. *)

\* lifespan: queue.start(), then recover(), without an await between them.
boot ==
    /\ ~proc.up
    /\ LET started == [Dead EXCEPT !.up = TRUE, !.phase = [w \in Workers |-> "idle"]]
           idle_thread == /\ db.status \notin ClosedStatuses \cup {"failed"}
                          /\ active_for_thread(db) = NoTask
       IN IF flow_was_under_way(db)
          THEN \E f \in Flows : Turn(<<>>, with_flow(started, f, "resuming", 0))
          ELSE Turn(IF idle_thread THEN drain_pending_commits(db) ELSE <<>>, started)
    /\ UNCHANGED <<renounced, approved, shipped>>

crash ==
    /\ proc.up
    /\ used.crashes < MaxCrashes
    /\ proc' = Dead
    /\ used' = [used EXCEPT !.crashes = @ + 1]
    /\ UNCHANGED <<db, renounced, approved, shipped>>

-----------------------------------------------------------------------------
(* Requests. *)

\* The databases on_comment leaves for the comment just appended to d.
on_comment_commits(d, c) ==
    LET task == active_for_thread(d) IN
    CASE c \notin asks(d) ->
            <<>>
      [] c \in asks(d) /\ (task = NoTask \/ d.status \notin InFlightStatuses) ->
            submit_commits(d, {c})
      [] c \in asks(d) /\ task # NoTask /\ d.status \in InFlightStatuses ->
            CASE d.rows[task].state = "queued" ->
                    <<coalesce_comment(d, task, c)>>
              [] d.rows[task].state = "running" /\ d.status \in InterruptibleStatuses ->
                    LET d1 == with_rows(d, cancel(d.rows, task))
                    IN <<d1>> \o submit_commits(d1, d.comment_ids[task] \cup {c})
              [] OTHER -> <<>>   \* past the cutoff

\* Whether on_comment cancels the active task, and which.
Interrupts(d, c) ==
    {task \in Live(d.rows) :
        /\ c \in asks(d)
        /\ task = active_for_thread(d)
        /\ d.rows[task].state = "running"
        /\ d.status \in InterruptibleStatuses}

\* POST /api/comments: post_comment rejects a closed thread, appends, and
\* hands over to on_comment.
post_comment ==
    /\ proc.up /\ Quiet
    /\ db.status \notin ClosedStatuses
    /\ Len(db.comments) < MaxComments
    /\ \E agent \in (IF PlainComments THEN BOOLEAN ELSE {TRUE}),
          sha \in {v \in Versions : v <= Len(db.iterations)} :
        LET d == append_comment(db, agent, sha)
            c == Len(d.comments)
            tasks == Interrupts(d, c)
        IN Turn(<<d>> \o on_comment_commits(d, c),
                IF tasks = {} THEN proc ELSE interrupted(CHOOSE t \in tasks : TRUE))
    /\ UNCHANGED <<renounced, approved, shipped>>

\* POST /api/threads/{id}/cancel
cancel_run ==
    /\ proc.up /\ Quiet
    /\ used.cancels < MaxCancels
    /\ active_for_thread(db) # NoTask
    /\ db.status \in InFlightStatuses
    /\ LET task == active_for_thread(db)
           d1 == with_rows(db, cancel(db.rows, task))
       IN /\ TurnSpending(<<d1, set_status(d1, status_after_cancel(d1))>>, interrupted(task),
                          [used EXCEPT !.cancels = @ + 1])
          /\ renounced' = renounced \cup db.comment_ids[task]
    /\ UNCHANGED <<approved, shipped>>

\* POST /api/queue/dlq/{id}/requeue
requeue_from_dlq_task(t) ==
    /\ proc.up
    /\ used.replays < MaxReplays
    /\ db.rows[t].state = "dlq"
    /\ LET d1 == with_rows(db, requeue_from_dlq(db.rows, t))
       IN TurnSpending(<<d1, set_status(d1, "triggered")>>, proc,
                       [used EXCEPT !.replays = @ + 1])
    /\ UNCHANGED <<renounced, approved, shipped>>

\* POST /api/threads/{id}/approve, by an approver who reviewed `sha`
approve(sha) ==
    /\ proc.up
    /\ reviewed(db, sha)
    /\ finds_row(db, "preview_ready")
    /\ \E f \in FreeFlows :
        Turn(<<transition(db, "preview_ready", "pr_open")>>,
             with_flow(proc, f, "approved", 0))
    /\ approved' = approved \cup {sha}
    /\ UNCHANGED <<renounced, shipped>>

-----------------------------------------------------------------------------
(* One pass of a worker, and the run it awaits. *)

claim(w, t) ==
    /\ proc.phase[w] = "idle"
    /\ IsOldest(t, InState(db.rows, "queued"))
    /\ Turn(<<with_rows(db, claim_next(db.rows, t, w))>>,
            [proc EXCEPT !.held[w] = t, !.phase[w] = "created",
                         !.timed_out[w] = FALSE, !.running[t] = w,
                         !.ids[w] = db.comment_ids[t]])
    /\ UNCHANGED <<renounced, approved, shipped>>

\* _execute of a task whose newest comment an iteration addresses already:
\* repair what a crash may have left behind, and drain.
redelivered(w) ==
    /\ proc.phase[w] = "created"
    /\ already_applied(db, proc.ids[w])
    /\ Turn(then_drain(db, repair_commits(db)), [proc EXCEPT !.phase[w] = "ok"])
    /\ UNCHANGED <<renounced, approved, shipped>>

\* _execute up to the launcher's first await.  The launcher reports that it
\* analyzes, then may raise at once.
begins(w) ==
    /\ proc.phase[w] = "created"
    /\ ~already_applied(db, proc.ids[w])
    /\ \E next \in {"analyzing"} \cup (Faults \cap {"error", "vanished"}) :
        Turn(<<set_status(db, "analyzing")>>,
             [proc EXCEPT !.phase[w] = next,
                          !.parent[w] = resolve_parent_sha(db, proc.ids[w])])
    /\ UNCHANGED <<renounced, approved, shipped>>

\* The launcher moves on to coding, the agent to deploying.
progresses(w) ==
    /\ \E step \in {<<"analyzing", "coding">>, <<"coding", "deploying">>} :
        /\ proc.phase[w] = step[1]
        /\ Turn(<<set_status(db, step[2])>>, [proc EXCEPT !.phase[w] = step[2]])
    /\ UNCHANGED <<renounced, approved, shipped>>

\* The launcher, the push or the deployment raises.
raises(w) ==
    /\ "error" \in Faults
    /\ proc.phase[w] \in {"analyzing", "coding", "deploying"}
    /\ Turn(<<>>, [proc EXCEPT !.phase[w] = "error"])
    /\ UNCHANGED <<renounced, approved, shipped>>

\* _record_iteration and _drain_pending.
records_commits(d, parent, ids) ==
    LET landed == add_iteration_commits(d, parent, ids)
    IN then_drain(d, Append(landed, set_status(Last(landed), "preview_ready")))

\* The deployment returned: the iteration is recorded, the preview announced,
\* and the asks that waited for it are drained, all in the same turn.
lands(w) ==
    /\ proc.phase[w] = "deploying"
    /\ Turn(records_commits(db, proc.parent[w], proc.ids[w]),
            [proc EXCEPT !.phase[w] = "ok"])
    /\ UNCHANGED <<renounced, approved, shipped>>

\* _deadline
deadline(w) ==
    /\ "deadline" \in Faults
    /\ Engaged(w) /\ ~proc.timed_out[w]
    /\ QuietFailures => proc.phase[w] # "cancelled"
    /\ Turn(<<>>, [proc EXCEPT !.timed_out[w] = TRUE,
                               !.phase[w] = IF @ \in ActivePhases THEN "cancelled" ELSE @])
    /\ UNCHANGED <<renounced, approved, shipped>>

\* "finally" of the worker's pass.
unwound(w) ==
    [proc EXCEPT !.held[w] = NoTask, !.phase[w] = "idle", !.timed_out[w] = FALSE,
                 !.running[proc.held[w]] = NoWorker,
                 !.ids[w] = {}, !.parent[w] = 0]

finishes(w) ==
    /\ proc.phase[w] = "ok"
    /\ Turn(<<with_rows(db, complete(db.rows, proc.held[w]))>>, unwound(w))
    /\ UNCHANGED <<renounced, approved, shipped>>

\* fail(), then _on_task_outcome with the state fail() reported.
attempt_fails(w) ==
    /\ \/ proc.phase[w] = "error"
       \/ proc.phase[w] = "cancelled" /\ proc.timed_out[w]
    /\ LET t == proc.held[w]
           d1 == with_rows(db, fail(db.rows, t))
       IN Turn(<<d1, set_status(d1, StatusOfOutcome(fail_result(db.rows, t)))>>, unwound(w))
    /\ UNCHANGED <<renounced, approved, shipped>>

gives_up(w) ==
    /\ proc.phase[w] = "cancelled" /\ ~proc.timed_out[w]
    /\ Turn(<<with_rows(db, cancel(db.rows, proc.held[w]))>>, unwound(w))
    /\ UNCHANGED <<renounced, approved, shipped>>

walks_away(w) ==
    /\ proc.phase[w] = "vanished"
    /\ Turn(<<>>, unwound(w))
    /\ UNCHANGED <<renounced, approved, shipped>>

resumes(w) == finishes(w) \/ attempt_fails(w) \/ gives_up(w) \/ walks_away(w)

-----------------------------------------------------------------------------
(* Leases.  A live worker keeps its lease (AgentTaskQueue with Stalls =    *)
(* FALSE), so its heartbeats change nothing here.                          *)

lease_lapses(t) ==
    /\ db.rows[t].state = "running" /\ db.rows[t].lease = "held"
    /\ EngagedOn(t) = {}
    /\ db' = [db EXCEPT !.rows[t].lease = "expired"]
    /\ UNCHANGED <<proc, renounced, approved, shipped, used>>

\* The janitor sleeps first: the flows a boot resumes have begun by then.
sweep ==
    /\ proc.up
    /\ \A f \in Flows : proc.flows[f].at # "resuming"
    /\ Expired(db.rows) # {}
    /\ Turn(sweep_commits(db), proc)
    /\ UNCHANGED <<renounced, approved, shipped>>

-----------------------------------------------------------------------------
(* The PR flow. *)

flow_ends(f) == with_flow(proc, f, "none", 0)

\* Its first turn: open_pr reads the preview whose patches the PR will carry.
flow_opens(f) ==
    /\ proc.flows[f].at = "approved"
    /\ Turn(<<>>, with_flow(proc, f, "opening", db.preview_sha))
    /\ UNCHANGED <<renounced, approved, shipped>>

\* resume_pr_flow up to its first await.
flow_resumes(f) ==
    /\ proc.flows[f].at = "resuming"
    /\ CASE db.status = "pr_open" /\ db.pr_url # 0 ->
                Turn(<<>>, with_flow(proc, f, "ci", db.pr_url))
         [] db.status = "pr_open" /\ db.pr_url = 0 ->
                Turn(<<>>, with_flow(proc, f, "reopening", db.preview_sha))
         [] db.status = "merged" ->
                Turn(<<set_status(db, "done")>>, flow_ends(f))
         [] OTHER ->
                Turn(<<>>, flow_ends(f))
    /\ UNCHANGED <<renounced, approved, shipped>>

\* open_pr returned.
flow_opened(f) ==
    /\ proc.flows[f].at \in {"opening", "reopening"}
    /\ Turn(<<set_pr_url(db, proc.flows[f].sha)>>, with_flow(proc, f, "ci", proc.flows[f].sha))
    /\ UNCHANGED <<renounced, approved, shipped>>

\* open_pr raised: the flow reverts the thread; a resumed one has no handler.
flow_not_opened(f) ==
    /\ PRFaults
    /\ \/ /\ proc.flows[f].at = "opening"
          /\ Turn(<<approval_reverted(db)>>, flow_ends(f))
       \/ /\ proc.flows[f].at = "reopening"
          /\ Turn(<<>>, flow_ends(f))
    /\ UNCHANGED <<renounced, approved, shipped>>

flow_merges(f) ==
    /\ proc.flows[f].at = "ci"
    /\ Turn(<<>>, with_flow(proc, f, "merging", proc.flows[f].sha))
    /\ UNCHANGED <<renounced, approved, shipped>>

\* CI or the merge raised: the PR stays open for a human.
flow_stays_open(f) ==
    /\ PRFaults
    /\ proc.flows[f].at \in {"ci", "merging"}
    /\ Turn(<<>>, flow_ends(f))
    /\ UNCHANGED <<renounced, approved, shipped>>

\* merge_pr returned.
flow_merged(f) ==
    /\ proc.flows[f].at = "merging"
    /\ LET d1 == set_status(db, "merged") IN
        Turn(<<d1, set_status(d1, "done")>>, flow_ends(f))
    /\ shipped' = shipped \cup {proc.flows[f].sha}
    /\ UNCHANGED <<renounced, approved>>

flow_step(f) ==
    \/ flow_opens(f) \/ flow_resumes(f) \/ flow_opened(f) \/ flow_not_opened(f)
    \/ flow_merges(f) \/ flow_stays_open(f) \/ flow_merged(f)

-----------------------------------------------------------------------------
Next ==
    \/ boot \/ crash \/ post_comment \/ cancel_run \/ sweep
    \/ \E sha \in DOMAIN db.iterations : approve(sha)
    \/ \E t \in Tasks : requeue_from_dlq_task(t) \/ lease_lapses(t)
    \/ \E w \in Workers :
        \/ \E t \in Tasks : claim(w, t)
        \/ begins(w) \/ redelivered(w) \/ progresses(w) \/ raises(w) \/ lands(w)
        \/ deadline(w) \/ resumes(w)
    \/ \E f \in Flows : flow_step(f)

Spec == Init /\ [][Next]_vars

(***************************************************************************)
(* Fairness: a dead process is started again, the loop runs what can run,  *)
(* a launcher, a deployment and the calls of a PR flow return (or raise),  *)
(* the workers poll, the janitor wakes, a lease nobody renews runs out.    *)
(* Nothing is assumed of users, deadlines and crashes.                     *)
(***************************************************************************)
Fairness ==
    /\ WF_vars(boot)
    /\ WF_vars(sweep)
    /\ \A t \in Tasks : WF_vars(lease_lapses(t))
    /\ \A w \in Workers :
        /\ WF_vars(\E t \in Tasks : claim(w, t))
        /\ WF_vars(begins(w) \/ redelivered(w) \/ progresses(w) \/ raises(w) \/ lands(w))
        /\ WF_vars(resumes(w))
    /\ \A f \in Flows : WF_vars(flow_step(f))

FairSpec == Spec /\ Fairness

-----------------------------------------------------------------------------
(* Properties. *)

\* The types of the variables.
TypeOK ==
    /\ db \in Database
    /\ proc \in Process
    /\ renounced \subseteq Nat /\ approved \subseteq Nat /\ shipped \subseteq Nat
    /\ used \in [crashes : Nat, cancels : Nat, replays : Nat]

\* The tasks that still have an effect to make.  A task whose iteration is
\* recorded may linger in "running" until its worker unwinds, or until a
\* restarted queue delivers it again.
Unapplied == {t \in Live(db.rows) : ~already_applied(db, db.comment_ids[t])}

\* "one active task per thread": whatever order comments, cancels, retries
\* and drains come in, two tasks with work to do never coexist.
OneActiveTask == \A t, u \in Unapplied : t = u

\* The status on the thread tells whether an agent is at work for it: it is
\* in flight exactly while a task has work to do.  (A status that says less
\* starts a second task; one that says more freezes the thread.)
StatusFollowsTask == db.status \in InFlightStatuses <=> Unapplied # {}

\* "exactly-once effect": no ask is addressed by two iterations.
AskAddressedOnce ==
    \A i, j \in DOMAIN db.iterations :
        i # j => db.iterations[i].comment_ids \cap db.iterations[j].comment_ids = {}

\* "an iteration for this key is only ever created once": no two iterations
\* have the same newest ask, whatever crashes, replays and races there are.
OneIterationPerKey ==
    \A i, j \in DOMAIN db.iterations :
        i # j => idempotency_key(db.iterations[i].comment_ids)
                     # idempotency_key(db.iterations[j].comment_ids)

\* An iteration is built on the newest preview at the time it lands, unless
\* one of its own asks was made on another version: a fix is not lost from
\* the lineage because two runs started from the same version.
LineageKept ==
    [][\A i \in DOMAIN db'.iterations \ DOMAIN db.iterations :
        LET it == db'.iterations[i] IN
        \/ it.parent = db.preview_sha
        \/ \E c \in it.comment_ids : db.comments[c].sha = it.parent]_vars

\* "Past the cutoff: never interrupt": no comment ever cancels a run that is
\* coding or deploying.
CutoffHolds ==
    [][Len(db'.comments) > Len(db.comments) =>
        \A w \in Workers : proc.phase[w] \in {"coding", "deploying"} =>
                                proc'.phase[w] # "cancelled"]_vars

\* The tasks whose handler has yet to come to its drain: those an orphan's
\* redelivery will run again included, those that wait for the worker to take
\* note not.
Undrained == {t \in Live(db.rows) : \A w \in EngagedOn(t) : proc.phase[w] # "ok"}

\* "repair derived state that the crash may have left behind": a thread never
\* says that an agent is at work when no task has its handler still to run,
\* wherever the process died (inside a submit, an interrupt, a landing, a
\* drain, a sweep), and whatever is cancelled, replayed and redelivered on the
\* way.  Only two turns tear into a run that nobody repairs, since no task is
\* left to be delivered again: cancel_run, and a failure that dead-letters.
NoPhantomRun ==
    proc.up /\ db.status \in InFlightStatuses =>
        \/ Undrained # {}
        \/ used.crashes > 0 /\ (renounced # {} \/ InState(db.rows, "dlq") # {})

\* Somebody is going to answer c, or has: it is addressed or the user renounced
\* it, a live or dead-lettered task covers it, it waits for the drain of a
\* task, or the thread failed and shows it.
InHand(c) ==
    \/ c \in addressed(db) \cup renounced
    \/ \E t \in Live(db.rows) \cup InState(db.rows, "dlq") : c \in db.comment_ids[t]
    \/ c \in pending_comment_ids(db) /\ (Undrained # {} \/ db.status = "failed")

\* Until the thread closes, every ask is in somebody's hand.
NoStrandedAsk ==
    proc.up /\ db.status \notin ClosedStatuses => \A c \in asks(db) : InHand(c)

\* Even when the process dies between the commits of one turn: the crash that
\* loses asks, between the cancel of an interrupt and the submit of what it
\* combined, loses those of the cancelled task, never the comment that
\* interrupted it, which "the post-iteration drain picks up" at the next start.
\* (As long as nobody cancels: cancel_run does not drain.  And as long as a
\* second crash does not meet a PR service that fails: see the README.)
LastAskKept ==
    proc.up /\ db.status \notin ClosedStatuses /\ asks(db) # {} /\ renounced = {} =>
        InHand(Max(asks(db)))

\* "a cancelled ask is never resurrected": no iteration that lands after the
\* cancel addresses it.
RenouncedStayRenounced ==
    [][\A i \in DOMAIN db'.iterations \ DOMAIN db.iterations :
        db'.iterations[i].comment_ids \cap renounced = {}]_vars

\* A closed thread never goes back to work: from pr_open it goes to merged, or
\* back to preview_ready when the PR could not be opened, from merged to done.
ClosedStaysClosed ==
    [][db.status \in ClosedStatuses /\ db'.status # db.status =>
        <<db.status, db'.status>> \in
            {<<"pr_open", "merged">>, <<"pr_open", "done">>,
             <<"pr_open", "preview_ready">>, <<"merged", "done">>}]_vars

\* "no second flow ever started".
OneFlow ==
    \A e, f \in Flows :
        proc.flows[e].at # "none" /\ proc.flows[f].at # "none" => e = f

\* Nothing is merged but a version some approver named as the one reviewed.
ShippedIsReviewed == shipped \subseteq approved

\* A thread that says a PR is being opened has a flow that opens it, or that
\* will undo the approval.
NeverStranded ==
    proc.up /\ db.status = "pr_open" /\ db.pr_url = 0 =>
        \E f \in Flows : proc.flows[f].at # "none"

\* Every ask gets its answer: an iteration addresses it, the user renounces
\* it, its task is dead-lettered, or the thread fails or closes.
EveryAskAnswered ==
    \A c \in 1 .. MaxComments :
        c \in asks(db) ~>
            \/ c \in addressed(db) \cup renounced
            \/ \E t \in InState(db.rows, "dlq") : c \in db.comment_ids[t]
            \/ db.status \in ClosedStatuses \cup {"failed"}

\* While the PR service works, no crash leaves a thread "frozen at
\* pr_open/merged".
NeverFrozen ==
    db.status \in {"pr_open", "merged"} ~> db.status \notin {"pr_open", "merged"}

\* The runner, too, leads every task through the life it is promised.
Lifecycle == INSTANCE TaskLifecycle
    WITH state      <- [t \in Tasks |-> db.rows[t].state],
         deliveries <- [t \in Tasks |-> db.rows[t].attempts]

LifecycleSpec == Lifecycle!Spec
=============================================================================
