----------------------------- MODULE ThreadStore -----------------------------
(***************************************************************************)
(* What the database holds about one thread: the thread's row, its         *)
(* comments, its iterations (backend/db/repos.py: CommentRepo, ThreadRepo) *)
(* and its tasks (TaskRepo), as one record, and the statements on it.      *)
(*                                                                         *)
(* An operator returns the database one statement leaves.  An operator     *)
(* named ..._commits returns the databases a block of code without an      *)
(* await commits one after the other: a process that dies inside the block *)
(* leaves a prefix of them.                                                *)
(*                                                                         *)
(* A comment is named by its position in the thread.  A task's comment_ids *)
(* are kept as a set: every list the code builds is in comment order, so   *)
(* its last element, the idempotency key, is the largest.  A preview's sha *)
(* is the position of its iteration, 0 stands for the thread's base_sha.   *)
(* The history of statuses and the system comments are left out: nothing   *)
(* reads them back but the panel.                                          *)
(***************************************************************************)
EXTENDS TaskRepo, SequencesExt

CONSTANTS
    NoTask,        \* no task
    MaxComments    \* a bound: comments in the thread

ASSUME NoTaskAssumption == NoTask \notin Tasks
ASSUME EnoughTasks ==
    /\ MaxComments \in Nat
    /\ Tasks = 1 .. MaxComments   \* a task covers a comment no earlier one did

\* Variant with a later cutoff.
interruptible_when_coding == {"triggered", "analyzing", "coding"}

InterruptibleStatuses == {"triggered", "analyzing"}
InFlightStatuses == {"triggered", "analyzing", "coding", "deploying"}
ClosedStatuses == {"pr_open", "merged", "done", "cancelled"}
Statuses == {"open", "preview_ready", "failed"} \cup InFlightStatuses \cup ClosedStatuses

\* The version a comment's capture was taken on: an iteration's number, or
\* one of these.
NoCapture == 0
Production == -1

Comment == [agent : BOOLEAN, sha : Int]
Iteration == [parent : Nat, comment_ids : SUBSET Nat]

Database ==
    [rows : Table,
     comment_ids : [Tasks -> SUBSET Nat],    \* the tasks' comment_ids_json
     comments : Seq(Comment),
     status : Statuses,
     iterations : Seq(Iteration),
     preview_sha : Nat,
     pr_url : Nat]                           \* the version the PR it names carries

NewThread ==
    [rows |-> EmptyTable,
     comment_ids |-> [t \in Tasks |-> {}],
     comments |-> <<>>,
     status |-> "open",
     iterations |-> <<>>,
     preview_sha |-> 0,
     pr_url |-> 0]

-----------------------------------------------------------------------------
(* Statements. *)

append_comment(d, agent, sha) ==
    [d EXCEPT !.comments = Append(@, [agent |-> agent, sha |-> sha])]

set_status(d, status) == [d EXCEPT !.status = status]

\* Variant that updates the row without the compare of the compare-and-swap.
finds_any_row(d, from) == TRUE

\* Whether transition() updates a row, which is what it returns.
finds_row(d, from) == d.status = from

transition(d, from, to) == IF finds_row(d, from) THEN set_status(d, to) ELSE d

set_pr_url(d, version) == [d EXCEPT !.pr_url = version]

\* Two statements: the iteration's row, then the thread's preview_sha.
add_iteration_commits(d, parent, ids) ==
    LET d1 == [d EXCEPT !.iterations = Append(@, [parent |-> parent, comment_ids |-> ids])]
    IN <<d1, [d1 EXCEPT !.preview_sha = Len(d1.iterations)]>>

with_rows(d, table) == [d EXCEPT !.rows = table]

enqueue_task(d, t, ids) ==
    [d EXCEPT !.rows = enqueue(@, t), !.comment_ids[t] = ids]

coalesce_comment(d, t, c) == [d EXCEPT !.comment_ids[t] = @ \cup {c}]

-----------------------------------------------------------------------------
(* Queries. *)

\* Variant that sees running tasks only.
active_if_running(d) ==
    LET running == InState(d.rows, "running")
    IN IF running = {} THEN NoTask ELSE CHOOSE t \in Tasks : IsNewest(t, running)

\* The newest live task.
active_for_thread(d) ==
    IF Live(d.rows) = {} THEN NoTask ELSE CHOOSE t \in Tasks : IsNewest(t, Live(d.rows))

covered_comment_ids(d) == UNION {d.comment_ids[t] : t \in Tasks}

addressed(d) == UNION {d.iterations[i].comment_ids : i \in DOMAIN d.iterations}

asks(d) == {c \in DOMAIN d.comments : d.comments[c].agent}

pending_comment_ids(d) == asks(d) \ (addressed(d) \cup covered_comment_ids(d))

idempotency_key(ids) == Max(ids)

\* Variant without deduplication.
never_applied(d, ids) == FALSE

already_applied(d, ids) == idempotency_key(ids) \in addressed(d)

\* Variant that iterates from the thread's base again and again.
resolve_to_base(d, ids) == 0

\* The version an iteration branches off: the one the newest captured ask was
\* made on, if that is a preview of this thread; otherwise the tip.
resolve_parent_sha(d, ids) ==
    LET captured == {c \in ids : d.comments[c].sha # NoCapture}
    IN IF captured # {} /\ d.comments[Max(captured)].sha \in DOMAIN d.iterations
       THEN d.comments[Max(captured)].sha
       ELSE d.preview_sha

\* Variant of approve's check that only asks for some version.
reviewed_something(d, sha) == sha # 0

\* The approval names the preview the approver reviewed, and it is current.
reviewed(d, sha) == sha # 0 /\ sha = d.preview_sha

\* Variant of recover that overlooks the flows that were waiting for CI.
flow_was_rolling_out(d) == d.status = "merged"

\* recover: a PR flow died with the process.
flow_was_under_way(d) == d.status \in {"pr_open", "merged"}

-----------------------------------------------------------------------------
(* Blocks of the runner that only touch the database. *)

FreshTask(d) == CHOOSE t \in Tasks : IsFresh(d.rows, t)

\* _submit
submit_commits(d, ids) ==
    LET existing == active_for_thread(d)
        d1 == set_status(d, "triggered")
    IN IF existing # NoTask /\ idempotency_key(d.comment_ids[existing]) = idempotency_key(ids)
       THEN <<>>
       ELSE <<d1, enqueue_task(d1, FreshTask(d), ids)>>

\* Variant of _drain_pending that forgets it.
no_drain_commits(d) == <<>>

\* _drain_pending
drain_pending_commits(d) ==
    IF d.status \in ClosedStatuses \cup {"failed"} \/ pending_comment_ids(d) = {}
    THEN <<>>
    ELSE submit_commits(d, pending_comment_ids(d))

\* Variant of cancel_run that leaves the status to somebody else.
status_kept(d) == d.status

\* cancel_run: where the thread goes back to.
status_after_cancel(d) == IF d.iterations = <<>> THEN "open" ELSE "preview_ready"

\* Variant of the error path of _pr_flow that does not revert.
approval_kept(d) == d

\* _pr_flow, when the PR could not be opened.
approval_reverted(d) == transition(d, "pr_open", "preview_ready")

\* Variant of _execute that leaves the status of a redelivered task alone.
never_repaired(d) == <<>>

\* _execute of an applied task: the derived state it repairs.
repair_commits(d) ==
    IF d.status \in InFlightStatuses THEN <<set_status(d, "preview_ready")>> ELSE <<>>

\* The commits of a block, then those of the drain on what it leaves.
then_drain(d, commits) ==
    commits \o drain_pending_commits(IF commits = <<>> THEN d ELSE Last(commits))

\* _on_task_outcome: the thread follows the state the queue reports.
StatusOfOutcome(result) == IF result = "queued" THEN "triggered" ELSE "failed"

\* reap_expired and the callbacks of _janitor: first every row, then every
\* status, in the order of the rows.
sweep_commits(d) ==
    LET expired == Expired(d.rows)
        n == Cardinality(expired)
        place(t) == Cardinality({u \in expired : u <= t})
        first_rows(k) == [t \in Tasks |-> IF t \in expired /\ place(t) <= k
                                          THEN failed_row(d.rows, t) ELSE d.rows[t]]
        outcome(k) == fail_result(d.rows, CHOOSE t \in expired : place(t) = k)
    IN [k \in 1 .. 2 * n |->
            IF k <= n THEN with_rows(d, first_rows(k))
            ELSE set_status(with_rows(d, first_rows(n)), StatusOfOutcome(outcome(k - n)))]
=============================================================================
