------------------------------ MODULE TaskRepo ------------------------------
(***************************************************************************)
(* The agent_tasks table (backend/db/repos.py, class TaskRepo).            *)
(*                                                                         *)
(* The module owns the columns that decide delivery and one operator per   *)
(* SQL statement.  An operator takes the table and returns the table the   *)
(* statement leaves; a statement whose WHERE clause matches no row leaves  *)
(* the table alone.  Every statement commits by itself (Database.execute), *)
(* so a module that uses these operators decides what runs between two     *)
(* of them.                                                                *)
(*                                                                         *)
(* Tasks are numbered in insertion order: "ORDER BY created_at, rowid" is  *)
(* the order of their numbers.  Time enters only as the state of a lease.  *)
(***************************************************************************)
EXTENDS Integers

CONSTANTS
    Tasks,        \* the numbers of the rows the table may come to hold
    Workers,      \* the values of claimed_by
    NoWorker,     \* claimed_by = NULL
    MaxAttempts   \* max_attempts, the same for every task of a process

ASSUME TasksAssumption == Tasks \subseteq Nat
ASSUME WorkersAssumption == NoWorker \notin Workers
ASSUME MaxAttemptsAssumption == MaxAttempts \in Nat \ {0}

\* "none" is a number no row has been inserted for yet.
States == {"none", "queued", "running", "done", "cancelled", "dlq"}

\* lease_expires_at, seen from now_ms(): NULL, in the future, in the past.
Leases == {"null", "held", "expired"}

Row == [state : States, attempts : 0 .. MaxAttempts,
        claimed_by : Workers \cup {NoWorker}, lease : Leases]

Table == [Tasks -> Row]

NoRow == [state |-> "none", attempts |-> 0, claimed_by |-> NoWorker, lease |-> "null"]

\* What the statements together make of a row's columns: a row not inserted
\* has no deliveries, a queued one has a delivery left and no owner, a running
\* one has both, and a dead-lettered one has had all its deliveries.
Counted(r) ==
    /\ r.state = "none" => r.attempts = 0
    /\ r.state = "queued" =>
          r.attempts < MaxAttempts /\ r.claimed_by = NoWorker /\ r.lease = "null"
    /\ r.state = "running" =>
          r.attempts > 0 /\ r.claimed_by \in Workers /\ r.lease # "null"
    /\ r.state = "dlq" =>
          r.attempts = MaxAttempts /\ r.claimed_by = NoWorker /\ r.lease = "null"

EmptyTable == [t \in Tasks |-> NoRow]

InState(tbl, s) == {t \in Tasks : tbl[t].state = s}

Live(tbl) == InState(tbl, "queued") \cup InState(tbl, "running")

IsOldest(t, S) == t \in S /\ \A u \in S : t <= u

IsNewest(t, S) == t \in S /\ \A u \in S : u <= t

\* The next number an INSERT gives out.
IsFresh(tbl, t) == IsOldest(t, InState(tbl, "none"))

-----------------------------------------------------------------------------
enqueue(tbl, t) ==
    [tbl EXCEPT ![t] = [NoRow EXCEPT !.state = "queued"]]

\* Variant of claim_next that forgets the counter.
claim_uncounted(tbl, t, w) ==
    [tbl EXCEPT ![t] = [@ EXCEPT !.state = "running", !.claimed_by = w, !.lease = "held"]]

claim_next(tbl, t, w) ==
    [tbl EXCEPT ![t] = [state |-> "running", attempts |-> @.attempts + 1,
                        claimed_by |-> w, lease |-> "held"]]

heartbeat(tbl, t, w) ==
    IF tbl[t].state = "running" /\ tbl[t].claimed_by = w
    THEN [tbl EXCEPT ![t].lease = "held"]
    ELSE tbl

\* Variant of complete without the compare-and-swap.
complete_unguarded(tbl, t) == [tbl EXCEPT ![t].state = "done"]

complete(tbl, t) ==
    IF tbl[t].state = "running" THEN [tbl EXCEPT ![t].state = "done"] ELSE tbl

cancel(tbl, t) ==
    IF t \in Live(tbl) THEN [tbl EXCEPT ![t].state = "cancelled"] ELSE tbl

\* Variant of the retry test that is off by one.
fail_result_late(tbl, t) ==
    IF tbl[t].attempts > MaxAttempts THEN "dlq" ELSE "queued"

\* The state fail() reports.  It is computed from the counter alone.
fail_result(tbl, t) ==
    IF tbl[t].attempts >= MaxAttempts THEN "dlq" ELSE "queued"

\* The row fail()'s UPDATE leaves.
failed_row(tbl, t) ==
    IF tbl[t].state = "running"
    THEN [tbl[t] EXCEPT !.state = fail_result(tbl, t),
                        !.claimed_by = NoWorker, !.lease = "null"]
    ELSE tbl[t]

fail(tbl, t) == [tbl EXCEPT ![t] = failed_row(tbl, t)]

\* Variant of the janitor's SELECT that does not look at the lease.
expired_or_not(tbl) == InState(tbl, "running")

\* Variant that only looks for rows it could requeue.
expired_retriable(tbl) ==
    {t \in InState(tbl, "running") : tbl[t].lease = "expired" /\ tbl[t].attempts < MaxAttempts}

\* The rows the janitor's SELECT returns.
Expired(tbl) == {t \in InState(tbl, "running") : tbl[t].lease = "expired"}

reap_expired(tbl) ==
    [t \in Tasks |-> IF t \in Expired(tbl) THEN failed_row(tbl, t) ELSE tbl[t]]

requeue_from_dlq(tbl, t) ==
    IF tbl[t].state = "dlq" THEN enqueue(tbl, t) ELSE tbl
=============================================================================
