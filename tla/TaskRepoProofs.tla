--------------------------- MODULE TaskRepoProofs ---------------------------
(***************************************************************************)
(* Lemmas about the statements of TaskRepo: what each makes of a table     *)
(* that is typed and counted, and the edge of a task's life each moves a   *)
(* row along.  The proofs about AgentTaskQueue and AgentRunner rest on     *)
(* them.                                                                   *)
(***************************************************************************)
EXTENDS TaskRepo, TLAPS

USE TasksAssumption, WorkersAssumption, MaxAttemptsAssumption

-----------------------------------------------------------------------------
(* The statements of TaskRepo keep the table typed and its columns in line. *)

\* A table of rows that are typed and counted.
GoodTable(tbl) == tbl \in Table /\ \A t \in Tasks : Counted(tbl[t])

\* Replacing one row of a good table by a good row leaves a good table.
LEMMA OneRow ==
    ASSUME NEW tbl, GoodTable(tbl), NEW t \in Tasks,
           NEW r \in Row, Counted(r)
    PROVE  GoodTable([tbl EXCEPT ![t] = r])
BY DEF GoodTable, Table

LEMMA EmptyIsGood == GoodTable(EmptyTable)
BY DEF GoodTable, Table, EmptyTable, NoRow, Row, States, Leases, Counted

\* INSERT, and the replay of a dead letter.
LEMMA EnqueueKeepsGood ==
    ASSUME NEW tbl, GoodTable(tbl), NEW t \in Tasks
    PROVE  GoodTable(enqueue(tbl, t))
<1>1. [NoRow EXCEPT !.state = "queued"] \in Row
  BY DEF NoRow, Row, States, Leases
<1>2. Counted([NoRow EXCEPT !.state = "queued"])
  BY DEF NoRow, Counted
<1> QED BY <1>1, <1>2, OneRow DEF enqueue

\* A claim counts one delivery: a queued row has room for it.
LEMMA ClaimKeepsGood ==
    ASSUME NEW tbl, GoodTable(tbl), NEW t \in Tasks, NEW w \in Workers,
           tbl[t].state = "queued"
    PROVE  GoodTable(claim_next(tbl, t, w))
<1> DEFINE r == [state |-> "running", attempts |-> tbl[t].attempts + 1,
                 claimed_by |-> w, lease |-> "held"]
<1>1. tbl[t] \in Row /\ Counted(tbl[t])
  BY DEF GoodTable, Table
<1>2. r \in Row
  BY <1>1 DEF Row, States, Leases, Counted
<1>3. Counted(r)
  BY <1>1 DEF Row, Counted
<1> QED BY <1>2, <1>3, OneRow DEF claim_next

LEMMA CompleteKeepsGood ==
    ASSUME NEW tbl, GoodTable(tbl), NEW t \in Tasks
    PROVE  GoodTable(complete(tbl, t))
<1>1. tbl[t] \in Row
  BY DEF GoodTable, Table
<1>2. [tbl[t] EXCEPT !.state = "done"] \in Row
  BY <1>1 DEF Row, States
<1>3. Counted([tbl[t] EXCEPT !.state = "done"])
  BY <1>1 DEF Row, Counted
<1>4. GoodTable([tbl EXCEPT ![t].state = "done"])
  BY <1>2, <1>3, OneRow
<1> QED BY <1>4 DEF complete

LEMMA CancelKeepsGood ==
    ASSUME NEW tbl, GoodTable(tbl), NEW t \in Tasks
    PROVE  GoodTable(cancel(tbl, t))
<1>1. tbl[t] \in Row
  BY DEF GoodTable, Table
<1>2. [tbl[t] EXCEPT !.state = "cancelled"] \in Row
  BY <1>1 DEF Row, States
<1>3. Counted([tbl[t] EXCEPT !.state = "cancelled"])
  BY <1>1 DEF Row, Counted
<1>4. GoodTable([tbl EXCEPT ![t].state = "cancelled"])
  BY <1>2, <1>3, OneRow
<1> QED BY <1>4 DEF cancel

\* Renewing the lease of a running row, or letting it lapse.
LEMMA LeaseKeepsGood ==
    ASSUME NEW tbl, GoodTable(tbl), NEW t \in Tasks, tbl[t].state = "running",
           NEW l \in {"held", "expired"}
    PROVE  GoodTable([tbl EXCEPT ![t].lease = l])
<1>1. tbl[t] \in Row /\ Counted(tbl[t])
  BY DEF GoodTable, Table
<1>2. [tbl[t] EXCEPT !.lease = l] \in Row
  BY <1>1 DEF Row, Leases
<1>3. Counted([tbl[t] EXCEPT !.lease = l])
  BY <1>1 DEF Row, Counted
<1> QED BY <1>2, <1>3, OneRow

\* fail() dead-letters a row exactly when its allowance is used up.
LEMMA FailedRowIsGood ==
    ASSUME NEW tbl, GoodTable(tbl), NEW t \in Tasks
    PROVE  failed_row(tbl, t) \in Row /\ Counted(failed_row(tbl, t))
<1>1. tbl[t] \in Row /\ Counted(tbl[t])
  BY DEF GoodTable, Table
<1>2. fail_result(tbl, t) \in {"dlq", "queued"}
  BY DEF fail_result
<1>3. failed_row(tbl, t) \in Row
  BY <1>1, <1>2 DEF failed_row, Row, States, Leases
<1>4. Counted(failed_row(tbl, t))
  BY <1>1, <1>2 DEF failed_row, fail_result, Row, Counted
<1> QED BY <1>3, <1>4

LEMMA FailKeepsGood ==
    ASSUME NEW tbl, GoodTable(tbl), NEW t \in Tasks
    PROVE  GoodTable(fail(tbl, t))
BY FailedRowIsGood, OneRow DEF fail

LEMMA SweepKeepsGood ==
    ASSUME NEW tbl, GoodTable(tbl)
    PROVE  GoodTable(reap_expired(tbl))
<1>1. \A t \in Tasks : failed_row(tbl, t) \in Row /\ Counted(failed_row(tbl, t))
  BY FailedRowIsGood
<1> QED BY <1>1 DEF GoodTable, Table, reap_expired

-----------------------------------------------------------------------------
(* The edges of a task's life. *)

\* One edge of a task's life, between two values of its row.
Moved(r, s, oldest) ==
    \/ s.state = r.state /\ s.attempts = r.attempts
    \/ r.state = "none" /\ s.state = "queued" /\ s.attempts = 0
    \/ /\ r.state = "queued" /\ s.state = "running" /\ oldest
       /\ r.attempts < MaxAttempts /\ s.attempts = r.attempts + 1
    \/ r.state = "running" /\ s.state = "done" /\ s.attempts = r.attempts
    \/ /\ r.state = "running" /\ s.attempts = r.attempts
       /\ s.state = IF r.attempts < MaxAttempts THEN "queued" ELSE "dlq"
    \/ r.state \in {"queued", "running"} /\ s.state = "cancelled" /\ s.attempts = r.attempts
    \/ r.state = "dlq" /\ s.state = "queued" /\ s.attempts = 0

\* The row fail() leaves is where its attempts send it.
LEMMA FailedRowMoves ==
    ASSUME NEW tbl, GoodTable(tbl), NEW t \in Tasks, NEW o \in BOOLEAN
    PROVE  Moved(tbl[t], failed_row(tbl, t), o)
<1>1. tbl[t] \in Row
  BY DEF GoodTable, Table
<1> QED BY <1>1 DEF failed_row, fail_result, Row, Moved
=============================================================================
