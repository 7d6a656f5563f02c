---------------------------- MODULE TaskLifecycle ----------------------------
(***************************************************************************)
(* What the task queue promises about a task, whatever worker, lease,      *)
(* deadline or process delivers it: the life described by the docstring of *)
(* TaskState (backend/agent/models.py) and the comment on the state column *)
(* (migrations/003):                                                       *)
(*                                                                         *)
(*     queued -> running -> done | queued (retry) | dlq | cancelled        *)
(*                                                                         *)
(* Deliveries are counted, oldest task first, at most MaxAttempts of them  *)
(* before a human replays the task.  A settled task stays as it is, except *)
(* that a dead-lettered one may be replayed.  A step may move several      *)
(* tasks, each along one edge of its life.                                 *)
(***************************************************************************)
EXTENDS Integers

CONSTANTS Tasks, MaxAttempts

VARIABLES
    state,        \* state[t]: where the task is in its life
    deliveries    \* deliveries[t]: claims since it was submitted or replayed

vars == <<state, deliveries>>

States == {"none", "queued", "running", "done", "cancelled", "dlq"}

Init ==
    /\ state = [t \in Tasks |-> "none"]
    /\ deliveries = [t \in Tasks |-> 0]

\* Task t takes the edge from one of `From` to `to`.
Edge(t, From, to) == state[t] \in From /\ state'[t] = to

Counting(t, n) == deliveries'[t] = n

Stay(t) == state'[t] = state[t] /\ Counting(t, deliveries[t])

Submit(t) == Edge(t, {"none"}, "queued") /\ Counting(t, 0)

\* The oldest queued task is handed to somebody.
Deliver(t) ==
    /\ Edge(t, {"queued"}, "running")
    /\ \A u \in Tasks : state[u] = "queued" => t <= u
    /\ deliveries[t] < MaxAttempts
    /\ Counting(t, deliveries[t] + 1)

Finish(t) == Edge(t, {"running"}, "done") /\ Counting(t, deliveries[t])

\* A delivery came to nothing: retry with attempts left, dead-letter without.
GiveBack(t) ==
    /\ Edge(t, {"running"}, IF deliveries[t] < MaxAttempts THEN "queued" ELSE "dlq")
    /\ Counting(t, deliveries[t])

Cancel(t) == Edge(t, {"queued", "running"}, "cancelled") /\ Counting(t, deliveries[t])

Replay(t) == Edge(t, {"dlq"}, "queued") /\ Counting(t, 0)

Next ==
    /\ state' \in [Tasks -> States]
    /\ deliveries' \in [Tasks -> Nat]
    /\ \A t \in Tasks :
        \/ Stay(t) \/ Submit(t) \/ Deliver(t) \/ Finish(t)
        \/ GiveBack(t) \/ Cancel(t) \/ Replay(t)

Spec == Init /\ [][Next]_vars
=============================================================================
