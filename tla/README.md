# A verification of comment-to-fix

comment-to-fix lets the users of a web page leave comments on its elements. A
comment that mentions `@agent` makes a thread, the thread gets a task, a worker
of the backend runs a coding agent on it, the result is deployed as a preview,
further comments iterate on the preview, and an approver turns the newest
preview into a pull request that is merged and rolled out.

This directory holds TLA+ models of the parts of that program that are hard to
get right, the TLC configurations that check them, and TLAPS proofs of what
matters most for every size of the system. Paths below are relative to `src/`.

## 1. The system

| Part | State | Operations | Talks to |
| --- | --- | --- | --- |
| Task table, `backend/db/repos.py` `TaskRepo` | rows of `agent_tasks` (state, attempts, owner, lease, comment ids) | enqueue, claim_next, heartbeat, complete, cancel, fail, reap_expired, requeue_from_dlq, coalesce_comment, covered_comment_ids | SQLite, one commit per statement |
| Delivery queue, `backend/agent/queue.py` | `_running`, worker loops, `_stopping`, timers | start, stop, submit, cancel, replay; loops `_worker`, `_heartbeat`, `_janitor` | the task table; calls the runner's handler and outcome callback |
| Runner, `backend/agent/runner.py` | none of its own but the PR flows it started | on_comment, approve, cancel_run, requeue_from_dlq, `_execute`, drains, PR flow, recover | the queue, the stores, the agent, the broker |
| Stores, `ThreadRepo`, `CommentRepo` | threads, comments, iterations, status history | append, set_status, transition, add_iteration, set_pr_url, list | SQLite |
| Agent and launchers, `backend/agent/agent.py`, `launchers/` | none | run_iteration in three phases, with side effects last | preview deployer, git |
| PR service, `backend/agent/github.py` | the repository on GitHub | open_pr, await_ci_and_review, merge: some ten HTTP requests | GitHub |
| Broker, `backend/pubsub.py` | ring of events, subscribers | publish, subscribe, replay_since | called by the runner and the SSE endpoint |
| SSE endpoint, `backend/routes/events.py` | per connection: a queue and a watermark | subscribe, replay, stream | broker, browser |
| Page, `frontend/hooks/useThreads.ts`, `frontend/lib/api.ts` | the threads shown, the last event id | event, reset, reconnect, slow poll | SSE endpoint, `GET /api/threads` |
| Comment service, `backend/comments/service.py` | deques of the rate limiter | post_comment | stores, runner (through the route) |
| Database, `backend/db/database.py` and migrations | the file | execute, migrate | everything durable |
| Assembly, `backend/main.py`, `container.py` | the process | lifespan: start, recover, stop | all of the above |

Everything of the backend runs in one asyncio event loop over one SQLite
connection, so code between two awaits is atomic with respect to the rest of
the process, and what is hard is what happens between two turns of the loop:

- a run ends in one turn and its worker notices in a later one; comments,
  cancels, approvals, the deadline timer and `stop()` may come in between;
- leases lapse, the janitor reclaims, a process dies with rows in "running" and
  PR flows half way, and its successor must pick up both;
- a turn commits several statements one by one, so a process can die between
  them;
- comments arrive while a task waits, analyzes, codes or lingers;
- requests to GitHub fail with or without having had their effect;
- events are replayed, overlap with live ones, are evicted, and race refreshes;
- timers run late: heartbeats against leases, deadlines against answers;
- a start migrates the database statement by statement and may be torn.

What makes each part correct is listed with its properties in section 3.

## 2. The modules

| Module | Models |
| --- | --- |
| `TaskRepo` | the delivery columns of `agent_tasks`, one operator per SQL statement |
| `TaskLifecycle` | abstract: the life a task is promised, whoever delivers it |
| `AgentTaskQueue` | workers, deadlines, heartbeats, janitor, cancel, replay, start, stop, crash |
| `LeaseTimes` | the same queue with its timers: lease, heartbeat, deadline, janitor, poll, and the event `_wake` |
| `ThreadStore` | the database of one thread as a record, its statements, the queries of the runner, and the blocks of the runner that only touch the database |
| `AgentRunner` | the runner and the queue together over `ThreadStore`: requests, runs, leases, PR flows, crash and boot |
| `PullRequest` | the PR flow request by request, with GitHub's side |
| `StatusBroker` | ring, ids, `replay_since` |
| `LiveThreads` | broker, SSE endpoint, connection, and the hook of one page |
| `RateLimiter` | the sliding windows of the comment endpoint |
| `Migrations` | the scripts of the database and `migrate()`, statement by statement, over crashes |
| `CommentService` | the site: several threads, created and followed up through `post_comment`, the gate for stale previews, previews and their patches; over `RateLimiter` and `Migrations` |
| `AgentTaskQueueMC`, `AgentRunnerMC`, `LiveThreadsMC` | small instances and symmetry for TLC |
| `TaskRepoProofs`, `AgentTaskQueueProofs`, `LeaseTimesProofs`, `ThreadStoreProofs`, `AgentRunnerProofs`, `RateLimiterProofs`, `CommentServiceProofs`, `PullRequestProofs` | lemmas and theorems, see section 4 |

`TaskRepo` is used by `AgentTaskQueue` and, through `ThreadStore`, by
`AgentRunner`. `AgentTaskQueue` implements `TaskLifecycle` (`LifecycleSpec`, with the
columns `state` and `attempts` as refinement mapping), and so does `AgentRunner`; `LeaseTimes` implements
`AgentTaskQueue` with its leases kept (`KeptSpec`), and `CommentService` implements the
limiter of `RateLimiter`.

### Grain and correspondence

*Queue.* An action is one turn of the loop in one coroutine. `claim` is the top
of `_worker`; `handler_ends`, `deadline` and `cancel_task` end the run; `finishes`,
`attempt_fails`, `gives_up`, `shuts_down` and `walks_away` are the branches
after `await run`, each with the bookkeeping of its `finally` (`unwind`).
`Resumes(w)` says what the `await` raises: `stop()` cancels the worker, and a
worker cancelled so sees a CancelledError even if its run returned. A claim is
an action of its own even where the code goes on to it without an await; the
state in between differs from "waiting for a wake-up" in nothing a step depends
on. The event `_wake` is
left to `LeaseTimes`; the poll makes a lost wake-up harmless here. Python
3.12's `wait_for` does not swallow a cancellation; on older versions a worker
that waits could.

*Time.* In `AgentTaskQueue` and `AgentRunner` a lease is null, held or expired. It
expires by an action; the lease of a worker that is there does not, unless the
constant `Stalls` says the loop may stall for longer than a lease (or the clock
jump). `LeaseTimes` takes `Stalls = TRUE` and gives every timer its setting and a
count-down in ticks; what is due is run at most `Delay` ticks late, and a lease
lapses when it has run out and not before. Clocks that run backwards
are not modelled: tasks are numbered in the order of `created_at, rowid`.

*Runner.* `post_comment` is the route: rejection of closed threads, the append
and `on_comment`, without an await in between. `on_comment`'s own test for
closed threads can therefore not succeed and is left out. `begins`,
`progresses`, `raises` and `lands` are the stretches of a run between its
awaits; `lands` records the iteration, announces the preview and drains, in one
turn, as the code does. A turn's durable effect is the list of databases it
commits; with `TornCrashes` the process may die after any of them. Comments
are numbered by position, versions by iteration; `comment_ids` are sets because
every list the code builds is in comment order and only its last element, the
idempotency key, is singled out. System comments and the status history are not
kept. There is one thread: threads only share the workers and the order of
claims, which `AgentTaskQueue` models.

*PR flow.* `AgentRunner` has the flow as a chain of awaits that succeed or
raise; `PullRequest` opens up `open_pr` and `merge` into their requests, each of
which may be refused, or lost with or without effect (`lost`). The setting
`GITHUB_AUTO_MERGE` is read at boot, and somebody on GitHub may merge an open
PR at any time. GitHub's part, modelled from what the code expects of it, is
marked external in the map.

*Page.* An event carries the thread's version. `changes_silently` is the one
change the runner does not publish at once (the compare-and-swap of `approve`).
Frames are delivered in order and lost with their connection, a refresh reads
the server at some moment between its request and its answer.

*Site.* `CommentService` has the threads next to each other, each reduced to what
they share: statuses as far as the gate looks at them, the base a thread
starts from, its preview, the runs that read a tip when they begin and deploy a
preview when they land, and `preview_patches` as a sequence of contributions. `post_comment`
is the whole route: the limiter first, then the validators (one outcome that spends the
place in the window), then the gate, then the commits. A turn that commits
several statements may be torn between any two. A sha is a number drawn afresh: `sha()` is
taken not to collide.

*Migrations.* Each statement of a script is a commit, as `executescript` makes it, and
the version row is one more; a statement whose table, index or key is there
already raises, and so does the start. `todo` is what a process has left to do: the scripts it has not
finished, and how many statements of the first it has made. Constraints the scripts do not rely on are
left out.

The definitions called "Variant of ..." or "Variant that ..." are not part of
the model: each stands for a plausible slip in the definition below it, and the
property listed with it is there to find it.

## 3. What the runs check

Every run that passes has been exhausted by TLC within the bounds given.

| Run | Bounds | What it shows |
| --- | --- | --- |
| `QueueDelivery` | 2 tasks, 2 workers, 2 attempts, leases kept; everything else unbounded | the counters of a row (`DeliveryCounts`), `_running` (`RunsAreTracked`), exclusive delivery (`ExclusiveDelivery`, `OneRunPerTask`), that the queue implements `TaskLifecycle`, and `EveryDeliverySettles` |
| `QueueStopHangs` | 1 task | **violated**: `StopEnds` |
| `LeaseTimes` | 1 task, 2 workers; lease 4, half a second 1, poll 2, janitor 3, deadline 5, delay 3 | the heartbeat keeps the lease of a live worker (`KeptSpec`), no idle worker sleeps on work (`NobodySleepsOnWork`), orphans are taken back in time (`OrphansReclaimed`) |
| `RunnerComments` | 3 asks without a capture, on production or on the first preview, 1 cancel, 2 attempts, all faults of agent and PR service, no crash | one task with work to do (`OneActiveTask`), a status that tells of it (`StatusFollowsTask`), asks addressed once (`AskAddressedOnce`), lineage (`LineageKept`), the cutoff (`CutoffHolds`), one flow (`OneFlow`), nothing shipped that was not reviewed (`ShippedIsReviewed`), no thread stranded (`NeverStranded`), closed threads closed (`ClosedStaysClosed`) |
| `RunnerAdversity` | 2 asks, 1 crash between any two commits, 1 cancel, 1 replay, all faults of agent and PR service | `OneIterationPerKey`, `LastAskKept`, `RenouncedStayRenounced`, and no thread said to be in work that no task will finish (`NoPhantomRun`) |
| `RunnerAnswers` | 3 asks, 1 worker, all faults of the agent, 1 crash between turns, a PR service that works | `NoStrandedAsk`, `EveryAskAnswered`, `NeverFrozen` |
| `RunnerReplayedTask` | 2 asks, 1 replay | **violated**: `OneActiveTask` |
| `RunnerCancelledDrain` | 2 asks, 1 cancel | **violated**: `NoStrandedAsk` |
| `RunnerFailedResume` | 1 ask, 1 crash, a failing PR service | **violated**: `NeverStranded` |
| `LiveStream` | 2 threads, a ring of 2, 4 changes, 2 losses, 1 restart, 1 refresh at a time, answered thread by thread | `NothingSkipped`, `EventuallyCurrent` |
| `PullRequests` | 3 previews, 3 failed requests, 3 crashes, auto-merge on and off, merges by hand | `OnePR`, `MergedWasApproved`, `MergedIsNewest`, `StatusTrailsMerge` |
| `SiteThreads` | 2 users, 2 comments in 1 tick, 2 ticks, 1 crash, 2 threads, 3 comments, 4 shas, a new database or that of any earlier release | the window (`WindowHolds`, `RefusalsAreEarned`), upgrades (`ServesMigrated`, `OnlyCrashesRefuse`, `NobodyForgotten`), previews (`LineageIsWhole`, `OnlyCrashesOrphan`) |

Why the bounds are enough. Two workers are what a race between two deliveries
takes, two attempts are a retry and a last attempt, two tasks are one to run and one
to overtake it; more of each are covered by the proofs. Three comments are one in work, one that interrupts or waits, and one
that meets what became of both; a fresh task covers a comment no earlier task
covered, so there are never more tasks than comments and `Tasks = 1 ..
MaxComments` does not run out. Two flow slots are one more than there may be. A
ring of two evicts, keeps and replays. In `LeaseTimes` every timer differs from the
others, a heartbeat (every tick) may come up to the last moment of the lease, and a deadline
passes within two leases; the timers of a second task would only multiply states. Two
threads are one that closes and one that is built on its preview; four shas are
production and three previews, so a preview of one thread, its successor and one of the
other exist together. Two ticks are two windows.

`QuietFailures` (in every run of the runner) assumes that no comment, cancel or
deadline falls in the one or two turns between the end of a *failed* run and the
wake-up of its worker. Without it a task cancelled there is reported as
requeued, see section 5, and an ask that waits may be forgotten (`LastAskKept` fails for 3 asks
and 2 workers, without a crash). `OneIterationPerKey` and `RenouncedStayRenounced` are proved without it (section 4).

Symmetry among workers and among flow slots is used in safety runs only: no action compares
them. `CHECK_DEADLOCK FALSE` stands where the system may rest: a thread nobody
comments on any more, a PR flow that is done, a clock that has reached its bound.

### Fairness

- Queue: a worker that can resume resumes, an idle one polls (`poll_s`), timers
  fire, the janitor wakes (`reaper_interval_s`), an unrenewed lease runs out.
  Nothing is assumed of handlers: one may hang, and the deadline ends it.
- Runner: besides these, a dead process is restarted, and the agent, the
  deployment and the PR service answer or raise. Comments, cancels, crashes and
  deadlines are never forced.
- `LeaseTimes` states no fairness: that things happen in time is a safety property there,
  since time does not pass a deadline nobody served.
- Page: the loop serves, the browser handles what has arrived, the poll of 15 s
  fires, a refresh is answered. The stream may be lost, and never connect again.

All are weak fairness of single steps that stay enabled until taken: they are
scheduled callbacks, timers or answers.

## 4. What is proved

All proofs are for any sets of tasks (numbers), workers and users and any value of the
bounds, settings and limits; the only assumptions are those declared with the constants.

**The queue** (`AgentTaskQueueProofs`, over the lemmas of `TaskRepoProofs`).

- `TypeCorrect` and `DeliveriesCounted`: `Spec => []TypeOK` and
  `Spec => []DeliveryCounts`, stalls, crashes, replays and stops included.
- `DeliveryIsExclusive` and `RunsCanBeCancelled`: if live workers keep their
  leases (`~Stalls`), then `[]ExclusiveDelivery`, `[]RunsAreTracked` and
  `[]OneRunPerTask`.
- `QueueImplementsLifecycle`: `Spec => LifecycleSpec`, again without an assumption on
  leases.

The argument has three layers. Lemmas about each statement of `TaskRepo` say
that it turns a table that is typed and counted into another. `Typed`
(`TypeOK /\ DeliveryCounts`) is inductive by these. `ExclusiveDelivery` is not
inductive by itself: that a cancelled task has no active run holds because
`cancel_task` finds the run through `_running`, so `RunsAreTracked` must be carried
along; and a claim may overwrite `_running` only because nobody is engaged on a
queued row, which is what `ExclusiveDelivery` says. The conjunction `Exclusive`
of the three is the inductive invariant. The refinement goes row by row: `Moved` is
one edge of a task's life, `LifecycleStep` shows that every action moves each
row along an edge or not at all.

**The timers** (`LeaseTimesProofs`) remove the assumption `~Stalls`. `TimersKeepLeases`:
`TimedSpec => KeptSpec`. The inductive invariant `InTime` adds to `Exclusive` that what is left of the lease of a
worker's task is at least what is left of its heartbeat's sleep plus `Delay`; time
cannot pass the moment the heartbeat is run at the latest, so the lease never
runs out under it. The one condition on the settings is `heartbeat_interval +
Delay <= lease` (`TimesAssumption`): a heartbeat, run as late as it may be, is inside the lease.
`TimersKeepDeliveryExclusive` and `TimersKeepRunsApart` follow, and `NoWakeupIsLost` is `[]NobodySleepsOnWork`.
`OrphansAreTakenBack` is `[]OrphansReclaimed`, by the invariant `InTurn`: as long as the lease of
an orphaned row is held, its age and what is left of the lease make up a lease at most; once it
has lapsed, its age and what is left of the janitor's sleep make up a lease and an interval. A lease
runs out by a tick, and the janitor's sleep is then a tick on its way, which is why the second sum holds at the
moment the first one ends.

**The runner** (`AgentRunnerProofs`, over the lemmas of `ThreadStoreProofs`). For any number of
comments, workers, flows, attempts, crashes, cancels and replays, with torn turns or
without, with or without `QuietFailures`:

- `RunnerTypes`: `[]TypeOK`;
- `OneIterationForAKey`: `[]OneIterationPerKey`, the "exactly-once effect" of redelivery;
- `RenouncedNeverLand`: `RenouncedStayRenounced`;
- `RunnerImplementsLifecycle`: every task of the runner leads the life of `TaskLifecycle`.

`OneIterationPerKey` is a statement about the list of iterations; why it holds lies in what the
tasks cover and in what the workers remember. The inductive invariant `Sound` has three
parts. `Coherent(db)`: what two tasks cover overlaps only if one of them was cancelled, the
newest ask of a task that is not cancelled is in no other task, and no two iterations have
the same newest ask. `Minds(db, proc)`: a worker that is on a task is the one `_running` names,
remembers exactly what the row covers, holds the lease or was cancelled with its run over,
and what it is at work on no iteration has addressed; this is what makes the test of
`_execute` for a redelivery still true when the iteration is recorded several awaits later.
`Honest(db, renounced)`: a task that may still run covers nothing the user renounced. A turn commits several databases and may be torn
after any, so each statement is shown to lead from a database to one of `Later(d, its)`, the
databases that may follow d (`After`: comments grow, rows move along the life of a
task, what is covered stays so); a block of statements is a sequence over that set, and
whatever prefix of it a crash leaves is in it. One lemma for each action then shows
that it keeps `Sound`. The assumptions are those of `ThreadStore` and `AgentRunner`:
`Tasks = 1 .. MaxComments`, which is no restriction (section 3), and captures that are numbers.

*A thread nothing goes wrong with.* What `RunnerComments` checks is proved as well, for any
number of comments, workers, flows, attempts and cancels, with all faults of the agent, the
deployment and the PR service and with deadlines, but under the assumption `Smooth` that run
is made with: no crash, no replay, quiet failures. `OneTaskAtWork`, `StatusTellsOfWork`,
`AskIsAddressedOnce`, `LineageIsKept`, `CutoffIsKept`, `OneFlowAtATime`,
`ReviewedIsShipped`, `NobodyIsStranded` and `ClosedIsClosed` each state the property of that
run listed with them. The assumption is needed: the findings of section 5 are two tasks after a replay, and a thread
stranded after a crash.

None of the nine is inductive, and they lean on each other: the status follows the task only
because there is one; there is one because whoever submits another has looked at the status or
cancelled the first; a cancel finds its run through `_running`, which is `Sound`. Their
common invariant is `Calm`, next to `Sound`. `Ordered(db)`: of the tasks that are queued or running
at most one covers an ask no iteration has addressed (`Open`), the thread is in flight
exactly if there is one, and the iterations are in order and disjoint. `Attended`: every other
task that is still "running" (`Lingering`) has its work done and a worker about to take note of
it; so a task in that window is never mistaken for work. `RunInOrder`: what each
phase of a run promises; at work, its phase is the thread's status, and its parent is the
newest preview or one its asks were made on. `FlowsInOrder`: one flow at most, on
a version in `approved`, with its PR known once it is past opening it; and a thread that waits
for a PR has a flow. Two schemas, `WorkIsCalm` for a step of one run and `FlowIsCalm` for a step of a
flow, say what such a step has to show so that the rest of the process stays calm;
`InterruptIsCalm` does it for cancelling the task, `EveryStepIsCalm` collects the
actions.

*No ask is stranded.* `NoAskIsStranded` is `[]NoStrandedAsk`, for any number of comments,
workers, flows, attempts, whole crashes and replays and a PR service that may fail, as long as nobody
cancels and failures are quiet (`RunnerCancelledDrain` shows that cancels must be excluded).
`TheLastAskIsKept` is `[]LastAskKept`, for torn turns and cancels as well, with quiet failures and,
where turns may be torn, a PR service that works (`OrderlyFailures`; section 5 says what happens without).
Their common invariant is `AsksKept`, next to `Sound`. `Cared`: a *promised* ask (every one, or the newest if turns may be
torn) that some task covered and no iteration addresses is still carried by a task that is live
or dead-lettered. That takes `Taken`, because redelivery looks at the newest ask of a task
only: a task whose newest ask is addressed has all of them addressed. `Waiting`: a
promised ask no task covers has a live task before it whose handler has not drained yet, or
the thread is closed or failed; and a thread in flight has such a task or no live task at all, because a comment made then leaves
its ask to that drain. `Ready`: no preview is shown while an ask waits (what approves and reverts the thread relies on it). `Prompt`: what the
memory knows of a run that is over is true of the database, so what a worker does on
waking moves a row that is still there to move. `KeptSpending` is the schema of a turn: every commit it shows when
torn is `Cared`, and its end is `Waiting` and `Ready`. A turn that is torn leaves a dead process, to which
`Waiting` says nothing; `boot` drains, and establishes it again. `Waiting` and `Ready` hold while
nothing was renounced and no torn turn can meet a failing PR service (`Trusted`); `Cared` and `Prompt` hold without that.

*No phantom run.* `NoPhantomRuns` is `[]NoPhantomRun`, for any number of comments, workers, flows, attempts, crashes,
cancels and replays, torn turns and every fault included, with quiet failures. Its invariant is `InPlay`, next to `Sound` and
`AsksKept` (of which it needs `Prompt`). `Playing`: a thread in flight has a task whose handler is still to drain, or its process is dead and an ask waits for
the drain of the next start. `Excused`: a process has died and the user renounced something or a task is dead-lettered.
What a crash inside a turn may leave is said of the commits (`Backed`): of an interrupt, the comment that interrupted still waits until the new
task is inserted; of a sweep or a failed attempt, the row is queued or dead-lettered before the
status is written; of a landing or the repair of a redelivered task, the status leaves flight before the drain begins. `TurnInPlay` is the schema
of a turn.

**The rate limit** (`RateLimiterProofs`). `WindowNeverOverfull` and `NobodyIsRefusedEarly`. The
deque alone says nothing of the history; the invariant is that it is the newest
part of what was let in, in order, and that everything missing from it is older than the
window.

**The site** (`CommentServiceProofs`), for any users, limits, numbers of threads, shas and
crashes, and a database of any earlier release.

- `SiteWindowNeverOverfull`, `SiteRefusesNobodyEarly`: every step of the site is a step of the
  limiter or leaves it alone, so its theorems hold of the site.
- `SiteServesMigrated`, `SiteRefusesTornOnly`, `SiteForgetsNobody`: `[]ServesMigrated`,
  `[]OnlyCrashesRefuse`, `NobodyForgotten`. A process says of itself only what is left to
  do; what the database holds is the history of all processes before. The invariant `BootInv`
  says that the database is always at some position (v, i) of the scripts: all of those before
  v and i statements of v were made, and `Database(v, i, u, m)` is what they leave. A process
  that migrates is at that position too, unless an earlier one died in the middle of a script: then it starts
  v over, and is either refused by the first statement (`Stuck`, `TornScriptIsStuck`) or, where the torn
  statements are all undone or repeatable, runs it again (`RenamedRunsAgain`). That nobody is forgotten follows from what
  consecutive positions hold.
- `SitePreviewsAreWhole`, `SiteOrphansAreCrashes`: `[]LineageIsWhole`,
  `[]OnlyCrashesOrphan`. The invariant is `SiteInv`, next to `BootInv`
  (which says that the sha of production is minted before anything is served and never changes).
  `SoundStore` says of the rows: every iteration has a sha of its own, later than production, and a
  parent that is production or an older iteration; nothing is deployed for a sha that was
  not drawn; whatever a thread names as base or preview is on record. `LineageIsWhole` compares the
  patches with a recursive definition, and the prover has no induction over it. The invariant
  carries instead that the patches solve the equation which defines `ancestry`, *and* that the equation has one solution
  (`LineageSolved`): both are kept when an iteration is appended, because an
  iteration is built on older ones only (`AppendStaysUnique`). A run remembers a parent on record (`ShownIn`), however many
  other runs land before it does. `Debt`, the orphan previews and empty threads, is at most the number of
  crashes: each commit of a turn adds at most one, the last one takes it away again, and only a crash stops in between.

**The pull request** (`PullRequestProofs`). `OnePRPerThread`, `OnlyApprovedIsMerged`,
`NewestIsMerged`, `StatusNeverLeads`, and the types. The invariant `Sound` says, besides the
types: an open PR is the last one and only ones merged by hand precede it, everything on the branch
was approved (`Repository`); a flow that has written the file works on the newest
approved preview (`Matching`); approvals name previews there are (`Reviewed`); a
thread that is done had its merge, and at each stage of a flow what the stage relies on is
there (`UnderWay`).

Only safety is proved. Liveness under fairness is out of the prover's reach.
Every safety property the passing runs check is proved, except `NothingSkipped` of `LiveThreads`, which is model-checked only:
it rests on a recursive definition over sequences (`SelectSeq`), about which
nothing can be proved by induction here.

## 5. Where the code does not keep what it says

Four disagreements are runs of their own (marked in section 3):

- **Replay** (`runner.py:263`). "one active task per thread" (`runner.py:12`):
  the dead letter of a failed thread can be replayed after a new comment started another
  task; both then run.
- **Cancel past the cutoff** (`runner.py:236-259`). An ask that was told it starts "the
  next iteration automatically when this preview lands" is stranded when the run
  is cancelled: nothing drains until some later run or a restart.
- **Failing resume** (`runner.py:225`). "Never strand the thread" holds for a
  fresh flow; `resume_pr_flow` has no handler, and the thread stays at
  `pr_open` without a PR.
- **Shutdown** (`queue.py:169-170`). The flag `_stopping` is there so that no worker
  "would otherwise swallow its own cancellation and loop forever"; the
  timed-out branch is taken before it is looked at.

Others were met while modelling. They are kept out of the passing runs by the
bounds or by the wording of a property, as named:

- `fail()` "returns the resulting state" (`repos.py:248-249`), but computes it
  before an UPDATE that may match no row: a task cancelled after its run failed
  stays cancelled while the thread is set to triggered (`OutcomeIsTrue` of
  `AgentTaskQueue` states the promise; `QuietFailures` excludes the case).
- A process that dies between the landing of a preview and the worker's
  wake-up leaves an applied task in "running". The janitor of the next process requeues
  it and sets the thread, whatever its status, to triggered: an approved thread
  leaves `pr_open`, may be approved again and then has two flows
  (`runner.py:216-217`), or takes a comment into the applied task, which then
  addresses its first ask twice (`runner.py:18-19`). `OneFlow`, `ClosedStaysClosed`
  and `AskAddressedOnce` are checked without crashes for that reason, and
  `EveryAskAnswered` takes a closed thread for an answer.
- `add_iteration` commits the iteration and the thread's `preview_sha` one after the
  other; a crash in between leaves the thread on the preview before, and redelivery, which repairs "derived
  state that the crash may have left behind" (`runner.py:281-283`), does not repair this. It repairs the
  status, which is what `NoPhantomRun` is about.
- A crash between the cancel and the submit of an interrupt (`runner.py:109-115`)
  loses the asks: they stay covered by a cancelled task. `LastAskKept` promises the newest
  ask only for that reason.
- Two crashes can lose the newest ask too: one between the status of a landed preview and the drain
  after it, one between the janitor's requeue and its outcome callback. The task is queued and the thread
  says preview_ready; it is approved, the redelivery finds it closed and does not drain, the PR cannot be
  opened, and the thread is back at preview_ready with an ask nobody drains. `LastAskKept` is checked with one crash,
  and proved for any number of them where the PR service works.
- `replay_since` is said to answer None for "a fresh process" (`pubsub.py:39-41`); one that
  has published already answers with events. `NothingSkippedAfterRestart` of `LiveThreads`
  states the promise, `NothingSkipped` speaks of one process; the refresh on
  every reconnect hides the gap from the page.
- With auto-merge off, `merge()` returns without merging and the thread is
  announced as merged and rolled out ("Status trails the side effect, never leads
  it", `runner.py:190-191`). `StatusTrailsMerge` is about auto-merge on.
- "Merge did not complete. The PR stays open" (`runner.py:202-203`) is also said when only
  the answer to the merge, or the "best-effort branch cleanup" (`github.py:111`) after it, was
  lost.
- `open_pr` "never creates a duplicate" (`github.py:9-11`) unless somebody merged the
  PR by hand before its url was recorded; `OnePR` leaves those aside.
- A migration is not a transaction: a start that died in the middle of one, or before its version
  row, leaves a database on which the script fails again, at every later
  start (`database.py:36`). `OnlyCrashesRefuse` states what is left: only a torn
  start has that effect.
- "A crash in between leaves an orphan preview" (`integrations.py:53`) is so, and at most one for each
  crash (`OnlyCrashesOrphan`); the same goes for a thread without a comment.
- A thread that was created off a preview of an open thread goes on building on it after that
  thread has closed: the gate (`service.py:71`) looks at creation only.
- The limiter is per life of a process: a restart forgets the window (`service.py:14-21`).
- `GET /preview/live/<id>` does not tell the owning thread's status to the page, so
  `stale` is false there; and follow-ups to an open child thread are accepted on
  a stale page, although the widget says they are not (`Widget.tsx:36`).
- The completion of a post closes whatever composer is open (`Widget.tsx:130`), and the approval that
  "names the sha this panel is showing" names the thread's newest preview, whatever was on the
  screen when the approver looked (`ThreadPanel.tsx:142-147`).

## 6. What is not modelled

- The widget's rendering, DOM capture, and the state of a page's panels (only what the hook
  shows); validators beyond their one outcome, narration, status history, the pure reads of the
  HTTP routes, permissions beyond who may comment (a table nothing writes after the
  migrations), observability, the demo site.
- A failing database statement, which would end a worker's loop (`queue.py:194`); a PR flow
  collected by the garbage collector (`runner.py:153`); unbounded queues of dead
  subscribers (`pubsub.py:36`). These are hazards without a property. So is the gate for stale previews
  (`service.py:71`): it is modelled, query and all, but gate and creation are one turn, and a property about
  them would only say the guard again.
- The flag of the event `_wake`: on Python 3.12 (the Dockerfile's) a claim that finds nothing, the look at the
  flag and the wait are one turn, so setting and clearing it cannot race. The `wait_for` of 3.11 and before
  suspends in between; that build is not modelled.
- Several threads in `AgentRunner`: they share the workers and the order of
  claims, which `AgentTaskQueue` models, and previews, which `CommentService` models.

## 7. Plan

Done, in this order: `TaskRepo`, `TaskLifecycle`, `AgentTaskQueue` and its
proofs; `ThreadStore`, `AgentRunner`; `PullRequest`; `StatusBroker`,
`LiveThreads`; `RateLimiter` and its proofs; `Migrations`, `CommentService`; `LeaseTimes` and
its proofs; the proofs about `PullRequest`, `ThreadStore` and `AgentRunner`; those about `Migrations` and
`CommentService`.

What would come next:

1. Faults of database statements in `AgentTaskQueue`.
2. Approval from the panel: `LiveThreads` composed with `approve`, for what "the preview the
   approver reviewed" means when an event arrives under the cursor.
3. Proofs: what a single crash leaves of `OneActiveTask`.
