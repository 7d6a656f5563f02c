--------------------------- MODULE CommentService ---------------------------
(***************************************************************************)
(* The threads of one site and the previews their fixes build on:          *)
(* POST /api/comments (backend/comments/service.py) with its rate limiter, *)
(* over a process that migrates, serves and dies, next to the runs that    *)
(* deploy previews (FakePreviewDeployer, PatchRepo, add_iteration).        *)
(*                                                                         *)
(* What the runner does between two of these is AgentRunner's: here a run  *)
(* of a thread begins, and then lands or ends, at any time its status      *)
(* allows.  A thread is named by its position in the store, a preview by   *)
(* the number of its sha, its patch by the sha it was first deployed as.   *)
(*                                                                         *)
(* As in ThreadStore, an operator named ..._commits returns the stores a   *)
(* block without an await commits one after the other.                     *)
(***************************************************************************)
EXTENDS Migrations, RateLimiter

CONSTANTS
    MaxThreads,   \* bounds: threads
    MaxShas,      \*         shas drawn
    MaxComments,  \*         comments asked to be posted
    MaxTime       \*         the clock

ASSUME ServiceAssumption ==
    /\ {MaxThreads, MaxShas, MaxComments, MaxTime} \subseteq Nat
    /\ Users \subseteq {"dana", "evan", "vic"}

VARIABLES
    store,      \* threads, iterations, comments and preview_patches
    runs,       \* runs[t]: the sha the thread's run builds on, or NoRun
    posts       \* how many of MaxComments are used up

vars == <<schema, process, todo, shas, crashes, refused,
          now, events, admitted, store, runs, posts>>

NoRun == -1

InFlight == "in_flight"
Closed == {"pr_open", "done"}

EmptyStore ==
    [threads |-> <<>>,                            \* [base, status, preview, comments]
     iterations |-> <<>>,                         \* [thread, sha, parent]
     patches |-> [sha \in 1 .. MaxShas |-> <<>>]] \* preview_patches, by position

Threads == DOMAIN store.threads

-----------------------------------------------------------------------------
(* Queries and statements. *)

\* The shas of a thread's iterations.
previews_of(s, t) == {s.iterations[i].sha : i \in {j \in DOMAIN s.iterations :
                                                      s.iterations[j].thread = t}}

\* thread_for_preview_sha: the thread, if any.
owners(s, sha) == {t \in DOMAIN s.threads : sha \in previews_of(s, t)}

\* ThreadRepo.create
with_thread(s, base) ==
    [s EXCEPT !.threads = Append(@, [base |-> base, status |-> "open",
                                     preview |-> 0, comments |-> 0])]

\* CommentRepo.append
with_comment(s, t) == [s EXCEPT !.threads[t].comments = @ + 1]

with_status(s, t, status) == [s EXCEPT !.threads[t].status = status]

\* PatchRepo.put: one commit for each patch of the lineage.
put_commits(s, sha, patches) ==
    [n \in DOMAIN patches |-> [s EXCEPT !.patches[sha] = SubSeq(patches, 1, n)]]

\* ThreadRepo.add_iteration: the row, then the thread's preview.
add_iteration_commits(s, t, sha, parent) ==
    LET s1 == [s EXCEPT !.iterations =
                    Append(@, [thread |-> t, sha |-> sha, parent |-> parent])]
    IN <<s1, [s1 EXCEPT !.threads[t].preview = sha]>>

\* FakePreviewDeployer.deploy: "the child preview carries all ancestor
\* patches".
lineage(s, parent, sha) == Append(s.patches[parent], sha)

\* Variant that records the iteration before it is deployed.
landing_commits_unsafe(s, t, sha, parent) ==
    LET recorded == add_iteration_commits(s, t, sha, parent)
    IN recorded \o put_commits(Last(recorded), sha, lineage(s, parent, sha))

\* The deployer's wait is over: the patches are put, the iteration is
\* recorded, the thread announces its preview; no await in between.
landing_commits(s, t, sha, parent) ==
    LET put == put_commits(s, sha, lineage(s, parent, sha))
        recorded == add_iteration_commits(Last(put), t, sha, parent)
    IN put \o Append(recorded, with_status(Last(recorded), t, "preview_ready"))

-----------------------------------------------------------------------------
Init ==
    /\ BootInit
    /\ LimiterInit
    /\ store = EmptyStore
    /\ runs = [t \in 1 .. MaxThreads |-> NoRun]
    /\ posts = 0

\* The memory of a process that has died: its runs and its limiter.
memory_lost ==
    /\ runs' = [t \in 1 .. MaxThreads |-> NoRun]
    /\ forgotten

\* One turn of the loop makes all its commits in order ...
Commit(commits) ==
    /\ store' = Last(commits)
    /\ UNCHANGED <<process, todo, crashes, refused>>

\* ... or the process dies having made some but not all of them.
Torn(commits) ==
    /\ crashes < MaxCrashes
    /\ \E k \in 1 .. Len(commits) - 1 : store' = commits[k]
    /\ dies
    /\ memory_lost

start_up ==
    /\ start \/ migrates \/ refuses \/ serves
    /\ UNCHANGED <<now, events, admitted, store, runs, posts>>

crash ==
    /\ process # "down" /\ crashes < MaxCrashes
    /\ dies
    /\ memory_lost
    /\ UNCHANGED <<schema, shas, store, posts>>

time_passes ==
    /\ process = "serving" /\ now < MaxTime
    /\ tick
    /\ UNCHANGED <<schema, process, todo, shas, crashes, refused, store, runs, posts>>

-----------------------------------------------------------------------------
(* POST /api/comments *)

\* auth and require_commenter
may_comment(u) ==
    u \in DOMAIN schema.users /\ schema.users[u] \in {"comment", "approve"}

\* The shas of the pages people comment on: production, and what was announced.
shown == {schema.main_sha} \cup {store.iterations[i].sha : i \in DOMAIN store.iterations}

\* Variant that creates the thread before it looks at the base's owner.
new_thread_commits_ungated(base) ==
    LET s1 == with_thread(store, base)
    IN IF \E t \in owners(store, base) : store.threads[t].status \in Closed
       THEN {<<s1>>} ELSE {<<s1, with_comment(s1, Len(s1.threads))>>}

\* No thread starts off the preview of a closed one (409).
new_thread_commits(base) ==
    LET s1 == with_thread(store, base)
    IN IF \E t \in owners(store, base) : store.threads[t].status \in Closed
       THEN {} ELSE {<<s1, with_comment(s1, Len(s1.threads))>>}

\* No comment goes to a closed thread (409), or to one that is not there (404).
follow_up_commits(t) ==
    IF t \notin Threads \/ store.threads[t].status \in Closed
    THEN {} ELSE {<<with_comment(store, t)>>}

\* What an accepted request may commit; the base is the sha of the capture, or
\* production's where there is none.
accepted_commits ==
    UNION ({follow_up_commits(t) : t \in 1 .. MaxThreads}
           \cup {new_thread_commits(base) :
                    base \in IF Len(store.threads) < MaxThreads THEN shown ELSE {}})

\* A request that stores nothing leaves all but the limiter alone.
stores_nothing == UNCHANGED <<process, todo, crashes, refused, store, runs>>

\* A place in the window is spent on a request that is turned away after all:
\* its text, target or capture is not valid (400), or there is a 404 or a 409.
turned_away(u) == allows(u) /\ stores_nothing

\* 429, another refusal, or a comment that is stored.
post_comment(u) ==
    /\ process = "serving" /\ posts < MaxComments /\ may_comment(u)
    /\ posts' = posts + 1
    /\ \/ rejects(u) /\ stores_nothing
       \/ turned_away(u)
       \/ \E commits \in accepted_commits :
            \/ allows(u) /\ Commit(commits) /\ UNCHANGED runs
            \/ ~full(pruned(u)) /\ Torn(commits)
    /\ UNCHANGED <<schema, shas>>

-----------------------------------------------------------------------------
(* What the runner does with the threads. *)

tip(t) ==
    IF store.threads[t].preview # 0 THEN store.threads[t].preview ELSE store.threads[t].base

Undisturbed == UNCHANGED <<schema, now, events, admitted, posts>>

\* A run builds on the tip, or on the preview one of its asks was made on.
begins(t) ==
    /\ process = "serving" /\ runs[t] = NoRun
    /\ store.threads[t].comments > 0 /\ store.threads[t].status \notin Closed
    /\ \E parent \in {tip(t)} \cup previews_of(store, t) :
            runs' = [runs EXCEPT ![t] = parent]
    /\ store' = with_status(store, t, InFlight)
    /\ UNCHANGED <<process, todo, shas, crashes, refused>>
    /\ Undisturbed

\* The wait in deploy() is over.
lands(t) ==
    /\ runs[t] # NoRun /\ shas < MaxShas
    /\ shas' = shas + 1
    /\ LET commits == landing_commits(store, t, shas + 1, runs[t])
       IN \/ Commit(commits) /\ runs' = [runs EXCEPT ![t] = NoRun]
             /\ UNCHANGED <<now, events, admitted>>
          \/ Torn(commits)
    /\ UNCHANGED <<schema, posts>>

\* The run is interrupted, runs out of time, fails, or is cancelled, or a
\* redelivery finds that it landed.
ends(t) ==
    /\ process = "serving"
    /\ store.threads[t].status = InFlight
    /\ runs' = [runs EXCEPT ![t] = NoRun]
    /\ store' = with_status(store, t,
                    IF previews_of(store, t) = {} THEN "open" ELSE "preview_ready")
    /\ UNCHANGED <<process, todo, shas, crashes, refused>>
    /\ Undisturbed

\* An approver opens the PR; the PR is merged; it could not be opened.
moves_on(t) ==
    /\ process = "serving"
    /\ \E step \in {<<"preview_ready", "pr_open">>, <<"pr_open", "done">>,
                    <<"pr_open", "preview_ready">>} :
        /\ store.threads[t].status = step[1]
        /\ store' = with_status(store, t, step[2])
    /\ UNCHANGED <<process, todo, shas, crashes, refused, runs>>
    /\ Undisturbed

Next ==
    \/ start_up \/ crash \/ time_passes
    \/ \E u \in Users : post_comment(u)
    \/ \E t \in Threads : begins(t) \/ lands(t) \/ ends(t) \/ moves_on(t)

Spec == Init /\ [][Next]_vars

-----------------------------------------------------------------------------
(* Properties. *)

Recorded == {store.iterations[i].sha : i \in DOMAIN store.iterations}

\* The iteration whose preview the i-th was built on, if that was recorded.
older(its, i) == {j \in 1 .. i - 1 : its[j].sha = its[i].parent}

built_on(its, i, chain) ==
    Append(IF older(its, i) = {} THEN <<>> ELSE chain[CHOOSE j \in older(its, i) : TRUE],
           its[i].sha)

\* What a preview is built of: the patches of the iterations that led to it,
\* across threads, down to a version that is none, oldest first.
ancestry ==
    LET chain[i \in DOMAIN store.iterations] == built_on(store.iterations, i, chain)
    IN chain

\* "the child preview carries all ancestor patches": exactly those, whatever
\* runs of other threads land in between and wherever the process dies.  It
\* holds between the commits of a turn too, where the routes that render a
\* preview may read: they run in threads of their own.
LineageIsWhole ==
    \A i \in DOMAIN store.iterations : store.patches[store.iterations[i].sha] = ancestry[i]

\* "A crash in between leaves an orphan preview": only a crash does, and one
\* at most, and only a crash leaves a thread without a comment.
OnlyCrashesOrphan ==
    LET orphans == {sha \in 1 .. MaxShas : store.patches[sha] # <<>> /\ sha \notin Recorded}
        empty == {t \in Threads : store.threads[t].comments = 0}
    IN Cardinality(orphans) + Cardinality(empty) <= crashes
=============================================================================
