------------------------- MODULE AgentRunnerProofs -------------------------
(***************************************************************************)
(* Proofs about AgentRunner, for any number of comments, workers, flows,   *)
(* attempts, crashes, cancels and replays, with or without torn turns; the *)
(* part from Smooth on for a thread without crashes and replays, the last  *)
(* parts, from Promised on, for failures that meet their worker before the *)
(* user does.                                                              *)
(***************************************************************************)
EXTENDS AgentRunner, ThreadStoreProofs

USE BoundsAssumption

-----------------------------------------------------------------------------
(* The memory of the process and the database. *)

Busy == ActivePhases \cup EndedPhases

AtWork == {"analyzing", "coding", "deploying"}

\* A worker that is on a task has its lease, or the task was cancelled and its
\* run is over.
Delivered(r, w, phase) ==
    \/ r.state = "running" /\ r.claimed_by = w /\ r.lease = "held"
    \/ r.state = "cancelled" /\ phase \notin ActivePhases

\* The memory m fits the database d: a worker that is on a task is the one
\* _running names, runs what the task covers, and what it is at work on no
\* iteration has addressed yet.
Minds(d, m) ==
    /\ \A w \in Workers : m.phase[w] \in Busy =>
        /\ m.held[w] \in Tasks /\ m.running[m.held[w]] = w
        /\ m.ids[w] = d.comment_ids[m.held[w]]
        /\ Delivered(d.rows[m.held[w]], w, m.phase[w])
        /\ m.phase[w] \in AtWork => ~already_applied(d, m.ids[w])
    /\ \A t \in Tasks : m.running[t] # NoWorker =>
        m.phase[m.running[t]] \in Busy /\ m.held[m.running[t]] = t

\* Nothing the user renounced is in a task that may still run.
Honest(d, R) ==
    /\ R \subseteq covered_comment_ids(d)
    /\ \A t \in Tasks : ~Cancelled(d, t) => d.comment_ids[t] \cap R = {}

Sound ==
    /\ TypeOK
    /\ Coherent(db) /\ Minds(db, proc) /\ Honest(db, renounced)

\* One step: the database follows from the one before it, and but for the run
\* that lands no iteration comes to it.
LandedOf(w) ==
    Append(db.iterations, [parent |-> proc.parent[w], comment_ids |-> proc.ids[w]])

Followed ==
    \/ db' \in Later(db, db.iterations)
    \/ \E w \in Workers : proc.phase[w] = "deploying" /\ db' \in Later(db, LandedOf(w))

Spent == [crashes : Nat, cancels : Nat, replays : Nat]

-----------------------------------------------------------------------------
(* Memories. *)

LEMMA DeadIsTyped == Dead \in Process
BY DEF Dead, Process, NoFlow, FlowStages

LEMMA DeadMinds == ASSUME NEW d PROVE Minds(d, Dead)
BY DEF Dead, Minds, Busy, ActivePhases, EndedPhases

LEMMA SoundInit == Init => Sound
<1> SUFFICES ASSUME Init PROVE Sound
  OBVIOUS
<1>1. Coherent(db)
  BY NewThreadIsCoherent DEF Init
<1>2. Minds(db, proc)
  BY DeadMinds DEF Init
<1>3. Honest(db, renounced)
  BY DEF Init, Honest
<1>4. TypeOK
  BY <1>1, DeadIsTyped DEF Init, TypeOK, Coherent
<1> QED BY <1>1, <1>2, <1>3, <1>4 DEF Sound

\* A memory with other flows is as good.
LEMMA FlowsMind ==
    ASSUME NEW d, NEW m \in Process, Minds(d, m), NEW f \in Flows,
           NEW at \in FlowStages, NEW sha \in Nat
    PROVE  with_flow(m, f, at, sha) \in Process /\ Minds(d, with_flow(m, f, at, sha))
<1> DEFINE flow == [at |-> at, sha |-> sha]
           n == with_flow(m, f, at, sha)
<1>1. flow \in [at : FlowStages, sha : Nat]
  OBVIOUS
<1> HIDE DEF flow
<1>2. /\ n \in Process
      /\ n.phase = m.phase /\ n.held = m.held /\ n.running = m.running /\ n.ids = m.ids
  BY <1>1 DEF with_flow, Process, flow
<1> HIDE DEF n
<1>3. Minds(d, n)
  BY <1>2 DEF Minds
<1> QED BY <1>2, <1>3 DEF n

\* A step that leaves the rows of the tasks the workers are on leaves the
\* memory fitting.
LEMMA MindsFollow ==
    ASSUME NEW d, NEW m, Minds(d, m), NEW e \in Later(d, d.iterations),
           \A w \in Workers : m.phase[w] \in Busy => e.rows[m.held[w]] = d.rows[m.held[w]]
    PROVE  Minds(e, m)
<1>1. addressed(e) = addressed(d)
  BY DEF Later, addressed
<1>2. ASSUME NEW w \in Workers, m.phase[w] \in Busy
      PROVE  e.comment_ids[m.held[w]] = d.comment_ids[m.held[w]]
  BY <1>2 DEF Minds, Delivered, Later, After
<1> QED BY <1>1, <1>2 DEF Minds, already_applied

LEMMA KeepsMinds ==
    ASSUME NEW d, NEW m, Minds(d, m), NEW e \in Later(d, d.iterations), KeepsRows(d, e)
    PROVE  Minds(e, m)
<1>1. \A w \in Workers : m.phase[w] \in Busy => e.rows[m.held[w]] = d.rows[m.held[w]]
  BY DEF Minds, Delivered, KeepsRows
<1> QED BY <1>1, MindsFollow

\* A run that goes on, or ends.
LEMMA PhaseMinds ==
    ASSUME NEW d, NEW m \in Process, Minds(d, m), NEW w \in Workers, m.phase[w] \in Busy,
           NEW p \in Busy, p \in ActivePhases => m.phase[w] \in ActivePhases,
           p \in AtWork => ~already_applied(d, m.ids[w]),
           NEW n, n.phase = [m.phase EXCEPT ![w] = p],
           n.held = m.held, n.running = m.running, n.ids = m.ids
    PROVE  Minds(d, n)
<1>1. /\ n.phase[w] = p
      /\ \A v \in Workers : v # w => n.phase[v] = m.phase[v]
  BY DEF Process
<1>2. ASSUME NEW v \in Workers, n.phase[v] \in Busy
      PROVE  /\ n.held[v] \in Tasks /\ n.running[n.held[v]] = v
             /\ n.ids[v] = d.comment_ids[n.held[v]]
             /\ Delivered(d.rows[n.held[v]], v, n.phase[v])
             /\ n.phase[v] \in AtWork => ~already_applied(d, n.ids[v])
  <2>1. CASE v = w
    BY <1>1, <2>1 DEF Minds, Delivered
  <2>2. CASE v # w
    BY <1>1, <1>2, <2>2 DEF Minds
  <2> QED BY <2>1, <2>2
<1>3. ASSUME NEW t \in Tasks, n.running[t] # NoWorker
      PROVE  n.phase[n.running[t]] \in Busy /\ n.held[n.running[t]] = t
  <2>1. m.running[t] \in Workers
    BY <1>3 DEF Process
  <2> QED BY <1>1, <1>3, <2>1 DEF Minds
<1> QED BY <1>2, <1>3 DEF Minds

-----------------------------------------------------------------------------
(* Turns. *)

\* What a turn leaves, whether it is torn or not.
LEMMA TurnKeeps ==
    ASSUME NEW its, NEW commits \in Seq(Later(db, its)),
           NEW after \in Process, NEW spent \in Spent,
           TurnSpending(commits, after, spent),
           End(db, commits) \in Later(db, its), Minds(End(db, commits), after)
    PROVE  /\ db' \in Later(db, its)
           /\ proc' \in Process /\ Minds(db', proc')
           /\ used' \in Spent
<1>1. CASE /\ db' = IF commits = <<>> THEN db ELSE Last(commits)
           /\ proc' = after /\ used' = spent
  BY <1>1 DEF End
<1>2. CASE /\ \E k \in 1 .. Len(commits) - 1 : db' = commits[k]
           /\ proc' = Dead
           /\ used' = [spent EXCEPT !.crashes = @ + 1]
  <2>1. PICK k \in 1 .. Len(commits) - 1 : db' = commits[k]
    BY <1>2
  <2>2. k \in 1 .. Len(commits)
    OBVIOUS
  <2>3. db' \in Later(db, its)
    BY <2>1, <2>2
  <2>4. used' \in Spent
    BY <1>2 DEF Spent
  <2> QED BY <1>2, <2>3, <2>4, DeadIsTyped, DeadMinds
<1> QED BY <1>1, <1>2 DEF TurnSpending

\* What was renounced stays renounced, whatever follows.
LEMMA HonestAfter ==
    ASSUME NEW d, NEW R, Honest(d, R), NEW e, After(d, e)
    PROVE  Honest(e, R)
<1>1. R \subseteq covered_comment_ids(e)
  BY DEF Honest, After
<1>2. ASSUME NEW t \in Tasks, ~Cancelled(e, t), NEW c \in e.comment_ids[t], c \in R
      PROVE  FALSE
  BY <1>2 DEF After, Clean, Honest
<1> QED BY <1>1, <1>2 DEF Honest

\* A step that lands nothing.
LEMMA StepIsSound ==
    ASSUME Sound, db' \in Later(db, db.iterations),
           proc' \in Process, Minds(db', proc'), used' \in Spent,
           Honest(db', renounced'),
           renounced' \subseteq Nat, approved' \subseteq Nat, shipped' \subseteq Nat
    PROVE  Sound' /\ Followed
<1>1. Coherent(db')
  BY DEF Later
<1>2. TypeOK'
  BY <1>1 DEF TypeOK, Spent, Coherent
<1> QED BY <1>1, <1>2 DEF Sound, Followed

\* A turn that renounces nothing and lands nothing.
LEMMA SpendingIsSound ==
    ASSUME Sound, NEW commits \in Seq(Later(db, db.iterations)),
           NEW after \in Process, NEW spent \in Spent, TurnSpending(commits, after, spent),
           Minds(End(db, commits), after),
           renounced' = renounced, approved' \subseteq Nat, shipped' \subseteq Nat
    PROVE  Sound' /\ Followed
<1>1. End(db, commits) \in Later(db, db.iterations)
  BY LaterSelf, EndIsLater DEF Sound
<1>2. /\ db' \in Later(db, db.iterations)
      /\ proc' \in Process /\ Minds(db', proc')
      /\ used' \in Spent
  BY <1>1, TurnKeeps
<1>3. Honest(db', renounced') /\ renounced' \subseteq Nat
  BY <1>2, HonestAfter DEF Sound, TypeOK, Later
<1> QED BY <1>2, <1>3, StepIsSound

LEMMA TurnIsSound ==
    ASSUME Sound, NEW commits \in Seq(Later(db, db.iterations)),
           NEW after \in Process, Turn(commits, after),
           Minds(End(db, commits), after),
           renounced' = renounced, approved' \subseteq Nat, shipped' \subseteq Nat
    PROVE  Sound' /\ Followed
BY SpendingIsSound DEF Turn, Sound, TypeOK, Spent

\* A turn that leaves the tasks' rows alone, but for tasks it inserts.
LEMMA QuietTurn ==
    ASSUME Sound, NEW commits \in Seq(Later(db, db.iterations)),
           KeepsRows(db, End(db, commits)),
           NEW after \in Process, Minds(db, after), Turn(commits, after),
           renounced' = renounced, approved' \subseteq Nat, shipped' \subseteq Nat
    PROVE  Sound' /\ Followed
<1>1. End(db, commits) \in Later(db, db.iterations)
  BY LaterSelf, EndIsLater DEF Sound
<1>2. Minds(End(db, commits), after)
  BY <1>1, KeepsMinds
<1> QED BY <1>2, TurnIsSound

\* What actions without or with one statement commit.
LEMMA NoCommit ==
    ASSUME Sound
    PROVE  /\ <<>> \in Seq(Later(db, db.iterations))
           /\ KeepsRows(db, End(db, <<>>))
BY DEF End, KeepsRows

LEMMA OneCommit ==
    ASSUME NEW its, NEW e \in Later(db, its)
    PROVE  <<e>> \in Seq(Later(db, its)) /\ End(db, <<e>>) = e
BY DEF End, Last

LEMMA TwoCommits ==
    ASSUME NEW its, NEW e \in Later(db, its), NEW f \in Later(db, its)
    PROVE  <<e, f>> \in Seq(Later(db, its)) /\ End(db, <<e, f>>) = f
BY DEF End, Last

LEMMA StatusCommit ==
    ASSUME Sound, NEW status \in Statuses
    PROVE  /\ <<set_status(db, status)>> \in Seq(Later(db, db.iterations))
           /\ KeepsRows(db, End(db, <<set_status(db, status)>>))
<1>1. db \in Later(db, db.iterations)
  BY LaterSelf DEF Sound
<1>2. /\ set_status(db, status) \in Later(db, db.iterations)
      /\ SameWork(db, set_status(db, status))
  BY <1>1, LaterStatus
<1> QED BY <1>2, OneCommit DEF SameWork, KeepsRows

LEMMA FlowTurn ==
    ASSUME Sound, NEW commits \in Seq(Later(db, db.iterations)),
           KeepsRows(db, End(db, commits)),
           NEW f \in Flows, NEW at \in FlowStages, NEW sha \in Nat,
           Turn(commits, with_flow(proc, f, at, sha)),
           renounced' = renounced, approved' \subseteq Nat, shipped' \subseteq Nat
    PROVE  Sound' /\ Followed
<1>1. with_flow(proc, f, at, sha) \in Process /\ Minds(db, with_flow(proc, f, at, sha))
  BY FlowsMind DEF Sound, TypeOK
<1> QED BY <1>1, QuietTurn

-----------------------------------------------------------------------------
(* The PR flow. *)

LEMMA FlowIsSound ==
    ASSUME Sound, NEW f \in Flows, flow_step(f)
    PROVE  Sound' /\ Followed
<1> DEFINE sha == proc.flows[f].sha
<1>1. /\ sha \in Nat /\ db.preview_sha \in Nat /\ db.pr_url \in Nat
      /\ db \in Database
      /\ approved \subseteq Nat /\ shipped \subseteq Nat
  BY DEF Sound, TypeOK, Process, Database
<1>2. db \in Later(db, db.iterations)
  BY LaterSelf DEF Sound
<1> HIDE DEF sha
<1>3. ASSUME NEW at \in FlowStages, NEW v \in Nat, Turn(<<>>, with_flow(proc, f, at, v)),
             UNCHANGED <<renounced, approved, shipped>>
      PROVE  Sound' /\ Followed
  BY <1>1, <1>3, NoCommit, FlowTurn
<1>4. {"none", "opening", "reopening", "ci", "merging"} \subseteq FlowStages
  BY DEF FlowStages
<1>5. {"merged", "done", "preview_ready"} \subseteq Statuses
  BY DEF Statuses, ClosedStatuses
<1>6. CASE flow_opens(f)
  BY <1>1, <1>3, <1>4, <1>6 DEF flow_opens
<1>7. CASE flow_resumes(f)
  <2>1. CASE db.status = "merged" /\ Turn(<<set_status(db, "done")>>, flow_ends(f))
    BY <1>1, <1>4, <1>5, <1>7, <2>1, StatusCommit, FlowTurn DEF flow_ends, flow_resumes
  <2>2. CASE \/ Turn(<<>>, with_flow(proc, f, "ci", db.pr_url))
             \/ Turn(<<>>, with_flow(proc, f, "reopening", db.preview_sha))
             \/ Turn(<<>>, flow_ends(f))
    BY <1>1, <1>3, <1>4, <1>7, <2>2 DEF flow_ends, flow_resumes
  <2> QED BY <1>7, <2>1, <2>2 DEF flow_resumes
<1>8. CASE flow_opened(f)
  <2>1. set_pr_url(db, sha) \in Database /\ SameWork(db, set_pr_url(db, sha))
    BY <1>1, SetPrUrl
  <2>2. set_pr_url(db, sha) \in Later(db, db.iterations)
    BY <1>2, <2>1, LaterSameWork
  <2>3. KeepsRows(db, set_pr_url(db, sha))
    BY <2>1 DEF SameWork, KeepsRows
  <2> QED BY <1>1, <1>4, <1>8, <2>2, <2>3, OneCommit, FlowTurn DEF flow_opened, sha
<1>9. CASE flow_not_opened(f)
  <2>1. approval_reverted(db) = set_status(db, "preview_ready") \/ approval_reverted(db) = db
    BY DEF approval_reverted, transition
  <2>2. /\ <<approval_reverted(db)>> \in Seq(Later(db, db.iterations))
        /\ KeepsRows(db, End(db, <<approval_reverted(db)>>))
    BY <1>2, <1>5, <2>1, StatusCommit, OneCommit DEF KeepsRows
  <2> QED BY <1>1, <1>3, <1>4, <1>9, <2>2, FlowTurn DEF flow_not_opened, flow_ends
<1>10. CASE flow_merges(f)
  BY <1>1, <1>3, <1>4, <1>10 DEF flow_merges, sha
<1>11. CASE flow_stays_open(f)
  BY <1>1, <1>3, <1>4, <1>11 DEF flow_stays_open, flow_ends
<1>12. CASE flow_merged(f)
  <2> DEFINE d1 == set_status(db, "merged")
             d2 == set_status(d1, "done")
  <2>1. d1 \in Later(db, db.iterations) /\ SameWork(db, d1)
    BY <1>2, <1>5, LaterStatus
  <2> HIDE DEF d1
  <2>2. d2 \in Later(db, db.iterations) /\ SameWork(d1, d2)
    BY <1>5, <2>1, LaterStatus
  <2>3. KeepsRows(db, d2)
    BY <2>1, <2>2 DEF SameWork, KeepsRows
  <2>4. shipped' \subseteq Nat /\ approved' = approved /\ renounced' = renounced
    BY <1>1, <1>12 DEF flow_merged, sha
  <2>5. Turn(<<d1, d2>>, with_flow(proc, f, "none", 0))
    BY <1>12 DEF flow_merged, flow_ends, d1
  <2> HIDE DEF d2
  <2> QED BY <1>1, <1>4, <2>1, <2>2, <2>3, <2>4, <2>5, TwoCommits, FlowTurn
<1> QED BY <1>6, <1>7, <1>8, <1>9, <1>10, <1>11, <1>12 DEF flow_step

LEMMA ApproveIsSound ==
    ASSUME Sound, NEW sha \in DOMAIN db.iterations, approve(sha)
    PROVE  Sound' /\ Followed
<1>1. finds_row(db, "preview_ready") => transition(db, "preview_ready", "pr_open") = set_status(db, "pr_open")
  BY DEF transition
<1>2. "pr_open" \in Statuses /\ "approved" \in FlowStages
  BY DEF Statuses, ClosedStatuses, FlowStages
<1>3. approved' \subseteq Nat /\ shipped' \subseteq Nat /\ renounced' = renounced
  <2>1. sha \in Nat
    BY DEF Sound, TypeOK, Database
  <2> QED BY <2>1 DEF approve, Sound, TypeOK
<1>4. PICK f \in Flows : Turn(<<set_status(db, "pr_open")>>, with_flow(proc, f, "approved", 0))
  BY <1>1 DEF approve, FreeFlows
<1> QED BY <1>2, <1>3, <1>4, StatusCommit, FlowTurn

-----------------------------------------------------------------------------
(* The process. *)

\* A started memory: nobody is on anything yet.
LEMMA BootIsSound ==
    ASSUME Sound, boot
    PROVE  Sound' /\ Followed
<1> DEFINE started == [Dead EXCEPT !.up = TRUE, !.phase = [w \in Workers |-> "idle"]]
           commits == IF /\ db.status \notin ClosedStatuses \cup {"failed"}
                         /\ active_for_thread(db) = NoTask
                      THEN drain_pending_commits(db) ELSE <<>>
<1>1. started \in Process
  BY DeadIsTyped DEF Process
<1>2. started.phase = [w \in Workers |-> "idle"] /\ started.running = Dead.running
  BY DEF Dead
<1>3. Minds(db, started)
  <2> HIDE DEF started
  <2> QED BY <1>2 DEF Minds, Busy, ActivePhases, EndedPhases, Dead
<1>4. renounced' = renounced /\ approved' \subseteq Nat /\ shipped' \subseteq Nat
  BY DEF boot, Sound, TypeOK
<1>5. CASE \E f \in Flows : Turn(<<>>, with_flow(started, f, "resuming", 0))
  <2> HIDE DEF started
  <2>1. PICK f \in Flows : Turn(<<>>, with_flow(started, f, "resuming", 0))
    BY <1>5
  <2>2. /\ with_flow(started, f, "resuming", 0) \in Process
        /\ Minds(db, with_flow(started, f, "resuming", 0))
    BY <1>1, <1>3, FlowsMind DEF FlowStages
  <2> QED BY <1>4, <2>1, <2>2, NoCommit, QuietTurn
<1>6. CASE Turn(commits, started)
  <2> HIDE DEF started
  <2>1. db \in Later(db, db.iterations)
    BY LaterSelf DEF Sound
  <2>2. commits \in Seq(Later(db, db.iterations)) /\ KeepsRows(db, End(db, commits))
    BY <2>1, DrainCommits, NoCommit
  <2> HIDE DEF commits
  <2> QED BY <1>1, <1>3, <1>4, <1>6, <2>2, QuietTurn
<1> QED BY <1>5, <1>6 DEF boot

LEMMA CrashIsSound ==
    ASSUME Sound, crash
    PROVE  Sound' /\ Followed
<1>1. /\ db' = db /\ proc' = Dead /\ renounced' = renounced
      /\ approved' = approved /\ shipped' = shipped
      /\ used' \in Spent
  BY DEF crash, Sound, TypeOK, Spent
<1>2. db \in Later(db, db.iterations)
  BY LaterSelf DEF Sound
<1>3. Coherent(db') /\ Minds(db', proc') /\ Honest(db', renounced')
  BY <1>1, DeadMinds DEF Sound
<1>4. TypeOK'
  BY <1>1, DeadIsTyped DEF Sound, TypeOK, Spent
<1> QED BY <1>1, <1>2, <1>3, <1>4 DEF Sound, Followed

-----------------------------------------------------------------------------
(* Runs that go on or end, with nothing landed. *)

\* The memory in which run w has reached phase p.
LEMMA PhaseTurn ==
    ASSUME Sound, NEW commits \in Seq(Later(db, db.iterations)),
           KeepsRows(db, End(db, commits)),
           NEW w \in Workers, proc.phase[w] \in Busy,
           NEW p \in Busy, p \in ActivePhases => proc.phase[w] \in ActivePhases,
           p \in AtWork => ~already_applied(db, proc.ids[w]),
           NEW after \in Process, after.phase = [proc.phase EXCEPT ![w] = p],
           after.held = proc.held, after.running = proc.running, after.ids = proc.ids,
           Turn(commits, after), UNCHANGED <<renounced, approved, shipped>>
    PROVE  Sound' /\ Followed
<1>1. Minds(db, after)
  BY PhaseMinds DEF Sound, TypeOK
<1>2. renounced' = renounced /\ approved' \subseteq Nat /\ shipped' \subseteq Nat
  BY DEF Sound, TypeOK
<1> QED BY <1>1, <1>2, QuietTurn

LEMMA BeginsIsSound ==
    ASSUME Sound, NEW w \in Workers, begins(w)
    PROVE  Sound' /\ Followed
<1> DEFINE parent == resolve_parent_sha(db, proc.ids[w])
           after(p) == [proc EXCEPT !.phase[w] = p, !.parent[w] = parent]
<1>1. PICK p \in {"analyzing", "error", "vanished"} :
            Turn(<<set_status(db, "analyzing")>>, after(p))
  BY DEF begins
<1>2. parent \in Nat
  BY DEF resolve_parent_sha, Sound, TypeOK, Database
<1>3. p \in Busy
  BY DEF Busy, ActivePhases, EndedPhases
<1> HIDE DEF parent
<1>4. /\ after(p) \in Process /\ after(p).phase = [proc.phase EXCEPT ![w] = p]
      /\ after(p).held = proc.held /\ after(p).running = proc.running
      /\ after(p).ids = proc.ids
  BY <1>2, <1>3 DEF Process, Sound, TypeOK, Busy
<1> HIDE DEF after
<1>5. /\ proc.phase[w] \in Busy /\ proc.phase[w] \in ActivePhases
      /\ ~already_applied(db, proc.ids[w])
      /\ UNCHANGED <<renounced, approved, shipped>>
  BY DEF begins, Busy, ActivePhases
<1>6. "analyzing" \in Statuses
  BY DEF Statuses, InFlightStatuses
<1> QED BY <1>1, <1>3, <1>4, <1>5, <1>6, StatusCommit, PhaseTurn

LEMMA ProgressesIsSound ==
    ASSUME Sound, NEW w \in Workers, progresses(w)
    PROVE  Sound' /\ Followed
<1> DEFINE after(p) == [proc EXCEPT !.phase[w] = p]
<1>1. PICK p \in {"coding", "deploying"} :
            /\ proc.phase[w] \in AtWork
            /\ Turn(<<set_status(db, p)>>, after(p))
  BY DEF progresses, AtWork
<1>2. p \in Busy /\ p \in Statuses
  BY DEF Busy, ActivePhases, Statuses, InFlightStatuses
<1>3. /\ after(p) \in Process /\ after(p).phase = [proc.phase EXCEPT ![w] = p]
      /\ after(p).held = proc.held /\ after(p).running = proc.running
      /\ after(p).ids = proc.ids
  BY <1>2 DEF Process, Sound, TypeOK, Busy
<1> HIDE DEF after
<1>4. proc.phase[w] \in ActivePhases /\ proc.phase[w] \in Busy
  BY <1>1 DEF AtWork, ActivePhases, Busy
<1>5. ~already_applied(db, proc.ids[w])
  BY <1>1, <1>4 DEF Sound, Minds
<1>6. UNCHANGED <<renounced, approved, shipped>>
  BY DEF progresses
<1> QED BY <1>1, <1>2, <1>3, <1>4, <1>5, <1>6, StatusCommit, PhaseTurn

LEMMA RaisesIsSound ==
    ASSUME Sound, NEW w \in Workers, raises(w)
    PROVE  Sound' /\ Followed
<1> DEFINE after == [proc EXCEPT !.phase[w] = "error"]
<1>1. /\ after \in Process /\ after.phase = [proc.phase EXCEPT ![w] = "error"]
      /\ after.held = proc.held /\ after.running = proc.running /\ after.ids = proc.ids
  BY DEF Process, Sound, TypeOK, EndedPhases
<1>2. Turn(<<>>, after) /\ UNCHANGED <<renounced, approved, shipped>>
  BY DEF raises
<1>3. proc.phase[w] \in Busy /\ "error" \in Busy /\ "error" \notin ActivePhases \cup AtWork
  BY DEF raises, Busy, ActivePhases, EndedPhases, AtWork
<1> HIDE DEF after
<1> QED BY <1>1, <1>2, <1>3, NoCommit, PhaseTurn

LEMMA DeadlineIsSound ==
    ASSUME Sound, NEW w \in Workers, deadline(w)
    PROVE  Sound' /\ Followed
<1> DEFINE p == IF proc.phase[w] \in ActivePhases THEN "cancelled" ELSE proc.phase[w]
           after == [proc EXCEPT !.timed_out[w] = TRUE, !.phase[w] = p]
<1>1. proc.phase[w] \in Busy
  BY DEF deadline, Engaged, Busy
<1>2. /\ p \in Busy /\ p \notin ActivePhases /\ p \notin AtWork
  BY <1>1 DEF Busy, ActivePhases, EndedPhases, AtWork
<1>3. Turn(<<>>, after) /\ UNCHANGED <<renounced, approved, shipped>>
  BY DEF deadline
<1> HIDE DEF p
<1>4. /\ after \in Process /\ after.phase = [proc.phase EXCEPT ![w] = p]
      /\ after.held = proc.held /\ after.running = proc.running /\ after.ids = proc.ids
  BY <1>2 DEF Process, Sound, TypeOK, Busy
<1> HIDE DEF after
<1> QED BY <1>1, <1>2, <1>3, <1>4, NoCommit, PhaseTurn

LEMMA RedeliveredIsSound ==
    ASSUME Sound, NEW w \in Workers, redelivered(w)
    PROVE  Sound' /\ Followed
<1> DEFINE repaired == repair_commits(db)
           commits == then_drain(db, repaired)
           after == [proc EXCEPT !.phase[w] = "ok"]
<1>1. db \in Later(db, db.iterations) /\ "preview_ready" \in Statuses
  BY LaterSelf DEF Sound, Statuses
<1>2. repaired \in Seq(Later(db, db.iterations)) /\ KeepsRows(db, End(db, repaired))
  BY <1>1, StatusCommit, NoCommit DEF repair_commits
<1>3. /\ Turn(commits, after) /\ UNCHANGED <<renounced, approved, shipped>>
  BY DEF redelivered
<1> HIDE DEF repaired
<1>4. End(db, repaired) \in Later(db, db.iterations)
  BY <1>1, <1>2, EndIsLater
<1>5. commits \in Seq(Later(db, db.iterations)) /\ KeepsRows(End(db, repaired), End(db, commits))
  BY <1>2, <1>4, ThenDrain
<1> HIDE DEF commits
<1>6. KeepsRows(db, End(db, commits))
  BY <1>2, <1>5 DEF KeepsRows
<1>7. /\ after \in Process /\ after.phase = [proc.phase EXCEPT ![w] = "ok"]
      /\ after.held = proc.held /\ after.running = proc.running /\ after.ids = proc.ids
  BY DEF Process, Sound, TypeOK, EndedPhases
<1>8. proc.phase[w] \in Busy /\ "ok" \in Busy /\ "ok" \notin ActivePhases \cup AtWork
  BY DEF redelivered, Busy, ActivePhases, EndedPhases, AtWork
<1> HIDE DEF after
<1> QED BY <1>3, <1>5, <1>6, <1>7, <1>8, PhaseTurn

-----------------------------------------------------------------------------
(* Claims, leases and what a worker does when its run is over. *)

LEMMA ClaimIsSound ==
    ASSUME Sound, NEW w \in Workers, NEW t \in Tasks, claim(w, t)
    PROVE  Sound' /\ Followed
<1> DEFINE R == claim_next(db.rows, t, w)
           e == with_rows(db, R)
           after == [proc EXCEPT !.held[w] = t, !.phase[w] = "created",
                                 !.timed_out[w] = FALSE, !.running[t] = w,
                                 !.ids[w] = db.comment_ids[t]]
<1>1. /\ proc.phase[w] = "idle" /\ db.rows[t].state = "queued" /\ Oldest(db, t)
      /\ Turn(<<e>>, after) /\ UNCHANGED <<renounced, approved, shipped>>
  BY DEF claim, IsOldest, InState, Oldest
<1>2. Coherent(db) /\ GoodTable(db.rows) /\ db.rows \in Table
  BY DEF Sound, Coherent, GoodTable
<1>3. GoodTable(R)
  BY <1>1, <1>2, ClaimKeepsGood
<1>4. /\ R[t].state = "running" /\ R[t].claimed_by = w /\ R[t].lease = "held"
      /\ R[t].attempts = db.rows[t].attempts + 1 /\ db.rows[t].attempts < MaxAttempts
      /\ \A u \in Tasks : u # t => R[u] = db.rows[u]
  BY <1>1, <1>2 DEF claim_next, GoodTable, Table, Counted
<1>5. Moved(db.rows[t], R[t], Oldest(db, t))
  BY <1>1, <1>4 DEF Moved
<1> HIDE DEF R
<1>6. /\ e \in Later(db, db.iterations)
      /\ e.rows = R /\ e.comment_ids = db.comment_ids
  <2>1. db \in Later(db, db.iterations)
    BY <1>2, LaterSelf
  <2>2. db.rows[t].state # "none" /\ R[t].state # "none"
    BY <1>1, <1>4
  <2> QED BY <1>3, <1>4, <1>5, <2>1, <2>2, LaterRow
<1> HIDE DEF e
<1>7. /\ after \in Process
      /\ after.held = [proc.held EXCEPT ![w] = t]
      /\ after.phase = [proc.phase EXCEPT ![w] = "created"]
      /\ after.running = [proc.running EXCEPT ![t] = w]
      /\ after.ids = [proc.ids EXCEPT ![w] = db.comment_ids[t]]
  <2>1. db.comment_ids[t] \subseteq Nat
    BY <1>2, CommentsCounted
  <2> QED BY <2>1 DEF Process, Sound, TypeOK, ActivePhases
<1> HIDE DEF after
<1>8. Minds(e, after)
  <2>1. addressed(e) = addressed(db)
    BY <1>6 DEF Later, addressed
  <2>2. /\ after.held[w] = t /\ after.phase[w] = "created" /\ after.running[t] = w
        /\ after.ids[w] = db.comment_ids[t]
        /\ \A v \in Workers : v # w => /\ after.held[v] = proc.held[v]
                                       /\ after.phase[v] = proc.phase[v]
                                       /\ after.ids[v] = proc.ids[v]
        /\ \A u \in Tasks : u # t => after.running[u] = proc.running[u]
    BY <1>7 DEF Process, Sound, TypeOK
  <2>3. ASSUME NEW v \in Workers, v # w, proc.phase[v] \in Busy
        PROVE  proc.held[v] # t
    BY <1>1, <2>3 DEF Sound, Minds, Delivered
  <2>4. ASSUME NEW v \in Workers, after.phase[v] \in Busy
        PROVE  /\ after.held[v] \in Tasks /\ after.running[after.held[v]] = v
               /\ after.ids[v] = e.comment_ids[after.held[v]]
               /\ Delivered(e.rows[after.held[v]], v, after.phase[v])
               /\ after.phase[v] \in AtWork => ~already_applied(e, after.ids[v])
    <3>1. CASE v = w
      BY <1>4, <1>6, <2>2, <3>1 DEF Delivered, AtWork
    <3>2. CASE v # w
      BY <1>4, <1>6, <2>1, <2>2, <2>3, <2>4, <3>2 DEF Sound, Minds, already_applied
    <3> QED BY <3>1, <3>2
  <2>5. ASSUME NEW u \in Tasks, after.running[u] # NoWorker
        PROVE  after.phase[after.running[u]] \in Busy /\ after.held[after.running[u]] = u
    <3>1. CASE u = t
      BY <2>2, <3>1 DEF Busy, ActivePhases
    <3>2. CASE u # t
      <4>1. /\ proc.running[u] # NoWorker /\ after.running[u] = proc.running[u]
            /\ proc.running[u] \in Workers
        BY <2>2, <2>5, <3>2 DEF Process, Sound, TypeOK
      <4>2. proc.phase[proc.running[u]] \in Busy /\ proc.held[proc.running[u]] = u
        BY <4>1 DEF Sound, Minds
      <4>3. "idle" \notin Busy
        BY DEF Busy, ActivePhases, EndedPhases
      <4> QED BY <1>1, <2>2, <4>1, <4>2, <4>3
    <3> QED BY <3>1, <3>2
  <2> QED BY <2>4, <2>5 DEF Minds
<1>9. <<e>> \in Seq(Later(db, db.iterations)) /\ End(db, <<e>>) = e
  BY <1>6, OneCommit
<1>10. renounced' = renounced /\ approved' \subseteq Nat /\ shipped' \subseteq Nat
  BY <1>1 DEF Sound, TypeOK
<1> QED BY <1>1, <1>7, <1>8, <1>9, <1>10, TurnIsSound

\* A worker that is done with its task lets go of it.
LEMMA UnwoundIsSound ==
    ASSUME Sound, NEW commits \in Seq(Later(db, db.iterations)),
           NEW w \in Workers, proc.phase[w] \in Busy,
           \A u \in Tasks : u # proc.held[w] => End(db, commits).rows[u] = db.rows[u],
           Turn(commits, unwound(w)), UNCHANGED <<renounced, approved, shipped>>
    PROVE  Sound' /\ Followed
<1> DEFINE e == End(db, commits)
           after == unwound(w)
<1>1. e \in Later(db, db.iterations)
  BY LaterSelf, EndIsLater DEF Sound
<1> HIDE DEF e
<1>2. proc.held[w] \in Tasks
  BY DEF Sound, Minds
<1>3. /\ after \in Process
      /\ after.held = [proc.held EXCEPT ![w] = NoTask]
      /\ after.phase = [proc.phase EXCEPT ![w] = "idle"]
      /\ after.running = [proc.running EXCEPT ![proc.held[w]] = NoWorker]
      /\ after.ids = [proc.ids EXCEPT ![w] = {}]
  BY DEF unwound, Process, Sound, TypeOK
<1> HIDE DEF after
<1>4. /\ after.phase[w] = "idle" /\ after.running[proc.held[w]] = NoWorker
      /\ \A v \in Workers : v # w => /\ after.held[v] = proc.held[v]
                                     /\ after.phase[v] = proc.phase[v]
                                     /\ after.ids[v] = proc.ids[v]
      /\ \A u \in Tasks : u # proc.held[w] => after.running[u] = proc.running[u]
  BY <1>2, <1>3 DEF Process, Sound, TypeOK
<1>5. "idle" \notin Busy
  BY DEF Busy, ActivePhases, EndedPhases
<1>6. addressed(e) = addressed(db)
  BY <1>1 DEF Later, addressed
<1>7. ASSUME NEW v \in Workers, after.phase[v] \in Busy
      PROVE  /\ after.held[v] \in Tasks /\ after.running[after.held[v]] = v
             /\ after.ids[v] = e.comment_ids[after.held[v]]
             /\ Delivered(e.rows[after.held[v]], v, after.phase[v])
             /\ after.phase[v] \in AtWork => ~already_applied(e, after.ids[v])
  <2>1. v # w /\ proc.phase[v] \in Busy
    BY <1>4, <1>5, <1>7
  <2>2. /\ proc.held[v] \in Tasks /\ proc.running[proc.held[v]] = v
        /\ proc.held[v] # proc.held[w]
    BY <2>1 DEF Sound, Minds
  <2>3. e.rows[proc.held[v]] = db.rows[proc.held[v]]
    BY <2>2 DEF e
  <2>4. e.comment_ids[proc.held[v]] = db.comment_ids[proc.held[v]]
    BY <1>1, <2>1, <2>2 DEF Later, After, Sound, Minds, Delivered
  <2> QED BY <1>4, <1>6, <2>1, <2>2, <2>3, <2>4 DEF Sound, Minds, already_applied
<1>8. ASSUME NEW u \in Tasks, after.running[u] # NoWorker
      PROVE  after.phase[after.running[u]] \in Busy /\ after.held[after.running[u]] = u
  <2>1. u # proc.held[w] /\ after.running[u] = proc.running[u] /\ proc.running[u] \in Workers
    BY <1>4, <1>8 DEF Process, Sound, TypeOK
  <2>2. proc.phase[proc.running[u]] \in Busy /\ proc.held[proc.running[u]] = u
    BY <1>8, <2>1 DEF Sound, Minds
  <2> QED BY <1>4, <2>1, <2>2
<1>9. Minds(e, after)
  BY <1>7, <1>8 DEF Minds
<1> QED BY <1>3, <1>9, TurnIsSound DEF Sound, TypeOK, e, after

LEMMA ResumesIsSound ==
    ASSUME Sound, NEW w \in Workers, resumes(w)
    PROVE  Sound' /\ Followed
<1> DEFINE t == proc.held[w]
<1>1. proc.phase[w] \in Busy /\ UNCHANGED <<renounced, approved, shipped>>
  BY DEF resumes, finishes, attempt_fails, gives_up, walks_away, Busy, EndedPhases
<1>2. t \in Tasks /\ db.rows[t].state \in {"running", "cancelled"}
  BY <1>1 DEF Sound, Minds, Delivered
<1>3. /\ GoodTable(db.rows) /\ db.rows \in Table /\ db \in Later(db, db.iterations)
  BY LaterSelf DEF Sound, Coherent, GoodTable
<1> HIDE DEF t
<1>4. ASSUME NEW R, GoodTable(R), Moved(db.rows[t], R[t], Oldest(db, t)),
             R[t].state # "none", \A u \in Tasks : u # t => R[u] = db.rows[u]
      PROVE  /\ with_rows(db, R) \in Later(db, db.iterations)
             /\ with_rows(db, R).rows = R
  BY <1>2, <1>3, <1>4, LaterRow
<1>5. ASSUME NEW R, GoodTable(R), Moved(db.rows[t], R[t], Oldest(db, t)),
             R[t].state # "none", \A u \in Tasks : u # t => R[u] = db.rows[u],
             Turn(<<with_rows(db, R)>>, unwound(w))
      PROVE  Sound' /\ Followed
  <2>1. /\ with_rows(db, R) \in Later(db, db.iterations)
        /\ with_rows(db, R).rows = R
    BY <1>4, <1>5
  <2>2. /\ <<with_rows(db, R)>> \in Seq(Later(db, db.iterations))
        /\ End(db, <<with_rows(db, R)>>) = with_rows(db, R)
    BY <2>1, OneCommit
  <2>3. \A u \in Tasks : u # proc.held[w] =>
            End(db, <<with_rows(db, R)>>).rows[u] = db.rows[u]
    BY <1>5, <2>1, <2>2 DEF t
  <2> QED BY <1>1, <1>5, <2>2, <2>3, UnwoundIsSound
<1>6. CASE finishes(w)
  <2> DEFINE R == complete(db.rows, t)
  <2>1. GoodTable(R)
    BY <1>2, <1>3, CompleteKeepsGood
  <2>2. /\ Moved(db.rows[t], R[t], Oldest(db, t)) /\ R[t].state # "none"
        /\ \A u \in Tasks : u # t => R[u] = db.rows[u]
    BY <1>2, <1>3 DEF complete, Table, Row, Moved
  <2>3. Turn(<<with_rows(db, R)>>, unwound(w))
    BY <1>6 DEF finishes, t
  <2> HIDE DEF R
  <2> QED BY <1>5, <2>1, <2>2, <2>3
<1>7. CASE gives_up(w)
  <2> DEFINE R == cancel(db.rows, t)
  <2>1. GoodTable(R)
    BY <1>2, <1>3, CancelKeepsGood
  <2>2. /\ Moved(db.rows[t], R[t], Oldest(db, t)) /\ R[t].state # "none"
        /\ \A u \in Tasks : u # t => R[u] = db.rows[u]
    BY <1>2, <1>3 DEF cancel, Live, InState, Table, Row, Moved
  <2>3. Turn(<<with_rows(db, R)>>, unwound(w))
    BY <1>7 DEF gives_up, t
  <2> HIDE DEF R
  <2> QED BY <1>5, <2>1, <2>2, <2>3
<1>8. CASE walks_away(w)
  BY <1>1, <1>8, NoCommit, UnwoundIsSound DEF walks_away, End
<1>9. CASE attempt_fails(w)
  <2> DEFINE R == fail(db.rows, t)
             d1 == with_rows(db, R)
             status == StatusOfOutcome(fail_result(db.rows, t))
             d2 == set_status(d1, status)
  <2>1. GoodTable(R)
    BY <1>2, <1>3, FailKeepsGood
  <2>2. R[t] = failed_row(db.rows, t) /\ \A u \in Tasks : u # t => R[u] = db.rows[u]
    BY <1>2, <1>3 DEF fail, Table
  <2>3. Moved(db.rows[t], R[t], Oldest(db, t))
    BY <1>2, <1>3, <2>2, FailedRowMoves DEF Oldest
  <2>4. R[t].state # "none"
    BY <1>2, <2>3 DEF Moved
  <2>5. status \in Statuses
    BY DEF StatusOfOutcome, Statuses, InFlightStatuses
  <2>6. Turn(<<d1, d2>>, unwound(w))
    BY <1>9 DEF attempt_fails, t
  <2> HIDE DEF R, status
  <2>7. d1 \in Later(db, db.iterations) /\ d1.rows = R
    BY <1>4, <2>1, <2>2, <2>3, <2>4
  <2> HIDE DEF d1
  <2>8. d2 \in Later(db, db.iterations) /\ d2.rows = R
    BY <2>5, <2>7, LaterStatus DEF SameWork
  <2> HIDE DEF d2
  <2>9. <<d1, d2>> \in Seq(Later(db, db.iterations)) /\ End(db, <<d1, d2>>) = d2
    BY <2>7, <2>8, TwoCommits
  <2>10. \A u \in Tasks : u # proc.held[w] => End(db, <<d1, d2>>).rows[u] = db.rows[u]
    BY <2>2, <2>8, <2>9 DEF t
  <2> QED BY <1>1, <2>6, <2>9, <2>10, UnwoundIsSound
<1> QED BY <1>6, <1>7, <1>8, <1>9 DEF resumes

LEMMA LapseIsSound ==
    ASSUME Sound, NEW t \in Tasks, lease_lapses(t)
    PROVE  Sound' /\ Followed
<1> DEFINE R == [db.rows EXCEPT ![t].lease = "expired"]
           e == with_rows(db, R)
<1>1. /\ db.rows[t].state = "running" /\ EngagedOn(t) = {}
      /\ UNCHANGED <<proc, renounced, approved, shipped, used>>
  BY DEF lease_lapses
<1>2. /\ GoodTable(db.rows) /\ db.rows \in Table /\ db \in Later(db, db.iterations)
  BY LaterSelf DEF Sound, Coherent, GoodTable
<1>3. GoodTable(R)
  BY <1>1, <1>2, LeaseKeepsGood
<1>4. /\ Moved(db.rows[t], R[t], Oldest(db, t)) /\ R[t].state # "none"
      /\ \A u \in Tasks : u # t => R[u] = db.rows[u]
  BY <1>1, <1>2 DEF Table, Row, Moved
<1>5. db' = e
  <2>1. db \in Database
    BY DEF Sound, TypeOK
  <2> QED BY <2>1 DEF lease_lapses, with_rows, Database
<1> HIDE DEF R
<1>6. e \in Later(db, db.iterations) /\ e.rows = R
  BY <1>1, <1>2, <1>3, <1>4, LaterRow
<1> HIDE DEF e
<1>7. \A w \in Workers : proc.phase[w] \in Busy => e.rows[proc.held[w]] = db.rows[proc.held[w]]
  BY <1>1, <1>4, <1>6 DEF EngagedOn, Engaged, Busy, Sound, Minds
<1>8. Minds(e, proc)
  BY <1>6, <1>7, MindsFollow DEF Sound
<1>9. Honest(e, renounced)
  BY <1>6, HonestAfter DEF Sound, Later
<1> QED BY <1>1, <1>5, <1>6, <1>8, <1>9, StepIsSound DEF Sound, TypeOK, Spent

LEMMA RequeueIsSound ==
    ASSUME Sound, NEW t \in Tasks, requeue_from_dlq_task(t)
    PROVE  Sound' /\ Followed
<1> DEFINE R == enqueue(db.rows, t)
           d1 == with_rows(db, R)
           d2 == set_status(d1, "triggered")
           spent == [used EXCEPT !.replays = @ + 1]
<1>1. /\ db.rows[t].state = "dlq"
      /\ TurnSpending(<<d1, d2>>, proc, spent)
      /\ UNCHANGED <<renounced, approved, shipped>>
  BY DEF requeue_from_dlq_task, requeue_from_dlq
<1>2. /\ GoodTable(db.rows) /\ db.rows \in Table /\ db \in Later(db, db.iterations)
  BY LaterSelf DEF Sound, Coherent, GoodTable
<1>3. GoodTable(R)
  BY <1>2, EnqueueKeepsGood
<1>4. /\ R[t].state = "queued" /\ R[t].attempts = 0
      /\ \A u \in Tasks : u # t => R[u] = db.rows[u]
  BY <1>2 DEF enqueue, NoRow, Table
<1>5. Moved(db.rows[t], R[t], Oldest(db, t))
  BY <1>1, <1>4 DEF Moved
<1> HIDE DEF R
<1>6. d1 \in Later(db, db.iterations) /\ d1.rows = R
  BY <1>1, <1>2, <1>3, <1>4, <1>5, LaterRow
<1> HIDE DEF d1
<1>7. d2 \in Later(db, db.iterations) /\ d2.rows = R
  BY <1>6, LaterStatus DEF SameWork, Statuses, InFlightStatuses
<1> HIDE DEF d2
<1>8. \A w \in Workers : proc.phase[w] \in Busy => d2.rows[proc.held[w]] = db.rows[proc.held[w]]
  BY <1>1, <1>4, <1>7 DEF Sound, Minds, Delivered
<1>9. Minds(d2, proc)
  BY <1>7, <1>8, MindsFollow DEF Sound
<1>10. spent \in Spent
  BY DEF Sound, TypeOK, Spent
<1>11. /\ <<d1, d2>> \in Seq(Later(db, db.iterations)) /\ End(db, <<d1, d2>>) = d2
  BY <1>6, <1>7, TwoCommits
<1>12. /\ proc \in Process /\ renounced' = renounced
       /\ approved' \subseteq Nat /\ shipped' \subseteq Nat
  BY <1>1 DEF Sound, TypeOK
<1> HIDE DEF spent
<1> QED BY <1>1, <1>9, <1>10, <1>11, <1>12, SpendingIsSound

-----------------------------------------------------------------------------
(* Cancelling. *)

\* After the cancel of t, the run on it is over and the others go on.
LEMMA InterruptMinds ==
    ASSUME Sound, NEW t \in Tasks, NEW e \in Later(db, db.iterations), Cancelled(e, t),
           \A u \in Tasks : u # t /\ db.rows[u].state # "none" => e.rows[u] = db.rows[u]
    PROVE  interrupted(t) \in Process /\ Minds(e, interrupted(t))
<1> DEFINE after == interrupted(t)
           phases == [w \in Workers |->
                        IF proc.running[t] = w /\ proc.phase[w] \in ActivePhases
                        THEN "cancelled" ELSE proc.phase[w]]
<1>1. phases \in [Workers -> ActivePhases \cup EndedPhases \cup {"idle", "ended"}]
  BY DEF Sound, TypeOK, Process, EndedPhases
<1>2. after = [proc EXCEPT !.phase = phases]
  BY DEF interrupted
<1>3. \A w \in Workers : phases[w] = IF proc.running[t] = w /\ proc.phase[w] \in ActivePhases
                                     THEN "cancelled" ELSE proc.phase[w]
  OBVIOUS
<1> HIDE DEF phases, after
<1>4. /\ after \in Process /\ after.phase = phases
      /\ after.held = proc.held /\ after.running = proc.running /\ after.ids = proc.ids
  BY <1>1, <1>2 DEF Sound, TypeOK, Process
<1>5. addressed(e) = addressed(db)
  BY DEF Later, addressed
<1>6. \A w \in Workers : /\ phases[w] \in Busy <=> proc.phase[w] \in Busy
                         /\ phases[w] \in AtWork => proc.phase[w] \in AtWork
  BY <1>3 DEF Busy, ActivePhases, EndedPhases, AtWork
<1>7. ASSUME NEW w \in Workers, phases[w] \in Busy
      PROVE  /\ proc.held[w] \in Tasks /\ proc.running[proc.held[w]] = w
             /\ proc.ids[w] = e.comment_ids[proc.held[w]]
             /\ Delivered(e.rows[proc.held[w]], w, phases[w])
             /\ phases[w] \in AtWork => ~already_applied(e, proc.ids[w])
  <2>1. /\ proc.phase[w] \in Busy
        /\ proc.held[w] \in Tasks /\ proc.running[proc.held[w]] = w
        /\ proc.ids[w] = db.comment_ids[proc.held[w]]
        /\ Delivered(db.rows[proc.held[w]], w, proc.phase[w])
        /\ proc.phase[w] \in AtWork => ~already_applied(db, proc.ids[w])
    BY <1>6, <1>7 DEF Sound, Minds
  <2>2. e.comment_ids[proc.held[w]] = db.comment_ids[proc.held[w]]
    BY <2>1 DEF Delivered, Later, After
  <2>3. Delivered(e.rows[proc.held[w]], w, phases[w])
    <3>1. CASE proc.held[w] = t
      <4>1. phases[w] \notin ActivePhases
        BY <1>3, <2>1, <3>1 DEF ActivePhases
      <4> QED BY <3>1, <4>1 DEF Delivered, Cancelled
    <3>2. CASE proc.held[w] # t
      <4>1. proc.running[t] # w
        BY <2>1, <3>2, WorkersAssumption DEF Sound, Minds
      <4>2. phases[w] = proc.phase[w] /\ e.rows[proc.held[w]] = db.rows[proc.held[w]]
        BY <1>3, <2>1, <3>2, <4>1 DEF Delivered
      <4> QED BY <2>1, <4>2
    <3> QED BY <3>1, <3>2
  <2> QED BY <1>5, <1>6, <2>1, <2>2, <2>3 DEF already_applied
<1>8. ASSUME NEW u \in Tasks, proc.running[u] # NoWorker
      PROVE  phases[proc.running[u]] \in Busy /\ proc.held[proc.running[u]] = u
  BY <1>6, <1>8 DEF Sound, TypeOK, Process, Minds
<1> QED BY <1>4, <1>7, <1>8 DEF Minds, after

LEMMA CancelIsSound ==
    ASSUME Sound, cancel_run
    PROVE  Sound' /\ Followed
<1> DEFINE t == active_for_thread(db)
           R == cancel(db.rows, t)
           d1 == with_rows(db, R)
           status == status_after_cancel(d1)
           d2 == set_status(d1, status)
           spent == [used EXCEPT !.cancels = @ + 1]
<1>1. /\ t \in Live(db.rows) /\ t \in Tasks
  BY ActiveIsLive DEF cancel_run
<1>2. /\ TurnSpending(<<d1, d2>>, interrupted(t), spent)
      /\ renounced' = renounced \cup db.comment_ids[t]
      /\ UNCHANGED <<approved, shipped>>
  BY DEF cancel_run
<1>3. /\ GoodTable(db.rows) /\ db.rows \in Table /\ db \in Later(db, db.iterations)
      /\ Coherent(db) /\ db \in Database
  BY LaterSelf DEF Sound, Coherent, GoodTable
<1>4. db.rows[t].state \in {"queued", "running"}
  BY <1>1 DEF Live, InState
<1> HIDE DEF t
<1>5. GoodTable(R)
  BY <1>1, <1>3, CancelKeepsGood
<1>6. /\ R[t].state = "cancelled" /\ R[t].attempts = db.rows[t].attempts
      /\ \A u \in Tasks : u # t => R[u] = db.rows[u]
  BY <1>1, <1>3 DEF cancel, Table, Row
<1>7. Moved(db.rows[t], R[t], Oldest(db, t))
  BY <1>4, <1>6 DEF Moved
<1>8. status \in Statuses
  BY DEF status_after_cancel, Statuses
<1>9. spent \in Spent
  BY DEF Sound, TypeOK, Spent
<1> HIDE DEF R, spent, status
<1>10. d1 \in Later(db, db.iterations) /\ d1.rows = R /\ d1.comment_ids = db.comment_ids
  BY <1>1, <1>3, <1>4, <1>5, <1>6, <1>7, LaterRow
<1> HIDE DEF d1
<1>11. d2 \in Later(db, db.iterations) /\ d2.rows = R /\ d2.comment_ids = db.comment_ids
  BY <1>8, <1>10, LaterStatus DEF SameWork
<1> HIDE DEF d2
<1>12. interrupted(t) \in Process /\ Minds(d2, interrupted(t))
  <2>1. Cancelled(d2, t)
    BY <1>6, <1>11 DEF Cancelled
  <2>2. \A u \in Tasks : u # t /\ db.rows[u].state # "none" => d2.rows[u] = db.rows[u]
    BY <1>6, <1>11
  <2> QED BY <1>1, <1>11, <2>1, <2>2, InterruptMinds
<1>13. <<d1, d2>> \in Seq(Later(db, db.iterations)) /\ End(db, <<d1, d2>>) = d2
  BY <1>10, <1>11, TwoCommits
<1>14. /\ db' \in Later(db, db.iterations) /\ proc' \in Process /\ Minds(db', proc')
       /\ used' \in Spent
  BY <1>2, <1>9, <1>11, <1>12, <1>13, TurnKeeps
<1>15. db' = d1 \/ db' = d2
  BY <1>2 DEF TurnSpending, Last
<1>16. Honest(db', renounced')
  <2>1. db'.rows = R /\ db'.comment_ids = db.comment_ids
    BY <1>10, <1>11, <1>15
  <2>2. renounced \cup db.comment_ids[t] \subseteq covered_comment_ids(db')
    BY <1>1, <2>1 DEF Sound, Honest, covered_comment_ids
  <2>3. ASSUME NEW u \in Tasks, R[u].state # "cancelled"
        PROVE  db.comment_ids[u] \cap (renounced \cup db.comment_ids[t]) = {}
    <3>1. u # t /\ ~Cancelled(db, u) /\ ~Cancelled(db, t)
      BY <1>4, <1>6, <2>3 DEF Cancelled
    <3>2. db.comment_ids[u] \cap renounced = {}
      BY <3>1 DEF Sound, Honest
    <3>3. db.comment_ids[u] \cap db.comment_ids[t] = {}
      BY <1>1, <1>3, <3>1 DEF Coherent, Covering
    <3> QED BY <3>2, <3>3
  <2> QED BY <1>2, <2>1, <2>2, <2>3 DEF Honest, Cancelled
<1>17. /\ renounced' \subseteq Nat /\ approved' \subseteq Nat /\ shipped' \subseteq Nat
  BY <1>1, <1>2, <1>3, CommentsCounted DEF Sound, TypeOK
<1> QED BY <1>14, <1>16, <1>17, StepIsSound

-----------------------------------------------------------------------------
(* The janitor. *)

\* Sweeping some of the expired rows moves those, and no others.
LEMMA SweptRows ==
    ASSUME Sound, NEW S, S \subseteq Expired(db.rows),
           NEW R, R = [t \in Tasks |-> IF t \in S THEN failed_row(db.rows, t) ELSE db.rows[t]]
    PROVE  /\ with_rows(db, R) \in Later(db, db.iterations)
           /\ with_rows(db, R).rows = R
<1>1. /\ GoodTable(db.rows) /\ db.rows \in Table /\ db \in Later(db, db.iterations)
  BY LaterSelf DEF Sound, Coherent, GoodTable
<1>2. GoodTable(R)
  <2>1. \A t \in Tasks : failed_row(db.rows, t) \in Row /\ Counted(failed_row(db.rows, t))
    BY <1>1, FailedRowIsGood
  <2> QED BY <1>1, <2>1 DEF GoodTable, Table
<1>3. ASSUME NEW t \in Tasks
      PROVE  /\ Moved(db.rows[t], R[t], Oldest(db, t))
             /\ R[t].state = "none" <=> db.rows[t].state = "none"
  <2>1. CASE t \in S
    <3>1. db.rows[t].state = "running"
      BY <2>1 DEF Expired, InState
    <3>2. Moved(db.rows[t], R[t], Oldest(db, t))
      BY <1>1, <2>1, FailedRowMoves DEF Oldest
    <3>3. R[t].state # "none"
      BY <3>1, <3>2 DEF Moved
    <3> QED BY <3>1, <3>2, <3>3
  <2>2. CASE t \notin S
    BY <2>2 DEF Moved
  <2> QED BY <2>1, <2>2
<1> QED BY <1>1, <1>2, <1>3, LaterRows

\* What a sweep commits leaves every row alone whose lease holds.
LEMMA SweepCommits ==
    ASSUME Sound
    PROVE  sweep_commits(db) \in
              Seq({e \in Later(db, db.iterations) :
                    \A t \in Tasks \ Expired(db.rows) : e.rows[t] = db.rows[t]})
<1> DEFINE expired == Expired(db.rows)
           n == Cardinality(expired)
           place(t) == Cardinality({u \in expired : u <= t})
           first_rows(k) == [t \in Tasks |-> IF t \in expired /\ place(t) <= k
                                             THEN failed_row(db.rows, t) ELSE db.rows[t]]
           outcome(k) == fail_result(db.rows, CHOOSE t \in expired : place(t) = k)
           commit(k) == IF k <= n THEN with_rows(db, first_rows(k))
                        ELSE set_status(with_rows(db, first_rows(n)),
                                        StatusOfOutcome(outcome(k - n)))
           Swept == {e \in Later(db, db.iterations) :
                        \A t \in Tasks \ expired : e.rows[t] = db.rows[t]}
<1>1. sweep_commits(db) = [k \in 1 .. 2 * n |-> commit(k)]
  BY DEF sweep_commits
<1>2. n \in Nat
  <2>1. IsFiniteSet(Tasks)
    BY EnoughTasks, FS_Interval
  <2>2. expired \subseteq Tasks
    BY DEF Expired, InState
  <2> HIDE DEF expired
  <2> QED BY <2>1, <2>2, FS_Subset, FS_CardinalityType
<1>3. ASSUME NEW k \in Int
      PROVE  with_rows(db, first_rows(k)) \in Swept
  <2> DEFINE S == {t \in expired : place(t) <= k}
             R == first_rows(k)
  <2> HIDE DEF expired, place
  <2>1. S \subseteq Expired(db.rows) /\ S \subseteq expired
    BY DEF expired
  <2>2. R = [t \in Tasks |-> IF t \in S THEN failed_row(db.rows, t) ELSE db.rows[t]]
    OBVIOUS
  <2> HIDE DEF S, R
  <2>3. with_rows(db, R) \in Later(db, db.iterations) /\ with_rows(db, R).rows = R
    BY <2>1, <2>2, SweptRows
  <2>4. \A t \in Tasks \ expired : R[t] = db.rows[t]
    BY <2>1, <2>2
  <2>5. with_rows(db, R) \in Swept
    BY <2>3, <2>4
  <2> QED BY <2>5 DEF R
<1>4. ASSUME NEW e \in Swept, NEW result
      PROVE  set_status(e, StatusOfOutcome(result)) \in Swept
  <2>1. StatusOfOutcome(result) \in Statuses
    BY DEF StatusOfOutcome, Statuses, InFlightStatuses
  <2> HIDE DEF expired
  <2> QED BY <2>1, LaterStatus DEF SameWork
<1> HIDE DEF Swept, first_rows, outcome, n
<1>5. \A k \in 1 .. 2 * n : commit(k) \in Swept
  BY <1>2, <1>3, <1>4
<1> HIDE DEF commit
<1>6. 2 * n \in Nat
  BY <1>2
<1>7. [k \in 1 .. 2 * n |-> commit(k)] \in [1 .. 2 * n -> Swept]
  BY <1>5
<1>8. [k \in 1 .. 2 * n |-> commit(k)] \in Seq(Swept)
  BY <1>6, <1>7, SeqDef
<1> QED BY <1>1, <1>8 DEF Swept

LEMMA SweepIsSound ==
    ASSUME Sound, sweep
    PROVE  Sound' /\ Followed
<1> DEFINE Swept == {e \in Later(db, db.iterations) :
                        \A t \in Tasks \ Expired(db.rows) : e.rows[t] = db.rows[t]}
           commits == sweep_commits(db)
           e == End(db, commits)
<1>1. db \in Swept
  BY LaterSelf DEF Sound
<1>2. commits \in Seq(Swept) /\ commits \in Seq(Later(db, db.iterations))
  <2>1. commits \in Seq(Swept)
    BY SweepCommits
  <2>2. Swept \subseteq Later(db, db.iterations)
    OBVIOUS
  <2> HIDE DEF Swept, commits
  <2> QED BY <2>1, <2>2
<1>3. Turn(commits, proc) /\ UNCHANGED <<renounced, approved, shipped>>
  BY DEF sweep
<1> HIDE DEF commits
<1>4. e \in Swept
  <2> HIDE DEF Swept
  <2>1. CASE commits = <<>>
    BY <1>1, <2>1 DEF End
  <2>2. CASE commits # <<>>
    <3>1. Len(commits) \in 1 .. Len(commits)
      BY <1>2, <2>2
    <3> QED BY <1>2, <2>2, <3>1 DEF End, Last
  <2> QED BY <2>1, <2>2
<1> HIDE DEF e
<1>5. \A w \in Workers : proc.phase[w] \in Busy => e.rows[proc.held[w]] = db.rows[proc.held[w]]
  <2>1. ASSUME NEW w \in Workers, proc.phase[w] \in Busy
        PROVE  proc.held[w] \in Tasks \ Expired(db.rows)
    BY <2>1 DEF Sound, Minds, Delivered, Expired, InState
  <2> QED BY <1>4, <2>1
<1>6. Minds(e, proc)
  BY <1>4, <1>5, MindsFollow DEF Sound
<1>7. /\ proc \in Process /\ renounced' = renounced
      /\ approved' \subseteq Nat /\ shipped' \subseteq Nat
  BY <1>3 DEF Sound, TypeOK
<1> QED BY <1>2, <1>3, <1>6, <1>7, TurnIsSound DEF e

-----------------------------------------------------------------------------
(* The run that lands. *)

\* The key of a task a worker is still at work on is not among the comments
\* of another task: only a cancelled task's is.
LEMMA OthersUnapplied ==
    ASSUME Sound, NEW w \in Workers, NEW v \in Workers, v # w,
           proc.phase[w] \in Busy, proc.phase[v] \in AtWork
    PROVE  /\ idempotency_key(proc.ids[v]) \notin addressed(db)
           /\ idempotency_key(proc.ids[v]) \notin proc.ids[w]
<1>1. proc.phase[v] \in Busy /\ proc.phase[v] \in ActivePhases
  BY DEF AtWork, Busy, ActivePhases
<1> DEFINE t == proc.held[v]
           u == proc.held[w]
<1>2. /\ t \in Tasks /\ u \in Tasks /\ t # u
      /\ proc.ids[v] = db.comment_ids[t] /\ proc.ids[w] = db.comment_ids[u]
      /\ db.rows[t].state = "running"
  BY <1>1 DEF Sound, Minds, Delivered
<1>3. idempotency_key(proc.ids[v]) \notin addressed(db)
  BY <1>1 DEF Sound, Minds, already_applied
<1> HIDE DEF t, u
<1>4. db.comment_ids[t] # {} /\ ~Cancelled(db, t)
  BY <1>2 DEF Sound, Coherent, Covering, Cancelled
<1>5. Key(db, t) \notin db.comment_ids[u]
  BY <1>2, <1>4 DEF Sound, Coherent, Covering
<1> QED BY <1>2, <1>3, <1>5 DEF Key

LEMMA LandsIsSound ==
    ASSUME Sound, NEW w \in Workers, lands(w)
    PROVE  Sound' /\ Followed
<1> DEFINE ids == proc.ids[w]
           its == LandedOf(w)
           landed == add_iteration_commits(db, proc.parent[w], ids)
           x == set_status(Last(landed), "preview_ready")
           recorded == Append(landed, x)
           commits == then_drain(db, recorded)
           e == End(db, commits)
           after == [proc EXCEPT !.phase[w] = "ok"]
<1>1. /\ proc.phase[w] = "deploying" /\ Turn(commits, after)
      /\ UNCHANGED <<renounced, approved, shipped>>
  BY DEF lands, records_commits
<1>2. proc.phase[w] \in Busy /\ proc.phase[w] \in AtWork
  BY <1>1 DEF Busy, ActivePhases, AtWork
<1>3. Coherent(db) /\ proc.parent[w] \in Nat
  BY DEF Sound, TypeOK, Process
<1>4. ids # {} /\ ids \subseteq 1 .. Len(db.comments) /\ ~already_applied(db, ids)
  <2>1. /\ proc.held[w] \in Tasks /\ ids = db.comment_ids[proc.held[w]]
        /\ db.rows[proc.held[w]].state # "none" /\ ~already_applied(db, ids)
    BY <1>2 DEF Sound, Minds, Delivered
  <2> HIDE DEF ids
  <2> QED BY <1>3, <2>1 DEF Coherent, Covering
<1>5. /\ landed \in Seq(Later(db, its)) /\ landed # <<>>
      /\ Last(landed) \in Later(db, its) /\ Last(landed).rows = db.rows
  <2> HIDE DEF ids
  <2> QED BY <1>3, <1>4, LaterIteration DEF LandedOf, ids
<1> HIDE DEF ids, its, landed
<1>6. x \in Later(db, its) /\ x.rows = db.rows
  BY <1>5, LaterStatus DEF Statuses, SameWork
<1> HIDE DEF x
<1>7. recorded \in Seq(Later(db, its)) /\ recorded # <<>> /\ End(db, recorded) = x
  <2>1. /\ recorded \in Seq(Later(db, its)) /\ recorded # <<>>
        /\ recorded[Len(recorded)] = x
    BY <1>5, <1>6
  <2> QED BY <2>1 DEF End, Last
<1> HIDE DEF recorded
<1>8. commits \in Seq(Later(db, its)) /\ commits # <<>> /\ KeepsRows(x, e)
  BY <1>6, <1>7, ThenDrain
<1> HIDE DEF commits
<1>9. e \in Later(db, its)
  <2>1. End(x, commits) \in Later(db, its)
    BY <1>6, <1>8, EndIsLater
  <2> QED BY <1>8, <2>1 DEF End
<1>10. KeepsRows(db, e)
  BY <1>6, <1>8 DEF KeepsRows
<1> HIDE DEF e
<1>11. /\ after \in Process /\ after.phase = [proc.phase EXCEPT ![w] = "ok"]
       /\ after.held = proc.held /\ after.running = proc.running /\ after.ids = proc.ids
  BY DEF Process, Sound, TypeOK, EndedPhases
<1> HIDE DEF after
<1>12. Minds(db, after)
  <2>1. "ok" \in Busy /\ "ok" \notin ActivePhases \cup AtWork
    BY DEF Busy, ActivePhases, EndedPhases, AtWork
  <2> QED BY <1>2, <1>11, <2>1, PhaseMinds DEF Sound, TypeOK
<1>13. addressed(e) = addressed(db) \cup ids
  <2>1. /\ db.iterations \in Seq(Iteration)
        /\ [parent |-> proc.parent[w], comment_ids |-> ids] \in Iteration
    <3>1. ids \in SUBSET Nat
      BY <1>3, <1>4, CommentsCounted
    <3> QED BY <1>3, <3>1, CommentsCounted DEF Iteration
  <2> DEFINE it == [parent |-> proc.parent[w], comment_ids |-> ids]
  <2>2. it.comment_ids = ids /\ it \in Iteration
    BY <2>1
  <2>3. e.iterations = Append(db.iterations, it)
    BY <1>9 DEF Later, its, ids, LandedOf
  <2> HIDE DEF it
  <2>4. /\ DOMAIN e.iterations = 1 .. Len(db.iterations) + 1
        /\ DOMAIN db.iterations = 1 .. Len(db.iterations)
        /\ e.iterations[Len(db.iterations) + 1] = it
        /\ \A i \in 1 .. Len(db.iterations) : e.iterations[i] = db.iterations[i]
        /\ Len(db.iterations) \in Nat
    BY <2>1, <2>2, <2>3
  <2>5. \A c : c \in addressed(e) => c \in addressed(db) \cup ids
    BY <2>2, <2>4 DEF addressed
  <2>6. \A c : c \in addressed(db) => c \in addressed(e)
    BY <2>4 DEF addressed
  <2>7. \A c : c \in ids => c \in addressed(e)
    <3>1. Len(db.iterations) + 1 \in DOMAIN e.iterations
      BY <2>4
    <3> QED BY <2>2, <2>4, <3>1 DEF addressed
  <2> QED BY <2>5, <2>6, <2>7
<1>14. Minds(e, after)
  <2>1. ASSUME NEW v \in Workers, after.phase[v] \in Busy
        PROVE  /\ after.held[v] \in Tasks /\ after.running[after.held[v]] = v
               /\ after.ids[v] = e.comment_ids[after.held[v]]
               /\ Delivered(e.rows[after.held[v]], v, after.phase[v])
               /\ after.phase[v] \in AtWork => ~already_applied(e, after.ids[v])
    <3>1. /\ after.held[v] \in Tasks /\ after.running[after.held[v]] = v
          /\ after.ids[v] = db.comment_ids[after.held[v]]
          /\ Delivered(db.rows[after.held[v]], v, after.phase[v])
      BY <1>12, <2>1 DEF Minds
    <3>2. /\ e.rows[after.held[v]] = db.rows[after.held[v]]
          /\ e.comment_ids[after.held[v]] = db.comment_ids[after.held[v]]
      BY <1>9, <1>10, <3>1 DEF Delivered, KeepsRows, Later, After
    <3>3. after.phase[v] \in AtWork => ~already_applied(e, after.ids[v])
      <4> SUFFICES ASSUME after.phase[v] \in AtWork PROVE ~already_applied(e, after.ids[v])
        OBVIOUS
      <4>1. v # w /\ proc.phase[v] \in AtWork
        BY <1>11 DEF AtWork, Process, Sound, TypeOK
      <4>2. /\ idempotency_key(proc.ids[v]) \notin addressed(db)
            /\ idempotency_key(proc.ids[v]) \notin ids
        BY <1>2, <4>1, OthersUnapplied DEF ids
      <4> QED BY <1>11, <1>13, <4>2 DEF already_applied
    <3> QED BY <3>1, <3>2, <3>3
  <2> QED BY <1>12, <2>1 DEF Minds
<1>15. /\ db' \in Later(db, its) /\ proc' \in Process /\ Minds(db', proc')
       /\ used' \in Spent
  <2>1. used \in Spent
    BY DEF Sound, TypeOK, Spent
  <2> QED BY <1>1, <1>8, <1>9, <1>11, <1>14, <2>1, TurnKeeps DEF Turn, e
<1>16. Coherent(db') /\ Honest(db', renounced')
  BY <1>1, <1>15, HonestAfter DEF Sound, Later
<1>17. TypeOK'
  BY <1>1, <1>15, <1>16 DEF Sound, TypeOK, Spent, Coherent
<1> QED BY <1>1, <1>15, <1>16, <1>17 DEF Sound, Followed, its

-----------------------------------------------------------------------------
(* A comment. *)

\* A turn that commits e first, and then what follows from e.
LEMMA FirstCommit ==
    ASSUME NEW its, NEW e \in Later(db, its), NEW more \in Seq(Later(db, its))
    PROVE  /\ <<e>> \o more \in Seq(Later(db, its))
           /\ End(db, <<e>> \o more) = End(e, more)
<1>1. <<e>> \in Seq(Later(db, its)) /\ Len(<<e>>) = 1 /\ <<e>>[1] = e
  OBVIOUS
<1>2. <<e>> \o more \in Seq(Later(db, its)) /\ <<e>> \o more # <<>>
  BY <1>1
<1>3. (<<e>> \o more)[Len(<<e>> \o more)] = IF more = <<>> THEN e ELSE more[Len(more)]
  BY <1>1
<1> QED BY <1>2, <1>3 DEF End, Last

\* The comment with which the thread has grown is nobody's yet.
LEMMA NewComment ==
    ASSUME Sound, NEW d \in Later(db, db.iterations),
           d.rows = db.rows, d.comment_ids = db.comment_ids,
           Len(d.comments) = Len(db.comments) + 1
    PROVE  LET c == Len(d.comments)
           IN /\ c > 0 /\ c \in 1 .. Len(d.comments)
              /\ c \notin covered_comment_ids(d) /\ c \notin covered_comment_ids(db)
              /\ \A t \in Tasks : \A b \in d.comment_ids[t] : b < c
<1>1. Len(db.comments) \in Nat /\ Len(d.comments) \in Nat
  BY CommentsCounted DEF Sound, Later
<1>2. \A t \in Tasks : \A b \in d.comment_ids[t] : b \in 1 .. Len(db.comments)
  BY DEF Sound, Coherent, Covering
<1>3. \A t \in Tasks : \A b \in d.comment_ids[t] : b < Len(d.comments)
  BY <1>1, <1>2
<1>4. \A t \in Tasks : Len(d.comments) \notin d.comment_ids[t]
  <2> SUFFICES ASSUME NEW t \in Tasks, Len(d.comments) \in d.comment_ids[t]
               PROVE  FALSE
    OBVIOUS
  <2>1. Len(d.comments) < Len(d.comments)
    BY <1>3
  <2> QED BY <1>1, <2>1
<1>5. Len(d.comments) \notin covered_comment_ids(d)
  BY <1>4 DEF covered_comment_ids
<1>6. Len(d.comments) \notin covered_comment_ids(db)
  BY <1>4 DEF covered_comment_ids
<1>7. Len(d.comments) > 0 /\ Len(d.comments) \in 1 .. Len(d.comments)
  BY <1>1
<1> QED BY <1>3, <1>5, <1>6, <1>7

\* on_comment without an interrupt: nothing, a task of its own, or a place in
\* the queued one.
LEMMA CommentCommits ==
    ASSUME Sound, NEW d \in Later(db, db.iterations),
           d.rows = db.rows, d.comment_ids = db.comment_ids,
           Len(d.comments) = Len(db.comments) + 1,
           Interrupts(d, Len(d.comments)) = {}
    PROVE  LET more == on_comment_commits(d, Len(d.comments))
           IN /\ more \in Seq(Later(db, db.iterations))
              /\ KeepsRows(db, End(d, more))
<1> DEFINE c == Len(d.comments)
           task == active_for_thread(d)
           more == on_comment_commits(d, c)
<1>1. /\ c > 0 /\ c \in 1 .. Len(d.comments) /\ c \in Nat /\ Len(d.comments) \in Nat
      /\ c \notin covered_comment_ids(d) /\ c \notin covered_comment_ids(db)
  BY NewComment
<1> HIDE DEF more, task, c
<1>2. CASE more = <<>>
  <2>1. more \in Seq(Later(db, db.iterations)) /\ End(d, more) = d
    BY <1>2 DEF End
  <2> QED BY <2>1 DEF KeepsRows, more, c
<1>3. CASE more = submit_commits(d, {c})
  <2>1. idempotency_key({c}) = c
    <3>1. c \in Nat /\ {c} \subseteq 1 .. c /\ {c} # {}
      BY <1>1
    <3>2. idempotency_key({c}) \in {c}
      BY <3>1, KeyIsNewest
    <3> QED BY <3>2
  <2>2. Submittable(d, {c}) /\ Clean(db, {c})
    BY <1>1, <2>1 DEF Submittable, Clean, covered_comment_ids
  <2>3. /\ submit_commits(d, {c}) \in Seq(Later(db, db.iterations))
        /\ submit_commits(d, {c}) # <<>>
        /\ KeepsRows(d, Last(submit_commits(d, {c})))
    BY <2>2, SubmitCommits
  <2> QED BY <1>3, <2>3 DEF End, KeepsRows, more, c
<1>4. CASE task # NoTask /\ d.rows[task].state = "queued" /\ more = <<coalesce_comment(d, task, c)>>
  <2>1. task \in Tasks
    BY <1>4, ActiveIsLive DEF task
  <2>2. /\ coalesce_comment(d, task, c) \in Later(db, db.iterations)
        /\ coalesce_comment(d, task, c).rows = d.rows
    BY <1>1, <1>4, <2>1, LaterCoalesced DEF c
  <2>3. /\ more \in Seq(Later(db, db.iterations))
        /\ End(d, more) = coalesce_comment(d, task, c)
    BY <1>4, <2>2 DEF End, Last
  <2> QED BY <2>2, <2>3 DEF KeepsRows, more, c
<1>5. \/ more = <<>>
      \/ more = submit_commits(d, {c})
      \/ /\ task # NoTask /\ d.rows[task].state = "queued"
         /\ more = <<coalesce_comment(d, task, c)>>
  <2>1. CASE c \notin asks(d)
    BY <2>1 DEF on_comment_commits, more
  <2>2. CASE c \in asks(d) /\ (task = NoTask \/ d.status \notin InFlightStatuses)
    BY <2>2 DEF on_comment_commits, more, task
  <2>3. CASE c \in asks(d) /\ task # NoTask /\ d.status \in InFlightStatuses
    <3>1. ~(d.rows[task].state = "running" /\ d.status \in InterruptibleStatuses)
      BY <2>3, ActiveIsLive DEF Interrupts, task, c
    <3> QED BY <2>3, <3>1 DEF on_comment_commits, more, task
  <2> QED BY <2>1, <2>2, <2>3
<1> QED BY <1>2, <1>3, <1>4, <1>5

\* on_comment with an interrupt: the task is cancelled, and what it covered is
\* combined with the new comment.
LEMMA InterruptCommits ==
    ASSUME Sound, NEW d \in Later(db, db.iterations),
           d.rows = db.rows, d.comment_ids = db.comment_ids,
           Len(d.comments) = Len(db.comments) + 1,
           NEW t \in Interrupts(d, Len(d.comments))
    PROVE  LET more == on_comment_commits(d, Len(d.comments))
               e == End(d, more)
               d1 == with_rows(d, cancel(d.rows, t))
               ids == d.comment_ids[t] \cup {Len(d.comments)}
           IN /\ t \in Tasks
              /\ more \in Seq(Later(db, db.iterations))
              /\ d1 \in Later(db, db.iterations)
              /\ Submittable(d1, ids) /\ e = Submitted(d1, ids)
              /\ Cancelled(e, t)
              /\ \A u \in Tasks : u # t /\ db.rows[u].state # "none" =>
                    e.rows[u] = db.rows[u]
<1> DEFINE c == Len(d.comments)
           R == cancel(d.rows, t)
           d1 == with_rows(d, R)
           ids == d.comment_ids[t] \cup {c}
           rest == submit_commits(d1, ids)
           more == on_comment_commits(d, c)
<1>1. /\ c > 0 /\ c \in 1 .. Len(d.comments) /\ c \in Nat
      /\ c \notin covered_comment_ids(d) /\ c \notin covered_comment_ids(db)
      /\ \A u \in Tasks : \A b \in d.comment_ids[u] : b < c
  BY NewComment
<1>2. /\ t \in Tasks /\ db.rows[t].state = "running" /\ t \in Live(d.rows)
      /\ more = <<d1>> \o rest
  <2>1. /\ t \in Live(d.rows) /\ c \in asks(d) /\ t = active_for_thread(d)
        /\ d.rows[t].state = "running" /\ d.status \in InterruptibleStatuses
    BY DEF Interrupts
  <2>2. t \in Tasks /\ t # NoTask
    BY <2>1, NoTaskAssumption DEF Live, InState
  <2>3. d.status \in InFlightStatuses
    BY <2>1 DEF InterruptibleStatuses, InFlightStatuses
  <2> QED BY <2>1, <2>2, <2>3 DEF on_comment_commits
<1> HIDE DEF more
<1>3. GoodTable(db.rows) /\ db.rows \in Table /\ Coherent(d)
  BY DEF Sound, Coherent, GoodTable, Later
<1>4. GoodTable(R)
  BY <1>2, <1>3, CancelKeepsGood
<1>5. /\ R[t].state = "cancelled" /\ R[t].attempts = db.rows[t].attempts
      /\ \A u \in Tasks : u # t => R[u] = db.rows[u]
  BY <1>2, <1>3 DEF cancel, Table, Row
<1>6. Moved(db.rows[t], R[t], Oldest(db, t))
  BY <1>2, <1>5 DEF Moved
<1> HIDE DEF R
<1>7. /\ d1 \in Later(db, db.iterations) /\ d1.rows = R
      /\ d1.comment_ids = d.comment_ids /\ d1.comments = d.comments
  BY <1>2, <1>4, <1>5, <1>6, LaterRow
<1> HIDE DEF d1
<1>8. d.comment_ids[t] \subseteq 1 .. c
  BY <1>2, <1>3 DEF Coherent, Covering
<1>9. Submittable(d1, ids)
  <2>1. ids # {} /\ ids \subseteq 1 .. c
    BY <1>1, <1>8
  <2>2. idempotency_key(ids) = c
    <3>1. idempotency_key(ids) \in ids /\ c <= idempotency_key(ids)
      BY <1>1, <2>1, KeyIsNewest
    <3> QED BY <1>1, <2>1, <3>1
  <2>3. c \notin covered_comment_ids(d1)
    BY <1>1, <1>7 DEF covered_comment_ids
  <2>4. ASSUME NEW u \in Tasks, d1.comment_ids[u] \cap ids # {}
        PROVE  Cancelled(d1, u)
    <3>1. CASE u = t
      BY <1>5, <1>7, <3>1 DEF Cancelled
    <3>2. CASE u # t
      <4>1. c \notin d.comment_ids[u]
        BY <1>1 DEF covered_comment_ids
      <4>2. d.comment_ids[u] \cap d.comment_ids[t] # {}
        BY <1>7, <2>4, <4>1
      <4>3. Cancelled(d, u)
        BY <1>2, <1>3, <3>2, <4>2 DEF Coherent, Covering, Cancelled
      <4> QED BY <1>5, <1>7, <3>2, <4>3 DEF Cancelled
    <3> QED BY <3>1, <3>2
  <2> QED BY <1>7, <2>1, <2>2, <2>3, <2>4 DEF Submittable
<1>10. Clean(db, ids)
  BY <1>1, <1>2 DEF Clean, Cancelled
<1> HIDE DEF ids
<1>11. /\ rest \in Seq(Later(db, db.iterations)) /\ rest # <<>>
       /\ KeepsRows(d1, Last(rest)) /\ Last(rest) = Submitted(d1, ids)
  BY <1>7, <1>9, <1>10, SubmitCommits
<1> HIDE DEF rest
<1>12. /\ more \in Seq(Later(db, db.iterations)) /\ End(d, more) = Last(rest)
  <2>1. /\ more \in Seq(Later(db, db.iterations)) /\ End(db, more) = End(d1, rest)
    BY <1>2, <1>7, <1>11, FirstCommit
  <2>2. more # <<>>
    BY <1>2, <1>7, <1>11
  <2> QED BY <1>11, <2>1, <2>2 DEF End
<1>13. ASSUME NEW u \in Tasks, db.rows[u].state # "none"
       PROVE  Last(rest).rows[u] = R[u]
  <2>1. d1.rows[u].state # "none"
    BY <1>2, <1>5, <1>7, <1>13
  <2> QED BY <1>7, <1>11, <2>1 DEF KeepsRows
<1>14. End(d, more) = Submitted(d1, ids)
  BY <1>11, <1>12
<1> QED BY <1>2, <1>5, <1>7, <1>9, <1>12, <1>13, <1>14 DEF Cancelled, more, d1, ids, R

LEMMA CommentIsSound ==
    ASSUME Sound, post_comment
    PROVE  Sound' /\ Followed
<1> DEFINE append(agent, sha) == append_comment(db, agent, sha)
           tasks(d) == Interrupts(d, Len(d.comments))
           more(d) == on_comment_commits(d, Len(d.comments))
           memory(d) == IF tasks(d) = {} THEN proc ELSE interrupted(CHOOSE t \in tasks(d) : TRUE)
<1>1. PICK agent \in BOOLEAN, sha \in Int :
            Turn(<<append(agent, sha)>> \o more(append(agent, sha)), memory(append(agent, sha)))
  BY DEF post_comment
<1>2. Coherent(db) /\ db \in Database /\ Len(db.comments) < MaxComments
  BY DEF Sound, Coherent, post_comment
<1> DEFINE d == append(agent, sha)
<1>3. /\ d \in Later(db, db.iterations)
      /\ d.rows = db.rows /\ d.comment_ids = db.comment_ids
      /\ Len(d.comments) = Len(db.comments) + 1
  <2>1. d \in Later(db, db.iterations)
    BY <1>2, LaterComment
  <2>2. /\ d.rows = db.rows /\ d.comment_ids = db.comment_ids
        /\ Len(d.comments) = Len(db.comments) + 1
    BY <1>2, AppendComment
  <2> QED BY <2>1, <2>2
<1> HIDE DEF append, d
<1>4. Turn(<<d>> \o more(d), memory(d))
  BY <1>1 DEF d
<1>5. /\ more(d) \in Seq(Later(db, db.iterations))
      /\ memory(d) \in Process /\ Minds(End(d, more(d)), memory(d))
  <2>1. CASE tasks(d) = {}
    <3>1. more(d) \in Seq(Later(db, db.iterations)) /\ KeepsRows(db, End(d, more(d)))
      BY <1>3, <2>1, CommentCommits
    <3>2. End(d, more(d)) \in Later(db, db.iterations)
      BY <1>3, <3>1, EndIsLater
    <3>3. Minds(End(d, more(d)), proc)
      BY <3>1, <3>2, KeepsMinds DEF Sound
    <3> QED BY <2>1, <3>1, <3>3 DEF Sound, TypeOK
  <2>2. CASE tasks(d) # {}
    <3>1. PICK t \in tasks(d) : memory(d) = interrupted(t)
      BY <2>2
    <3>2. /\ t \in Tasks
          /\ more(d) \in Seq(Later(db, db.iterations))
          /\ Cancelled(End(d, more(d)), t)
          /\ \A u \in Tasks : u # t /\ db.rows[u].state # "none" =>
                End(d, more(d)).rows[u] = db.rows[u]
      BY <1>3, InterruptCommits
    <3>3. End(d, more(d)) \in Later(db, db.iterations)
      BY <1>3, <3>2, EndIsLater
    <3>4. interrupted(t) \in Process /\ Minds(End(d, more(d)), interrupted(t))
      BY <3>2, <3>3, InterruptMinds
    <3> QED BY <3>1, <3>2, <3>4
  <2> QED BY <2>1, <2>2
<1> HIDE DEF more, memory
<1>6. /\ <<d>> \o more(d) \in Seq(Later(db, db.iterations))
      /\ End(db, <<d>> \o more(d)) = End(d, more(d))
  BY <1>3, <1>5, FirstCommit
<1>7. renounced' = renounced /\ approved' \subseteq Nat /\ shipped' \subseteq Nat
  BY DEF post_comment, Sound, TypeOK
<1> QED BY <1>4, <1>5, <1>6, <1>7, TurnIsSound

-----------------------------------------------------------------------------
(* Every step. *)

LEMMA SoundStep == Sound /\ [Next]_vars => Sound' /\ Followed
<1> SUFFICES ASSUME Sound, [Next]_vars PROVE Sound' /\ Followed
  OBVIOUS
<1>1. CASE UNCHANGED vars
  <2>1. db \in Later(db, db.iterations)
    BY LaterSelf DEF Sound
  <2>2. Sound'
    BY <1>1 DEF vars, Sound, TypeOK
  <2> QED BY <1>1, <2>1, <2>2 DEF vars, Followed
<1>2. CASE boot \/ crash \/ post_comment \/ cancel_run \/ sweep
  BY <1>2, BootIsSound, CrashIsSound, CommentIsSound, CancelIsSound, SweepIsSound
<1>3. CASE \E sha \in DOMAIN db.iterations : approve(sha)
  BY <1>3, ApproveIsSound
<1>4. CASE \E t \in Tasks : requeue_from_dlq_task(t) \/ lease_lapses(t)
  BY <1>4, RequeueIsSound, LapseIsSound
<1>5. ASSUME NEW w \in Workers,
             \/ \E t \in Tasks : claim(w, t)
             \/ begins(w) \/ redelivered(w) \/ progresses(w) \/ raises(w) \/ lands(w)
             \/ deadline(w) \/ resumes(w)
      PROVE  Sound' /\ Followed
  BY <1>5, ClaimIsSound, BeginsIsSound, RedeliveredIsSound, ProgressesIsSound,
     RaisesIsSound, LandsIsSound, DeadlineIsSound, ResumesIsSound
<1>6. CASE \E f \in Flows : flow_step(f)
  BY <1>6, FlowIsSound
<1> QED BY <1>1, <1>2, <1>3, <1>4, <1>5, <1>6 DEF Next

\* The types of the database and of the memory, whatever is torn.
THEOREM RunnerTypes == Spec => []TypeOK
<1>1. Sound => TypeOK
  BY DEF Sound
<1> QED BY <1>1, SoundInit, SoundStep, PTL DEF Spec

\* "exactly-once effect": no two iterations have the same newest ask, however
\* often a task is delivered and wherever the process dies.
THEOREM OneIterationForAKey == Spec => []OneIterationPerKey
<1>1. Sound => OneIterationPerKey
  BY DEF Sound, Coherent, Addressing, OneIterationPerKey
<1> QED BY <1>1, SoundInit, SoundStep, PTL DEF Spec

\* What a step adds to the iterations is what a deployed run worked on.
LEMMA NewIteration ==
    ASSUME Sound, Followed, NEW i \in DOMAIN db'.iterations \ DOMAIN db.iterations
    PROVE  \E w \in Workers : /\ proc.phase[w] = "deploying"
                             /\ db'.iterations[i].parent = proc.parent[w]
                             /\ db'.iterations[i].comment_ids = proc.ids[w]
<1>1. PICK w \in Workers : proc.phase[w] = "deploying" /\ db'.iterations = LandedOf(w)
  BY DEF Followed, Later
<1> DEFINE it == [parent |-> proc.parent[w], comment_ids |-> proc.ids[w]]
<1>2. /\ it \in Iteration /\ it.comment_ids = proc.ids[w] /\ it.parent = proc.parent[w]
      /\ db.iterations \in Seq(Iteration)
  BY CommentsCounted DEF Sound, TypeOK, Process, Iteration
<1>3. db'.iterations = Append(db.iterations, it)
  BY <1>1 DEF LandedOf
<1> HIDE DEF it
<1>4. db'.iterations[i] = it
  <2>1. /\ DOMAIN db'.iterations = 1 .. Len(db.iterations) + 1
        /\ DOMAIN db.iterations = 1 .. Len(db.iterations)
        /\ db'.iterations[Len(db.iterations) + 1] = it
        /\ Len(db.iterations) \in Nat
    BY <1>2, <1>3
  <2>2. i = Len(db.iterations) + 1
    BY <2>1
  <2> QED BY <2>1, <2>2
<1> QED BY <1>1, <1>2, <1>4

\* "a cancelled ask is never resurrected": what lands is a running task's, and
\* no running task covers what the user renounced.
THEOREM RenouncedNeverLand == Spec => RenouncedStayRenounced
<1> DEFINE Kept == \A i \in DOMAIN db'.iterations \ DOMAIN db.iterations :
                        db'.iterations[i].comment_ids \cap renounced = {}
<1>1. Sound /\ Followed => Kept
  <2> SUFFICES ASSUME Sound, Followed, NEW i \in DOMAIN db'.iterations \ DOMAIN db.iterations
               PROVE  db'.iterations[i].comment_ids \cap renounced = {}
    OBVIOUS
  <2>1. PICK w \in Workers : /\ proc.phase[w] = "deploying"
                             /\ db'.iterations[i].comment_ids = proc.ids[w]
    BY NewIteration
  <2>2. /\ proc.held[w] \in Tasks /\ proc.ids[w] = db.comment_ids[proc.held[w]]
        /\ db.rows[proc.held[w]].state = "running"
    BY <2>1 DEF Sound, Minds, Delivered, Busy, ActivePhases
  <2>3. proc.ids[w] \cap renounced = {}
    BY <2>2 DEF Sound, Honest, Cancelled
  <2> QED BY <2>1, <2>3
<1>2. Sound /\ [Next]_vars => [Kept]_vars
  BY <1>1, SoundStep
<1>3. Spec => [][Kept]_vars
  <2> HIDE DEF Kept
  <2> QED BY <1>2, SoundInit, SoundStep, PTL DEF Spec
<1> QED BY <1>3 DEF RenouncedStayRenounced

-----------------------------------------------------------------------------
(* The runner implements TaskLifecycle. *)

\* A database that follows from the one before it leads every task a step of
\* its life further, or leaves it where it is.
LEMMA RunnerSteps ==
    ASSUME Sound, Sound', Followed
    PROVE  Lifecycle!Next
<1> DEFINE St == [t \in Tasks |-> db.rows[t].state]
           At == [t \in Tasks |-> db.rows[t].attempts]
           St2 == [t \in Tasks |-> db'.rows[t].state]
           At2 == [t \in Tasks |-> db'.rows[t].attempts]
<1>1. db.rows \in Table /\ db'.rows \in Table
  BY DEF Sound, Coherent, GoodTable
<1>2. \A t \in Tasks : Moved(db.rows[t], db'.rows[t], Oldest(db, t))
  BY DEF Followed, Later, After
<1>3. St2 \in [Tasks -> Lifecycle!States] /\ At2 \in [Tasks -> Nat]
  BY <1>1, MaxAttemptsAssumption DEF Table, Row, States, Lifecycle!States
<1>4. ASSUME NEW t \in Tasks
      PROVE  \/ Lifecycle!Stay(t) \/ Lifecycle!Submit(t) \/ Lifecycle!Deliver(t)
             \/ Lifecycle!Finish(t) \/ Lifecycle!GiveBack(t)
             \/ Lifecycle!Cancel(t) \/ Lifecycle!Replay(t)
  <2>1. /\ St[t] = db.rows[t].state /\ St2[t] = db'.rows[t].state
        /\ At[t] = db.rows[t].attempts /\ At2[t] = db'.rows[t].attempts
    OBVIOUS
  <2>2. Oldest(db, t) => \A u \in Tasks : St[u] = "queued" => t <= u
    BY DEF Oldest
  <2> QED BY <1>2, <2>1, <2>2
          DEF Moved, Lifecycle!Stay, Lifecycle!Submit, Lifecycle!Deliver,
              Lifecycle!Finish, Lifecycle!GiveBack, Lifecycle!Cancel,
              Lifecycle!Replay, Lifecycle!Edge, Lifecycle!Counting
<1> QED BY <1>3, <1>4 DEF Lifecycle!Next

\* Comments, interrupts, cancels, drains and torn turns included, the runner
\* leads every task through the life TaskLifecycle promises.
THEOREM RunnerImplementsLifecycle == Spec => LifecycleSpec
<1>1. Init => Lifecycle!Init
  BY DEF Init, Lifecycle!Init, NewThread, EmptyTable, NoRow
<1>2. Sound /\ [Next]_vars => [Lifecycle!Next]_(Lifecycle!vars)
  BY SoundStep, RunnerSteps
<1> QED BY <1>1, <1>2, SoundInit, SoundStep, PTL DEF Spec, LifecycleSpec, Lifecycle!Spec
-----------------------------------------------------------------------------
(* A thread nothing went wrong with: no crash, no replay, and nothing that   *)
(* comes in between a failed run and its worker.                             *)

Smooth == QuietFailures /\ MaxCrashes = 0 /\ MaxReplays = 0

\* Version parent is the newest preview, or one that one of the asks was made on.
Branched(d, parent, ids) ==
    parent = d.preview_sha \/ \E c \in ids : d.comments[c].sha = parent

\* What each phase of a run says of its task and of the thread.
RunInOrder(d, m, w) ==
    /\ m.phase[w] = "ok" => already_applied(d, m.ids[w])
    /\ m.phase[w] = "error" => d.rows[m.held[w]].state = "running"
    /\ m.phase[w] = "cancelled" =>
        (m.timed_out[w] <=> d.rows[m.held[w]].state = "running")
    /\ m.timed_out[w] => m.phase[w] \notin ActivePhases
    /\ m.phase[w] \in AtWork =>
        d.status = m.phase[w] /\ Branched(d, m.parent[w], m.ids[w])

\* A task whose work has landed waits for its worker to take note.
Attended(d, m) ==
    \A t \in Lingering(d) : \E w \in Workers : m.phase[w] = "ok" /\ m.held[w] = t

WorkInOrder(d, m) ==
    Ordered(d) /\ Attended(d, m) /\ \A w \in Workers : RunInOrder(d, m, w)

\* A flow works on a version that was approved, for a thread that waits for it.
FlowInOrder(d, flow, A) ==
    /\ d.status = "pr_open"
    /\ flow.at \in {"approved", "opening", "ci", "merging"}
    /\ flow.at = "approved" => d.preview_sha \in A
    /\ flow.at # "approved" => flow.sha \in A
    /\ flow.at \in {"ci", "merging"} => d.pr_url # 0

FlowsInOrder(d, m, A, S) ==
    /\ \A e, f \in Flows : m.flows[e].at # "none" /\ m.flows[f].at # "none" => e = f
    /\ \A f \in Flows : m.flows[f].at # "none" => FlowInOrder(d, m.flows[f], A)
    /\ d.status = "pr_open" /\ d.pr_url = 0 => \E f \in Flows : m.flows[f].at # "none"
    /\ 0 \notin A /\ S \subseteq A

Calm == WorkInOrder(db, proc) /\ FlowsInOrder(db, proc, approved, shipped)

\* A step to a calm state that reopens no closed thread and that, if it is a
\* comment, cancels no run past the cutoff.
CalmStep ==
    /\ Calm' /\ proc'.up
    /\ db.status \in ClosedStatuses /\ db'.status # db.status =>
        <<db.status, db'.status>> \in
            {<<"pr_open", "merged">>, <<"pr_open", "done">>,
             <<"pr_open", "preview_ready">>, <<"merged", "done">>}
    /\ Len(db'.comments) > Len(db.comments) =>
        \A w \in Workers : proc.phase[w] \in {"coding", "deploying"} =>
                                proc'.phase[w] # "cancelled"

\* Nobody dies in the middle of a turn.
LEMMA WholeTurn ==
    ASSUME Smooth, Sound, NEW commits, NEW after, NEW spent,
           TurnSpending(commits, after, spent)
    PROVE  db' = End(db, commits) /\ proc' = after
<1>1. ~(used.crashes < MaxCrashes)
  BY DEF Smooth, Sound, TypeOK
<1> QED BY <1>1 DEF TurnSpending, End

LEMMA LastOfTwo == ASSUME NEW d, NEW x, NEW y PROVE End(d, <<x, y>>) = y
BY DEF End, Last

LEMMA OneCommitTurn ==
    ASSUME Smooth, Sound, NEW x, NEW after, Turn(<<x>>, after)
    PROVE  db' = x /\ proc' = after
<1>1. End(db, <<x>>) = x
  BY DEF End, Last
<1> QED BY <1>1, WholeTurn DEF Turn

\* A run that goes on holds the task with work to do.
LEMMA RunningIsOpen ==
    ASSUME Sound, Calm, NEW w \in Workers, proc.phase[w] \in Busy, proc.phase[w] # "ok",
           db.rows[proc.held[w]].state = "running"
    PROVE  proc.held[w] \in Open(db)
<1> DEFINE t == proc.held[w]
<1>1. t \in Tasks /\ proc.running[t] = w
  BY DEF Sound, Minds
<1>2. t \in Live(db.rows)
  BY <1>1 DEF Live, InState
<1> SUFFICES ASSUME Applied(db, t) PROVE FALSE
  BY <1>2 DEF Open
<1>3. PICK v \in Workers : proc.phase[v] = "ok" /\ proc.held[v] = t
  BY <1>2 DEF Calm, WorkInOrder, Attended, Lingering
<1>4. proc.running[t] = v
  BY <1>3 DEF Sound, Minds, Busy, EndedPhases
<1> QED BY <1>1, <1>3, <1>4

LEMMA ActiveIsOpen ==
    ASSUME Sound, Calm, NEW w \in Workers, proc.phase[w] \in ActivePhases
    PROVE  /\ proc.held[w] \in Open(db) /\ db.rows[proc.held[w]].state = "running"
           /\ proc.running[proc.held[w]] = w
           /\ ~proc.timed_out[w]
<1>1. proc.phase[w] \in Busy /\ proc.phase[w] # "ok"
  BY DEF Busy, ActivePhases
<1>2. db.rows[proc.held[w]].state = "running" /\ proc.running[proc.held[w]] = w
  BY <1>1 DEF Sound, Minds, Delivered
<1>3. ~proc.timed_out[w]
  BY DEF Calm, WorkInOrder, RunInOrder
<1> QED BY <1>1, <1>2, <1>3, RunningIsOpen

\* So no other run goes on.
LEMMA NobodyElse ==
    ASSUME Sound, Calm, NEW t \in Open(db), NEW w \in Workers, proc.running[t] # w
    PROVE  proc.phase[w] \notin ActivePhases /\ proc.phase[w] \notin AtWork
<1>1. AtWork \subseteq ActivePhases
  BY DEF AtWork, ActivePhases
<1> SUFFICES ASSUME proc.phase[w] \in ActivePhases PROVE FALSE
  BY <1>1
<1>2. proc.held[w] \in Open(db) /\ proc.running[proc.held[w]] = w
  BY ActiveIsOpen
<1>3. proc.held[w] = t
  BY <1>2, OneOpen DEF Calm, WorkInOrder, Ordered
<1> QED BY <1>2, <1>3

LEMMA NobodyAtWork ==
    ASSUME Sound, Calm, Open(db) = {} \/ \E t \in Open(db) : db.rows[t].state # "running"
    PROVE  \A w \in Workers : proc.phase[w] \notin ActivePhases /\ proc.phase[w] \notin AtWork
<1>1. AtWork \subseteq ActivePhases
  BY DEF AtWork, ActivePhases
<1> SUFFICES ASSUME NEW w \in Workers, proc.phase[w] \in ActivePhases PROVE FALSE
  BY <1>1
<1>2. proc.held[w] \in Open(db) /\ db.rows[proc.held[w]].state = "running"
  BY ActiveIsOpen
<1> QED BY <1>2, OneOpen DEF Calm, WorkInOrder, Ordered

-----------------------------------------------------------------------------
(* What keeps a thread calm. *)

\* Memory n differs from the present one in the run of w only.
Besides(n, w) ==
    /\ n.flows = proc.flows /\ n.up = proc.up
    /\ \A v \in Workers : v # w =>
        /\ n.phase[v] = proc.phase[v] /\ n.held[v] = proc.held[v]
        /\ n.timed_out[v] = proc.timed_out[v]
        /\ n.ids[v] = proc.ids[v] /\ n.parent[v] = proc.parent[v]

SameView(d, e) ==
    /\ e.status = d.status /\ e.preview_sha = d.preview_sha
    /\ \A c \in 1 .. Len(d.comments) : e.comments[c] = d.comments[c]

\* The run w takes a step, or is none.
LEMMA WorkIsCalm ==
    ASSUME Sound, Calm, proc.up, NEW w \in Workers \cup {NoWorker},
           Besides(proc', w), approved' = approved, shipped' = shipped,
           Ordered(db'), addressed(db) \subseteq addressed(db'),
           \A v \in Workers : v # w /\ proc.phase[v] \in Busy =>
                db'.rows[proc.held[v]].state = db.rows[proc.held[v]].state,
           \/ SameView(db, db')
           \/ \A v \in Workers : v # w => proc.phase[v] \notin AtWork,
           w \in Workers => RunInOrder(db', proc', w),
           \A t \in Lingering(db') :
                \/ w \in Workers /\ proc'.phase[w] = "ok" /\ proc'.held[w] = t
                \/ /\ t \in Lingering(db)
                   /\ ~(w \in Workers /\ proc.phase[w] = "ok" /\ proc.held[w] = t),
           \/ /\ db'.status = db.status /\ db'.pr_url = db.pr_url
              /\ db'.preview_sha = db.preview_sha
           \/ db.status # "pr_open" /\ db'.status # "pr_open"
    PROVE  Calm' /\ proc'.up
<1>1. ASSUME NEW v \in Workers, v # w
      PROVE  RunInOrder(db', proc', v)
  <2>1. /\ proc'.phase[v] = proc.phase[v] /\ proc'.held[v] = proc.held[v]
        /\ proc'.timed_out[v] = proc.timed_out[v]
        /\ proc'.ids[v] = proc.ids[v] /\ proc'.parent[v] = proc.parent[v]
    BY <1>1 DEF Besides
  <2>2. RunInOrder(db, proc, v)
    BY DEF Calm, WorkInOrder
  <2>3. proc.phase[v] = "ok" => already_applied(db', proc.ids[v])
    BY <2>2 DEF RunInOrder, already_applied
  <2>4. proc.phase[v] \in {"error", "cancelled"} =>
            db'.rows[proc.held[v]].state = db.rows[proc.held[v]].state
    BY <1>1 DEF Busy, EndedPhases
  <2>5. ASSUME proc.phase[v] \in AtWork
        PROVE  db'.status = proc.phase[v] /\ Branched(db', proc.parent[v], proc.ids[v])
    <3>1. SameView(db, db')
      BY <1>1, <2>5
    <3>2. proc.ids[v] \subseteq 1 .. Len(db.comments)
      <4>1. /\ proc.held[v] \in Tasks /\ proc.ids[v] = db.comment_ids[proc.held[v]]
        BY <2>5 DEF Sound, Minds, AtWork, Busy, ActivePhases
      <4> QED BY <4>1 DEF Sound, Coherent, Covering
    <3>3. db.status = proc.phase[v] /\ Branched(db, proc.parent[v], proc.ids[v])
      BY <2>2, <2>5 DEF RunInOrder
    <3> QED BY <3>1, <3>2, <3>3 DEF SameView, Branched
  <2> QED BY <2>1, <2>2, <2>3, <2>4, <2>5 DEF RunInOrder
<1>2. \A v \in Workers : RunInOrder(db', proc', v)
  BY <1>1
<1>3. ASSUME NEW t \in Lingering(db')
      PROVE  \E v \in Workers : proc'.phase[v] = "ok" /\ proc'.held[v] = t
  <2>1. CASE w \in Workers /\ proc'.phase[w] = "ok" /\ proc'.held[w] = t
    BY <2>1
  <2>2. CASE /\ t \in Lingering(db)
             /\ ~(w \in Workers /\ proc.phase[w] = "ok" /\ proc.held[w] = t)
    <3>1. PICK v \in Workers : proc.phase[v] = "ok" /\ proc.held[v] = t
      BY <2>2 DEF Calm, WorkInOrder, Attended
    <3>2. v # w
      BY <2>2, <3>1
    <3> QED BY <3>1, <3>2 DEF Besides
  <2> QED BY <2>1, <2>2
<1>4. WorkInOrder(db', proc')
  BY <1>2, <1>3 DEF WorkInOrder, Attended
<1>5. FlowsInOrder(db', proc', approved', shipped')
  <2>1. proc'.flows = proc.flows
    BY DEF Besides
  <2>2. FlowsInOrder(db, proc, approved, shipped)
    BY DEF Calm
  <2>3. CASE /\ db'.status = db.status /\ db'.pr_url = db.pr_url
             /\ db'.preview_sha = db.preview_sha
    BY <2>1, <2>2, <2>3 DEF FlowsInOrder, FlowInOrder
  <2>4. CASE db.status # "pr_open" /\ db'.status # "pr_open"
    BY <2>1, <2>2, <2>4 DEF FlowsInOrder, FlowInOrder
  <2> QED BY <2>3, <2>4
<1> QED BY <1>4, <1>5 DEF Calm, Besides

\* A calm state reached without a comment, from a thread that is not closed or
\* that keeps its status.
LEMMA CalmWithoutComment ==
    ASSUME Sound, Calm', proc'.up, db'.comments = db.comments,
           db'.status = db.status \/ db.status \notin ClosedStatuses
    PROVE  CalmStep
<1>1. ~(Len(db'.comments) > Len(db.comments))
  BY CommentsCounted DEF Sound
<1> QED BY <1>1 DEF CalmStep

\* A thread with work to do is in flight.
LEMMA OpenInFlight ==
    ASSUME Calm, NEW t \in Open(db)
    PROVE  /\ db.status \in InFlightStatuses
           /\ db.status # "pr_open" /\ db.status \notin ClosedStatuses
BY DEF Calm, WorkInOrder, Ordered, InFlightStatuses, ClosedStatuses

\* Another status on the same work.
LEMMA StatusOrdered ==
    ASSUME NEW d \in Database, Arranged(d), NEW status \in Statuses,
           status \in InFlightStatuses <=> Open(d) # {}
    PROVE  LET e == set_status(d, status)
           IN /\ Ordered(e) /\ Open(e) = Open(d) /\ Lingering(e) = Lingering(d)
              /\ SameWork(d, e) /\ SameVersions(d, e) /\ e.status = status
<1> DEFINE e == set_status(d, status)
<1>1. /\ SameWork(d, e) /\ e.status = status
      /\ e.preview_sha = d.preview_sha /\ e.pr_url = d.pr_url
  BY SetStatus DEF set_status, Database
<1> HIDE DEF e
<1>2. /\ Arranged(e) /\ Open(e) = Open(d) \cap Live(e.rows)
      /\ Lingering(e) = Lingering(d) \cap Live(e.rows)
  BY <1>1, FewerLive DEF SameWork
<1>3. Open(e) = Open(d) /\ Lingering(e) = Lingering(d)
  BY <1>1, <1>2 DEF SameWork, Open, Lingering
<1> QED BY <1>1, <1>2, <1>3 DEF Ordered, SameVersions, SameWork, e

-----------------------------------------------------------------------------
(* The PR flow of a calm thread. *)

\* n is m but for flow f.
Flowed(m, n, f, at, sha) ==
    /\ n.flows[f] = [at |-> at, sha |-> sha]
    /\ \A g \in Flows : g # f => n.flows[g] = m.flows[g]
    /\ n.up = m.up /\ n.phase = m.phase /\ n.held = m.held
    /\ n.timed_out = m.timed_out /\ n.ids = m.ids /\ n.parent = m.parent

LEMMA WithFlow ==
    ASSUME NEW m \in Process, NEW f \in Flows, NEW at \in FlowStages, NEW sha \in Nat
    PROVE  Flowed(m, with_flow(m, f, at, sha), f, at, sha)
<1> DEFINE flow == [at |-> at, sha |-> sha]
<1>1. flow \in [at : FlowStages, sha : Nat]
  OBVIOUS
<1> HIDE DEF flow
<1> QED BY <1>1 DEF with_flow, Process, flow, Flowed

\* A turn of the only flow, for a thread nothing is to be done for.
LEMMA FlowIsCalm ==
    ASSUME Sound, Calm, proc.up, Open(db) = {},
           NEW f \in Flows, NEW at \in FlowStages, NEW sha \in Nat,
           proc' = with_flow(proc, f, at, sha),
           \A g \in Flows : g # f => proc.flows[g].at = "none",
           SameWork(db, db'), db'.preview_sha = db.preview_sha,
           db'.status \notin InFlightStatuses,
           at # "none" => FlowInOrder(db', [at |-> at, sha |-> sha], approved'),
           at = "none" => ~(db'.status = "pr_open" /\ db'.pr_url = 0),
           0 \notin approved', shipped' \subseteq approved'
    PROVE  Calm' /\ proc'.up
<1> DEFINE flow == [at |-> at, sha |-> sha]
<1>1. /\ proc'.flows[f] = flow
      /\ \A g \in Flows : g # f => proc'.flows[g] = proc.flows[g]
      /\ proc'.up = proc.up /\ proc'.phase = proc.phase /\ proc'.held = proc.held
      /\ proc'.timed_out = proc.timed_out /\ proc'.ids = proc.ids
  <2>1. proc \in Process
    BY DEF Sound, TypeOK
  <2>2. Flowed(proc, proc', f, at, sha)
    BY <2>1, WithFlow
  <2> QED BY <2>2 DEF Flowed
<1>2. /\ Arranged(db') /\ Open(db') = Open(db) \cap Live(db'.rows)
      /\ Lingering(db') = Lingering(db) \cap Live(db'.rows)
  BY FewerLive DEF SameWork, Calm, WorkInOrder, Ordered
<1>3. Ordered(db')
  BY <1>2 DEF Ordered
<1>4. Attended(db', proc')
  BY <1>1, <1>2 DEF Attended, Calm, WorkInOrder
<1>5. ASSUME NEW w \in Workers PROVE RunInOrder(db', proc', w)
  <2>1. proc.phase[w] \notin AtWork
    BY NobodyAtWork
  <2>2. addressed(db') = addressed(db)
    BY DEF SameWork, addressed
  <2>3. RunInOrder(db, proc, w)
    BY DEF Calm, WorkInOrder
  <2> QED BY <1>1, <2>1, <2>2, <2>3 DEF RunInOrder, already_applied, SameWork
<1>6. flow.at = at
  OBVIOUS
<1>7. FlowsInOrder(db', proc', approved', shipped')
  <2> HIDE DEF flow
  <2>1. \A g \in Flows : proc'.flows[g].at # "none" => g = f /\ at # "none"
    BY <1>1, <1>6
  <2>2. \A g \in Flows : proc'.flows[g].at # "none" => FlowInOrder(db', proc'.flows[g], approved')
    BY <1>1, <2>1 DEF flow
  <2>3. db'.status = "pr_open" /\ db'.pr_url = 0 => \E g \in Flows : proc'.flows[g].at # "none"
    BY <1>1, <1>6
  <2> QED BY <2>1, <2>2, <2>3 DEF FlowsInOrder
<1> QED BY <1>1, <1>3, <1>4, <1>5, <1>7 DEF Calm, WorkInOrder

LEMMA FlowCalm ==
    ASSUME Smooth, Sound, Calm, proc.up, NEW f \in Flows, flow_step(f)
    PROVE  CalmStep
<1> DEFINE sha == proc.flows[f].sha
           at == proc.flows[f].at
<1>1. at # "none"
  BY DEF flow_step, flow_opens, flow_resumes, flow_opened, flow_not_opened,
         flow_merges, flow_stays_open, flow_merged
<1>2. FlowInOrder(db, proc.flows[f], approved)
  BY <1>1 DEF Calm, FlowsInOrder
<1>3. /\ sha \in Nat /\ db.preview_sha \in Nat /\ db \in Database
      /\ 0 \notin approved /\ shipped \subseteq approved
  BY DEF Sound, TypeOK, Process, Database, Calm, FlowsInOrder
<1>4. /\ db.status = "pr_open" /\ Open(db) = {}
      /\ at \in {"approved", "opening", "ci", "merging"}
      /\ at = "approved" => db.preview_sha \in approved
      /\ at # "approved" => sha \in approved
      /\ at \in {"ci", "merging"} => db.pr_url # 0
  BY <1>2 DEF FlowInOrder, Calm, WorkInOrder, Ordered, InFlightStatuses
<1>5. \A g \in Flows : g # f => proc.flows[g].at = "none"
  BY <1>1 DEF Calm, FlowsInOrder
<1> HIDE DEF at, sha
<1>6. {"none", "opening", "ci", "merging"} \subseteq FlowStages /\ 0 \in Nat
  BY DEF FlowStages
<1>7. "pr_open" \notin InFlightStatuses
  BY DEF InFlightStatuses
\* The flow goes on, or ends with its PR open.
<1>8. ASSUME NEW next \in {"none", "opening", "ci", "merging"}, NEW v \in Nat,
             Turn(<<>>, with_flow(proc, f, next, v)),
             next # "none" => v \in approved,
             next # "opening" => db.pr_url # 0,
             UNCHANGED <<approved, shipped>>
      PROVE  CalmStep
  <2>1. db' = db /\ proc' = with_flow(proc, f, next, v)
    BY <1>8, WholeTurn DEF Turn, End
  <2>2. next # "none" => FlowInOrder(db', [at |-> next, sha |-> v], approved')
    BY <1>4, <1>8, <2>1 DEF FlowInOrder
  <2>3. Calm' /\ proc'.up
    <3>1. SameWork(db, db')
      BY <2>1 DEF SameWork
    <3> QED BY <1>3, <1>4, <1>5, <1>6, <1>7, <1>8, <2>1, <2>2, <3>1, FlowIsCalm
  <2> QED BY <2>1, <2>3, CalmWithoutComment
\* The thread takes another status.
<1>9. ASSUME NEW status \in {"preview_ready", "done"},
             db' = set_status(db, status), proc' = with_flow(proc, f, "none", 0),
             approved' = approved, shipped' \subseteq approved
      PROVE  CalmStep
  <2>1. status \in Statuses /\ status \notin InFlightStatuses /\ status # "pr_open"
    BY DEF Statuses, InFlightStatuses, ClosedStatuses
  <2>2. SameWork(db, db') /\ db'.preview_sha = db.preview_sha /\ db'.status = status
    BY <1>3, <1>4, <1>9, <2>1, StatusOrdered DEF Calm, WorkInOrder, Ordered, SameVersions
  <2>3. Calm' /\ proc'.up
    BY <1>3, <1>4, <1>5, <1>6, <1>9, <2>1, <2>2, FlowIsCalm
  <2>4. ~(Len(db'.comments) > Len(db.comments))
    BY <2>2, CommentsCounted DEF Sound, SameWork
  <2> QED BY <1>4, <2>2, <2>3, <2>4 DEF CalmStep
<1>10. CASE flow_opens(f)
  BY <1>3, <1>4, <1>8, <1>10 DEF flow_opens, at
<1>11. CASE flow_resumes(f)
  BY <1>4, <1>11 DEF flow_resumes, at
<1>12. CASE flow_opened(f)
  <2>1. /\ at = "opening" /\ db' = set_pr_url(db, sha)
        /\ proc' = with_flow(proc, f, "ci", sha) /\ UNCHANGED <<approved, shipped>>
    BY <1>4, <1>12, WholeTurn DEF flow_opened, Turn, End, Last, at, sha
  <2>2. /\ SameWork(db, db') /\ db'.preview_sha = db.preview_sha
        /\ db'.status = db.status /\ db'.pr_url = sha
    BY <1>3, <2>1, SetPrUrl DEF set_pr_url, Database
  <2>3. FlowInOrder(db', [at |-> "ci", sha |-> sha], approved')
    BY <1>3, <1>4, <2>1, <2>2 DEF FlowInOrder
  <2>4. Calm' /\ proc'.up
    BY <1>3, <1>4, <1>5, <1>6, <1>7, <2>1, <2>2, <2>3, FlowIsCalm
  <2> QED BY <2>2, <2>4, CalmWithoutComment DEF SameWork
<1>13. CASE flow_not_opened(f)
  <2>1. /\ db' = approval_reverted(db) /\ proc' = with_flow(proc, f, "none", 0)
        /\ UNCHANGED <<approved, shipped>>
    BY <1>4, <1>13, WholeTurn DEF flow_not_opened, flow_ends, Turn, End, Last, at
  <2>2. db' = set_status(db, "preview_ready")
    BY <1>4, <2>1 DEF approval_reverted, transition, finds_row
  <2> QED BY <1>3, <1>9, <2>1, <2>2
<1>14. CASE flow_merges(f)
  BY <1>3, <1>4, <1>8, <1>14 DEF flow_merges, at, sha
<1>15. CASE flow_stays_open(f)
  BY <1>3, <1>4, <1>8, <1>15 DEF flow_stays_open, flow_ends, at
<1>16. CASE flow_merged(f)
  <2> DEFINE d1 == set_status(db, "merged")
             d2 == set_status(d1, "done")
  <2>3. /\ Turn(<<d1, d2>>, with_flow(proc, f, "none", 0)) /\ at = "merging"
        /\ approved' = approved /\ shipped' = shipped \cup {sha}
    BY <1>16 DEF flow_merged, flow_ends, at, sha
  <2>4. db' = End(db, <<d1, d2>>) /\ proc' = with_flow(proc, f, "none", 0)
    BY <2>3, WholeTurn DEF Turn
  <2>5. End(db, <<d1, d2>>) = d2
    BY LastOfTwo
  <2>1. /\ db' = set_status(set_status(db, "merged"), "done")
        /\ proc' = with_flow(proc, f, "none", 0)
        /\ approved' = approved /\ shipped' = shipped \cup {sha} /\ at = "merging"
    BY <2>3, <2>4, <2>5
  <2>2. db' = set_status(db, "done")
    BY <1>3, <2>1 DEF set_status, Database
  <2> QED BY <1>3, <1>4, <1>9, <2>1, <2>2
<1> QED BY <1>10, <1>11, <1>12, <1>13, <1>14, <1>15, <1>16 DEF flow_step

LEMMA ApproveCalm ==
    ASSUME Smooth, Sound, Calm, proc.up, NEW sha \in DOMAIN db.iterations, approve(sha)
    PROVE  CalmStep
<1>1. /\ db.status = "preview_ready" /\ sha # 0 /\ sha = db.preview_sha
      /\ approved' = approved \cup {sha} /\ shipped' = shipped
  BY DEF approve, reviewed, finds_row
<1>2. PICK f \in Flows : Turn(<<set_status(db, "pr_open")>>, with_flow(proc, f, "approved", 0))
  BY <1>1 DEF approve, FreeFlows, transition, finds_row
<1>3. db' = set_status(db, "pr_open") /\ proc' = with_flow(proc, f, "approved", 0)
  BY <1>2, OneCommitTurn
<1>4. db \in Database /\ Open(db) = {} /\ "pr_open" \in Statuses /\ "pr_open" \notin InFlightStatuses
  BY <1>1 DEF Sound, TypeOK, Calm, WorkInOrder, Ordered, InFlightStatuses,
              Statuses, ClosedStatuses
<1>5. SameWork(db, db') /\ db'.preview_sha = db.preview_sha /\ db'.status = "pr_open"
  BY <1>3, <1>4, StatusOrdered DEF Calm, WorkInOrder, Ordered, SameVersions
<1>6. \A g \in Flows : proc.flows[g].at = "none"
  BY <1>1 DEF Calm, FlowsInOrder, FlowInOrder
<1>7. "approved" \in FlowStages /\ 0 \notin approved' /\ shipped' \subseteq approved'
  BY <1>1 DEF FlowStages, Calm, FlowsInOrder
<1>8. FlowInOrder(db', [at |-> "approved", sha |-> 0], approved')
  BY <1>1, <1>5 DEF FlowInOrder
<1>9. Calm' /\ proc'.up
  BY <1>3, <1>4, <1>5, <1>6, <1>7, <1>8, FlowIsCalm
<1>10. db.status \notin ClosedStatuses
  BY <1>1 DEF ClosedStatuses
<1> QED BY <1>5, <1>9, <1>10, CalmWithoutComment DEF SameWork

-----------------------------------------------------------------------------
(* The runs of a calm thread. *)

\* Rows that move, none of them back to life.
LEMMA RowsArranged ==
    ASSUME NEW d \in Database, Arranged(d), NEW R \in Table,
           \A t \in Tasks : R[t].state = "none" <=> d.rows[t].state = "none",
           Live(R) \subseteq Live(d.rows),
           NEW e, e = with_rows(d, R)
    PROVE  /\ e \in Database /\ Arranged(e) /\ e.rows = R
           /\ Open(e) = Open(d) \cap Live(R) /\ Lingering(e) = Lingering(d) \cap Live(R)
           /\ SameVersions(d, e) /\ e.status = d.status /\ e.comment_ids = d.comment_ids
<1>1. /\ e \in Database /\ e.rows = R /\ e.comment_ids = d.comment_ids
      /\ SameVersions(d, e) /\ e.status = d.status
  BY WithRows DEF with_rows, Database, SameVersions
<1>2. /\ Arranged(e) /\ Open(e) = Open(d) \cap Live(e.rows)
      /\ Lingering(e) = Lingering(d) \cap Live(e.rows)
  BY <1>1, FewerLive DEF SameVersions
<1> QED BY <1>1, <1>2

\* The same, when every live row stays alive.
LEMMA RowsOrdered ==
    ASSUME Sound, Calm, NEW R \in Table,
           \A t \in Tasks : R[t].state = "none" <=> db.rows[t].state = "none",
           Live(R) = Live(db.rows), db' = with_rows(db, R)
    PROVE  /\ Ordered(db') /\ db'.rows = R /\ Lingering(db') = Lingering(db)
           /\ SameVersions(db, db') /\ db'.status = db.status
<1>1. db \in Database /\ Arranged(db)
  BY DEF Sound, TypeOK, Calm, WorkInOrder, Ordered
<1>2. /\ Arranged(db') /\ db'.rows = R
      /\ Open(db') = Open(db) \cap Live(R) /\ Lingering(db') = Lingering(db) \cap Live(R)
      /\ SameVersions(db, db') /\ db'.status = db.status
  BY <1>1, RowsArranged
<1>3. Open(db') = Open(db) /\ Lingering(db') = Lingering(db)
  BY <1>2 DEF Open, Lingering
<1> QED BY <1>2, <1>3 DEF Calm, WorkInOrder, Ordered

LEMMA SameVersionsSeen ==
    ASSUME NEW d, NEW e, SameVersions(d, e)
    PROVE  /\ e.status = d.status => SameView(d, e)
           /\ addressed(e) = addressed(d)
BY DEF SameVersions, SameView, addressed

\* A step of the run of w on the same work, under the status it says.
LEMMA RunIsCalm ==
    ASSUME Sound, Calm, proc.up, NEW w \in Workers,
           Besides(proc', w), UNCHANGED <<approved, shipped>>,
           Ordered(db'), SameVersions(db, db'), Lingering(db') = Lingering(db),
           \A v \in Workers : v # w /\ proc.phase[v] \in Busy =>
                db'.rows[proc.held[v]].state = db.rows[proc.held[v]].state,
           \/ db'.status = db.status
           \/ /\ proc.phase[w] \in ActivePhases
              /\ db'.status # "pr_open",
           RunInOrder(db', proc', w),
           proc.phase[w] = "ok" => proc'.phase[w] = "ok" /\ proc'.held[w] = proc.held[w]
    PROVE  CalmStep
<1>1. addressed(db') = addressed(db) /\ db'.comments = db.comments
  BY SameVersionsSeen DEF SameVersions
<1>2. CASE db'.status = db.status
  <2>1. SameView(db, db') /\ db'.pr_url = db.pr_url /\ db'.preview_sha = db.preview_sha
    BY <1>2, SameVersionsSeen DEF SameVersions
  <2>2. Calm' /\ proc'.up
    BY <1>1, <1>2, <2>1, WorkIsCalm
  <2> QED BY <1>1, <1>2, <2>2, CalmWithoutComment
<1>3. CASE proc.phase[w] \in ActivePhases /\ db'.status # "pr_open"
  <2>1. proc.held[w] \in Open(db) /\ proc.running[proc.held[w]] = w
    BY <1>3, ActiveIsOpen
  <2>2. \A v \in Workers : v # w => proc.phase[v] \notin AtWork
    BY <2>1, NobodyElse
  <2>3. db.status # "pr_open" /\ db.status \notin ClosedStatuses
    BY <2>1, OpenInFlight
  <2>4. Calm' /\ proc'.up
    BY <1>1, <1>3, <2>2, <2>3, WorkIsCalm
  <2> QED BY <1>1, <2>3, <2>4, CalmWithoutComment
<1> QED BY <1>2, <1>3

\* A task that waits in the queue has work to do.
LEMMA QueuedIsOpen ==
    ASSUME Sound, Calm, NEW t \in Tasks, db.rows[t].state = "queued"
    PROVE  t \in Open(db)
<1>1. t \in Live(db.rows)
  BY DEF Live, InState
<1> SUFFICES ASSUME Applied(db, t) PROVE FALSE
  BY <1>1 DEF Open
<1>2. PICK v \in Workers : proc.phase[v] = "ok" /\ proc.held[v] = t
  BY <1>1 DEF Calm, WorkInOrder, Attended, Lingering
<1>3. proc.phase[v] \in Busy
  BY <1>2 DEF Busy, EndedPhases
<1> QED BY <1>2, <1>3 DEF Sound, Minds, Delivered

LEMMA ClaimCalm ==
    ASSUME Smooth, Sound, Calm, proc.up, NEW w \in Workers, NEW t \in Tasks, claim(w, t)
    PROVE  CalmStep
<1> DEFINE R == claim_next(db.rows, t, w)
           after == [proc EXCEPT !.held[w] = t, !.phase[w] = "created",
                                 !.timed_out[w] = FALSE, !.running[t] = w,
                                 !.ids[w] = db.comment_ids[t]]
<1>1. /\ proc.phase[w] = "idle" /\ db.rows[t].state = "queued"
      /\ Turn(<<with_rows(db, R)>>, after) /\ UNCHANGED <<approved, shipped>>
  BY DEF claim, IsOldest, InState
<1>2. db' = with_rows(db, R) /\ proc' = after
  <2> HIDE DEF R, after
  <2> QED BY <1>1, OneCommitTurn
<1>3. GoodTable(db.rows) /\ db.rows \in Table
  BY DEF Sound, Coherent, GoodTable
<1>4. R \in Table
  BY <1>1, <1>3, ClaimKeepsGood DEF GoodTable
<1>5. R[t].state = "running" /\ \A u \in Tasks : u # t => R[u] = db.rows[u]
  BY <1>3 DEF claim_next, Table
<1> HIDE DEF R
<1>6. /\ \A u \in Tasks : R[u].state = "none" <=> db.rows[u].state = "none"
      /\ Live(R) = Live(db.rows)
  BY <1>1, <1>5 DEF Live, InState
<1>7. /\ Ordered(db') /\ db'.rows = R /\ Lingering(db') = Lingering(db)
      /\ SameVersions(db, db') /\ db'.status = db.status
  BY <1>2, <1>4, <1>6, RowsOrdered
<1>8. /\ Besides(after, w)
      /\ after.phase[w] = "created" /\ after.timed_out[w] = FALSE
  BY DEF Besides, Process, Sound, TypeOK
<1> HIDE DEF after
<1>9. RunInOrder(db', proc', w)
  BY <1>2, <1>8 DEF RunInOrder, AtWork
<1>10. \A v \in Workers : v # w /\ proc.phase[v] \in Busy =>
            db'.rows[proc.held[v]].state = db.rows[proc.held[v]].state
  BY <1>1, <1>5, <1>7 DEF Sound, Minds, Delivered
<1> QED BY <1>1, <1>2, <1>7, <1>8, <1>9, <1>10, RunIsCalm

\* The version a run branches off is one the rules allow.
LEMMA ParentIsBranched ==
    ASSUME NEW d, NEW ids, ids \subseteq 1 .. Len(d.comments), Len(d.comments) \in Nat
    PROVE  Branched(d, resolve_parent_sha(d, ids), ids)
<1> DEFINE captured == {c \in ids : d.comments[c].sha # NoCapture}
<1>1. CASE captured # {} /\ d.comments[Max(captured)].sha \in DOMAIN d.iterations
  <2>1. captured \subseteq ids /\ captured \subseteq 1 .. Len(d.comments)
    OBVIOUS
  <2>2. resolve_parent_sha(d, ids) = d.comments[Max(captured)].sha
    BY <1>1 DEF resolve_parent_sha
  <2> HIDE DEF captured
  <2>3. Max(captured) \in captured
    BY <1>1, <2>1, KeyIsNewest DEF idempotency_key
  <2> QED BY <2>1, <2>2, <2>3 DEF Branched
<1>2. CASE ~(captured # {} /\ d.comments[Max(captured)].sha \in DOMAIN d.iterations)
  <2>1. resolve_parent_sha(d, ids) = d.preview_sha
    BY <1>2 DEF resolve_parent_sha
  <2> QED BY <2>1 DEF Branched
<1> QED BY <1>1, <1>2

\* A run goes on under the status that tells of it, or has failed already.
LEMMA PhaseIsCalm ==
    ASSUME Smooth, Sound, Calm, proc.up, NEW w \in Workers, proc.phase[w] \in ActivePhases,
           NEW s \in {"analyzing", "coding", "deploying"}, NEW p \in {s, "error", "vanished"},
           NEW after, Turn(<<set_status(db, s)>>, after),
           Besides(after, w), after.phase[w] = p, after.held[w] = proc.held[w],
           after.ids[w] = proc.ids[w], after.timed_out[w] = proc.timed_out[w],
           Branched(db, after.parent[w], proc.ids[w]),
           UNCHANGED <<approved, shipped>>
    PROVE  CalmStep
<1>1. /\ proc.held[w] \in Open(db) /\ db.rows[proc.held[w]].state = "running"
      /\ ~proc.timed_out[w]
  BY ActiveIsOpen
<1>2. db' = set_status(db, s) /\ proc' = after
  BY OneCommitTurn
<1>3. s \in Statuses /\ s \in InFlightStatuses /\ s # "pr_open"
  BY DEF Statuses, InFlightStatuses
<1>4. db \in Database /\ Arranged(db)
  BY DEF Sound, TypeOK, Calm, WorkInOrder, Ordered
<1>5. /\ Ordered(db') /\ Lingering(db') = Lingering(db)
      /\ SameWork(db, db') /\ SameVersions(db, db') /\ db'.status = s
  BY <1>1, <1>2, <1>3, <1>4, StatusOrdered
<1>6. Branched(db', after.parent[w], proc.ids[w])
  BY <1>5 DEF Branched, SameVersions
<1>7. RunInOrder(db', proc', w)
  BY <1>1, <1>2, <1>5, <1>6 DEF RunInOrder, AtWork, SameWork
<1>8. proc.phase[w] # "ok"
  BY DEF ActivePhases
<1>9. \A v \in Workers : v # w /\ proc.phase[v] \in Busy =>
            db'.rows[proc.held[v]].state = db.rows[proc.held[v]].state
  BY <1>5 DEF SameWork
<1> QED BY <1>2, <1>3, <1>5, <1>7, <1>8, <1>9, RunIsCalm

LEMMA BeginsCalm ==
    ASSUME Smooth, Sound, Calm, proc.up, NEW w \in Workers, begins(w)
    PROVE  CalmStep
<1> DEFINE parent == resolve_parent_sha(db, proc.ids[w])
           after(p) == [proc EXCEPT !.phase[w] = p, !.parent[w] = parent]
<1>1. PICK p \in {"analyzing", "error", "vanished"} :
            Turn(<<set_status(db, "analyzing")>>, after(p))
  BY DEF begins
<1>2. proc.phase[w] \in ActivePhases /\ UNCHANGED <<approved, shipped>>
  BY DEF begins, ActivePhases
<1>3. Branched(db, parent, proc.ids[w])
  <2>1. proc.held[w] \in Tasks /\ proc.ids[w] = db.comment_ids[proc.held[w]]
    BY <1>2 DEF Sound, Minds, Busy
  <2>2. proc.ids[w] \subseteq 1 .. Len(db.comments) /\ Len(db.comments) \in Nat
    BY <2>1, CommentsCounted DEF Sound, Coherent, Covering
  <2> QED BY <2>2, ParentIsBranched
<1> HIDE DEF parent
<1>4. /\ Besides(after(p), w) /\ after(p).phase[w] = p
      /\ after(p).held[w] = proc.held[w] /\ after(p).ids[w] = proc.ids[w]
      /\ after(p).timed_out[w] = proc.timed_out[w] /\ after(p).parent[w] = parent
  BY DEF Besides, Process, Sound, TypeOK
<1> HIDE DEF after
<1> QED BY <1>1, <1>2, <1>3, <1>4, PhaseIsCalm

LEMMA ProgressesCalm ==
    ASSUME Smooth, Sound, Calm, proc.up, NEW w \in Workers, progresses(w)
    PROVE  CalmStep
<1> DEFINE after(p) == [proc EXCEPT !.phase[w] = p]
<1>1. PICK p \in {"coding", "deploying"} :
            proc.phase[w] \in AtWork /\ Turn(<<set_status(db, p)>>, after(p))
  BY DEF progresses, AtWork
<1>2. proc.phase[w] \in ActivePhases /\ UNCHANGED <<approved, shipped>>
  BY <1>1 DEF progresses, ActivePhases, AtWork
<1>3. Branched(db, proc.parent[w], proc.ids[w])
  BY <1>1 DEF Calm, WorkInOrder, RunInOrder
<1>4. /\ Besides(after(p), w) /\ after(p).phase[w] = p
      /\ after(p).held[w] = proc.held[w] /\ after(p).ids[w] = proc.ids[w]
      /\ after(p).timed_out[w] = proc.timed_out[w] /\ after(p).parent[w] = proc.parent[w]
  BY DEF Besides, Process, Sound, TypeOK
<1> HIDE DEF after
<1> QED BY <1>1, <1>2, <1>3, <1>4, PhaseIsCalm

\* A run ends without a word to the database.
LEMMA SilentIsCalm ==
    ASSUME Smooth, Sound, Calm, proc.up, NEW w \in Workers,
           NEW after, Turn(<<>>, after), Besides(after, w),
           RunInOrder(db, after, w),
           proc.phase[w] = "ok" => after.phase[w] = "ok" /\ after.held[w] = proc.held[w],
           UNCHANGED <<approved, shipped>>
    PROVE  CalmStep
<1>1. db' = db /\ proc' = after
  BY WholeTurn DEF Turn, End
<1>2. Ordered(db') /\ Lingering(db') = Lingering(db) /\ SameVersions(db, db')
  BY <1>1 DEF Calm, WorkInOrder, SameVersions
<1> QED BY <1>1, <1>2, RunIsCalm

LEMMA RaisesCalm ==
    ASSUME Smooth, Sound, Calm, proc.up, NEW w \in Workers, raises(w)
    PROVE  CalmStep
<1> DEFINE after == [proc EXCEPT !.phase[w] = "error"]
<1>1. proc.phase[w] \in ActivePhases /\ proc.phase[w] # "ok"
      /\ Turn(<<>>, after) /\ UNCHANGED <<approved, shipped>>
  BY DEF raises, ActivePhases
<1>2. /\ Besides(after, w) /\ after.phase[w] = "error" /\ after.held[w] = proc.held[w]
      /\ after.timed_out[w] = proc.timed_out[w]
  BY DEF Besides, Process, Sound, TypeOK
<1> HIDE DEF after
<1>3. db.rows[proc.held[w]].state = "running" /\ ~proc.timed_out[w]
  BY <1>1, ActiveIsOpen
<1>4. RunInOrder(db, after, w)
  BY <1>2, <1>3 DEF RunInOrder, AtWork
<1> QED BY <1>1, <1>2, <1>4, SilentIsCalm

LEMMA DeadlineCalm ==
    ASSUME Smooth, Sound, Calm, proc.up, NEW w \in Workers, deadline(w)
    PROVE  CalmStep
<1> DEFINE p == IF proc.phase[w] \in ActivePhases THEN "cancelled" ELSE proc.phase[w]
           after == [proc EXCEPT !.timed_out[w] = TRUE, !.phase[w] = p]
<1>1. /\ Turn(<<>>, after) /\ UNCHANGED <<approved, shipped>>
      /\ proc.phase[w] \in Busy /\ proc.phase[w] # "cancelled"
  BY DEF deadline, Engaged, Busy, Smooth
<1>2. /\ p \notin ActivePhases /\ p \notin AtWork
      /\ p = "ok" => proc.phase[w] = "ok"
      /\ p = "error" => proc.phase[w] = "error"
      /\ p = "cancelled" => proc.phase[w] \in ActivePhases
      /\ proc.phase[w] = "ok" => p = "ok"
  BY <1>1 DEF Busy, ActivePhases, EndedPhases, AtWork
<1> HIDE DEF p
<1>3. /\ Besides(after, w) /\ after.phase[w] = p /\ after.held[w] = proc.held[w]
      /\ after.timed_out[w] = TRUE /\ after.ids[w] = proc.ids[w]
  BY DEF Besides, Process, Sound, TypeOK
<1> HIDE DEF after
<1>4. RunInOrder(db, proc, w)
  BY DEF Calm, WorkInOrder
<1>5. p = "cancelled" => db.rows[proc.held[w]].state = "running"
  BY <1>2, ActiveIsOpen
<1>6. RunInOrder(db, after, w)
  BY <1>2, <1>3, <1>4, <1>5 DEF RunInOrder
<1> QED BY <1>1, <1>2, <1>3, <1>6, SilentIsCalm

\* Nothing is delivered again but after a crash.
LEMMA RedeliveredCalm ==
    ASSUME Smooth, Sound, Calm, NEW w \in Workers, redelivered(w)
    PROVE  CalmStep
<1>1. proc.phase[w] \in ActivePhases /\ already_applied(db, proc.ids[w])
  BY DEF redelivered, ActivePhases
<1>2. proc.ids[w] = db.comment_ids[proc.held[w]]
  BY <1>1 DEF Sound, Minds, Busy
<1>3. proc.held[w] \in Open(db)
  BY <1>1, ActiveIsOpen
<1> QED BY <1>1, <1>2, <1>3 DEF Open, Applied

\* The commits of a block, then those of another: the last of them all.
LEMMA EndOfBoth ==
    ASSUME NEW S, NEW d, NEW commits \in Seq(S), commits # <<>>, NEW more \in Seq(S)
    PROVE  End(d, commits \o more) = End(End(d, commits), more)
<1>1. CASE more = <<>>
  BY <1>1 DEF End
<1>2. CASE more # <<>>
  <2>1. /\ Len(commits \o more) = Len(commits) + Len(more)
        /\ Len(more) \in Nat \ {0} /\ Len(commits) \in Nat
        /\ (commits \o more)[Len(commits) + Len(more)] = more[Len(more)]
        /\ commits \o more # <<>>
    BY <1>2
  <2> QED BY <1>2, <2>1 DEF End, Last
<1> QED BY <1>1, <1>2

LEMMA LandsCalm ==
    ASSUME Smooth, Sound, Calm, proc.up, NEW w \in Workers, lands(w)
    PROVE  CalmStep
<1> DEFINE ids == proc.ids[w]
           parent == proc.parent[w]
           t == proc.held[w]
           its == LandedOf(w)
           landed == add_iteration_commits(db, parent, ids)
           x == set_status(Last(landed), "preview_ready")
           recorded == Append(landed, x)
           drained == drain_pending_commits(x)
           after == [proc EXCEPT !.phase[w] = "ok"]
<1>1. /\ proc.phase[w] = "deploying" /\ Turn(then_drain(db, recorded), after)
      /\ UNCHANGED <<approved, shipped>>
  BY DEF lands, records_commits
<1>2. /\ proc.phase[w] \in Busy /\ proc.phase[w] \in AtWork
      /\ proc.phase[w] \in ActivePhases /\ proc.phase[w] # "ok"
  BY <1>1 DEF Busy, ActivePhases, AtWork
<1>3. /\ t \in Open(db) /\ proc.running[t] = w /\ ~proc.timed_out[w]
  BY <1>2, ActiveIsOpen
<1>4. /\ t \in Tasks /\ ids = db.comment_ids[t] /\ ~already_applied(db, ids)
      /\ db.rows[t].state # "none"
  BY <1>2 DEF Sound, Minds, Delivered
<1>5. Coherent(db) /\ parent \in Nat /\ Ordered(db)
  BY DEF Sound, TypeOK, Process, Calm, WorkInOrder
<1>6. /\ Besides(after, w) /\ after.phase[w] = "ok" /\ after.held[w] = t
      /\ after.ids[w] = ids /\ after.timed_out[w] = proc.timed_out[w]
  BY DEF Besides, Process, Sound, TypeOK
<1> HIDE DEF after
<1>7. ids # {} /\ ids \subseteq 1 .. Len(db.comments)
  <2> HIDE DEF ids, t
  <2> QED BY <1>4, <1>5 DEF Coherent, Covering
<1>8. /\ landed \in Seq(Later(db, its)) /\ landed # <<>> /\ Last(landed) \in Later(db, its)
  <2> HIDE DEF ids
  <2> QED BY <1>4, <1>5, <1>7, LaterIteration DEF LandedOf, ids
<1>9. /\ Ordered(x) /\ Open(x) = {} /\ Lingering(x) \subseteq Lingering(db) \cup {t}
      /\ x.status = "preview_ready" /\ x.comments = db.comments
      /\ addressed(x) = addressed(db) \cup ids
  <2> HIDE DEF t, parent
  <2> QED BY <1>3, <1>4, <1>5, RecordOrdered
<1> HIDE DEF landed, its, t, ids, parent
<1>10. x \in Later(db, its)
  BY <1>8, LaterStatus DEF Statuses
<1>11. x.rows = db.rows
  <2>1. Last(landed).rows = db.rows
    BY <1>4, <1>5, <1>7, LaterIteration DEF LandedOf, ids, its, landed, parent
  <2> QED BY <1>8, <2>1, LaterStatus DEF Statuses, SameWork
<1> HIDE DEF x
<1>12. recorded \in Seq(Later(db, its)) /\ recorded # <<>> /\ Last(recorded) = x
  <2>1. /\ recorded \in Seq(Later(db, its)) /\ recorded # <<>>
        /\ recorded[Len(recorded)] = x
    BY <1>8, <1>10
  <2> QED BY <2>1 DEF Last
<1> HIDE DEF recorded
<1>13. /\ drained \in Seq(Later(db, its)) /\ KeepsRows(x, End(x, drained))
  BY <1>10, DrainCommits
<1>14. /\ Ordered(End(x, drained)) /\ SameVersions(x, End(x, drained))
       /\ Lingering(End(x, drained)) \subseteq Lingering(x)
       /\ End(x, drained).status \in {x.status, "triggered"}
  BY <1>9, <1>10, DrainOrdered
<1>15. then_drain(db, recorded) = recorded \o drained
  BY <1>12 DEF then_drain
<1> HIDE DEF drained
<1>16. db' = End(x, drained) /\ proc' = after
  <2>1. db' = End(db, then_drain(db, recorded)) /\ proc' = after
    BY <1>1, WholeTurn DEF Turn
  <2>2. End(db, recorded \o drained) = End(End(db, recorded), drained)
    BY <1>12, <1>13, EndOfBoth
  <2>3. End(db, recorded) = x
    BY <1>12 DEF End
  <2> QED BY <1>15, <2>1, <2>2, <2>3
<1>17. /\ addressed(db') = addressed(db) \cup ids /\ db'.comments = db.comments
       /\ db'.status \in {"preview_ready", "triggered"}
  BY <1>9, <1>14, <1>16, SameVersionsSeen DEF SameVersions
<1>18. \A v \in Workers : v # w => proc.phase[v] \notin AtWork
  BY <1>3, NobodyElse
<1>19. \A v \in Workers : v # w /\ proc.phase[v] \in Busy =>
            db'.rows[proc.held[v]].state = db.rows[proc.held[v]].state
  BY <1>11, <1>13, <1>16 DEF KeepsRows, Sound, Minds, Delivered
<1>20. RunInOrder(db', proc', w)
  <2>1. Len(db.comments) \in Nat
    BY <1>5, CommentsCounted
  <2>2. already_applied(db', ids)
    BY <1>7, <1>17, <2>1, KeyIsNewest DEF already_applied
  <2> QED BY <1>3, <1>6, <1>16, <2>2 DEF RunInOrder, ActivePhases, AtWork
<1>21. \A u \in Lingering(db') :
            \/ proc'.phase[w] = "ok" /\ proc'.held[w] = u
            \/ u \in Lingering(db) /\ ~(proc.phase[w] = "ok" /\ proc.held[w] = u)
  BY <1>2, <1>6, <1>9, <1>14, <1>16
<1>22. db.status # "pr_open" /\ db.status \notin ClosedStatuses
  BY <1>3, OpenInFlight
<1>23. Calm' /\ proc'.up
  BY <1>1, <1>6, <1>14, <1>16, <1>17, <1>18, <1>19, <1>20, <1>21, <1>22, WorkIsCalm
<1> QED BY <1>17, <1>22, <1>23, CalmWithoutComment

\* A worker lets go of its task.
LEMMA Unwinds ==
    ASSUME Sound, NEW w \in Workers, proc.phase[w] \in Busy
    PROVE  /\ Besides(unwound(w), w) /\ unwound(w).phase[w] = "idle"
           /\ unwound(w).timed_out[w] = FALSE
BY DEF unwound, Besides, Process, Sound, TypeOK

LEMMA IdleInOrder ==
    ASSUME NEW d, NEW m, NEW w, m.phase[w] = "idle", m.timed_out[w] = FALSE
    PROVE  RunInOrder(d, m, w)
BY DEF RunInOrder, AtWork

\* The rows of the others stay as they are when that of one task moves.
LEMMA OtherRows ==
    ASSUME Sound, NEW t \in Tasks, NEW R, \A u \in Tasks : u # t => R[u] = db.rows[u],
           NEW w, proc.running[t] = w
    PROVE  \A v \in Workers : v # w /\ proc.phase[v] \in Busy =>
                R[proc.held[v]].state = db.rows[proc.held[v]].state
BY DEF Sound, Minds

\* fail() on the task with work to do: it is to be done again, or the thread
\* has failed.
LEMMA FailedOrdered ==
    ASSUME Sound, Calm, NEW t \in Open(db), db.rows[t].state = "running",
           NEW R \in Table, R[t] = failed_row(db.rows, t),
           \A u \in Tasks : u # t => R[u] = db.rows[u],
           db' = set_status(with_rows(db, R), StatusOfOutcome(fail_result(db.rows, t)))
    PROVE  /\ Ordered(db') /\ Lingering(db') \subseteq Lingering(db) /\ db'.rows = R
           /\ SameVersions(db, db') /\ db'.status \in {"triggered", "failed"}
<1> DEFINE d1 == with_rows(db, R)
           result == fail_result(db.rows, t)
           status == StatusOfOutcome(result)
<1>1. t \in Tasks /\ db \in Database /\ Arranged(db) /\ db.rows \in Table
  BY DEF Open, Live, InState, Sound, TypeOK, Calm, WorkInOrder, Ordered, Database
<1>2. R[t].state = result /\ result \in {"queued", "dlq"}
  BY <1>1 DEF failed_row, fail_result, Table, Row
<1>3. /\ \A u \in Tasks : R[u].state = "none" <=> db.rows[u].state = "none"
      /\ result = "queued" => Live(R) = Live(db.rows)
      /\ result = "dlq" => Live(R) = Live(db.rows) \ {t}
  BY <1>1, <1>2 DEF Live, InState
<1> HIDE DEF result
<1>4. /\ d1 \in Database /\ Arranged(d1) /\ d1.rows = R
      /\ Open(d1) = Open(db) \cap Live(R) /\ Lingering(d1) = Lingering(db) \cap Live(R)
      /\ SameVersions(db, d1)
  BY <1>1, <1>2, <1>3, RowsArranged
<1>5. result = "queued" => Open(d1) # {}
  BY <1>3, <1>4 DEF Open
<1>6. result = "dlq" => Open(d1) = {}
  BY <1>1, <1>3, <1>4, OneOpen
<1>7. /\ status \in Statuses /\ status \in {"triggered", "failed"}
      /\ status \in InFlightStatuses <=> Open(d1) # {}
  BY <1>2, <1>5, <1>6 DEF StatusOfOutcome, Statuses, InFlightStatuses
<1> HIDE DEF d1, status
<1>8. db' = set_status(d1, status)
  BY DEF d1, status, result
<1>9. /\ Ordered(db') /\ Lingering(db') = Lingering(d1)
      /\ SameWork(d1, db') /\ SameVersions(d1, db') /\ db'.status = status
  BY <1>4, <1>7, <1>8, StatusOrdered
<1> QED BY <1>4, <1>7, <1>9 DEF SameWork, SameVersions

\* What w or nobody does to a failed attempt.
LEMMA FailureIsCalm ==
    ASSUME Sound, Calm, proc.up, NEW w \in Workers \cup {NoWorker},
           NEW t \in Open(db), db.rows[t].state = "running", proc.running[t] = w,
           w \in Workers => proc.phase[w] # "ok",
           NEW R \in Table, R[t] = failed_row(db.rows, t),
           \A u \in Tasks : u # t => R[u] = db.rows[u],
           db' = set_status(with_rows(db, R), StatusOfOutcome(fail_result(db.rows, t))),
           Besides(proc', w), w \in Workers => RunInOrder(db', proc', w),
           UNCHANGED <<approved, shipped>>
    PROVE  CalmStep
<1>1. /\ Ordered(db') /\ Lingering(db') \subseteq Lingering(db) /\ db'.rows = R
      /\ SameVersions(db, db') /\ db'.status \in {"triggered", "failed"}
  BY FailedOrdered
<1>2. \A v \in Workers : v # w => proc.phase[v] \notin AtWork
  BY NobodyElse
<1>3. t \in Tasks
  BY DEF Open, Live, InState
<1>4. \A v \in Workers : v # w /\ proc.phase[v] \in Busy =>
            db'.rows[proc.held[v]].state = db.rows[proc.held[v]].state
  BY <1>1, <1>3, OtherRows
<1>5. db.status # "pr_open" /\ db.status \notin ClosedStatuses
  BY OpenInFlight
<1>6. addressed(db') = addressed(db) /\ db'.comments = db.comments
  BY <1>1, SameVersionsSeen DEF SameVersions
<1>7. Calm' /\ proc'.up
  BY <1>1, <1>2, <1>4, <1>5, <1>6, WorkIsCalm
<1> QED BY <1>5, <1>6, <1>7, CalmWithoutComment

LEMMA ResumesCalm ==
    ASSUME Smooth, Sound, Calm, proc.up, NEW w \in Workers, resumes(w)
    PROVE  CalmStep
<1> DEFINE t == proc.held[w]
           after == unwound(w)
<1>1. proc.phase[w] \in Busy /\ UNCHANGED <<approved, shipped>>
  BY DEF resumes, finishes, attempt_fails, gives_up, walks_away, Busy, EndedPhases
<1>2. /\ t \in Tasks /\ proc.running[t] = w /\ proc.ids[w] = db.comment_ids[t]
      /\ db.rows[t].state \in {"running", "cancelled"}
  BY <1>1 DEF Sound, Minds, Delivered
<1>3. /\ GoodTable(db.rows) /\ db.rows \in Table /\ Arranged(db) /\ db \in Database
  BY DEF Sound, Coherent, GoodTable, Calm, WorkInOrder, Ordered
<1>4. /\ Besides(after, w) /\ after.phase[w] = "idle" /\ after.timed_out[w] = FALSE
  BY <1>1, Unwinds
<1>5. RunInOrder(db, proc, w)
  BY DEF Calm, WorkInOrder
<1>6. RunInOrder(db', after, w)
  BY <1>4, IdleInOrder
<1> HIDE DEF after, t
<1>7. CASE finishes(w)
  <2> DEFINE R == complete(db.rows, t)
  <2>1. proc.phase[w] = "ok" /\ Turn(<<with_rows(db, R)>>, after)
    BY <1>7 DEF finishes, t, after
  <2>2. R \in Table
    BY <1>2, <1>3, CompleteKeepsGood DEF GoodTable
  <2>3. /\ R[t].state \in {"done", "cancelled"} /\ \A u \in Tasks : u # t => R[u] = db.rows[u]
    BY <1>2, <1>3 DEF complete, Table, Row
  <2> HIDE DEF R
  <2>4. db' = with_rows(db, R) /\ proc' = after
    BY <2>1, OneCommitTurn
  <2>5. /\ \A u \in Tasks : R[u].state = "none" <=> db.rows[u].state = "none"
        /\ Live(R) = Live(db.rows) \ {t}
    BY <1>2, <2>3 DEF Live, InState
  <2>6. t \notin Open(db)
    BY <1>2, <1>5, <2>1 DEF RunInOrder, Open, Applied
  <2>7. /\ Arranged(db') /\ db'.rows = R
        /\ Open(db') = Open(db) \cap Live(R) /\ Lingering(db') = Lingering(db) \cap Live(R)
        /\ SameVersions(db, db') /\ db'.status = db.status
    BY <1>3, <2>2, <2>4, <2>5, RowsArranged
  <2>8. Ordered(db') /\ t \notin Lingering(db') /\ Lingering(db') \subseteq Lingering(db)
    <3>1. Open(db') = Open(db)
      BY <2>5, <2>6, <2>7 DEF Open
    <3> QED BY <2>5, <2>7, <3>1 DEF Ordered, Calm, WorkInOrder
  <2>9. \A v \in Workers : v # w /\ proc.phase[v] \in Busy =>
            db'.rows[proc.held[v]].state = db.rows[proc.held[v]].state
    BY <1>2, <2>3, <2>7, OtherRows
  <2>10. /\ addressed(db') = addressed(db) /\ db'.comments = db.comments
         /\ SameView(db, db') /\ db'.pr_url = db.pr_url /\ db'.preview_sha = db.preview_sha
    BY <2>7, SameVersionsSeen DEF SameVersions
  <2>11. \A u \in Lingering(db') : u \in Lingering(db) /\ proc.held[w] # u
    BY <2>8 DEF t
  <2>12. Calm' /\ proc'.up
    BY <1>1, <1>4, <1>6, <2>4, <2>7, <2>8, <2>9, <2>10, <2>11, WorkIsCalm
  <2> QED BY <2>7, <2>10, <2>12, CalmWithoutComment
<1>8. CASE gives_up(w)
  <2>1. db.rows[t].state = "cancelled"
    BY <1>2, <1>5, <1>8 DEF gives_up, RunInOrder, t
  <2>2. cancel(db.rows, t) = db.rows
    BY <2>1 DEF cancel, Live, InState
  <2>3. with_rows(db, db.rows) = db
    BY <1>3 DEF with_rows, Database
  <2>4. Turn(<<with_rows(db, cancel(db.rows, t))>>, after) /\ proc.phase[w] # "ok"
    BY <1>8 DEF gives_up, t, after
  <2>5. db' = db /\ proc' = after
    BY <2>2, <2>3, <2>4, OneCommitTurn
  <2>6. Ordered(db') /\ Lingering(db') = Lingering(db) /\ SameVersions(db, db')
    BY <2>5 DEF Calm, WorkInOrder, SameVersions
  <2> QED BY <1>1, <1>4, <1>6, <2>4, <2>5, <2>6, RunIsCalm
<1>9. CASE walks_away(w)
  <2>1. Turn(<<>>, after) /\ proc.phase[w] # "ok"
    BY <1>9 DEF walks_away, after
  <2>2. RunInOrder(db, after, w)
    BY <1>4, IdleInOrder
  <2> QED BY <1>1, <1>4, <2>1, <2>2, SilentIsCalm
<1>10. CASE attempt_fails(w)
  <2> DEFINE R == fail(db.rows, t)
             d1 == with_rows(db, R)
             d2 == set_status(d1, StatusOfOutcome(fail_result(db.rows, t)))
  <2>1. /\ Turn(<<d1, d2>>, after)
    BY <1>10 DEF attempt_fails, t, after
  <2>8. /\ proc.phase[w] # "ok"
        /\ proc.phase[w] = "error" \/ (proc.phase[w] = "cancelled" /\ proc.timed_out[w])
    BY <1>10 DEF attempt_fails
  <2>2. db.rows[t].state = "running"
    BY <1>5, <2>8 DEF RunInOrder, t
  <2>3. t \in Open(db)
    BY <1>1, <2>2, <2>8, RunningIsOpen DEF t
  <2>4. R \in Table /\ R[t] = failed_row(db.rows, t) /\ \A u \in Tasks : u # t => R[u] = db.rows[u]
    BY <1>2, <1>3, FailKeepsGood DEF fail, Table, GoodTable
  <2> HIDE DEF R, d1, d2
  <2>5. db' = End(db, <<d1, d2>>) /\ proc' = after
    BY <2>1, WholeTurn DEF Turn
  <2>6. db' = d2
    BY <2>5, LastOfTwo
  <2>7. db' = set_status(with_rows(db, R), StatusOfOutcome(fail_result(db.rows, t)))
    BY <2>6 DEF d1, d2
  <2> QED BY <1>1, <1>2, <1>4, <1>6, <2>2, <2>3, <2>4, <2>5, <2>7, <2>8, FailureIsCalm
<1> QED BY <1>7, <1>8, <1>9, <1>10 DEF resumes

\* A lease nobody holds runs out.
LEMMA LapseCalm ==
    ASSUME Sound, Calm, proc.up, NEW t \in Tasks, lease_lapses(t)
    PROVE  CalmStep
<1> DEFINE R == [db.rows EXCEPT ![t].lease = "expired"]
<1>1. /\ db.rows[t].state = "running" /\ proc' = proc /\ UNCHANGED <<approved, shipped>>
  BY DEF lease_lapses
<1>2. GoodTable(db.rows) /\ db.rows \in Table /\ db \in Database
  BY DEF Sound, Coherent, GoodTable
<1>3. R \in Table
  BY <1>1, <1>2, LeaseKeepsGood DEF GoodTable
<1>4. \A u \in Tasks : R[u].state = db.rows[u].state
  BY <1>2 DEF Table, Row
<1>5. db' = with_rows(db, R)
  BY <1>2 DEF lease_lapses, with_rows, Database
<1> HIDE DEF R
<1>6. Live(R) = Live(db.rows)
  BY <1>4 DEF Live, InState
<1>7. /\ Ordered(db') /\ db'.rows = R /\ Lingering(db') = Lingering(db)
      /\ SameVersions(db, db') /\ db'.status = db.status
  BY <1>3, <1>4, <1>5, <1>6, RowsOrdered
<1>8. /\ addressed(db') = addressed(db) /\ db'.comments = db.comments
      /\ SameView(db, db') /\ db'.pr_url = db.pr_url /\ db'.preview_sha = db.preview_sha
  BY <1>7, SameVersionsSeen DEF SameVersions
<1>9. Besides(proc', NoWorker) /\ NoWorker \notin Workers
  BY <1>1, WorkersAssumption DEF Besides
<1>10. \A v \in Workers : proc.phase[v] \in Busy =>
            db'.rows[proc.held[v]].state = db.rows[proc.held[v]].state
  BY <1>4, <1>7 DEF Sound, Minds
<1>11. Calm' /\ proc'.up
  BY <1>1, <1>7, <1>8, <1>9, <1>10, WorkIsCalm
<1> QED BY <1>7, <1>8, <1>11, CalmWithoutComment

\* The only task a sweep can find is the one with work to do.
LEMMA ExpiredIsOpen ==
    ASSUME Sound, Calm, NEW t \in Expired(db.rows)
    PROVE  /\ t \in Open(db) /\ db.rows[t].state = "running" /\ proc.running[t] = NoWorker
           /\ Expired(db.rows) = {t}
<1>1. ASSUME NEW u \in Expired(db.rows)
      PROVE  u \in Open(db) /\ db.rows[u].state = "running" /\ proc.running[u] = NoWorker
  <2>1. u \in Tasks /\ db.rows[u].state = "running" /\ db.rows[u].lease = "expired"
    BY DEF Expired, InState
  <2>2. \A v \in Workers : ~(proc.phase[v] \in Busy /\ proc.held[v] = u)
    BY <2>1 DEF Sound, Minds, Delivered
  <2>3. proc.running[u] = NoWorker
    <3>1. proc.running[u] \in Workers \cup {NoWorker}
      BY <2>1 DEF Sound, TypeOK, Process
    <3> QED BY <2>1, <2>2, <3>1 DEF Sound, Minds
  <2>4. u \in Live(db.rows)
    BY <2>1 DEF Live, InState
  <2>5. ~Applied(db, u)
    <3> SUFFICES ASSUME Applied(db, u) PROVE FALSE
      OBVIOUS
    <3>1. PICK v \in Workers : proc.phase[v] = "ok" /\ proc.held[v] = u
      BY <2>4 DEF Calm, WorkInOrder, Attended, Lingering
    <3> QED BY <2>2, <3>1 DEF Busy, EndedPhases
  <2> QED BY <2>1, <2>3, <2>4, <2>5 DEF Open
<1>2. \A u \in Expired(db.rows) : u = t
  BY <1>1, OneOpen DEF Calm, WorkInOrder, Ordered
<1> QED BY <1>1, <1>2

LEMMA SweptOne ==
    ASSUME NEW d, NEW t \in Tasks, Expired(d.rows) = {t},
           NEW R, R = [u \in Tasks |-> IF u = t THEN failed_row(d.rows, u) ELSE d.rows[u]]
    PROVE  End(d, sweep_commits(d)) =
                set_status(with_rows(d, R), StatusOfOutcome(fail_result(d.rows, t)))
<1> DEFINE expired == Expired(d.rows)
           n == Cardinality(expired)
           place(u) == Cardinality({x \in expired : x <= u})
           first_rows(k) == [u \in Tasks |-> IF u \in expired /\ place(u) <= k
                                             THEN failed_row(d.rows, u) ELSE d.rows[u]]
           chosen(k) == CHOOSE u \in expired : place(u) = k
           commit(k) == IF k <= n THEN with_rows(d, first_rows(k))
                        ELSE set_status(with_rows(d, first_rows(n)),
                                        StatusOfOutcome(fail_result(d.rows, chosen(k - n))))
<1>1. sweep_commits(d) = [k \in 1 .. 2 * n |-> commit(k)]
  BY DEF sweep_commits
<1>2. n = 1
  BY FS_Singleton
<1>3. t \in Int
  BY TasksAssumption
<1>4. place(t) = 1
  <2>1. {x \in expired : x <= t} = {t}
    BY <1>3
  <2> QED BY <2>1, FS_Singleton
<1>5. expired = {t}
  OBVIOUS
<1> HIDE DEF n, place, expired
<1>6. chosen(1) = t
  BY <1>4, <1>5
<1>7. first_rows(n) = R
  <2>1. \A u \in Tasks : (u \in expired /\ place(u) <= n) <=> u = t
    <3>1. place(t) <= n
      BY <1>2, <1>4
    <3> QED BY <1>5, <3>1
  <2> QED BY <2>1
<1> HIDE DEF chosen, first_rows
<1>8. commit(2) = set_status(with_rows(d, R), StatusOfOutcome(fail_result(d.rows, t)))
  BY <1>2, <1>6, <1>7
<1> HIDE DEF commit
<1>9. sweep_commits(d) = [k \in 1 .. 2 |-> commit(k)]
  BY <1>1, <1>2
<1>10. sweep_commits(d) # <<>> /\ Len(sweep_commits(d)) = 2 /\ sweep_commits(d)[2] = commit(2)
  BY <1>9
<1> QED BY <1>8, <1>10 DEF End, Last

LEMMA SweepCalm ==
    ASSUME Smooth, Sound, Calm, proc.up, sweep
    PROVE  CalmStep
<1>1. PICK t \in Expired(db.rows) : TRUE
  BY DEF sweep
<1>2. /\ t \in Open(db) /\ db.rows[t].state = "running" /\ proc.running[t] = NoWorker
      /\ Expired(db.rows) = {t} /\ t \in Tasks
  BY ExpiredIsOpen DEF Expired, InState
<1>3. /\ db' = End(db, sweep_commits(db)) /\ proc' = proc /\ UNCHANGED <<approved, shipped>>
  BY WholeTurn DEF sweep, Turn
<1> DEFINE R == [u \in Tasks |-> IF u = t THEN failed_row(db.rows, u) ELSE db.rows[u]]
<1>4. R \in Table /\ R[t] = failed_row(db.rows, t) /\ \A u \in Tasks : u # t => R[u] = db.rows[u]
  <2>1. GoodTable(db.rows) /\ db.rows \in Table
    BY DEF Sound, Coherent, GoodTable
  <2>2. \A u \in Tasks : failed_row(db.rows, u) \in Row
    BY <2>1, FailedRowIsGood
  <2> QED BY <1>2, <2>1, <2>2 DEF Table
<1>5. db' = set_status(with_rows(db, R), StatusOfOutcome(fail_result(db.rows, t)))
  BY <1>2, <1>3, SweptOne
<1> HIDE DEF R
<1>6. Besides(proc', NoWorker) /\ NoWorker \notin Workers
  BY <1>3, WorkersAssumption DEF Besides
<1> QED BY <1>2, <1>3, <1>4, <1>5, <1>6, FailureIsCalm

-----------------------------------------------------------------------------
(* The requests of a calm thread. *)

\* Cancelling the task with work to do, by whatever turn, ends its run.
LEMMA InterruptIsCalm ==
    ASSUME Smooth, Sound, Calm, proc.up, Quiet, NEW t \in Open(db),
           proc' = interrupted(t), UNCHANGED <<approved, shipped>>,
           Ordered(db'), addressed(db) \subseteq addressed(db'),
           Lingering(db') \subseteq Lingering(db), Cancelled(db', t),
           \A u \in Tasks : u # t /\ db.rows[u].state # "none" => db'.rows[u] = db.rows[u],
           db'.status # "pr_open"
    PROVE  Calm' /\ proc'.up
<1> DEFINE w == proc.running[t]
           phases == [v \in Workers |->
                        IF proc.running[t] = v /\ proc.phase[v] \in ActivePhases
                        THEN "cancelled" ELSE proc.phase[v]]
<1>1. /\ t \in Tasks /\ t \in Live(db.rows) /\ ~Applied(db, t)
      /\ w \in Workers \cup {NoWorker}
  BY DEF Open, Live, InState, Sound, TypeOK, Process
<1>2. /\ proc'.phase = phases /\ proc'.held = proc.held /\ proc'.timed_out = proc.timed_out
      /\ proc'.ids = proc.ids /\ proc'.parent = proc.parent
      /\ proc'.flows = proc.flows /\ proc'.up = proc.up
  <2>1. proc' = [proc EXCEPT !.phase = phases]
    BY DEF interrupted
  <2> HIDE DEF phases
  <2> QED BY <2>1 DEF Sound, TypeOK, Process
<1>3. \A v \in Workers : proc'.phase[v] = IF w = v /\ proc.phase[v] \in ActivePhases
                                         THEN "cancelled" ELSE proc.phase[v]
  BY <1>2
<1> HIDE DEF phases, w
<1>4. Besides(proc', w)
  BY <1>2, <1>3 DEF Besides
<1>5. \A v \in Workers : v # w => proc.phase[v] \notin AtWork
  BY NobodyElse DEF w
<1>6. \A v \in Workers : v # w /\ proc.phase[v] \in Busy =>
            db'.rows[proc.held[v]].state = db.rows[proc.held[v]].state
  <2> SUFFICES ASSUME NEW v \in Workers, v # w, proc.phase[v] \in Busy
               PROVE  db'.rows[proc.held[v]].state = db.rows[proc.held[v]].state
    OBVIOUS
  <2>1. /\ proc.held[v] \in Tasks /\ proc.held[v] # t /\ db.rows[proc.held[v]].state # "none"
    BY DEF Sound, Minds, Delivered, w
  <2> QED BY <2>1
<1>7. ASSUME w \in Workers
      PROVE  proc.phase[w] # "ok" /\ RunInOrder(db', proc', w)
  <2>1. proc.phase[w] \in Busy /\ proc.held[w] = t
    BY <1>1, <1>7, WorkersAssumption DEF Sound, Minds, w
  <2>2. proc.ids[w] = db.comment_ids[t] /\ db.rows[t].state = "running"
    <3>1. db.rows[t].state \in {"queued", "running"}
      BY <1>1 DEF Live, InState
    <3> QED BY <1>7, <2>1, <3>1 DEF Sound, Minds, Delivered
  <2>3. RunInOrder(db, proc, w)
    BY <1>7 DEF Calm, WorkInOrder
  <2>4. proc.phase[w] # "ok"
    BY <1>1, <2>2, <2>3 DEF RunInOrder, Applied
  <2>5. /\ proc.phase[w] # "error"
        /\ proc.phase[w] = "cancelled" => ~proc.timed_out[w]
    BY <1>7 DEF Quiet, Smooth
  <2>6. proc.phase[w] # "cancelled"
    BY <2>1, <2>2, <2>3, <2>5 DEF RunInOrder
  <2>7. proc.phase[w] \in ActivePhases \/ proc.phase[w] = "vanished"
    BY <2>1, <2>4, <2>5, <2>6 DEF Busy, EndedPhases
  <2>8. proc'.phase[w] \in {"cancelled", "vanished"}
    BY <1>3, <1>7, <2>7
  <2>9. proc'.phase[w] = "cancelled" => proc.phase[w] \in ActivePhases
    BY <1>3, <1>7, <2>6
  <2>10. proc'.phase[w] = "cancelled" => ~proc'.timed_out[w]
    BY <1>2, <2>3, <2>9 DEF RunInOrder
  <2>11. proc'.held[w] = t /\ db'.rows[t].state = "cancelled"
    BY <1>2, <2>1 DEF Cancelled
  <2> QED BY <2>4, <2>8, <2>10, <2>11 DEF RunInOrder, AtWork, ActivePhases
<1>8. db.status # "pr_open"
  BY OpenInFlight
<1> QED BY <1>1, <1>4, <1>5, <1>6, <1>7, <1>8, WorkIsCalm

\* Without the task with work to do, nothing is left to do.
LEMMA CancelArranged ==
    ASSUME NEW d \in Database, Arranged(d), NEW t \in Open(d),
           NEW e, e = with_rows(d, cancel(d.rows, t))
    PROVE  /\ e \in Database /\ Arranged(e) /\ Open(e) = {}
           /\ Lingering(e) \subseteq Lingering(d)
           /\ SameVersions(d, e) /\ e.status = d.status /\ e.comment_ids = d.comment_ids
           /\ Cancelled(e, t)
           /\ \A u \in Tasks : u # t => e.rows[u] = d.rows[u]
<1> DEFINE R == cancel(d.rows, t)
<1>1. t \in Tasks /\ t \in Live(d.rows) /\ d.rows \in Table
  BY DEF Open, Live, InState, Database
<1>2. R[t].state = "cancelled" /\ \A u \in Tasks : u # t => R[u] = d.rows[u]
  BY <1>1 DEF cancel, Table, Row
<1>3. R \in Table
  BY <1>1 DEF cancel, Table, Row, States
<1> HIDE DEF R
<1>4. /\ Live(R) = Live(d.rows) \ {t}
      /\ \A u \in Tasks : R[u].state = "none" <=> d.rows[u].state = "none"
  BY <1>1, <1>2 DEF Live, InState
<1>5. e = with_rows(d, R)
  BY DEF R
<1>6. /\ e \in Database /\ Arranged(e) /\ e.rows = R
      /\ Open(e) = Open(d) \cap Live(R) /\ Lingering(e) = Lingering(d) \cap Live(R)
      /\ SameVersions(d, e) /\ e.status = d.status /\ e.comment_ids = d.comment_ids
  BY <1>3, <1>4, <1>5, RowsArranged
<1>7. Open(e) = {}
  BY <1>4, <1>6, OneOpen
<1> QED BY <1>2, <1>6, <1>7 DEF Cancelled

LEMMA CancelCalm ==
    ASSUME Smooth, Sound, Calm, proc.up, cancel_run
    PROVE  CalmStep
<1> DEFINE t == active_for_thread(db)
           d1 == with_rows(db, cancel(db.rows, t))
           status == status_after_cancel(d1)
           d2 == set_status(d1, status)
           spent == [used EXCEPT !.cancels = @ + 1]
<1>1. /\ Quiet /\ db.status \in InFlightStatuses
      /\ TurnSpending(<<d1, d2>>, interrupted(t), spent)
      /\ UNCHANGED <<approved, shipped>>
  BY DEF cancel_run
<1>2. db \in Database /\ Arranged(db) /\ Open(db) # {}
  BY <1>1 DEF Sound, TypeOK, Calm, WorkInOrder, Ordered
<1>3. t \in Open(db)
  BY <1>2, OpenIsActive
<1> HIDE DEF t, spent
<1>4. /\ d1 \in Database /\ Arranged(d1) /\ Open(d1) = {}
      /\ Lingering(d1) \subseteq Lingering(db) /\ SameVersions(db, d1)
      /\ Cancelled(d1, t) /\ \A u \in Tasks : u # t => d1.rows[u] = db.rows[u]
  BY <1>2, <1>3, CancelArranged
<1> HIDE DEF d1
<1>5. status \in Statuses /\ status \notin InFlightStatuses /\ status # "pr_open"
  BY DEF status_after_cancel, Statuses, InFlightStatuses
<1> HIDE DEF status
<1>6. /\ Ordered(d2) /\ Lingering(d2) = Lingering(d1) /\ SameWork(d1, d2)
      /\ SameVersions(d1, d2) /\ d2.status = status
  BY <1>4, <1>5, StatusOrdered
<1> HIDE DEF d2
<1>7. db' = End(db, <<d1, d2>>) /\ proc' = interrupted(t)
  BY <1>1, WholeTurn
<1>8. db' = d2
  BY <1>7, LastOfTwo
<1>9. addressed(db') = addressed(db) /\ db'.comments = db.comments
  BY <1>4, <1>6, <1>8, SameVersionsSeen DEF SameVersions
<1>10. Cancelled(db', t) /\ \A u \in Tasks : u # t => db'.rows[u] = db.rows[u]
  BY <1>4, <1>6, <1>8 DEF SameWork, Cancelled
<1>11. Calm' /\ proc'.up
  BY <1>1, <1>3, <1>4, <1>5, <1>6, <1>7, <1>8, <1>9, <1>10, InterruptIsCalm
<1>12. db.status \notin ClosedStatuses
  BY <1>3, OpenInFlight
<1> QED BY <1>9, <1>11, <1>12, CalmWithoutComment

\* The thread with the comment just appended.
LEMMA GrownIsCalm ==
    ASSUME Sound, Calm, Len(db.comments) < MaxComments,
           NEW agent \in BOOLEAN, NEW sha \in Int,
           NEW d, d = append_comment(db, agent, sha)
    PROVE  /\ d \in Later(db, db.iterations) /\ d.rows = db.rows
           /\ d.comment_ids = db.comment_ids
           /\ Len(d.comments) = Len(db.comments) + 1 /\ Len(d.comments) \notin addressed(d)
           /\ addressed(d) = addressed(db) /\ SameView(db, d) /\ d.pr_url = db.pr_url
           /\ Ordered(d) /\ Open(d) = Open(db) /\ Lingering(d) = Lingering(db)
<1>1. db \in Database /\ Coherent(db) /\ Ordered(db)
  BY DEF Sound, TypeOK, Calm, WorkInOrder
<1>2. d \in Later(db, db.iterations)
  BY <1>1, LaterComment
<1>3. /\ d.rows = db.rows /\ d.comment_ids = db.comment_ids
      /\ d.iterations = db.iterations /\ Len(d.comments) = Len(db.comments) + 1
  BY <1>1, AppendComment
<1>4. /\ d.status = db.status /\ d.preview_sha = db.preview_sha /\ d.pr_url = db.pr_url
      /\ \A c \in 1 .. Len(db.comments) : d.comments[c] = db.comments[c]
  <2> DEFINE c == [agent |-> agent, sha |-> sha]
  <2>1. db.comments \in Seq(Comment) /\ c \in Comment
    BY <1>1 DEF Database, Comment
  <2>2. /\ d.status = db.status /\ d.preview_sha = db.preview_sha /\ d.pr_url = db.pr_url
        /\ d.comments = Append(db.comments, c)
    BY <1>1 DEF append_comment, Database
  <2> HIDE DEF c
  <2> QED BY <2>1, <2>2
<1>5. /\ Arranged(d) /\ Open(d) = Open(db) \cap Live(d.rows)
      /\ Lingering(d) = Lingering(db) \cap Live(d.rows)
  BY <1>1, <1>3, <1>4, FewerLive DEF Ordered
<1>6. Open(d) = Open(db) /\ Lingering(d) = Lingering(db)
  BY <1>3, <1>5 DEF Open, Lingering
<1>7. addressed(d) = addressed(db)
  BY <1>3 DEF addressed
<1>8. Len(d.comments) \notin addressed(d)
  <2>1. \A b \in addressed(db) : b \in 1 .. Len(db.comments)
    BY <1>1 DEF Coherent, Addressing, addressed
  <2>2. Len(db.comments) \in Nat
    BY <1>1, CommentsCounted
  <2> QED BY <1>3, <1>7, <2>1, <2>2
<1> QED BY <1>1, <1>2, <1>3, <1>4, <1>5, <1>6, <1>7, <1>8 DEF Ordered, SameView

\* A comment that disturbs no run.
LEMMA QuietComment ==
    ASSUME Sound, Calm, proc.up, db.status \notin ClosedStatuses,
           proc' = proc, UNCHANGED <<approved, shipped>>,
           Ordered(db'), addressed(db') = addressed(db), Lingering(db') \subseteq Lingering(db),
           KeepsRows(db, db'),
           \/ SameView(db, db') /\ db'.pr_url = db.pr_url
           \/ Open(db) = {} /\ db'.status = "triggered"
    PROVE  CalmStep
<1>1. Besides(proc', NoWorker) /\ NoWorker \notin Workers
  BY WorkersAssumption DEF Besides
<1>2. \A v \in Workers : proc.phase[v] \in Busy =>
            db'.rows[proc.held[v]].state = db.rows[proc.held[v]].state
  BY DEF KeepsRows, Sound, Minds, Delivered
<1>3. \/ SameView(db, db')
      \/ \A v \in Workers : proc.phase[v] \notin AtWork
  BY NobodyAtWork
<1>4. \/ /\ db'.status = db.status /\ db'.pr_url = db.pr_url
         /\ db'.preview_sha = db.preview_sha
      \/ db.status # "pr_open" /\ db'.status # "pr_open"
  BY DEF SameView, ClosedStatuses
<1>5. Calm' /\ proc'.up
  BY <1>1, <1>2, <1>3, <1>4, WorkIsCalm
<1> QED BY <1>5 DEF CalmStep

\* What on_comment may do for a thread that has grown to d by comment c.
LEMMA CommentOutcomes ==
    ASSUME NEW d, NEW c, Interrupts(d, c) = {}
    PROVE  \/ on_comment_commits(d, c) = <<>>
           \/ /\ on_comment_commits(d, c) = submit_commits(d, {c})
              /\ active_for_thread(d) = NoTask \/ d.status \notin InFlightStatuses
           \/ /\ active_for_thread(d) # NoTask /\ d.status \in InFlightStatuses
              /\ d.rows[active_for_thread(d)].state = "queued"
              /\ on_comment_commits(d, c) = <<coalesce_comment(d, active_for_thread(d), c)>>
<1> DEFINE task == active_for_thread(d)
<1>1. CASE c \notin asks(d)
  BY <1>1 DEF on_comment_commits
<1>2. CASE c \in asks(d) /\ (task = NoTask \/ d.status \notin InFlightStatuses)
  BY <1>2 DEF on_comment_commits
<1>3. CASE c \in asks(d) /\ task # NoTask /\ d.status \in InFlightStatuses
  <2>1. ~(d.rows[task].state = "running" /\ d.status \in InterruptibleStatuses)
    BY <1>3, ActiveIsLive DEF Interrupts
  <2> QED BY <1>3, <2>1 DEF on_comment_commits
<1> QED BY <1>1, <1>2, <1>3

LEMMA CommentCalm ==
    ASSUME Smooth, Sound, Calm, proc.up, post_comment
    PROVE  CalmStep
<1> DEFINE append(agent, sha) == append_comment(db, agent, sha)
           tasks(d) == Interrupts(d, Len(d.comments))
           more(d) == on_comment_commits(d, Len(d.comments))
           memory(d) == IF tasks(d) = {} THEN proc ELSE interrupted(CHOOSE t \in tasks(d) : TRUE)
<1>1. PICK agent \in BOOLEAN, sha \in Int :
            Turn(<<append(agent, sha)>> \o more(append(agent, sha)), memory(append(agent, sha)))
  BY DEF post_comment
<1>2. /\ Quiet /\ db.status \notin ClosedStatuses /\ Len(db.comments) < MaxComments
      /\ UNCHANGED <<approved, shipped>>
  BY DEF post_comment
<1> DEFINE d == append(agent, sha)
           c == Len(d.comments)
<1>3. /\ d \in Later(db, db.iterations) /\ d.rows = db.rows
      /\ d.comment_ids = db.comment_ids
      /\ Len(d.comments) = Len(db.comments) + 1 /\ c \notin addressed(d)
      /\ addressed(d) = addressed(db) /\ SameView(db, d) /\ d.pr_url = db.pr_url
      /\ Ordered(d) /\ Open(d) = Open(db) /\ Lingering(d) = Lingering(db)
  BY <1>2, GrownIsCalm
<1> HIDE DEF append, d
<1>4. /\ c > 0 /\ c \in 1 .. Len(d.comments) /\ c \in Nat
      /\ c \notin covered_comment_ids(d) /\ c \notin covered_comment_ids(db)
  BY <1>3, NewComment
<1>5. Turn(<<d>> \o more(d), memory(d))
  BY <1>1 DEF d
<1>6. ASSUME more(d) \in Seq(Later(db, db.iterations))
      PROVE  db' = End(d, more(d)) /\ proc' = memory(d)
  <2> HIDE DEF more, memory
  <2>1. db' = End(db, <<d>> \o more(d)) /\ proc' = memory(d)
    BY <1>5, WholeTurn DEF Turn
  <2>2. End(db, <<d>> \o more(d)) = End(d, more(d))
    BY <1>3, <1>6, FirstCommit
  <2> QED BY <2>1, <2>2
<1>7. CASE tasks(d) = {}
  <2>1. more(d) \in Seq(Later(db, db.iterations)) /\ KeepsRows(db, End(d, more(d)))
    BY <1>3, <1>7, CommentCommits
  <2>2. db' = End(d, more(d)) /\ proc' = proc /\ KeepsRows(db, db')
    BY <1>6, <1>7, <2>1
  <2>3. CASE more(d) = <<>>
    <3>1. db' = d
      BY <2>2, <2>3 DEF End
    <3> QED BY <1>2, <1>3, <2>2, <3>1, QuietComment
  <2>4. CASE /\ more(d) = submit_commits(d, {c})
             /\ active_for_thread(d) = NoTask \/ d.status \notin InFlightStatuses
    <3>1. Open(d) = {}
      <4>1. CASE d.status \notin InFlightStatuses
        BY <1>3, <4>1 DEF Ordered
      <4>2. CASE active_for_thread(d) = NoTask
        <5>1. \A t \in Open(d) : t = NoTask /\ t \in Tasks
          BY <1>3, <4>2, OpenIsActive DEF Ordered, Open, Live, InState
        <5> QED BY <5>1, NoTaskAssumption
      <4> QED BY <2>4, <4>1, <4>2
    <3>2. idempotency_key({c}) = c
      <4>1. {c} \subseteq 1 .. c /\ {c} # {}
        BY <1>4
      <4>2. idempotency_key({c}) \in {c}
        BY <1>4, <4>1, KeyIsNewest
      <4> QED BY <4>2
    <3>3. Submittable(d, {c}) /\ Clean(db, {c})
      BY <1>4, <3>2 DEF Submittable, Clean, covered_comment_ids
    <3>4. /\ submit_commits(d, {c}) # <<>>
          /\ Last(submit_commits(d, {c})) = Submitted(d, {c})
      BY <1>3, <3>3, SubmitCommits
    <3>5. db' = Submitted(d, {c})
      BY <2>2, <2>4, <3>4 DEF End
    <3>6. /\ Ordered(db') /\ SameVersions(d, db')
          /\ Lingering(db') \subseteq Lingering(d) /\ db'.status = "triggered"
      <4>1. {c} \cap addressed(d) = {}
        BY <1>3
      <4>2. d \in Later(db, db.iterations) /\ Arranged(d)
        BY <1>3 DEF Ordered
      <4> DEFINE ids == {c}
      <4>3. /\ Submittable(d, ids) /\ ids \cap addressed(d) = {}
            /\ db' = Submitted(d, ids)
        BY <3>3, <3>5, <4>1
      <4> HIDE DEF ids
      <4> QED BY <3>1, <4>2, <4>3, SubmitOrdered
    <3>7. addressed(db') = addressed(db)
      BY <1>3, <3>6, SameVersionsSeen
    <3> QED BY <1>2, <1>3, <2>2, <3>1, <3>6, <3>7, QuietComment
  <2>5. CASE /\ active_for_thread(d) # NoTask /\ d.status \in InFlightStatuses
             /\ d.rows[active_for_thread(d)].state = "queued"
             /\ more(d) = <<coalesce_comment(d, active_for_thread(d), c)>>
    <3> DEFINE t == active_for_thread(d)
    <3>1. Open(d) # {}
      BY <1>3, <2>5 DEF Ordered
    <3>2. t \in Open(d)
      BY <1>3, <3>1, OpenIsActive DEF Ordered
    <3>3. db' = coalesce_comment(d, t, c)
      BY <2>2, <2>5 DEF End, Last
    <3> HIDE DEF t
    <3>4. /\ Ordered(db') /\ SameVersions(d, db') /\ db'.status = d.status
          /\ Lingering(db') \subseteq Lingering(d)
      <4>1. Coherent(d) /\ d.rows[t].state = "queued"
        BY <1>3, <2>5 DEF Later, t
      <4> QED BY <1>3, <1>4, <3>2, <3>3, <4>1, CoalesceOrdered
    <3>5. addressed(db') = addressed(db)
      BY <1>3, <3>4, SameVersionsSeen
    <3>6. SameView(db, db') /\ db'.pr_url = db.pr_url
      BY <1>3, <3>4 DEF SameVersions, SameView
    <3> QED BY <1>2, <1>3, <2>2, <3>4, <3>5, <3>6, QuietComment
  <2> QED BY <1>7, <2>3, <2>4, <2>5, CommentOutcomes
<1>8. CASE tasks(d) # {}
  <2>1. PICK t \in tasks(d) : memory(d) = interrupted(t)
    BY <1>8
  <2> DEFINE d1 == with_rows(d, cancel(d.rows, t))
             ids == d.comment_ids[t] \cup {c}
  <2>2. /\ t \in Tasks /\ more(d) \in Seq(Later(db, db.iterations))
        /\ d1 \in Later(db, db.iterations)
        /\ Submittable(d1, ids) /\ End(d, more(d)) = Submitted(d1, ids)
        /\ Cancelled(End(d, more(d)), t)
        /\ \A u \in Tasks : u # t /\ db.rows[u].state # "none" =>
                End(d, more(d)).rows[u] = db.rows[u]
    BY <1>3, InterruptCommits
  <2>3. db' = End(d, more(d)) /\ proc' = interrupted(t)
    BY <1>6, <2>1, <2>2
  <2>4. /\ t = active_for_thread(d) /\ d.status \in {"triggered", "analyzing"}
    BY DEF Interrupts, InterruptibleStatuses
  <2>5. t \in Open(d) /\ d \in Database
    <3>1. Open(d) # {}
      BY <1>3, <2>4 DEF Ordered, InFlightStatuses
    <3> QED BY <1>3, <2>4, <3>1, OpenIsActive DEF Ordered, Later
  <2>6. /\ Arranged(d1) /\ Open(d1) = {} /\ Lingering(d1) \subseteq Lingering(d)
        /\ SameVersions(d, d1)
    BY <1>3, <2>5, CancelArranged DEF Ordered
  <2> HIDE DEF d1
  <2>7. addressed(d1) = addressed(db)
    BY <1>3, <2>6, SameVersionsSeen
  <2>8. ids \cap addressed(d1) = {}
    <3>1. d.comment_ids[t] \cap addressed(d) = {}
      BY <1>3, <2>5 DEF Ordered, Arranged
    <3> QED BY <1>3, <2>7, <3>1
  <2> HIDE DEF ids
  <2>9. db' = Submitted(d1, ids)
    BY <2>2, <2>3
  <2>10. /\ Ordered(db') /\ SameVersions(d1, db')
         /\ Lingering(db') \subseteq Lingering(d1) /\ db'.status = "triggered"
    BY <2>2, <2>6, <2>8, <2>9, SubmitOrdered
  <2>11. addressed(db') = addressed(db)
    BY <2>7, <2>10, SameVersionsSeen
  <2>12. Cancelled(db', t) /\ \A u \in Tasks : u # t /\ db.rows[u].state # "none" =>
                db'.rows[u] = db.rows[u]
    BY <2>2, <2>3
  <2>13. Calm' /\ proc'.up
    BY <1>2, <1>3, <2>3, <2>5, <2>6, <2>10, <2>11, <2>12, InterruptIsCalm
  <2>14. \A w \in Workers : proc.phase[w] \notin {"coding", "deploying"}
    <3>1. db.status \in {"triggered", "analyzing"}
      BY <1>3, <2>4 DEF SameView
    <3> QED BY <3>1 DEF Calm, WorkInOrder, RunInOrder, AtWork
  <2> QED BY <1>2, <2>13, <2>14 DEF CalmStep
<1> QED BY <1>7, <1>8

-----------------------------------------------------------------------------
(* Every step of a calm thread. *)

\* Before its process is first started.
Fresh == db = NewThread /\ proc = Dead /\ approved = {} /\ shipped = {}

BootedCalm == Sound /\ (Fresh \/ (proc.up /\ Calm))

\* What a calm step does to the history.
Followup == CalmStep \/ UNCHANGED <<db, proc>> \/ (Fresh /\ db' = db)

LEMMA FreshDrain == drain_pending_commits(NewThread) = <<>>
<1>1. pending_comment_ids(NewThread) = {}
  BY DEF pending_comment_ids, asks, NewThread
<1> QED BY <1>1 DEF drain_pending_commits

LEMMA FreshInOrder ==
    ASSUME Fresh
    PROVE  /\ Ordered(db) /\ Lingering(db) = {} /\ db.status = "open"
           /\ \A w \in Workers : proc.phase[w] = "ended"
           /\ \A f \in Flows : proc.flows[f].at = "none"
<1>1. /\ db.status = "open" /\ db.iterations = <<>> /\ db.preview_sha = 0
      /\ \A t \in Tasks : db.rows[t].state = "none"
  BY DEF Fresh, NewThread, EmptyTable, NoRow
<1>2. Open(db) = {} /\ Lingering(db) = {}
  BY <1>1 DEF Open, Lingering, Live, InState
<1>3. Ordered(db)
  BY <1>1, <1>2 DEF Ordered, Arranged, InFlightStatuses
<1>4. /\ \A w \in Workers : proc.phase[w] = "ended"
      /\ \A f \in Flows : proc.flows[f].at = "none"
  BY DEF Fresh, Dead, NoFlow
<1> QED BY <1>1, <1>2, <1>3, <1>4

LEMMA BootCalm ==
    ASSUME Smooth, Sound, Fresh, boot
    PROVE  Calm' /\ proc'.up /\ db' = db
<1> DEFINE started == [Dead EXCEPT !.up = TRUE, !.phase = [w \in Workers |-> "idle"]]
<1>1. ~flow_was_under_way(db)
  BY DEF Fresh, NewThread, flow_was_under_way
<1>2. /\ UNCHANGED <<approved, shipped>>
      /\ \E commits \in {<<>>, drain_pending_commits(db)} : Turn(commits, started)
  BY <1>1 DEF boot
<1>3. Turn(<<>>, started)
  BY <1>2, FreshDrain DEF Fresh
<1>4. /\ started.up /\ \A w \in Workers : started.phase[w] = "idle" /\ started.timed_out[w] = FALSE
      /\ \A f \in Flows : started.flows[f].at = "none"
  BY DEF Dead, NoFlow
<1> HIDE DEF started
<1>5. db' = db /\ proc' = started
  BY <1>3, WholeTurn DEF Turn, End
<1>6. \A w \in Workers : RunInOrder(db', proc', w)
  BY <1>4, <1>5, IdleInOrder
<1>7. Ordered(db') /\ Lingering(db') = {} /\ db'.status = "open"
  BY <1>5, FreshInOrder
<1>8. WorkInOrder(db', proc')
  BY <1>6, <1>7 DEF WorkInOrder, Attended
<1>9. FlowsInOrder(db', proc', approved', shipped')
  BY <1>2, <1>4, <1>5, <1>7 DEF FlowsInOrder, Fresh
<1> QED BY <1>4, <1>5, <1>8, <1>9 DEF Calm

\* Nothing crashes and nothing is replayed.
LEMMA NoMishap ==
    ASSUME Smooth, Sound
    PROVE  ~crash /\ \A t \in Tasks : ~requeue_from_dlq_task(t)
BY DEF Smooth, Sound, TypeOK, crash, requeue_from_dlq_task

LEMMA FreshStep ==
    ASSUME Smooth, Sound, Fresh, Next
    PROVE  boot
<1>1. /\ ~proc.up /\ \A w \in Workers : proc.phase[w] = "ended"
      /\ \A f \in Flows : proc.flows[f].at = "none"
      /\ \A t \in Tasks : db.rows[t].state = "none"
  BY DEF Fresh, Dead, NoFlow, NewThread, EmptyTable, NoRow
<1>2. ~post_comment /\ ~cancel_run /\ ~sweep /\ ~crash
  BY <1>1 DEF post_comment, cancel_run, sweep, crash
<1>3. \A sha \in DOMAIN db.iterations : ~approve(sha)
  BY <1>1 DEF approve
<1>4. \A t \in Tasks : ~requeue_from_dlq_task(t) /\ ~lease_lapses(t)
  BY <1>1 DEF requeue_from_dlq_task, lease_lapses
<1>5. ASSUME NEW w \in Workers
      PROVE  /\ \A t \in Tasks : ~claim(w, t)
             /\ ~begins(w) /\ ~redelivered(w) /\ ~progresses(w) /\ ~raises(w) /\ ~lands(w)
             /\ ~deadline(w) /\ ~resumes(w)
  <2>1. \A t \in Tasks : ~claim(w, t)
    BY <1>1 DEF claim
  <2>2. ~begins(w) /\ ~redelivered(w) /\ ~lands(w)
    BY <1>1 DEF begins, redelivered, lands
  <2>3. ~raises(w)
    BY <1>1 DEF raises
  <2>4. ~progresses(w)
    BY <1>1 DEF progresses
  <2>5. ~deadline(w)
    BY <1>1 DEF deadline, Engaged, ActivePhases, EndedPhases
  <2>6. ~resumes(w)
    BY <1>1 DEF resumes, finishes, attempt_fails, gives_up, walks_away
  <2> QED BY <2>1, <2>2, <2>3, <2>4, <2>5, <2>6
<1>6. \A f \in Flows : ~flow_step(f)
  BY <1>1 DEF flow_step, flow_opens, flow_resumes, flow_opened, flow_not_opened,
              flow_merges, flow_stays_open, flow_merged
<1> QED BY <1>2, <1>3, <1>4, <1>5, <1>6 DEF Next

LEMMA EveryStepIsCalm ==
    ASSUME Smooth, Sound, Calm, proc.up, Next
    PROVE  CalmStep
<1>1. CASE boot
  BY <1>1 DEF boot
<1>2. CASE crash \/ \E t \in Tasks : requeue_from_dlq_task(t)
  BY <1>2, NoMishap
<1>3. CASE post_comment \/ cancel_run \/ sweep
  BY <1>3, CommentCalm, CancelCalm, SweepCalm
<1>4. CASE \E sha \in DOMAIN db.iterations : approve(sha)
  BY <1>4, ApproveCalm
<1>5. CASE \E t \in Tasks : lease_lapses(t)
  BY <1>5, LapseCalm
<1>6. ASSUME NEW w \in Workers,
             \/ \E t \in Tasks : claim(w, t)
             \/ begins(w) \/ redelivered(w) \/ progresses(w) \/ raises(w) \/ lands(w)
             \/ deadline(w) \/ resumes(w)
      PROVE  CalmStep
  BY <1>6, ClaimCalm, BeginsCalm, RedeliveredCalm, ProgressesCalm, RaisesCalm,
     LandsCalm, DeadlineCalm, ResumesCalm
<1>7. CASE \E f \in Flows : flow_step(f)
  BY <1>7, FlowCalm
<1> QED BY <1>1, <1>2, <1>3, <1>4, <1>5, <1>6, <1>7 DEF Next

LEMMA StaysCalm ==
    ASSUME Smooth
    PROVE  /\ Init => BootedCalm
           /\ BootedCalm /\ [Next]_vars => BootedCalm' /\ Followup
<1>1. Init => BootedCalm
  BY SoundInit DEF Init, BootedCalm, Fresh
<1>2. ASSUME BootedCalm, [Next]_vars
      PROVE  BootedCalm' /\ Followup
  <2>1. Sound /\ Sound'
    BY <1>2, SoundStep DEF BootedCalm
  <2>2. CASE UNCHANGED vars
    BY <1>2, <2>1, <2>2 DEF BootedCalm, Fresh, Calm, Followup, vars
  <2>3. CASE Next /\ Fresh
    BY <2>1, <2>3, FreshStep, BootCalm DEF BootedCalm, Followup
  <2>4. CASE Next /\ proc.up /\ Calm
    BY <2>1, <2>4, EveryStepIsCalm DEF BootedCalm, Followup, CalmStep
  <2> QED BY <1>2, <2>2, <2>3, <2>4 DEF BootedCalm
<1> QED BY <1>1, <1>2

\* What the invariant says, before the first boot and after it.
LEMMA CalmMeans ==
    ASSUME BootedCalm
    PROVE  /\ Ordered(db)
           /\ \A w \in Workers : proc.phase[w] \in AtWork => RunInOrder(db, proc, w)
           /\ FlowsInOrder(db, proc, approved, shipped)
<1>1. CASE Fresh
  <2>1. /\ Ordered(db) /\ db.status = "open"
        /\ \A w \in Workers : proc.phase[w] \notin AtWork
        /\ \A f \in Flows : proc.flows[f].at = "none"
    BY <1>1, FreshInOrder DEF AtWork
  <2> QED BY <1>1, <2>1 DEF FlowsInOrder, Fresh
<1>2. CASE Calm
  BY <1>2 DEF Calm, WorkInOrder
<1> QED BY <1>1, <1>2 DEF BootedCalm

\* "one active task per thread": in a calm thread two tasks with work to do
\* never coexist.
THEOREM OneTaskAtWork == ASSUME Smooth PROVE Spec => []OneActiveTask
<1>1. Unapplied = Open(db)
  BY DEF Unapplied, Open, Applied
<1>2. BootedCalm => OneActiveTask
  BY <1>1, CalmMeans, OneOpen DEF OneActiveTask, Ordered
<1> QED BY <1>2, StaysCalm, PTL DEF Spec

\* The status on the thread is in flight exactly while a task has work to do.
THEOREM StatusTellsOfWork == ASSUME Smooth PROVE Spec => []StatusFollowsTask
<1>1. Unapplied = Open(db)
  BY DEF Unapplied, Open, Applied
<1>2. BootedCalm => StatusFollowsTask
  BY <1>1, CalmMeans DEF StatusFollowsTask, Ordered
<1> QED BY <1>2, StaysCalm, PTL DEF Spec

\* No ask is addressed by two iterations.
THEOREM AskIsAddressedOnce == ASSUME Smooth PROVE Spec => []AskAddressedOnce
<1>1. BootedCalm => AskAddressedOnce
  BY CalmMeans DEF AskAddressedOnce, Ordered, Arranged
<1> QED BY <1>1, StaysCalm, PTL DEF Spec

\* A thread has one PR flow at a time, however often it is approved.
THEOREM OneFlowAtATime == ASSUME Smooth PROVE Spec => []OneFlow
<1>1. BootedCalm => OneFlow
  BY CalmMeans DEF OneFlow, FlowsInOrder
<1> QED BY <1>1, StaysCalm, PTL DEF Spec

\* What a flow merges is a version an approver named.
THEOREM ReviewedIsShipped == ASSUME Smooth PROVE Spec => []ShippedIsReviewed
<1>1. BootedCalm => ShippedIsReviewed
  BY CalmMeans DEF ShippedIsReviewed, FlowsInOrder
<1> QED BY <1>1, StaysCalm, PTL DEF Spec

\* A thread that waits for its PR to be opened has the flow that opens it, so
\* that no thread is refused comments and approvals for good.
THEOREM NobodyIsStranded == ASSUME Smooth PROVE Spec => []NeverStranded
<1>1. BootedCalm => NeverStranded
  BY CalmMeans DEF NeverStranded, FlowsInOrder
<1> QED BY <1>1, StaysCalm, PTL DEF Spec

\* An iteration is built on the newest preview, or on a version one of its own
\* asks was made on: two runs never start from the same version.
THEOREM LineageIsKept == ASSUME Smooth PROVE Spec => LineageKept
<1> DEFINE Kept == \A i \in DOMAIN db'.iterations \ DOMAIN db.iterations :
                        LET it == db'.iterations[i] IN
                        \/ it.parent = db.preview_sha
                        \/ \E c \in it.comment_ids : db.comments[c].sha = it.parent
<1>1. BootedCalm /\ Followed => Kept
  <2> SUFFICES ASSUME BootedCalm, Followed,
                      NEW i \in DOMAIN db'.iterations \ DOMAIN db.iterations
               PROVE  Branched(db, db'.iterations[i].parent, db'.iterations[i].comment_ids)
    BY DEF Branched
  <2>1. PICK w \in Workers : /\ proc.phase[w] = "deploying"
                             /\ db'.iterations[i].parent = proc.parent[w]
                             /\ db'.iterations[i].comment_ids = proc.ids[w]
    BY NewIteration DEF BootedCalm
  <2>2. RunInOrder(db, proc, w) /\ proc.phase[w] \in AtWork
    BY <2>1, CalmMeans DEF AtWork
  <2> QED BY <2>1, <2>2 DEF RunInOrder
<1>2. BootedCalm /\ [Next]_vars => [Kept]_vars
  BY <1>1, SoundStep DEF BootedCalm
<1>3. Spec => [][Kept]_vars
  <2> HIDE DEF Kept
  <2> QED BY <1>2, StaysCalm, PTL DEF Spec
<1> QED BY <1>3 DEF LineageKept

\* "Past the cutoff: never interrupt": no comment cancels a run that is coding
\* or deploying.
THEOREM CutoffIsKept == ASSUME Smooth PROVE Spec => CutoffHolds
<1> DEFINE Kept == Len(db'.comments) > Len(db.comments) =>
                        \A w \in Workers : proc.phase[w] \in {"coding", "deploying"} =>
                                                proc'.phase[w] # "cancelled"
<1>1. BootedCalm /\ Followup => Kept
  <2>1. Sound => ~(Len(db.comments) > Len(db.comments))
    BY CommentsCounted DEF Sound
  <2> QED BY <2>1 DEF BootedCalm, Followup, CalmStep
<1>2. BootedCalm /\ [Next]_vars => [Kept]_vars
  BY <1>1, StaysCalm
<1>3. Spec => [][Kept]_vars
  <2> HIDE DEF Kept
  <2> QED BY <1>2, StaysCalm, PTL DEF Spec
<1> QED BY <1>3 DEF CutoffHolds

\* A closed thread never goes back to work.
THEOREM ClosedIsClosed == ASSUME Smooth PROVE Spec => ClosedStaysClosed
<1> DEFINE Kept == db.status \in ClosedStatuses /\ db'.status # db.status =>
                        <<db.status, db'.status>> \in
                            {<<"pr_open", "merged">>, <<"pr_open", "done">>,
                             <<"pr_open", "preview_ready">>, <<"merged", "done">>}
<1>1. BootedCalm /\ [Next]_vars => [Kept]_vars
  BY StaysCalm DEF Followup, CalmStep
<1>2. Spec => [][Kept]_vars
  <2> HIDE DEF Kept
  <2> QED BY <1>1, StaysCalm, PTL DEF Spec
<1> QED BY <1>2 DEF ClosedStaysClosed

-----------------------------------------------------------------------------
(* No ask is stranded.                                                       *)
(*                                                                           *)
(* Who answers for an ask: the tasks that carry it, or a drain to come.  Of  *)
(* a thread whose turns may be torn only the newest ask is promised, as a    *)
(* torn interrupt loses those of the task it cancelled.                      *)

Promised(d) ==
    IF TornCrashes THEN IF asks(d) = {} THEN {} ELSE {Max(asks(d))} ELSE asks(d)

\* The tasks whose comments are still to be addressed, or lie in the
\* dead-letter queue.
Carriers(d) == Live(d.rows) \cup InState(d.rows, "dlq")

\* What tasks covered, no iteration addresses and no task carries any more.
Lost(d) ==
    {c \in covered_comment_ids(d) \ addressed(d) : \A t \in Carriers(d) : c \notin d.comment_ids[t]}

\* A task whose newest comment is addressed has all of them addressed, and so
\* has one that is done.
Taken(d) ==
    \A t \in Tasks :
        /\ d.rows[t].state \notin {"none", "cancelled"} /\ Key(d, t) \in addressed(d) =>
              d.comment_ids[t] \subseteq addressed(d)
        /\ d.rows[t].state = "done" => d.comment_ids[t] \subseteq addressed(d)

\* As long as the user renounced nothing, nothing promised is lost.
Cared(d, R) == Taken(d) /\ (R = {} => Promised(d) \cap Lost(d) = {})

\* The tasks whose handler has its drain before it.
UndrainedIn(d, m) ==
    {t \in Live(d.rows) : \A w \in Workers : ~(m.phase[w] = "ok" /\ m.held[w] = t)}

\* A promised ask that waits for a drain is not forgotten, nor is a thread
\* that says an agent is at work.
Waiting(d, m) ==
    m.up =>
        /\ pending_comment_ids(d) \cap Promised(d) # {} =>
              d.status \in ClosedStatuses \cup {"failed"} \/ UndrainedIn(d, m) # {}
        /\ d.status \in InFlightStatuses => UndrainedIn(d, m) # {} \/ Live(d.rows) = {}

\* A preview is not shown, let alone approved, while an ask waits.
Ready(d) ==
    ~TornCrashes =>
        (pending_comment_ids(d) # {} => d.status \notin {"preview_ready", "pr_open"})

\* What the memory knows of a run that is over is true of the database.
PromptAt(d, m, w) ==
    /\ m.phase[w] = "ok" => m.ids[w] \subseteq addressed(d)
    /\ m.phase[w] = "error" => d.rows[m.held[w]].state = "running"
    /\ m.phase[w] = "cancelled" => (m.timed_out[w] <=> d.rows[m.held[w]].state = "running")
    /\ m.timed_out[w] => m.phase[w] \notin ActivePhases

Prompt(d, m) == \A w \in Workers : PromptAt(d, m, w)

\* The user renounced nothing, and a turn that is torn never meets a PR service
\* that fails.
Trusted == renounced = {} /\ (~TornCrashes \/ ~PRFaults)

AsksKept ==
    /\ Cared(db, renounced) /\ Prompt(db, proc)
    /\ Trusted => Waiting(db, proc) /\ Ready(db)

\* What the proofs ask of the failures: runs that failed meet their worker
\* before the user does, and a turn that is torn never meets a PR service that
\* fails.
OrderlyFailures == QuietFailures /\ (~TornCrashes \/ ~PRFaults)

-----------------------------------------------------------------------------
(* Databases in which nothing promised is lost. *)

LEMMA SameAsks ==
    ASSUME NEW d, NEW e, e.comments = d.comments
    PROVE  asks(e) = asks(d) /\ Promised(e) = Promised(d)
BY DEF asks, Promised

LEMMA SamePending ==
    ASSUME NEW d, NEW e, e.comments = d.comments, e.comment_ids = d.comment_ids,
           e.iterations = d.iterations
    PROVE  /\ pending_comment_ids(e) = pending_comment_ids(d)
           /\ addressed(e) = addressed(d)
           /\ covered_comment_ids(e) = covered_comment_ids(d)
BY SameAsks DEF pending_comment_ids, addressed, covered_comment_ids

\* Rows that move, none of them out of sight with asks to answer.
LEMMA CaredRows ==
    ASSUME NEW d, NEW R, Cared(d, R), NEW e,
           e.comments = d.comments, e.comment_ids = d.comment_ids,
           e.iterations = d.iterations,
           \A t \in Tasks :
              /\ e.rows[t].state \notin {"none", "cancelled"} =>
                    d.rows[t].state \notin {"none", "cancelled"}
              /\ e.rows[t].state = "done" =>
                    d.rows[t].state = "done" \/ d.comment_ids[t] \subseteq addressed(d)
              /\ t \in Carriers(d) =>
                    t \in Carriers(e) \/ d.comment_ids[t] \subseteq addressed(d)
    PROVE  Cared(e, R)
<1>1. /\ addressed(e) = addressed(d) /\ covered_comment_ids(e) = covered_comment_ids(d)
      /\ Promised(e) = Promised(d)
  BY SameAsks, SamePending
<1>2. Taken(e)
  BY <1>1 DEF Cared, Taken, Key
<1>3. Carriers(d) \subseteq Tasks
  BY DEF Carriers, Live, InState
<1>4. Lost(e) \subseteq Lost(d)
  <2> SUFFICES ASSUME NEW c \in Lost(e), NEW t \in Carriers(d), c \in d.comment_ids[t]
               PROVE  FALSE
    BY <1>1 DEF Lost
  <2>1. c \notin addressed(d) /\ t \in Tasks
    BY <1>1, <1>3 DEF Lost
  <2>2. t \in Carriers(e)
    BY <2>1
  <2> QED BY <2>2 DEF Lost
<1> QED BY <1>1, <1>2, <1>4 DEF Cared

LEMMA CaredSame ==
    ASSUME NEW d, NEW R, Cared(d, R), NEW e, SameWork(d, e)
    PROVE  Cared(e, R)
<1>1. Carriers(e) = Carriers(d)
  BY DEF SameWork, Carriers
<1> QED BY <1>1, CaredRows DEF SameWork

LEMMA CaredStatus ==
    ASSUME NEW d \in Database, NEW R, Cared(d, R), NEW status \in Statuses
    PROVE  Cared(set_status(d, status), R)
BY SetStatus, CaredSame

\* A task more, for comments no iteration addresses the newest of.
LEMMA TakenSubmitted ==
    ASSUME NEW e, Coherent(e), Taken(e), NEW ids, Submittable(e, ids),
           idempotency_key(ids) \notin addressed(e)
    PROVE  /\ Taken(Submitted(e, ids))
           /\ Lost(Submitted(e, ids)) \subseteq Lost(e) \ ids
           /\ Promised(Submitted(e, ids)) = Promised(e)
<1> DEFINE f == Submitted(e, ids)
<1>1. PICK t \in Tasks : Added(e, t, ids, f)
  BY SubmittedTask
<1> HIDE DEF f
<1>2. /\ addressed(f) = addressed(e) /\ Promised(f) = Promised(e)
  BY <1>1, SameAsks DEF Added, addressed
<1>3. e.comment_ids[t] = {}
  BY <1>1 DEF Added, Coherent, Covering
<1>4. Taken(f)
  BY <1>1, <1>2 DEF Added, Taken, Key
<1>5. t \in Carriers(f) /\ Carriers(e) \subseteq Carriers(f) /\ t \notin Carriers(e)
      /\ Carriers(e) \subseteq Tasks
  BY <1>1 DEF Added, Carriers, Live, InState
<1>6. Lost(f) \subseteq Lost(e) \ ids
  <2> SUFFICES ASSUME NEW c \in Lost(f) PROVE c \in Lost(e) /\ c \notin ids
    OBVIOUS
  <2>1. c \notin ids
    BY <1>1, <1>5 DEF Lost, Added
  <2>2. c \in covered_comment_ids(e)
    <3>1. PICK u \in Tasks : c \in f.comment_ids[u]
      BY DEF Lost, covered_comment_ids
    <3>2. u # t
      BY <1>1, <2>1, <3>1 DEF Added
    <3> QED BY <1>1, <3>1, <3>2 DEF Added, covered_comment_ids
  <2>3. \A u \in Carriers(e) : c \notin e.comment_ids[u]
    BY <1>1, <1>5 DEF Added, Lost
  <2> QED BY <1>2, <2>1, <2>2, <2>3 DEF Lost
<1> QED BY <1>2, <1>4, <1>6 DEF f

LEMMA CaredSubmitted ==
    ASSUME NEW e, Coherent(e), NEW R, Cared(e, R), NEW ids, Submittable(e, ids),
           idempotency_key(ids) \notin addressed(e)
    PROVE  Cared(Submitted(e, ids), R)
<1>1. /\ Taken(Submitted(e, ids))
      /\ Lost(Submitted(e, ids)) \subseteq Lost(e) \ ids
      /\ Promised(Submitted(e, ids)) = Promised(e)
  BY TakenSubmitted DEF Cared
<1> QED BY <1>1 DEF Cared

-----------------------------------------------------------------------------
(* Commits that lose nothing. *)

AllCared(commits) == \A k \in 1 .. Len(commits) : Cared(commits[k], renounced)

LEMMA CaredCommits ==
    /\ AllCared(<<>>)
    /\ \A e : Cared(e, renounced) => AllCared(<<e>>)
    /\ \A e, f : Cared(e, renounced) /\ Cared(f, renounced) => AllCared(<<e, f>>)
<1>1. AllCared(<<>>)
  BY DEF AllCared
<1>2. ASSUME NEW e, Cared(e, renounced)
      PROVE  AllCared(<<e>>)
  BY <1>2 DEF AllCared
<1>3. ASSUME NEW e, NEW f, Cared(e, renounced), Cared(f, renounced)
      PROVE  AllCared(<<e, f>>)
  <2>1. Len(<<e, f>>) = 2 /\ <<e, f>>[1] = e /\ <<e, f>>[2] = f
    OBVIOUS
  <2>2. \A k \in 1 .. 2 : k = 1 \/ k = 2
    OBVIOUS
  <2> QED BY <1>3, <2>1, <2>2 DEF AllCared
<1> QED BY <1>1, <1>2, <1>3

LEMMA CaredConcat ==
    ASSUME NEW S, NEW s \in Seq(S), NEW more \in Seq(S), AllCared(s), AllCared(more)
    PROVE  AllCared(s \o more)
<1> SUFFICES ASSUME NEW k \in 1 .. Len(s \o more)
             PROVE  Cared((s \o more)[k], renounced)
  BY DEF AllCared
<1>1. /\ Len(s) \in Nat /\ Len(more) \in Nat /\ Len(s \o more) = Len(s) + Len(more)
      /\ k \in Nat
  OBVIOUS
<1>2. CASE k <= Len(s)
  <2>1. (s \o more)[k] = s[k] /\ k \in 1 .. Len(s)
    BY <1>1, <1>2
  <2> QED BY <2>1 DEF AllCared
<1>3. CASE k > Len(s)
  <2>1. (s \o more)[k] = more[k - Len(s)] /\ k - Len(s) \in 1 .. Len(more)
    BY <1>1, <1>3
  <2> DEFINE j == k - Len(s)
  <2>2. j \in 1 .. Len(more) /\ (s \o more)[k] = more[j]
    BY <2>1
  <2> HIDE DEF j
  <2> QED BY <2>2 DEF AllCared
<1> QED BY <1>1, <1>2, <1>3

LEMMA CaredEnd ==
    ASSUME NEW d, Cared(d, renounced), NEW S, NEW commits \in Seq(S), AllCared(commits)
    PROVE  Cared(End(d, commits), renounced)
<1>1. CASE commits = <<>>
  BY <1>1 DEF End
<1>2. CASE commits # <<>>
  <2>1. Len(commits) \in 1 .. Len(commits)
    BY <1>2
  <2> QED BY <1>2, <2>1 DEF End, Last, AllCared
<1> QED BY <1>1, <1>2

LEMMA CaredSubmit ==
    ASSUME NEW d, NEW its, NEW e \in Later(d, its), Cared(e, renounced),
           NEW ids, Submittable(e, ids), Clean(d, ids),
           idempotency_key(ids) \notin addressed(e)
    PROVE  AllCared(submit_commits(e, ids))
<1>1. submit_commits(e, ids) = <<set_status(e, "triggered"), Submitted(e, ids)>>
  BY SubmitCommits
<1>2. Cared(set_status(e, "triggered"), renounced)
  BY CaredStatus DEF Later, Statuses, InFlightStatuses
<1>3. Cared(Submitted(e, ids), renounced)
  BY CaredSubmitted DEF Later
<1> QED BY <1>1, <1>2, <1>3, CaredCommits

\* A drain loses nothing, and leaves a task for what waited for it.
LEMMA CaredDrain ==
    ASSUME NEW d, NEW its, NEW e \in Later(d, its)
    PROVE  LET commits == drain_pending_commits(e)
               f == End(e, commits)
           IN /\ Cared(e, renounced) => AllCared(commits)
              /\ \/ /\ f = e
                    /\ e.status \in ClosedStatuses \cup {"failed"} \/ pending_comment_ids(e) = {}
                 \/ /\ f.status = "triggered"
                    /\ \E t \in Tasks : f.rows[t].state = "queued"
<1> DEFINE ids == pending_comment_ids(e)
           f == End(e, drain_pending_commits(e))
<1>1. CASE e.status \in ClosedStatuses \cup {"failed"} \/ ids = {}
  <2>1. drain_pending_commits(e) = <<>>
    BY <1>1 DEF drain_pending_commits
  <2> QED BY <1>1, <2>1, CaredCommits DEF End
<1>2. CASE ~(e.status \in ClosedStatuses \cup {"failed"} \/ ids = {})
  <2>1. drain_pending_commits(e) = submit_commits(e, ids)
    BY <1>2 DEF drain_pending_commits
  <2>2. Submittable(e, ids) /\ Clean(d, ids) /\ ids \cap addressed(e) = {}
    BY <1>2, PendingIsSubmittable DEF pending_comment_ids
  <2> HIDE DEF ids
  <2>3. Coherent(e) /\ Len(e.comments) \in Nat /\ ids # {} /\ ids \subseteq 1 .. Len(e.comments)
    BY <1>2, <2>2, CommentsCounted DEF Later, Submittable
  <2>4. idempotency_key(ids) \notin addressed(e)
    BY <2>2, <2>3, KeyIsNewest
  <2>5. Cared(e, renounced) => AllCared(submit_commits(e, ids))
    BY <2>2, <2>4, CaredSubmit
  <2>6. f = Submitted(e, ids)
    BY <2>1, <2>2, SubmitCommits DEF End
  <2>7. PICK t \in Tasks : Added(e, t, ids, Submitted(e, ids))
    BY <2>2, <2>3, SubmittedTask
  <2>8. f.status = "triggered" /\ f.rows[t].state = "queued"
    BY <2>6, <2>7 DEF Added
  <2> HIDE DEF f
  <2>9. \E u \in Tasks : f.rows[u].state = "queued"
    BY <2>8
  <2> QED BY <2>1, <2>5, <2>8, <2>9 DEF f
<1> QED BY <1>1, <1>2

-----------------------------------------------------------------------------
(* What waits. *)

\* A task that waits for a worker is nobody's who is done with it.
LEMMA QueuedUndrained ==
    ASSUME NEW d, NEW m, Minds(d, m), NEW t \in Tasks, d.rows[t].state = "queued"
    PROVE  t \in UndrainedIn(d, m)
<1>1. ASSUME NEW w \in Workers, m.phase[w] = "ok", m.held[w] = t
      PROVE  FALSE
  BY <1>1 DEF Minds, Delivered, Busy, EndedPhases
<1> QED BY <1>1 DEF UndrainedIn, Live, InState

LEMMA QueuedWaits ==
    ASSUME NEW d, NEW m, Minds(d, m), NEW t \in Tasks, d.rows[t].state = "queued"
    PROVE  Waiting(d, m)
BY QueuedUndrained DEF Waiting

\* Nor is one that a worker is on, unless it is done.
LEMMA RunUndrained ==
    ASSUME NEW d, NEW m, Minds(d, m), NEW w \in Workers, m.phase[w] \in Busy \ {"ok"},
           d.rows[m.held[w]].state = "running"
    PROVE  m.held[w] \in UndrainedIn(d, m)
<1> DEFINE t == m.held[w]
<1>1. t \in Tasks /\ m.running[t] = w
  BY DEF Minds
<1>2. ASSUME NEW v \in Workers, m.phase[v] = "ok", m.held[v] = t
      PROVE  FALSE
  <2>1. m.running[t] = v
    BY <1>2 DEF Minds, Busy, EndedPhases
  <2> QED BY <1>1, <1>2, <2>1
<1> QED BY <1>1, <1>2 DEF UndrainedIn, Live, InState

LEMMA RunWaits ==
    ASSUME NEW d, NEW m, Minds(d, m), NEW w \in Workers, m.phase[w] \in Busy \ {"ok"},
           d.rows[m.held[w]].state = "running"
    PROVE  Waiting(d, m)
BY RunUndrained DEF Waiting

\* Nothing more waits, and whoever was to drain still is.
LEMMA StillWaiting ==
    ASSUME NEW d, NEW m, Waiting(d, m), NEW e, NEW n, n.up => m.up,
           pending_comment_ids(e) = pending_comment_ids(d), Promised(e) = Promised(d),
           e.status = d.status \/ e.status \in ClosedStatuses,
           Live(e.rows) \subseteq Live(d.rows),
           UndrainedIn(d, m) \subseteq UndrainedIn(e, n)
    PROVE  Waiting(e, n)
<1>1. \A status : status \in ClosedStatuses => status \notin InFlightStatuses
  BY DEF ClosedStatuses, InFlightStatuses
<1> QED BY <1>1 DEF Waiting

\* Nothing is asked of a thread that is closed, failed, or has nothing to do.
LEMMA NothingWaits ==
    ASSUME NEW d, NEW m,
           \/ d.status \in ClosedStatuses \cup {"failed"}
           \/ /\ pending_comment_ids(d) = {}
              /\ d.status \notin InFlightStatuses \/ Live(d.rows) = {}
    PROVE  Waiting(d, m)
BY DEF Waiting, ClosedStatuses, InFlightStatuses

\* The undrained tasks of a memory that ends no run well.
LEMMA UndrainedStays ==
    ASSUME NEW d, NEW m, NEW e, NEW n, Live(d.rows) \subseteq Live(e.rows),
           \A w \in Workers : n.phase[w] = "ok" => m.phase[w] = "ok" /\ n.held[w] = m.held[w]
    PROVE  UndrainedIn(d, m) \subseteq UndrainedIn(e, n)
BY DEF UndrainedIn

\* A worker whose run stands where it stood.
LEMMA PromptStays ==
    ASSUME NEW d, NEW m, NEW w, PromptAt(d, m, w), NEW e, NEW n,
           addressed(d) \subseteq addressed(e),
           n.phase[w] = m.phase[w], n.held[w] = m.held[w],
           n.timed_out[w] = m.timed_out[w], n.ids[w] = m.ids[w],
           m.phase[w] \in Busy => e.rows[m.held[w]].state = d.rows[m.held[w]].state
    PROVE  PromptAt(e, n, w)
BY DEF PromptAt, Busy, EndedPhases

LEMMA DeadIsPrompt ==
    ASSUME NEW d
    PROVE  Prompt(d, Dead) /\ Waiting(d, Dead)
BY DEF Dead, Prompt, PromptAt, Waiting, ActivePhases

-----------------------------------------------------------------------------
(* Turns. *)

\* A turn that may be torn shows what it commits in between.
LEMMA KeptSpending ==
    ASSUME AsksKept, NEW commits, TornCrashes => AllCared(commits),
           Cared(End(db, commits), renounced),
           commits # <<>> => Len(commits) \in Nat \ {0},
           NEW after, NEW spent, TurnSpending(commits, after, spent), renounced' = renounced,
           db' = End(db, commits) /\ proc' = after =>
              Prompt(db', proc') /\ (Trusted => Waiting(db', proc') /\ Ready(db'))
    PROVE  AsksKept'
<1>1. CASE db' = End(db, commits) /\ proc' = after
  BY <1>1 DEF AsksKept, Trusted
<1>2. CASE TornCrashes /\ proc' = Dead /\ \E k \in 1 .. Len(commits) - 1 : db' = commits[k]
  <2>1. PICK k \in 1 .. Len(commits) - 1 : db' = commits[k]
    BY <1>2
  <2>2. commits # <<>>
    BY <2>1
  <2>3. k \in 1 .. Len(commits)
    BY <2>1, <2>2
  <2>4. Cared(db', renounced)
    BY <1>2, <2>1, <2>3 DEF AllCared
  <2> QED BY <1>2, <2>4, DeadIsPrompt DEF AsksKept, Ready
<1> QED BY <1>1, <1>2 DEF TurnSpending, End

LEMMA KeptTurn ==
    ASSUME AsksKept, NEW commits, AllCared(commits), commits # <<>> => Len(commits) \in Nat \ {0},
           NEW after, NEW spent, TurnSpending(commits, after, spent), renounced' = renounced,
           db' = End(db, commits) /\ proc' = after =>
              Prompt(db', proc') /\ (Trusted => Waiting(db', proc') /\ Ready(db'))
    PROVE  AsksKept'
<1>1. Cared(End(db, commits), renounced)
  <2>1. CASE commits = <<>>
    BY <2>1 DEF End, AsksKept
  <2>2. CASE commits # <<>>
    BY <2>2 DEF End, Last, AllCared
  <2> QED BY <2>1, <2>2
<1> QED BY <1>1, KeptSpending

\* The turn of one worker: the others' runs stand where they stood.
LEMMA PromptBesides ==
    ASSUME AsksKept, NEW w \in Workers, NEW n, Besides(n, w), NEW e, PromptAt(e, n, w),
           addressed(db) \subseteq addressed(e),
           \A v \in Workers : v # w /\ proc.phase[v] \in Busy =>
                e.rows[proc.held[v]].state = db.rows[proc.held[v]].state
    PROVE  Prompt(e, n)
<1> SUFFICES ASSUME NEW v \in Workers, v # w PROVE PromptAt(e, n, v)
  BY DEF Prompt
<1>1. PromptAt(db, proc, v)
  BY DEF AsksKept, Prompt
<1> QED BY <1>1, PromptStays DEF Besides

\* A turn that leaves the tasks as they are, but for their thread's status.
LEMMA KeptStatus ==
    ASSUME Sound, AsksKept, NEW commits, AllCared(commits),
           commits # <<>> => Len(commits) \in Nat \ {0},
           NEW after, Turn(commits, after), renounced' = renounced,
           after.up = proc.up, after.phase = proc.phase, after.held = proc.held,
           after.timed_out = proc.timed_out, after.ids = proc.ids,
           SameWork(db, End(db, commits)),
           NEW status, End(db, commits).status = status,
           Trusted =>
              \/ status = db.status
              \/ status \in ClosedStatuses /\ (status = "pr_open" => Ready(set_status(db, status)))
              \/ status = "preview_ready" /\ pending_comment_ids(db) = {}
    PROVE  AsksKept'
<1> SUFFICES ASSUME db' = End(db, commits), proc' = after
             PROVE  Prompt(db', proc') /\ (Trusted => Waiting(db', proc') /\ Ready(db'))
  BY KeptTurn DEF Turn
<1>1. /\ db'.rows = db.rows /\ pending_comment_ids(db') = pending_comment_ids(db)
      /\ addressed(db') = addressed(db) /\ Promised(db') = Promised(db) /\ db'.status = status
  BY SameAsks, SamePending DEF SameWork
<1>2. Prompt(db', proc')
  BY <1>1, PromptStays DEF AsksKept, Prompt
<1>3. UndrainedIn(db, proc) \subseteq UndrainedIn(db', proc')
  BY <1>1, UndrainedStays
<1>4. ASSUME Trusted
      PROVE  Waiting(db', proc')
  <2>1. CASE status = db.status \/ status \in ClosedStatuses
    BY <1>1, <1>3, <1>4, <2>1, StillWaiting DEF AsksKept
  <2>2. CASE status = "preview_ready" /\ pending_comment_ids(db) = {}
    BY <1>1, <2>2, NothingWaits DEF InFlightStatuses
  <2> QED BY <1>4, <2>1, <2>2
<1>5. ASSUME Trusted
      PROVE  Ready(db')
  <2>1. CASE status = db.status
    BY <1>1, <1>5, <2>1 DEF AsksKept, Ready
  <2>2. CASE status = "pr_open" /\ Ready(set_status(db, status))
    <3>1. set_status(db, status).status = status
      BY DEF set_status, Sound, TypeOK, Database
    <3>2. pending_comment_ids(set_status(db, status)) = pending_comment_ids(db)
      BY SamePending DEF set_status, Sound, TypeOK, Database
    <3> QED BY <1>1, <2>2, <3>1, <3>2 DEF Ready
  <2>3. CASE status \in ClosedStatuses /\ status # "pr_open"
    BY <1>1, <2>3 DEF Ready, ClosedStatuses
  <2>4. CASE status = "preview_ready" /\ pending_comment_ids(db) = {}
    BY <1>1, <2>4 DEF Ready
  <2> QED BY <1>5, <2>1, <2>2, <2>3, <2>4
<1> QED BY <1>2, <1>4, <1>5

LEMMA KeptFlow ==
    ASSUME Sound, AsksKept, NEW f \in Flows, flow_step(f)
    PROVE  AsksKept'
<1> DEFINE sha == proc.flows[f].sha
<1>1. /\ sha \in Nat /\ db.preview_sha \in Nat /\ db.pr_url \in Nat
      /\ db \in Database /\ proc \in Process /\ Cared(db, renounced)
  BY DEF Sound, TypeOK, Process, Database, AsksKept
<1> HIDE DEF sha
<1>2. ASSUME NEW commits, AllCared(commits),
             commits # <<>> => Len(commits) \in Nat \ {0},
             NEW at \in FlowStages, NEW v \in Nat, Turn(commits, with_flow(proc, f, at, v)),
             renounced' = renounced, SameWork(db, End(db, commits)),
             Trusted =>
                \/ End(db, commits).status = db.status
                \/ End(db, commits).status \in {"merged", "done"}
                \/ End(db, commits).status = "preview_ready" /\ pending_comment_ids(db) = {}
      PROVE  AsksKept'
  <2>1. Flowed(proc, with_flow(proc, f, at, v), f, at, v)
    BY <1>1, <1>2, WithFlow
  <2>2. {"merged", "done"} \subseteq ClosedStatuses
    BY DEF ClosedStatuses
  <2> QED BY <1>2, <2>1, <2>2, KeptStatus DEF Flowed
<1>3. ASSUME NEW at \in FlowStages, NEW v \in Nat, Turn(<<>>, with_flow(proc, f, at, v)),
             renounced' = renounced
      PROVE  AsksKept'
  <2>1. SameWork(db, End(db, <<>>)) /\ End(db, <<>>).status = db.status
    BY DEF End, SameWork
  <2> QED BY <1>2, <1>3, <2>1, CaredCommits
<1>4. ASSUME NEW d, SameWork(db, d),
             Trusted => \/ d.status \in {db.status, "done"}
                        \/ d.status = "preview_ready" /\ pending_comment_ids(db) = {},
             NEW at \in FlowStages, NEW v \in Nat, Turn(<<d>>, with_flow(proc, f, at, v)),
             renounced' = renounced
      PROVE  AsksKept'
  <2>1. End(db, <<d>>) = d /\ Len(<<d>>) \in Nat \ {0}
    BY DEF End, Last
  <2>2. AllCared(<<d>>)
    BY <1>1, <1>4, CaredSame, CaredCommits
  <2> QED BY <1>2, <1>4, <2>1, <2>2
<1>5. {"none", "opening", "reopening", "ci", "merging"} \subseteq FlowStages
      /\ {"merged", "done", "preview_ready"} \subseteq Statuses
  BY DEF FlowStages, Statuses, ClosedStatuses
<1>6. CASE flow_opens(f)
  BY <1>1, <1>3, <1>5, <1>6 DEF flow_opens
<1>7. CASE flow_resumes(f)
  <2>1. CASE Turn(<<set_status(db, "done")>>, flow_ends(f))
    <3>1. SameWork(db, set_status(db, "done")) /\ set_status(db, "done").status = "done"
      BY <1>1, <1>5, SetStatus DEF set_status, Database
    <3> QED BY <1>4, <1>5, <1>7, <2>1, <3>1 DEF flow_ends, flow_resumes
  <2>2. CASE \/ Turn(<<>>, with_flow(proc, f, "ci", db.pr_url))
             \/ Turn(<<>>, with_flow(proc, f, "reopening", db.preview_sha))
             \/ Turn(<<>>, flow_ends(f))
    BY <1>1, <1>3, <1>5, <1>7, <2>2 DEF flow_ends, flow_resumes
  <2> QED BY <1>7, <2>1, <2>2 DEF flow_resumes
<1>8. CASE flow_opened(f)
  <2>1. SameWork(db, set_pr_url(db, sha)) /\ set_pr_url(db, sha).status = db.status
    BY <1>1, SetPrUrl DEF set_pr_url, Database
  <2> QED BY <1>1, <1>4, <1>5, <1>8, <2>1 DEF flow_opened, sha
<1>9. CASE flow_not_opened(f)
  <2> DEFINE d == approval_reverted(db)
  <2>1. d = db \/ (db.status = "pr_open" /\ d = set_status(db, "preview_ready"))
    BY DEF approval_reverted, transition, finds_row
  <2>2. Trusted => ~TornCrashes
    BY <1>9 DEF flow_not_opened, Trusted
  <2>3. /\ SameWork(db, d)
        /\ d.status = db.status \/ (db.status = "pr_open" /\ d.status = "preview_ready")
    <3>1. SameWork(db, set_status(db, "preview_ready"))
      BY <1>1, <1>5, SetStatus
    <3>2. set_status(db, "preview_ready").status = "preview_ready"
      BY <1>1 DEF set_status, Database
    <3> QED BY <2>1, <3>1, <3>2 DEF SameWork
  <2>4. Trusted /\ db.status = "pr_open" => pending_comment_ids(db) = {}
    BY <2>2 DEF AsksKept, Ready
  <2> HIDE DEF d
  <2>5. CASE Turn(<<d>>, flow_ends(f))
    BY <1>4, <1>5, <1>9, <2>3, <2>4, <2>5 DEF flow_not_opened, flow_ends
  <2>6. CASE Turn(<<>>, flow_ends(f))
    BY <1>3, <1>5, <1>9, <2>6 DEF flow_not_opened, flow_ends
  <2> QED BY <1>9, <2>5, <2>6 DEF flow_not_opened, d
<1>10. CASE flow_merges(f)
  BY <1>1, <1>3, <1>5, <1>10 DEF flow_merges, sha
<1>11. CASE flow_stays_open(f)
  BY <1>1, <1>3, <1>5, <1>11 DEF flow_stays_open, flow_ends
<1>12. CASE flow_merged(f)
  <2> DEFINE d1 == set_status(db, "merged")
             d2 == set_status(d1, "done")
  <2>1. d1 \in Database /\ SameWork(db, d1)
    BY <1>1, <1>5, SetStatus
  <2> HIDE DEF d1
  <2>2. d2 \in Database /\ SameWork(d1, d2) /\ d2.status = "done"
    BY <1>5, <2>1, SetStatus DEF set_status, Database
  <2>3. Turn(<<d1, d2>>, with_flow(proc, f, "none", 0)) /\ renounced' = renounced
    BY <1>12 DEF flow_merged, flow_ends, d1
  <2> HIDE DEF d2
  <2>4. SameWork(db, d2)
    BY <2>1, <2>2 DEF SameWork
  <2>5. AllCared(<<d1, d2>>)
    BY <1>1, <2>1, <2>4, CaredSame, CaredCommits
  <2>6. End(db, <<d1, d2>>) = d2 /\ Len(<<d1, d2>>) \in Nat \ {0}
    BY LastOfTwo
  <2> QED BY <1>2, <1>5, <2>2, <2>3, <2>4, <2>5, <2>6
<1> QED BY <1>6, <1>7, <1>8, <1>9, <1>10, <1>11, <1>12 DEF flow_step

LEMMA KeptApprove ==
    ASSUME Sound, AsksKept, NEW sha, approve(sha)
    PROVE  AsksKept'
<1> DEFINE d == set_status(db, "pr_open")
<1>1. /\ db \in Database /\ proc \in Process /\ Cared(db, renounced) /\ db.status = "preview_ready"
      /\ transition(db, "preview_ready", "pr_open") = d /\ renounced' = renounced
  BY DEF Sound, TypeOK, AsksKept, approve, finds_row, transition
<1>2. PICK f \in Flows : Turn(<<d>>, with_flow(proc, f, "approved", 0))
  BY <1>1 DEF approve, FreeFlows
<1>3. Flowed(proc, with_flow(proc, f, "approved", 0), f, "approved", 0)
  BY <1>1, WithFlow DEF FlowStages
<1>4. SameWork(db, d) /\ d.status = "pr_open"
  BY <1>1, SetStatus DEF set_status, Database, Statuses, ClosedStatuses
<1>5. Trusted => Ready(d)
  BY <1>1, <1>4, SamePending DEF AsksKept, Ready, SameWork
<1>6. AllCared(<<d>>) /\ End(db, <<d>>) = d /\ Len(<<d>>) \in Nat \ {0}
  <2>1. Cared(d, renounced)
    BY <1>1, <1>4, CaredSame
  <2> HIDE DEF d
  <2> QED BY <2>1, CaredCommits DEF End, Last
<1>7. "pr_open" \in ClosedStatuses
  BY DEF ClosedStatuses
<1> QED BY <1>1, <1>2, <1>3, <1>4, <1>5, <1>6, <1>7, KeptStatus DEF Flowed

\* A turn of one worker that only moves rows of the table, or the status.
LEMMA KeptRows ==
    ASSUME Sound, AsksKept, NEW commits, AllCared(commits),
           commits # <<>> => Len(commits) \in Nat \ {0},
           NEW w \in Workers, NEW after, Besides(after, w), Turn(commits, after),
           renounced' = renounced,
           addressed(End(db, commits)) = addressed(db),
           \A v \in Workers : v # w /\ proc.phase[v] \in Busy =>
                End(db, commits).rows[proc.held[v]].state = db.rows[proc.held[v]].state,
           PromptAt(End(db, commits), after, w),
           Trusted /\ db' = End(db, commits) /\ proc' = after =>
                Waiting(db', proc') /\ Ready(db')
    PROVE  AsksKept'
<1>1. Prompt(End(db, commits), after)
  BY PromptBesides
<1> QED BY <1>1, KeptTurn DEF Turn

LEMMA KeptCrash ==
    ASSUME AsksKept, crash
    PROVE  AsksKept'
BY DeadIsPrompt DEF crash, AsksKept, Trusted

LEMMA KeptBoot ==
    ASSUME Sound, Sound', AsksKept, boot
    PROVE  AsksKept'
<1> DEFINE started == [Dead EXCEPT !.up = TRUE, !.phase = [w \in Workers |-> "idle"]]
           resumed(f) == with_flow(started, f, "resuming", 0)
           idle_thread == /\ db.status \notin ClosedStatuses \cup {"failed"}
                          /\ active_for_thread(db) = NoTask
           drained == drain_pending_commits(db)
<1>1. db \in Later(db, db.iterations) /\ Cared(db, renounced) /\ renounced' = renounced
  BY LaterSelf DEF Sound, AsksKept, boot
<1>2. started \in Process
  BY DeadIsTyped DEF Dead, Process
<1>3. started.phase = [w \in Workers |-> "idle"] /\ started.timed_out = [w \in Workers |-> FALSE]
  BY DEF Dead
<1>4. ASSUME NEW n, n.phase = started.phase, n.timed_out = started.timed_out, NEW d
      PROVE  Prompt(d, n) /\ UndrainedIn(d, n) = Live(d.rows)
  BY <1>3, <1>4 DEF Prompt, PromptAt, ActivePhases, UndrainedIn
<1>5. Live(db.rows) = {} <=> active_for_thread(db) = NoTask
  BY ActiveIsLive
<1>6. CASE flow_was_under_way(db)
  <2>1. PICK f \in Flows : Turn(<<>>, resumed(f))
    BY <1>6 DEF boot
  <2>2. Flowed(started, resumed(f), f, "resuming", 0)
    <3> HIDE DEF started
    <3> QED BY <1>2, WithFlow DEF FlowStages
  <2>3. db.status \in ClosedStatuses
    BY <1>6 DEF flow_was_under_way, ClosedStatuses
  <2> HIDE DEF resumed, started
  <2>4. Prompt(db, resumed(f)) /\ Waiting(db, resumed(f))
    BY <1>4, <2>2, <2>3, NothingWaits DEF Flowed
  <2>5. End(db, <<>>) = db
    BY DEF End
  <2> QED BY <1>1, <2>1, <2>4, <2>5, KeptTurn, CaredCommits DEF Turn, AsksKept
<1>7. CASE ~flow_was_under_way(db) /\ ~idle_thread
  <2>1. Turn(<<>>, started)
    BY <1>7 DEF boot
  <2>2. End(db, <<>>) = db
    BY DEF End
  <2> HIDE DEF started
  <2>3. Waiting(db, started)
    <3>1. CASE db.status \in ClosedStatuses \cup {"failed"}
      BY <3>1, NothingWaits
    <3>2. CASE active_for_thread(db) # NoTask
      BY <1>4, <1>5, <3>2 DEF Waiting
    <3> QED BY <1>7, <3>1, <3>2
  <2> QED BY <1>1, <1>4, <2>1, <2>2, <2>3, KeptTurn, CaredCommits DEF Turn, AsksKept
<1>8. CASE ~flow_was_under_way(db) /\ idle_thread
  <2>1. Turn(drained, started)
    BY <1>8 DEF boot
  <2>2. AllCared(drained) /\ drained \in Seq(Later(db, db.iterations))
    BY <1>1, CaredDrain, DrainCommits
  <2> DEFINE e == End(db, drained)
  <2>3. \/ e = db /\ pending_comment_ids(db) = {}
        \/ e.status = "triggered" /\ \E t \in Tasks : e.rows[t].state = "queued"
    BY <1>1, <1>8, CaredDrain
  <2> HIDE DEF started, drained
  <2>4. ASSUME db' = e, proc' = started
        PROVE  Waiting(db', proc') /\ (Trusted => Ready(db'))
    <3>1. CASE e = db /\ pending_comment_ids(db) = {}
      BY <1>5, <1>8, <2>4, <3>1, NothingWaits DEF Ready
    <3>2. CASE e.status = "triggered" /\ \E t \in Tasks : e.rows[t].state = "queued"
      BY <2>4, <3>2, QueuedWaits DEF Sound, Ready
    <3> QED BY <2>3, <3>1, <3>2
  <2> QED BY <1>1, <1>4, <2>1, <2>2, <2>4, KeptTurn DEF Turn
<1> QED BY <1>6, <1>7, <1>8

\* A run that goes on or ends, at a status that tells of work, or none.
LEMMA KeptPhase ==
    ASSUME Sound, Sound', AsksKept, NEW w \in Workers, proc.phase[w] \in ActivePhases,
           NEW commits, NEW d, (commits = <<>> /\ d = db) \/ commits = <<d>>,
           SameWork(db, d), d.status \in {db.status} \cup InFlightStatuses,
           NEW p \in ActivePhases \cup {"error", "vanished"},
           NEW after, Besides(after, w), Turn(commits, after), renounced' = renounced,
           after.phase[w] = p, after.held[w] = proc.held[w], after.timed_out[w] = proc.timed_out[w]
    PROVE  AsksKept'
<1>1. AllCared(commits) /\ End(db, commits) = d /\ (commits # <<>> => Len(commits) \in Nat \ {0})
  <2>1. Cared(d, renounced)
    BY CaredSame DEF AsksKept
  <2>2. CASE commits = <<>> /\ d = db
    BY <2>2, CaredCommits DEF End
  <2>3. CASE commits = <<d>>
    <3>1. AllCared(<<d>>)
      BY <2>1, CaredCommits
    <3>2. Len(<<d>>) = 1 /\ End(db, <<d>>) = d
      BY DEF End, Last
    <3> QED BY <2>3, <3>1, <3>2
  <2> QED BY <2>2, <2>3
<1>2. db.rows[proc.held[w]].state = "running" /\ PromptAt(db, proc, w)
  BY DEF Sound, Minds, Delivered, Busy, AsksKept, Prompt
<1>3. PromptAt(d, after, w)
  BY <1>2 DEF PromptAt, SameWork, ActivePhases
<1>4. p \in Busy \ {"ok"}
  BY DEF Busy, ActivePhases, EndedPhases
<1>5. addressed(d) = addressed(db) /\ pending_comment_ids(d) = pending_comment_ids(db)
  BY SamePending DEF SameWork
<1>6. ASSUME Trusted, db' = d, proc' = after
      PROVE  Waiting(db', proc') /\ Ready(db')
  <2>1. Waiting(db', proc')
    BY <1>2, <1>4, <1>6, RunWaits DEF Sound, SameWork
  <2>2. Ready(db')
    BY <1>5, <1>6 DEF AsksKept, Ready, InFlightStatuses
  <2> QED BY <2>1, <2>2
<1> QED BY <1>1, <1>3, <1>5, <1>6, KeptRows DEF SameWork

LEMMA KeptBegins ==
    ASSUME Sound, Sound', AsksKept, NEW w \in Workers, begins(w)
    PROVE  AsksKept'
<1> DEFINE d == set_status(db, "analyzing")
           after(p) == [proc EXCEPT !.phase[w] = p,
                                    !.parent[w] = resolve_parent_sha(db, proc.ids[w])]
<1>1. PICK p \in {"analyzing", "error", "vanished"} : Turn(<<d>>, after(p))
  BY DEF begins
<1>2. proc.phase[w] \in ActivePhases /\ renounced' = renounced
  BY DEF begins, ActivePhases
<1>3. /\ Besides(after(p), w) /\ after(p).phase[w] = p /\ after(p).held[w] = proc.held[w]
      /\ after(p).timed_out[w] = proc.timed_out[w]
  BY DEF Besides, Process, Sound, TypeOK
<1>4. SameWork(db, d) /\ d.status = "analyzing"
  BY SetStatus DEF set_status, Sound, TypeOK, Database, Statuses, InFlightStatuses
<1> HIDE DEF d, after
<1> QED BY <1>1, <1>2, <1>3, <1>4, KeptPhase DEF ActivePhases, InFlightStatuses

LEMMA KeptProgresses ==
    ASSUME Sound, Sound', AsksKept, NEW w \in Workers, progresses(w)
    PROVE  AsksKept'
<1> DEFINE d(p) == set_status(db, p)
           after(p) == [proc EXCEPT !.phase[w] = p]
<1>1. PICK p \in {"coding", "deploying"} : Turn(<<d(p)>>, after(p))
  BY DEF progresses
<1>2. proc.phase[w] \in ActivePhases /\ renounced' = renounced
  BY DEF progresses, ActivePhases
<1>3. /\ Besides(after(p), w) /\ after(p).phase[w] = p /\ after(p).held[w] = proc.held[w]
      /\ after(p).timed_out[w] = proc.timed_out[w]
  BY DEF Besides, Process, Sound, TypeOK
<1>4. SameWork(db, d(p)) /\ d(p).status = p
  BY SetStatus DEF set_status, Sound, TypeOK, Database, Statuses, InFlightStatuses
<1> HIDE DEF d, after
<1> QED BY <1>1, <1>2, <1>3, <1>4, KeptPhase DEF ActivePhases, InFlightStatuses

LEMMA KeptRaises ==
    ASSUME Sound, Sound', AsksKept, NEW w \in Workers, raises(w)
    PROVE  AsksKept'
<1> DEFINE after == [proc EXCEPT !.phase[w] = "error"]
<1>1. /\ proc.phase[w] \in ActivePhases /\ renounced' = renounced
      /\ Turn(<<>>, after)
  BY DEF raises, ActivePhases
<1>2. /\ Besides(after, w) /\ after.phase[w] = "error" /\ after.held[w] = proc.held[w]
      /\ after.timed_out[w] = proc.timed_out[w]
  BY DEF Besides, Process, Sound, TypeOK
<1> HIDE DEF after
<1> QED BY <1>1, <1>2, KeptPhase DEF SameWork

LEMMA KeptDeadline ==
    ASSUME Sound, AsksKept, QuietFailures, NEW w \in Workers, deadline(w)
    PROVE  AsksKept'
<1> DEFINE p == IF proc.phase[w] \in ActivePhases THEN "cancelled" ELSE proc.phase[w]
           after == [proc EXCEPT !.timed_out[w] = TRUE, !.phase[w] = p]
<1>1. /\ Turn(<<>>, after) /\ renounced' = renounced
      /\ proc.phase[w] \in Busy /\ proc.phase[w] # "cancelled"
  BY DEF deadline, Engaged, Busy
<1>2. /\ p \notin ActivePhases
      /\ p = "ok" <=> proc.phase[w] = "ok"
      /\ p = "error" => proc.phase[w] = "error"
      /\ p = "cancelled" => proc.phase[w] \in ActivePhases
  BY <1>1 DEF Busy, ActivePhases, EndedPhases
<1> HIDE DEF p
<1>3. /\ Besides(after, w) /\ after.phase[w] = p /\ after.held[w] = proc.held[w]
      /\ after.timed_out[w] = TRUE /\ after.ids[w] = proc.ids[w]
  BY DEF Besides, Process, Sound, TypeOK
<1> HIDE DEF after
<1>4. PromptAt(db, proc, w)
  BY DEF AsksKept, Prompt
<1>5. p = "cancelled" => db.rows[proc.held[w]].state = "running"
  BY <1>1, <1>2 DEF Sound, Minds, Delivered
<1>6. PromptAt(db, after, w)
  BY <1>2, <1>3, <1>4, <1>5 DEF PromptAt
<1>7. UndrainedIn(db, proc) \subseteq UndrainedIn(db, after)
  BY <1>2, <1>3, UndrainedStays DEF Besides
<1>8. Trusted => Waiting(db, after) /\ Ready(db)
  BY <1>3, <1>7, StillWaiting DEF Besides, AsksKept
<1>9. End(db, <<>>) = db
  BY DEF End
<1> QED BY <1>1, <1>3, <1>6, <1>8, <1>9, KeptRows, CaredCommits

-----------------------------------------------------------------------------
(* Workers that take a task, or let go of one. *)

\* What a row of the table may become without a promised ask being lost.
KeptRow(d, R, t) ==
    /\ R[t].state \notin {"none", "cancelled"} => d.rows[t].state \notin {"none", "cancelled"}
    /\ R[t].state = "done" => d.rows[t].state = "done" \/ d.comment_ids[t] \subseteq addressed(d)
    /\ t \in Carriers(d) => \/ R[t].state \in {"queued", "running", "dlq"}
                            \/ d.comment_ids[t] \subseteq addressed(d)

LEMMA CaredMove ==
    ASSUME NEW d \in Database, NEW S, Cared(d, S), NEW R \in Table,
           \A t \in Tasks : KeptRow(d, R, t)
    PROVE  /\ Cared(with_rows(d, R), S) /\ with_rows(d, R).rows = R
           /\ with_rows(d, R).status = d.status
           /\ addressed(with_rows(d, R)) = addressed(d)
           /\ Promised(with_rows(d, R)) = Promised(d)
           /\ pending_comment_ids(with_rows(d, R)) = pending_comment_ids(d)
<1> DEFINE e == with_rows(d, R)
<1>1. /\ e.rows = R /\ e.comment_ids = d.comment_ids /\ e.comments = d.comments
      /\ e.iterations = d.iterations
  BY WithRows
<1>2. e.status = d.status
  BY DEF with_rows, Database
<1> HIDE DEF e
<1>3. /\ addressed(e) = addressed(d) /\ pending_comment_ids(e) = pending_comment_ids(d)
      /\ Promised(e) = Promised(d)
  BY <1>1, SamePending, SameAsks
<1>4. \A t \in Tasks : t \in Carriers(e) <=> R[t].state \in {"queued", "running", "dlq"}
  BY <1>1 DEF Carriers, Live, InState
<1>5. ASSUME NEW t \in Tasks
      PROVE  /\ e.rows[t].state \notin {"none", "cancelled"} =>
                    d.rows[t].state \notin {"none", "cancelled"}
             /\ e.rows[t].state = "done" =>
                    d.rows[t].state = "done" \/ d.comment_ids[t] \subseteq addressed(d)
             /\ t \in Carriers(d) =>
                    t \in Carriers(e) \/ d.comment_ids[t] \subseteq addressed(d)
  BY <1>1, <1>4 DEF KeptRow
<1>6. Cared(e, S)
  BY <1>1, <1>5, CaredRows
<1> QED BY <1>1, <1>2, <1>3, <1>6 DEF e

\* A turn of one worker that moves rows.
LEMMA KeptMove ==
    ASSUME Sound, AsksKept, NEW R \in Table, \A t \in Tasks : KeptRow(db, R, t),
           NEW w \in Workers, NEW after, Besides(after, w), Turn(<<with_rows(db, R)>>, after),
           renounced' = renounced,
           \A v \in Workers : v # w /\ proc.phase[v] \in Busy =>
                R[proc.held[v]].state = db.rows[proc.held[v]].state,
           PromptAt(with_rows(db, R), after, w),
           Trusted /\ db' = with_rows(db, R) /\ proc' = after => Waiting(db', proc')
    PROVE  AsksKept'
<1> DEFINE e == with_rows(db, R)
<1>1. db \in Database /\ Cared(db, renounced)
  BY DEF Sound, TypeOK, AsksKept
<1>2. /\ Cared(e, renounced) /\ e.rows = R /\ e.status = db.status
      /\ addressed(e) = addressed(db) /\ pending_comment_ids(e) = pending_comment_ids(db)
  BY <1>1, CaredMove
<1>3. /\ Turn(<<e>>, after) /\ PromptAt(e, after, w)
      /\ Trusted /\ db' = e /\ proc' = after => Waiting(db', proc')
  OBVIOUS
<1> HIDE DEF e
<1>4. AllCared(<<e>>) /\ End(db, <<e>>) = e /\ Len(<<e>>) \in Nat \ {0}
  BY <1>2, CaredCommits DEF End, Last
<1>5. Trusted => Ready(e)
  BY <1>2 DEF AsksKept, Ready
<1> QED BY <1>2, <1>3, <1>4, <1>5, KeptRows

LEMMA KeptClaim ==
    ASSUME Sound, Sound', AsksKept, NEW w \in Workers, NEW t \in Tasks, claim(w, t)
    PROVE  AsksKept'
<1> DEFINE R == claim_next(db.rows, t, w)
           e == with_rows(db, R)
           after == [proc EXCEPT !.held[w] = t, !.phase[w] = "created",
                                 !.timed_out[w] = FALSE, !.running[t] = w,
                                 !.ids[w] = db.comment_ids[t]]
<1>1. /\ db.rows[t].state = "queued" /\ Turn(<<e>>, after) /\ renounced' = renounced
  BY DEF claim, IsOldest, InState
<1>2. GoodTable(db.rows) /\ db.rows \in Table
  BY DEF Sound, Coherent, GoodTable
<1>3. R \in Table
  BY <1>1, <1>2, ClaimKeepsGood DEF GoodTable
<1>4. R[t].state = "running" /\ \A u \in Tasks : u # t => R[u] = db.rows[u]
  BY <1>2 DEF claim_next, Table
<1> HIDE DEF R
<1>5. \A u \in Tasks : KeptRow(db, R, u)
  BY <1>1, <1>4 DEF KeptRow, Carriers, Live, InState
<1>6. /\ Besides(after, w) /\ after.phase[w] = "created" /\ after.held[w] = t
      /\ after.timed_out[w] = FALSE
  BY DEF Besides, Process, Sound, TypeOK
<1> HIDE DEF after
<1>7. PromptAt(e, after, w)
  BY <1>6 DEF PromptAt
<1>8. \A v \in Workers : proc.phase[v] \in Busy => R[proc.held[v]].state = db.rows[proc.held[v]].state
  BY <1>1, <1>4 DEF Sound, Minds, Delivered
<1>9. ASSUME db' = e, proc' = after
      PROVE  Waiting(db', proc')
  <2>1. db'.rows = R
    BY <1>3, <1>9, WithRows DEF Sound, TypeOK
  <2>2. proc'.phase[w] \in Busy \ {"ok"} /\ db'.rows[proc'.held[w]].state = "running"
    BY <1>4, <1>6, <1>9, <2>1 DEF Busy, ActivePhases
  <2> QED BY <2>2, RunWaits DEF Sound
<1> QED BY <1>1, <1>3, <1>5, <1>6, <1>7, <1>8, <1>9, KeptMove

LEMMA KeptFinishes ==
    ASSUME Sound, AsksKept, NEW w \in Workers, finishes(w)
    PROVE  AsksKept'
<1> DEFINE t == proc.held[w]
           R == complete(db.rows, t)
<1>1. /\ proc.phase[w] = "ok" /\ proc.phase[w] \in Busy /\ renounced' = renounced
      /\ Turn(<<with_rows(db, R)>>, unwound(w))
  BY DEF finishes, Busy, EndedPhases
<1>2. t \in Tasks /\ proc.running[t] = w /\ proc.ids[w] = db.comment_ids[t]
  BY <1>1 DEF Sound, Minds
<1>3. db.comment_ids[t] \subseteq addressed(db)
  BY <1>1, <1>2 DEF AsksKept, Prompt, PromptAt
<1>4. GoodTable(db.rows) /\ db.rows \in Table
  BY DEF Sound, Coherent, GoodTable
<1> HIDE DEF t
<1>5. R \in Table
  BY <1>2, <1>4, CompleteKeepsGood DEF GoodTable
<1>6. /\ R[t].state = db.rows[t].state \/ (db.rows[t].state = "running" /\ R[t].state = "done")
      /\ \A u \in Tasks : u # t => R[u] = db.rows[u]
  BY <1>2, <1>4 DEF complete, Table, Row
<1> HIDE DEF R
<1>7. \A u \in Tasks : KeptRow(db, R, u)
  BY <1>3, <1>6 DEF KeptRow, Carriers, Live, InState
<1>8. /\ Besides(unwound(w), w) /\ unwound(w).phase[w] = "idle"
      /\ unwound(w).timed_out[w] = FALSE
  BY <1>1, Unwinds
<1>9. PromptAt(with_rows(db, R), unwound(w), w)
  BY <1>8 DEF PromptAt
<1>10. \A v \in Workers : v # w /\ proc.phase[v] \in Busy =>
          R[proc.held[v]].state = db.rows[proc.held[v]].state
  BY <1>2, <1>6, OtherRows
<1>11. Trusted => Waiting(with_rows(db, R), unwound(w))
  <2> DEFINE e == with_rows(db, R)
             m == unwound(w)
  <2>1. /\ e.rows = R /\ e.status = db.status /\ Promised(e) = Promised(db)
        /\ pending_comment_ids(e) = pending_comment_ids(db)
    BY <1>5, <1>7, CaredMove DEF Sound, TypeOK, AsksKept
  <2>2. Live(e.rows) \subseteq Live(db.rows)
    BY <1>6, <2>1 DEF Live, InState
  <2> HIDE DEF e, m
  <2>3. UndrainedIn(db, proc) \subseteq UndrainedIn(e, m)
    <3> SUFFICES ASSUME NEW u \in UndrainedIn(db, proc) PROVE u \in UndrainedIn(e, m)
      OBVIOUS
    <3>1. u \in Live(db.rows) /\ u \in Tasks /\ u # t
      BY <1>1 DEF UndrainedIn, t, Live, InState
    <3>2. u \in Live(e.rows)
      BY <1>6, <2>1, <3>1 DEF Live, InState
    <3>3. \A v \in Workers : m.phase[v] = "ok" => proc.phase[v] = "ok" /\ m.held[v] = proc.held[v]
      BY <1>8 DEF Besides, m
    <3> QED BY <3>2, <3>3 DEF UndrainedIn
  <2>4. m.up = proc.up
    BY <1>8 DEF m, Besides
  <2>5. Trusted => Waiting(e, m)
    BY <2>1, <2>2, <2>3, <2>4, StillWaiting DEF AsksKept
  <2> QED BY <2>5 DEF e, m
<1> QED BY <1>1, <1>5, <1>7, <1>8, <1>9, <1>10, <1>11, KeptMove

\* A run the user, a comment or nobody knows of any more.
LEMMA KeptLetsGo ==
    ASSUME Sound, AsksKept, NEW w \in Workers, proc.phase[w] \in Busy \ {"ok"},
           NEW commits, commits = <<>> \/ commits = <<with_rows(db, db.rows)>>,
           Turn(commits, unwound(w)), renounced' = renounced
    PROVE  AsksKept'
<1> DEFINE e == End(db, commits)
           m == unwound(w)
<1>1. with_rows(db, db.rows) = db
  BY DEF with_rows, Sound, TypeOK, Database
<1>2. AllCared(commits) /\ e = db /\ (commits # <<>> => Len(commits) \in Nat \ {0})
  <2>1. CASE commits = <<>>
    BY <2>1, CaredCommits DEF End
  <2>2. CASE commits = <<db>>
    <3>1. AllCared(<<db>>)
      BY CaredCommits DEF AsksKept
    <3>2. Len(<<db>>) = 1 /\ End(db, <<db>>) = db
      BY DEF End, Last
    <3> QED BY <2>2, <3>1, <3>2
  <2> QED BY <1>1, <2>1, <2>2
<1>3. Besides(m, w) /\ m.phase[w] = "idle" /\ m.timed_out[w] = FALSE
  BY Unwinds
<1> HIDE DEF e, m
<1>4. PromptAt(db, m, w)
  BY <1>3 DEF PromptAt
<1>5. UndrainedIn(db, proc) \subseteq UndrainedIn(db, m)
  BY <1>3, UndrainedStays DEF Besides
<1>6. Trusted => Waiting(db, m) /\ Ready(db)
  BY <1>3, <1>5, StillWaiting DEF Besides, AsksKept
<1> QED BY <1>2, <1>3, <1>4, <1>6, KeptRows DEF e, m

LEMMA KeptGivesUp ==
    ASSUME Sound, AsksKept, NEW w \in Workers, gives_up(w)
    PROVE  AsksKept'
<1> DEFINE t == proc.held[w]
<1>1. /\ proc.phase[w] = "cancelled" /\ ~proc.timed_out[w] /\ renounced' = renounced
      /\ Turn(<<with_rows(db, cancel(db.rows, t))>>, unwound(w))
  BY DEF gives_up
<1>2. proc.phase[w] \in Busy \ {"ok"}
  BY <1>1 DEF Busy, EndedPhases
<1>3. db.rows[t].state = "cancelled"
  BY <1>1, <1>2 DEF Sound, Minds, Delivered, AsksKept, Prompt, PromptAt
<1>4. cancel(db.rows, t) = db.rows
  BY <1>3 DEF cancel, Live, InState
<1> QED BY <1>1, <1>2, <1>4, KeptLetsGo

LEMMA KeptWalksAway ==
    ASSUME Sound, AsksKept, NEW w \in Workers, walks_away(w)
    PROVE  AsksKept'
<1>1. proc.phase[w] \in Busy \ {"ok"} /\ Turn(<<>>, unwound(w)) /\ renounced' = renounced
  BY DEF walks_away, Busy, EndedPhases
<1> QED BY <1>1, KeptLetsGo

\* What fail() and the callback of its outcome leave.
LEMMA KeptFailed ==
    ASSUME NEW d \in Database, GoodTable(d.rows), NEW S, Cared(d, S),
           NEW t \in Tasks, d.rows[t].state = "running",
           NEW R \in Table, R[t] = failed_row(d.rows, t),
           \A u \in Tasks : u # t => R[u] = d.rows[u],
           NEW e, e = set_status(with_rows(d, R), StatusOfOutcome(fail_result(d.rows, t)))
    PROVE  /\ Cared(with_rows(d, R), S) /\ Cared(e, S) /\ e.rows = R
           /\ addressed(e) = addressed(d)
           /\ \/ e.status = "triggered" /\ R[t].state = "queued"
              \/ e.status = "failed"
<1> DEFINE d1 == with_rows(d, R)
           s == StatusOfOutcome(fail_result(d.rows, t))
<1>1. /\ R[t].state \in {"queued", "dlq"}
      /\ s = (IF R[t].state = "queued" THEN "triggered" ELSE "failed")
  BY DEF failed_row, fail_result, StatusOfOutcome, GoodTable, Table, Row
<1>2. \A u \in Tasks : KeptRow(d, R, u)
  BY <1>1 DEF KeptRow, Carriers, Live, InState
<1>3. /\ Cared(d1, S) /\ d1.rows = R /\ addressed(d1) = addressed(d) /\ d1 \in Database
  BY <1>2, CaredMove, WithRows
<1>4. e = set_status(d1, s)
  OBVIOUS
<1>5. s \in Statuses
  BY <1>1 DEF Statuses, InFlightStatuses
<1> HIDE DEF d1, s
<1>6. SameWork(d1, e) /\ Cared(e, S)
  BY <1>3, <1>4, <1>5, SetStatus, CaredStatus
<1>7. e.status = s
  BY <1>3, <1>4 DEF set_status, Database
<1>8. e.rows = R /\ addressed(e) = addressed(d)
  BY <1>3, <1>6, SamePending DEF SameWork
<1> QED BY <1>1, <1>3, <1>6, <1>7, <1>8 DEF d1

LEMMA KeptAttemptFails ==
    ASSUME Sound, Sound', AsksKept, NEW w \in Workers, attempt_fails(w)
    PROVE  AsksKept'
<1> DEFINE t == proc.held[w]
           R == fail(db.rows, t)
           d1 == with_rows(db, R)
           e == set_status(d1, StatusOfOutcome(fail_result(db.rows, t)))
           m == unwound(w)
<1>1. /\ proc.phase[w] = "error" \/ (proc.phase[w] = "cancelled" /\ proc.timed_out[w])
      /\ Turn(<<d1, e>>, m) /\ renounced' = renounced
  BY DEF attempt_fails
<1>2. proc.phase[w] \in Busy
  BY <1>1 DEF Busy, EndedPhases
<1>3. t \in Tasks /\ proc.running[t] = w
  BY <1>2 DEF Sound, Minds
<1>4. db.rows[t].state = "running"
  BY <1>1 DEF AsksKept, Prompt, PromptAt
<1>5. GoodTable(db.rows) /\ db.rows \in Table /\ db \in Database /\ Cared(db, renounced)
  BY DEF Sound, TypeOK, Coherent, GoodTable, AsksKept
<1> HIDE DEF t
<1>6. R \in Table
  BY <1>3, <1>5, FailKeepsGood DEF GoodTable
<1>7. R[t] = failed_row(db.rows, t) /\ \A u \in Tasks : u # t => R[u] = db.rows[u]
  BY <1>3, <1>5 DEF fail, Table
<1> HIDE DEF R
<1>8. /\ Cared(d1, renounced) /\ Cared(e, renounced) /\ e.rows = R
      /\ addressed(e) = addressed(db)
      /\ \/ e.status = "triggered" /\ R[t].state = "queued"
         \/ e.status = "failed"
  BY <1>3, <1>4, <1>5, <1>6, <1>7, KeptFailed
<1>9. Besides(m, w) /\ m.phase[w] = "idle" /\ m.timed_out[w] = FALSE
  BY <1>2, Unwinds
<1>10. \A v \in Workers : v # w /\ proc.phase[v] \in Busy =>
          R[proc.held[v]].state = db.rows[proc.held[v]].state
  BY <1>3, <1>7, OtherRows
<1> HIDE DEF d1, e, m
<1>11. PromptAt(e, m, w)
  BY <1>9 DEF PromptAt
<1>12. AllCared(<<d1, e>>) /\ End(db, <<d1, e>>) = e /\ Len(<<d1, e>>) \in Nat \ {0}
  BY <1>8, LastOfTwo, CaredCommits
<1>13. ASSUME db' = e, proc' = m
       PROVE  Waiting(db', proc') /\ Ready(db')
  <2>1. CASE e.status = "triggered" /\ R[t].state = "queued"
    <3>1. Waiting(db', proc')
      BY <1>3, <1>8, <1>13, <2>1, QueuedWaits DEF Sound
    <3> QED BY <1>13, <2>1, <3>1 DEF Ready
  <2>2. CASE e.status = "failed"
    BY <1>13, <2>2, NothingWaits DEF Ready
  <2> QED BY <1>8, <2>1, <2>2
<1> QED BY <1>1, <1>8, <1>9, <1>10, <1>11, <1>12, <1>13, KeptRows

LEMMA KeptResumes ==
    ASSUME Sound, Sound', AsksKept, NEW w \in Workers, resumes(w)
    PROVE  AsksKept'
BY KeptFinishes, KeptAttemptFails, KeptGivesUp, KeptWalksAway DEF resumes

-----------------------------------------------------------------------------
(* Leases, replays and the janitor. *)

LEMMA KeptLapse ==
    ASSUME Sound, AsksKept, NEW t \in Tasks, lease_lapses(t)
    PROVE  AsksKept'
<1>1. /\ db' = [db EXCEPT !.rows[t].lease = "expired"]
      /\ proc' = proc /\ renounced' = renounced /\ db \in Database
  BY DEF lease_lapses, Sound, TypeOK
<1>2. /\ db'.comment_ids = db.comment_ids /\ db'.comments = db.comments
      /\ db'.iterations = db.iterations /\ db'.status = db.status
      /\ \A u \in Tasks : db'.rows[u].state = db.rows[u].state
  BY <1>1 DEF Database, Table, Row
<1>3. Live(db'.rows) = Live(db.rows) /\ Carriers(db') = Carriers(db)
  BY <1>2 DEF Carriers, Live, InState
<1>4. Cared(db', renounced)
  BY <1>2, <1>3, CaredRows DEF AsksKept
<1>5. /\ addressed(db') = addressed(db) /\ pending_comment_ids(db') = pending_comment_ids(db)
      /\ Promised(db') = Promised(db)
  BY <1>2, SamePending, SameAsks
<1>6. Prompt(db', proc')
  <2>1. ASSUME NEW w \in Workers, proc.phase[w] \in Busy
        PROVE  db'.rows[proc.held[w]].state = db.rows[proc.held[w]].state
    BY <1>2, <2>1 DEF Sound, Minds
  <2>2. \A w \in Workers : PromptAt(db, proc, w) => PromptAt(db', proc', w)
    BY <1>1, <1>5, <2>1, PromptStays
  <2>3. \A w \in Workers : PromptAt(db', proc', w)
    BY <2>2 DEF AsksKept, Prompt
  <2> QED BY <2>3, Zenon DEF Prompt
<1>7. UndrainedIn(db, proc) \subseteq UndrainedIn(db', proc')
  <2>1. \A w \in Workers :
            proc'.phase[w] = "ok" => proc.phase[w] = "ok" /\ proc'.held[w] = proc.held[w]
    BY <1>1
  <2>2. Live(db.rows) \subseteq Live(db'.rows)
    BY <1>3
  <2> QED BY <2>1, <2>2, UndrainedStays
<1>8. Trusted => Waiting(db', proc') /\ Ready(db')
  BY <1>1, <1>2, <1>3, <1>5, <1>7, StillWaiting DEF AsksKept, Ready
<1> QED BY <1>1, <1>4, <1>6, <1>8 DEF AsksKept, Trusted

LEMMA KeptRequeue ==
    ASSUME Sound, Sound', AsksKept, NEW t \in Tasks, requeue_from_dlq_task(t)
    PROVE  AsksKept'
<1> DEFINE R == enqueue(db.rows, t)
           d1 == with_rows(db, R)
           e == set_status(d1, "triggered")
<1>1. /\ db.rows[t].state = "dlq" /\ renounced' = renounced
      /\ TurnSpending(<<d1, e>>, proc, [used EXCEPT !.replays = @ + 1])
  BY DEF requeue_from_dlq_task, requeue_from_dlq
<1>2. GoodTable(db.rows) /\ db.rows \in Table /\ db \in Database /\ Cared(db, renounced)
  BY DEF Sound, TypeOK, Coherent, GoodTable, AsksKept
<1>3. R \in Table
  BY <1>2, EnqueueKeepsGood DEF GoodTable
<1>4. R[t].state = "queued" /\ \A u \in Tasks : u # t => R[u] = db.rows[u]
  BY <1>2 DEF enqueue, NoRow, Table
<1> HIDE DEF R
<1>5. \A u \in Tasks : KeptRow(db, R, u)
  BY <1>1, <1>4 DEF KeptRow, Carriers, Live, InState
<1>6. /\ Cared(d1, renounced) /\ d1.rows = R /\ addressed(d1) = addressed(db)
      /\ d1 \in Database
  BY <1>2, <1>3, <1>5, CaredMove, WithRows
<1> HIDE DEF d1
<1>7. "triggered" \in Statuses
  BY DEF Statuses, InFlightStatuses
<1>8. SameWork(d1, e) /\ e.status = "triggered" /\ Cared(e, renounced)
  BY <1>6, <1>7, SetStatus, CaredStatus DEF set_status, Database
<1>9. e.rows = R /\ addressed(e) = addressed(db)
  BY <1>6, <1>8, SamePending DEF SameWork
<1> HIDE DEF e
<1>10. AllCared(<<d1, e>>) /\ End(db, <<d1, e>>) = e /\ Len(<<d1, e>>) \in Nat \ {0}
  BY <1>6, <1>8, LastOfTwo, CaredCommits
<1>11. Prompt(e, proc)
  <2>1. ASSUME NEW w \in Workers, proc.phase[w] \in Busy
        PROVE  e.rows[proc.held[w]].state = db.rows[proc.held[w]].state
    BY <1>1, <1>4, <1>9, <2>1 DEF Sound, Minds, Delivered
  <2>2. \A w \in Workers : PromptAt(db, proc, w) => PromptAt(e, proc, w)
    BY <1>9, <2>1, PromptStays
  <2> QED BY <2>2 DEF AsksKept, Prompt
<1>12. ASSUME db' = e, proc' = proc
       PROVE  Waiting(db', proc') /\ Ready(db')
  <2>1. Waiting(db', proc')
    BY <1>4, <1>9, <1>12, QueuedWaits DEF Sound
  <2> QED BY <1>8, <1>12, <2>1 DEF Ready
<1> DEFINE spent == [used EXCEPT !.replays = @ + 1]
<1>13. TurnSpending(<<d1, e>>, proc, spent)
  BY <1>1
<1> HIDE DEF spent
<1> QED BY <1>1, <1>10, <1>11, <1>12, <1>13, KeptTurn

-----------------------------------------------------------------------------
(* Runs that end well, and drain. *)

LEMMA KeptDrain ==
    ASSUME Sound, Sound', AsksKept, NEW its,
           NEW before \in Seq(Later(db, its)), AllCared(before),
           NEW x \in Later(db, its), End(db, before) = x, Cared(x, renounced),
           KeepsRows(db, x), x.status \notin InFlightStatuses,
           Trusted /\ x.status = "pr_open" => Ready(x),
           addressed(db) \subseteq addressed(x),
           NEW w \in Workers, NEW after, Besides(after, w), after.phase[w] = "ok",
           after.ids[w] \subseteq addressed(x),
           Turn(then_drain(db, before), after), renounced' = renounced
    PROVE  AsksKept'
<1> DEFINE drained == drain_pending_commits(x)
           commits == then_drain(db, before)
           e == End(x, drained)
<1>1. /\ commits \in Seq(Later(db, its)) /\ End(db, commits) = e /\ KeepsRows(x, e)
  BY ThenDrain
<1>2. /\ drained \in Seq(Later(db, its)) /\ AllCared(drained)
      /\ \/ /\ e = x
            /\ x.status \in ClosedStatuses \cup {"failed"} \/ pending_comment_ids(x) = {}
         \/ /\ e.status = "triggered"
            /\ \E t \in Tasks : e.rows[t].state = "queued"
  BY CaredDrain, DrainCommits
<1>3. commits = before \o drained
  BY DEF then_drain, End
<1> HIDE DEF drained
<1>4. AllCared(commits)
  BY <1>2, <1>3, CaredConcat
<1>5. commits # <<>> => Len(commits) \in Nat \ {0}
  BY <1>1
<1>6. addressed(e) = addressed(x)
  <2>1. e \in Later(db, its)
    BY <1>2, EndIsLater
  <2> QED BY <2>1 DEF Later, addressed
<1> HIDE DEF commits, e
<1>7. Prompt(e, after)
  <2>1. PromptAt(e, after, w)
    BY <1>6 DEF PromptAt, ActivePhases
  <2>2. KeepsRows(db, e)
    BY <1>1 DEF KeepsRows
  <2>3. ASSUME NEW v \in Workers, proc.phase[v] \in Busy
        PROVE  e.rows[proc.held[v]].state = db.rows[proc.held[v]].state
    <3>1. proc.held[v] \in Tasks /\ db.rows[proc.held[v]].state # "none"
      BY <2>3 DEF Sound, Minds, Delivered
    <3> QED BY <2>2, <3>1 DEF KeepsRows
  <2> QED BY <1>6, <2>1, <2>3, PromptBesides
<1>8. ASSUME Trusted, db' = e, proc' = after
      PROVE  Waiting(db', proc') /\ Ready(db')
  <2>1. CASE /\ e = x
             /\ x.status \in ClosedStatuses \cup {"failed"} \/ pending_comment_ids(x) = {}
    <3>1. Waiting(e, after)
      BY <2>1, NothingWaits
    <3>2. Ready(e)
      BY <1>8, <2>1 DEF Ready, ClosedStatuses
    <3> QED BY <1>8, <3>1, <3>2
  <2>2. CASE e.status = "triggered" /\ \E t \in Tasks : e.rows[t].state = "queued"
    BY <1>8, <2>2, QueuedWaits DEF Sound, Ready
  <2> QED BY <1>2, <2>1, <2>2
<1>9. Turn(commits, after)
  BY DEF commits
<1> QED BY <1>1, <1>4, <1>5, <1>7, <1>8, <1>9, KeptTurn DEF Turn

LEMMA KeptRedelivered ==
    ASSUME Sound, Sound', AsksKept, NEW w \in Workers, redelivered(w)
    PROVE  AsksKept'
<1> DEFINE d == set_status(db, "preview_ready")
           repaired == repair_commits(db)
           x == End(db, repaired)
           after == [proc EXCEPT !.phase[w] = "ok"]
           t == proc.held[w]
<1>1. /\ proc.phase[w] = "created" /\ already_applied(db, proc.ids[w])
      /\ Turn(then_drain(db, repaired), after) /\ renounced' = renounced
  BY DEF redelivered
<1>13. repaired = IF db.status \in InFlightStatuses THEN <<d>> ELSE <<>>
  BY DEF repair_commits
<1>2. proc.phase[w] \in Busy /\ proc.phase[w] \in ActivePhases
  BY <1>1 DEF Busy, ActivePhases
<1>3. /\ t \in Tasks /\ proc.ids[w] = db.comment_ids[t] /\ db.rows[t].state = "running"
  BY <1>2 DEF Sound, Minds, Delivered
<1> HIDE DEF t
<1>4. proc.ids[w] \subseteq addressed(db)
  BY <1>1, <1>3 DEF already_applied, Key, AsksKept, Cared, Taken
<1>5. /\ Cared(db, renounced) /\ db \in Database /\ db \in Later(db, db.iterations)
      /\ "preview_ready" \in Statuses
  BY LaterSelf DEF AsksKept, Sound, TypeOK, Statuses
<1>6. /\ d \in Later(db, db.iterations) /\ SameWork(db, d) /\ Cared(d, renounced)
      /\ d.status = "preview_ready"
  BY <1>5, LaterStatus, CaredStatus DEF set_status, Database
<1> HIDE DEF d
<1>7. /\ repaired \in Seq(Later(db, db.iterations)) /\ AllCared(repaired)
      /\ x = IF db.status \in InFlightStatuses THEN d ELSE db
  <2>1. CASE db.status \in InFlightStatuses
    BY <1>6, <1>13, <2>1, OneCommit, CaredCommits
  <2>2. CASE db.status \notin InFlightStatuses
    BY <1>13, <2>2, CaredCommits DEF End
  <2> QED BY <2>1, <2>2
<1> HIDE DEF repaired, x
<1>8. /\ x \in Later(db, db.iterations) /\ SameWork(db, x) /\ Cared(x, renounced)
      /\ x.status \in {db.status, "preview_ready"} /\ x.status \notin InFlightStatuses
  BY <1>5, <1>6, <1>7 DEF SameWork, InFlightStatuses
<1>9. KeepsRows(db, x) /\ addressed(x) = addressed(db)
      /\ pending_comment_ids(x) = pending_comment_ids(db)
  BY <1>8, SamePending DEF SameWork, KeepsRows
<1>10. Trusted /\ x.status = "pr_open" => Ready(x)
  BY <1>8, <1>9 DEF AsksKept, Ready
<1>11. Besides(after, w) /\ after.phase[w] = "ok" /\ after.ids[w] = proc.ids[w]
  BY DEF Besides, Process, Sound, TypeOK
<1> HIDE DEF after
<1>12. End(db, repaired) = x
  BY DEF x
<1> QED BY <1>1, <1>4, <1>7, <1>8, <1>9, <1>10, <1>11, <1>12, KeptDrain

\* The iteration of a task addresses all it covers, and nothing else's newest
\* comment.
LEMMA CaredRecorded ==
    ASSUME NEW d, Coherent(d), NEW S, Cared(d, S),
           NEW t \in Tasks, d.rows[t].state = "running",
           NEW e, e.rows = d.rows, e.comment_ids = d.comment_ids, e.comments = d.comments,
           addressed(e) = addressed(d) \cup d.comment_ids[t]
    PROVE  Cared(e, S)
<1>1. /\ Promised(e) = Promised(d) /\ covered_comment_ids(e) = covered_comment_ids(d)
      /\ Carriers(e) = Carriers(d)
  BY SameAsks DEF covered_comment_ids, Carriers
<1>2. Taken(e)
  <2>1. ASSUME NEW u \in Tasks, e.rows[u].state \notin {"none", "cancelled"},
               Key(e, u) \in addressed(e)
        PROVE  e.comment_ids[u] \subseteq addressed(e)
    <3>1. /\ Key(e, u) = Key(d, u) /\ d.comment_ids[u] # {} /\ ~Cancelled(d, u)
      BY <2>1 DEF Key, Coherent, Covering, Cancelled
    <3>2. CASE Key(d, u) \in addressed(d)
      BY <2>1, <3>2 DEF Cared, Taken
    <3>3. CASE Key(d, u) \in d.comment_ids[t]
      BY <3>1, <3>3 DEF Coherent, Covering
    <3> QED BY <2>1, <3>1, <3>2, <3>3
  <2> QED BY <2>1 DEF Cared, Taken
<1>3. Lost(e) \subseteq Lost(d)
  BY <1>1 DEF Lost
<1> QED BY <1>1, <1>2, <1>3 DEF Cared

LEMMA CaredAppend ==
    ASSUME NEW S, NEW s \in Seq(S), NEW x \in S, AllCared(s), Cared(x, renounced)
    PROVE  AllCared(Append(s, x))
<1> SUFFICES ASSUME NEW k \in 1 .. Len(Append(s, x))
             PROVE  Cared(Append(s, x)[k], renounced)
  BY DEF AllCared
<1>1. /\ k \in 1 .. Len(s) => Append(s, x)[k] = s[k]
      /\ k \notin 1 .. Len(s) => Append(s, x)[k] = x
  OBVIOUS
<1> QED BY <1>1 DEF AllCared

\* Both statements of add_iteration leave it so.
LEMMA CaredLanded ==
    ASSUME NEW d, Coherent(d), Cared(d, renounced),
           NEW t \in Tasks, d.rows[t].state = "running",
           NEW parent \in Nat, ~already_applied(d, d.comment_ids[t])
    PROVE  LET s == add_iteration_commits(d, parent, d.comment_ids[t])
           IN /\ AllCared(s) /\ Cared(Last(s), renounced)
              /\ addressed(Last(s)) = addressed(d) \cup d.comment_ids[t]
<1> DEFINE ids == d.comment_ids[t]
           it == IterationOf(parent, ids)
           s == add_iteration_commits(d, parent, ids)
<1>1. ids # {} /\ ids \subseteq 1 .. Len(d.comments)
  BY DEF Coherent, Covering
<1>2. PICK d1, d2 : Recording(d, parent, ids, d1, d2)
  <2>1. ~already_applied(d, ids)
    OBVIOUS
  <2> HIDE DEF ids
  <2> QED BY <1>1, <2>1, TwoStatements
<1>3. /\ s = <<d1, d2>> /\ SameWork(d1, d2)
      /\ d1.rows = d.rows /\ d1.comment_ids = d.comment_ids
      /\ d1.comments = d.comments
      /\ d1.iterations = Append(d.iterations, it)
  BY <1>2 DEF Recording
<1>4. it \in Iteration /\ it.comment_ids = ids /\ d.iterations \in Seq(Iteration)
  <2>1. ids \in SUBSET Nat
    BY <1>1, CommentsCounted
  <2> QED BY <2>1, CommentsCounted DEF Iteration, IterationOf
<1> HIDE DEF it, s
<1>5. addressed(d1) = addressed(d) \cup ids
  BY <1>3, <1>4, AddressedAppend
<1>6. Cared(d1, renounced)
  BY <1>3, <1>5, CaredRecorded
<1>7. Cared(d2, renounced) /\ addressed(d2) = addressed(d1) /\ Last(s) = d2
  BY <1>3, <1>6, CaredSame, SamePending DEF SameWork, Last
<1>8. AllCared(s)
  BY <1>3, <1>6, <1>7, CaredCommits
<1> QED BY <1>5, <1>7, <1>8 DEF s

LEMMA KeptLands ==
    ASSUME Sound, Sound', AsksKept, NEW w \in Workers, lands(w)
    PROVE  AsksKept'
<1> DEFINE t == proc.held[w]
           ids == proc.ids[w]
           its == LandedOf(w)
           landed == add_iteration_commits(db, proc.parent[w], ids)
           x == set_status(Last(landed), "preview_ready")
           recorded == Append(landed, x)
           after == [proc EXCEPT !.phase[w] = "ok"]
<1>1. /\ proc.phase[w] = "deploying" /\ Turn(then_drain(db, recorded), after)
      /\ renounced' = renounced
  BY DEF lands, records_commits
<1>2. proc.phase[w] \in Busy /\ proc.phase[w] \in AtWork /\ proc.phase[w] \in ActivePhases
  BY <1>1 DEF Busy, ActivePhases, AtWork
<1>3. Coherent(db) /\ proc.parent[w] \in Nat /\ Cared(db, renounced)
  BY DEF Sound, TypeOK, Process, AsksKept
<1>4. /\ t \in Tasks /\ ids = db.comment_ids[t] /\ db.rows[t].state = "running"
      /\ ~already_applied(db, ids)
  BY <1>2 DEF Sound, Minds, Delivered
<1> HIDE DEF t
<1>5. ids # {} /\ ids \subseteq 1 .. Len(db.comments)
  BY <1>3, <1>4 DEF Coherent, Covering
<1> HIDE DEF ids
<1>6. /\ landed \in Seq(Later(db, its)) /\ landed # <<>>
      /\ Last(landed) \in Later(db, its) /\ Last(landed).rows = db.rows
  BY <1>3, <1>4, <1>5, LaterIteration DEF LandedOf, ids
<1>7. /\ AllCared(landed) /\ Cared(Last(landed), renounced)
      /\ addressed(Last(landed)) = addressed(db) \cup ids
  BY <1>3, <1>4, CaredLanded
<1> HIDE DEF its, landed
<1>8. /\ x \in Later(db, its) /\ SameWork(Last(landed), x) /\ x.rows = db.rows
      /\ x.status = "preview_ready"
  BY <1>6, LaterStatus DEF Statuses, SameWork, set_status, Later, Database
<1> HIDE DEF x
<1>9. Cared(x, renounced) /\ addressed(x) = addressed(db) \cup ids
  BY <1>7, <1>8, CaredSame, SamePending DEF SameWork
<1>10. /\ recorded \in Seq(Later(db, its)) /\ End(db, recorded) = x /\ AllCared(recorded)
  <2>1. /\ recorded \in Seq(Later(db, its)) /\ recorded # <<>>
        /\ recorded[Len(recorded)] = x
    BY <1>6, <1>8
  <2>2. AllCared(recorded)
    BY <1>6, <1>7, <1>8, <1>9, CaredAppend
  <2> QED BY <2>1, <2>2 DEF End, Last
<1> HIDE DEF recorded
<1>11. Besides(after, w) /\ after.phase[w] = "ok" /\ after.ids[w] = ids
  BY DEF Besides, Process, Sound, TypeOK, ids
<1> HIDE DEF after
<1>12. KeepsRows(db, x) /\ "preview_ready" \notin InFlightStatuses
  BY <1>8 DEF KeepsRows, InFlightStatuses
<1> QED BY <1>1, <1>8, <1>9, <1>10, <1>11, <1>12, KeptDrain

\* What a sweep commits loses nothing: what it takes from a worker it puts into
\* one of the two queues, and the last status is that of one of those tasks.
LEMMA CaredSweep ==
    ASSUME Sound, AsksKept, Expired(db.rows) # {}
    PROVE  LET commits == sweep_commits(db)
               e == End(db, commits)
           IN /\ AllCared(commits) /\ Len(commits) \in Nat \ {0}
              /\ addressed(e) = addressed(db)
              /\ \/ e.status = "failed"
                 \/ e.status = "triggered" /\ \E t \in Tasks : e.rows[t].state = "queued"
              /\ \A k \in 1 .. Len(commits) : Carriers(commits[k]) # {}
<1> DEFINE expired == Expired(db.rows)
           n == Cardinality(expired)
           place(t) == Cardinality({u \in expired : u <= t})
           first_rows(k) == [t \in Tasks |-> IF t \in expired /\ place(t) <= k
                                             THEN failed_row(db.rows, t) ELSE db.rows[t]]
           last == CHOOSE t \in expired : place(t) = n
           outcome(k) == fail_result(db.rows, CHOOSE t \in expired : place(t) = k)
           commit(k) == IF k <= n THEN with_rows(db, first_rows(k))
                        ELSE set_status(with_rows(db, first_rows(n)),
                                        StatusOfOutcome(outcome(k - n)))
           commits == sweep_commits(db)
           e == commit(2 * n)
<1>1. commits = [k \in 1 .. 2 * n |-> commit(k)]
  BY DEF sweep_commits
<1>2. expired \subseteq Tasks /\ expired # {} /\ IsFiniteSet(expired)
  <2>1. expired \subseteq Tasks
    BY DEF Expired, InState
  <2> HIDE DEF expired
  <2>2. IsFiniteSet(Tasks)
    BY EnoughTasks, FS_Interval
  <2> QED BY <2>1, <2>2, FS_Subset DEF expired
<1>3. \A t \in expired : db.rows[t].state = "running"
  BY DEF Expired, InState
<1>4. /\ db \in Database /\ Cared(db, renounced) /\ GoodTable(db.rows) /\ db.rows \in Table
  BY DEF Sound, TypeOK, AsksKept, Coherent, GoodTable
<1> HIDE DEF expired
<1>5. n \in Nat \ {0}
  BY <1>2, FS_CardinalityType, FS_EmptySet
<1>6. last \in expired /\ place(last) = n
  <2>1. MaxComments \in Nat /\ expired \subseteq 1 .. MaxComments
    BY <1>2, EnoughTasks
  <2>2. PICK m \in expired : \A u \in expired : m >= u
    BY <1>2, <2>1, GreatestNatural
  <2>3. {u \in expired : u <= m} = expired
    BY <2>1, <2>2
  <2>4. place(m) = n
    BY <2>3
  <2> HIDE DEF place, n
  <2> QED BY <2>2, <2>4
<1> HIDE DEF place
<1>7. ASSUME NEW k \in Int
      PROVE  /\ Cared(with_rows(db, first_rows(k)), renounced)
             /\ with_rows(db, first_rows(k)) \in Database
             /\ with_rows(db, first_rows(k)).rows = first_rows(k)
             /\ addressed(with_rows(db, first_rows(k))) = addressed(db)
             /\ Carriers(with_rows(db, first_rows(k))) # {}
  <2> DEFINE R == first_rows(k)
  <2>1. \A t \in Tasks : failed_row(db.rows, t) \in Row
    BY <1>4, FailedRowIsGood
  <2>2. R \in Table
    BY <1>4, <2>1 DEF Table
  <2>3. ASSUME NEW t \in Tasks
        PROVE  KeptRow(db, R, t)
    <3>1. R[t] = db.rows[t] \/ (db.rows[t].state = "running" /\ R[t] = failed_row(db.rows, t))
      BY <1>3
    <3>2. db.rows[t].state = "running" => failed_row(db.rows, t).state \in {"queued", "dlq"}
      BY <1>4 DEF failed_row, fail_result, Table, Row
    <3> HIDE DEF R
    <3> QED BY <3>1, <3>2 DEF KeptRow, Carriers, Live, InState
  <2> HIDE DEF R
  <2>4. /\ Cared(with_rows(db, R), renounced) /\ with_rows(db, R) \in Database
        /\ with_rows(db, R).rows = R /\ addressed(with_rows(db, R)) = addressed(db)
    BY <1>4, <2>2, <2>3, CaredMove, WithRows
  <2>5. PICK t \in expired : t \in Tasks /\ R[t].state \in {"queued", "running", "dlq"}
    <3>1. PICK t \in expired : t \in Tasks /\ db.rows[t].state = "running"
      BY <1>2, <1>3
    <3>2. failed_row(db.rows, t).state \in {"queued", "dlq"}
      BY <1>4, <3>1 DEF failed_row, fail_result, Table, Row
    <3> QED BY <3>1, <3>2 DEF R
  <2>6. t \in Carriers(with_rows(db, R))
    BY <2>4, <2>5 DEF Carriers, Live, InState
  <2> QED BY <2>4, <2>6 DEF R
<1>8. \A result : StatusOfOutcome(result) \in Statuses
  BY DEF StatusOfOutcome, Statuses, InFlightStatuses
<1>9. first_rows(n)[last] = failed_row(db.rows, last)
  BY <1>2, <1>5, <1>6
<1>10. outcome(2 * n - n) = fail_result(db.rows, last)
  <2>1. 2 * n - n = n
    BY <1>5
  <2> QED BY <2>1
<1> HIDE DEF first_rows, outcome, last, n
<1>11. ASSUME NEW k \in 1 .. 2 * n
       PROVE  Cared(commit(k), renounced) /\ Carriers(commit(k)) # {}
  <2>1. CASE k <= n
    BY <1>7, <2>1
  <2>2. CASE ~(k <= n)
    <3> DEFINE d == with_rows(db, first_rows(n))
           s == StatusOfOutcome(outcome(k - n))
    <3>1. d \in Database /\ Cared(d, renounced) /\ Carriers(d) # {}
      BY <1>5, <1>7
    <3>2. s \in Statuses
      BY <1>8
    <3> HIDE DEF d, s
    <3>3. Cared(set_status(d, s), renounced) /\ Carriers(set_status(d, s)) # {}
      BY <3>1, <3>2, CaredStatus, SetStatus DEF SameWork, Carriers
    <3> QED BY <2>2, <3>3 DEF d, s
  <2> QED BY <2>1, <2>2
<1>12. /\ addressed(e) = addressed(db)
       /\ \/ e.status = "failed"
          \/ e.status = "triggered" /\ \E t \in Tasks : e.rows[t].state = "queued"
  <2> DEFINE d == with_rows(db, first_rows(n))
             s == StatusOfOutcome(outcome(2 * n - n))
  <2>1. /\ d \in Database /\ d.rows = first_rows(n) /\ addressed(d) = addressed(db)
    BY <1>5, <1>7
  <2>2. ~(2 * n <= n)
    BY <1>5
  <2>3. e = set_status(d, s) /\ s \in Statuses
    BY <1>8, <2>2
  <2>4. /\ s = "failed" \/ (s = "triggered" /\ first_rows(n)[last].state = "queued")
        /\ last \in Tasks
    <3>1. db.rows[last].state = "running" /\ last \in Tasks
      BY <1>2, <1>3, <1>6
    <3> QED BY <1>4, <1>9, <1>10, <3>1
            DEF StatusOfOutcome, fail_result, failed_row, Table, Row
  <2> HIDE DEF e, d, s
  <2>5. SameWork(d, e) /\ e.status = s
    BY <2>1, <2>3, SetStatus DEF set_status, Database
  <2>6. e.rows = first_rows(n) /\ addressed(e) = addressed(db)
    BY <2>1, <2>5, SamePending DEF SameWork
  <2> QED BY <2>4, <2>5, <2>6
<1> HIDE DEF commit
<1>13. /\ Len(commits) = 2 * n /\ 2 * n \in Nat \ {0}
       /\ \A k \in 1 .. 2 * n : commits[k] = commit(k)
  BY <1>1, <1>5
<1> HIDE DEF commits
<1>14. End(db, commits) = e
  <2>1. commits # <<>>
    BY <1>13
  <2>2. 2 * n \in 1 .. 2 * n
    BY <1>13
  <2> QED BY <1>13, <2>1, <2>2 DEF End, Last
<1>15. AllCared(commits) /\ \A k \in 1 .. Len(commits) : Carriers(commits[k]) # {}
  BY <1>11, <1>13 DEF AllCared
<1> HIDE DEF e
<1>16. /\ AllCared(commits) /\ Len(commits) \in Nat \ {0}
       /\ addressed(End(db, commits)) = addressed(db)
       /\ \/ End(db, commits).status = "failed"
          \/ /\ End(db, commits).status = "triggered"
             /\ \E t \in Tasks : End(db, commits).rows[t].state = "queued"
       /\ \A k \in 1 .. Len(commits) : Carriers(commits[k]) # {}
  BY <1>12, <1>13, <1>14, <1>15
<1> QED BY <1>16 DEF commits

LEMMA KeptSweep ==
    ASSUME Sound, Sound', AsksKept, sweep
    PROVE  AsksKept'
<1> DEFINE Swept == {d \in Later(db, db.iterations) :
                        \A t \in Tasks \ Expired(db.rows) : d.rows[t] = db.rows[t]}
           commits == sweep_commits(db)
           e == End(db, commits)
<1>1. /\ Turn(commits, proc) /\ renounced' = renounced /\ Expired(db.rows) # {}
  BY DEF sweep
<1>2. commits \in Seq(Swept)
  BY SweepCommits
<1>3. /\ AllCared(commits) /\ Len(commits) \in Nat \ {0}
      /\ addressed(e) = addressed(db)
      /\ \/ e.status = "failed"
         \/ e.status = "triggered" /\ \E t \in Tasks : e.rows[t].state = "queued"
  BY <1>1, CaredSweep
<1> HIDE DEF commits
<1>4. e \in Swept
  <2> HIDE DEF Swept
  <2>1. commits # <<>>
    BY <1>3
  <2>2. Len(commits) \in 1 .. Len(commits)
    BY <1>3
  <2> QED BY <1>2, <2>1, <2>2 DEF End, Last
<1> HIDE DEF e
<1>5. Prompt(e, proc)
  <2>1. ASSUME NEW w \in Workers, proc.phase[w] \in Busy
        PROVE  e.rows[proc.held[w]].state = db.rows[proc.held[w]].state
    <3>1. proc.held[w] \in Tasks \ Expired(db.rows)
      BY <2>1 DEF Sound, Minds, Delivered, Expired, InState
    <3> QED BY <1>4, <3>1
  <2>2. \A w \in Workers : PromptAt(db, proc, w) => PromptAt(e, proc, w)
    BY <1>3, <2>1, PromptStays
  <2> QED BY <2>2 DEF AsksKept, Prompt
<1>6. ASSUME db' = e, proc' = proc
      PROVE  Waiting(db', proc') /\ Ready(db')
  <2>1. CASE e.status = "failed"
    BY <1>6, <2>1, NothingWaits DEF Ready
  <2>2. CASE e.status = "triggered" /\ \E t \in Tasks : e.rows[t].state = "queued"
    BY <1>6, <2>2, QueuedWaits DEF Sound, Ready
  <2> QED BY <1>3, <2>1, <2>2
<1> QED BY <1>1, <1>3, <1>5, <1>6, KeptTurn DEF Turn, e

-----------------------------------------------------------------------------
(* The user: cancels. *)

\* What a task covered is nobody's once it is cancelled; what no task covered
\* is not lost.
LEMMA CancelCares ==
    ASSUME NEW d \in Database, Taken(d), NEW t \in Tasks, d.rows[t].state \in {"queued", "running"},
           NEW R \in Table, R[t].state = "cancelled", \A u \in Tasks : u # t => R[u] = d.rows[u]
    PROVE  LET e == with_rows(d, R)
           IN /\ Taken(e) /\ Lost(e) \subseteq Lost(d) \cup d.comment_ids[t]
              /\ Promised(e) = Promised(d) /\ addressed(e) = addressed(d)
              /\ covered_comment_ids(e) = covered_comment_ids(d)
<1> DEFINE e == with_rows(d, R)
<1>1. /\ e.rows = R /\ e.comment_ids = d.comment_ids /\ e.comments = d.comments
      /\ e.iterations = d.iterations
  BY WithRows
<1> HIDE DEF e
<1>2. /\ addressed(e) = addressed(d) /\ covered_comment_ids(e) = covered_comment_ids(d)
      /\ Promised(e) = Promised(d)
  BY <1>1, SameAsks, SamePending
<1>3. Taken(e)
  BY <1>1, <1>2 DEF Taken, Key
<1>4. Carriers(d) \subseteq Carriers(e) \cup {t}
  BY <1>1 DEF Carriers, Live, InState
<1>5. Lost(e) \subseteq Lost(d) \cup d.comment_ids[t]
  BY <1>1, <1>2, <1>4 DEF Lost
<1> QED BY <1>2, <1>3, <1>5 DEF e

\* The run a cancel reaches is told so by its row as by its memory.
LEMMA InterruptPrompt ==
    ASSUME Sound, AsksKept, QuietFailures, Quiet,
           NEW t \in Tasks, NEW e, addressed(e) = addressed(db), e.rows[t].state = "cancelled",
           \A u \in Tasks : u # t /\ db.rows[u].state # "none" => e.rows[u] = db.rows[u]
    PROVE  Prompt(e, interrupted(t))
<1> DEFINE m == interrupted(t)
           phases == [w \in Workers |->
                        IF proc.running[t] = w /\ proc.phase[w] \in ActivePhases
                        THEN "cancelled" ELSE proc.phase[w]]
<1>1. m = [proc EXCEPT !.phase = phases]
  BY DEF interrupted
<1>2. /\ \A w \in Workers : phases[w] = IF proc.running[t] = w /\ proc.phase[w] \in ActivePhases
                                       THEN "cancelled" ELSE proc.phase[w]
      /\ m.phase = phases
  BY <1>1 DEF Sound, TypeOK, Process
<1> HIDE DEF phases, m
<1>3. m.held = proc.held /\ m.timed_out = proc.timed_out /\ m.ids = proc.ids
  BY <1>1 DEF Sound, TypeOK, Process
<1> SUFFICES ASSUME NEW w \in Workers PROVE PromptAt(e, m, w)
  BY DEF Prompt, m
<1>4. PromptAt(db, proc, w) /\ proc.timed_out[w] \in BOOLEAN
  BY DEF AsksKept, Prompt, Sound, TypeOK, Process
<1>5. proc.phase[w] # "error" /\ ~(proc.phase[w] = "cancelled" /\ proc.timed_out[w])
  BY DEF Quiet
<1>6. CASE proc.running[t] = w /\ proc.phase[w] \in ActivePhases
  <2>1. proc.held[w] = t
    BY <1>6, WorkersAssumption DEF Sound, Minds
  <2>2. m.phase[w] = "cancelled" /\ ~proc.timed_out[w]
    BY <1>2, <1>4, <1>6 DEF PromptAt
  <2> QED BY <1>3, <2>1, <2>2 DEF PromptAt
<1>7. CASE ~(proc.running[t] = w /\ proc.phase[w] \in ActivePhases)
  <2>1. m.phase[w] = proc.phase[w]
    BY <1>2, <1>7
  <2>2. proc.phase[w] = "cancelled" => e.rows[proc.held[w]].state # "running"
    <3> SUFFICES ASSUME proc.phase[w] = "cancelled"
                 PROVE  e.rows[proc.held[w]].state # "running"
      OBVIOUS
    <3>1. db.rows[proc.held[w]].state # "running"
      BY <1>4, <1>5 DEF PromptAt
    <3>2. proc.held[w] \in Tasks /\ db.rows[proc.held[w]].state = "cancelled"
      BY <3>1 DEF Sound, Minds, Delivered, Busy, EndedPhases
    <3> QED BY <3>1, <3>2
  <2> QED BY <1>3, <1>4, <1>5, <2>1, <2>2 DEF PromptAt
<1> QED BY <1>6, <1>7

LEMMA KeptCancel ==
    ASSUME Sound, AsksKept, QuietFailures, cancel_run
    PROVE  AsksKept'
<1> DEFINE t == active_for_thread(db)
           R == cancel(db.rows, t)
           d1 == with_rows(db, R)
           s == status_after_cancel(d1)
           d2 == set_status(d1, s)
           spent == [used EXCEPT !.cancels = @ + 1]
<1>1. t \in Live(db.rows) /\ t \in Tasks
  BY ActiveIsLive DEF cancel_run
<1>2. /\ TurnSpending(<<d1, d2>>, interrupted(t), spent)
      /\ renounced' = renounced \cup db.comment_ids[t] /\ Quiet
  BY DEF cancel_run
<1>3. GoodTable(db.rows) /\ db.rows \in Table /\ db \in Database /\ Taken(db) /\ Coherent(db)
  BY DEF Sound, TypeOK, Coherent, GoodTable, AsksKept, Cared
<1>4. db.rows[t].state \in {"queued", "running"}
  BY <1>1 DEF Live, InState
<1> HIDE DEF t
<1>5. renounced' # {}
  BY <1>1, <1>2, <1>3, <1>4 DEF Coherent, Covering
<1>6. R \in Table
  BY <1>1, <1>3, CancelKeepsGood DEF GoodTable
<1>7. R[t].state = "cancelled" /\ \A u \in Tasks : u # t => R[u] = db.rows[u]
  BY <1>1, <1>3 DEF cancel, Table, Row
<1> HIDE DEF R
<1>8. Taken(d1) /\ addressed(d1) = addressed(db) /\ d1 \in Database /\ d1.rows = R
  BY <1>1, <1>3, <1>4, <1>6, <1>7, CancelCares, WithRows
<1>9. s \in Statuses
  BY DEF status_after_cancel, Statuses
<1> HIDE DEF d1, s
<1>10. Cared(d1, renounced') /\ Cared(d2, renounced')
  BY <1>5, <1>8, <1>9, CaredStatus DEF Cared
<1>11. SameWork(d1, d2)
  BY <1>8, <1>9, SetStatus
<1> HIDE DEF d2
<1>12. d2.rows = R /\ addressed(d2) = addressed(db)
  BY <1>8, <1>11, SamePending DEF SameWork
<1>13. Prompt(d2, interrupted(t))
  BY <1>1, <1>2, <1>7, <1>12, InterruptPrompt
<1>14. \/ db' = d2 /\ proc' = interrupted(t)
       \/ db' = d1 /\ proc' = Dead
  <2>1. Len(<<d1, d2>>) = 2 /\ <<d1, d2>>[1] = d1 /\ Last(<<d1, d2>>) = d2
    BY DEF Last
  <2> QED BY <1>2, <2>1 DEF TurnSpending
<1> QED BY <1>5, <1>10, <1>13, <1>14, DeadIsPrompt DEF AsksKept, Trusted

-----------------------------------------------------------------------------
(* The user: comments. *)

LEMMA KeyOfOne ==
    ASSUME NEW c \in Nat \ {0}
    PROVE  idempotency_key({c}) = c
<1>1. c \in Nat /\ {c} \subseteq 1 .. c /\ {c} # {}
  OBVIOUS
<1>2. idempotency_key({c}) \in {c}
  BY <1>1, KeyIsNewest
<1> QED BY <1>2

\* d is the thread grown by comment c.
Grown(d, c) ==
    /\ d \in Later(db, db.iterations) /\ d \in Database
    /\ d.rows = db.rows /\ d.comment_ids = db.comment_ids /\ d.status = db.status
    /\ Len(d.comments) = Len(db.comments) + 1
    /\ c = Len(d.comments) /\ c \in Nat \ {0}
    /\ c \notin covered_comment_ids(d) /\ c \notin addressed(d)
    /\ addressed(d) = addressed(db)
    /\ asks(d) = asks(db) \/ (c \in asks(d) /\ asks(d) = asks(db) \cup {c})
    /\ c \notin asks(d) => pending_comment_ids(d) = pending_comment_ids(db)
    /\ c \notin asks(d) => Promised(d) = Promised(db)
    /\ c \in asks(d) /\ TornCrashes => Promised(d) = {c}
    /\ Cared(d, renounced)

LEMMA CommentGrows ==
    ASSUME Sound, AsksKept, Len(db.comments) < MaxComments,
           NEW agent \in BOOLEAN, NEW sha \in Int,
           NEW d, d = append_comment(db, agent, sha)
    PROVE  Grown(d, Len(d.comments))
<1> DEFINE c == Len(d.comments)
           new == [agent |-> agent, sha |-> sha]
<1>1. db \in Database /\ Coherent(db) /\ Cared(db, renounced)
  BY DEF Sound, TypeOK, AsksKept
<1>2. d \in Later(db, db.iterations) /\ d \in Database
  BY <1>1, LaterComment DEF Later
<1>3. /\ d.rows = db.rows /\ d.comment_ids = db.comment_ids
      /\ d.iterations = db.iterations /\ Len(d.comments) = Len(db.comments) + 1
  BY <1>1, AppendComment
<1>4. /\ d.status = db.status /\ DOMAIN d.comments = DOMAIN db.comments \cup {c}
      /\ \A b \in DOMAIN db.comments : d.comments[b] = db.comments[b]
      /\ DOMAIN db.comments = 1 .. Len(db.comments) /\ Len(db.comments) \in Nat
  <2>1. db.comments \in Seq(Comment) /\ new \in Comment
    BY <1>1 DEF Database, Comment
  <2>2. d.status = db.status /\ d.comments = Append(db.comments, new)
    BY <1>1 DEF append_comment, Database
  <2> HIDE DEF new
  <2> QED BY <2>1, <2>2
<1>5. c \in Nat \ {0} /\ c = Len(db.comments) + 1 /\ c \notin DOMAIN db.comments
  BY <1>3, <1>4
<1>6. c \notin covered_comment_ids(d)
  BY <1>2, <1>3, NewComment
<1>7. /\ addressed(d) = addressed(db) /\ covered_comment_ids(d) = covered_comment_ids(db)
      /\ Carriers(d) = Carriers(db)
  BY <1>3 DEF addressed, covered_comment_ids, Carriers
<1>8. c \notin addressed(d)
  <2>1. \A b \in addressed(db) : b \in 1 .. Len(db.comments)
    BY <1>1 DEF Coherent, Addressing, addressed
  <2> QED BY <1>4, <1>5, <1>7, <2>1
<1> HIDE DEF c
<1>9. asks(d) = asks(db) \/ (c \in asks(d) /\ asks(d) = asks(db) \cup {c})
  BY <1>4, <1>5 DEF asks
<1>10. c \notin asks(d) =>
          /\ pending_comment_ids(d) = pending_comment_ids(db)
          /\ Promised(d) = Promised(db)
  BY <1>7, <1>9 DEF pending_comment_ids, Promised
<1>11. c \in asks(d) /\ TornCrashes => Promised(d) = {c}
  <2> SUFFICES ASSUME c \in asks(d), TornCrashes PROVE Promised(d) = {c}
    OBVIOUS
  <2>1. asks(d) \subseteq 1 .. c /\ asks(d) # {}
    BY <1>4, <1>5 DEF asks
  <2>2. Max(asks(d)) \in asks(d) /\ c <= Max(asks(d))
    BY <1>5, <2>1, KeyIsNewest DEF idempotency_key
  <2>3. Max(asks(d)) = c
    BY <1>5, <2>1, <2>2
  <2> QED BY <2>1, <2>3 DEF Promised
<1>12. Promised(d) \subseteq Promised(db) \cup {c}
  BY <1>9, <1>10, <1>11 DEF Promised
<1>13. Cared(d, renounced)
  <2>1. Lost(d) = Lost(db) /\ c \notin Lost(d)
    BY <1>3, <1>6, <1>7 DEF Lost
  <2>2. Taken(d)
    BY <1>1, <1>3, <1>7 DEF Cared, Taken, Key
  <2> QED BY <1>1, <1>12, <2>1, <2>2 DEF Cared
<1>14. Len(d.comments) = c
  BY DEF c
<1> QED BY <1>2, <1>3, <1>4, <1>5, <1>6, <1>7, <1>8, <1>9, <1>10, <1>11, <1>13, <1>14 DEF Grown

\* A comment nobody is to be told of, or that a task at work is to pick up.
LEMMA KeptSilent ==
    ASSUME Sound, AsksKept, NEW d, NEW c, Grown(d, c), proc.up,
           on_comment_commits(d, c) = <<>>, submit_commits(d, {c}) # <<>>,
           Turn(<<d>>, proc), renounced' = renounced
    PROVE  AsksKept'
<1>1. c \notin asks(d) \/ (active_for_thread(d) # NoTask /\ d.status \in InFlightStatuses)
  BY DEF on_comment_commits
<1>2. AllCared(<<d>>) /\ End(db, <<d>>) = d /\ Len(<<d>>) \in Nat \ {0}
  BY CaredCommits DEF Grown, End, Last
<1>3. Prompt(d, proc)
  <2>1. \A w \in Workers : PromptAt(db, proc, w) => PromptAt(d, proc, w)
    BY PromptStays DEF Grown
  <2> QED BY <2>1 DEF AsksKept, Prompt
<1>4. UndrainedIn(d, proc) = UndrainedIn(db, proc)
  BY DEF Grown, UndrainedIn
<1>5. ASSUME Trusted
      PROVE  Waiting(d, proc) /\ Ready(d)
  <2>1. CASE c \notin asks(d)
    <3>1. /\ d.status = db.status /\ Live(d.rows) = Live(db.rows) /\ Promised(d) = Promised(db)
          /\ pending_comment_ids(d) = pending_comment_ids(db)
      BY <2>1 DEF Grown
    <3> QED BY <1>4, <1>5, <3>1, StillWaiting DEF AsksKept, Ready
  <2>2. CASE active_for_thread(d) # NoTask /\ d.status \in InFlightStatuses
    <3>1. Live(d.rows) # {} /\ Live(db.rows) = Live(d.rows) /\ db.status \in InFlightStatuses
      BY <2>2, ActiveIsLive DEF Grown
    <3>2. UndrainedIn(d, proc) # {}
      BY <1>4, <1>5, <3>1 DEF AsksKept, Waiting
    <3> QED BY <2>2, <3>2 DEF Waiting, Ready, InFlightStatuses
  <2> QED BY <1>1, <2>1, <2>2
<1> QED BY <1>2, <1>3, <1>5, KeptTurn DEF Turn

\* A comment for which a task waits in the queue, by whatever commits.
LEMMA KeptQueued ==
    ASSUME Sound, Sound', AsksKept, NEW d, NEW c, Grown(d, c),
           NEW more \in Seq(Later(db, db.iterations)), AllCared(more),
           NEW e, e = End(d, more), KeepsRows(db, e), e.status \in InFlightStatuses,
           \E t \in Tasks : e.rows[t].state = "queued",
           Turn(<<d>> \o more, proc), renounced' = renounced
    PROVE  AsksKept'
<1> DEFINE commits == <<d>> \o more
<1>1. /\ d \in Later(db, db.iterations) /\ <<d>> \in Seq(Later(db, db.iterations))
      /\ AllCared(<<d>>)
  BY OneCommit, CaredCommits DEF Grown
<1>2. commits \in Seq(Later(db, db.iterations)) /\ End(db, commits) = e /\ commits # <<>>
  BY <1>1, FirstCommit
<1>3. AllCared(commits)
  BY <1>1, CaredConcat
<1> HIDE DEF commits
<1>4. e \in Later(db, db.iterations)
  BY <1>1, EndIsLater
<1>5. addressed(e) = addressed(db)
  BY <1>4 DEF Later, addressed
<1>6. Prompt(e, proc)
  <2>1. ASSUME NEW w \in Workers, proc.phase[w] \in Busy
        PROVE  e.rows[proc.held[w]].state = db.rows[proc.held[w]].state
    BY <2>1 DEF Sound, Minds, Delivered, KeepsRows
  <2>2. \A w \in Workers : PromptAt(db, proc, w) => PromptAt(e, proc, w)
    BY <1>5, <2>1, PromptStays
  <2> QED BY <2>2 DEF AsksKept, Prompt
<1>7. ASSUME db' = e, proc' = proc
      PROVE  Waiting(db', proc') /\ Ready(db')
  <2>1. Waiting(db', proc')
    BY <1>7, QueuedWaits DEF Sound
  <2> QED BY <1>7, <2>1 DEF Ready, InFlightStatuses
<1>8. Turn(commits, proc)
  BY DEF commits
<1>9. commits # <<>> => Len(commits) \in Nat \ {0}
  BY <1>2
<1> QED BY <1>2, <1>3, <1>6, <1>7, <1>8, <1>9, KeptTurn DEF Turn

LEMMA KeptSubmits ==
    ASSUME Sound, Sound', AsksKept, NEW d, NEW c, Grown(d, c),
           Turn(<<d>> \o submit_commits(d, {c}), proc), renounced' = renounced
    PROVE  AsksKept'
<1> DEFINE more == submit_commits(d, {c})
<1>1. /\ d \in Later(db, db.iterations) /\ Coherent(d) /\ Cared(d, renounced)
      /\ c \in Nat \ {0} /\ c = Len(d.comments)
      /\ c \notin covered_comment_ids(d) /\ c \notin addressed(d)
  BY DEF Grown, Later
<1>2. idempotency_key({c}) = c
  BY <1>1, KeyOfOne
<1>3. Submittable(d, {c}) /\ Clean(db, {c})
  BY <1>1, <1>2 DEF Submittable, Clean, covered_comment_ids, Grown
<1>4. AllCared(more)
  BY <1>1, <1>2, <1>3, CaredSubmit
<1>5. /\ more \in Seq(Later(db, db.iterations)) /\ more # <<>>
      /\ Last(more) = Submitted(d, {c}) /\ KeepsRows(d, Last(more))
  BY <1>1, <1>3, SubmitCommits
<1>6. PICK t \in Tasks : Added(d, t, {c}, Submitted(d, {c}))
  BY <1>1, <1>3, SubmittedTask
<1> DEFINE e == End(d, more)
<1>7. /\ KeepsRows(db, e) /\ e.status = "triggered" /\ e.rows[t].state = "queued"
  BY <1>5, <1>6 DEF End, Added, KeepsRows, Grown
<1>8. Turn(<<d>> \o more, proc)
  OBVIOUS
<1> HIDE DEF more, e
<1>9. \E u \in Tasks : e.rows[u].state = "queued"
  BY <1>7
<1>10. e = End(d, more) /\ "triggered" \in InFlightStatuses
  BY DEF e, InFlightStatuses
<1> QED BY <1>4, <1>5, <1>7, <1>8, <1>9, <1>10, KeptQueued

\* What joining a queued task leaves and changes, by the rows of the task.
LEMMA Coalesced ==
    ASSUME NEW d, Coherent(d), NEW t \in Tasks, d.rows[t].state = "queued",
           NEW c, c = Len(d.comments), c > 0, c \notin covered_comment_ids(d)
    PROVE  LET e == coalesce_comment(d, t, c)
           IN /\ Coherent(e) /\ e.status = d.status
              /\ e.rows = d.rows /\ e.comments = d.comments /\ e.iterations = d.iterations
              /\ e.comment_ids[t] = d.comment_ids[t] \cup {c}
              /\ \A u \in Tasks : u # t => e.comment_ids[u] = d.comment_ids[u]
<1> DEFINE e == coalesce_comment(d, t, c)
           ids == d.comment_ids[t] \cup {c}
<1>1. /\ e.rows = d.rows /\ e.comments = d.comments /\ e.iterations = d.iterations
      /\ e.comment_ids = [d.comment_ids EXCEPT ![t] = ids]
      /\ Coherent(e)
  BY CoalesceCoherent
<1>2. e.status = d.status
  BY DEF coalesce_comment, Coherent, Database
<1> HIDE DEF e
<1>3. e.comment_ids[t] = ids /\ \A u \in Tasks : u # t => e.comment_ids[u] = d.comment_ids[u]
  BY <1>1, CommentsCounted
<1> QED BY <1>1, <1>2, <1>3 DEF e

LEMMA KeptCoalesces ==
    ASSUME Sound, Sound', AsksKept, NEW d, NEW c, Grown(d, c),
           NEW t \in Tasks, d.rows[t].state = "queued", d.status \in InFlightStatuses,
           Turn(<<d>> \o <<coalesce_comment(d, t, c)>>, proc), renounced' = renounced
    PROVE  AsksKept'
<1> DEFINE e == coalesce_comment(d, t, c)
<1>1. /\ d \in Later(db, db.iterations) /\ Coherent(d) /\ Cared(d, renounced)
      /\ c \in Nat \ {0} /\ c = Len(d.comments) /\ d \in Database
      /\ c \notin covered_comment_ids(d) /\ c \notin addressed(d) /\ d.rows = db.rows
      /\ c > 0
  BY DEF Grown, Later
<1>2. /\ e.rows = d.rows /\ e.comments = d.comments /\ e.iterations = d.iterations
      /\ Coherent(e) /\ e.status = d.status
      /\ e.comment_ids[t] = d.comment_ids[t] \cup {c}
      /\ \A u \in Tasks : u # t => e.comment_ids[u] = d.comment_ids[u]
  BY <1>1, Coalesced
<1>3. e \in Later(db, db.iterations)
  BY <1>1, LaterCoalesced
<1>4. e.status = d.status
  BY <1>2
<1>5. Turn(<<d>> \o <<e>>, proc)
  OBVIOUS
<1> HIDE DEF e
<1>6. /\ e.comment_ids[t] = d.comment_ids[t] \cup {c}
      /\ \A u \in Tasks : u # t => e.comment_ids[u] = d.comment_ids[u]
  BY <1>2
<1>7. /\ addressed(e) = addressed(d) /\ Promised(e) = Promised(d) /\ Carriers(e) = Carriers(d)
  BY <1>2, SameAsks DEF addressed, Carriers
<1>8. Key(e, t) = c
  <2>1. e.comment_ids[t] \subseteq 1 .. c
    BY <1>1, <1>2 DEF Coherent, Covering
  <2>2. Key(e, t) \in e.comment_ids[t] /\ c <= Key(e, t)
    BY <1>1, <1>6, <2>1, KeyIsNewest DEF Key
  <2> QED BY <1>1, <2>1, <2>2
<1>9. Taken(e)
  <2>1. ASSUME NEW u \in Tasks
        PROVE  /\ e.rows[u].state \notin {"none", "cancelled"} /\ Key(e, u) \in addressed(e) =>
                      e.comment_ids[u] \subseteq addressed(e)
               /\ e.rows[u].state = "done" => e.comment_ids[u] \subseteq addressed(e)
    <3>1. CASE u = t
      BY <1>1, <1>2, <1>7, <1>8, <3>1
    <3>2. CASE u # t
      <4>1. Key(e, u) = Key(d, u)
        BY <1>6, <3>2 DEF Key
      <4> QED BY <1>1, <1>2, <1>6, <1>7, <3>2, <4>1 DEF Cared, Taken
    <3> QED BY <3>1, <3>2
  <2> QED BY <2>1 DEF Taken
<1>10. Lost(e) \subseteq Lost(d)
  <2> SUFFICES ASSUME NEW b \in Lost(e) PROVE b \in Lost(d)
    OBVIOUS
  <2>1. t \in Carriers(e) /\ Carriers(e) \subseteq Tasks
    BY <1>1, <1>2 DEF Carriers, Live, InState
  <2>2. b # c
    BY <1>6, <2>1 DEF Lost
  <2>3. b \in covered_comment_ids(d)
    <3>1. PICK u \in Tasks : b \in e.comment_ids[u]
      BY DEF Lost, covered_comment_ids
    <3>2. b \in d.comment_ids[u]
      BY <1>6, <2>2, <3>1
    <3> QED BY <3>2 DEF covered_comment_ids
  <2>4. \A u \in Carriers(d) : b \notin d.comment_ids[u]
    BY <1>6, <1>7, <2>1 DEF Lost
  <2> QED BY <1>7, <2>3, <2>4 DEF Lost
<1>11. Cared(e, renounced)
  BY <1>1, <1>7, <1>9, <1>10 DEF Cared
<1>12. AllCared(<<e>>) /\ <<e>> \in Seq(Later(db, db.iterations)) /\ End(d, <<e>>) = e
  BY <1>3, <1>11, CaredCommits DEF End, Last
<1>13. KeepsRows(db, e) /\ e.rows[t].state = "queued"
  BY <1>1, <1>2 DEF KeepsRows
<1> QED BY <1>4, <1>5, <1>12, <1>13, KeptQueued

\* A comment that interrupts: until the turn is over nobody answers for the
\* comments of the task it cancels.
LEMMA KeptInterrupts ==
    ASSUME Sound, Sound', AsksKept, QuietFailures, Quiet,
           NEW d, NEW c, Grown(d, c), NEW t \in Interrupts(d, c),
           Turn(<<d>> \o on_comment_commits(d, c), interrupted(t)), renounced' = renounced
    PROVE  AsksKept'
<1> DEFINE R == cancel(d.rows, t)
           d1 == with_rows(d, R)
           ids == d.comment_ids[t] \cup {c}
           more == on_comment_commits(d, c)
           e == End(d, more)
           m == interrupted(t)
<1>1. /\ d \in Later(db, db.iterations) /\ Coherent(d) /\ Cared(d, renounced)
      /\ c \in Nat \ {0} /\ c = Len(d.comments) /\ d \in Database
      /\ c \notin covered_comment_ids(d) /\ c \notin addressed(d)
      /\ d.rows = db.rows /\ d.comment_ids = db.comment_ids /\ addressed(d) = addressed(db)
      /\ Len(d.comments) = Len(db.comments) + 1
  BY DEF Grown, Later
<1>2. /\ t \in Tasks /\ more \in Seq(Later(db, db.iterations))
      /\ d1 \in Later(db, db.iterations)
      /\ Submittable(d1, ids) /\ e = Submitted(d1, ids) /\ Cancelled(e, t)
      /\ \A u \in Tasks : u # t /\ db.rows[u].state # "none" => e.rows[u] = db.rows[u]
  BY <1>1, InterruptCommits
<1>3. /\ t \in Live(d.rows) /\ c \in asks(d) /\ t = active_for_thread(d)
      /\ d.rows[t].state = "running" /\ d.status \in InterruptibleStatuses
  BY DEF Interrupts
<1>4. more = <<d1>> \o submit_commits(d1, ids)
  <2>1. t # NoTask /\ d.status \in InFlightStatuses
    BY <1>2, <1>3, NoTaskAssumption DEF InterruptibleStatuses, InFlightStatuses
  <2> QED BY <1>3, <2>1 DEF on_comment_commits
<1>5. R \in Table /\ R[t].state = "cancelled" /\ \A u \in Tasks : u # t => R[u] = d.rows[u]
  <2>1. GoodTable(d.rows) /\ d.rows \in Table
    BY <1>1 DEF Coherent, GoodTable
  <2>2. R \in Table
    BY <1>2, <2>1, CancelKeepsGood DEF GoodTable
  <2> QED BY <1>2, <1>3, <2>1, <2>2 DEF cancel, Table, Row
<1> HIDE DEF R
<1>6. /\ Taken(d1) /\ Lost(d1) \subseteq Lost(d) \cup d.comment_ids[t]
      /\ Promised(d1) = Promised(d) /\ addressed(d1) = addressed(d)
      /\ covered_comment_ids(d1) = covered_comment_ids(d)
  BY <1>1, <1>2, <1>3, <1>5, CancelCares DEF Cared
<1>7. Turn(<<d>> \o more, m) /\ e = End(d, more)
  OBVIOUS
<1> HIDE DEF d1, more, e, m
<1>8. idempotency_key(ids) = c
  <2>1. ids \subseteq 1 .. c
    BY <1>1, <1>2 DEF Coherent, Covering
  <2>2. idempotency_key(ids) \in ids /\ c <= idempotency_key(ids)
    BY <1>1, <2>1, KeyIsNewest
  <2> QED BY <1>1, <2>1, <2>2
<1>9. Clean(db, ids)
  BY <1>1, <1>2, <1>3 DEF Clean, Cancelled, covered_comment_ids
<1>10. Coherent(d1) /\ idempotency_key(ids) \notin addressed(d1)
  BY <1>1, <1>2, <1>6, <1>8 DEF Later
<1> HIDE DEF ids
<1>11. /\ Taken(e) /\ Lost(e) \subseteq Lost(d1) \ ids /\ Promised(e) = Promised(d1)
  BY <1>2, <1>6, <1>10, TakenSubmitted
<1>12. PICK u \in Tasks : Added(d1, u, ids, e)
  BY <1>2, <1>10, SubmittedTask
<1>13. Cared(e, renounced)
  BY <1>1, <1>6, <1>11 DEF Cared, ids
<1>14. TornCrashes => AllCared(<<d>> \o more)
  <2> SUFFICES ASSUME TornCrashes PROVE AllCared(<<d>> \o more)
    OBVIOUS
  <2>1. Promised(d1) \cap Lost(d1) = {}
    BY <1>1, <1>3, <1>6 DEF Grown, Lost
  <2>2. Cared(d1, renounced)
    BY <1>6, <2>1 DEF Cared
  <2>3. AllCared(submit_commits(d1, ids)) /\ submit_commits(d1, ids) \in Seq(Later(db, db.iterations))
    BY <1>2, <1>9, <1>10, <2>2, CaredSubmit, SubmitCommits
  <2>4. <<d1>> \in Seq(Later(db, db.iterations)) /\ <<d>> \in Seq(Later(db, db.iterations))
    BY <1>1, <1>2, OneCommit
  <2>5. AllCared(<<d1>>) /\ AllCared(<<d>>)
    BY <1>1, <2>2, CaredCommits
  <2>6. AllCared(more)
    BY <1>4, <2>3, <2>4, <2>5, CaredConcat
  <2> QED BY <1>2, <2>4, <2>5, <2>6, CaredConcat
<1> DEFINE commits == <<d>> \o more
<1>15. /\ commits \in Seq(Later(db, db.iterations)) /\ End(db, commits) = e /\ commits # <<>>
  BY <1>1, <1>2, <1>7, FirstCommit
<1>16. Turn(commits, m) /\ (TornCrashes => AllCared(commits))
  BY <1>7, <1>14
<1> HIDE DEF commits
<1>17. commits # <<>> => Len(commits) \in Nat \ {0}
  BY <1>15
<1>18. addressed(e) = addressed(db)
  <2>1. addressed(e) = addressed(d1)
    BY <1>12 DEF Added, addressed
  <2> QED BY <1>1, <1>6, <2>1
<1>19. Prompt(e, m)
  BY <1>2, <1>18, InterruptPrompt DEF m, Cancelled
<1>20. ASSUME db' = e, proc' = m
       PROVE  Waiting(db', proc') /\ Ready(db')
  <2>1. Waiting(db', proc')
    BY <1>12, <1>20, QueuedWaits DEF Sound, Added
  <2> QED BY <1>12, <1>20, <2>1 DEF Ready, Added
<1> QED BY <1>13, <1>15, <1>16, <1>17, <1>19, <1>20, KeptSpending DEF Turn

LEMMA KeptComment ==
    ASSUME Sound, Sound', AsksKept, QuietFailures, post_comment
    PROVE  AsksKept'
<1> DEFINE append(agent, sha) == append_comment(db, agent, sha)
           tasks(d) == Interrupts(d, Len(d.comments))
           more(d) == on_comment_commits(d, Len(d.comments))
           memory(d) == IF tasks(d) = {} THEN proc ELSE interrupted(CHOOSE t \in tasks(d) : TRUE)
<1>1. PICK agent \in BOOLEAN, sha \in Int :
            Turn(<<append(agent, sha)>> \o more(append(agent, sha)), memory(append(agent, sha)))
  BY DEF post_comment
<1>2. Len(db.comments) < MaxComments /\ renounced' = renounced /\ proc.up /\ Quiet
  BY DEF post_comment
<1> DEFINE d == append(agent, sha)
           c == Len(d.comments)
<1>3. Grown(d, c)
  BY <1>2, CommentGrows
<1>4. Turn(<<d>> \o more(d), memory(d))
  BY <1>1
<1> HIDE DEF append, d
<1>5. CASE tasks(d) # {}
  <2>1. PICK t \in Interrupts(d, c) : memory(d) = interrupted(t)
    BY <1>5
  <2>2. Turn(<<d>> \o on_comment_commits(d, c), interrupted(t))
    BY <1>4, <2>1
  <2> QED BY <1>2, <1>3, <2>2, KeptInterrupts
<1>6. CASE tasks(d) = {}
  <2>1. Turn(<<d>> \o on_comment_commits(d, c), proc) /\ Interrupts(d, c) = {}
    BY <1>4, <1>6
  <2> HIDE DEF c
  <2>2. submit_commits(d, {c}) # <<>>
    <3>1. /\ d \in Later(db, db.iterations) /\ c \in Nat \ {0} /\ c = Len(d.comments)
          /\ c \notin covered_comment_ids(d)
      BY <1>3 DEF Grown
    <3>2. Submittable(d, {c}) /\ Clean(db, {c})
      BY <1>3, <3>1, KeyOfOne DEF Submittable, Clean, covered_comment_ids, Grown
    <3> QED BY <3>1, <3>2, SubmitCommits
  <2>3. CASE on_comment_commits(d, c) = <<>>
    <3>1. <<d>> \o <<>> = <<d>>
      OBVIOUS
    <3>2. Turn(<<d>>, proc)
      BY <2>1, <2>3, <3>1
    <3> QED BY <1>2, <1>3, <2>2, <2>3, <3>2, KeptSilent
  <2>4. CASE on_comment_commits(d, c) = submit_commits(d, {c})
    <3>1. Turn(<<d>> \o submit_commits(d, {c}), proc)
      BY <2>1, <2>4
    <3> QED BY <1>2, <1>3, <3>1, KeptSubmits
  <2>5. CASE /\ active_for_thread(d) # NoTask /\ d.status \in InFlightStatuses
             /\ d.rows[active_for_thread(d)].state = "queued"
             /\ on_comment_commits(d, c) = <<coalesce_comment(d, active_for_thread(d), c)>>
    <3> DEFINE t == active_for_thread(d)
    <3>1. t \in Tasks
      BY <2>5, ActiveIsLive
    <3>2. Turn(<<d>> \o <<coalesce_comment(d, t, c)>>, proc)
      BY <2>1, <2>5
    <3>3. d.rows[t].state = "queued" /\ d.status \in InFlightStatuses
      BY <2>5
    <3> HIDE DEF t
    <3> QED BY <1>2, <1>3, <3>1, <3>2, <3>3, KeptCoalesces
  <2> QED BY <2>1, <2>3, <2>4, <2>5, CommentOutcomes
<1> QED BY <1>5, <1>6

-----------------------------------------------------------------------------
(* Every step keeps the asks. *)

LEMMA KeptInit == Init => AsksKept
<1> SUFFICES ASSUME Init PROVE AsksKept
  OBVIOUS
<1>1. \A t \in Tasks : db.rows[t].state = "none" /\ db.comment_ids[t] = {}
  BY DEF Init, NewThread, EmptyTable, NoRow
<1>2. covered_comment_ids(db) = {} /\ pending_comment_ids(db) = {}
  <2>1. asks(db) = {}
    BY DEF Init, NewThread, asks
  <2> QED BY <1>1, <2>1 DEF covered_comment_ids, pending_comment_ids
<1>3. Cared(db, renounced)
  BY <1>1, <1>2 DEF Cared, Taken, Lost
<1> QED BY <1>2, <1>3, DeadIsPrompt DEF Init, AsksKept, Ready

LEMMA KeptStep ==
    ASSUME Sound, Sound', AsksKept, QuietFailures, [Next]_vars
    PROVE  AsksKept'
<1>1. CASE UNCHANGED vars
  <2>1. db' = db /\ proc' = proc /\ renounced' = renounced
    BY <1>1 DEF vars
  <2> QED BY <2>1 DEF AsksKept, Trusted
<1>2. CASE boot \/ crash \/ post_comment \/ cancel_run \/ sweep
  BY <1>2, KeptBoot, KeptCrash, KeptComment, KeptCancel, KeptSweep
<1>3. CASE \E sha \in DOMAIN db.iterations : approve(sha)
  BY <1>3, KeptApprove
<1>4. CASE \E t \in Tasks : requeue_from_dlq_task(t) \/ lease_lapses(t)
  BY <1>4, KeptRequeue, KeptLapse
<1>5. ASSUME NEW w \in Workers,
             \/ \E t \in Tasks : claim(w, t)
             \/ begins(w) \/ redelivered(w) \/ progresses(w) \/ raises(w) \/ lands(w)
             \/ deadline(w) \/ resumes(w)
      PROVE  AsksKept'
  BY <1>5, KeptClaim, KeptBegins, KeptRedelivered, KeptProgresses, KeptRaises,
     KeptLands, KeptDeadline, KeptResumes
<1>6. CASE \E f \in Flows : flow_step(f)
  BY <1>6, KeptFlow
<1> QED BY <1>1, <1>2, <1>3, <1>4, <1>5, <1>6 DEF Next

LEMMA StaysKept == ASSUME QuietFailures PROVE Spec => [](Sound /\ AsksKept)
<1>1. Init => Sound /\ AsksKept
  BY SoundInit, KeptInit
<1>2. Sound /\ AsksKept /\ [Next]_vars => (Sound /\ AsksKept)'
  BY SoundStep, KeptStep
<1> QED BY <1>1, <1>2, PTL DEF Spec

\* A promised ask is in somebody's hand, as long as nobody cancels.
LEMMA PromisedInHand ==
    ASSUME Sound, AsksKept, Trusted, proc.up, db.status \notin ClosedStatuses,
           NEW c \in asks(db), c \in Promised(db)
    PROVE  InHand(c)
<1> SUFFICES ASSUME c \notin addressed(db),
                    \A t \in Carriers(db) : c \notin db.comment_ids[t]
             PROVE  c \in pending_comment_ids(db) /\ (Undrained # {} \/ db.status = "failed")
  BY DEF InHand, Carriers
<1>1. c \notin covered_comment_ids(db)
  BY DEF AsksKept, Cared, Lost, Trusted
<1>2. c \in pending_comment_ids(db)
  BY <1>1 DEF pending_comment_ids
<1>3. UndrainedIn(db, proc) # {} \/ db.status = "failed"
  BY <1>2 DEF AsksKept, Waiting
<1>4. UndrainedIn(db, proc) \subseteq Undrained
  BY DEF UndrainedIn, Undrained, EngagedOn
<1> QED BY <1>2, <1>3, <1>4

\* Only cancel_run gives asks up.
LEMMA RenouncedByCancel ==
    ASSUME [Next]_vars, ~cancel_run
    PROVE  renounced' = renounced
<1>1. CASE boot \/ crash \/ post_comment \/ sweep
  BY <1>1 DEF boot, crash, post_comment, sweep
<1>2. CASE \E sha \in DOMAIN db.iterations : approve(sha)
  BY <1>2 DEF approve
<1>3. CASE \E t \in Tasks : requeue_from_dlq_task(t) \/ lease_lapses(t)
  BY <1>3 DEF requeue_from_dlq_task, lease_lapses
<1>4. ASSUME NEW w \in Workers,
             \/ \E t \in Tasks : claim(w, t)
             \/ begins(w) \/ redelivered(w) \/ progresses(w) \/ raises(w) \/ lands(w)
             \/ deadline(w) \/ resumes(w)
      PROVE  renounced' = renounced
  BY <1>4 DEF claim, begins, redelivered, progresses, raises, lands, deadline, resumes,
              finishes, attempt_fails, gives_up, walks_away
<1>5. CASE \E f \in Flows : flow_step(f)
  BY <1>5 DEF flow_step, flow_opens, flow_resumes, flow_opened, flow_not_opened,
              flow_merges, flow_stays_open, flow_merged
<1> QED BY <1>1, <1>2, <1>3, <1>4, <1>5 DEF Next, vars

\* Until the thread closes, every ask is in somebody's hand, however often the
\* process dies between two turns: as long as nobody cancels, as cancel_run
\* does not drain (the run RunnerCancelledDrain), and runs that fail meet their
\* worker before the user comments again.
THEOREM NoAskIsStranded ==
    ASSUME QuietFailures, ~TornCrashes, MaxCancels = 0
    PROVE  Spec => []NoStrandedAsk
<1>1. Init => renounced = {}
  BY DEF Init
<1>2. Sound /\ AsksKept /\ renounced = {} /\ [Next]_vars => (renounced = {})'
  <2> SUFFICES ASSUME Sound, renounced = {}, [Next]_vars PROVE renounced' = renounced
    OBVIOUS
  <2>1. ~cancel_run
    BY DEF cancel_run, Sound, TypeOK
  <2> QED BY <2>1, RenouncedByCancel
<1>3. Sound /\ AsksKept /\ renounced = {} => NoStrandedAsk
  BY PromisedInHand DEF NoStrandedAsk, Promised, Trusted
<1>4. Spec => [](Sound /\ AsksKept)
  BY StaysKept
<1> QED BY <1>1, <1>2, <1>3, <1>4, PTL DEF Spec

\* The newest ask is in somebody's hand even when the process dies between the
\* commits of one turn.
THEOREM TheLastAskIsKept == ASSUME OrderlyFailures PROVE Spec => []LastAskKept
<1>1. Sound /\ AsksKept => LastAskKept
  <2> SUFFICES ASSUME Sound, AsksKept, proc.up, db.status \notin ClosedStatuses,
                      asks(db) # {}, renounced = {}
               PROVE  InHand(Max(asks(db)))
    BY DEF LastAskKept
  <2>1. Len(db.comments) \in Nat /\ asks(db) \subseteq 1 .. Len(db.comments)
    BY CommentsCounted DEF Sound, asks, Coherent, Database
  <2>2. Max(asks(db)) \in asks(db)
    BY <2>1, KeyIsNewest DEF idempotency_key
  <2>3. Max(asks(db)) \in Promised(db)
    BY <2>2 DEF Promised
  <2> QED BY <2>2, <2>3, PromisedInHand DEF Trusted, OrderlyFailures
<1>2. Spec => [](Sound /\ AsksKept)
  BY StaysKept DEF OrderlyFailures
<1> QED BY <1>1, <1>2, PTL

-----------------------------------------------------------------------------
(* No phantom run.                                                           *)
(*                                                                           *)
(* A thread that says an agent is at work has a task whose handler is still  *)
(* to run, or waits for the drain of the next start.  What a torn turn       *)
(* commits shows that there will be such a task, or why there is none.       *)

\* The two torn turns nobody repairs: a cancel, and a failure that dead-letters.
Excused(d, R) == R # {} \/ InState(d.rows, "dlq") # {}

Playing(d, m) ==
    d.status \in InFlightStatuses =>
        UndrainedIn(d, m) # {} \/ (~m.up /\ pending_comment_ids(d) # {})

InPlay == Playing(db, proc) \/ (used.crashes > 0 /\ Excused(db, renounced))

\* A database a process may die on.
Backed(d, R) ==
    d.status \in InFlightStatuses =>
        Carriers(d) # {} \/ pending_comment_ids(d) # {} \/ R # {}

AllBacked(commits) == \A k \in 1 .. Len(commits) : Backed(commits[k], renounced)

-----------------------------------------------------------------------------
(* Databases a process may die on. *)

LEMMA OutOfFlight ==
    "triggered" \in InFlightStatuses /\ "triggered" \in Statuses /\
    \A status \in ClosedStatuses \cup {"open", "preview_ready", "failed"} :
        status \notin InFlightStatuses
BY DEF ClosedStatuses, InFlightStatuses, Statuses

LEMMA LiveIsBacked ==
    ASSUME NEW d, NEW R, NEW t \in Tasks, d.rows[t].state \in {"queued", "running", "dlq"}
    PROVE  Backed(d, R)
BY DEF Backed, Carriers, Live, InState

LEMMA BackedCommits ==
    /\ AllBacked(<<>>)
    /\ \A e : Backed(e, renounced) => AllBacked(<<e>>)
    /\ \A e, f : Backed(e, renounced) /\ Backed(f, renounced) => AllBacked(<<e, f>>)
<1>1. AllBacked(<<>>)
  BY DEF AllBacked
<1>2. ASSUME NEW e, Backed(e, renounced)
      PROVE  AllBacked(<<e>>)
  BY <1>2 DEF AllBacked
<1>3. ASSUME NEW e, NEW f, Backed(e, renounced), Backed(f, renounced)
      PROVE  AllBacked(<<e, f>>)
  <2>1. Len(<<e, f>>) = 2 /\ <<e, f>>[1] = e /\ <<e, f>>[2] = f
    OBVIOUS
  <2>2. \A k \in 1 .. 2 : k = 1 \/ k = 2
    OBVIOUS
  <2> QED BY <1>3, <2>1, <2>2 DEF AllBacked
<1> QED BY <1>1, <1>2, <1>3

LEMMA BackedConcat ==
    ASSUME NEW S, NEW s \in Seq(S), NEW more \in Seq(S), AllBacked(s), AllBacked(more)
    PROVE  AllBacked(s \o more)
<1> SUFFICES ASSUME NEW k \in 1 .. Len(s \o more)
             PROVE  Backed((s \o more)[k], renounced)
  BY DEF AllBacked
<1>1. /\ Len(s) \in Nat /\ Len(more) \in Nat /\ Len(s \o more) = Len(s) + Len(more)
      /\ k \in Nat
  OBVIOUS
<1>2. CASE k <= Len(s)
  <2>1. (s \o more)[k] = s[k] /\ k \in 1 .. Len(s)
    BY <1>1, <1>2
  <2> QED BY <2>1 DEF AllBacked
<1>3. CASE k > Len(s)
  <2>1. (s \o more)[k] = more[k - Len(s)] /\ k - Len(s) \in 1 .. Len(more)
    BY <1>1, <1>3
  <2> DEFINE j == k - Len(s)
  <2>2. j \in 1 .. Len(more) /\ (s \o more)[k] = more[j]
    BY <2>1
  <2> HIDE DEF j
  <2> QED BY <2>2 DEF AllBacked
<1> QED BY <1>1, <1>2, <1>3

\* A submit that leaves a comment waiting until it has inserted its task.
LEMMA BackedSubmit ==
    ASSUME NEW d, NEW its, NEW e \in Later(d, its), pending_comment_ids(e) # {},
           NEW ids, Submittable(e, ids), Clean(d, ids)
    PROVE  AllBacked(submit_commits(e, ids))
<1>1. submit_commits(e, ids) = <<set_status(e, "triggered"), Submitted(e, ids)>>
  BY SubmitCommits
<1>2. Backed(set_status(e, "triggered"), renounced)
  <2>1. SameWork(e, set_status(e, "triggered"))
    BY OutOfFlight, SetStatus DEF Later
  <2>2. pending_comment_ids(set_status(e, "triggered")) = pending_comment_ids(e)
    BY <2>1, SamePending DEF SameWork
  <2> QED BY <2>2 DEF Backed
<1>3. Backed(Submitted(e, ids), renounced)
  <2>1. PICK t \in Tasks : Added(e, t, ids, Submitted(e, ids))
    BY SubmittedTask DEF Later
  <2> QED BY <2>1, LiveIsBacked DEF Added
<1> QED BY <1>1, <1>2, <1>3, BackedCommits

LEMMA BackedDrain ==
    ASSUME NEW d, NEW its, NEW e \in Later(d, its)
    PROVE  AllBacked(drain_pending_commits(e))
<1>1. CASE drain_pending_commits(e) = <<>>
  BY <1>1, BackedCommits
<1>2. CASE /\ pending_comment_ids(e) # {}
           /\ drain_pending_commits(e) = submit_commits(e, pending_comment_ids(e))
  BY <1>2, PendingIsSubmittable, BackedSubmit
<1> QED BY <1>1, <1>2 DEF drain_pending_commits

-----------------------------------------------------------------------------
(* What a turn leaves. *)

\* A turn that ends in play, and whose commits a process may die on.
LEMMA TurnInPlay ==
    ASSUME NEW commits, AllBacked(commits), commits # <<>> => Len(commits) \in Nat \ {0},
           NEW after, NEW spent \in Spent, TurnSpending(commits, after, spent),
           renounced' = renounced,
           db' = End(db, commits) /\ proc' = after /\ used' = spent => InPlay'
    PROVE  InPlay'
<1>1. CASE db' = End(db, commits) /\ proc' = after /\ used' = spent
  BY <1>1
<1>2. CASE /\ proc' = Dead /\ \E k \in 1 .. Len(commits) - 1 : db' = commits[k]
           /\ used' = [spent EXCEPT !.crashes = @ + 1]
  <2>1. PICK k \in 1 .. Len(commits) - 1 : db' = commits[k]
    BY <1>2
  <2>2. commits # <<>>
    BY <2>1
  <2>3. k \in 1 .. Len(commits)
    BY <2>1, <2>2
  <2>4. Backed(db', renounced)
    BY <2>1, <2>3 DEF AllBacked
  <2>5. used'.crashes > 0
    BY <1>2 DEF Spent
  <2>6. ~proc'.up /\ UndrainedIn(db', proc') = Live(db'.rows)
    BY <1>2 DEF Dead, UndrainedIn
  <2> QED BY <2>4, <2>5, <2>6 DEF Backed, InPlay, Playing, Excused, Carriers
<1> QED BY <1>1, <1>2 DEF TurnSpending, End

\* A turn of at most one commit is not torn.
LEMMA AtOnce ==
    ASSUME NEW commits, NEW d, (commits = <<>> /\ d = db) \/ commits = <<d>>,
           NEW after, Turn(commits, after)
    PROVE  db' = d /\ proc' = after /\ used' = used
<1>1. CASE commits = <<>> /\ d = db
  BY <1>1 DEF Turn, TurnSpending
<1>2. CASE commits = <<d>>
  <2>1. Len(<<d>>) = 1 /\ Last(<<d>>) = d /\ <<d>> # <<>>
    BY DEF Last
  <2> HIDE DEF Last
  <2> QED BY <1>2, <2>1 DEF Turn, TurnSpending
<1> QED BY <1>1, <1>2

LEMMA IdleInPlay ==
    ASSUME db'.status \notin InFlightStatuses
    PROVE  InPlay'
BY DEF InPlay, Playing

LEMMA QueuedInPlay ==
    ASSUME Sound', NEW t \in Tasks, db'.rows[t].state = "queued"
    PROVE  InPlay'
BY QueuedUndrained DEF InPlay, Playing, Sound

LEMMA RunInPlay ==
    ASSUME Sound', NEW w \in Workers, proc'.phase[w] \in Busy \ {"ok"},
           db'.rows[proc'.held[w]].state = "running"
    PROVE  InPlay'
BY RunUndrained DEF InPlay, Playing, Sound

\* Whoever was to drain still is.
LEMMA StaysInPlay ==
    ASSUME InPlay, db'.status = db.status \/ db'.status \notin InFlightStatuses,
           UndrainedIn(db, proc) \subseteq UndrainedIn(db', proc'), proc'.up = proc.up,
           pending_comment_ids(db) \subseteq pending_comment_ids(db'),
           InState(db.rows, "dlq") \subseteq InState(db'.rows, "dlq"),
           renounced' = renounced, used'.crashes = used.crashes
    PROVE  InPlay'
BY DEF InPlay, Playing, Excused

-----------------------------------------------------------------------------
(* Every step stays in play. *)

LEMMA BootInPlay ==
    ASSUME Sound, Sound', InPlay, boot
    PROVE  InPlay'
<1> DEFINE started == [Dead EXCEPT !.up = TRUE, !.phase = [w \in Workers |-> "idle"]]
           resumed(f) == with_flow(started, f, "resuming", 0)
           idle_thread == /\ db.status \notin ClosedStatuses \cup {"failed"}
                          /\ active_for_thread(db) = NoTask
           drained == drain_pending_commits(db)
<1>1. /\ db \in Later(db, db.iterations) /\ renounced' = renounced /\ used \in Spent /\ ~proc.up
  BY LaterSelf DEF Sound, TypeOK, Spent, boot
<1>2. Live(db.rows) = {} <=> active_for_thread(db) = NoTask
  BY ActiveIsLive
<1>3. UndrainedIn(db, started) = Live(db.rows) /\ UndrainedIn(db, proc) \subseteq Live(db.rows)
  BY DEF Dead, UndrainedIn
<1>4. CASE flow_was_under_way(db)
  <2>1. PICK f \in Flows : Turn(<<>>, resumed(f))
    BY <1>4 DEF boot
  <2> HIDE DEF resumed
  <2>2. db' = db
    BY <2>1, AtOnce
  <2>3. db.status \in ClosedStatuses
    BY <1>4 DEF flow_was_under_way, ClosedStatuses
  <2> QED BY <2>2, <2>3, IdleInPlay, OutOfFlight
<1>5. CASE ~flow_was_under_way(db) /\ ~idle_thread
  <2>1. Turn(<<>>, started)
    BY <1>5 DEF boot
  <2> HIDE DEF started
  <2>2. db' = db /\ proc' = started
    BY <2>1, AtOnce
  <2>3. CASE db.status \in ClosedStatuses \cup {"failed"}
    BY <2>2, <2>3, IdleInPlay, OutOfFlight
  <2>4. CASE active_for_thread(db) # NoTask
    BY <1>2, <1>3, <2>2, <2>4 DEF InPlay, Playing
  <2> QED BY <1>5, <2>3, <2>4
<1>6. CASE ~flow_was_under_way(db) /\ idle_thread
  <2>1. TurnSpending(drained, started, used)
    BY <1>6 DEF boot, Turn
  <2>2. AllBacked(drained) /\ drained \in Seq(Later(db, db.iterations))
    BY <1>1, BackedDrain, DrainCommits
  <2> DEFINE e == End(db, drained)
  <2>3. \/ e = db /\ pending_comment_ids(db) = {}
        \/ \E t \in Tasks : e.rows[t].state = "queued"
    BY <1>1, <1>6, CaredDrain
  <2>4. drained # <<>> => Len(drained) \in Nat \ {0}
    <3> HIDE DEF drained
    <3> QED BY <2>2
  <2> HIDE DEF started, drained
  <2>5. ASSUME db' = e, proc' = started, used' = used
        PROVE  InPlay'
    <3>1. CASE e = db /\ pending_comment_ids(db) = {}
      <4>1. UndrainedIn(db, proc) = {}
        BY <1>2, <1>3, <1>6
      <4> QED BY <1>1, <2>5, <3>1, <4>1 DEF InPlay, Playing
    <3>2. CASE \E t \in Tasks : e.rows[t].state = "queued"
      BY <2>5, <3>2, QueuedInPlay
    <3> QED BY <2>3, <3>1, <3>2
  <2> QED BY <1>1, <2>1, <2>2, <2>4, <2>5, TurnInPlay
<1> QED BY <1>4, <1>5, <1>6

LEMMA CrashInPlay ==
    ASSUME Sound, InPlay, crash
    PROVE  InPlay'
<1>1. /\ db' = db /\ proc' = Dead /\ renounced' = renounced /\ proc.up
      /\ used'.crashes = used.crashes + 1 /\ used.crashes \in Nat
  BY DEF crash, Sound, TypeOK
<1>2. UndrainedIn(db, proc) \subseteq UndrainedIn(db, Dead)
  BY DEF UndrainedIn, Dead
<1> QED BY <1>1, <1>2 DEF InPlay, Playing, Excused

LEMMA ApproveInPlay ==
    ASSUME Sound, NEW sha, approve(sha)
    PROVE  InPlay'
<1> DEFINE d == set_status(db, "pr_open")
<1>1. transition(db, "preview_ready", "pr_open") = d
  BY DEF approve, finds_row, transition
<1>2. PICK f \in Flows : Turn(<<d>>, with_flow(proc, f, "approved", 0))
  BY <1>1 DEF approve, FreeFlows
<1>3. d.status = "pr_open"
  BY DEF set_status, Sound, TypeOK, Database
<1> HIDE DEF d
<1>4. db' = d
  BY <1>2, AtOnce
<1> QED BY <1>3, <1>4, IdleInPlay, OutOfFlight DEF ClosedStatuses

LEMMA FlowInPlay ==
    ASSUME Sound, InPlay, NEW f \in Flows, flow_step(f)
    PROVE  InPlay'
<1> DEFINE sha == proc.flows[f].sha
<1>1. /\ sha \in Nat /\ db.preview_sha \in Nat /\ db.pr_url \in Nat
      /\ db \in Database /\ proc \in Process /\ used \in Spent
  BY DEF Sound, TypeOK, Process, Database, Spent
<1> HIDE DEF sha
<1>2. ASSUME NEW commits, NEW d, (commits = <<>> /\ d = db) \/ commits = <<d>>,
             SameWork(db, d), d.status = db.status \/ d.status \notin InFlightStatuses,
             NEW at \in FlowStages, NEW v \in Nat, Turn(commits, with_flow(proc, f, at, v)),
             renounced' = renounced
      PROVE  InPlay'
  <2> DEFINE m == with_flow(proc, f, at, v)
  <2>1. Flowed(proc, m, f, at, v)
    BY <1>1, <1>2, WithFlow
  <2>2. db' = d /\ proc' = m /\ used' = used
    BY <1>2, AtOnce
  <2> HIDE DEF m
  <2>3. /\ pending_comment_ids(db') = pending_comment_ids(db) /\ db'.rows = db.rows
    BY <1>2, <2>2, SamePending DEF SameWork
  <2>4. UndrainedIn(db, proc) \subseteq UndrainedIn(db', proc')
    BY <2>1, <2>2, <2>3 DEF UndrainedIn, Flowed
  <2> QED BY <1>2, <2>1, <2>2, <2>3, <2>4, StaysInPlay DEF Flowed
<1>3. ASSUME NEW at \in FlowStages, NEW v \in Nat, Turn(<<>>, with_flow(proc, f, at, v)),
             renounced' = renounced
      PROVE  InPlay'
  BY <1>2, <1>3 DEF SameWork
<1>4. {"none", "opening", "reopening", "ci", "merging"} \subseteq FlowStages
      /\ {"merged", "done", "preview_ready"} \subseteq Statuses
  BY DEF FlowStages, Statuses, ClosedStatuses
<1>5. \A status \in {"merged", "done", "preview_ready"} : status \notin InFlightStatuses
  BY DEF InFlightStatuses
<1>6. \A status \in {"merged", "done", "preview_ready"} :
          /\ SameWork(db, set_status(db, status))
          /\ set_status(db, status).status = status
  BY <1>1, <1>4, SetStatus DEF set_status, Database
<1>7. CASE flow_opens(f)
  BY <1>1, <1>3, <1>4, <1>7 DEF flow_opens
<1>8. CASE flow_resumes(f)
  <2>1. CASE Turn(<<set_status(db, "done")>>, flow_ends(f))
    BY <1>2, <1>4, <1>5, <1>6, <1>8, <2>1 DEF flow_ends, flow_resumes
  <2>2. CASE \/ Turn(<<>>, with_flow(proc, f, "ci", db.pr_url))
             \/ Turn(<<>>, with_flow(proc, f, "reopening", db.preview_sha))
             \/ Turn(<<>>, flow_ends(f))
    BY <1>1, <1>3, <1>4, <1>8, <2>2 DEF flow_ends, flow_resumes
  <2> QED BY <1>8, <2>1, <2>2 DEF flow_resumes
<1>9. CASE flow_opened(f)
  <2>1. SameWork(db, set_pr_url(db, sha)) /\ set_pr_url(db, sha).status = db.status
    BY <1>1, SetPrUrl DEF set_pr_url, Database
  <2> QED BY <1>1, <1>2, <1>4, <1>9, <2>1 DEF flow_opened, sha
<1>10. CASE flow_not_opened(f)
  <2> DEFINE d == approval_reverted(db)
  <2>1. SameWork(db, d) /\ (d.status = db.status \/ d.status \notin InFlightStatuses)
    <3>1. d = db \/ d = set_status(db, "preview_ready")
      BY DEF approval_reverted, transition
    <3> QED BY <1>5, <1>6, <3>1 DEF SameWork
  <2> HIDE DEF d
  <2>2. CASE Turn(<<d>>, flow_ends(f))
    BY <1>2, <1>4, <1>10, <2>1, <2>2 DEF flow_not_opened, flow_ends
  <2>3. CASE Turn(<<>>, flow_ends(f))
    BY <1>3, <1>4, <1>10, <2>3 DEF flow_not_opened, flow_ends
  <2> QED BY <1>10, <2>2, <2>3 DEF flow_not_opened, d
<1>11. CASE flow_merges(f)
  BY <1>1, <1>3, <1>4, <1>11 DEF flow_merges, sha
<1>12. CASE flow_stays_open(f)
  BY <1>1, <1>3, <1>4, <1>12 DEF flow_stays_open, flow_ends
<1>13. CASE flow_merged(f)
  <2> DEFINE d1 == set_status(db, "merged")
             d2 == set_status(d1, "done")
  <2>1. d1.status = "merged" /\ d2.status = "done"
    BY <1>1 DEF set_status, Database
  <2>2. TurnSpending(<<d1, d2>>, flow_ends(f), used) /\ renounced' = renounced
    BY <1>13 DEF flow_merged, Turn
  <2> HIDE DEF d1, d2
  <2>3. AllBacked(<<d1, d2>>)
    BY <1>5, <2>1, BackedCommits DEF Backed
  <2>4. End(db, <<d1, d2>>) = d2 /\ Len(<<d1, d2>>) \in Nat \ {0}
    BY LastOfTwo
  <2>5. db' = d2 => InPlay'
    BY <1>5, <2>1, IdleInPlay
  <2> QED BY <1>1, <2>2, <2>3, <2>4, <2>5, TurnInPlay
<1> QED BY <1>7, <1>8, <1>9, <1>10, <1>11, <1>12, <1>13 DEF flow_step

\* A run that goes on, or has just ended badly.
LEMMA BeginsInPlay ==
    ASSUME Sound, Sound', NEW w \in Workers, begins(w)
    PROVE  InPlay'
<1> DEFINE d == set_status(db, "analyzing")
           after(p) == [proc EXCEPT !.phase[w] = p,
                                    !.parent[w] = resolve_parent_sha(db, proc.ids[w])]
<1>1. PICK p \in {"analyzing", "error", "vanished"} : Turn(<<d>>, after(p))
  BY DEF begins
<1>2. proc.phase[w] \in Busy /\ db.rows[proc.held[w]].state = "running"
  BY DEF begins, Sound, Minds, Delivered, Busy, ActivePhases
<1>3. after(p).phase[w] = p /\ after(p).held[w] = proc.held[w]
  BY DEF Process, Sound, TypeOK
<1>4. d.rows = db.rows
  BY DEF set_status, Sound, TypeOK, Database
<1> HIDE DEF d, after
<1>5. db' = d /\ proc' = after(p)
  BY <1>1, AtOnce
<1>6. p \in Busy \ {"ok"}
  BY DEF Busy, ActivePhases, EndedPhases
<1> QED BY <1>2, <1>3, <1>4, <1>5, <1>6, RunInPlay

LEMMA ActiveInPlay ==
    ASSUME Sound', NEW w \in Workers, proc'.phase[w] \in ActivePhases
    PROVE  InPlay'
<1>1. proc'.phase[w] \in Busy \ {"ok"}
  BY DEF Busy, ActivePhases
<1>2. db'.rows[proc'.held[w]].state = "running"
  BY <1>1 DEF Sound, Minds, Delivered
<1> QED BY <1>1, <1>2, RunInPlay

LEMMA ProgressesInPlay ==
    ASSUME Sound, Sound', NEW w \in Workers, progresses(w)
    PROVE  InPlay'
<1> DEFINE d(p) == set_status(db, p)
           after(p) == [proc EXCEPT !.phase[w] = p]
<1>1. PICK p \in {"coding", "deploying"} : Turn(<<d(p)>>, after(p))
  BY DEF progresses
<1>2. after(p).phase[w] = p /\ p \in ActivePhases
  BY DEF Process, Sound, TypeOK, ActivePhases
<1> HIDE DEF d, after
<1>3. proc' = after(p)
  BY <1>1, AtOnce
<1> QED BY <1>2, <1>3, ActiveInPlay

LEMMA RaisesInPlay ==
    ASSUME Sound, Sound', NEW w \in Workers, raises(w)
    PROVE  InPlay'
<1> DEFINE after == [proc EXCEPT !.phase[w] = "error"]
<1>1. proc.phase[w] \in Busy /\ db.rows[proc.held[w]].state = "running" /\ Turn(<<>>, after)
  BY DEF raises, Sound, Minds, Delivered, Busy, ActivePhases
<1>2. after.phase[w] = "error" /\ after.held[w] = proc.held[w]
  BY DEF Process, Sound, TypeOK
<1> HIDE DEF after
<1>3. db' = db /\ proc' = after
  BY <1>1, AtOnce
<1>4. "error" \in Busy \ {"ok"}
  BY DEF Busy, EndedPhases
<1> QED BY <1>1, <1>2, <1>3, <1>4, RunInPlay

LEMMA ClaimInPlay ==
    ASSUME Sound, Sound', NEW w \in Workers, NEW t \in Tasks, claim(w, t)
    PROVE  InPlay'
<1> DEFINE d == with_rows(db, claim_next(db.rows, t, w))
           after == [proc EXCEPT !.held[w] = t, !.phase[w] = "created",
                                 !.timed_out[w] = FALSE, !.running[t] = w,
                                 !.ids[w] = db.comment_ids[t]]
<1>1. Turn(<<d>>, after)
  BY DEF claim
<1>2. after.phase[w] = "created" /\ "created" \in ActivePhases
  BY DEF Process, Sound, TypeOK, ActivePhases
<1> HIDE DEF d, after
<1>3. proc' = after
  BY <1>1, AtOnce
<1> QED BY <1>2, <1>3, ActiveInPlay

LEMMA DeadlineInPlay ==
    ASSUME Sound, InPlay, NEW w \in Workers, deadline(w)
    PROVE  InPlay'
<1> DEFINE p == IF proc.phase[w] \in ActivePhases THEN "cancelled" ELSE proc.phase[w]
           after == [proc EXCEPT !.timed_out[w] = TRUE, !.phase[w] = p]
<1>1. Turn(<<>>, after) /\ renounced' = renounced /\ (p = "ok" => proc.phase[w] = "ok")
  BY DEF deadline
<1> HIDE DEF p
<1>2. /\ Besides(after, w) /\ after.phase[w] = p /\ after.held[w] = proc.held[w]
  BY DEF Besides, Process, Sound, TypeOK
<1> HIDE DEF after
<1>3. db' = db /\ proc' = after /\ used' = used
  BY <1>1, AtOnce
<1>4. UndrainedIn(db, proc) \subseteq UndrainedIn(db, after)
  BY <1>1, <1>2, UndrainedStays DEF Besides
<1> QED BY <1>1, <1>2, <1>3, <1>4, StaysInPlay DEF Besides

\* A worker that lets go of its task.
LEMMA FinishesInPlay ==
    ASSUME Sound, InPlay, NEW w \in Workers, finishes(w)
    PROVE  InPlay'
<1> DEFINE t == proc.held[w]
           R == complete(db.rows, t)
           e == with_rows(db, R)
           m == unwound(w)
<1>1. /\ proc.phase[w] = "ok" /\ proc.phase[w] \in Busy /\ renounced' = renounced
      /\ Turn(<<e>>, m)
  BY DEF finishes, Busy, EndedPhases
<1>2. t \in Tasks /\ GoodTable(db.rows) /\ db.rows \in Table /\ db \in Database
  BY <1>1 DEF Sound, Minds, Coherent, GoodTable, TypeOK
<1> HIDE DEF t
<1>3. R \in Table
  BY <1>2, CompleteKeepsGood DEF GoodTable
<1>4. \A u \in Tasks : R[u].state = db.rows[u].state \/ (u = t /\ db.rows[u].state = "running")
  BY <1>2 DEF complete, Table, Row
<1> HIDE DEF R
<1>5. /\ e.rows = R /\ e.status = db.status
      /\ pending_comment_ids(e) = pending_comment_ids(db)
  <2>1. e.status = db.status
    BY <1>2 DEF with_rows, Database
  <2>2. /\ e.rows = R /\ e.comment_ids = db.comment_ids /\ e.comments = db.comments
        /\ e.iterations = db.iterations
    BY <1>2, <1>3, WithRows
  <2> HIDE DEF e
  <2> QED BY <2>1, <2>2, SamePending
<1>6. Besides(m, w) /\ m.phase[w] = "idle"
  BY <1>1, Unwinds
<1> HIDE DEF e, m
<1>7. db' = e /\ proc' = m /\ used' = used
  BY <1>1, AtOnce
<1>8. UndrainedIn(db, proc) \subseteq UndrainedIn(e, m)
  <2> SUFFICES ASSUME NEW u \in UndrainedIn(db, proc) PROVE u \in UndrainedIn(e, m)
    OBVIOUS
  <2>1. u \in Live(db.rows) /\ u \in Tasks /\ u # t
    BY <1>1 DEF UndrainedIn, t, Live, InState
  <2>2. u \in Live(e.rows)
    BY <1>4, <1>5, <2>1 DEF Live, InState
  <2>3. \A v \in Workers : m.phase[v] = "ok" => proc.phase[v] = "ok" /\ m.held[v] = proc.held[v]
    BY <1>6 DEF Besides
  <2> QED BY <2>2, <2>3 DEF UndrainedIn
<1>9. InState(db.rows, "dlq") \subseteq InState(e.rows, "dlq")
  BY <1>4, <1>5 DEF InState
<1> QED BY <1>1, <1>5, <1>6, <1>7, <1>8, <1>9, StaysInPlay DEF Besides

LEMMA LetsGoInPlay ==
    ASSUME Sound, InPlay, NEW w \in Workers, proc.phase[w] \in Busy \ {"ok"},
           NEW commits, commits = <<>> \/ commits = <<with_rows(db, db.rows)>>,
           Turn(commits, unwound(w)), renounced' = renounced
    PROVE  InPlay'
<1> DEFINE m == unwound(w)
<1>1. with_rows(db, db.rows) = db
  BY DEF with_rows, Sound, TypeOK, Database
<1>2. Besides(m, w) /\ m.phase[w] = "idle" /\ Turn(commits, m)
  BY Unwinds
<1> HIDE DEF m
<1>3. db' = db /\ proc' = m /\ used' = used
  BY <1>1, <1>2, AtOnce
<1>4. UndrainedIn(db, proc) \subseteq UndrainedIn(db, m)
  BY <1>2, UndrainedStays DEF Besides
<1> QED BY <1>2, <1>3, <1>4, StaysInPlay DEF Besides

LEMMA GivesUpInPlay ==
    ASSUME Sound, AsksKept, InPlay, NEW w \in Workers, gives_up(w)
    PROVE  InPlay'
<1> DEFINE t == proc.held[w]
<1>1. /\ proc.phase[w] = "cancelled" /\ ~proc.timed_out[w] /\ renounced' = renounced
      /\ Turn(<<with_rows(db, cancel(db.rows, t))>>, unwound(w))
  BY DEF gives_up
<1>2. proc.phase[w] \in Busy \ {"ok"}
  BY <1>1 DEF Busy, EndedPhases
<1>3. db.rows[t].state = "cancelled"
  BY <1>1, <1>2 DEF Sound, Minds, Delivered, AsksKept, Prompt, PromptAt
<1>4. cancel(db.rows, t) = db.rows
  BY <1>3 DEF cancel, Live, InState
<1> QED BY <1>1, <1>2, <1>4, LetsGoInPlay

LEMMA WalksAwayInPlay ==
    ASSUME Sound, InPlay, NEW w \in Workers, walks_away(w)
    PROVE  InPlay'
<1>1. proc.phase[w] \in Busy \ {"ok"} /\ Turn(<<>>, unwound(w)) /\ renounced' = renounced
  BY DEF walks_away, Busy, EndedPhases
<1> QED BY <1>1, LetsGoInPlay

\* An attempt that fails leaves its task to be tried again, or in the
\* dead-letter queue, before it says so.
LEMMA AttemptFailsInPlay ==
    ASSUME Sound, Sound', AsksKept, NEW w \in Workers, attempt_fails(w)
    PROVE  InPlay'
<1> DEFINE t == proc.held[w]
           R == fail(db.rows, t)
           d1 == with_rows(db, R)
           e == set_status(d1, StatusOfOutcome(fail_result(db.rows, t)))
           m == unwound(w)
<1>1. /\ proc.phase[w] = "error" \/ (proc.phase[w] = "cancelled" /\ proc.timed_out[w])
      /\ TurnSpending(<<d1, e>>, m, used) /\ renounced' = renounced
  BY DEF attempt_fails, Turn
<1>2. t \in Tasks
  BY <1>1 DEF Sound, Minds, Busy, EndedPhases
<1>3. db.rows[t].state = "running"
  BY <1>1 DEF AsksKept, Prompt, PromptAt
<1>4. /\ GoodTable(db.rows) /\ db.rows \in Table /\ db \in Database /\ Cared(db, renounced)
      /\ used \in Spent
  BY DEF Sound, TypeOK, Coherent, GoodTable, AsksKept, Spent
<1> HIDE DEF t
<1>5. R \in Table
  BY <1>2, <1>4, FailKeepsGood DEF GoodTable
<1>6. R[t] = failed_row(db.rows, t) /\ \A u \in Tasks : u # t => R[u] = db.rows[u]
  BY <1>2, <1>4 DEF fail, Table
<1>7. R[t].state \in {"queued", "dlq"}
  BY <1>2, <1>3, <1>4, <1>6 DEF failed_row, fail_result, Table, Row
<1> HIDE DEF R
<1>8. /\ d1.rows = R /\ e.rows = R
      /\ (e.status = "triggered" /\ R[t].state = "queued") \/ e.status = "failed"
  BY <1>2, <1>3, <1>4, <1>5, <1>6, KeptFailed, WithRows
<1> HIDE DEF d1, e, m
<1>9. AllBacked(<<d1, e>>)
  BY <1>2, <1>7, <1>8, LiveIsBacked, BackedCommits
<1>10. End(db, <<d1, e>>) = e /\ Len(<<d1, e>>) \in Nat \ {0}
  BY LastOfTwo
<1>11. db' = e => InPlay'
  BY <1>2, <1>8, QueuedInPlay, IdleInPlay, OutOfFlight
<1> QED BY <1>1, <1>4, <1>9, <1>10, <1>11, TurnInPlay

LEMMA ResumesInPlay ==
    ASSUME Sound, Sound', AsksKept, InPlay, NEW w \in Workers, resumes(w)
    PROVE  InPlay'
BY FinishesInPlay, AttemptFailsInPlay, GivesUpInPlay, WalksAwayInPlay DEF resumes

\* Leases, replays and the janitor.
LEMMA LapseInPlay ==
    ASSUME Sound, InPlay, NEW t \in Tasks, lease_lapses(t)
    PROVE  InPlay'
<1>1. /\ db' = [db EXCEPT !.rows[t].lease = "expired"]
      /\ proc' = proc /\ renounced' = renounced /\ used' = used /\ db \in Database
  BY DEF lease_lapses, Sound, TypeOK
<1>2. /\ db'.comment_ids = db.comment_ids /\ db'.comments = db.comments
      /\ db'.iterations = db.iterations /\ db'.status = db.status
      /\ \A u \in Tasks : db'.rows[u].state = db.rows[u].state
  BY <1>1 DEF Database, Table, Row
<1>3. Live(db'.rows) = Live(db.rows) /\ InState(db'.rows, "dlq") = InState(db.rows, "dlq")
  BY <1>2 DEF Live, InState
<1>4. pending_comment_ids(db') = pending_comment_ids(db)
  BY <1>2, SamePending
<1>5. UndrainedIn(db, proc) \subseteq UndrainedIn(db', proc')
  BY <1>1, <1>3 DEF UndrainedIn
<1> QED BY <1>1, <1>2, <1>3, <1>4, <1>5, StaysInPlay

LEMMA RequeueInPlay ==
    ASSUME Sound, Sound', NEW t \in Tasks, requeue_from_dlq_task(t)
    PROVE  InPlay'
<1> DEFINE R == enqueue(db.rows, t)
           d1 == with_rows(db, R)
           e == set_status(d1, "triggered")
           spent == [used EXCEPT !.replays = @ + 1]
<1>1. /\ renounced' = renounced /\ TurnSpending(<<d1, e>>, proc, spent)
  BY DEF requeue_from_dlq_task, requeue_from_dlq
<1>2. GoodTable(db.rows) /\ db.rows \in Table /\ db \in Database /\ used \in Spent
  BY DEF Sound, TypeOK, Coherent, GoodTable, Spent
<1>3. R \in Table /\ R[t].state = "queued"
  BY <1>2, EnqueueKeepsGood DEF GoodTable, enqueue, NoRow, Table
<1> HIDE DEF R
<1>4. d1.rows = R /\ e.rows = R
  <2>1. d1 \in Database /\ d1.rows = R
    BY <1>2, <1>3, WithRows
  <2> HIDE DEF d1
  <2> QED BY <2>1, SetStatus, OutOfFlight DEF SameWork
<1>5. spent \in Spent
  BY <1>2 DEF Spent
<1> HIDE DEF d1, e, spent
<1>6. AllBacked(<<d1, e>>)
  BY <1>3, <1>4, LiveIsBacked, BackedCommits
<1>7. End(db, <<d1, e>>) = e /\ Len(<<d1, e>>) \in Nat \ {0}
  BY LastOfTwo
<1>8. db' = e => InPlay'
  BY <1>3, <1>4, QueuedInPlay
<1> QED BY <1>1, <1>5, <1>6, <1>7, <1>8, TurnInPlay

LEMMA SweepInPlay ==
    ASSUME Sound, Sound', AsksKept, sweep
    PROVE  InPlay'
<1> DEFINE commits == sweep_commits(db)
           e == End(db, commits)
<1>1. /\ TurnSpending(commits, proc, used) /\ renounced' = renounced /\ Expired(db.rows) # {}
      /\ used \in Spent
  BY DEF sweep, Turn, Sound, TypeOK, Spent
<1>2. /\ Len(commits) \in Nat \ {0}
      /\ \/ e.status = "failed"
         \/ e.status = "triggered" /\ \E t \in Tasks : e.rows[t].state = "queued"
      /\ \A k \in 1 .. Len(commits) : Carriers(commits[k]) # {}
  BY <1>1, CaredSweep
<1> HIDE DEF commits
<1>3. AllBacked(commits)
  BY <1>2 DEF AllBacked, Backed
<1>4. db' = e => InPlay'
  <2> HIDE DEF e
  <2> QED BY <1>2, QueuedInPlay, IdleInPlay, OutOfFlight
<1> QED BY <1>1, <1>2, <1>3, <1>4, TurnInPlay

\* Runs that end well: they leave the thread out of flight, then drain.
LEMMA DrainInPlay ==
    ASSUME Sound, Sound', NEW its,
           NEW before \in Seq(Later(db, its)), AllBacked(before),
           NEW x \in Later(db, its), End(db, before) = x, x.status \notin InFlightStatuses,
           NEW after, Turn(then_drain(db, before), after), renounced' = renounced
    PROVE  InPlay'
<1> DEFINE drained == drain_pending_commits(x)
           commits == then_drain(db, before)
           e == End(x, drained)
<1>1. commits \in Seq(Later(db, its)) /\ End(db, commits) = e
  BY ThenDrain
<1>2. /\ drained \in Seq(Later(db, its)) /\ AllBacked(drained)
      /\ e = x \/ \E t \in Tasks : e.rows[t].state = "queued"
  BY CaredDrain, BackedDrain, DrainCommits
<1>3. commits = before \o drained
  BY DEF then_drain, End
<1> HIDE DEF drained
<1>4. AllBacked(commits)
  BY <1>2, <1>3, BackedConcat
<1>5. TurnSpending(commits, after, used) /\ used \in Spent
  BY DEF Turn, Sound, TypeOK, Spent
<1> HIDE DEF commits, e
<1>6. commits # <<>> => Len(commits) \in Nat \ {0}
  BY <1>1
<1>7. db' = e => InPlay'
  BY <1>2, QueuedInPlay, IdleInPlay
<1> QED BY <1>1, <1>4, <1>5, <1>6, <1>7, TurnInPlay

LEMMA RedeliveredInPlay ==
    ASSUME Sound, Sound', NEW w \in Workers, redelivered(w)
    PROVE  InPlay'
<1> DEFINE d == set_status(db, "preview_ready")
           repaired == repair_commits(db)
           x == End(db, repaired)
           after == [proc EXCEPT !.phase[w] = "ok"]
<1>1. Turn(then_drain(db, repaired), after) /\ renounced' = renounced
  BY DEF redelivered
<1>2. repaired = IF db.status \in InFlightStatuses THEN <<d>> ELSE <<>>
  BY DEF repair_commits
<1>3. /\ db \in Later(db, db.iterations) /\ db \in Database /\ "preview_ready" \in Statuses
  BY LaterSelf DEF Sound, TypeOK, Statuses
<1>4. d \in Later(db, db.iterations) /\ d.status = "preview_ready"
  BY <1>3, LaterStatus DEF set_status, Database
<1>5. "preview_ready" \notin InFlightStatuses
  BY OutOfFlight
<1> HIDE DEF d, repaired, after, x
<1>6. /\ repaired \in Seq(Later(db, db.iterations)) /\ AllBacked(repaired)
      /\ x = IF db.status \in InFlightStatuses THEN d ELSE db
  <2>1. CASE db.status \in InFlightStatuses
    <3>1. Backed(d, renounced)
      BY <1>4, <1>5 DEF Backed
    <3>2. AllBacked(<<d>>) /\ <<d>> \in Seq(Later(db, db.iterations)) /\ End(db, <<d>>) = d
      BY <1>4, <3>1, OneCommit, BackedCommits
    <3> QED BY <1>2, <2>1, <3>2 DEF x
  <2>2. CASE db.status \notin InFlightStatuses
    BY <1>2, <2>2, BackedCommits DEF End, x
  <2> QED BY <2>1, <2>2
<1>7. x \in Later(db, db.iterations) /\ x.status \notin InFlightStatuses
  BY <1>3, <1>4, <1>5, <1>6
<1>8. End(db, repaired) = x
  BY DEF x
<1> QED BY <1>1, <1>6, <1>7, <1>8, DrainInPlay

LEMMA LandsInPlay ==
    ASSUME Sound, Sound', NEW w \in Workers, lands(w)
    PROVE  InPlay'
<1> DEFINE t == proc.held[w]
           ids == proc.ids[w]
           its == LandedOf(w)
           landed == add_iteration_commits(db, proc.parent[w], ids)
           x == set_status(Last(landed), "preview_ready")
           recorded == Append(landed, x)
           after == [proc EXCEPT !.phase[w] = "ok"]
<1>1. /\ proc.phase[w] = "deploying" /\ Turn(then_drain(db, recorded), after)
      /\ renounced' = renounced
  BY DEF lands, records_commits
<1>2. proc.phase[w] \in Busy /\ proc.phase[w] \in AtWork /\ proc.phase[w] \in ActivePhases
  BY <1>1 DEF Busy, ActivePhases, AtWork
<1>3. Coherent(db) /\ proc.parent[w] \in Nat
  BY DEF Sound, TypeOK, Process
<1>4. /\ t \in Tasks /\ ids = db.comment_ids[t] /\ db.rows[t].state = "running"
      /\ ~already_applied(db, ids)
  BY <1>2 DEF Sound, Minds, Delivered
<1> HIDE DEF t
<1>5. ids # {} /\ ids \subseteq 1 .. Len(db.comments)
  BY <1>3, <1>4 DEF Coherent, Covering
<1> HIDE DEF ids
<1>6. /\ landed \in Seq(Later(db, its)) /\ landed # <<>>
      /\ Last(landed) \in Later(db, its)
  BY <1>3, <1>4, <1>5, LaterIteration DEF LandedOf, ids
<1>7. PICK d1, d2 : Recording(db, proc.parent[w], ids, d1, d2)
  BY <1>3, <1>4, <1>5, TwoStatements
<1>8. landed = <<d1, d2>> /\ d1.rows = db.rows /\ d2.rows = db.rows
  BY <1>7 DEF Recording, SameWork
<1> HIDE DEF its, landed
<1>9. x \in Later(db, its) /\ x.status = "preview_ready" /\ x.status \notin InFlightStatuses
  BY <1>6, LaterStatus, OutOfFlight DEF Statuses, set_status, Later, Database
<1> HIDE DEF x
<1>10. recorded = <<d1, d2>> \o <<x>>
  BY <1>8
<1>11. /\ recorded \in Seq(Later(db, its)) /\ End(db, recorded) = x
       /\ <<d1, d2>> \in Seq(Later(db, its)) /\ <<x>> \in Seq(Later(db, its))
  <2>1. recorded \in Seq(Later(db, its)) /\ recorded # <<>> /\ recorded[Len(recorded)] = x
    BY <1>6, <1>9
  <2> QED BY <1>6, <1>8, <1>9, <2>1, OneCommit DEF End, Last
<1> HIDE DEF recorded, after
<1>12. AllBacked(recorded)
  <2>1. Backed(d1, renounced) /\ Backed(d2, renounced)
    BY <1>4, <1>8, LiveIsBacked
  <2>2. Backed(x, renounced)
    BY <1>9 DEF Backed
  <2>3. AllBacked(<<d1, d2>>) /\ AllBacked(<<x>>)
    BY <2>1, <2>2, BackedCommits
  <2> QED BY <1>10, <1>11, <2>3, BackedConcat
<1> QED BY <1>1, <1>9, <1>11, <1>12, DrainInPlay

\* The user: a cancel takes the thread out of flight, or dies having renounced.
LEMMA CancelInPlay ==
    ASSUME Sound, cancel_run
    PROVE  InPlay'
<1> DEFINE t == active_for_thread(db)
           d1 == with_rows(db, cancel(db.rows, t))
           s == status_after_cancel(d1)
           d2 == set_status(d1, s)
           spent == [used EXCEPT !.cancels = @ + 1]
<1>1. t \in Tasks /\ db.rows[t].state \in {"queued", "running"}
  BY ActiveIsLive DEF cancel_run, Live, InState
<1>2. /\ TurnSpending(<<d1, d2>>, interrupted(t), spent)
      /\ renounced' = renounced \cup db.comment_ids[t]
  BY DEF cancel_run
<1>3. renounced' # {}
  BY <1>1, <1>2 DEF Sound, Coherent, Covering
<1>4. spent.crashes \in Nat
  BY DEF Sound, TypeOK
<1>5. d2.status = s /\ s \notin InFlightStatuses
  <2>1. s \notin InFlightStatuses
    BY OutOfFlight DEF status_after_cancel
  <2> HIDE DEF s
  <2> QED BY <2>1 DEF set_status, with_rows, Sound, TypeOK, Database
<1> HIDE DEF d1, d2, t
<1>6. db' = d2 \/ used' = [spent EXCEPT !.crashes = @ + 1]
  BY <1>2, LastOfTwo DEF TurnSpending, End
<1>7. CASE db' = d2
  BY <1>5, <1>7, IdleInPlay
<1>8. CASE used' = [spent EXCEPT !.crashes = @ + 1]
  <2>1. used'.crashes > 0
    BY <1>4, <1>8
  <2> QED BY <1>3, <2>1 DEF InPlay, Excused
<1> QED BY <1>6, <1>7, <1>8

\* A comment whose task waits in the queue, by commits that keep it waiting.
LEMMA QueuesInPlay ==
    ASSUME Sound, Sound', NEW d \in Later(db, db.iterations), pending_comment_ids(d) # {},
           NEW more \in Seq(Later(db, db.iterations)), AllBacked(more),
           NEW t \in Tasks, End(d, more).rows[t].state = "queued",
           NEW after, Turn(<<d>> \o more, after), renounced' = renounced
    PROVE  InPlay'
<1> DEFINE commits == <<d>> \o more
<1>1. commits \in Seq(Later(db, db.iterations)) /\ End(db, commits) = End(d, more)
  BY FirstCommit
<1>2. AllBacked(commits)
  <2>1. AllBacked(<<d>>) /\ <<d>> \in Seq(Later(db, db.iterations))
    BY OneCommit, BackedCommits DEF Backed
  <2> QED BY <2>1, BackedConcat
<1>3. TurnSpending(commits, after, used) /\ used \in Spent
  BY DEF Turn, Sound, TypeOK, Spent
<1> HIDE DEF commits
<1>4. commits # <<>> => Len(commits) \in Nat \ {0}
  BY <1>1
<1>5. db' = End(d, more) => InPlay'
  BY QueuedInPlay
<1> QED BY <1>1, <1>2, <1>3, <1>4, <1>5, TurnInPlay

LEMMA CommentInPlay ==
    ASSUME Sound, Sound', AsksKept, InPlay, post_comment
    PROVE  InPlay'
<1> DEFINE append(agent, sha) == append_comment(db, agent, sha)
           tasks(d) == Interrupts(d, Len(d.comments))
           more(d) == on_comment_commits(d, Len(d.comments))
           memory(d) == IF tasks(d) = {} THEN proc ELSE interrupted(CHOOSE t \in tasks(d) : TRUE)
<1>1. PICK agent \in BOOLEAN, sha \in Int :
            Turn(<<append(agent, sha)>> \o more(append(agent, sha)), memory(append(agent, sha)))
  BY DEF post_comment
<1>2. Len(db.comments) < MaxComments /\ renounced' = renounced
  BY DEF post_comment
<1> DEFINE d == append(agent, sha)
           c == Len(d.comments)
<1>3. Grown(d, c)
  BY <1>2, CommentGrows
<1>4. Turn(<<d>> \o more(d), memory(d))
  BY <1>1
<1> HIDE DEF append, d
<1>5. /\ d \in Later(db, db.iterations) /\ Coherent(d) /\ c \in Nat \ {0} /\ c > 0
      /\ d.rows = db.rows /\ d.comment_ids = db.comment_ids
      /\ Len(d.comments) = Len(db.comments) + 1
      /\ c \notin covered_comment_ids(d) /\ c \notin addressed(d)
  BY <1>3 DEF Grown, Later
<1>6. c \in asks(d) => c \in pending_comment_ids(d)
  BY <1>5 DEF pending_comment_ids
<1>7. CASE tasks(d) # {}
  <2>1. PICK t \in Interrupts(d, c) : TRUE
    BY <1>7
  <2> DEFINE d1 == with_rows(d, cancel(d.rows, t))
             ids == d.comment_ids[t] \cup {c}
             e == End(d, more(d))
  <2>2. /\ t \in Tasks /\ more(d) \in Seq(Later(db, db.iterations))
        /\ d1 \in Later(db, db.iterations)
        /\ Submittable(d1, ids) /\ e = Submitted(d1, ids)
    BY <1>5, <2>1, InterruptCommits
  <2>3. /\ c \in asks(d) /\ t = active_for_thread(d) /\ d.rows[t].state = "running"
        /\ d.status \in InterruptibleStatuses
    BY <2>1 DEF Interrupts
  <2>4. more(d) = <<d1>> \o submit_commits(d1, ids)
    <3>1. t # NoTask /\ d.status \in InFlightStatuses
      BY <2>2, <2>3, NoTaskAssumption DEF InterruptibleStatuses, InFlightStatuses
    <3> QED BY <2>3, <3>1 DEF on_comment_commits
  <2>5. pending_comment_ids(d1) = pending_comment_ids(d)
    <3>1. /\ d1.comment_ids = d.comment_ids /\ d1.comments = d.comments
          /\ d1.iterations = d.iterations
      BY <1>5 DEF with_rows, Coherent, Database
    <3> HIDE DEF d1
    <3> QED BY <3>1, SamePending
  <2>6. Clean(db, ids)
    BY <1>5, <2>2, <2>3 DEF Clean, Cancelled, covered_comment_ids
  <2>7. PICK u \in Tasks : Added(d1, u, ids, e)
    BY <2>2, SubmittedTask DEF Later
  <2> HIDE DEF d1, ids, e, c
  <2>8. AllBacked(<<d1>>) /\ AllBacked(submit_commits(d1, ids))
    <3>1. pending_comment_ids(d1) # {}
      BY <1>6, <2>3, <2>5
    <3>2. Backed(d1, renounced)
      BY <3>1 DEF Backed
    <3> QED BY <2>2, <2>6, <3>1, <3>2, BackedSubmit, BackedCommits
  <2>9. AllBacked(more(d))
    <3>1. <<d1>> \in Seq(Later(db, db.iterations)) /\ submit_commits(d1, ids) \in Seq(Later(db, db.iterations))
      BY <2>2, <2>6, OneCommit, SubmitCommits
    <3> QED BY <2>4, <2>8, <3>1, BackedConcat
  <2>10. End(d, more(d)).rows[u].state = "queued"
    BY <2>7 DEF Added, e
  <2> HIDE DEF more, memory
  <2> QED BY <1>2, <1>4, <1>5, <1>6, <2>2, <2>3, <2>9, <2>10, QueuesInPlay
<1>8. CASE tasks(d) = {}
  <2>1. Turn(<<d>> \o on_comment_commits(d, c), proc) /\ Interrupts(d, c) = {}
    BY <1>4, <1>8
  <2>2. Len(d.comments) = c
    OBVIOUS
  <2> HIDE DEF c, more, memory, tasks
  <2>3. CASE on_comment_commits(d, c) = <<>>
    <3>1. <<d>> \o <<>> = <<d>>
      OBVIOUS
    <3>2. Turn(<<d>>, proc)
      BY <2>1, <2>3, <3>1
    <3>3. db' = d /\ proc' = proc /\ used' = used
      BY <3>2, AtOnce
    <3>4. /\ d.status = db.status /\ UndrainedIn(d, proc) = UndrainedIn(db, proc)
          /\ InState(d.rows, "dlq") = InState(db.rows, "dlq")
          /\ pending_comment_ids(db) \subseteq pending_comment_ids(d)
      BY <1>3 DEF Grown, UndrainedIn, pending_comment_ids, covered_comment_ids
    <3> QED BY <1>2, <3>3, <3>4, StaysInPlay
  <2>4. CASE c \in asks(d) /\ on_comment_commits(d, c) = submit_commits(d, {c})
    <3>1. Submittable(d, {c}) /\ Clean(db, {c})
      BY <1>3, <1>5, <2>2, KeyOfOne DEF Submittable, Clean, covered_comment_ids, Grown
    <3>2. PICK t \in Tasks : Added(d, t, {c}, Submitted(d, {c}))
      BY <1>5, <3>1, SubmittedTask
    <3>3. /\ submit_commits(d, {c}) \in Seq(Later(db, db.iterations))
          /\ End(d, submit_commits(d, {c})) = Submitted(d, {c})
      BY <1>5, <3>1, SubmitCommits DEF End
    <3>4. AllBacked(submit_commits(d, {c}))
      BY <1>5, <1>6, <2>4, <3>1, BackedSubmit
    <3>5. End(d, submit_commits(d, {c})).rows[t].state = "queued"
      BY <3>2, <3>3 DEF Added
    <3> QED BY <1>2, <1>5, <1>6, <2>1, <2>4, <3>3, <3>4, <3>5, QueuesInPlay
  <2>5. CASE /\ c \in asks(d) /\ active_for_thread(d) # NoTask
             /\ d.rows[active_for_thread(d)].state = "queued"
             /\ on_comment_commits(d, c) = <<coalesce_comment(d, active_for_thread(d), c)>>
    <3> DEFINE t == active_for_thread(d)
               e == coalesce_comment(d, t, c)
    <3>1. t \in Tasks
      BY <2>5, ActiveIsLive
    <3>2. e \in Later(db, db.iterations) /\ e.rows = d.rows
      BY <1>5, <2>2, <2>5, <3>1, LaterCoalesced, Coalesced
    <3>3. Turn(<<d>> \o <<e>>, proc) /\ d.rows[t].state = "queued"
      BY <2>1, <2>5
    <3> HIDE DEF e, t
    <3>4. AllBacked(<<e>>) /\ <<e>> \in Seq(Later(db, db.iterations)) /\ End(d, <<e>>) = e
      BY <3>1, <3>2, <3>3, LiveIsBacked, BackedCommits DEF End, Last
    <3> QED BY <1>2, <1>5, <1>6, <2>5, <3>1, <3>2, <3>3, <3>4, QueuesInPlay
  <2>6. \/ on_comment_commits(d, c) = <<>>
        \/ c \in asks(d)
    BY DEF on_comment_commits
  <2> QED BY <2>1, <2>3, <2>4, <2>5, <2>6, CommentOutcomes
<1> QED BY <1>7, <1>8

LEMMA InPlayStep ==
    ASSUME Sound, Sound', AsksKept, InPlay, [Next]_vars
    PROVE  InPlay'
<1>1. CASE UNCHANGED vars
  <2>1. db' = db /\ proc' = proc /\ renounced' = renounced /\ used' = used
    BY <1>1 DEF vars
  <2> QED BY <2>1 DEF InPlay
<1>2. CASE boot \/ crash \/ post_comment \/ cancel_run \/ sweep
  BY <1>2, BootInPlay, CrashInPlay, CommentInPlay, CancelInPlay, SweepInPlay
<1>3. CASE \E sha \in DOMAIN db.iterations : approve(sha)
  BY <1>3, ApproveInPlay
<1>4. CASE \E t \in Tasks : requeue_from_dlq_task(t) \/ lease_lapses(t)
  BY <1>4, RequeueInPlay, LapseInPlay
<1>5. ASSUME NEW w \in Workers,
             \/ \E t \in Tasks : claim(w, t)
             \/ begins(w) \/ redelivered(w) \/ progresses(w) \/ raises(w) \/ lands(w)
             \/ deadline(w) \/ resumes(w)
      PROVE  InPlay'
  BY <1>5, ClaimInPlay, BeginsInPlay, RedeliveredInPlay, ProgressesInPlay, RaisesInPlay,
     LandsInPlay, DeadlineInPlay, ResumesInPlay
<1>6. CASE \E f \in Flows : flow_step(f)
  BY <1>6, FlowInPlay
<1> QED BY <1>1, <1>2, <1>3, <1>4, <1>5, <1>6 DEF Next

\* A thread never says that an agent is at work when no task has its handler
\* still to run, wherever the process died: but for the two torn turns the
\* property names, and as long as runs that fail meet their worker before the
\* user does.
THEOREM NoPhantomRuns == ASSUME QuietFailures PROVE Spec => []NoPhantomRun
<1>1. Init => InPlay
  BY OutOfFlight DEF Init, InPlay, Playing, NewThread
<1>2. Sound /\ AsksKept /\ InPlay /\ [Next]_vars /\ Sound' => InPlay'
  BY InPlayStep
<1>3. InPlay => NoPhantomRun
  <2>1. UndrainedIn(db, proc) \subseteq Undrained
    BY DEF UndrainedIn, Undrained, EngagedOn
  <2> QED BY <2>1 DEF InPlay, Playing, Excused, NoPhantomRun
<1>4. Spec => [](Sound /\ AsksKept)
  BY StaysKept
<1> QED BY <1>1, <1>2, <1>3, <1>4, PTL DEF Spec
=============================================================================
