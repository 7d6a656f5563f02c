------------------------- MODULE CommentServiceProofs -------------------------
(***************************************************************************)
(* Proofs about CommentService, for any site: any users, limits and        *)
(* windows, any number of threads, iterations, shas and crashes.           *)
(*                                                                         *)
(*   The limiter   the site refines it, so its theorems hold of the site.  *)
(*   Migrations    BootInv: the database is always at a position of the    *)
(*                 scripts, and a process is where that position lets it.  *)
(*   The store     SiteInv: the rows are sound, the recursion that defines *)
(*                 ancestry has one answer, and what nobody can reach is   *)
(*                 owed to a crash each.                                   *)
(***************************************************************************)
EXTENDS CommentService, RateLimiterProofs, FiniteSetTheorems, SequenceTheorems

-----------------------------------------------------------------------------
(* The limiter. *)

\* A step of the site is a step of the limiter, or leaves it alone.
LEMMA SiteStepIsLimiterStep == [Next]_vars => [LimiterNext]_limiter_vars
<1> SUFFICES ASSUME [Next]_vars PROVE [LimiterNext]_limiter_vars
  OBVIOUS
<1> USE DEF limiter_vars
<1>1. CASE start_up
  BY <1>1 DEF start_up
<1>2. CASE crash
  BY <1>2 DEF crash, memory_lost, LimiterNext
<1>3. CASE time_passes
  BY <1>3 DEF time_passes, LimiterNext
<1>4. ASSUME NEW u \in Users, post_comment(u) PROVE [LimiterNext]_limiter_vars
  <2>1. rejects(u) \/ allows(u) \/ forgotten
    BY <1>4 DEF post_comment, turned_away, Torn, memory_lost
  <2> QED BY <2>1 DEF LimiterNext
<1>5. ASSUME NEW t \in Threads, begins(t) \/ ends(t) \/ moves_on(t)
      PROVE  [LimiterNext]_limiter_vars
  BY <1>5 DEF begins, ends, moves_on, Undisturbed
<1>6. ASSUME NEW t \in Threads, lands(t) PROVE [LimiterNext]_limiter_vars
  <2>1. UNCHANGED <<now, events, admitted>> \/ forgotten
    BY <1>6 DEF lands, Torn, memory_lost
  <2> QED BY <2>1 DEF LimiterNext
<1>7. CASE UNCHANGED vars
  BY <1>7 DEF vars
<1> QED BY <1>1, <1>2, <1>3, <1>4, <1>5, <1>6, <1>7 DEF Next

\* Over crashes, torn turns and new processes, the site's comments go through
\* the limiter and only through it.
LEMMA SiteKeepsLimiter == Spec => LimiterSpec
<1>1. Init => LimiterInit
  BY DEF Init
<1> QED BY <1>1, SiteStepIsLimiterStep, PTL DEF Spec, LimiterSpec

\* No window holds more of a user's comments than max_events.
THEOREM SiteWindowNeverOverfull == Spec => []WindowHolds
BY SiteKeepsLimiter, WindowNeverOverfull, PTL

\* Nobody is refused who posted less.
THEOREM SiteRefusesNobodyEarly == Spec => []RefusalsAreEarned
BY SiteKeepsLimiter, NobodyIsRefusedEarly, PTL

-----------------------------------------------------------------------------
(* Migrations: the scripts, opened. *)

Tables1 == {"meta", "users", "threads", "thread_status_history", "idx_history_thread",
            "comments", "idx_comments_thread", "iterations", "idx_iterations_thread",
            "preview_patches"}

Tables3 == Tables1 \cup {"agent_tasks", "idx_tasks_state", "idx_tasks_thread"}

\* How many statements a script has.
Size == <<10, 1, 3, 5>>

LEMMA Numbers == /\ 1 .. 0 = {} /\ 1 .. 1 = {1} /\ 1 .. 2 = {1, 2} /\ 1 .. 3 = {1, 2, 3}
                 /\ 1 .. 4 = {1, 2, 3, 4} /\ 1 .. 5 = {1, 2, 3, 4, 5}
                 /\ 1 .. 10 = {1, 2, 3, 4, 5, 6, 7, 8, 9, 10}
OBVIOUS

\* The four scripts, their lengths and the note that ends each.
LEMMA ScriptShape ==
    /\ Versions = 1 .. 4
    /\ Scripts[1] = init_script /\ Scripts[2] = seed_users
    /\ Scripts[3] = task_queue /\ Scripts[4] = approver_role
    /\ \A v \in Versions : /\ Size[v] \in Nat \ {0}
                           /\ Len(Scripts[v]) = Size[v]
                           /\ Len(applied(v)) = Size[v] + 1
                           /\ applied(v)[Size[v] + 1] = note(v)
                           /\ \A i \in 1 .. Size[v] : applied(v)[i] = Scripts[v][i]
                           /\ DOMAIN Scripts[v] = 1 .. Size[v]
<1>1. Versions = 1 .. 4
  BY DEF Versions, Scripts
<1>2. /\ Scripts[1] = init_script /\ Scripts[2] = seed_users
      /\ Scripts[3] = task_queue /\ Scripts[4] = approver_role
  BY DEF Scripts
<1>3. Len(init_script) = 10 /\ Len(seed_users) = 1 /\ Len(task_queue) = 3
      /\ Len(approver_role) = 5
  BY DEF init_script, seed_users, task_queue, approver_role
<1>4. ASSUME NEW v \in Versions
      PROVE  /\ Size[v] \in Nat \ {0} /\ Len(Scripts[v]) = Size[v]
             /\ Scripts[v] = [i \in 1 .. Size[v] |-> Scripts[v][i]]
  <2>1. CASE v = 1
    BY <2>1, <1>2, <1>3 DEF Size, init_script
  <2>2. CASE v = 2
    BY <2>2, <1>2, <1>3 DEF Size, seed_users
  <2>3. CASE v = 3
    BY <2>3, <1>2, <1>3 DEF Size, task_queue
  <2>4. CASE v = 4
    BY <2>4, <1>2, <1>3 DEF Size, approver_role
  <2> QED BY <1>1, <2>1, <2>2, <2>3, <2>4
<1>5. ASSUME NEW v \in Versions
      PROVE  /\ Len(applied(v)) = Size[v] + 1
             /\ applied(v)[Size[v] + 1] = note(v)
             /\ \A i \in 1 .. Size[v] : applied(v)[i] = Scripts[v][i]
  <2> DEFINE T == {Scripts[v][i] : i \in 1 .. Size[v]} \cup {note(v)}
  <2>1. Scripts[v] \in [1 .. Size[v] -> T]
    BY <1>4
  <2>2. Scripts[v] \in Seq(T) /\ note(v) \in T
    BY <2>1, <1>4, SeqDef
  <2> HIDE DEF T
  <2>3. /\ Len(applied(v)) = Len(Scripts[v]) + 1
        /\ \A i \in 1 .. Len(Scripts[v]) : applied(v)[i] = Scripts[v][i]
        /\ applied(v)[Len(Scripts[v]) + 1] = note(v)
    BY <2>2, AppendProperties DEF applied
  <2> QED BY <2>3, <1>4
<1> QED BY <1>1, <1>2, <1>4, <1>5

\* What the statements of the scripts create.
LEMMA Creations ==
    /\ created(1) = Tables1 /\ created(2) = {} /\ created(4) = {"users_new"}
    /\ created(3) = {"agent_tasks", "idx_tasks_state", "idx_tasks_thread"}
<1>1. ASSUME NEW v \in Versions
      PROVE  \A o : o \in created(v) <=>
                \E i \in 1 .. Size[v] : Scripts[v][i].does = "create" /\ o = Scripts[v][i].object
  <2> DEFINE S == {Scripts[v][x] : x \in 1 .. Size[v]}
             C == {st \in S : st.does = "create"}
  <2>1. created(v) = {step.object : step \in C}
    BY ScriptShape DEF created, Range
  <2>2. \A st : st \in C <=>
            \E i \in 1 .. Size[v] : st = Scripts[v][i] /\ Scripts[v][i].does = "create"
    OBVIOUS
  <2>3. \A o : o \in {step.object : step \in C} <=> \E st \in C : o = st.object
    OBVIOUS
  <2>4. \A o : o \in created(v) <=> \E st \in C : o = st.object
    BY <2>1, <2>3
  <2> HIDE DEF C
  <2> QED BY <2>4, <2>2
<1>a. 1 \in Versions /\ 2 \in Versions /\ 3 \in Versions /\ 4 \in Versions
  BY ScriptShape, Numbers
<1>2. created(1) = Tables1
  <2>1. \A o : o \in created(1) <=>
            \E i \in {1, 2, 3, 4, 5, 6, 7, 8, 9, 10} :
                Scripts[1][i].does = "create" /\ o = Scripts[1][i].object
    <3>1. Size[1] = 10
      BY DEF Size
    <3>2. 1 .. Size[1] = {1, 2, 3, 4, 5, 6, 7, 8, 9, 10}
      BY <3>1, Numbers
    <3> QED BY <1>1, <1>a, <3>2
  <2>2. /\ Scripts[1][1] = create("meta") /\ Scripts[1][2] = create("users")
        /\ Scripts[1][3] = create("threads")
        /\ Scripts[1][4] = create("thread_status_history")
        /\ Scripts[1][5] = create("idx_history_thread") /\ Scripts[1][6] = create("comments")
        /\ Scripts[1][7] = create("idx_comments_thread") /\ Scripts[1][8] = create("iterations")
        /\ Scripts[1][9] = create("idx_iterations_thread")
        /\ Scripts[1][10] = create("preview_patches")
    BY ScriptShape DEF init_script
  <2>3. \A o : create(o).does = "create" /\ create(o).object = o
    BY DEF create
  <2> QED BY <2>1, <2>2, <2>3 DEF Tables1
<1>3. created(2) = {}
  <2>1. Scripts[2][1].does # "create" /\ 1 .. Size[2] = {1}
    BY ScriptShape, Numbers DEF seed_users, seed, Size
  <2> QED BY <1>1, <1>a, <2>1
<1>4. created(3) = {"agent_tasks", "idx_tasks_state", "idx_tasks_thread"}
  <2>1. /\ Scripts[3][1] = create("agent_tasks") /\ Scripts[3][2] = create("idx_tasks_state")
        /\ Scripts[3][3] = create("idx_tasks_thread") /\ 1 .. Size[3] = {1, 2, 3}
    BY ScriptShape, Numbers DEF task_queue, Size
  <2> QED BY <1>1, <1>a, <2>1 DEF create
<1>5. created(4) = {"users_new"}
  <2>1. /\ \A i \in {2, 3, 4, 5} : Scripts[4][i].does # "create"
        /\ 1 .. Size[4] = {1, 2, 3, 4, 5}
    BY ScriptShape, Numbers DEF approver_role, copy, drop, rename, promote, Size
  <2>2. Scripts[4][1] = create("users_new")
    BY ScriptShape DEF approver_role
  <2> QED BY <1>1, <1>a, <2>1, <2>2 DEF create
<1> QED BY <1>2, <1>3, <1>4, <1>5

\* What a database of each release holds.
LEMMA Releases ==
    /\ Release(0).objects = {}
    /\ Release(1).objects = Tables1 /\ Release(2).objects = Tables1
    /\ Release(3).objects = Tables3 /\ Release(4).objects = Tables3
<1> DEFINE U(k) == UNION {created(v) : v \in 1 .. k}
<1>1. \A k : Release(k).objects = U(k) \ {"users_new"}
  BY DEF Release
<1>2. U(0) = {} /\ U(1) = created(1) /\ U(2) = created(1) \cup created(2)
      /\ U(3) = created(1) \cup created(2) \cup created(3)
      /\ U(4) = created(1) \cup created(2) \cup created(3) \cup created(4)
  BY Numbers
<1> HIDE DEF U
<1> QED BY <1>1, <1>2, Creations DEF Tables1, Tables3

\* Every statement is of one of these kinds.
LEMMA StepKinds ==
    /\ \A o : create(o).does = "create" /\ create(o).object = o
    /\ \A v : note(v).does = "note" /\ note(v).version = v
    /\ seed.does = "seed" /\ copy.does = "copy" /\ drop.does = "drop"
    /\ rename.does = "rename" /\ promote.does = "promote"
BY DEF create, note, seed, copy, drop, rename, promote

(* What each kind of step needs of a database and makes of it. *)

Holding(o, u, n, v, m) ==
    [objects |-> o, users |-> u, users_new |-> n, versions |-> v, main_sha |-> m]

LEMMA HoldingParts ==
    ASSUME NEW o, NEW u, NEW n, NEW v, NEW m
    PROVE  /\ Holding(o, u, n, v, m).objects = o /\ Holding(o, u, n, v, m).users = u
           /\ Holding(o, u, n, v, m).users_new = n /\ Holding(o, u, n, v, m).versions = v
           /\ Holding(o, u, n, v, m).main_sha = m
           /\ ids(Holding(o, u, n, v, m)) = DOMAIN u \cup DOMAIN n
BY DEF Holding, ids

LEMMA CreateMeans ==
    ASSUME NEW o, NEW u, NEW n, NEW v, NEW m, NEW x
    PROVE  /\ succeeds(Holding(o, u, n, v, m), create(x)) <=> x \notin o
           /\ result(Holding(o, u, n, v, m), create(x)) = Holding(o \cup {x}, u, n, v, m)
BY StepKinds DEF succeeds, result, Holding

LEMMA NoteMeans ==
    ASSUME NEW o, NEW u, NEW n, NEW v, NEW m, NEW x
    PROVE  /\ succeeds(Holding(o, u, n, v, m), note(x)) <=> x \notin v
           /\ result(Holding(o, u, n, v, m), note(x)) = Holding(o, u, n, v \cup {x}, m)
BY StepKinds DEF succeeds, result, Holding

LEMMA SeedMeans ==
    ASSUME NEW o, NEW u, NEW n, NEW v, NEW m
    PROVE  /\ succeeds(Holding(o, u, n, v, m), seed) <=> "users" \in o /\ DOMAIN u \cap DOMAIN Seeds = {}
           /\ result(Holding(o, u, n, v, m), seed) = Holding(o, Seeds, n, v, m)
BY StepKinds DEF succeeds, result, Holding

LEMMA CopyMeans ==
    ASSUME NEW o, NEW u, NEW n, NEW v, NEW m
    PROVE  /\ succeeds(Holding(o, u, n, v, m), copy) <=> /\ {"users", "users_new"} \subseteq o
                                                       /\ DOMAIN u \cap DOMAIN n = {}
           /\ result(Holding(o, u, n, v, m), copy) = Holding(o, u, u, v, m)
BY StepKinds DEF succeeds, result, Holding

LEMMA DropMeans ==
    ASSUME NEW o, NEW u, NEW n, NEW v, NEW m
    PROVE  /\ succeeds(Holding(o, u, n, v, m), drop) <=> "users" \in o
           /\ result(Holding(o, u, n, v, m), drop) = Holding(o \ {"users"}, Nobody, n, v, m)
BY StepKinds DEF succeeds, result, Holding

LEMMA RenameMeans ==
    ASSUME NEW o, NEW u, NEW n, NEW v, NEW m
    PROVE  /\ succeeds(Holding(o, u, n, v, m), rename) <=> "users_new" \in o /\ "users" \notin o
           /\ result(Holding(o, u, n, v, m), rename) = 
                Holding((o \ {"users_new"}) \cup {"users"}, n, Nobody, v, m)
BY StepKinds DEF succeeds, result, Holding

LEMMA PromoteMeans ==
    ASSUME NEW o, NEW u, NEW n, NEW v, NEW m
    PROVE  /\ succeeds(Holding(o, u, n, v, m), promote) <=> "users" \in o
           /\ result(Holding(o, u, n, v, m), promote) = 
                Holding(o, [id \in DOMAIN u |-> IF id = "evan" THEN "approve" ELSE u[id]], n, v, m)
BY StepKinds DEF succeeds, result, Holding

-----------------------------------------------------------------------------
(* What the database holds when i statements of script v are made, and all *)
(* of the scripts before it; v = 5 when all are.                           *)

ObjectsAt(v, i) ==
    CASE v \in {1, 3} -> Release(v - 1).objects \cup {Scripts[v][j].object : j \in 1 .. i}
      [] v = 2        -> Tables1
      [] v = 4        -> IF i \in {1, 2} THEN Tables3 \cup {"users_new"}
                         ELSE IF i = 3 THEN (Tables3 \cup {"users_new"}) \ {"users"}
                         ELSE Tables3
      [] v = 5        -> Tables3

UsersAt(v, i, u) ==
    IF v = 1 \/ (v = 2 /\ i = 0) \/ (v = 4 /\ i = 3) THEN Nobody
    ELSE IF v = 5 \/ (v = 4 /\ i = 5) THEN Promoted ELSE u

NewUsersAt(v, i, u) == IF v = 4 /\ i \in {2, 3} THEN u ELSE Nobody

\* u: the users where they are there, before or after the promotion; a script
\* that is run again promotes them before it copies them.
Database(v, i, u, m) ==
    Holding(ObjectsAt(v, i), UsersAt(v, i, u), NewUsersAt(v, i, u), 1 .. v - 1, m)

People == {Seeds, Promoted}

LEMMA FirstScript ==
    /\ Scripts[1][1] = create("meta") /\ Scripts[1][2] = create("users")
    /\ Scripts[1][3] = create("threads")
    /\ Scripts[1][4] = create("thread_status_history")
    /\ Scripts[1][5] = create("idx_history_thread") /\ Scripts[1][6] = create("comments")
    /\ Scripts[1][7] = create("idx_comments_thread") /\ Scripts[1][8] = create("iterations")
    /\ Scripts[1][9] = create("idx_iterations_thread")
    /\ Scripts[1][10] = create("preview_patches")
BY ScriptShape DEF init_script

LEMMA ThirdScript ==
    /\ Scripts[3][1] = create("agent_tasks") /\ Scripts[3][2] = create("idx_tasks_state")
    /\ Scripts[3][3] = create("idx_tasks_thread")
BY ScriptShape DEF task_queue

LEMMA OtherScripts ==
    /\ Scripts[2][1] = seed
    /\ Scripts[4][1] = create("users_new") /\ Scripts[4][2] = copy /\ Scripts[4][3] = drop
    /\ Scripts[4][4] = rename /\ Scripts[4][5] = promote
BY ScriptShape DEF seed_users, approver_role

LEMMA Sizes == Size[1] = 10 /\ Size[2] = 1 /\ Size[3] = 3 /\ Size[4] = 5
BY DEF Size

\* Every table and index is created once.
LEMMA CreatedOnce ==
    /\ \A i \in 1 .. 10 : \A j \in 1 .. i - 1 : Scripts[1][j].object # Scripts[1][i].object
    /\ \A i \in 1 .. 3 : \A j \in 1 .. i - 1 : Scripts[3][j].object # Scripts[3][i].object
    /\ \A i \in 1 .. 3 : Scripts[3][i].object \notin Tables1
<1>1. \A i \in 1 .. 10 : \A j \in 1 .. i - 1 : Scripts[1][j].object # Scripts[1][i].object
  <2> DEFINE N(i) == Scripts[1][i].object
  <2>1. /\ N(1) = "meta" /\ N(2) = "users" /\ N(3) = "threads" /\ N(4) = "thread_status_history"
        /\ N(5) = "idx_history_thread" /\ N(6) = "comments" /\ N(7) = "idx_comments_thread"
        /\ N(8) = "iterations" /\ N(9) = "idx_iterations_thread" /\ N(10) = "preview_patches"
    BY FirstScript, StepKinds
  <2> HIDE DEF N
  <2>2. \A i \in {1, 2, 3, 4, 5, 6, 7, 8, 9, 10} : \A j \in {1, 2, 3, 4, 5, 6, 7, 8, 9, 10} :
            j < i => N(j) # N(i)
    BY <2>1
  <2>3. \A i \in 1 .. 10 : \A j \in 1 .. i - 1 : N(j) # N(i)
    <3> TAKE i \in 1 .. 10
    <3> TAKE j \in 1 .. i - 1
    <3>1. j \in 1 .. 10 /\ j < i
      OBVIOUS
    <3> QED BY <3>1, <2>2, Numbers
  <2> QED BY <2>3 DEF N
<1>2. /\ Scripts[3][1].object = "agent_tasks" /\ Scripts[3][2].object = "idx_tasks_state"
      /\ Scripts[3][3].object = "idx_tasks_thread"
  BY ThirdScript, StepKinds
<1>3. \A i \in 1 .. 3 : Scripts[3][i].object \notin Tables1
  BY <1>2, Numbers DEF Tables1
<1>4. \A i \in 1 .. 3 : \A j \in 1 .. i - 1 : Scripts[3][j].object # Scripts[3][i].object
  BY <1>2
<1> QED BY <1>1, <1>3, <1>4

LEMMA Creates ==
    ASSUME NEW v \in {1, 3}, NEW i \in 0 .. Size[v] - 1
    PROVE  \E o : /\ applied(v)[i + 1] = create(o)
                  /\ o \notin ObjectsAt(v, i)
                  /\ ObjectsAt(v, i + 1) = ObjectsAt(v, i) \cup {o}
<1> DEFINE o == Scripts[v][i + 1].object
<1>1. i + 1 \in 1 .. Size[v] /\ Size[v] \in {3, 10}
  BY Sizes
<1>2. applied(v)[i + 1] = Scripts[v][i + 1]
  <2>1. v \in Versions
    BY ScriptShape
  <2> QED BY <1>1, <2>1, ScriptShape
<1>3. Scripts[v][i + 1] = create(o)
  <2>1. CASE v = 1
    BY <2>1, <1>1, FirstScript, StepKinds, Sizes
  <2>2. CASE v = 3
    BY <2>2, <1>1, ThirdScript, StepKinds, Sizes
  <2> QED BY <2>1, <2>2
<1> DEFINE M(k) == {Scripts[v][j].object : j \in 1 .. k}
<1>4. \A k : ObjectsAt(v, k) = Release(v - 1).objects \cup M(k)
  BY DEF ObjectsAt
<1>5. M(i + 1) = M(i) \cup {o}
  <2>1. 1 .. i + 1 = (1 .. i) \cup {i + 1}
    BY <1>1
  <2> QED BY <2>1
<1>6. o \notin M(i)
  <2>1. \A j \in 1 .. i : Scripts[v][j].object # Scripts[v][i + 1].object
    BY CreatedOnce, Sizes, <1>1
  <2> QED BY <2>1
<1>7. o \notin Release(v - 1).objects
  <2>1. CASE v = 1
    BY <2>1, Releases
  <2>2. CASE v = 3
    BY <2>2, Releases, CreatedOnce, <1>1, Sizes
  <2> QED BY <2>1, <2>2
<1> HIDE DEF M, o
<1> QED BY <1>2, <1>3, <1>4, <1>5, <1>6, <1>7

LEMMA Boundaries ==
    /\ ObjectsAt(1, 0) = {} /\ ObjectsAt(1, 10) = Tables1
    /\ \A i : ObjectsAt(2, i) = Tables1
    /\ ObjectsAt(3, 0) = Tables1 /\ ObjectsAt(3, 3) = Tables3
    /\ ObjectsAt(4, 0) = Tables3 /\ ObjectsAt(4, 4) = Tables3 /\ ObjectsAt(4, 5) = Tables3
    /\ \A i \in {1, 2} : ObjectsAt(4, i) = Tables3 \cup {"users_new"}
    /\ ObjectsAt(4, 3) = (Tables3 \cup {"users_new"}) \ {"users"}
    /\ \A i : ObjectsAt(5, i) = Tables3
<1> DEFINE M(v, k) == {Scripts[v][j].object : j \in 1 .. k}
<1>1. /\ \A k : ObjectsAt(1, k) = Release(0).objects \cup M(1, k)
      /\ \A k : ObjectsAt(3, k) = Release(2).objects \cup M(3, k)
  BY DEF ObjectsAt
<1>2. M(1, 0) = {} /\ M(3, 0) = {}
  OBVIOUS
<1>3. M(1, 10) = Tables1
  <2>1. \A o : o \in M(1, 10) <=>
            \E j \in {1, 2, 3, 4, 5, 6, 7, 8, 9, 10} : o = Scripts[1][j].object
    BY Numbers
  <2> HIDE DEF M
  <2> QED BY <2>1, FirstScript, StepKinds DEF Tables1
<1>4. M(3, 3) = {"agent_tasks", "idx_tasks_state", "idx_tasks_thread"}
  BY ThirdScript, StepKinds, Numbers
<1>5. /\ ObjectsAt(1, 0) = {} /\ ObjectsAt(1, 10) = Tables1
      /\ ObjectsAt(3, 0) = Tables1 /\ ObjectsAt(3, 3) = Tables3
  <2> HIDE DEF M
  <2> QED BY <1>1, <1>2, <1>3, <1>4, Releases DEF Tables3
<1>6. /\ \A i : ObjectsAt(2, i) = Tables1
      /\ ObjectsAt(4, 0) = Tables3 /\ ObjectsAt(4, 4) = Tables3 /\ ObjectsAt(4, 5) = Tables3
      /\ \A i \in {1, 2} : ObjectsAt(4, i) = Tables3 \cup {"users_new"}
      /\ ObjectsAt(4, 3) = (Tables3 \cup {"users_new"}) \ {"users"}
      /\ \A i : ObjectsAt(5, i) = Tables3
  BY DEF ObjectsAt
<1> QED BY <1>5, <1>6

LEMMA PeopleDiffer ==
    /\ DOMAIN Seeds = {"dana", "evan", "vic"} /\ DOMAIN Promoted = {"dana", "evan", "vic"}
    /\ Promoted["evan"] = "approve" /\ DOMAIN Nobody = {}
    /\ \A u \in People : [id \in DOMAIN u |-> IF id = "evan" THEN "approve" ELSE u[id]] = Promoted
BY DEF Seeds, Promoted, Nobody, People

\* The loop goes on where it is: the step succeeds, takes the database to the
\* next position, and forgets nobody.
\* The loop goes on where it is: the step succeeds, takes the database to the
\* next position, and forgets nobody.
LEMMA NextStep ==
    ASSUME NEW v \in 1 .. 4, NEW i \in 0 .. Size[v], NEW u \in People, NEW m
    PROVE  LET d == Database(v, i, u, m)
               step == applied(v)[i + 1]
           IN /\ succeeds(d, step)
              /\ ids(d) \subseteq ids(result(d, step))
              /\ \E w \in People :
                   result(d, step) = IF i < Size[v] THEN Database(v, i + 1, w, m)
                                     ELSE Database(v + 1, 0, w, m)
<1> DEFINE d == Database(v, i, u, m)
           step == applied(v)[i + 1]
           then == result(d, step)
           V == 1 .. v - 1
           After(w) == IF i < Size[v] THEN Database(v, i + 1, w, m) ELSE Database(v + 1, 0, w, m)
<1> SUFFICES /\ succeeds(d, step)
             /\ ids(d) \subseteq ids(then)
             /\ \E w \in People : then = After(w)
  OBVIOUS
<1>1. v \in Versions /\ Size[v] \in Nat
  BY ScriptShape
<1>2. d = Holding(ObjectsAt(v, i), UsersAt(v, i, u), NewUsersAt(v, i, u), V, m)
  BY DEF Database
<1>x. step = applied(v)[i + 1]
  OBVIOUS
<1>y. then = result(d, step)
  OBVIOUS
<1>n. \A w : i < Size[v] => After(w) =
            Holding(ObjectsAt(v, i + 1), UsersAt(v, i + 1, w), NewUsersAt(v, i + 1, w), V, m)
  BY DEF Database
<1>m. \A w : i = Size[v] => After(w) =
            Holding(ObjectsAt(v + 1, 0), UsersAt(v + 1, 0, w), NewUsersAt(v + 1, 0, w), 1 .. v, m)
  <2>1. (v + 1) - 1 = v
    OBVIOUS
  <2> QED BY <2>1, <1>1 DEF Database
<1>u. DOMAIN u = {"dana", "evan", "vic"}
  BY PeopleDiffer DEF People
<1>v. v \notin V /\ V \cup {v} = 1 .. v
  OBVIOUS
<1> HIDE DEF d, step, then, After, V
<1>3. CASE i = Size[v]
  <2>1. step = note(v)
    BY <1>1, <1>3, <1>x, ScriptShape
  <2>3. /\ succeeds(d, step)
        /\ then = Holding(ObjectsAt(v, i), UsersAt(v, i, u), NewUsersAt(v, i, u), 1 .. v, m)
    <3> DEFINE h == Holding(ObjectsAt(v, i), UsersAt(v, i, u), NewUsersAt(v, i, u), V, m)
    <3>1. succeeds(h, note(v)) <=> v \notin V
      BY NoteMeans
    <3>2. result(h, note(v)) = Holding(ObjectsAt(v, i), UsersAt(v, i, u), NewUsersAt(v, i, u),
                                       V \cup {v}, m)
      BY NoteMeans
    <3> HIDE DEF h
    <3> QED BY <3>1, <3>2, <2>1, <1>v, <1>2, <1>y DEF h
  <2>4. ObjectsAt(v, i) = ObjectsAt(v + 1, 0)
    BY <1>3, Boundaries, Sizes
  <2>5. UsersAt(v, i, u) = UsersAt(v + 1, 0, u) /\ NewUsersAt(v, i, u) = NewUsersAt(v + 1, 0, u)
    BY <1>3, Sizes DEF UsersAt, NewUsersAt
  <2>6. then = After(u)
    BY <2>3, <2>4, <2>5, <1>m, <1>3
  <2>7. ids(d) \subseteq ids(then)
    BY <2>3, <1>2, HoldingParts
  <2> QED BY <2>3, <2>6, <2>7
<1>4. CASE v \in {1, 3} /\ i < Size[v]
  <2>1. PICK o : /\ step = create(o) /\ o \notin ObjectsAt(v, i)
                 /\ ObjectsAt(v, i + 1) = ObjectsAt(v, i) \cup {o}
    BY <1>4, <1>1, <1>x, Creates
  <2>2. UsersAt(v, i, u) = UsersAt(v, i + 1, u) /\ NewUsersAt(v, i, u) = NewUsersAt(v, i + 1, u)
    BY <1>4 DEF UsersAt, NewUsersAt
  <2>3. /\ succeeds(d, step)
        /\ then = Holding(ObjectsAt(v, i) \cup {o}, UsersAt(v, i, u), NewUsersAt(v, i, u),
                          V, m)
    <3> DEFINE h == Holding(ObjectsAt(v, i), UsersAt(v, i, u), NewUsersAt(v, i, u), V, m)
    <3>1. succeeds(h, create(o)) <=> o \notin ObjectsAt(v, i)
      BY CreateMeans
    <3>2. result(h, create(o)) = Holding(ObjectsAt(v, i) \cup {o}, UsersAt(v, i, u),
                                         NewUsersAt(v, i, u), V, m)
      BY CreateMeans
    <3> HIDE DEF h
    <3> QED BY <3>1, <3>2, <2>1, <1>2, <1>y DEF h
  <2>4. then = After(u)
    BY <2>1, <2>2, <2>3, <1>n, <1>4
  <2>5. ids(d) \subseteq ids(then)
    BY <2>3, <1>2, HoldingParts
  <2> QED BY <2>3, <2>4, <2>5
<1>5. CASE v = 2 /\ i = 0
  <2>1. step = seed
    <3>1. i + 1 \in 1 .. Size[v]
      BY <1>5, Sizes
    <3>2. applied(v)[i + 1] = Scripts[v][i + 1]
      BY <3>1, <1>1, ScriptShape
    <3> QED BY <3>2, <1>5, <1>x, OtherScripts
  <2>2. d = Holding(Tables1, Nobody, Nobody, V, m)
    BY <1>5, <1>2, Boundaries DEF UsersAt, NewUsersAt
  <2>3. succeeds(d, step) /\ then = Holding(Tables1, Seeds, Nobody, V, m)
    <3>1. "users" \in Tables1 /\ DOMAIN Nobody \cap DOMAIN Seeds = {}
      BY PeopleDiffer DEF Tables1
    <3> QED BY <2>1, <2>2, <3>1, <1>y, SeedMeans
  <2>4. After(Seeds) = Holding(Tables1, Seeds, Nobody, V, m)
    BY <1>n, <1>5, Boundaries, Sizes DEF UsersAt, NewUsersAt
  <2>5. ids(d) = {}
    BY <2>2, HoldingParts, PeopleDiffer
  <2> QED BY <2>3, <2>4, <2>5 DEF People
<1>6. CASE v = 4 /\ i < Size[v]
  <2>1. i \in {0, 1, 2, 3, 4}
    BY <1>6, Sizes
  <2>2. step = Scripts[4][i + 1]
    <3>1. i + 1 \in 1 .. Size[v]
      BY <1>6, <1>1
    <3> QED BY <3>1, <1>6, <1>1, <1>x, ScriptShape
  <2>3. "users_new" \notin Tables3 /\ "users" \in Tables3
    BY DEF Tables1, Tables3
  <2>5. CASE i = 0
    <3>1. d = Holding(Tables3, u, Nobody, V, m)
      BY <2>5, <1>2, <1>6, Boundaries DEF UsersAt, NewUsersAt
    <3>2. succeeds(d, step) /\ then = Holding(Tables3 \cup {"users_new"}, u, Nobody, V, m)
      <4>1. step = create("users_new")
        BY <2>2, <2>5, OtherScripts
      <4> DEFINE h == Holding(Tables3, u, Nobody, V, m)
      <4>2. succeeds(h, create("users_new")) <=> "users_new" \notin Tables3
        BY CreateMeans
      <4>3. result(h, create("users_new"))
              = Holding(Tables3 \cup {"users_new"}, u, Nobody, V, m)
        BY CreateMeans
      <4> HIDE DEF h
      <4> QED BY <4>1, <4>2, <4>3, <3>1, <2>3, <1>y DEF h
    <3>3. After(u) = Holding(Tables3 \cup {"users_new"}, u, Nobody, V, m)
      BY <2>5, <1>n, <1>6, Boundaries DEF UsersAt, NewUsersAt
    <3>4. ids(d) \subseteq ids(then)
      BY <3>1, <3>2, HoldingParts
    <3> QED BY <3>2, <3>3, <3>4
  <2>6. CASE i = 1
    <3>1. d = Holding(Tables3 \cup {"users_new"}, u, Nobody, V, m)
      BY <2>6, <1>2, <1>6, Boundaries DEF UsersAt, NewUsersAt
    <3>2. succeeds(d, step) /\ then = Holding(Tables3 \cup {"users_new"}, u, u, V, m)
      <4>1. step = copy
        BY <2>2, <2>6, OtherScripts
      <4>2. {"users", "users_new"} \subseteq Tables3 \cup {"users_new"}
            /\ DOMAIN u \cap DOMAIN Nobody = {}
        BY <2>3, PeopleDiffer
      <4> QED BY <3>1, <4>1, <4>2, <1>y, CopyMeans
    <3>3. After(u) = Holding(Tables3 \cup {"users_new"}, u, u, V, m)
      BY <2>6, <1>n, <1>6, Boundaries DEF UsersAt, NewUsersAt
    <3>4. ids(d) \subseteq ids(then)
      BY <3>1, <3>2, HoldingParts, PeopleDiffer
    <3> QED BY <3>2, <3>3, <3>4
  <2>7. CASE i = 2
    <3> DEFINE O == (Tables3 \cup {"users_new"}) \ {"users"}
    <3>1. d = Holding(Tables3 \cup {"users_new"}, u, u, V, m)
      BY <2>7, <1>2, <1>6, Boundaries DEF UsersAt, NewUsersAt
    <3>2. succeeds(d, step) /\ then = Holding(O, Nobody, u, V, m)
      <4>1. step = drop
        BY <2>2, <2>7, OtherScripts
      <4> QED BY <3>1, <4>1, <2>3, <1>y, DropMeans
    <3>3. After(u) = Holding(O, Nobody, u, V, m)
      BY <2>7, <1>n, <1>6, Boundaries DEF UsersAt, NewUsersAt
    <3>4. ids(d) \subseteq ids(then)
      BY <3>1, <3>2, HoldingParts
    <3> QED BY <3>2, <3>3, <3>4
  <2>8. CASE i = 3
    <3> DEFINE O == (Tables3 \cup {"users_new"}) \ {"users"}
    <3>1. d = Holding(O, Nobody, u, V, m)
      BY <2>8, <1>2, <1>6, Boundaries DEF UsersAt, NewUsersAt
    <3>2. (O \ {"users_new"}) \cup {"users"} = Tables3
          /\ "users_new" \in O /\ "users" \notin O
      BY <2>3
    <3>3. succeeds(d, step) /\ then = Holding(Tables3, u, Nobody, V, m)
      <4>1. step = rename
        BY <2>2, <2>8, OtherScripts
      <4> HIDE DEF O
      <4> QED BY <3>1, <4>1, <3>2, <1>y, RenameMeans
    <3>4. After(u) = Holding(Tables3, u, Nobody, V, m)
      BY <2>8, <1>n, <1>6, Boundaries DEF UsersAt, NewUsersAt
    <3>5. ids(d) \subseteq ids(then)
      BY <3>1, <3>3, HoldingParts, PeopleDiffer
    <3> QED BY <3>3, <3>4, <3>5
  <2>9. CASE i = 4
    <3>1. d = Holding(Tables3, u, Nobody, V, m)
      BY <2>9, <1>2, <1>6, Boundaries DEF UsersAt, NewUsersAt
    <3>2. succeeds(d, step) /\ then = Holding(Tables3, Promoted, Nobody, V, m)
      <4>1. step = promote
        BY <2>2, <2>9, OtherScripts
      <4> QED BY <3>1, <4>1, <2>3, <1>y, PromoteMeans, PeopleDiffer
    <3>3. After(u) = Holding(Tables3, Promoted, Nobody, V, m)
      BY <2>9, <1>n, <1>6, Boundaries DEF UsersAt, NewUsersAt
    <3>4. ids(d) \subseteq ids(then)
      BY <3>1, <3>2, HoldingParts, PeopleDiffer, <1>u
    <3> QED BY <3>2, <3>3, <3>4
  <2> QED BY <2>1, <2>5, <2>6, <2>7, <2>8, <2>9
<1> QED BY <1>3, <1>4, <1>5, <1>6, <1>1, Sizes

\* A script that died before its table was renamed, or before it was noted,
\* cannot begin again: the new process is refused by its first statement.
Stuck(v, i) == v <= 4 /\ i > 0 /\ ~(v = 4 /\ i \in {4, 5})

\* A torn first, third or fourth script cannot be run again.
LEMMA TornScriptIsStuck ==
    ASSUME NEW v \in 1 .. 4, NEW i \in 0 .. Size[v], NEW u \in People, NEW m, Stuck(v, i)
    PROVE  ~succeeds(Database(v, i, u, m), applied(v)[1])
<1> DEFINE V == 1 .. v - 1
<1>1. Database(v, i, u, m) =
        Holding(ObjectsAt(v, i), UsersAt(v, i, u), NewUsersAt(v, i, u), V, m)
  BY DEF Database
<1>2. applied(v)[1] = Scripts[v][1]
  <2>1. v \in Versions
    BY ScriptShape
  <2>2. 1 \in 1 .. Size[v]
    BY Sizes
  <2> QED BY <2>1, <2>2, ScriptShape
<1> HIDE DEF V
<1>3. CASE v \in {1, 3}
  <2> DEFINE o == Scripts[v][1].object
             O == ObjectsAt(v, i)
  <2>1. applied(v)[1] = create(o)
    BY <1>2, <1>3, FirstScript, ThirdScript, StepKinds
  <2>2. o \in O
    <3>1. 1 \in 1 .. i
      BY DEF Stuck
    <3> QED BY <3>1, <1>3 DEF ObjectsAt
  <2> HIDE DEF o, O
  <2>3. ~succeeds(Holding(O, UsersAt(v, i, u), NewUsersAt(v, i, u), V, m), create(o))
    BY <2>2, CreateMeans
  <2> QED BY <2>1, <2>3, <1>1 DEF O
<1>4. CASE v = 2
  <2>1. applied(v)[1] = seed /\ i = 1
    BY <1>2, <1>4, OtherScripts, Sizes DEF Stuck
  <2>2. UsersAt(v, i, u) = u
    BY <2>1, <1>4 DEF UsersAt
  <2>3. DOMAIN u \cap DOMAIN Seeds # {}
    BY PeopleDiffer DEF People
  <2> QED BY <2>1, <2>2, <2>3, <1>1, SeedMeans
<1>5. CASE v = 4
  <2>1. applied(v)[1] = create("users_new") /\ i \in {1, 2, 3}
    BY <1>2, <1>5, OtherScripts, Sizes DEF Stuck
  <2> DEFINE O == ObjectsAt(v, i)
  <2>2. "users_new" \in O
    BY <2>1, <1>5, Boundaries
  <2> HIDE DEF O
  <2>3. ~succeeds(Holding(O, UsersAt(v, i, u), NewUsersAt(v, i, u), V, m), create("users_new"))
    BY <2>2, CreateMeans
  <2> QED BY <2>1, <2>3, <1>1 DEF O
<1> QED BY <1>3, <1>4, <1>5

\* After the rename, the fourth script can run again.
LEMMA RenamedRunsAgain ==
    ASSUME NEW i \in {4, 5}, NEW u \in People, NEW m
    PROVE  \E w \in People : Database(4, i, u, m) = Database(4, 0, w, m)
<1>1. CASE i = 4
  <2>1. UsersAt(4, i, u) = u /\ UsersAt(4, 0, u) = u
        /\ NewUsersAt(4, i, u) = NewUsersAt(4, 0, u)
    BY <1>1 DEF UsersAt, NewUsersAt
  <2> QED BY <1>1, <2>1, Boundaries DEF Database
<1>2. CASE i = 5
  <2>1. UsersAt(4, i, u) = Promoted /\ UsersAt(4, 0, Promoted) = Promoted
        /\ NewUsersAt(4, i, u) = NewUsersAt(4, 0, Promoted)
    BY <1>2 DEF UsersAt, NewUsersAt
  <2> QED BY <1>2, <2>1, Boundaries DEF Database, People
<1> QED BY <1>1, <1>2

\* The loop, at a script.
LEMMA LoopAt ==
    ASSUME NEW v \in 1 .. 4, NEW i \in Nat
    PROVE  /\ position(v .. 4, i) # Finished
           /\ next_step(position(v .. 4, i)) = applied(v)[i + 1]
           /\ advanced(position(v .. 4, i)) =
                IF i = Size[v] THEN position((v + 1) .. 4, 0) ELSE position(v .. 4, i + 1)
<1> DEFINE at == position(v .. 4, i)
<1>1. at.versions = v .. 4 /\ at.made = i
  BY DEF position
<1>2. at # Finished
  BY <1>1 DEF position, Finished
<1>3. script(at) = v
  BY <1>1 DEF script
<1>4. Len(applied(v)) = Size[v] + 1 /\ Size[v] \in Nat
  BY ScriptShape
<1>5. (v .. 4) \ {v} = (v + 1) .. 4
  OBVIOUS
<1>6. next_step(at) = applied(v)[i + 1]
  BY <1>1, <1>3 DEF next_step
<1>7. advanced(at) = IF i = Size[v] THEN position((v + 1) .. 4, 0) ELSE position(v .. 4, i + 1)
  <2>1. advanced(at) = IF i + 1 = Len(applied(v))
                       THEN position((v .. 4) \ {v}, 0) ELSE position(v .. 4, i + 1)
    BY <1>1, <1>3 DEF advanced
  <2>2. i + 1 = Len(applied(v)) <=> i = Size[v]
    BY <1>4
  <2> QED BY <2>1, <2>2, <1>5
<1> QED BY <1>2, <1>6, <1>7

\* The loop is over when every version is noted.
LEMMA LoopIsOver ==
    /\ \A v \in 1 .. 5 : pending(1 .. v - 1) = v .. 4
    /\ position(5 .. 4, 0) = Finished
<1>1. ASSUME NEW v \in 1 .. 5 PROVE pending(1 .. v - 1) = v .. 4
  <2>1. (1 .. 4) \ (1 .. v - 1) = v .. 4
    OBVIOUS
  <2> QED BY <2>1, ScriptShape DEF pending
<1>2. 5 .. 4 = {}
  OBVIOUS
<1> QED BY <1>1, <1>2 DEF Finished

\* The database an older release left is at a position between two scripts.
LEMMA ReleaseIsBetweenScripts ==
    ASSUME NEW k \in 0 .. 4
    PROVE  \E u \in People, m \in Nat : Release(k) = Database(k + 1, 0, u, m)
<1> DEFINE m == IF k = 0 THEN 0 ELSE 1
           u == IF k = 4 THEN Promoted ELSE Seeds
<1>1. u \in People /\ m \in Nat
  BY DEF People
<1>2. Release(k).objects = ObjectsAt(k + 1, 0)
  <2>1. k \in {0, 1, 2, 3, 4}
    OBVIOUS
  <2>2. /\ Release(0).objects = ObjectsAt(1, 0) /\ Release(1).objects = ObjectsAt(2, 0)
        /\ Release(2).objects = ObjectsAt(3, 0) /\ Release(3).objects = ObjectsAt(4, 0)
        /\ Release(4).objects = ObjectsAt(5, 0)
    BY Releases, Boundaries
  <2>3. 0 + 1 = 1 /\ 1 + 1 = 2 /\ 2 + 1 = 3 /\ 3 + 1 = 4 /\ 4 + 1 = 5
    OBVIOUS
  <2> QED BY <2>1, <2>2, <2>3
<1>3. Release(k).users = UsersAt(k + 1, 0, u) /\ Release(k).users_new = NewUsersAt(k + 1, 0, u)
  BY DEF Release, UsersAt, NewUsersAt
<1>4. (k + 1) - 1 = k
  OBVIOUS
<1>5. Release(k) = Holding(Release(k).objects, Release(k).users, Release(k).users_new, 1 .. k, m)
  BY DEF Release, Holding
<1>6. Database(k + 1, 0, u, m) =
        Holding(ObjectsAt(k + 1, 0), UsersAt(k + 1, 0, u), NewUsersAt(k + 1, 0, u), 1 .. k, m)
  BY <1>4 DEF Database
<1> QED BY <1>1, <1>2, <1>3, <1>5, <1>6

-----------------------------------------------------------------------------
(* The invariant: the database is always at some position of some script.  *)
(* A process that migrates is at that position too, or it is about to be   *)
(* refused; one that was never torn finds the database between scripts.    *)

Phase(v, i, m) ==
    \/ /\ process = "down" /\ todo = Finished
       /\ i > 0 => crashes > 0
    \/ /\ process = "migrating" /\ todo = position(v .. 4, i)
    \/ /\ process = "migrating" /\ todo = position(v .. 4, 0)
       /\ Stuck(v, i) /\ crashes > 0
    \/ /\ process = "serving" /\ todo = Finished
       /\ v = 5 /\ m # 0

InPlace(v, i) == v \in 1 .. 5 /\ i \in Nat /\ (v <= 4 => i <= Size[v]) /\ (v = 5 => i = 0)

BootInv ==
    /\ crashes \in Nat /\ shas \in Nat
    /\ refused => crashes > 0
    /\ \E v \in 1 .. 5, i \in Nat, u \in People, m \in Nat :
        InPlace(v, i) /\ schema = Database(v, i, u, m) /\ Phase(v, i, m)

\* The site begins with a release of before, or with none.
LEMMA BootInitially == BootInit => BootInv
<1> SUFFICES ASSUME BootInit PROVE BootInv
  OBVIOUS
<1>1. PICK k \in 0 .. 4 : schema = Release(k)
  <2>1. {0} \cup Versions = 0 .. 4
    BY ScriptShape
  <2> QED BY <2>1 DEF BootInit
<1>2. PICK u \in People, m \in Nat : schema = Database(k + 1, 0, u, m)
  BY <1>1, ReleaseIsBetweenScripts
<1>3. InPlace(k + 1, 0)
  BY Sizes DEF InPlace
<1>4. Phase(k + 1, 0, m)
  BY DEF Phase, BootInit
<1>5. schema.main_sha \in Nat
  BY <1>2, HoldingParts DEF Database
<1> QED BY <1>2, <1>3, <1>4, <1>5 DEF BootInv, BootInit

\* A migrating process is past its scripts, at one, or refused.
LEMMA Migrating ==
    ASSUME NEW v, NEW i, NEW u \in People, NEW m,
           InPlace(v, i), schema = Database(v, i, u, m), Phase(v, i, m), process = "migrating"
    PROVE  \/ v = 5 /\ i = 0 /\ todo = Finished
           \/ /\ v \in 1 .. 4 /\ i \in 0 .. Size[v] /\ todo = position(v .. 4, i) /\ todo # Finished
              /\ next_step(todo) = applied(v)[i + 1] /\ succeeds(schema, next_step(todo))
           \/ /\ v \in 1 .. 4 /\ todo # Finished /\ crashes > 0
              /\ ~succeeds(schema, next_step(todo))
<1>1. v \in 1 .. 4 => Size[v] \in Nat
  BY Sizes
<1>2. CASE todo = position(v .. 4, i)
  <2>1. CASE v = 5
    BY <1>2, <2>1, LoopIsOver DEF InPlace
  <2>2. CASE v \in 1 .. 4
    <3>1. i \in 0 .. Size[v]
      BY <2>2, <1>1 DEF InPlace
    <3>2. todo # Finished /\ next_step(todo) = applied(v)[i + 1]
      BY <3>1, <2>2, <1>2, LoopAt DEF InPlace
    <3>3. succeeds(schema, applied(v)[i + 1])
      BY <3>1, <2>2, NextStep
    <3> QED BY <3>1, <3>2, <3>3, <2>2, <1>2
  <2> QED BY <2>1, <2>2 DEF InPlace
<1>3. CASE todo = position(v .. 4, 0) /\ Stuck(v, i) /\ crashes > 0
  <2>1. v \in 1 .. 4
    BY <1>3 DEF Stuck, InPlace
  <2>2. i \in 0 .. Size[v]
    BY <2>1, <1>1 DEF InPlace
  <2>3. todo # Finished /\ next_step(todo) = applied(v)[1]
    <3>1. 0 \in Nat /\ 0 + 1 = 1
      OBVIOUS
    <3> QED BY <3>1, <2>1, <1>3, LoopAt
  <2>4. ~succeeds(schema, applied(v)[1])
    BY <2>1, <2>2, <1>3, TornScriptIsStuck
  <2> QED BY <2>1, <2>3, <2>4, <1>3
<1> QED BY <1>2, <1>3 DEF Phase

\* A process that starts reads its place off the database.
LEMMA StartKeepsPlace ==
    ASSUME BootInv, start
    PROVE  BootInv'
<1>1. PICK v \in 1 .. 5, i \in Nat, u \in People, m \in Nat :
        InPlace(v, i) /\ schema = Database(v, i, u, m) /\ Phase(v, i, m)
  BY DEF BootInv
<1>2. schema' = schema /\ process' = "migrating" /\ crashes' = crashes /\ shas' = shas
      /\ refused' = refused
  BY DEF start
<1>3. i > 0 => crashes > 0
  BY <1>1 DEF Phase, start
<1>4. todo' = position(v .. 4, 0)
  <2>1. schema.versions = 1 .. v - 1
    BY <1>1, HoldingParts DEF Database
  <2> QED BY <2>1, LoopIsOver DEF start
<1>5. CASE i = 0
  <2>1. Phase(v, i, m)'
    BY <1>2, <1>4, <1>5 DEF Phase
  <2> QED BY <1>1, <1>2, <2>1 DEF BootInv
<1>6. CASE Stuck(v, i)
  <2>1. Phase(v, i, m)'
    BY <1>2, <1>3, <1>4, <1>6 DEF Phase, Stuck
  <2> QED BY <1>1, <1>2, <2>1 DEF BootInv
<1>7. CASE v = 4 /\ i \in {4, 5}
  <2>1. PICK w \in People : schema = Database(4, 0, w, m)
    BY <1>1, <1>7, RenamedRunsAgain
  <2>2. InPlace(4, 0)
    BY Sizes DEF InPlace
  <2>3. Phase(4, 0, m)'
    BY <1>2, <1>4, <1>7 DEF Phase
  <2> QED BY <1>2, <2>1, <2>2, <2>3 DEF BootInv
<1> QED BY <1>1, <1>5, <1>6, <1>7 DEF InPlace, Stuck

\* A statement moves the process and the database to the next place.
LEMMA MigratesKeepsPlace ==
    ASSUME BootInv, migrates
    PROVE  /\ BootInv' /\ ids(schema) \subseteq ids(schema')
           /\ schema'.main_sha = schema.main_sha
<1>1. PICK v \in 1 .. 5, i \in Nat, u \in People, m \in Nat :
        InPlace(v, i) /\ schema = Database(v, i, u, m) /\ Phase(v, i, m)
  BY DEF BootInv
<1>2. process = "migrating" /\ todo # Finished /\ succeeds(schema, next_step(todo))
  BY DEF migrates
<1>3. /\ v \in 1 .. 4 /\ i \in 0 .. Size[v] /\ todo = position(v .. 4, i)
      /\ next_step(todo) = applied(v)[i + 1]
  BY <1>1, <1>2, Migrating
<1>4. schema' = result(schema, applied(v)[i + 1]) /\ todo' = advanced(todo)
      /\ process' = "migrating" /\ crashes' = crashes /\ shas' = shas /\ refused' = refused
  BY <1>2, <1>3 DEF migrates
<1>5. PICK w \in People :
        /\ schema' = IF i < Size[v] THEN Database(v, i + 1, w, m) ELSE Database(v + 1, 0, w, m)
        /\ ids(schema) \subseteq ids(schema')
  BY <1>1, <1>3, <1>4, NextStep
<1>6. todo' = IF i = Size[v] THEN position((v + 1) .. 4, 0) ELSE position(v .. 4, i + 1)
  BY <1>3, <1>4, LoopAt
<1>7. Size[v] \in Nat
  BY <1>3, Sizes
<1>a. schema.main_sha = m /\ schema'.main_sha = m
  BY <1>1, <1>5, HoldingParts DEF Database
<1>8. CASE i < Size[v]
  <2>1. InPlace(v, i + 1)
    BY <1>3, <1>7, <1>8 DEF InPlace
  <2>2. Phase(v, i + 1, m)'
    BY <1>4, <1>6, <1>7, <1>8 DEF Phase
  <2>3. i + 1 \in Nat
    OBVIOUS
  <2> QED BY <1>4, <1>5, <1>8, <1>a, <2>1, <2>2, <2>3 DEF BootInv
<1>9. CASE i = Size[v]
  <2>1. InPlace(v + 1, 0)
    BY <1>3, Sizes DEF InPlace
  <2>2. Phase(v + 1, 0, m)'
    BY <1>4, <1>6, <1>9 DEF Phase
  <2>3. v + 1 \in 1 .. 5 /\ 0 \in Nat /\ ~(i < Size[v])
    BY <1>3, <1>7, <1>9
  <2> QED BY <1>4, <1>5, <1>a, <2>1, <2>2, <2>3 DEF BootInv
<1> QED BY <1>3, <1>7, <1>8, <1>9

\* A process is refused where a death left a script.
LEMMA RefusesKeepsPlace ==
    ASSUME BootInv, refuses
    PROVE  BootInv'
<1>1. PICK v \in 1 .. 5, i \in Nat, u \in People, m \in Nat :
        InPlace(v, i) /\ schema = Database(v, i, u, m) /\ Phase(v, i, m)
  BY DEF BootInv
<1>2. process = "migrating" /\ todo # Finished /\ ~succeeds(schema, next_step(todo))
  BY DEF refuses
<1>3. crashes > 0
  BY <1>1, <1>2, Migrating
<1>4. schema' = schema /\ process' = "down" /\ todo' = Finished /\ crashes' = crashes /\ shas' = shas
  BY DEF refuses
<1>5. Phase(v, i, m)'
  BY <1>3, <1>4 DEF Phase
<1> QED BY <1>1, <1>3, <1>4, <1>5 DEF BootInv

\* A process serves at the end of the scripts, once production has a sha.
LEMMA ServesKeepsPlace ==
    ASSUME BootInv, serves
    PROVE  BootInv' /\ ids(schema) \subseteq ids(schema')
<1>1. PICK v \in 1 .. 5, i \in Nat, u \in People, m \in Nat :
        InPlace(v, i) /\ schema = Database(v, i, u, m) /\ Phase(v, i, m)
  BY DEF BootInv
<1>2. v = 5 /\ i = 0
  <2>1. process = "migrating" /\ todo = Finished
    BY DEF serves
  <2> QED BY <1>1, <2>1, Migrating
<1>3. schema.main_sha = m
  BY <1>1, HoldingParts DEF Database
<1>4. PICK n \in Nat \ {0} : n = production /\ shas' \in Nat
  <2>1. shas \in Nat
    BY DEF BootInv
  <2>2. production \in Nat \ {0}
    BY <1>3, <2>1 DEF production
  <2> QED BY <2>1, <2>2 DEF serves
<1>5. schema' = [schema EXCEPT !.main_sha = n] /\ process' = "serving" /\ todo' = todo
      /\ todo = Finished /\ crashes' = crashes /\ refused' = refused
  BY <1>4 DEF serves
<1>6. schema' = Database(v, i, u, n) /\ ids(schema) \subseteq ids(schema')
  BY <1>1, <1>5, HoldingParts DEF Database, Holding, ids
<1>7. Phase(v, i, n)'
  BY <1>2, <1>4, <1>5 DEF Phase
<1> QED BY <1>1, <1>4, <1>5, <1>6, <1>7 DEF BootInv

\* A death leaves the database where it was.
LEMMA DyingKeepsPlace ==
    ASSUME BootInv, dies, schema' = schema, shas' \in Nat
    PROVE  BootInv'
<1>1. PICK v \in 1 .. 5, i \in Nat, u \in People, m \in Nat :
        InPlace(v, i) /\ schema = Database(v, i, u, m) /\ Phase(v, i, m)
  BY DEF BootInv
<1>2. crashes' \in Nat /\ crashes' > 0 /\ Phase(v, i, m)'
  BY DEF dies, BootInv, Phase
<1> QED BY <1>1, <1>2 DEF BootInv

\* No step of the service moves the database.
LEMMA OthersKeepPlace ==
    ASSUME BootInv, UNCHANGED <<schema, process, todo, crashes, refused>>, shas' \in Nat
    PROVE  BootInv'
BY DEF BootInv, Phase

\* What a step of the site does to the database's schema and to the process.
LEMMA SiteBootStep ==
    ASSUME [Next]_vars
    PROVE  \/ start \/ migrates \/ refuses \/ serves
           \/ /\ schema' = schema /\ shas' \in {shas, shas + 1}
              /\ dies \/ UNCHANGED <<process, todo, crashes, refused>>
<1> DEFINE Goal == \/ start \/ migrates \/ refuses \/ serves
                   \/ /\ schema' = schema /\ shas' \in {shas, shas + 1}
                      /\ dies \/ UNCHANGED <<process, todo, crashes, refused>>
<1>1. CASE start_up
  BY <1>1 DEF start_up
<1>2. CASE crash
  BY <1>2 DEF crash
<1>3. CASE time_passes
  BY <1>3 DEF time_passes
<1>4. ASSUME NEW u \in Users, post_comment(u) PROVE Goal
  BY <1>4 DEF post_comment, turned_away, stores_nothing, Commit, Torn
<1>5. ASSUME NEW t \in Threads, begins(t) \/ ends(t) \/ moves_on(t) PROVE Goal
  BY <1>5 DEF begins, ends, moves_on, Undisturbed
<1>6. ASSUME NEW t \in Threads, lands(t) PROVE Goal
  BY <1>6 DEF lands, Commit, Torn
<1>7. CASE UNCHANGED vars
  BY <1>7 DEF vars
<1> QED BY <1>1, <1>2, <1>3, <1>4, <1>5, <1>6, <1>7 DEF Next

\* Every step of the site keeps the database at a position of the scripts.
LEMMA SiteKeepsPlace ==
    ASSUME BootInv, [Next]_vars
    PROVE  BootInv' /\ ids(schema) \subseteq ids(schema')
<1>1. shas \in Nat
  BY DEF BootInv
<1>2. CASE start
  <2>1. schema' = schema
    BY <1>2 DEF start
  <2> QED BY <1>2, <2>1, StartKeepsPlace
<1>3. CASE migrates
  BY <1>3, MigratesKeepsPlace
<1>4. CASE refuses
  <2>1. schema' = schema
    BY <1>4 DEF refuses
  <2> QED BY <1>4, <2>1, RefusesKeepsPlace
<1>5. CASE serves
  BY <1>5, ServesKeepsPlace
<1>6. CASE /\ schema' = schema /\ shas' \in {shas, shas + 1}
           /\ dies \/ UNCHANGED <<process, todo, crashes, refused>>
  <2>1. shas' \in Nat
    BY <1>1, <1>6
  <2> QED BY <1>6, <2>1, DyingKeepsPlace, OthersKeepPlace
<1> QED BY <1>2, <1>3, <1>4, <1>5, <1>6, SiteBootStep

\* So it always is there.
LEMMA SiteIsInPlace == Spec => []BootInv
<1>1. Init => BootInv
  BY BootInitially DEF Init
<1> QED BY <1>1, SiteKeepsPlace, PTL DEF Spec

\* Whatever release and whatever torn start it came from, a process that
\* serves has the whole schema, a sha of production and an approver.
THEOREM SiteServesMigrated == Spec => []ServesMigrated
<1>1. ASSUME BootInv, process = "serving" PROVE ServesMigrated
  <2>1. PICK v \in 1 .. 5, i \in Nat, u \in People, m \in Nat :
            InPlace(v, i) /\ schema = Database(v, i, u, m) /\ Phase(v, i, m)
    BY <1>1 DEF BootInv
  <2>2. v = 5 /\ m # 0
    BY <2>1, <1>1 DEF Phase
  <2>3. schema.objects = Tables3 /\ schema.users = Promoted /\ schema.main_sha = m
    BY <2>1, <2>2, HoldingParts, Boundaries DEF Database, UsersAt
  <2>4. Release(Len(Scripts)).objects = Tables3
    BY Releases DEF Scripts
  <2>5. "evan" \in DOMAIN schema.users /\ schema.users["evan"] = "approve"
    BY <2>3, PeopleDiffer
  <2> QED BY <2>2, <2>3, <2>4, <2>5 DEF ServesMigrated
<1>2. BootInv => ServesMigrated
  BY <1>1 DEF ServesMigrated
<1> QED BY <1>2, SiteIsInPlace, PTL

\* A process is refused by what an earlier death tore, and by nothing else.
THEOREM SiteRefusesTornOnly == Spec => []OnlyCrashesRefuse
<1>1. BootInv => OnlyCrashesRefuse
  BY DEF BootInv, OnlyCrashesRefuse
<1> QED BY <1>1, SiteIsInPlace, PTL

\* No commit of any start of the process leaves somebody in neither of the
\* users tables.
THEOREM SiteForgetsNobody == Spec => NobodyForgotten
<1>1. ASSUME BootInv, [Next]_vars PROVE [ids(schema) \subseteq ids(schema')]_boot_vars
  BY <1>1, SiteKeepsPlace
<1> QED BY <1>1, SiteIsInPlace, PTL DEF Spec, NobodyForgotten

-----------------------------------------------------------------------------
(* The store: its invariant, of a store s, of a database whose production is *)
(* main, of a system that has drawn n shas.                                *)

ThreadRows == [base : Nat, preview : Nat, comments : Nat,
               status : {"open", InFlight, "preview_ready"} \cup Closed]

IterationRows == [thread : Nat, sha : Nat, parent : Nat]

Stores == [threads : Seq(ThreadRows), iterations : Seq(IterationRows),
           patches : [1 .. MaxShas -> Seq(Nat)]]

RecordedIn(s) == {s.iterations[i].sha : i \in DOMAIN s.iterations}

ShownIn(s, main) == {main} \cup RecordedIn(s)

\* An iteration belongs to a thread, has a sha of its own, later than
\* production, and builds on production or on an older one.
IterationsInOrder(s, main, n) ==
    LET its == s.iterations
    IN /\ \A i \in DOMAIN its :
            /\ its[i].thread \in DOMAIN s.threads
            /\ main < its[i].sha /\ its[i].sha <= n /\ its[i].sha <= MaxShas
            /\ its[i].parent = main \/ older(its, i) # {}
       /\ \A i, j \in DOMAIN its : its[i].sha = its[j].sha => i = j

\* Nothing is deployed for production, or for a sha that was not drawn.
PatchesDrawn(s, main, n) ==
    \A sha \in 1 .. MaxShas : sha <= main \/ sha > n => s.patches[sha] = <<>>

ThreadsKnown(s, main) ==
    \A t \in DOMAIN s.threads :
        /\ s.threads[t].base \in ShownIn(s, main)
        /\ s.threads[t].preview \in {0} \cup RecordedIn(s)

\* The patches of the iterations, by position.
Patched(s) == [i \in DOMAIN s.iterations |-> s.patches[s.iterations[i].sha]]

\* f answers the recursion that defines ancestry.
Solves(its, f) == f = [i \in DOMAIN its |-> built_on(its, i, f)]

\* The patches answer it, and nothing else does.
LineageSolved(s) ==
    /\ Solves(s.iterations, Patched(s))
    /\ \A f, g : Solves(s.iterations, f) /\ Solves(s.iterations, g) => f = g

SoundStore(s, main, n) ==
    /\ s \in Stores /\ Len(s.threads) <= MaxThreads
    /\ IterationsInOrder(s, main, n)
    /\ PatchesDrawn(s, main, n)
    /\ ThreadsKnown(s, main)
    /\ LineageSolved(s)

Orphans(s) == {sha \in 1 .. MaxShas : s.patches[sha] # <<>> /\ sha \notin RecordedIn(s)}

Empty(s) == {t \in DOMAIN s.threads : s.threads[t].comments = 0}

Debt(s) == Cardinality(Orphans(s)) + Cardinality(Empty(s))

\* builds: the runs; died: how many processes did.
StoreInv(s, main, n, builds, died) ==
    /\ main <= n
    /\ main = 0 => s = EmptyStore /\ n = 0
    /\ SoundStore(s, main, n)
    /\ builds \in [1 .. MaxThreads -> Int]
    /\ \A t \in 1 .. MaxThreads :
        builds[t] # NoRun => main # 0 /\ builds[t] \in ShownIn(s, main)
    /\ Debt(s) <= died

SiteInv == StoreInv(store, schema.main_sha, shas, runs, crashes)

-----------------------------------------------------------------------------
(* The recursion of ancestry, an iteration at a time. *)

\* A row added to a table is its last.
LEMMA RowsAppended ==
    ASSUME NEW its \in Seq(IterationRows), NEW x \in IterationRows
    PROVE  /\ Append(its, x) \in Seq(IterationRows)
           /\ DOMAIN its = 1 .. Len(its) /\ DOMAIN Append(its, x) = 1 .. Len(its) + 1
           /\ Len(its) \in Nat /\ Len(Append(its, x)) = Len(its) + 1
           /\ \A i \in DOMAIN its : Append(its, x)[i] = its[i]
           /\ Append(its, x)[Len(its) + 1] = x
OBVIOUS

\* What an iteration was built on is an iteration before it.
LEMMA BuiltOnOlder ==
    ASSUME NEW its, NEW i, NEW f, NEW g, \A j \in older(its, i) : f[j] = g[j]
    PROVE  built_on(its, i, f) = built_on(its, i, g)
<1>1. CASE older(its, i) = {}
  BY <1>1 DEF built_on
<1>2. CASE older(its, i) # {}
  <2> DEFINE c == CHOOSE j \in older(its, i) : TRUE
  <2>1. c \in older(its, i)
    BY <1>2
  <2>2. f[c] = g[c]
    BY <2>1
  <2> QED BY <1>2, <2>2 DEF built_on
<1> QED BY <1>1, <1>2

\* An iteration added changes nothing of what the others were built on.
LEMMA AppendKeepsOlder ==
    ASSUME NEW its \in Seq(IterationRows), NEW x \in IterationRows, NEW i \in DOMAIN its
    PROVE  /\ older(Append(its, x), i) = older(its, i)
           /\ older(its, i) \subseteq DOMAIN its
           /\ \A f : built_on(Append(its, x), i, f) = built_on(its, i, f)
<1>1. i \in 1 .. Len(its) /\ Append(its, x)[i] = its[i]
  BY RowsAppended
<1>2. \A j \in 1 .. i - 1 : j \in DOMAIN its /\ Append(its, x)[j] = its[j]
  BY <1>1, RowsAppended
<1>3. older(Append(its, x), i) = older(its, i) /\ older(its, i) \subseteq DOMAIN its
  BY <1>1, <1>2 DEF older
<1> QED BY <1>1, <1>3 DEF built_on

\* A solution for one more iteration extends the one there was.
LEMMA AppendSolution ==
    ASSUME NEW its \in Seq(IterationRows), NEW x \in IterationRows, NEW f,
           Solves(Append(its, x), f)
    PROVE  LET r == [i \in DOMAIN its |-> f[i]]
           IN /\ Solves(its, r)
              /\ f[Len(its) + 1] = built_on(Append(its, x), Len(its) + 1, r)
              /\ f = [i \in 1 .. Len(its) + 1 |-> f[i]]
<1> DEFINE more == Append(its, x)
           r == [i \in DOMAIN its |-> f[i]]
<1>1. f = [i \in DOMAIN more |-> built_on(more, i, f)]
  BY DEF Solves
<1>2. /\ DOMAIN its = 1 .. Len(its) /\ DOMAIN more = 1 .. Len(its) + 1 /\ Len(its) \in Nat
  BY RowsAppended
<1>3. ASSUME NEW i \in DOMAIN its PROVE r[i] = built_on(its, i, r)
  <2>1. f[i] = built_on(more, i, f)
    BY <1>1, <1>2
  <2>2. f[i] = built_on(its, i, f)
    BY <2>1, AppendKeepsOlder
  <2>3. \A j \in older(its, i) : f[j] = r[j]
    BY AppendKeepsOlder
  <2>4. built_on(its, i, f) = built_on(its, i, r)
    BY <2>3, BuiltOnOlder
  <2> QED BY <2>2, <2>4
<1>4. Solves(its, r)
  BY <1>3 DEF Solves
<1>5. f[Len(its) + 1] = built_on(more, Len(its) + 1, f)
  BY <1>1, <1>2
<1>6. older(more, Len(its) + 1) \subseteq DOMAIN its
  BY <1>2 DEF older
<1>7. \A j \in older(more, Len(its) + 1) : f[j] = r[j]
  BY <1>6
<1>8. built_on(more, Len(its) + 1, f) = built_on(more, Len(its) + 1, r)
  BY <1>7, BuiltOnOlder
<1>9. f = [i \in 1 .. Len(its) + 1 |-> f[i]]
  <2>1. DOMAIN f = DOMAIN more
    BY <1>1
  <2> HIDE DEF more
  <2> QED BY <1>1, <1>2, <2>1
<1> QED BY <1>4, <1>5, <1>8, <1>9

\* An iteration added leaves the recursion one answer.
LEMMA AppendStaysUnique ==
    ASSUME NEW its \in Seq(IterationRows), NEW x \in IterationRows,
           \A f, g : Solves(its, f) /\ Solves(its, g) => f = g,
           NEW f, NEW g, Solves(Append(its, x), f), Solves(Append(its, x), g)
    PROVE  f = g
<1> DEFINE n == Len(its) + 1
           r == [i \in DOMAIN its |-> f[i]]
           q == [i \in DOMAIN its |-> g[i]]
<1>1. /\ Solves(its, r) /\ f[n] = built_on(Append(its, x), n, r)
      /\ f = [i \in 1 .. n |-> f[i]]
  BY AppendSolution
<1>2. /\ Solves(its, q) /\ g[n] = built_on(Append(its, x), n, q)
      /\ g = [i \in 1 .. n |-> g[i]]
  BY AppendSolution
<1>3. r = q
  <2> HIDE DEF r, q
  <2> QED BY <1>1, <1>2
<1>4. f[n] = g[n]
  BY <1>1, <1>2, <1>3
<1>5. \A i \in DOMAIN its : f[i] = g[i]
  <2>1. \A i \in DOMAIN its : r[i] = f[i] /\ q[i] = g[i]
    OBVIOUS
  <2> HIDE DEF r, q
  <2> QED BY <2>1, <1>3
<1>6. \A i \in 1 .. n : i \in DOMAIN its \/ i = n
  BY RowsAppended
<1>7. \A i \in 1 .. n : f[i] = g[i]
  BY <1>4, <1>5, <1>6
<1> HIDE DEF n, r, q
<1> QED BY <1>1, <1>2, <1>7

IsMap(f) == f = [i \in DOMAIN f |-> f[i]]

\* One more iteration, whose patches are those it was built on and its own.
LEMMA AppendIsSolved ==
    ASSUME NEW its \in Seq(IterationRows), NEW x \in IterationRows, NEW f,
           Solves(its, f),
           NEW h, DOMAIN h = 1 .. Len(its) + 1, IsMap(h),
           \A i \in DOMAIN its : h[i] = f[i],
           h[Len(its) + 1] = built_on(Append(its, x), Len(its) + 1, f)
    PROVE  Solves(Append(its, x), h)
<1> DEFINE more == Append(its, x)
           n == Len(its) + 1
<1>1. /\ DOMAIN its = 1 .. Len(its) /\ DOMAIN more = 1 .. n /\ Len(its) \in Nat
      /\ n \notin DOMAIN its
  BY RowsAppended
<1>2. \A i \in DOMAIN its : h[i] = f[i]
  OBVIOUS
<1>3. h[n] = built_on(more, n, f)
  OBVIOUS
<1>4. ASSUME NEW i \in DOMAIN its PROVE h[i] = built_on(more, i, h)
  <2>1. f[i] = built_on(its, i, f)
    BY DEF Solves
  <2>2. \A j \in older(its, i) : f[j] = h[j]
    BY <1>2, AppendKeepsOlder
  <2>3. built_on(its, i, f) = built_on(its, i, h)
    BY <2>2, BuiltOnOlder
  <2>4. built_on(more, i, h) = built_on(its, i, h)
    BY AppendKeepsOlder
  <2> QED BY <2>1, <2>3, <2>4, <1>2
<1>5. h[n] = built_on(more, n, h)
  <2>1. older(more, n) \subseteq DOMAIN its
    BY <1>1 DEF older
  <2>2. \A j \in older(more, n) : f[j] = h[j]
    BY <2>1, <1>2
  <2>3. built_on(more, n, f) = built_on(more, n, h)
    BY <2>2, BuiltOnOlder
  <2> QED BY <2>3, <1>3
<1>6. \A i \in 1 .. n : i \in DOMAIN its \/ i = n
  BY <1>1
<1>7. \A i \in 1 .. n : h[i] = built_on(more, i, h)
  BY <1>4, <1>5, <1>6
<1>8. h = [i \in 1 .. n |-> h[i]]
  BY DEF IsMap
<1> HIDE DEF more, n
<1>9. h = [i \in DOMAIN more |-> built_on(more, i, h)]
  BY <1>1, <1>7, <1>8
<1> QED BY <1>9 DEF Solves, more, n

LEMMA NoIterationsSolved == LineageSolved([EmptyStore EXCEPT !.threads = <<>>]) /\ LineageSolved(EmptyStore)
<1>1. EmptyStore.iterations = <<>> /\ DOMAIN <<>> = {}
  BY DEF EmptyStore
<1>2. \A f : Solves(<<>>, f) <=> f = [i \in {} |-> built_on(<<>>, i, f)]
  BY <1>1 DEF Solves
<1> QED BY <1>1, <1>2 DEF LineageSolved, Patched, EmptyStore

\* So that is what ancestry is.
LEMMA AncestryIsPatched == LineageSolved(store) => ancestry = Patched(store)
<1> SUFFICES ASSUME LineageSolved(store) PROVE ancestry = Patched(store)
  OBVIOUS
<1>1. Solves(store.iterations, ancestry)
  <2>1. \E f : f = [i \in DOMAIN store.iterations |-> built_on(store.iterations, i, f)]
    BY DEF LineageSolved, Solves
  <2> QED BY <2>1 DEF Solves, ancestry
<1> QED BY <1>1 DEF LineageSolved

-----------------------------------------------------------------------------
(* What the statements do to a store. *)

LEMMA BoundsAreNat == MaxThreads \in Nat /\ MaxShas \in Nat
BY ServiceAssumption

LEMMA StoreIsRecord ==
    ASSUME NEW s \in Stores
    PROVE  s = [threads |-> s.threads, iterations |-> s.iterations, patches |-> s.patches]
BY DEF Stores

LEMMA StoreUpdates ==
    ASSUME NEW s \in Stores, NEW q
    PROVE  /\ [s EXCEPT !.threads = q]
                = [threads |-> q, iterations |-> s.iterations, patches |-> s.patches]
           /\ [s EXCEPT !.iterations = q]
                = [threads |-> s.threads, iterations |-> q, patches |-> s.patches]
           /\ [s EXCEPT !.patches = q]
                = [threads |-> s.threads, iterations |-> s.iterations, patches |-> q]
BY DEF Stores

LEMMA RowTypes ==
    ASSUME NEW its \in Seq(IterationRows), NEW i \in DOMAIN its
    PROVE  its[i] \in IterationRows /\ its[i].sha \in Nat /\ its[i].thread \in Nat
           /\ its[i].parent \in Nat
<1>1. its[i] \in IterationRows
  OBVIOUS
<1> QED BY <1>1 DEF IterationRows

deployed(s, sha, q) == [s EXCEPT !.patches[sha] = q]

row_added(s, x) == [s EXCEPT !.iterations = Append(@, x)]

previewed(s, t, sha) == [s EXCEPT !.threads[t].preview = sha]

\* The patches of the other shas are what they were.
SamePatches(s, w, sha) == \A r \in 1 .. MaxShas : r # sha => w.patches[r] = s.patches[r]

\* PatchRepo.put, for the sha just drawn.
LEMMA PutKeepsSound ==
    ASSUME NEW s, NEW main \in Nat, NEW n \in Nat, SoundStore(s, main, n), main <= n,
           n < MaxShas, NEW q \in Seq(Nat)
    PROVE  LET w == deployed(s, n + 1, q)
           IN /\ SoundStore(w, main, n + 1)
              /\ w.threads = s.threads /\ w.iterations = s.iterations
              /\ w.patches[n + 1] = q
              /\ SamePatches(s, w, n + 1)
              /\ n + 1 \notin RecordedIn(w)
<1> DEFINE w == deployed(s, n + 1, q)
<1>1. s \in Stores /\ MaxShas \in Nat
  BY BoundsAreNat DEF SoundStore
<1>2. /\ w.threads = s.threads /\ w.iterations = s.iterations
      /\ w.patches = [s.patches EXCEPT ![n + 1] = q]
      /\ w = [threads |-> w.threads, iterations |-> w.iterations, patches |-> w.patches]
  BY <1>1, StoreIsRecord DEF deployed
<1>3. /\ s.patches \in [1 .. MaxShas -> Seq(Nat)] /\ n + 1 \in 1 .. MaxShas
  BY <1>1 DEF Stores
<1>4. /\ w.patches \in [1 .. MaxShas -> Seq(Nat)]
      /\ w.patches[n + 1] = q
      /\ \A sha \in 1 .. MaxShas : sha # n + 1 => w.patches[sha] = s.patches[sha]
  BY <1>2, <1>3
<1>5. w \in Stores
  BY <1>1, <1>2, <1>4 DEF Stores
<1> HIDE DEF w
<1>6. \A i \in DOMAIN s.iterations : s.iterations[i].sha \in 1 .. n
  <2>1. s.iterations \in Seq(IterationRows)
    BY <1>1 DEF Stores
  <2>2. \A i \in DOMAIN s.iterations : s.iterations[i].sha \in Nat
    BY <2>1, RowTypes
  <2> QED BY <2>2 DEF SoundStore, IterationsInOrder
<1>7. IterationsInOrder(w, main, n + 1)
  <2>1. \A i \in DOMAIN s.iterations : s.iterations[i].sha <= n + 1
    BY <1>6
  <2> QED BY <1>2, <2>1 DEF SoundStore, IterationsInOrder
<1>8. PatchesDrawn(w, main, n + 1)
  <2>1. ASSUME NEW sha \in 1 .. MaxShas, sha <= main \/ sha > n + 1 PROVE w.patches[sha] = <<>>
    <3>1. sha # n + 1 /\ (sha <= main \/ sha > n)
      BY <2>1
    <3> QED BY <3>1, <1>4 DEF SoundStore, PatchesDrawn
  <2> QED BY <2>1 DEF PatchesDrawn
<1>9. ThreadsKnown(w, main)
  BY <1>2 DEF SoundStore, ThreadsKnown, ShownIn, RecordedIn
<1>10. Patched(w) = Patched(s)
  <2>1. \A i \in DOMAIN s.iterations :
            s.iterations[i].sha \in 1 .. MaxShas /\ s.iterations[i].sha # n + 1
    BY <1>1, <1>6
  <2>2. \A i \in DOMAIN s.iterations :
            w.patches[s.iterations[i].sha] = s.patches[s.iterations[i].sha]
    BY <1>4, <2>1
  <2> QED BY <1>2, <2>2 DEF Patched
<1>11. LineageSolved(w)
  BY <1>2, <1>10 DEF SoundStore, LineageSolved
<1>12. n + 1 \notin RecordedIn(w)
  BY <1>2, <1>6 DEF RecordedIn
<1>13. Len(w.threads) <= MaxThreads
  BY <1>2 DEF SoundStore
<1> QED BY <1>2, <1>4, <1>5, <1>7, <1>8, <1>9, <1>11, <1>12, <1>13 DEF SoundStore, w, SamePatches

\* add_iteration's row, once the preview is deployed.
LEMMA RowKeepsSound ==
    ASSUME NEW s, NEW main \in Nat, NEW n \in Nat, SoundStore(s, main, n),
           NEW sha \in 1 .. MaxShas, main < sha, sha <= n, sha \notin RecordedIn(s),
           NEW parent \in ShownIn(s, main), parent # 0,
           s.patches[sha] = Append(s.patches[parent], sha),
           NEW t \in DOMAIN s.threads
    PROVE  LET w == row_added(s, [thread |-> t, sha |-> sha, parent |-> parent])
           IN /\ SoundStore(w, main, n)
              /\ w.threads = s.threads /\ w.patches = s.patches
              /\ RecordedIn(w) = RecordedIn(s) \cup {sha}
<1> DEFINE its == s.iterations
           x == [thread |-> t, sha |-> sha, parent |-> parent]
           w == row_added(s, x)
           k == Len(its) + 1
<1> HIDE DEF x
<1>1. /\ s \in Stores /\ MaxShas \in Nat
      /\ its \in Seq(IterationRows) /\ s.threads \in Seq(ThreadRows)
      /\ s.patches \in [1 .. MaxShas -> Seq(Nat)]
  BY BoundsAreNat DEF SoundStore, Stores
<1>2. /\ w.threads = s.threads /\ w.patches = s.patches /\ w.iterations = Append(its, x)
      /\ w = [threads |-> w.threads, iterations |-> w.iterations, patches |-> w.patches]
  <2>1. w = [threads |-> s.threads, iterations |-> Append(s.iterations, x), patches |-> s.patches]
    BY <1>1, StoreUpdates DEF row_added
  <2> HIDE DEF w
  <2> QED BY <2>1
<1>3. parent \in Nat /\ t \in Nat /\ sha \in Nat
  <2>1. \A i \in DOMAIN its : its[i].sha \in Nat
    BY <1>1, RowTypes
  <2>2. t \in 1 .. Len(s.threads)
    BY <1>1
  <2> QED BY <1>1, <2>1, <2>2 DEF ShownIn, RecordedIn
<1>4. x \in IterationRows /\ x.thread = t /\ x.sha = sha /\ x.parent = parent
  BY <1>3 DEF IterationRows, x
<1> HIDE DEF w
<1>5. /\ Append(its, x) \in Seq(IterationRows)
      /\ DOMAIN its = 1 .. Len(its) /\ DOMAIN Append(its, x) = 1 .. k /\ Len(its) \in Nat
      /\ \A i \in DOMAIN its : Append(its, x)[i] = its[i]
      /\ Append(its, x)[k] = x
      /\ \A i \in DOMAIN Append(its, x) : i \in DOMAIN its \/ i = k
      /\ k \in DOMAIN Append(its, x) /\ k \notin DOMAIN its
  <2>1. /\ Append(its, x) \in Seq(IterationRows)
        /\ DOMAIN its = 1 .. Len(its) /\ DOMAIN Append(its, x) = 1 .. k /\ Len(its) \in Nat
        /\ \A i \in DOMAIN its : Append(its, x)[i] = its[i]
        /\ Append(its, x)[k] = x
    BY <1>1, <1>4, RowsAppended
  <2> QED BY <2>1
<1>6. w \in Stores
  BY <1>1, <1>2, <1>5 DEF Stores
<1>7. RecordedIn(w) = RecordedIn(s) \cup {sha}
  <2>1. RecordedIn(w) = {Append(its, x)[i].sha : i \in DOMAIN Append(its, x)}
    BY <1>2 DEF RecordedIn
  <2>2. DOMAIN Append(its, x) = DOMAIN its \cup {k}
    BY <1>5
  <2>3. {Append(its, x)[i].sha : i \in DOMAIN its} = RecordedIn(s)
    BY <1>5 DEF RecordedIn
  <2>4. Append(its, x)[k].sha = sha
    BY <1>4, <1>5
  <2> QED BY <2>1, <2>2, <2>3, <2>4
<1>8. older(Append(its, x), k) = {j \in DOMAIN its : its[j].sha = parent}
  <2>1. 1 .. k - 1 = DOMAIN its
    BY <1>5
  <2> QED BY <2>1, <1>4, <1>5 DEF older
<1>9. \A i, j \in DOMAIN its : its[i].sha = its[j].sha => i = j
  BY DEF SoundStore, IterationsInOrder
<1>10. IterationsInOrder(w, main, n)
  <2>1. ASSUME NEW i \in DOMAIN its
        PROVE  LET it == Append(its, x)[i]
               IN /\ it.thread \in DOMAIN s.threads
                  /\ main < it.sha /\ it.sha <= n /\ it.sha <= MaxShas
                  /\ it.parent = main \/ older(Append(its, x), i) # {}
    <3>1. Append(its, x)[i] = its[i] /\ older(Append(its, x), i) = older(its, i)
      BY <1>1, <1>4, <1>5, AppendKeepsOlder
    <3> QED BY <3>1 DEF SoundStore, IterationsInOrder
  <2>2. x.parent = main \/ older(Append(its, x), k) # {}
    <3>1. CASE parent = main
      BY <3>1, <1>4
    <3>2. CASE parent \in RecordedIn(s)
      BY <3>2, <1>8 DEF RecordedIn
    <3> QED BY <3>1, <3>2 DEF ShownIn
  <2>3. \A i \in DOMAIN Append(its, x) :
            LET it == Append(its, x)[i]
            IN /\ it.thread \in DOMAIN s.threads
               /\ main < it.sha /\ it.sha <= n /\ it.sha <= MaxShas
               /\ it.parent = main \/ older(Append(its, x), i) # {}
    <3> SUFFICES ASSUME NEW i \in DOMAIN Append(its, x), i \notin DOMAIN its
                 PROVE  LET it == Append(its, x)[i]
                        IN /\ it.thread \in DOMAIN s.threads
                           /\ main < it.sha /\ it.sha <= n /\ it.sha <= MaxShas
                           /\ it.parent = main \/ older(Append(its, x), i) # {}
      BY <2>1
    <3>1. i = k /\ Append(its, x)[i] = x
      BY <1>5
    <3>2. x.thread \in DOMAIN s.threads /\ main < x.sha /\ x.sha <= n /\ x.sha <= MaxShas
      BY <1>1, <1>4
    <3> HIDE DEF x
    <3> QED BY <3>1, <3>2, <2>2
  <2>4. \A i \in DOMAIN its : Append(its, x)[i].sha # Append(its, x)[k].sha
    BY <1>4, <1>5 DEF RecordedIn
  <2>5. \A i, j \in DOMAIN Append(its, x) : Append(its, x)[i].sha = Append(its, x)[j].sha => i = j
    BY <2>4, <1>5, <1>9
  <2> QED BY <2>3, <2>5, <1>2 DEF IterationsInOrder
<1>11. PatchesDrawn(w, main, n)
  BY <1>2 DEF SoundStore, PatchesDrawn
<1>12. ThreadsKnown(w, main)
  BY <1>2, <1>7 DEF SoundStore, ThreadsKnown, ShownIn
<1>13. s.patches[sha] = built_on(Append(its, x), k, Patched(s))
  <2>1. CASE parent = main
    <3>1. older(Append(its, x), k) = {}
      <4>1. \A j \in DOMAIN its : its[j].sha \in Nat /\ main < its[j].sha
        BY <1>1, RowTypes DEF SoundStore, IterationsInOrder
      <4> QED BY <4>1, <2>1, <1>8
    <3>2. s.patches[main] = <<>>
      <4>1. main \in 1 .. MaxShas
        BY <2>1, <1>1
      <4> QED BY <4>1 DEF SoundStore, PatchesDrawn
    <3> QED BY <3>1, <3>2, <2>1, <1>4, <1>5 DEF built_on
  <2>2. CASE parent # main
    <3> DEFINE c == CHOOSE j \in older(Append(its, x), k) : TRUE
    <3>1. older(Append(its, x), k) # {}
      BY <2>2, <1>8 DEF ShownIn, RecordedIn
    <3>2. c \in DOMAIN its /\ its[c].sha = parent
      BY <3>1, <1>8
    <3>3. Patched(s)[c] = s.patches[parent]
      BY <3>2 DEF Patched
    <3>4. built_on(Append(its, x), k, Patched(s)) = Append(Patched(s)[c], x.sha)
      BY <3>1, <1>5 DEF built_on
    <3> HIDE DEF c
    <3> QED BY <3>3, <3>4, <1>4
  <2> QED BY <2>1, <2>2
<1>14. LineageSolved(w)
  <2> DEFINE h == [i \in 1 .. k |-> IF i \in DOMAIN its THEN Patched(s)[i] ELSE s.patches[sha]]
  <2>1. Solves(its, Patched(s)) /\ \A f, g : Solves(its, f) /\ Solves(its, g) => f = g
    BY DEF SoundStore, LineageSolved
  <2>2. Solves(Append(its, x), h)
    <3> DEFINE f == Patched(s)
    <3>1. Solves(its, f)
      BY <2>1
    <3>2. /\ DOMAIN h = 1 .. k /\ IsMap(h)
          /\ \A i \in DOMAIN its : h[i] = f[i]
      BY <1>5 DEF IsMap
    <3>3. h[k] = built_on(Append(its, x), k, f)
      BY <1>5, <1>13
    <3>4. its \in Seq(IterationRows) /\ x \in IterationRows
      BY <1>1, <1>4
    <3> HIDE DEF f, h, its
    <3> QED BY <3>1, <3>2, <3>3, <3>4, AppendIsSolved
  <2>3. \A f, g : Solves(Append(its, x), f) /\ Solves(Append(its, x), g) => f = g
    BY <2>1, <1>1, <1>4, AppendStaysUnique
  <2>4. Patched(w) = h
    <3>1. Patched(w) = [i \in 1 .. k |-> s.patches[Append(its, x)[i].sha]]
      BY <1>2, <1>5 DEF Patched
    <3>2. ASSUME NEW i \in 1 .. k PROVE s.patches[Append(its, x)[i].sha] = h[i]
      <4>1. CASE i \in DOMAIN its
        BY <4>1, <1>5 DEF Patched
      <4>2. CASE i = k
        BY <4>2, <1>4, <1>5
      <4> QED BY <4>1, <4>2, <1>5
    <3> QED BY <3>1, <3>2
  <2> HIDE DEF h
  <2> QED BY <2>2, <2>3, <2>4, <1>2 DEF LineageSolved
<1>15. Len(w.threads) <= MaxThreads
  BY <1>2 DEF SoundStore
<1> QED BY <1>2, <1>6, <1>7, <1>10, <1>11, <1>12, <1>14, <1>15 DEF SoundStore, w, x

\* A statement on the rows of the threads.
LEMMA RowsKeepSound ==
    ASSUME NEW s, NEW main, NEW n, SoundStore(s, main, n),
           NEW w \in Stores, w.iterations = s.iterations, w.patches = s.patches,
           DOMAIN s.threads \subseteq DOMAIN w.threads, Len(w.threads) <= MaxThreads,
           ThreadsKnown(w, main)
    PROVE  /\ SoundStore(w, main, n)
           /\ RecordedIn(w) = RecordedIn(s) /\ Orphans(w) = Orphans(s)
<1>1. RecordedIn(w) = RecordedIn(s)
  BY DEF RecordedIn
<1>2. Orphans(w) = Orphans(s)
  BY <1>1 DEF Orphans
<1>3. IterationsInOrder(w, main, n)
  BY DEF SoundStore, IterationsInOrder
<1>4. PatchesDrawn(w, main, n)
  BY DEF SoundStore, PatchesDrawn
<1>5. LineageSolved(w)
  BY DEF SoundStore, LineageSolved, Patched
<1> QED BY <1>1, <1>2, <1>3, <1>4, <1>5 DEF SoundStore

LEMMA ThreadRowTypes ==
    ASSUME NEW q \in Seq(ThreadRows), NEW t \in DOMAIN q
    PROVE  /\ q[t] \in ThreadRows
           /\ q[t].base \in Nat /\ q[t].preview \in Nat /\ q[t].comments \in Nat
           /\ t \in 1 .. Len(q) /\ Len(q) \in Nat
<1>1. q[t] \in ThreadRows
  OBVIOUS
<1> QED BY <1>1 DEF ThreadRows

\* What with_status, with_comment and add_iteration write to the row of a thread.
Rewritten(s, w, t, row) ==
    /\ w \in Stores /\ w.iterations = s.iterations /\ w.patches = s.patches
    /\ DOMAIN w.threads = DOMAIN s.threads /\ Len(w.threads) = Len(s.threads)
    /\ w.threads[t] = row
    /\ \A r \in DOMAIN s.threads : r # t => w.threads[r] = s.threads[r]

\* A row is rewritten, the others stay.
LEMMA RowRewritten ==
    ASSUME NEW s \in Stores, NEW t \in DOMAIN s.threads, NEW row \in ThreadRows
    PROVE  Rewritten(s, [s EXCEPT !.threads = [s.threads EXCEPT ![t] = row]], t, row)
<1> DEFINE q == [s.threads EXCEPT ![t] = row]
           w == [s EXCEPT !.threads = q]
<1>1. s.threads \in Seq(ThreadRows) /\ t \in 1 .. Len(s.threads) /\ Len(s.threads) \in Nat
  BY DEF Stores
<1>2. /\ q \in Seq(ThreadRows) /\ Len(q) = Len(s.threads) /\ DOMAIN q = DOMAIN s.threads
      /\ q[t] = row /\ \A r \in DOMAIN s.threads : r # t => q[r] = s.threads[r]
  BY <1>1
<1> HIDE DEF q
<1>3. w = [threads |-> q, iterations |-> s.iterations, patches |-> s.patches]
  BY StoreUpdates
<1> HIDE DEF w
<1>4. w \in Stores /\ w.threads = q /\ w.iterations = s.iterations /\ w.patches = s.patches
  BY <1>2, <1>3 DEF Stores
<1>5. Rewritten(s, w, t, row)
  BY <1>2, <1>4 DEF Rewritten
<1> QED BY <1>5 DEF w, q

\* A record's field, written.
LEMMA FieldWritten ==
    ASSUME NEW row \in ThreadRows, NEW x
    PROVE  /\ [row EXCEPT !.status = x] = [base |-> row.base, preview |-> row.preview,
                                           comments |-> row.comments, status |-> x]
           /\ [row EXCEPT !.comments = x] = [base |-> row.base, preview |-> row.preview,
                                             comments |-> x, status |-> row.status]
           /\ [row EXCEPT !.preview = x] = [base |-> row.base, preview |-> x,
                                            comments |-> row.comments, status |-> row.status]
BY DEF ThreadRows

LEMMA ThreadWritten ==
    ASSUME NEW s \in Stores, NEW t \in DOMAIN s.threads, NEW x
    PROVE  /\ [s EXCEPT !.threads[t].status = x]
                = [s EXCEPT !.threads = [s.threads EXCEPT ![t] = [s.threads[t] EXCEPT !.status = x]]]
           /\ [s EXCEPT !.threads[t].preview = x]
                = [s EXCEPT !.threads = [s.threads EXCEPT ![t] = [s.threads[t] EXCEPT !.preview = x]]]
           /\ [s EXCEPT !.threads[t].comments = x]
                = [s EXCEPT !.threads = [s.threads EXCEPT ![t] = [s.threads[t] EXCEPT !.comments = x]]]
OBVIOUS

\* The statuses, all of them.
Statuses == {"open", InFlight, "preview_ready"} \cup Closed

\* A status written leaves a store sound.
LEMMA StatusKeepsSound ==
    ASSUME NEW s, NEW main, NEW n, SoundStore(s, main, n),
           NEW t \in DOMAIN s.threads, NEW x \in Statuses
    PROVE  LET w == with_status(s, t, x)
           IN /\ SoundStore(w, main, n) /\ RecordedIn(w) = RecordedIn(s)
              /\ Len(w.threads) = Len(s.threads)
              /\ Orphans(w) = Orphans(s) /\ Empty(w) = Empty(s)
<1> DEFINE row == [s.threads[t] EXCEPT !.status = x]
           w == with_status(s, t, x)
<1>1. s \in Stores /\ s.threads \in Seq(ThreadRows)
  BY DEF SoundStore, Stores
<1>2. s.threads[t] \in ThreadRows
  BY <1>1, ThreadRowTypes
<1>3. row = [base |-> s.threads[t].base, preview |-> s.threads[t].preview,
             comments |-> s.threads[t].comments, status |-> x]
  BY <1>2, FieldWritten
<1>4. row \in ThreadRows
  BY <1>1, <1>3, ThreadRowTypes DEF ThreadRows, Statuses
<1>5. w = [s EXCEPT !.threads = [s.threads EXCEPT ![t] = row]]
  BY <1>1, ThreadWritten DEF with_status
<1> HIDE DEF row, w
<1>6. Rewritten(s, w, t, row)
  BY <1>1, <1>4, <1>5, RowRewritten
<1>7. \A r \in DOMAIN s.threads : /\ w.threads[r].base = s.threads[r].base
                                  /\ w.threads[r].preview = s.threads[r].preview
                                  /\ w.threads[r].comments = s.threads[r].comments
  BY <1>3, <1>6 DEF Rewritten
<1>8. ThreadsKnown(w, main)
  BY <1>6, <1>7 DEF SoundStore, ThreadsKnown, ShownIn, RecordedIn, Rewritten
<1>9. /\ SoundStore(w, main, n)
      /\ RecordedIn(w) = RecordedIn(s) /\ Orphans(w) = Orphans(s)
  <2>1. Len(w.threads) <= MaxThreads
    BY <1>6 DEF Rewritten, SoundStore
  <2> QED BY <2>1, <1>6, <1>8, RowsKeepSound DEF Rewritten
<1>10. Empty(w) = Empty(s)
  BY <1>6, <1>7 DEF Empty, Rewritten
<1> QED BY <1>6, <1>9, <1>10 DEF w, Rewritten

\* So does a comment.
LEMMA CommentKeepsSound ==
    ASSUME NEW s, NEW main, NEW n, SoundStore(s, main, n), NEW t \in DOMAIN s.threads
    PROVE  LET w == with_comment(s, t)
           IN /\ SoundStore(w, main, n) /\ RecordedIn(w) = RecordedIn(s)
              /\ Len(w.threads) = Len(s.threads)
              /\ Orphans(w) = Orphans(s) /\ Empty(w) = Empty(s) \ {t}
<1> DEFINE x == s.threads[t].comments + 1
           row == [s.threads[t] EXCEPT !.comments = x]
           w == with_comment(s, t)
<1>1. s \in Stores /\ s.threads \in Seq(ThreadRows)
  BY DEF SoundStore, Stores
<1>2. s.threads[t] \in ThreadRows
  BY <1>1, ThreadRowTypes
<1>3. row = [base |-> s.threads[t].base, preview |-> s.threads[t].preview,
             comments |-> x, status |-> s.threads[t].status]
  BY <1>2, FieldWritten
<1>a. x \in Nat /\ x # 0
  BY <1>1, ThreadRowTypes
<1>5. w = [s EXCEPT !.threads = [s.threads EXCEPT ![t] = row]]
  BY <1>1, ThreadWritten DEF with_comment
<1> HIDE DEF row, w, x
<1>4. row \in ThreadRows
  BY <1>1, <1>2, <1>3, <1>a DEF ThreadRows
<1>6. Rewritten(s, w, t, row)
  BY <1>1, <1>4, <1>5, RowRewritten
<1>7. \A r \in DOMAIN s.threads : /\ w.threads[r].base = s.threads[r].base
                                  /\ w.threads[r].preview = s.threads[r].preview
                                  /\ r # t => w.threads[r].comments = s.threads[r].comments
  BY <1>3, <1>6 DEF Rewritten
<1>b. w.threads[t].comments # 0
  BY <1>3, <1>6, <1>a DEF Rewritten
<1>8. ThreadsKnown(w, main)
  BY <1>6, <1>7 DEF SoundStore, ThreadsKnown, ShownIn, RecordedIn, Rewritten
<1>9. /\ SoundStore(w, main, n)
      /\ RecordedIn(w) = RecordedIn(s) /\ Orphans(w) = Orphans(s)
  <2>1. Len(w.threads) <= MaxThreads
    BY <1>6 DEF Rewritten, SoundStore
  <2> QED BY <2>1, <1>6, <1>8, RowsKeepSound DEF Rewritten
<1>10. Empty(w) = Empty(s) \ {t}
  BY <1>6, <1>7, <1>b DEF Empty, Rewritten
<1> QED BY <1>6, <1>9, <1>10 DEF w, Rewritten

\* The thread's preview, after the row of the iteration.
LEMMA PreviewKeepsSound ==
    ASSUME NEW s, NEW main, NEW n, SoundStore(s, main, n),
           NEW t \in DOMAIN s.threads, NEW x \in RecordedIn(s)
    PROVE  LET w == previewed(s, t, x)
           IN /\ SoundStore(w, main, n) /\ RecordedIn(w) = RecordedIn(s)
              /\ Len(w.threads) = Len(s.threads)
              /\ Orphans(w) = Orphans(s) /\ Empty(w) = Empty(s)
<1> DEFINE row == [s.threads[t] EXCEPT !.preview = x]
           w == previewed(s, t, x)
<1>1. s \in Stores /\ s.threads \in Seq(ThreadRows) /\ s.iterations \in Seq(IterationRows)
  BY DEF SoundStore, Stores
<1>2. s.threads[t] \in ThreadRows
  BY <1>1, ThreadRowTypes
<1>3. row = [base |-> s.threads[t].base, preview |-> x,
             comments |-> s.threads[t].comments, status |-> s.threads[t].status]
  BY <1>2, FieldWritten
<1>a. x \in Nat
  BY <1>1, RowTypes DEF RecordedIn
<1>5. w = [s EXCEPT !.threads = [s.threads EXCEPT ![t] = row]]
  BY <1>1, ThreadWritten DEF previewed
<1> HIDE DEF row, w
<1>4. row \in ThreadRows
  BY <1>1, <1>2, <1>3, <1>a DEF ThreadRows
<1>6. Rewritten(s, w, t, row)
  BY <1>1, <1>4, <1>5, RowRewritten
<1>7. \A r \in DOMAIN s.threads : /\ w.threads[r].base = s.threads[r].base
                                  /\ w.threads[r].preview \in {x, s.threads[r].preview}
                                  /\ w.threads[r].comments = s.threads[r].comments
  BY <1>3, <1>6 DEF Rewritten
<1>8. ThreadsKnown(w, main)
  <2>1. RecordedIn(w) = RecordedIn(s)
    BY <1>6 DEF RecordedIn, Rewritten
  <2> QED BY <2>1, <1>6, <1>7 DEF SoundStore, ThreadsKnown, ShownIn, Rewritten
<1>9. /\ SoundStore(w, main, n)
      /\ RecordedIn(w) = RecordedIn(s) /\ Orphans(w) = Orphans(s)
  <2>1. Len(w.threads) <= MaxThreads
    BY <1>6 DEF Rewritten, SoundStore
  <2> QED BY <2>1, <1>6, <1>8, RowsKeepSound DEF Rewritten
<1>10. Empty(w) = Empty(s)
  BY <1>6, <1>7 DEF Empty, Rewritten
<1> QED BY <1>6, <1>9, <1>10 DEF w, Rewritten

\* So does a thread, begun on something that is shown.
LEMMA ThreadKeepsSound ==
    ASSUME NEW s, NEW main \in Nat, NEW n, SoundStore(s, main, n),
           NEW base \in ShownIn(s, main), Len(s.threads) < MaxThreads
    PROVE  LET w == with_thread(s, base)
           IN /\ SoundStore(w, main, n) /\ RecordedIn(w) = RecordedIn(s)
              /\ Len(w.threads) = Len(s.threads) + 1
              /\ Len(w.threads) \in DOMAIN w.threads
              /\ Orphans(w) = Orphans(s) /\ Empty(w) = Empty(s) \cup {Len(w.threads)}
<1> DEFINE row == [base |-> base, status |-> "open", preview |-> 0, comments |-> 0]
           q == Append(s.threads, row)
           w == with_thread(s, base)
<1>1. s \in Stores /\ s.threads \in Seq(ThreadRows) /\ s.iterations \in Seq(IterationRows)
  BY DEF SoundStore, Stores
<1>2. base \in Nat
  BY <1>1, RowTypes DEF ShownIn, RecordedIn
<1>3. row \in ThreadRows /\ row.base = base /\ row.preview = 0 /\ row.comments = 0
  BY <1>2 DEF ThreadRows
<1>4. w = [threads |-> q, iterations |-> s.iterations, patches |-> s.patches]
  <2> HIDE DEF row
  <2> QED BY <1>1, StoreUpdates DEF with_thread, row
<1> HIDE DEF row, w
<1>5. /\ q \in Seq(ThreadRows) /\ Len(q) = Len(s.threads) + 1
      /\ DOMAIN q = 1 .. Len(s.threads) + 1 /\ DOMAIN s.threads = 1 .. Len(s.threads)
      /\ Len(s.threads) \in Nat
      /\ \A r \in DOMAIN s.threads : q[r] = s.threads[r]
      /\ q[Len(s.threads) + 1] = row
  BY <1>1, <1>3
<1> HIDE DEF q
<1>6. w \in Stores /\ w.threads = q /\ w.iterations = s.iterations /\ w.patches = s.patches
  BY <1>1, <1>4, <1>5 DEF Stores
<1>7. ThreadsKnown(w, main)
  <2>1. RecordedIn(w) = RecordedIn(s)
    BY <1>6 DEF RecordedIn
  <2>2. ASSUME NEW r \in DOMAIN q
        PROVE  q[r].base \in ShownIn(s, main) /\ q[r].preview \in {0} \cup RecordedIn(s)
    <3>1. CASE r \in DOMAIN s.threads
      BY <3>1, <1>5 DEF SoundStore, ThreadsKnown
    <3>2. CASE r = Len(s.threads) + 1
      BY <3>2, <1>3, <1>5
    <3> QED BY <3>1, <3>2, <1>5
  <2> QED BY <2>1, <2>2, <1>6 DEF ThreadsKnown, ShownIn
<1>8. Len(w.threads) <= MaxThreads
  BY <1>5, <1>6, BoundsAreNat
<1>9. /\ SoundStore(w, main, n)
      /\ RecordedIn(w) = RecordedIn(s) /\ Orphans(w) = Orphans(s)
  <2>1. DOMAIN s.threads \subseteq DOMAIN w.threads
    BY <1>5, <1>6
  <2> QED BY <2>1, <1>6, <1>7, <1>8, RowsKeepSound
<1>10. Empty(w) = Empty(s) \cup {Len(q)}
  <2>1. \A r \in DOMAIN q : r \in DOMAIN s.threads \/ r = Len(q)
    BY <1>5
  <2>2. Len(q) \in DOMAIN q /\ q[Len(q)].comments = 0 /\ DOMAIN s.threads \subseteq DOMAIN q
    BY <1>3, <1>5
  <2> QED BY <2>1, <2>2, <1>5, <1>6 DEF Empty
<1>11. Len(w.threads) \in DOMAIN w.threads
  BY <1>3, <1>5, <1>6
<1> QED BY <1>5, <1>6, <1>9, <1>10, <1>11 DEF w

-----------------------------------------------------------------------------
(* The commits of a turn. *)

\* A commit of the landing of sha: at most the preview of sha is an orphan more.
Landed(s, w, main, sha) ==
    /\ SoundStore(w, main, sha)
    /\ RecordedIn(s) \subseteq RecordedIn(w)
    /\ Len(w.threads) = Len(s.threads)
    /\ Orphans(w) \subseteq Orphans(s) \cup {sha}
    /\ Empty(w) = Empty(s)

LEMMA ShownShas ==
    ASSUME NEW s, NEW main \in Nat \ {0}, NEW n \in Nat, SoundStore(s, main, n), main <= n,
           n < MaxShas, NEW parent \in ShownIn(s, main)
    PROVE  parent \in 1 .. n /\ parent \in 1 .. MaxShas
<1>1. s.iterations \in Seq(IterationRows)
  BY DEF SoundStore, Stores
<1>2. ASSUME NEW i \in DOMAIN s.iterations PROVE s.iterations[i].sha \in 1 .. n
  BY <1>1, RowTypes DEF SoundStore, IterationsInOrder
<1>3. parent \in 1 .. n
  BY <1>2 DEF ShownIn, RecordedIn
<1> QED BY <1>3, BoundsAreNat

\* Patches put where nothing was leave a store a landing may leave.
LEMMA PutLands ==
    ASSUME NEW s, NEW main \in Nat, NEW n \in Nat, SoundStore(s, main, n), main <= n,
           n < MaxShas, NEW q \in Seq(Nat)
    PROVE  Landed(s, deployed(s, n + 1, q), main, n + 1)
<1> DEFINE w == deployed(s, n + 1, q)
<1>1. /\ SoundStore(w, main, n + 1)
      /\ w.threads = s.threads /\ w.iterations = s.iterations
      /\ SamePatches(s, w, n + 1)
  BY PutKeepsSound
<1> HIDE DEF w
<1>2. Landed(s, w, main, n + 1)
  BY <1>1 DEF Landed, RecordedIn, Orphans, Empty, SamePatches
<1> QED BY <1>2 DEF w

\* Every commit of a landing leaves the store sound, the last with no orphan more.
LEMMA LandingCommits ==
    ASSUME NEW s, NEW main \in Nat \ {0}, NEW n \in Nat, SoundStore(s, main, n), main <= n,
           n < MaxShas, NEW parent \in ShownIn(s, main), NEW t \in DOMAIN s.threads
    PROVE  LET c == landing_commits(s, t, n + 1, parent)
           IN /\ Len(c) \in Nat \ {0}
              /\ \A k \in 1 .. Len(c) : Landed(s, c[k], main, n + 1)
              /\ Orphans(Last(c)) \subseteq Orphans(s)
<1> DEFINE sha == n + 1
           p == lineage(s, parent, sha)
           put == put_commits(s, sha, p)
           d == deployed(s, sha, p)
           x == [thread |-> t, sha |-> sha, parent |-> parent]
           s1 == row_added(d, x)
           s2 == previewed(s1, t, sha)
           s3 == with_status(s2, t, "preview_ready")
           L == Len(p)
<1>1. /\ parent \in 1 .. n /\ parent \in 1 .. MaxShas /\ sha \in 1 .. MaxShas /\ parent # sha
      /\ sha \in Nat
  BY ShownShas, BoundsAreNat
<1>2. p \in Seq(Nat) /\ L \in Nat \ {0} /\ DOMAIN p = 1 .. L /\ SubSeq(p, 1, L) = p
  <2>1. s.patches[parent] \in Seq(Nat)
    BY <1>1 DEF SoundStore, Stores
  <2>2. p \in Seq(Nat) /\ L \in Nat \ {0} /\ DOMAIN p = 1 .. L
    BY <2>1, <1>1 DEF lineage
  <2> QED BY <2>2, SubSeqFull
<1>3. /\ SoundStore(d, main, sha) /\ d.threads = s.threads /\ d.iterations = s.iterations
      /\ d.patches[sha] = p /\ sha \notin RecordedIn(d)
      /\ SamePatches(s, d, sha)
  BY <1>2, PutKeepsSound
<1>4. Landed(s, d, main, sha)
  BY <1>2, PutLands
<1>5. d.patches[sha] = Append(d.patches[parent], sha)
  BY <1>1, <1>3 DEF lineage, SamePatches
<1>6. parent \in ShownIn(d, main) /\ t \in DOMAIN d.threads
  BY <1>3 DEF ShownIn, RecordedIn
<1>7. /\ SoundStore(s1, main, sha) /\ s1.threads = d.threads /\ s1.patches = d.patches
      /\ RecordedIn(s1) = RecordedIn(d) \cup {sha}
  <2> HIDE DEF d, p
  <2> QED BY <1>1, <1>3, <1>5, <1>6, RowKeepsSound
<1>8. Orphans(s1) \subseteq Orphans(s) /\ Landed(s, s1, main, sha)
  <2> HIDE DEF s1, d, p
  <2>1. RecordedIn(d) = RecordedIn(s)
    BY <1>3 DEF RecordedIn
  <2>2. Orphans(s1) \subseteq Orphans(s)
    BY <2>1, <1>3, <1>7 DEF Orphans, SamePatches
  <2>3. Empty(s1) = Empty(s)
    BY <1>3, <1>7 DEF Empty
  <2> QED BY <2>1, <2>2, <2>3, <1>3, <1>7 DEF Landed
<1>9. /\ SoundStore(s2, main, sha) /\ RecordedIn(s2) = RecordedIn(s1)
      /\ Len(s2.threads) = Len(s1.threads) /\ Orphans(s2) = Orphans(s1) /\ Empty(s2) = Empty(s1)
  <2>1. t \in DOMAIN s1.threads /\ sha \in RecordedIn(s1)
    BY <1>6, <1>7
  <2> HIDE DEF s1, d, p
  <2> QED BY <2>1, <1>7, PreviewKeepsSound
<1>10. /\ SoundStore(s3, main, sha) /\ RecordedIn(s3) = RecordedIn(s2)
       /\ Len(s3.threads) = Len(s2.threads) /\ Orphans(s3) = Orphans(s2) /\ Empty(s3) = Empty(s2)
  <2>1. t \in DOMAIN s2.threads
    <3>1. s1.threads \in Seq(ThreadRows) /\ s2.threads \in Seq(ThreadRows)
      BY <1>7, <1>9 DEF SoundStore, Stores
    <3>2. t \in DOMAIN s1.threads
      BY <1>6, <1>7
    <3> HIDE DEF s1, s2
    <3> QED BY <3>1, <3>2, <1>9
  <2> HIDE DEF s2
  <2> QED BY <2>1, <1>9, StatusKeepsSound DEF Statuses
<1> HIDE DEF s1, s2, s3, d, p
<1>11. Landed(s, s2, main, sha) /\ Landed(s, s3, main, sha) /\ Orphans(s3) \subseteq Orphans(s)
  BY <1>8, <1>9, <1>10 DEF Landed
<1>12. /\ put = [j \in 1 .. L |-> deployed(s, sha, SubSeq(p, 1, j))]
       /\ put[L] = d
  BY <1>2 DEF put_commits, d, deployed
<1>13. ASSUME NEW j \in 1 .. L PROVE Landed(s, put[j], main, sha) /\ put[j] \in Stores
  <2> DEFINE q == SubSeq(p, 1, j)
  <2>1. q \in Seq(Nat)
    BY <1>2
  <2>2. put[j] = deployed(s, sha, q)
    BY <1>12
  <2> HIDE DEF put, q
  <2>3. Landed(s, put[j], main, sha)
    BY <2>1, <2>2, PutLands
  <2> QED BY <2>3 DEF Landed, SoundStore
<1> HIDE DEF put
<1>14. put \in Seq(Stores) /\ Len(put) = L /\ Last(put) = d
  <2>1. put \in [1 .. L -> Stores]
    BY <1>12, <1>13
  <2>2. put \in Seq(Stores) /\ Len(put) = L
    BY <2>1, <1>2, SeqDef
  <2> QED BY <2>2, <1>12 DEF Last
<1>15. s1 \in Stores /\ s2 \in Stores /\ s3 \in Stores
  BY <1>7, <1>9, <1>10 DEF SoundStore
<1> DEFINE rec == <<s1, s2>>
           end == Append(rec, s3)
<1>16. end \in Seq(Stores) /\ Len(end) = 3 /\ end[1] = s1 /\ end[2] = s2 /\ end[3] = s3
  BY <1>15
<1>17. Last(rec) = s2
  BY DEF Last
<1>18. landing_commits(s, t, sha, parent) = put \o end
  <2>1. add_iteration_commits(d, t, sha, parent) = rec
    BY DEF add_iteration_commits, s1, s2, x, row_added, previewed
  <2>2. landing_commits(s, t, sha, parent)
            = LET recorded == add_iteration_commits(Last(put), t, sha, parent)
              IN put \o Append(recorded, with_status(Last(recorded), t, "preview_ready"))
    BY DEF landing_commits, put, p
  <2> HIDE DEF rec, end
  <2> QED BY <2>1, <2>2, <1>14, <1>17 DEF s3, end
<1> HIDE DEF rec, end
<1> DEFINE c == put \o end
<1>19. /\ Len(c) = L + 3
       /\ \A k \in 1 .. L : c[k] = put[k]
       /\ c[L + 1] = s1 /\ c[L + 2] = s2 /\ c[L + 3] = s3
  <2>1. /\ Len(c) = L + 3
        /\ \A i \in 1 .. L + 3 : c[i] = IF i <= L THEN put[i] ELSE end[i - L]
    <3>1. /\ Len(c) = Len(put) + Len(end)
          /\ \A i \in 1 .. Len(put) + Len(end) :
                c[i] = IF i <= Len(put) THEN put[i] ELSE end[i - Len(put)]
      <4>1. put \in Seq(Stores) /\ end \in Seq(Stores)
        BY <1>14, <1>16
      <4> HIDE DEF L
      <4> QED BY <4>1, ConcatProperties
    <3> HIDE DEF c, L
    <3> QED BY <3>1, <1>14, <1>16
  <2>2. L + 1 \in 1 .. L + 3 /\ L + 2 \in 1 .. L + 3 /\ L + 3 \in 1 .. L + 3
        /\ (L + 1) - L = 1 /\ (L + 2) - L = 2 /\ (L + 3) - L = 3
    BY <1>2
  <2> HIDE DEF c
  <2> QED BY <2>1, <2>2, <1>2, <1>16
<1> HIDE DEF c, L
<1>20. ASSUME NEW k \in 1 .. Len(c) PROVE Landed(s, c[k], main, sha)
  <2>1. k \in 1 .. L \/ k = L + 1 \/ k = L + 2 \/ k = L + 3
    BY <1>2, <1>19
  <2> QED BY <2>1, <1>8, <1>11, <1>13, <1>19
<1>21. Last(c) = s3
  BY <1>19 DEF Last
<1>22. Len(c) \in Nat \ {0}
  BY <1>2, <1>19
<1> QED BY <1>11, <1>18, <1>20, <1>21, <1>22 DEF c

-----------------------------------------------------------------------------
(* What is owed to crashes: orphans and empty threads. *)

LEMMA DebtSets ==
    ASSUME NEW s, s \in Stores
    PROVE  IsFiniteSet(Orphans(s)) /\ IsFiniteSet(Empty(s)) /\ Debt(s) \in Nat
<1>1. IsFiniteSet(1 .. MaxShas)
  BY BoundsAreNat, FS_Interval
<1>2. IsFiniteSet(Orphans(s))
  BY <1>1, FS_Subset DEF Orphans
<1>3. s.threads \in Seq(ThreadRows)
  BY DEF Stores
<1>4. DOMAIN s.threads = 1 .. Len(s.threads) /\ Len(s.threads) \in Nat
  BY <1>3
<1>5. IsFiniteSet(1 .. Len(s.threads))
  BY <1>4, FS_Interval
<1>6. IsFiniteSet(Empty(s))
  BY <1>4, <1>5, FS_Subset DEF Empty
<1> QED BY <1>2, <1>6, FS_CardinalityType DEF Debt

\* What no orphan and no empty thread is added to owes no more.
LEMMA DebtKept ==
    ASSUME NEW s \in Stores, NEW w \in Stores,
           Orphans(w) \subseteq Orphans(s), Empty(w) \subseteq Empty(s)
    PROVE  Debt(w) <= Debt(s)
<1>1. /\ Cardinality(Orphans(w)) <= Cardinality(Orphans(s))
      /\ Cardinality(Empty(w)) <= Cardinality(Empty(s))
  BY DebtSets, FS_Subset
<1>2. /\ Cardinality(Orphans(w)) \in Nat /\ Cardinality(Orphans(s)) \in Nat
      /\ Cardinality(Empty(w)) \in Nat /\ Cardinality(Empty(s)) \in Nat
  BY DebtSets, FS_CardinalityType
<1> QED BY <1>1, <1>2 DEF Debt

LEMMA OneMore ==
    ASSUME NEW A, NEW B, NEW a, IsFiniteSet(B), A \subseteq B \cup {a}
    PROVE  Cardinality(A) \in Nat /\ Cardinality(A) <= Cardinality(B) + 1
<1>1. IsFiniteSet(B \cup {a}) /\ Cardinality(B) \in Nat
      /\ Cardinality(B \cup {a}) \in {Cardinality(B), Cardinality(B) + 1}
  BY FS_AddElement, FS_CardinalityType
<1>2. IsFiniteSet(A) /\ Cardinality(A) <= Cardinality(B \cup {a})
  BY <1>1, FS_Subset
<1>3. Cardinality(A) \in Nat
  BY <1>2, FS_CardinalityType
<1> QED BY <1>1, <1>2, <1>3

\* One orphan or one empty thread added is one crash more owed.
LEMMA DebtGrowsByOne ==
    ASSUME NEW s \in Stores, NEW w \in Stores, NEW a,
           \/ Orphans(w) \subseteq Orphans(s) \cup {a} /\ Empty(w) \subseteq Empty(s)
           \/ Orphans(w) \subseteq Orphans(s) /\ Empty(w) \subseteq Empty(s) \cup {a}
    PROVE  Debt(w) <= Debt(s) + 1
<1>1. /\ Cardinality(Orphans(w)) \in Nat /\ Cardinality(Orphans(s)) \in Nat
      /\ Cardinality(Empty(w)) \in Nat /\ Cardinality(Empty(s)) \in Nat
  BY DebtSets, FS_CardinalityType
<1>2. CASE Orphans(w) \subseteq Orphans(s) \cup {a} /\ Empty(w) \subseteq Empty(s)
  <2>1. Cardinality(Empty(w)) <= Cardinality(Empty(s))
    BY <1>2, DebtSets, FS_Subset
  <2>2. Cardinality(Orphans(w)) <= Cardinality(Orphans(s)) + 1
    BY <1>2, DebtSets, OneMore
  <2> QED BY <1>1, <2>1, <2>2 DEF Debt
<1>3. CASE Orphans(w) \subseteq Orphans(s) /\ Empty(w) \subseteq Empty(s) \cup {a}
  <2>1. Cardinality(Orphans(w)) <= Cardinality(Orphans(s))
    BY <1>3, DebtSets, FS_Subset
  <2>2. Cardinality(Empty(w)) <= Cardinality(Empty(s)) + 1
    BY <1>3, DebtSets, OneMore
  <2> QED BY <1>1, <2>1, <2>2 DEF Debt
<1> QED BY <1>2, <1>3

-----------------------------------------------------------------------------
(* What an accepted comment commits. *)

Commented(s, w, main, n) ==
    /\ SoundStore(w, main, n) /\ RecordedIn(w) = RecordedIn(s)
    /\ Orphans(w) = Orphans(s) /\ Empty(w) \subseteq Empty(s) \cup {Len(s.threads) + 1}

\* A follow-up is one commit.
LEMMA FollowUpCommits ==
    ASSUME NEW main, NEW n, SoundStore(store, main, n),
           NEW t, NEW c \in follow_up_commits(t)
    PROVE  /\ Len(c) = 1 /\ Commented(store, c[1], main, n)
           /\ Last(c) = c[1] /\ Empty(Last(c)) \subseteq Empty(store)
<1> DEFINE w == with_comment(store, t)
<1>1. t \in DOMAIN store.threads /\ c = <<w>>
  BY DEF follow_up_commits, Threads
<1>2. /\ SoundStore(w, main, n) /\ RecordedIn(w) = RecordedIn(store)
      /\ Len(w.threads) = Len(store.threads)
      /\ Orphans(w) = Orphans(store) /\ Empty(w) = Empty(store) \ {t}
  BY <1>1, CommentKeepsSound
<1> HIDE DEF w
<1>3. Commented(store, w, main, n) /\ Empty(w) \subseteq Empty(store)
  BY <1>2 DEF Commented
<1>4. Len(c) = 1 /\ c[1] = w /\ Last(c) = w
  BY <1>1 DEF Last
<1> QED BY <1>3, <1>4

\* A new thread is two, and empty in between.
LEMMA NewThreadCommits ==
    ASSUME NEW main \in Nat, NEW n, SoundStore(store, main, n),
           NEW base \in ShownIn(store, main), Len(store.threads) < MaxThreads,
           NEW c \in new_thread_commits(base)
    PROVE  /\ Len(c) = 2 /\ Commented(store, c[1], main, n) /\ Commented(store, c[2], main, n)
           /\ Last(c) = c[2] /\ Empty(Last(c)) \subseteq Empty(store)
<1> DEFINE s1 == with_thread(store, base)
           k == Len(s1.threads)
           s2 == with_comment(s1, k)
<1>1. c = <<s1, s2>>
  BY DEF new_thread_commits
<1>2. /\ SoundStore(s1, main, n) /\ RecordedIn(s1) = RecordedIn(store)
      /\ k = Len(store.threads) + 1 /\ k \in DOMAIN s1.threads
      /\ Orphans(s1) = Orphans(store) /\ Empty(s1) = Empty(store) \cup {k}
  BY ThreadKeepsSound
<1> HIDE DEF s1
<1>3. /\ SoundStore(s2, main, n) /\ RecordedIn(s2) = RecordedIn(s1)
      /\ Orphans(s2) = Orphans(s1) /\ Empty(s2) = Empty(s1) \ {k}
  <2> HIDE DEF k
  <2> QED BY <1>2, CommentKeepsSound
<1> HIDE DEF s2
<1>4. Commented(store, s1, main, n) /\ Commented(store, s2, main, n)
  BY <1>2, <1>3 DEF Commented
<1>5. Empty(s2) \subseteq Empty(store)
  BY <1>2, <1>3
<1>6. Len(c) = 2 /\ c[1] = s1 /\ c[2] = s2 /\ Last(c) = s2
  BY <1>1 DEF Last
<1> QED BY <1>4, <1>5, <1>6

\* Whatever the comment, every commit of it leaves the store sound.
LEMMA AcceptedCommits ==
    ASSUME schema.main_sha \in Nat, NEW n, SoundStore(store, schema.main_sha, n),
           NEW c \in accepted_commits
    PROVE  /\ Len(c) \in Nat \ {0}
           /\ \A k \in 1 .. Len(c) : Commented(store, c[k], schema.main_sha, n)
           /\ Last(c) = c[Len(c)] /\ Empty(Last(c)) \subseteq Empty(store)
<1>1. shown = ShownIn(store, schema.main_sha)
  BY DEF shown, ShownIn, RecordedIn
<1>2. \/ \E t \in 1 .. MaxThreads : c \in follow_up_commits(t)
      \/ \E base \in shown : Len(store.threads) < MaxThreads /\ c \in new_thread_commits(base)
  BY DEF accepted_commits
<1>3. CASE \E t \in 1 .. MaxThreads : c \in follow_up_commits(t)
  <2>1. /\ Len(c) = 1 /\ Commented(store, c[1], schema.main_sha, n)
        /\ Last(c) = c[1] /\ Empty(Last(c)) \subseteq Empty(store)
    BY <1>3, FollowUpCommits
  <2> QED BY <2>1
<1>4. CASE \E base \in shown : Len(store.threads) < MaxThreads /\ c \in new_thread_commits(base)
  <2>1. /\ Len(c) = 2 /\ Commented(store, c[1], schema.main_sha, n)
        /\ Commented(store, c[2], schema.main_sha, n)
        /\ Last(c) = c[2] /\ Empty(Last(c)) \subseteq Empty(store)
    BY <1>4, <1>1, NewThreadCommits
  <2>2. \A k \in 1 .. Len(c) : k = 1 \/ k = 2
    BY <2>1
  <2> QED BY <2>1, <2>2
<1> QED BY <1>2, <1>3, <1>4

-----------------------------------------------------------------------------
(* Steps of the site. *)

\* What the migrations promise the service.
LEMMA BootFacts ==
    ASSUME BootInv
    PROVE  /\ schema.main_sha \in Nat /\ shas \in Nat /\ crashes \in Nat
           /\ process = "serving" => schema.main_sha # 0
<1>1. PICK v \in 1 .. 5, i \in Nat, u \in People, m \in Nat :
        InPlace(v, i) /\ schema = Database(v, i, u, m) /\ Phase(v, i, m)
  BY DEF BootInv
<1>2. schema.main_sha = m
  BY <1>1, HoldingParts DEF Database
<1> QED BY <1>1, <1>2 DEF Phase, BootInv

LEMMA SiteInvThen ==
    SiteInv' <=> StoreInv(store', schema'.main_sha, shas', runs', crashes')
BY DEF SiteInv, StoreInv, SoundStore, ThreadsKnown, IterationsInOrder, PatchesDrawn,
       LineageSolved, Patched, ShownIn, RecordedIn, Debt, Orphans, Empty

\* The site begins sound.
LEMMA SiteInitially == Init => SiteInv
<1> SUFFICES ASSUME Init PROVE SiteInv
  OBVIOUS
<1> DEFINE m == schema.main_sha
<1>1. m \in Nat /\ shas = m /\ crashes = 0
  BY BootInitially, BootFacts DEF Init, BootInit
<1>2. store = EmptyStore /\ runs = [t \in 1 .. MaxThreads |-> NoRun]
  BY DEF Init
<1>3. /\ EmptyStore.threads = <<>> /\ EmptyStore.iterations = <<>>
      /\ \A sha \in 1 .. MaxShas : EmptyStore.patches[sha] = <<>>
      /\ EmptyStore \in Stores
  BY DEF EmptyStore, Stores
<1>4. SoundStore(EmptyStore, m, m)
  <2>1. DOMAIN EmptyStore.threads = {} /\ DOMAIN EmptyStore.iterations = {}
        /\ Len(EmptyStore.threads) = 0
    BY <1>3
  <2>2. IterationsInOrder(EmptyStore, m, m) /\ ThreadsKnown(EmptyStore, m)
    BY <2>1 DEF IterationsInOrder, ThreadsKnown
  <2>3. PatchesDrawn(EmptyStore, m, m)
    BY <1>3 DEF PatchesDrawn
  <2> QED BY <2>1, <2>2, <2>3, <1>3, NoIterationsSolved, BoundsAreNat DEF SoundStore
<1>5. Debt(EmptyStore) = 0
  <2>1. Orphans(EmptyStore) = {} /\ Empty(EmptyStore) = {}
    BY <1>3 DEF Orphans, Empty
  <2> QED BY <2>1, FS_EmptySet DEF Debt
<1>6. runs \in [1 .. MaxThreads -> Int] /\ \A t \in 1 .. MaxThreads : runs[t] = NoRun
  BY <1>2 DEF NoRun
<1> HIDE DEF m
<1>7. StoreInv(store, m, m, runs, crashes)
  BY <1>1, <1>2, <1>4, <1>5, <1>6 DEF StoreInv
<1> QED BY <1>1, <1>7 DEF SiteInv, m

\* The store stands still, and so does production.
LEMMA StoreStays ==
    ASSUME BootInv, SiteInv,
           store' = store, schema'.main_sha = schema.main_sha, shas' = shas,
           runs' = runs \/ runs' = [t \in 1 .. MaxThreads |-> NoRun],
           crashes' \in {crashes, crashes + 1}
    PROVE  SiteInv'
<1>1. Debt(store) \in Nat /\ crashes \in Nat
  BY BootFacts, DebtSets DEF SiteInv, StoreInv, SoundStore
<1>2. runs' \in [1 .. MaxThreads -> Int]
      /\ \A t \in 1 .. MaxThreads : runs'[t] # NoRun => runs[t] # NoRun /\ runs'[t] = runs[t]
  <2>1. runs \in [1 .. MaxThreads -> Int]
    BY DEF SiteInv, StoreInv
  <2>2. CASE runs' = runs
    BY <2>1, <2>2
  <2>3. CASE runs' = [t \in 1 .. MaxThreads |-> NoRun]
    BY <2>3 DEF NoRun
  <2> QED BY <2>2, <2>3
<1>3. StoreInv(store, schema.main_sha, shas, runs', crashes')
  BY <1>1, <1>2 DEF SiteInv, StoreInv
<1> QED BY <1>3, SiteInvThen

\* The store goes on, under the same production.
LEMMA StoreGoesOn ==
    ASSUME SiteInv, schema' = schema, schema.main_sha # 0,
           shas' >= schema.main_sha,
           SoundStore(store', schema.main_sha, shas'),
           RecordedIn(store) \subseteq RecordedIn(store'),
           Debt(store') <= crashes',
           runs' \in [1 .. MaxThreads -> Int],
           \A t \in 1 .. MaxThreads :
                runs'[t] \in {NoRun, runs[t]} \cup ShownIn(store', schema.main_sha)
    PROVE  SiteInv'
<1>1. \A t \in 1 .. MaxThreads : runs'[t] # NoRun => runs'[t] \in ShownIn(store', schema.main_sha)
  BY DEF SiteInv, StoreInv, ShownIn
<1>2. schema.main_sha <= shas'
  OBVIOUS
<1>3. StoreInv(store', schema.main_sha, shas', runs', crashes')
  BY <1>1, <1>2 DEF StoreInv
<1> QED BY <1>3, SiteInvThen

\* A process starts: production may get its sha.
LEMMA StartUpKeepsStore ==
    ASSUME BootInv, SiteInv, start_up
    PROVE  SiteInv'
<1>1. store' = store /\ runs' = runs
  BY DEF start_up
<1>2. CASE start \/ refuses
  BY <1>1, <1>2, StoreStays DEF start, refuses
<1>3. CASE migrates
  BY <1>1, <1>3, MigratesKeepsPlace, StoreStays DEF migrates
<1>4. CASE serves
  <2>1. schema.main_sha \in Nat /\ shas \in Nat /\ crashes' = crashes
    BY <1>4, BootFacts DEF serves
  <2>2. schema'.main_sha = production
    <3>1. PICK v \in 1 .. 5, i \in Nat, u \in People, m \in Nat : schema = Database(v, i, u, m)
      BY DEF BootInv
    <3> QED BY <1>4, <3>1 DEF serves, Database, Holding
  <2>3. CASE schema.main_sha # 0
    <3>1. schema'.main_sha = schema.main_sha /\ shas' = shas
      BY <2>1, <2>2, <2>3, <1>4 DEF serves, production, SiteInv, StoreInv
    <3> QED BY <3>1, <2>1, <1>1, StoreStays
  <2>4. CASE schema.main_sha = 0
    <3>1. schema'.main_sha = 1 /\ shas' = 1 /\ store = EmptyStore
      BY <2>1, <2>2, <2>4, <1>4 DEF serves, production, SiteInv, StoreInv
    <3>2. SoundStore(EmptyStore, 0, 0)
      BY <3>1, <2>4 DEF SiteInv, StoreInv
    <3>3. SoundStore(EmptyStore, 1, 1)
      <4>1. /\ DOMAIN EmptyStore.threads = {} /\ DOMAIN EmptyStore.iterations = {}
            /\ \A sha \in 1 .. MaxShas : EmptyStore.patches[sha] = <<>>
        BY DEF EmptyStore
      <4> QED BY <3>2, <4>1 DEF SoundStore, IterationsInOrder, PatchesDrawn, ThreadsKnown
    <3>4. \A t \in 1 .. MaxThreads : runs[t] = NoRun
      BY <2>4 DEF SiteInv, StoreInv
    <3>5. StoreInv(EmptyStore, 1, 1, runs, crashes)
      BY <3>1, <3>3, <3>4 DEF SiteInv, StoreInv
    <3> QED BY <3>1, <3>5, <2>1, <1>1, SiteInvThen
  <2> QED BY <2>3, <2>4
<1> QED BY <1>2, <1>3, <1>4 DEF start_up

\* A process dies with a turn half made, whose store w is sound.
LEMMA TornKeepsStore ==
    ASSUME SiteInv, schema' = schema, schema.main_sha # 0, shas' >= schema.main_sha,
           NEW w, store' = w, SoundStore(w, schema.main_sha, shas'),
           RecordedIn(store) \subseteq RecordedIn(w),
           Debt(w) <= crashes', memory_lost
    PROVE  SiteInv'
<1>1. runs' = [t \in 1 .. MaxThreads |-> NoRun]
  BY DEF memory_lost
<1>2. /\ runs' \in [1 .. MaxThreads -> Int]
      /\ \A t \in 1 .. MaxThreads : runs'[t] = NoRun
  BY <1>1 DEF NoRun
<1> QED BY <1>2, StoreGoesOn

\* And so is a comment, refused, stored or torn.
LEMMA CommentKeepsStore ==
    ASSUME BootInv, SiteInv, NEW u \in Users, post_comment(u)
    PROVE  SiteInv'
<1> DEFINE main == schema.main_sha
<1>1. main \in Nat \ {0} /\ shas \in Nat /\ crashes \in Nat /\ schema' = schema /\ shas' = shas
  BY BootFacts DEF post_comment
<1>2. SoundStore(store, main, shas) /\ main <= shas /\ store \in Stores
  BY DEF SiteInv, StoreInv, SoundStore
<1>3. CASE stores_nothing
  <2>1. store' = store /\ runs' = runs /\ crashes' = crashes
    BY <1>3 DEF stores_nothing
  <2> QED BY <2>1, <1>1, StoreStays
<1>4. ASSUME NEW c \in accepted_commits, Commit(c), UNCHANGED runs PROVE SiteInv'
  <2>1. /\ Commented(store, store', main, shas) /\ Empty(store') \subseteq Empty(store)
    <3>1. store' = Last(c)
      BY <1>4 DEF Commit
    <3>2. /\ Len(c) \in Nat \ {0}
          /\ \A k \in 1 .. Len(c) : Commented(store, c[k], main, shas)
          /\ Last(c) = c[Len(c)] /\ Empty(Last(c)) \subseteq Empty(store)
      BY <1>1, <1>2, AcceptedCommits
    <3>3. Len(c) \in 1 .. Len(c)
      BY <3>2
    <3> HIDE DEF main
    <3> QED BY <3>1, <3>2, <3>3
  <2> DEFINE w == store'
  <2>2. SoundStore(w, main, shas) /\ RecordedIn(w) = RecordedIn(store) /\ Orphans(w) = Orphans(store)
    BY <2>1 DEF Commented
  <2>3. crashes' = crashes /\ runs' = runs
    BY <1>4 DEF Commit
  <2>4. Debt(w) <= crashes
    <3>1. w \in Stores /\ Empty(w) \subseteq Empty(store)
      BY <2>1, <2>2 DEF SoundStore
    <3> HIDE DEF w
    <3>2. Debt(w) <= Debt(store) /\ Debt(w) \in Nat /\ Debt(store) \in Nat
      BY <3>1, <2>2, <1>2, DebtKept, DebtSets
    <3>3. Debt(store) <= crashes
      BY DEF SiteInv, StoreInv
    <3> QED BY <3>2, <3>3, <1>1
  <2>5. runs \in [1 .. MaxThreads -> Int]
    BY DEF SiteInv, StoreInv
  <2> QED BY <2>2, <2>3, <2>4, <2>5, <1>1, <1>2, StoreGoesOn
<1>5. ASSUME NEW c \in accepted_commits, Torn(c) PROVE SiteInv'
  <2>1. PICK k \in 1 .. Len(c) - 1 : store' = c[k]
    BY <1>5 DEF Torn
  <2>2. crashes' = crashes + 1 /\ memory_lost
    BY <1>5 DEF Torn, dies
  <2> DEFINE w == c[k]
  <2>3. Commented(store, w, main, shas)
    <3>1. Len(c) \in Nat \ {0} /\ \A j \in 1 .. Len(c) : Commented(store, c[j], main, shas)
      BY <1>1, <1>2, AcceptedCommits
    <3>2. k \in 1 .. Len(c)
      BY <3>1
    <3> QED BY <3>1, <3>2
  <2> HIDE DEF w, main
  <2>4. SoundStore(w, main, shas) /\ RecordedIn(w) = RecordedIn(store)
        /\ Orphans(w) = Orphans(store) /\ Empty(w) \subseteq Empty(store) \cup {Len(store.threads) + 1}
    BY <2>3 DEF Commented
  <2>5. Debt(w) <= crashes'
    <3>1. w \in Stores
      BY <2>4 DEF SoundStore
    <3>2. Debt(w) <= Debt(store) + 1 /\ Debt(w) \in Nat /\ Debt(store) \in Nat
      BY <3>1, <2>4, <1>2, DebtGrowsByOne, DebtSets
    <3>3. Debt(store) <= crashes
      BY DEF SiteInv, StoreInv
    <3> QED BY <3>2, <3>3, <2>2, <1>1
  <2>6. store' = w
    BY <2>1 DEF w
  <2>7. SiteInv'
    BY <2>2, <2>4, <2>5, <2>6, <1>1, <1>2, TornKeepsStore DEF main
  <2> QED BY <2>4, <2>6, <2>7
<1> QED BY <1>3, <1>4, <1>5 DEF post_comment, turned_away

\* A run that ends leaves its place empty, and every other run where it was.
LEMMA OneRunEnds ==
    ASSUME NEW old \in [1 .. MaxThreads -> Int], NEW t, NEW new,
           new = [old EXCEPT ![t] = NoRun]
    PROVE  /\ new \in [1 .. MaxThreads -> Int]
           /\ \A r \in 1 .. MaxThreads : new[r] \in {NoRun, old[r]}
<1>1. NoRun \in Int
  BY DEF NoRun
<1>2. new \in [1 .. MaxThreads -> Int]
  BY <1>1
<1>3. ASSUME NEW r \in 1 .. MaxThreads PROVE new[r] \in {NoRun, old[r]}
  <2>1. CASE r = t
    BY <2>1
  <2>2. CASE r # t
    BY <2>2
  <2> QED BY <2>1, <2>2
<1> QED BY <1>2, <1>3

\* A landing, whole or torn, keeps the store sound.
LEMMA LandingKeepsStore ==
    ASSUME BootInv, SiteInv, NEW t \in Threads, lands(t)
    PROVE  SiteInv'
<1> DEFINE main == schema.main_sha
           c == landing_commits(store, t, shas + 1, runs[t])
<1>1. /\ t \in DOMAIN store.threads /\ t \in 1 .. MaxThreads
      /\ shas \in Nat /\ crashes \in Nat /\ shas < MaxShas
      /\ schema' = schema /\ shas' = shas + 1 /\ runs[t] # NoRun
  <2>1. Len(store.threads) <= MaxThreads /\ store.threads \in Seq(ThreadRows)
    BY DEF SiteInv, StoreInv, SoundStore, Stores
  <2>2. t \in 1 .. MaxThreads
    BY <2>1, ThreadRowTypes, BoundsAreNat DEF Threads
  <2> QED BY <2>2, BootFacts DEF lands, Threads
<1>2. /\ main \in Nat \ {0} /\ runs[t] \in ShownIn(store, main)
      /\ SoundStore(store, main, shas) /\ main <= shas /\ store \in Stores
      /\ runs \in [1 .. MaxThreads -> Int]
  BY <1>1, BootFacts DEF SiteInv, StoreInv, SoundStore
<1>3. /\ Len(c) \in Nat \ {0}
      /\ \A k \in 1 .. Len(c) : Landed(store, c[k], main, shas + 1)
      /\ Orphans(Last(c)) \subseteq Orphans(store)
  <2> HIDE DEF main
  <2> QED BY <1>1, <1>2, LandingCommits
<1>a. (Commit(c) /\ runs' = [runs EXCEPT ![t] = NoRun]) \/ Torn(c)
  BY DEF lands
<1> HIDE DEF c, main
<1>4. CASE Commit(c) /\ runs' = [runs EXCEPT ![t] = NoRun]
  <2> DEFINE w == Last(c)
  <2>1. store' = w /\ crashes' = crashes
    BY <1>4 DEF Commit
  <2>2. Landed(store, w, main, shas + 1)
    <3>1. Len(c) \in 1 .. Len(c)
      BY <1>3
    <3> QED BY <3>1, <1>3 DEF Last
  <2> HIDE DEF w
  <2>3. Debt(w) <= crashes
    <3>1. w \in Stores /\ Empty(w) \subseteq Empty(store) /\ Orphans(w) \subseteq Orphans(store)
      BY <2>2, <1>3 DEF Landed, SoundStore, w
    <3>2. Debt(w) <= Debt(store) /\ Debt(w) \in Nat /\ Debt(store) \in Nat
      BY <3>1, <1>2, DebtKept, DebtSets
    <3>3. Debt(store) <= crashes
      BY DEF SiteInv, StoreInv
    <3> QED BY <3>2, <3>3, <1>1
  <2>4. /\ runs' \in [1 .. MaxThreads -> Int]
        /\ \A r \in 1 .. MaxThreads : runs'[r] \in {NoRun, runs[r]}
    BY <1>2, <1>4, OneRunEnds
  <2>5. SoundStore(w, main, shas') /\ RecordedIn(store) \subseteq RecordedIn(w)
    BY <2>2, <1>1 DEF Landed
  <2>6. shas' >= main
    BY <1>1, <1>2
  <2> QED BY <2>1, <2>3, <2>4, <2>5, <2>6, <1>1, <1>2, StoreGoesOn DEF main
<1>5. CASE Torn(c)
  <2>1. PICK k \in 1 .. Len(c) - 1 : store' = c[k]
    BY <1>5 DEF Torn
  <2>2. crashes' = crashes + 1 /\ memory_lost
    BY <1>5 DEF Torn, dies
  <2> DEFINE w == c[k]
  <2>3. Landed(store, w, main, shas + 1)
    <3>1. k \in 1 .. Len(c)
      BY <1>3
    <3> QED BY <3>1, <1>3
  <2>4. store' = w
    BY <2>1
  <2> HIDE DEF w
  <2>5. Debt(w) <= crashes'
    <3>1. w \in Stores /\ Empty(w) \subseteq Empty(store)
          /\ Orphans(w) \subseteq Orphans(store) \cup {shas + 1}
      BY <2>3 DEF Landed, SoundStore
    <3>2. Debt(w) <= Debt(store) + 1 /\ Debt(w) \in Nat /\ Debt(store) \in Nat
      BY <3>1, <1>2, DebtGrowsByOne, DebtSets
    <3>3. Debt(store) <= crashes
      BY DEF SiteInv, StoreInv
    <3> QED BY <3>2, <3>3, <2>2, <1>1
  <2>6. SoundStore(w, main, shas') /\ RecordedIn(store) \subseteq RecordedIn(w)
    BY <2>3, <1>1 DEF Landed
  <2>7. shas' >= main
    BY <1>1, <1>2
  <2> QED BY <2>2, <2>4, <2>5, <2>6, <2>7, <1>1, <1>2, TornKeepsStore DEF main
<1> QED BY <1>a, <1>4, <1>5

\* The statements on a status, and a run that begins or ends.
LEMMA StatusKeepsStore ==
    ASSUME BootInv, SiteInv, NEW t \in Threads, NEW x \in Statuses,
           process = "serving", store' = with_status(store, t, x),
           UNCHANGED <<schema, shas, crashes>>,
           runs' \in [1 .. MaxThreads -> Int],
           \A r \in 1 .. MaxThreads :
                runs'[r] \in {NoRun, runs[r]} \cup ShownIn(store, schema.main_sha)
    PROVE  SiteInv'
<1> DEFINE main == schema.main_sha
           w == with_status(store, t, x)
<1>1. main \in Nat \ {0} /\ shas \in Nat /\ crashes \in Nat /\ main <= shas
  BY BootFacts DEF SiteInv, StoreInv
<1>2. SoundStore(store, main, shas) /\ store \in Stores /\ Debt(store) <= crashes
  BY DEF SiteInv, StoreInv, SoundStore
<1>3. /\ SoundStore(w, main, shas) /\ RecordedIn(w) = RecordedIn(store)
      /\ Orphans(w) = Orphans(store) /\ Empty(w) = Empty(store)
  BY <1>2, StatusKeepsSound DEF Threads
<1> HIDE DEF w
<1>4. Debt(w) <= crashes
  BY <1>2, <1>3 DEF Debt
<1>5. ShownIn(w, main) = ShownIn(store, main)
  BY <1>3 DEF ShownIn
<1>6. store' = w
  BY DEF w
<1> HIDE DEF main
<1> QED BY <1>1, <1>3, <1>4, <1>5, <1>6, StoreGoesOn DEF main

\* A run begins, ends, or a status moves on without one.
LEMMA RunKeepsStore ==
    ASSUME BootInv, SiteInv, NEW t \in Threads, begins(t) \/ ends(t) \/ moves_on(t)
    PROVE  SiteInv'
<1>1. /\ runs \in [1 .. MaxThreads -> Int] /\ store.threads \in Seq(ThreadRows)
      /\ store.iterations \in Seq(IterationRows) /\ schema.main_sha \in Nat
      /\ ThreadsKnown(store, schema.main_sha)
  BY BootFacts DEF SiteInv, StoreInv, SoundStore, Stores
<1>2. {InFlight, "open", "preview_ready", "pr_open", "done"} \subseteq Statuses
  BY DEF Statuses, Closed
<1>3. CASE begins(t)
  <2>1. PICK parent \in {tip(t)} \cup previews_of(store, t) : runs' = [runs EXCEPT ![t] = parent]
    BY <1>3 DEF begins
  <2>2. parent \in ShownIn(store, schema.main_sha)
    <3>1. previews_of(store, t) \subseteq RecordedIn(store)
      BY DEF previews_of, RecordedIn
    <3>2. tip(t) \in ShownIn(store, schema.main_sha)
      BY <1>1 DEF ThreadsKnown, Threads, tip, ShownIn
    <3> QED BY <3>1, <3>2, <2>1 DEF ShownIn
  <2>3. parent \in Int
    BY <2>2, <1>1, RowTypes DEF ShownIn, RecordedIn
  <2>4. /\ runs' \in [1 .. MaxThreads -> Int]
        /\ \A r \in 1 .. MaxThreads :
              runs'[r] \in {NoRun, runs[r]} \cup ShownIn(store, schema.main_sha)
    BY <1>1, <2>1, <2>2, <2>3
  <2>5. /\ process = "serving" /\ store' = with_status(store, t, InFlight)
        /\ UNCHANGED <<schema, shas, crashes>>
    BY <1>3 DEF begins, Undisturbed
  <2> QED BY <2>4, <2>5, <1>2, StatusKeepsStore
<1>4. CASE ends(t)
  <2>1. PICK x \in Statuses : store' = with_status(store, t, x)
    BY <1>4, <1>2 DEF ends
  <2>2. /\ process = "serving" /\ UNCHANGED <<schema, shas, crashes>>
        /\ runs' = [runs EXCEPT ![t] = NoRun]
    BY <1>4 DEF ends, Undisturbed
  <2>3. /\ runs' \in [1 .. MaxThreads -> Int]
        /\ \A r \in 1 .. MaxThreads :
              runs'[r] \in {NoRun, runs[r]} \cup ShownIn(store, schema.main_sha)
    BY <1>1, <2>2, OneRunEnds
  <2> QED BY <2>1, <2>2, <2>3, StatusKeepsStore
<1>5. CASE moves_on(t)
  <2>1. PICK x \in Statuses : store' = with_status(store, t, x)
    BY <1>5, <1>2 DEF moves_on
  <2>2. process = "serving" /\ UNCHANGED <<schema, shas, crashes, runs>>
    BY <1>5 DEF moves_on, Undisturbed
  <2>3. /\ runs' \in [1 .. MaxThreads -> Int]
        /\ \A r \in 1 .. MaxThreads :
              runs'[r] \in {NoRun, runs[r]} \cup ShownIn(store, schema.main_sha)
    BY <1>1, <2>2
  <2> QED BY <2>1, <2>2, <2>3, StatusKeepsStore
<1> QED BY <1>3, <1>4, <1>5

\* Every step of the site keeps the store sound.
LEMMA SiteStep ==
    ASSUME BootInv, SiteInv, [Next]_vars
    PROVE  SiteInv'
<1>1. CASE start_up
  BY <1>1, StartUpKeepsStore DEF start_up
<1>2. CASE crash
  <2>1. store' = store /\ schema' = schema /\ shas' = shas /\ crashes' = crashes + 1
        /\ runs' = [t \in 1 .. MaxThreads |-> NoRun]
    BY <1>2 DEF crash, dies, memory_lost
  <2> QED BY <2>1, StoreStays
<1>3. CASE time_passes \/ UNCHANGED vars
  <2>1. store' = store /\ schema' = schema /\ shas' = shas /\ crashes' = crashes /\ runs' = runs
    BY <1>3 DEF time_passes, vars
  <2> QED BY <2>1, StoreStays
<1>4. ASSUME NEW u \in Users, post_comment(u) PROVE SiteInv'
  BY <1>4, CommentKeepsStore
<1>5. ASSUME NEW t \in Threads, begins(t) \/ ends(t) \/ moves_on(t)
      PROVE  SiteInv'
  BY <1>5, RunKeepsStore
<1>6. ASSUME NEW t \in Threads, lands(t) PROVE SiteInv'
  BY <1>6, LandingKeepsStore
<1> QED BY <1>1, <1>2, <1>3, <1>4, <1>5, <1>6 DEF Next

\* So it always is.
LEMMA SiteIsSound == Spec => []SiteInv
<1>1. SiteInv /\ BootInv /\ [Next]_vars => SiteInv'
  BY SiteStep
<1> QED BY <1>1, SiteInitially, SiteIsInPlace, PTL DEF Spec

\* Every preview is made of the patches of the iterations that led to it, of
\* all of them, in their order, and of no other.
THEOREM SitePreviewsAreWhole == Spec => []LineageIsWhole
<1>1. SiteInv => LineageIsWhole
  <2> SUFFICES ASSUME SiteInv PROVE LineageIsWhole
    OBVIOUS
  <2>1. ancestry = Patched(store)
    BY AncestryIsPatched DEF SiteInv, StoreInv, SoundStore
  <2> QED BY <2>1 DEF LineageIsWhole, Patched
<1> QED BY <1>1, SiteIsSound, PTL

\* Whatever the site has that nobody can reach, a death left there, and a
\* death leaves one thing at most.
THEOREM SiteOrphansAreCrashes == Spec => []OnlyCrashesOrphan
<1>1. SiteInv => OnlyCrashesOrphan
  BY DEF SiteInv, StoreInv, OnlyCrashesOrphan, Debt, Orphans, Empty, RecordedIn, Recorded, Threads
<1> QED BY <1>1, SiteIsSound, PTL
=============================================================================
