----------------------------- MODULE Migrations -----------------------------
(***************************************************************************)
(* How a process comes up over the database an earlier one left:           *)
(* Database.migrate (backend/db/database.py) over the scripts of           *)
(* backend/db/migrations, then create_container (backend/container.py),    *)
(* which mints the sha of production, then lifespan (backend/main.py).     *)
(*                                                                         *)
(* executescript commits statement by statement, and the row that says a   *)
(* script was applied is one more commit after them.  A process may die    *)
(* between any two.  A statement that fails raises out of the import of    *)
(* backend.container: the process does not start, and neither does the     *)
(* next one.                                                               *)
(***************************************************************************)
EXTENDS Integers, Sequences, SequencesExt

CONSTANT MaxCrashes   \* bound: deaths of a process

ASSUME MaxCrashesAssumption == MaxCrashes \in Nat

VARIABLES
    schema,     \* the database: its tables and indexes, the rows of the users
                \* tables, schema_migrations, meta's main_sha (0: none)
    process,    \* "down", "migrating", "serving"
    todo,       \* where migrate() is: the scripts it has yet to finish, and how
                \* many steps it has made of the first of them
    shas,       \* how many shas sha() has drawn: the next is a fresh one
    crashes,    \* history: how many processes died,
    refused     \* history: a process found it could not start

boot_vars == <<schema, process, todo, shas, crashes, refused>>

-----------------------------------------------------------------------------
(* The scripts, as sequences of steps. *)

create(object) == [does |-> "create", object |-> object]
seed == [does |-> "seed"]
copy == [does |-> "copy"]
drop == [does |-> "drop"]
rename == [does |-> "rename"]
promote == [does |-> "promote"]
note(version) == [does |-> "note", version |-> version]

init_script ==
    <<create("meta"), create("users"), create("threads"),
      create("thread_status_history"), create("idx_history_thread"),
      create("comments"), create("idx_comments_thread"),
      create("iterations"), create("idx_iterations_thread"),
      create("preview_patches")>>

seed_users == <<seed>>

task_queue ==
    <<create("agent_tasks"), create("idx_tasks_state"), create("idx_tasks_thread")>>

\* Variant that clears the way for the new table first.
approver_role_by_replacement ==
    <<drop, create("users_new"), copy, rename, promote>>

approver_role == <<create("users_new"), copy, drop, rename, promote>>

Scripts == <<init_script, seed_users, task_queue, approver_role>>

Versions == DOMAIN Scripts

\* Variant that notes the version before it runs the script.
noted_first(version) == <<note(version)>> \o Scripts[version]

\* What the loop of migrate() does for one file.
applied(version) == Append(Scripts[version], note(version))

\* Variant that does not look at schema_migrations.
apply_always(done) == Versions

\* The files the loop does not skip.
pending(done) == Versions \ done

\* The loop, before its next step; it takes the files in order.
position(versions, made) == [versions |-> versions, made |-> made]

Finished == position({}, 0)

script(at) == CHOOSE v \in at.versions : \A w \in at.versions : v <= w

next_step(at) == applied(script(at))[at.made + 1]

advanced(at) ==
    IF at.made + 1 = Len(applied(script(at)))
    THEN position(at.versions \ {script(at)}, 0) ELSE position(at.versions, at.made + 1)

-----------------------------------------------------------------------------
(* What a step needs of the database, and what it makes of it. *)

Seeds == [id \in {"dana", "evan", "vic"} |-> IF id = "vic" THEN "view" ELSE "comment"]

Nobody == [id \in {} |-> "view"]

ids(d) == DOMAIN d.users \cup DOMAIN d.users_new

\* A key that is there already, a table that is, or one that is not: the
\* statement raises.
succeeds(d, step) ==
    CASE step.does = "create"  -> step.object \notin d.objects
      [] step.does = "seed"    -> "users" \in d.objects /\ DOMAIN d.users \cap DOMAIN Seeds = {}
      [] step.does = "copy"    -> {"users", "users_new"} \subseteq d.objects
                                  /\ DOMAIN d.users \cap DOMAIN d.users_new = {}
      [] step.does = "drop"    -> "users" \in d.objects
      [] step.does = "rename"  -> "users_new" \in d.objects /\ "users" \notin d.objects
      [] step.does = "promote" -> "users" \in d.objects
      [] step.does = "note"    -> step.version \notin d.versions

result(d, step) ==
    CASE step.does = "create"  -> [d EXCEPT !.objects = @ \cup {step.object}]
      [] step.does = "seed"    -> [d EXCEPT !.users = Seeds]
      [] step.does = "copy"    -> [d EXCEPT !.users_new = d.users]
      [] step.does = "drop"    -> [d EXCEPT !.objects = @ \ {"users"}, !.users = Nobody]
      [] step.does = "rename"  -> [d EXCEPT !.objects = (@ \ {"users_new"}) \cup {"users"},
                                            !.users = d.users_new, !.users_new = Nobody]
      [] step.does = "promote" -> [d EXCEPT !.users = [id \in DOMAIN @ |->
                                        IF id = "evan" THEN "approve" ELSE @[id]]]
      [] step.does = "note"    -> [d EXCEPT !.versions = @ \cup {step.version}]

created(version) ==
    {step.object : step \in {st \in Range(Scripts[version]) : st.does = "create"}}

Promoted == [Seeds EXCEPT !["evan"] = "approve"]

\* The database as an older release left it, which had the first k scripts.
Release(k) ==
    [objects |-> (UNION {created(v) : v \in 1 .. k}) \ {"users_new"},
     users |-> IF k < 2 THEN Nobody ELSE IF k < 4 THEN Seeds ELSE Promoted,
     users_new |-> Nobody,
     versions |-> 1 .. k,
     main_sha |-> IF k = 0 THEN 0 ELSE 1]

-----------------------------------------------------------------------------
\* Nothing, or the database of an older release that served.
BootInit ==
    /\ \E k \in {0} \cup Versions : schema = Release(k)
    /\ process = "down"
    /\ todo = Finished
    /\ shas = schema.main_sha
    /\ crashes = 0
    /\ refused = FALSE

start ==
    /\ process = "down"
    /\ process' = "migrating"
    /\ todo' = position(pending(schema.versions), 0)
    /\ UNCHANGED <<schema, shas, crashes, refused>>

migrates ==
    /\ process = "migrating"
    /\ todo # Finished /\ succeeds(schema, next_step(todo))
    /\ schema' = result(schema, next_step(todo))
    /\ todo' = advanced(todo)
    /\ UNCHANGED <<process, shas, crashes, refused>>

\* The statement raises, and so does the start of the process.
refuses ==
    /\ process = "migrating"
    /\ todo # Finished /\ ~succeeds(schema, next_step(todo))
    /\ process' = "down"
    /\ todo' = Finished
    /\ refused' = TRUE
    /\ UNCHANGED <<schema, shas, crashes>>

\* "the demo site's stable production sha, minted once per database"
production == IF schema.main_sha = 0 THEN shas + 1 ELSE schema.main_sha

\* The rest of create_container; lifespan starts the queue, and requests are
\* served.
serves ==
    /\ process = "migrating" /\ todo = Finished
    /\ process' = "serving"
    /\ schema' = [schema EXCEPT !.main_sha = production]
    /\ shas' = IF production > shas THEN production ELSE shas
    /\ UNCHANGED <<todo, crashes, refused>>

dies ==
    /\ process' = "down"
    /\ todo' = Finished
    /\ crashes' = crashes + 1
    /\ UNCHANGED refused

-----------------------------------------------------------------------------
(* Properties. *)

\* A process that serves has the whole schema, production's sha and somebody
\* who may approve, whatever release and whatever torn start it came from:
\* what schema_migrations says was applied was.
ServesMigrated ==
    process = "serving" =>
        /\ schema.objects = Release(Len(Scripts)).objects
        /\ schema.main_sha # 0
        /\ \E id \in DOMAIN schema.users : schema.users[id] = "approve"

\* No database refuses a process to which none was torn: an upgrade from any
\* release, and any number of restarts, goes through.
OnlyCrashesRefuse == refused => crashes > 0

\* Whoever the users tables know, they go on knowing: the table is rebuilt
\* without a commit at which somebody is in neither.
NobodyForgotten == [][ids(schema) \subseteq ids(schema')]_boot_vars
=============================================================================
