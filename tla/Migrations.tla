----------------------------- MODULE Migrations -----------------------------
(* The deployment scripts. scripts/migrate.sh goes through the files of
   db/migrations in their order; of each it asks schema_migrations whether it
   was applied, runs it with psql, and records it with a second psql. It is run
   by scripts/start-with-migrations.sh whenever the container of the app starts,
   and once more by scripts/deploy.sh, which executes it in a container that it has
   seen healthy. A container that exits is restarted (docker-compose.prod.yml) and
   takes the processes that were executed in it with it.

   A file is a sequence of statements; psql commits each of them on its own
   unless the file says BEGIN and COMMIT. A statement finds its effect there when
   it was run before: it is repeated without harm (IF NOT EXISTS, IF EXISTS, an
   UPDATE of no row) or fails, and the script with it (ON_ERROR_STOP, set -e). *)
EXTENDS Naturals, Sequences, FiniteSets

CONSTANTS
    Schemas,      \* directories of migrations: sequences of [atomic : BOOLEAN,
                  \* repeats : Seq(BOOLEAN)], repeats[k]: statement k can be repeated
    MaxKills,     \* how often a process is killed from outside
    MaxDeploys    \* how often deploy.sh is run

ASSUME SchemasAssumption ==
    \A s \in Schemas : s \in Seq([atomic : BOOLEAN, repeats : Seq(BOOLEAN)])
ASSUME BoundsAssumption == MaxKills \in Nat /\ MaxDeploys \in Nat

\* The container's own run, and the one deploy.sh executes in the container.
Runners == {"container", "exec"}

VARIABLES
    files,      \* the directory of this deployment
    effects,    \* how many of its statements have their effect, for each file
    recorded,   \* the files in schema_migrations
    runner,     \* [at: file, pc, k: statements run of it], for each run of migrate.sh
    serving,    \* the app was started
    up,         \* deploy.sh has waited for the app, and goes on to its own run
    kills, deploys
migVars == <<files, effects, recorded, runner, serving, up, kills, deploys>>

Idle == [at |-> 1, pc |-> "idle", k |-> 0]
Begun == [at |-> 1, pc |-> "check", k |-> 0]
Pcs == {"idle", "check", "apply", "record", "done", "failed"}

MigTypeOK ==
    /\ files \in Schemas
    /\ effects \in [DOMAIN files -> Nat]
    /\ \A m \in DOMAIN files : effects[m] <= Len(files[m].repeats)
    /\ recorded \subseteq DOMAIN files
    /\ runner \in [Runners -> [at : 1 .. Len(files) + 1, pc : Pcs, k : Nat]]
    /\ serving \in BOOLEAN /\ up \in BOOLEAN
    /\ kills \in 0 .. MaxKills /\ deploys \in 0 .. MaxDeploys

MigInit ==
    /\ files \in Schemas
    /\ effects = [m \in DOMAIN files |-> 0]
    /\ recorded = {}
    /\ runner = [r \in Runners |-> IF r = "container" THEN Begun ELSE Idle]
    /\ serving = FALSE /\ up = FALSE
    /\ kills = 0 /\ deploys = 0

Goto(r, pc) == runner' = [runner EXCEPT ![r].pc = pc]
Whole(m) == effects[m] = Len(files[m].repeats)

----------------------------------------------------------------------------
\* Wrong variant, for checking the properties: the script looks no file up.
AppliedUnknown(m) == FALSE
\* SELECT 1 FROM schema_migrations WHERE filename = ...
Applied(m) == m \in recorded

\* The head of the loop: the file is skipped, or run, or there is none left.
CheckFile(r) ==
    /\ runner[r].pc = "check"
    /\ LET m == runner[r].at IN
       IF m > Len(files) THEN Goto(r, "done")
       ELSE IF Applied(m) THEN runner' = [runner EXCEPT ![r].at = m + 1]
       ELSE runner' = [runner EXCEPT ![r].pc = "apply", ![r].k = 0]
    /\ UNCHANGED <<files, effects, recorded, serving, up, kills, deploys>>

\* Statement k of file m fails: it was run before and cannot be repeated.
Refused(m, k) == k <= effects[m] /\ ~files[m].repeats[k]

\* A file with BEGIN and COMMIT has all its effects or fails and has none of them.
RunAtomicFile(r) ==
    LET m == runner[r].at IN
    /\ runner[r].pc = "apply"
    /\ files[m].atomic
    /\ IF \E k \in DOMAIN files[m].repeats : Refused(m, k)
       THEN Goto(r, "failed") /\ UNCHANGED effects
       ELSE Goto(r, "record") /\ effects' = [effects EXCEPT ![m] = Len(files[m].repeats)]
    /\ UNCHANGED <<files, recorded, serving, up, kills, deploys>>

\* The next statement of a file without a transaction commits on its own.
RunStatement(r) ==
    LET m == runner[r].at
        k == runner[r].k + 1
    IN  /\ runner[r].pc = "apply"
        /\ ~files[m].atomic
        /\ IF k > Len(files[m].repeats) THEN Goto(r, "record") /\ UNCHANGED effects
           ELSE IF Refused(m, k) THEN Goto(r, "failed") /\ UNCHANGED effects
           ELSE /\ effects' = [effects EXCEPT ![m] = IF k > @ THEN k ELSE @]
                /\ runner' = [runner EXCEPT ![r].k = k]
        /\ UNCHANGED <<files, recorded, serving, up, kills, deploys>>

\* Wrong variant, for checking the properties: a file is recorded before it is run.
RecordAtOnce(r) ==
    /\ runner[r].pc \in {"apply", "record"}
    /\ runner[r].at \notin recorded
    /\ recorded' = recorded \cup {runner[r].at}
    /\ runner' = [runner EXCEPT ![r].at = @ + 1, ![r].pc = "check", ![r].k = 0]
    /\ UNCHANGED <<files, effects, serving, up, kills, deploys>>

\* INSERT INTO schema_migrations; its filename is UNIQUE.
Record(r) ==
    LET m == runner[r].at IN
    /\ runner[r].pc = "record"
    /\ IF m \in recorded THEN Goto(r, "failed") /\ UNCHANGED recorded
       ELSE /\ recorded' = recorded \cup {m}
            /\ runner' = [runner EXCEPT ![r].at = m + 1, ![r].pc = "check", ![r].k = 0]
    /\ UNCHANGED <<files, effects, serving, up, kills, deploys>>

----------------------------------------------------------------------------
\* start-with-migrations.sh goes on to the app; a container that ends without it is
\* restarted by docker: its run begins again and the executed one has ended with it.
StartApp ==
    /\ runner["container"].pc = "done"
    /\ ~serving
    /\ serving' = TRUE
    /\ UNCHANGED <<files, effects, recorded, runner, up, kills, deploys>>

Restarted == [r \in Runners |-> IF r = "container" THEN Begun ELSE Idle]

RestartContainer ==
    /\ runner["container"].pc = "failed"
    /\ runner' = Restarted
    /\ UNCHANGED <<files, effects, recorded, serving, up, kills, deploys>>

\* deploy.sh: "docker compose up -d app nginx redis" returns when the app is healthy,
\* because nginx is started after that. The app answers once its container has migrated.
DeployUp ==
    /\ deploys < MaxDeploys
    /\ serving /\ ~up /\ runner["exec"].pc \in {"idle", "done", "failed"}
    /\ up' = TRUE
    /\ deploys' = deploys + 1
    /\ UNCHANGED <<files, effects, recorded, runner, serving, kills>>

\* deploy.sh: "docker compose exec -T app npm run db:migrate". It fails, and deploy.sh
\* with it, when the container has exited since.
Deploy ==
    /\ up
    /\ up' = FALSE
    /\ runner' = IF runner["container"].pc = "failed" THEN runner
                 ELSE [runner EXCEPT !["exec"] = Begun]
    /\ UNCHANGED <<files, effects, recorded, serving, kills, deploys>>

\* The container, or only the executed script, is killed between two steps. A
\* statement that the database had begun is either there or rolled back.
Kill(r) ==
    /\ kills < MaxKills
    /\ runner[r].pc \notin {"idle", "failed"}
    /\ kills' = kills + 1
    /\ IF r = "container" THEN runner' = Restarted /\ serving' = FALSE
       ELSE Goto(r, "failed") /\ UNCHANGED serving
    /\ UNCHANGED <<files, effects, recorded, up, deploys>>

Run(r) == CheckFile(r) \/ RunAtomicFile(r) \/ RunStatement(r) \/ Record(r)

MigNext ==
    \/ \E r \in Runners : Run(r) \/ Kill(r)
    \/ StartApp \/ RestartContainer \/ DeployUp \/ Deploy

MigSpec == MigInit /\ [][MigNext]_migVars

----------------------------------------------------------------------------
(* Properties. *)

\* What schema_migrations records was run to its end, and no file was begun before all
\* the files it builds on were: whatever was killed, and by whichever run.
RecordedIsWhole ==
    \A m \in DOMAIN files :
        /\ m \in recorded => Whole(m)
        /\ effects[m] > 0 => \A n \in 1 .. m - 1 : Whole(n)

\* A file whose effects stand in the way of its own next run.
Wedged(m) ==
    /\ m \notin recorded
    /\ \E k \in DOMAIN files[m].repeats : Refused(m, k)
    /\ \A r \in Runners : runner[r].at = m => runner[r].pc \in {"idle", "check", "failed"}
=============================================================================
