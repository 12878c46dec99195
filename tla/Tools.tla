-------------------------------- MODULE Tools -------------------------------
(***************************************************************************)
(* The programs beside the server: the deployment scripts, the development *)
(* seeder and the simulation scripts.  They have nothing in common but the *)
(* server they are run against, so a behaviour has one of them.            *)
(***************************************************************************)
EXTENDS Migrations, DevSeed, Flows

VARIABLE tool    \* the one that is run
toolsVars == <<tool, migVars, seedVars, flowVars>>

ToolsInit ==
    /\ tool \in {"migrations", "seeder", "scripts"}
    /\ MigInit /\ SeedInit /\ FlowInit
    /\ tool # "migrations" => files = CHOOSE s \in Schemas : TRUE
    /\ tool # "scripts" => config = (CHOOSE c \in Settings : TRUE) /\ world = Fresh("admin")

Only(t) == tool = t /\ UNCHANGED tool
Migrating(A) == Only("migrations") /\ A /\ UNCHANGED <<seedVars, flowVars>>
Seeding(A) == Only("seeder") /\ A /\ UNCHANGED <<migVars, flowVars>>
Simulating(A) == Only("scripts") /\ A /\ UNCHANGED <<migVars, seedVars>>

ToolsNext == Migrating(MigNext) \/ Seeding(SeedNext) \/ Simulating(FlowNext)

\* MigFairness: the operating system runs the container and docker restarts it.
ToolsFairness ==
    /\ \A r \in Runners : WF_toolsVars(Migrating(Run(r)))
    /\ WF_toolsVars(Migrating(StartApp)) /\ WF_toolsVars(Migrating(RestartContainer))

Spec == ToolsInit /\ [][ToolsNext]_toolsVars /\ ToolsFairness
-----------------------------------------------------------------------------
\* The container comes up with its schema whenever it is down, or a file that cannot be
\* repeated was cut off by a kill (scripts/migrate.sh, start-with-migrations.sh): no
\* schema wedges by itself, and no run that scripts/deploy.sh executes wedges one.
AppComesUp ==
    tool = "migrations" =>
        []<>(serving \/ (kills > 0 /\ \E m \in DOMAIN files : Wedged(m)))
=============================================================================
