----------------------------- MODULE ToolsProofs ----------------------------
(***************************************************************************)
(* Proofs about the programs beside the server.                            *)
(*                                                                         *)
(* What schema_migrations records was run to its end, for every directory  *)
(* of files, whatever is killed and however often deploy.sh is run.  The   *)
(* exit code and the report of a simulation script tell the truth, however *)
(* often a run is upset.  The development seeder makes nothing twice but   *)
(* by a retry, and leaves nothing out of a run that gets to its end, for   *)
(* every list of definitions, whatever is lost.                            *)
(***************************************************************************)
EXTENDS Tools, TLAPS

-----------------------------------------------------------------------------
(* The deployment scripts *)

\* A run of migrate.sh is at a file all of whose predecessors are recorded; of the file
\* it is at it has run what it counted, and the whole of it before it records it.
RunsInOrder ==
    \A r \in Runners :
        /\ \A n \in 1 .. runner[r].at - 1 : n \in recorded
        /\ runner[r].pc \in {"apply", "record"} => runner[r].at \in DOMAIN files
        /\ runner[r].pc = "apply" => runner[r].k <= effects[runner[r].at]
        /\ runner[r].pc = "record" => Whole(runner[r].at)

RunState == [at : 1 .. Len(files) + 1, pc : Pcs, k : Nat]

\* RecordedIsWhole is not inductive: it does not say where the runs are.
MigInv == MigTypeOK /\ RunsInOrder /\ RecordedIsWhole

\* The files of a directory and their statements are sequences.
LEMMA Directory ==
    ASSUME files \in Schemas
    PROVE  /\ DOMAIN files = 1 .. Len(files) /\ Len(files) \in Nat
           /\ \A m \in DOMAIN files : /\ files[m].atomic \in BOOLEAN
                                      /\ files[m].repeats \in Seq(BOOLEAN)
                                      /\ Len(files[m].repeats) \in Nat
<1>1. files \in Seq([atomic : BOOLEAN, repeats : Seq(BOOLEAN)])
  BY SchemasAssumption
<1>2. DOMAIN files = 1 .. Len(files) /\ Len(files) \in Nat
  BY <1>1
<1>3. ASSUME NEW m \in DOMAIN files
      PROVE  files[m] \in [atomic : BOOLEAN, repeats : Seq(BOOLEAN)]
  <2> DEFINE S == [atomic : BOOLEAN, repeats : Seq(BOOLEAN)]
  <2>1. files \in Seq(S)
    BY <1>1
  <2> HIDE DEF S
  <2>2. files[m] \in S
    BY <2>1
  <2> QED  BY <2>2 DEF S
<1>4. ASSUME NEW s \in Seq(BOOLEAN) PROVE Len(s) \in Nat
  OBVIOUS
<1> QED  BY <1>2, <1>3, <1>4

LEMMA MigStarts == MigInit => MigInv
<1> SUFFICES ASSUME MigInit PROVE MigInv
  OBVIOUS
<1>1. files \in Schemas
  BY DEF MigInit
<1>2. MigTypeOK
  <2>1. runner \in [Runners -> RunState]
    BY <1>1, Directory DEF MigInit, Runners, Begun, Idle, Pcs, RunState
  <2>2. /\ effects \in [DOMAIN files -> Nat]
        /\ \A m \in DOMAIN files : effects[m] <= Len(files[m].repeats)
    BY <1>1, Directory DEF MigInit
  <2>3. recorded \subseteq DOMAIN files /\ serving \in BOOLEAN /\ up \in BOOLEAN
    BY DEF MigInit
  <2>4. kills \in 0 .. MaxKills /\ deploys \in 0 .. MaxDeploys
    BY BoundsAssumption DEF MigInit
  <2> QED  BY <1>1, <2>1, <2>2, <2>3, <2>4 DEF MigTypeOK, RunState
<1>3. RunsInOrder
  BY DEF MigInit, RunsInOrder, Runners, Begun, Idle
<1>4. RecordedIsWhole
  BY DEF MigInit, RecordedIsWhole
<1> QED  BY <1>2, <1>3, <1>4 DEF MigInv

\* What is written of a file never goes back, so a whole file stays whole.
EffectsGrow ==
    /\ files' = files
    /\ \A m \in DOMAIN files : effects[m] <= effects'[m]

LEMMA WholeStays ==
    ASSUME MigTypeOK, MigTypeOK', EffectsGrow, NEW m \in DOMAIN files, Whole(m)
    PROVE  Whole(m)'
<1>1. effects[m] \in Nat /\ effects'[m] \in Nat /\ Len(files[m].repeats) \in Nat
  BY Directory DEF MigTypeOK, EffectsGrow
<1>2. effects'[m] <= Len(files[m].repeats)
  BY DEF MigTypeOK, EffectsGrow
<1> QED  BY <1>1, <1>2 DEF Whole, EffectsGrow

\* A statement of a run: nothing of an earlier file is missing when it starts.
LEMMA BuiltOnWhole ==
    ASSUME MigInv, NEW r \in Runners, runner[r].pc \in {"apply", "record"},
           NEW n \in 1 .. runner[r].at - 1
    PROVE  n \in DOMAIN files /\ Whole(n)
<1>1. runner[r].at \in 1 .. Len(files) /\ Len(files) \in Nat
  BY Directory DEF MigInv, MigTypeOK, RunsInOrder
<1>2. n \in DOMAIN files
  BY <1>1, Directory DEF MigInv, MigTypeOK
<1>3. n \in recorded
  BY DEF MigInv, RunsInOrder
<1> QED  BY <1>2, <1>3 DEF MigInv, RecordedIsWhole

LEMMA CheckKeeps ==
    ASSUME MigInv, NEW r \in Runners, CheckFile(r) PROVE MigInv'
<1> DEFINE m == runner[r].at
<1> USE DEF MigInv
<1>0. /\ Len(files) \in Nat /\ DOMAIN files = 1 .. Len(files)
      /\ m \in 1 .. Len(files) + 1
      /\ runner \in [Runners -> RunState]
      /\ \A n \in DOMAIN files : effects[n] \in Nat
  BY Directory DEF MigTypeOK, RunState
<1>u. UNCHANGED <<files, effects, recorded, serving, up, kills, deploys>>
  BY DEF CheckFile
<1>r. /\ runner' \in [Runners -> RunState]
      /\ \A s \in Runners : s # r => runner'[s] = runner[s]
      /\ \/ runner'[r].pc = "done" /\ runner'[r].at = m
         \/ runner'[r].pc = "check" /\ runner'[r].at = m + 1 /\ m \in recorded
         \/ runner'[r].pc = "apply" /\ runner'[r].at = m /\ m <= Len(files) /\ runner'[r].k = 0
  <2>1. CASE m > Len(files)
    <3>1. runner' = [runner EXCEPT ![r].pc = "done"]
      BY <2>1 DEF CheckFile, Goto
    <3> QED  BY <3>1, <1>0 DEF Pcs, RunState
  <2>2. CASE m <= Len(files) /\ Applied(m)
    <3>1. runner' = [runner EXCEPT ![r].at = m + 1] /\ runner[r].pc = "check"
      BY <2>2, <1>0 DEF CheckFile
    <3> QED  BY <3>1, <2>2, <1>0 DEF Pcs, Applied, RunState
  <2>3. CASE m <= Len(files) /\ ~Applied(m)
    <3>1. runner' = [runner EXCEPT ![r].pc = "apply", ![r].k = 0]
      BY <2>3, <1>0 DEF CheckFile
    <3> QED  BY <3>1, <2>3, <1>0 DEF Pcs, RunState
  <2> QED  BY <1>0, <2>1, <2>2, <2>3
<1>1. MigTypeOK'
  BY <1>u, <1>r DEF MigTypeOK, RunState
<1>2. RunsInOrder'
  <2>1. ASSUME NEW s \in Runners, NEW n \in 1 .. runner'[s].at - 1 PROVE n \in recorded
    BY <1>0, <1>r DEF RunsInOrder
  <2>2. ASSUME NEW s \in Runners
        PROVE  /\ runner'[s].pc \in {"apply", "record"} => runner'[s].at \in DOMAIN files
               /\ runner'[s].pc = "apply" => runner'[s].k <= effects[runner'[s].at]
               /\ runner'[s].pc = "record" => Whole(runner'[s].at)
    BY <1>0, <1>r DEF RunsInOrder
  <2> QED  BY <2>1, <2>2, <1>u DEF RunsInOrder, Whole
<1>3. RecordedIsWhole'
  BY DEF CheckFile, RecordedIsWhole, Whole
<1> QED  BY <1>1, <1>2, <1>3

\* A step of run r on the file it is at: more of it has its effect, the others are as
\* they were, and the run goes on with the file or gives up.
Writes(r) ==
    LET m == runner[r].at IN
    /\ runner[r].pc = "apply" /\ UNCHANGED <<files, recorded, serving, up, kills, deploys>>
    /\ effects' \in [DOMAIN files -> Nat]
    /\ \A n \in DOMAIN files :
         /\ effects[n] <= effects'[n] /\ effects'[n] <= Len(files[n].repeats)
         /\ n # m => effects'[n] = effects[n]
    /\ runner' \in [Runners -> RunState] /\ runner'[r].at = m
    /\ \A s \in Runners \ {r} : runner'[s] = runner[s]
    /\ runner'[r].pc = "apply" => runner'[r].k <= effects'[m]
    /\ runner'[r].pc = "record" => effects'[m] = Len(files[m].repeats)

LEMMA WritesKeeps ==
    ASSUME MigInv, NEW r \in Runners, Writes(r) PROVE MigInv'
<1> DEFINE m == runner[r].at
<1> USE DEF MigInv
<1>0. /\ Len(files) \in Nat /\ DOMAIN files = 1 .. Len(files)
      /\ m \in DOMAIN files /\ runner \in [Runners -> RunState]
      /\ effects \in [DOMAIN files -> Nat]
  BY Directory DEF MigTypeOK, RunsInOrder, Writes, RunState
<1>1. UNCHANGED <<files, recorded, serving, up, kills, deploys>>
  BY DEF Writes
<1>2. MigTypeOK'
  BY <1>1 DEF MigTypeOK, Writes, RunState
<1>3. EffectsGrow
  BY DEF EffectsGrow, Writes
<1>4. \A n \in DOMAIN files : Whole(n) => effects'[n] = Len(files[n].repeats)
  BY <1>1, <1>2, <1>3, WholeStays DEF Whole
<1>5. RunsInOrder'
  <2> SUFFICES ASSUME NEW s \in Runners
               PROVE  /\ \A n \in 1 .. runner'[s].at - 1 : n \in recorded
                      /\ runner'[s].pc \in {"apply", "record"} => runner'[s].at \in DOMAIN files
                      /\ runner'[s].pc = "apply" => runner'[s].k <= effects'[runner'[s].at]
                      /\ runner'[s].pc = "record"
                           => effects'[runner'[s].at] = Len(files[runner'[s].at].repeats)
    BY <1>1 DEF RunsInOrder, Whole
  <2>1. CASE s = r
    BY <2>1, <1>0 DEF RunsInOrder, Writes
  <2>2. CASE s # r
    <3>1. runner'[s] = runner[s]
      BY <2>2 DEF Writes
    <3>2. runner[s].pc = "apply" => runner[s].k <= effects'[runner[s].at]
      <4> SUFFICES ASSUME runner[s].pc = "apply" PROVE runner[s].k <= effects'[runner[s].at]
        OBVIOUS
      <4>1. /\ runner[s].at \in DOMAIN files /\ runner[s].k \in Nat
            /\ runner[s].k <= effects[runner[s].at]
        BY <1>0 DEF RunsInOrder, RunState
      <4>2. /\ effects[runner[s].at] \in Nat /\ effects'[runner[s].at] \in Nat
            /\ effects[runner[s].at] <= effects'[runner[s].at]
        BY <4>1, <1>0 DEF Writes
      <4> QED  BY <4>1, <4>2
    <3>3. runner[s].pc = "record"
          => effects'[runner[s].at] = Len(files[runner[s].at].repeats)
      BY <1>4 DEF RunsInOrder
    <3> QED  BY <3>1, <3>2, <3>3 DEF RunsInOrder
  <2> QED  BY <2>1, <2>2
<1>6. RecordedIsWhole'
  <2> SUFFICES ASSUME NEW n \in DOMAIN files
               PROVE  /\ n \in recorded => effects'[n] = Len(files[n].repeats)
                      /\ effects'[n] > 0 => \A q \in 1 .. n - 1 : effects'[q] = Len(files[q].repeats)
    BY <1>1 DEF RecordedIsWhole, Whole
  <2>1. n \in recorded => effects'[n] = Len(files[n].repeats)
    BY <1>4 DEF RecordedIsWhole
  <2>2. ASSUME effects'[n] > 0, NEW q \in 1 .. n - 1
        PROVE  effects'[q] = Len(files[q].repeats)
    <3>1. q \in DOMAIN files
      BY <1>0
    <3>2. CASE n = m
      BY <3>1, <3>2, <1>4, BuiltOnWhole DEF Writes
    <3>3. CASE n # m
      BY <2>2, <3>1, <3>3, <1>4 DEF RecordedIsWhole, Writes
    <3> QED  BY <3>2, <3>3
  <2> QED  BY <2>1, <2>2
<1> QED  BY <1>2, <1>5, <1>6

\* Both kinds of files are written so.
LEMMA FilesAreWritten ==
    ASSUME MigInv, NEW r \in Runners, RunAtomicFile(r) \/ RunStatement(r) PROVE Writes(r)
<1> DEFINE m == runner[r].at
           k == runner[r].k + 1
<1> USE DEF MigInv
<1>0. /\ runner[r].pc = "apply" /\ m \in DOMAIN files
      /\ runner \in [Runners -> RunState]
      /\ effects \in [DOMAIN files -> Nat]
      /\ \A n \in DOMAIN files : /\ effects[n] <= Len(files[n].repeats)
                                /\ Len(files[n].repeats) \in Nat
      /\ runner[r].k \in Nat /\ runner[r].k <= effects[m]
  BY Directory DEF MigTypeOK, RunsInOrder, RunAtomicFile, RunStatement, RunState
<1>1. UNCHANGED <<files, recorded, serving, up, kills, deploys>>
  BY DEF RunAtomicFile, RunStatement
\* What the run does of its file, and where it goes.
<1>2. \/ Goto(r, "failed") /\ effects' = effects
      \/ Goto(r, "record") /\ effects' = [effects EXCEPT ![m] = Len(files[m].repeats)]
      \/ Goto(r, "record") /\ effects' = effects /\ k > Len(files[m].repeats)
      \/ /\ k <= Len(files[m].repeats) /\ runner' = [runner EXCEPT ![r].k = k]
         /\ effects' = [effects EXCEPT ![m] = IF k > @ THEN k ELSE @]
  <2>1. CASE RunAtomicFile(r)
    BY <2>1 DEF RunAtomicFile
  <2>2. CASE RunStatement(r)
    BY <2>2, <1>0 DEF RunStatement
  <2> QED  BY <2>1, <2>2
<1>3. ASSUME NEW end \in {"record", "failed"}, Goto(r, end)
      PROVE  /\ runner' \in [Runners -> RunState] /\ runner'[r].at = m /\ runner'[r].pc = end
             /\ \A s \in Runners \ {r} : runner'[s] = runner[s]
  BY <1>0, <1>3 DEF Goto, RunState, Pcs
<1>4. CASE Goto(r, "failed") /\ effects' = effects
  BY <1>4, <1>0, <1>1, <1>3 DEF Writes
<1>5. CASE Goto(r, "record") /\ effects' = [effects EXCEPT ![m] = Len(files[m].repeats)]
  BY <1>5, <1>0, <1>1, <1>3 DEF Writes
<1>6. CASE Goto(r, "record") /\ effects' = effects /\ k > Len(files[m].repeats)
  BY <1>6, <1>0, <1>1, <1>3 DEF Writes
<1>7. CASE /\ k <= Len(files[m].repeats) /\ runner' = [runner EXCEPT ![r].k = k]
           /\ effects' = [effects EXCEPT ![m] = IF k > @ THEN k ELSE @]
  <2>1. /\ runner' \in [Runners -> RunState]
        /\ runner'[r].at = m /\ runner'[r].pc = "apply" /\ runner'[r].k = k
        /\ \A s \in Runners \ {r} : runner'[s] = runner[s]
    BY <1>7, <1>0 DEF RunState
  <2>2. /\ effects' \in [DOMAIN files -> Nat]
        /\ effects'[m] = IF k > effects[m] THEN k ELSE effects[m]
        /\ \A n \in DOMAIN files : n # m => effects'[n] = effects[n]
    BY <1>7, <1>0
  <2> QED  BY <2>1, <2>2, <1>7, <1>0, <1>1 DEF Writes
<1> QED  BY <1>2, <1>4, <1>5, <1>6, <1>7

LEMMA RecordKeeps ==
    ASSUME MigInv, NEW r \in Runners, Record(r) PROVE MigInv'
<1> DEFINE m == runner[r].at
<1> USE DEF MigInv
<1>0. /\ Len(files) \in Nat /\ DOMAIN files = 1 .. Len(files)
      /\ m \in DOMAIN files /\ Whole(m)
      /\ runner \in [Runners -> RunState]
  BY Directory DEF MigTypeOK, RunsInOrder, Record, RunState
<1>1. UNCHANGED <<files, effects, serving, up, kills, deploys>>
  BY DEF Record
<1>2. CASE m \in recorded
  <2>1. runner' = [runner EXCEPT ![r].pc = "failed"] /\ UNCHANGED recorded
    BY <1>2 DEF Record, Goto
  <2>2. MigTypeOK'
    BY <2>1, <1>0, <1>1 DEF MigTypeOK, Pcs, RunState
  <2>3. RunsInOrder'
    BY <2>1, <1>0, <1>1 DEF RunsInOrder, Whole
  <2>4. RecordedIsWhole'
    BY <2>1, <1>1 DEF RecordedIsWhole, Whole
  <2> QED  BY <2>2, <2>3, <2>4
<1>3. CASE m \notin recorded
  <2>1. /\ recorded' = recorded \cup {m}
        /\ runner' = [runner EXCEPT ![r].at = m + 1, ![r].pc = "check", ![r].k = 0]
    BY <1>3 DEF Record
  <2>2. MigTypeOK'
    <3>1. runner' \in [Runners -> RunState]
      <4>1. m + 1 \in 1 .. Len(files) + 1 /\ runner[r] \in RunState
        BY <1>0
      <4>2. [runner[r] EXCEPT !.at = m + 1, !.pc = "check", !.k = 0] \in RunState
        BY <4>1 DEF RunState, Pcs
      <4> QED  BY <4>2, <2>1, <1>0
    <3>2. recorded' \subseteq DOMAIN files
      BY <2>1, <1>0 DEF MigTypeOK, RunState
    <3> QED  BY <3>1, <3>2, <1>1 DEF MigTypeOK, RunState
  <2>3. RunsInOrder'
    BY <2>1, <1>0, <1>1 DEF RunsInOrder, Whole, RunState
  <2>4. RecordedIsWhole'
    BY <2>1, <1>0, <1>1 DEF RecordedIsWhole, Whole
  <2> QED  BY <2>2, <2>3, <2>4
<1> QED  BY <1>2, <1>3

\* A run that stops or begins again is nowhere it should not be.
LEMMA RestartsKeep ==
    ASSUME MigInv, UNCHANGED <<files, effects, recorded>>, serving' \in BOOLEAN,
           up' \in BOOLEAN, kills' \in 0 .. MaxKills, deploys' \in 0 .. MaxDeploys,
           \A r \in Runners : \/ runner'[r] \in {runner[r], Begun, Idle}
                              \/ runner'[r] = [runner[r] EXCEPT !.pc = "failed"],
           runner' = [r \in Runners |-> runner'[r]]
    PROVE  MigInv'
<1> USE DEF MigInv
<1>0. /\ Len(files) \in Nat
      /\ runner \in [Runners -> RunState]
  BY Directory DEF MigTypeOK, RunState
<1>1. \A r \in Runners : runner'[r] \in RunState
  BY <1>0, SMTT(40) DEF Begun, Idle, Pcs, RunState
<1>2. MigTypeOK'
  BY <1>1 DEF MigTypeOK, RunState
<1>3. RunsInOrder'
  <2> SUFFICES ASSUME NEW r \in Runners
               PROVE  /\ \A n \in 1 .. runner'[r].at - 1 : n \in recorded
                      /\ runner'[r].pc \in {"apply", "record"} => runner'[r].at \in DOMAIN files
                      /\ runner'[r].pc = "apply" => runner'[r].k <= effects[runner'[r].at]
                      /\ runner'[r].pc = "record" => Whole(runner'[r].at)
    BY DEF RunsInOrder, Whole
  <2>1. CASE runner'[r] = runner[r]
    BY <2>1 DEF RunsInOrder
  <2>2. CASE runner'[r] \in {Begun, Idle}
    BY <2>2 DEF Begun, Idle
  <2>3. CASE runner'[r] = [runner[r] EXCEPT !.pc = "failed"]
    <3>1. runner'[r].pc = "failed" /\ runner'[r].at = runner[r].at
      BY <2>3, <1>0 DEF RunState
    <3> QED  BY <3>1 DEF RunsInOrder
  <2> QED  BY <2>1, <2>2, <2>3
<1>4. RecordedIsWhole'
  BY DEF RecordedIsWhole, Whole
<1> QED  BY <1>2, <1>3, <1>4

LEMMA MigSteps == MigInv /\ [MigNext]_migVars => MigInv'
<1> SUFFICES ASSUME MigInv, [MigNext]_migVars PROVE MigInv'
  OBVIOUS
<1>0. /\ runner \in [Runners -> RunState]
      /\ serving \in BOOLEAN /\ up \in BOOLEAN /\ kills \in 0 .. MaxKills /\ deploys \in 0 .. MaxDeploys
      /\ "container" \in Runners /\ "exec" \in Runners
  BY DEF MigInv, MigTypeOK, Runners, RunState
<1>1. ASSUME NEW r \in Runners, Run(r) PROVE MigInv'
  BY <1>1, CheckKeeps, WritesKeeps, FilesAreWritten, RecordKeeps DEF Run
<1>2. ASSUME NEW r \in Runners, Kill(r) PROVE MigInv'
  <2>1. kills' \in 0 .. MaxKills
    BY <1>0, <1>2, BoundsAssumption DEF Kill
  <2>2. CASE r = "container"
    BY <1>0, <1>2, <2>1, <2>2, RestartsKeep DEF Kill, Restarted
  <2>3. CASE r # "container"
    BY <1>0, <1>2, <2>1, <2>3, RestartsKeep DEF Kill, Goto
  <2> QED  BY <2>2, <2>3
<1>3. CASE StartApp
  BY <1>0, <1>3, RestartsKeep DEF StartApp
<1>4. CASE RestartContainer
  BY <1>0, <1>4, RestartsKeep DEF RestartContainer, Restarted
<1>5. CASE DeployUp
  <2>1. deploys' \in 0 .. MaxDeploys
    BY <1>0, <1>5, BoundsAssumption DEF DeployUp
  <2> QED  BY <1>0, <1>5, <2>1, RestartsKeep DEF DeployUp
<1>6. CASE Deploy
  BY <1>0, <1>6, RestartsKeep DEF Deploy
<1>7. CASE UNCHANGED migVars
  BY <1>0, <1>7, RestartsKeep DEF migVars
<1> QED  BY <1>1, <1>2, <1>3, <1>4, <1>5, <1>6, <1>7 DEF MigNext

\* The inductive invariant of the deployment scripts.
THEOREM MigrationsInvariant == MigSpec => []MigInv
<1> QED  BY MigStarts, MigSteps, PTL DEF MigSpec

\* What schema_migrations records was run to its end, and no file was begun before all
\* the files it builds on were (scripts/migrate.sh): for every directory of files, any
\* number of kills, restarts and deployments.
THEOREM RecordedFilesAreWhole == Spec => []RecordedIsWhole
<1>1. Spec => MigSpec
  <2>1. ToolsInit => MigInit
    BY DEF ToolsInit
  <2>2. [ToolsNext]_toolsVars => [MigNext]_migVars
    BY DEF ToolsNext, toolsVars, Migrating, Seeding, Simulating
  <2> QED  BY <2>1, <2>2, PTL DEF Spec, MigSpec
<1>2. MigInv => RecordedIsWhole
  BY DEF MigInv
<1> QED  BY <1>1, <1>2, MigrationsInvariant, PTL

-----------------------------------------------------------------------------
(* The simulation scripts *)

\* VerdictIsTrue is not inductive: it says nothing of a script that is still running.
\* One that goes on after a surprise has a recorded failure, and has written nothing.
Books ==
    /\ tally \in [passed : Nat, failed : Nat]
    /\ exit \in {"running", "0", "1"}
    /\ tally.failed > 0 => surprised
    /\ exit = "running" => report = NoReport
    /\ exit = "running" /\ surprised => tally.failed > 0
FlowInv == Books /\ VerdictIsTrue

\* What a step leaves in the results is what came out of it; a wrong one that is not
\* recorded throws.
LEMMA StepIsRecorded ==
    ASSUME tally \in [passed : Nat, failed : Nat], NEW s, NEW ok \in BOOLEAN
    PROVE  /\ Recorded(s, ok) \in [passed : Nat, failed : Nat]
           /\ ok => Recorded(s, ok).failed = tally.failed
           /\ Recorded(s, ok).failed >= tally.failed
           /\ ~ok /\ ~Throws(s, ok) => Recorded(s, ok).failed > 0
           /\ Recorded(s, ok).failed > tally.failed => ~ok
<1> DEFINE unrecorded == s.kind \in {"quiet", "need"} \/ (s.kind = "put" /\ ~ok)
<1>1. CASE unrecorded
  BY <1>1 DEF Recorded, Throws
<1>2. CASE ~unrecorded /\ s.kind = "socket" /\ ok
  BY <1>2 DEF Recorded
<1>3. CASE ~unrecorded /\ ~(s.kind = "socket" /\ ok)
  <2>1. Recorded(s, ok) = IF ok THEN [tally EXCEPT !.passed = @ + 1]
                                ELSE [tally EXCEPT !.failed = @ + 1]
    BY <1>3 DEF Recorded
  <2> QED  BY <2>1
<1> QED  BY <1>1, <1>2, <1>3

\* A step that a running script takes: what is recorded, whether it was as expected, and
\* whether the script goes on.
LEMMA StepKeepsBooks ==
    ASSUME FlowInv, Running, NEW s, NEW ok \in BOOLEAN, NEW throws \in BOOLEAN,
           NEW odd \in BOOLEAN,
           tally' = Recorded(s, ok), surprised' = (surprised \/ ~ok \/ odd),
           Proceed(throws), Throws(s, ok) => throws, throws => ~ok \/ odd, odd => ~ok \/ throws,
           UNCHANGED <<config, report>>
    PROVE  FlowInv'
<1>1. /\ tally' \in [passed : Nat, failed : Nat]
      /\ ok => tally'.failed = tally.failed
      /\ ~ok /\ ~throws => tally'.failed > 0
      /\ tally'.failed >= tally.failed
      /\ tally.failed \in Nat
  BY StepIsRecorded DEF FlowInv, Books
<1>2. exit = "running" /\ report = NoReport /\ (tally.failed > 0 <=> surprised)
  BY DEF FlowInv, Books, Running
<1>3. (throws /\ exit' = "1") \/ (~throws /\ exit' = "running")
  BY <1>2 DEF Proceed
<1>4. Books'
  BY <1>1, <1>2, <1>3 DEF Books
<1>5. VerdictIsTrue'
  BY <1>2, <1>3 DEF VerdictIsTrue
<1> QED  BY <1>4, <1>5 DEF FlowInv

LEMMA FlowSteps == FlowInv /\ [FlowNext]_flowVars => FlowInv'
<1> SUFFICES ASSUME FlowInv, [FlowNext]_flowVars PROVE FlowInv'
  OBVIOUS
<1>1. ASSUME Running, NEW s, NEW c, Take(s, c), UNCHANGED <<config, report>>
      PROVE  FlowInv'
  <2> DEFINE ok == c \in s.want
             unpicked == s.pick /\ c >= 300 /\ ~(c = 404 /\ ok)
  <2>1. /\ tally' = Recorded(s, ok) /\ surprised' = (surprised \/ ~ok \/ unpicked)
        /\ Proceed(Throws(s, ok) \/ unpicked)
    BY <1>1 DEF Take
  <2>2. ok \in BOOLEAN /\ unpicked \in BOOLEAN /\ (Throws(s, ok) => ~ok)
    BY DEF Throws
  <2> HIDE DEF ok, unpicked
  <2>3. (Throws(s, ok) \/ unpicked) \in BOOLEAN
    BY <2>2 DEF Throws
  <2> QED  BY <1>1, <2>1, <2>2, <2>3, StepKeepsBooks
<1>2. CASE Answered
  BY <1>1, <1>2 DEF Answered
<1>3. CASE Looked
  <2> DEFINE ok == Current.arg = "any" \/ (shows <=> Current.arg = "shown")
  <2>1. /\ Running /\ tally' = Recorded(Current, ok) /\ surprised' = (surprised \/ ~ok)
        /\ Proceed(Throws(Current, ok)) /\ UNCHANGED <<config, report>>
    BY <1>3 DEF Looked
  <2>2. ok \in BOOLEAN /\ Throws(Current, ok) \in BOOLEAN /\ (Throws(Current, ok) => ~ok)
    BY DEF Throws
  <2> HIDE DEF ok
  <2>3. surprised' = (surprised \/ ~ok \/ FALSE)
    BY <2>1
  <2> QED  BY <2>1, <2>2, <2>3, StepKeepsBooks
<1>4. CASE TurnedAway
  BY <1>1, <1>4 DEF TurnedAway
<1>5. CASE TimedOut
  <2>1. CASE Current.kind \in {"try", "socket"}
    <3>1. /\ Running /\ tally' = Recorded(Current, FALSE) /\ surprised' = TRUE
          /\ Proceed(Throws(Current, FALSE)) /\ UNCHANGED <<config, report>>
      BY <1>5, <2>1 DEF TimedOut
    <3>2. Throws(Current, FALSE) \in BOOLEAN
      BY DEF Throws
    <3>3. surprised' = (surprised \/ ~FALSE \/ FALSE)
      BY <3>1
    <3> QED  BY <3>1, <3>2, <3>3, StepKeepsBooks
  <2>2. CASE Current.kind \notin {"try", "socket"}
    <3>1. Running /\ exit' = "1" /\ surprised' = TRUE /\ UNCHANGED <<tally, step, config, report>>
      BY <1>5, <2>2 DEF TimedOut
    <3> QED  BY <3>1 DEF FlowInv, Books, VerdictIsTrue, Running
  <2> QED  BY <2>1, <2>2
<1>6. CASE Conclude
  <2>1. exit = "running" /\ tally.failed \in Nat /\ (surprised <=> tally.failed > 0)
    BY <1>6 DEF Conclude, FlowInv, Books
  <2>2. /\ exit' = IF surprised THEN "1" ELSE "0"
        /\ UNCHANGED <<config, step, tally, surprised>>
        /\ report' = tally \/ report' = NoReport
        /\ step > Len(script)
    BY <1>6, <2>1 DEF Conclude, Verdict
  <2>3. Books'
    BY <2>1, <2>2 DEF FlowInv, Books
  <2>4. VerdictIsTrue'
    BY <2>1, <2>2 DEF VerdictIsTrue, script
  <2> QED  BY <2>3, <2>4 DEF FlowInv
<1>7. CASE StepOver \/ Meddle
  <2>1. /\ exit = "running" /\ UNCHANGED <<config, tally, exit, report, surprised>>
    BY <1>7 DEF StepOver, Meddle, Running
  <2> QED  BY <2>1 DEF FlowInv, Books, VerdictIsTrue
<1>8. CASE UNCHANGED flowVars
  BY <1>8 DEF flowVars, FlowInv, Books, VerdictIsTrue, script
<1> QED  BY <1>2, <1>3, <1>4, <1>5, <1>6, <1>7, <1>8 DEF FlowNext

\* The exit code of a simulation script is the truth about the run, and its report has all
\* the steps (main and main().catch of scripts/simulate-*.ts): whatever upsets it, however
\* often, for every script and settings.
THEOREM VerdictsAreTrue == Spec => []VerdictIsTrue
<1>1. ToolsInit => FlowInv
  BY DEF ToolsInit, FlowInit, FlowInv, Books, VerdictIsTrue, NoReport
<1>2. FlowInv /\ [ToolsNext]_toolsVars => FlowInv'
  <2>1. [ToolsNext]_toolsVars => [FlowNext]_flowVars
    BY DEF ToolsNext, toolsVars, Migrating, Seeding, Simulating
  <2> QED  BY <2>1, FlowSteps
<1>3. FlowInv => VerdictIsTrue
  BY DEF FlowInv
<1> QED  BY <1>1, <1>2, <1>3, PTL DEF Spec

-----------------------------------------------------------------------------
(* The development seeder *)

SeedKind(i) == Tasks[i].kind
Row(i) == rows[Tasks[i].key]
Values == {"new", "active"} \cup {Tasks[i].want : i \in DOMAIN Tasks}
SeedTypes ==
    /\ rows \in [Keys -> Seq(Values)] /\ seen \in [Keys -> Seq(Values)]
    /\ warnings \in [Keys -> Nat] /\ again \in [Keys -> Nat]
    /\ map \in [Keys -> {"none", "created", "reused", "updated"}]
    /\ served \in BOOLEAN /\ at \in 0 .. Len(Tasks) + 1

\* The requests of a kind of task, and of the run outside its tasks.
PcsOf(kind) ==
    CASE kind = "user" -> {"login", "register", "verify", "profile"}
      [] kind = "category" -> {"create", "find"}
      [] kind = "product" -> {"list", "upload", "mark", "create", "update", "status"}
      [] kind \in {"block", "favorite"} -> {"list", "create", "skip"}
      [] kind = "rating" -> {"create"}
      [] kind = "talk" -> {"create", "history", "join"}
      [] kind = "message" -> {"send", "skip", "read"}
      [] kind = "report" -> {"list", "mine", "create", "status", "skip"}
      [] kind = "moderate" -> {"list", "status", "warn"}
PcsAt(i) == IF i = 0 THEN {"off", "preflight"}
            ELSE IF i > Len(Tasks) THEN {"summary", "artifacts"} ELSE PcsOf(SeedKind(i))
Position == pc \in PcsAt(at) /\ (pc = "preflight" => lists = {})

\* What the tables of the server are like, wherever the seeder is. A user who is banned
\* cannot log in, nor register again: no later run gets past him.
OnlyNew ==
    \A i \in DOMAIN Tasks :
        SeedKind(i) \notin {"user", "product", "report", "moderate"} => Row(i) \in {<<>>, <<"new">>}
Registering ==
    \A i \in DOMAIN Tasks : SeedKind(i) = "user" /\ Tasks[i].key \in pending => Row(i) = <<>>
BannedBy(i, j) ==
    SeedKind(i) = "moderate" /\ SeedKind(j) = "user" /\ Tasks[i].by = Tasks[j].key
Banned ==
    \A i, j \in DOMAIN Tasks :
        BannedBy(i, j) /\ Row(i) # <<>> => Row(j) # <<>> /\ Row(j) # <<"active">>
SeedTables == DoubledByRetriesOnly /\ OnlyNew /\ Registering /\ Banned

\* What the run knows of the task it is at.
Here(i) ==
    CASE SeedKind(i) = "user" -> pc = "profile" => Row(i) # <<>> /\ map[Tasks[i].key] # "none"
      [] SeedKind(i) = "category" -> pc = "find" => Row(i) # <<>>
      [] SeedKind(i) = "product" ->
           /\ pc \in {"upload", "mark", "update"} => seen[Tasks[i].key] = Row(i)
           /\ pc = "update" => Row(i) # <<>>
           /\ pc = "create" /\ ~served => Row(i) = <<>>
      [] SeedKind(i) \in {"block", "favorite"} -> pc = "skip" => Row(i) # <<>>
      [] SeedKind(i) = "rating" -> TRUE
      [] SeedKind(i) = "talk" -> pc # "create" => Row(i) # <<>> /\ map[Tasks[i].key] # "none"
      [] SeedKind(i) = "message" -> pc = "send" <=> Row(i) = <<>>
      [] SeedKind(i) = "report" ->
           /\ pc = "create" /\ ~served => Row(i) = <<>>
           /\ pc = "skip" => Row(i) # <<>> /\ Newest(Row(i)) = Tasks[i].want
      [] SeedKind(i) = "moderate" -> pc = "warn" => Row(i) # <<>> /\ Newest(Row(i)) = Tasks[i].want

\* The lists read so far show what is there of the tasks to come.
LookedUp(j, i, p, read) ==
    \/ SeedKind(j) \in Listed /\ ListOf(Tasks[j]) \in read
    \/ /\ SeedKind(j) = "message"
       /\ \E k \in 1 .. j - 1 : /\ SeedKind(k) = "talk" /\ j \in TalkOf(k)
                                /\ k < i \/ (k = i /\ p = "join")
Ahead == at > 0 => \A j \in DOMAIN Tasks :
    j > at /\ LookedUp(j, at, pc, lists) => seen[Tasks[j].key] = Row(j)

\* The tasks the run is through with are done, and its users could log in until they are
\* moderated.
Seeded(j) ==
    /\ Row(j) # <<>>
    /\ SeedKind(j) # "user" => Newest(Row(j)) = Tasks[j].want
    /\ SeedKind(j) \notin {"rating", "message"} => map[Tasks[j].key] # "none"
    /\ SeedKind(j) = "moderate" => warnings[Tasks[j].key] > 0
Behind == \A j \in DOMAIN Tasks : j < at => Seeded(j)
LoggedIn ==
    \A i, j \in DOMAIN Tasks :
        /\ BannedBy(i, j) /\ (j < at \/ (j = at /\ pc = "profile"))
        /\ at < i \/ (at = i /\ pc = "list")
        => Row(j) = <<"active">>
Place == (at \in DOMAIN Tasks => Here(at)) /\ Ahead /\ Behind /\ LoggedIn
SeedInv == SeedTypes /\ Position /\ SeedTables /\ Place

\* The rows of a key: what Newest, Append and EXCEPT do to them.
LEMMA Values1 ==
    ASSUME NEW v \in Values
    PROVE  <<v>> \in Seq(Values) /\ Len(<<v>>) = 1 /\ <<v>> # <<>> /\ Newest(<<v>>) = v
  BY DEF Newest

LEMMA ValuesAppend ==
    ASSUME NEW s \in Seq(Values), NEW v \in Values
    PROVE  /\ Append(s, v) \in Seq(Values) /\ Len(Append(s, v)) = Len(s) + 1
           /\ Append(s, v) # <<>> /\ Newest(Append(s, v)) = v
<1>1. Append(s, v) \in Seq(Values) /\ Len(Append(s, v)) = Len(s) + 1 /\ Len(s) \in Nat
  OBVIOUS
<1>2. Append(s, v)[Len(s) + 1] = v
  OBVIOUS
<1> QED  BY <1>1, <1>2 DEF Newest

LEMMA ValuesReplace ==
    ASSUME NEW s \in Seq(Values), s # <<>>, NEW v \in Values
    PROVE  LET t == [s EXCEPT ![Len(s)] = v] IN
           t \in Seq(Values) /\ Len(t) = Len(s) /\ t # <<>> /\ Newest(t) = v
<1> DEFINE t == [s EXCEPT ![Len(s)] = v]
<1>1. Len(s) \in Nat /\ Len(s) > 0
  OBVIOUS
<1>2. t \in Seq(Values) /\ Len(t) = Len(s)
  BY <1>1
<1>3. t[Len(s)] = v
  BY <1>1
<1> QED  BY <1>1, <1>2, <1>3 DEF Newest

LEMMA Definitions ==
    /\ DOMAIN Tasks = 1 .. Len(Tasks) /\ Len(Tasks) \in Nat /\ Len(Tasks) > 0
    /\ \A i \in DOMAIN Tasks : Tasks[i].key \in Keys /\ Tasks[i].want \in Values
    /\ \A i, j \in DOMAIN Tasks : Tasks[i].key = Tasks[j].key => i = j
    /\ \A i, j, k \in DOMAIN Tasks : BannedBy(i, j) /\ BannedBy(k, j) => i = k
    /\ \A i \in DOMAIN Tasks : SeedKind(i) \in Kinds
    /\ \A i \in DOMAIN Tasks :
         SeedKind(i) \notin {"user", "product", "report", "moderate"} => Tasks[i].want = "new"
    /\ \A i \in DOMAIN Tasks : SeedKind(i) = "moderate" =>
         Tasks[i].want # "active" /\ \E j \in DOMAIN Tasks : BannedBy(i, j) /\ j < i
    /\ \A i, j \in DOMAIN Tasks : BannedBy(i, j) => i # j
    /\ "new" \in Values /\ "active" \in Values
<1>1. /\ DOMAIN Tasks = 1 .. Len(Tasks) /\ Len(Tasks) \in Nat /\ Len(Tasks) > 0
      /\ \A i \in DOMAIN Tasks : Tasks[i].key \in Keys /\ Tasks[i].want \in Values
      /\ "new" \in Values /\ "active" \in Values
  BY DefinitionsAssumption DEF Keys, Values
<1>2. \A i, j \in DOMAIN Tasks : Tasks[i].key = Tasks[j].key => i = j
  BY DefinitionsAssumption
<1>3. \A i, j, k \in DOMAIN Tasks : BannedBy(i, j) /\ BannedBy(k, j) => i = k
  BY DefinitionsAssumption DEF BannedBy, SeedKind
<1>4. /\ \A i \in DOMAIN Tasks : SeedKind(i) \in Kinds
      /\ \A i \in DOMAIN Tasks :
           SeedKind(i) \notin {"user", "product", "report", "moderate"} => Tasks[i].want = "new"
  BY DefinitionsAssumption DEF SeedKind
<1>5. ASSUME NEW i \in DOMAIN Tasks, SeedKind(i) = "moderate"
      PROVE  Tasks[i].want # "active" /\ \E j \in DOMAIN Tasks : BannedBy(i, j) /\ j < i
  <2>1. /\ Tasks[i].want # "active"
        /\ \E j \in 1 .. i - 1 : Tasks[j].kind = "user" /\ Tasks[j].key = Tasks[i].by
    BY <1>5, DefinitionsAssumption DEF SeedKind
  <2>2. \A j \in 1 .. i - 1 : j \in DOMAIN Tasks /\ j < i
    BY <1>1
  <2> QED  BY <1>5, <2>1, <2>2 DEF BannedBy, SeedKind
<1>6. \A i, j \in DOMAIN Tasks : BannedBy(i, j) => i # j
  BY DEF BannedBy
<1>7. \A i \in DOMAIN Tasks : SeedKind(i) = "moderate" =>
        Tasks[i].want # "active" /\ \E j \in DOMAIN Tasks : BannedBy(i, j) /\ j < i
  BY <1>5
<1> QED  BY <1>1, <1>2, <1>3, <1>4, <1>6, <1>7, Zenon

\* What the server's run of a request of task i does, as far as the seeder goes on from it.
Did(i) ==
    /\ rows' \in [Keys -> Seq(Values)]
    /\ warnings' \in [Keys -> Nat] /\ again' \in [Keys -> Nat]
    /\ \A j \in DOMAIN Tasks :
         j # i /\ ~(BannedBy(i, j) /\ pc = "status") => rows'[Tasks[j].key] = rows[Tasks[j].key]
    /\ pc \notin {"create", "send", "verify", "status"} => rows' = rows
    /\ pc \in {"create", "send"} =>
         /\ rows'[Tasks[i].key] # <<>> /\ Newest(rows'[Tasks[i].key]) = "new"
         /\ Len(rows'[Tasks[i].key])
              = IF Unique(Tasks[i]) THEN 1 ELSE Len(rows[Tasks[i].key]) + 1
         /\ again'[Tasks[i].key] = again[Tasks[i].key] + IF served THEN 1 ELSE 0
         /\ rows'[Tasks[i].key]
              = IF Unique(Tasks[i]) THEN <<"new">> ELSE Append(rows[Tasks[i].key], "new")
    /\ pc = "status" =>
         /\ rows'[Tasks[i].key] # <<>> /\ Newest(rows'[Tasks[i].key]) = Tasks[i].want
         /\ Len(rows'[Tasks[i].key])
              = IF rows[Tasks[i].key] = <<>> THEN 1 ELSE Len(rows[Tasks[i].key])
         /\ \A j \in DOMAIN Tasks : BannedBy(i, j) => rows'[Tasks[j].key] = <<Tasks[i].want>>
    /\ pc = "verify" =>
         rows'[Tasks[i].key] = IF Tasks[i].key \in pending THEN <<"active">> ELSE rows[Tasks[i].key]
    /\ \A k \in Keys : again[k] <= again'[k] /\ warnings[k] <= warnings'[k]
    /\ pc = "warn" => warnings'[Tasks[i].key] > 0
    /\ \A k : k \in pending' => k \in pending \/ (pc = "register" /\ k = Tasks[i].key /\ rows[k] = <<>>)
    /\ pc = "verify" => Tasks[i].key \notin pending'

LEMMA ServeDoes ==
    ASSUME SeedTypes, InTasks, Serve PROVE Did(at)
<1> DEFINE k == Tasks[at].key
           w == Tasks[at].want
<1>0. /\ at \in DOMAIN Tasks /\ k \in Keys /\ w \in Values /\ rows \in [Keys -> Seq(Values)]
      /\ "new" \in Values /\ "active" \in Values /\ rows[k] \in Seq(Values)
  BY Definitions DEF InTasks, SeedTypes
<1>1. \A j \in DOMAIN Tasks : j # at => Tasks[j].key # k /\ Tasks[j].key \in Keys
  BY <1>0, Definitions
<1>2. /\ rows' = RowsAfter(Tasks[at], pc) /\ pending' = PendingAfter(Tasks[at], pc)
      /\ warnings' = WarningsAfter(Tasks[at], pc)
      /\ again' = IF served /\ pc \in {"create", "send"} THEN [again EXCEPT ![k] = @ + 1] ELSE again
  BY DEF Serve, Task, Key
<1>3. /\ again' \in [Keys -> Nat] /\ \A x \in Keys : again[x] <= again'[x]
      /\ pc \in {"create", "send"} => again'[k] = again[k] + IF served THEN 1 ELSE 0
  BY <1>0, <1>2 DEF SeedTypes
<1>4. /\ warnings' \in [Keys -> Nat] /\ \A x \in Keys : warnings[x] <= warnings'[x]
      /\ pc = "warn" => warnings'[k] > 0
  BY <1>0, <1>2, SMTT(40) DEF SeedTypes, WarningsAfter
<1>5. /\ \A x : x \in pending' => x \in pending \/ (pc = "register" /\ x = k /\ rows[x] = <<>>)
      /\ pc = "verify" => k \notin pending'
  BY <1>2 DEF PendingAfter
<1> DEFINE Same == \A j \in DOMAIN Tasks : j # at => rows'[Tasks[j].key] = rows[Tasks[j].key]
<1> HIDE DEF k, w
<1>6. CASE pc \in {"create", "send"} /\ ~Unique(Tasks[at])
  <2>1. rows' = [rows EXCEPT ![k] = Append(rows[k], "new")]
    BY <1>2, <1>6 DEF RowsAfter, k
  <2>2. rows' \in [Keys -> Seq(Values)] /\ rows'[k] = Append(rows[k], "new") /\ Same
    BY <2>1, <1>0, <1>1, ValuesAppend
  <2>3. rows'[k] # <<>> /\ Newest(rows'[k]) = "new" /\ Len(rows'[k]) = Len(rows[k]) + 1
    BY <2>2, <1>0, ValuesAppend
  <2> QED  BY <1>3, <1>4, <1>5, <1>6, <2>2, <2>3 DEF Did, k
<1>7. CASE pc \in {"create", "send"} /\ Unique(Tasks[at])
  <2>1. rows' = [rows EXCEPT ![k] = <<"new">>]
    BY <1>2, <1>7 DEF RowsAfter, k
  <2>2. rows' \in [Keys -> Seq(Values)] /\ rows'[k] = <<"new">> /\ Same
    BY <2>1, <1>0, <1>1, Values1
  <2>3. rows'[k] # <<>> /\ Newest(rows'[k]) = "new" /\ Len(rows'[k]) = 1
    BY <2>2, <1>0, Values1
  <2> QED  BY <1>3, <1>4, <1>5, <1>7, <2>2, <2>3 DEF Did, k
<1>8. CASE pc = "verify" /\ k \in pending
  <2>1. rows' = [rows EXCEPT ![k] = <<"active">>]
    BY <1>2, <1>8 DEF RowsAfter, k
  <2>2. rows' \in [Keys -> Seq(Values)] /\ rows'[k] = <<"active">> /\ Same
    BY <2>1, <1>0, <1>1, Values1
  <2> QED  BY <1>3, <1>4, <1>5, <1>8, <2>2 DEF Did, k
<1>9. CASE pc = "status"
  <2> DEFINE new == IF rows[k] = <<>> THEN <<w>> ELSE [rows[k] EXCEPT ![Len(rows[k])] = w]
             b == Tasks[at].by
             bans == Tasks[at].kind = "moderate"
  <2>1. rows' = [rows EXCEPT ![k] = new, ![b] = IF bans THEN <<w>> ELSE @]
    BY <1>2, <1>9 DEF RowsAfter, k, w
  <2>2. /\ new \in Seq(Values) /\ new # <<>> /\ Newest(new) = w
        /\ Len(new) = IF rows[k] = <<>> THEN 1 ELSE Len(rows[k])
    BY <1>0, Values1, ValuesReplace
  <2>3. bans => \A j \in DOMAIN Tasks : BannedBy(at, j) <=> SeedKind(j) = "user" /\ b = Tasks[j].key
    BY DEF BannedBy, SeedKind
  <2>4. bans => b # k
    <3>1. bans => \E j \in DOMAIN Tasks : BannedBy(at, j) /\ j # at
      BY <1>0, Definitions DEF SeedKind
    <3> QED  BY <3>1, <1>1 DEF BannedBy
  <2>5. bans => \A j \in DOMAIN Tasks : b = Tasks[j].key => BannedBy(at, j)
    <3>1. bans => \E j \in DOMAIN Tasks : BannedBy(at, j)
      BY <1>0, Definitions DEF SeedKind
    <3> QED  BY <3>1, Definitions DEF BannedBy
  <2>6. <<w>> \in Seq(Values)
    BY <1>0, Values1
  <2> HIDE DEF new, bans
  <2>7. rows' \in [Keys -> Seq(Values)]
    <3>1. rows' = [x \in Keys |-> rows'[x]]
      BY <2>1, <1>0
    <3>2. ASSUME NEW x \in Keys PROVE rows'[x] \in {new, <<w>>, rows[x]}
      BY <2>1, <1>0
    <3> QED  BY <3>1, <3>2, <2>2, <2>6, <1>0
  <2>8. rows'[k] = new
    BY <2>1, <2>4, <1>0
  <2>9. \A j \in DOMAIN Tasks : j # at =>
          rows'[Tasks[j].key] = IF bans /\ b = Tasks[j].key THEN <<w>> ELSE rows[Tasks[j].key]
    BY <2>1, <1>0, <1>1
  <2>10. \A j \in DOMAIN Tasks : BannedBy(at, j) => rows'[Tasks[j].key] = <<w>>
    BY <2>3, <2>9, Definitions, <1>0 DEF bans, BannedBy, SeedKind
  <2>11. \A j \in DOMAIN Tasks : j # at /\ ~BannedBy(at, j) => rows'[Tasks[j].key] = rows[Tasks[j].key]
    BY <2>5, <2>9
  <2> QED  BY <1>3, <1>4, <1>5, <1>9, <2>2, <2>7, <2>8, <2>10, <2>11 DEF Did, k, w
<1>10. CASE pc \notin {"create", "send", "status"} /\ ~(pc = "verify" /\ k \in pending)
  <2>1. rows' = rows
    BY <1>2, <1>10 DEF RowsAfter, k
  <2> QED  BY <1>0, <1>3, <1>4, <1>5, <1>10, <2>1 DEF Did, k
<1> QED  BY <1>6, <1>7, <1>8, <1>9, <1>10

\* The request of a task is one of its kind.
LEMMA AtTask ==
    ASSUME SeedTypes, Position, InTasks
    PROVE  /\ at \in DOMAIN Tasks /\ pc \in PcsOf(SeedKind(at)) /\ SeedKind(at) \in Kinds
           /\ at \in Nat /\ at > 0 /\ at <= Len(Tasks) /\ Len(Tasks) \in Nat
<1>1. at \in DOMAIN Tasks /\ at \in Nat /\ at > 0 /\ at <= Len(Tasks) /\ Len(Tasks) \in Nat
  BY Definitions DEF InTasks
<1> QED  BY <1>1, Definitions DEF Position, PcsAt

\* A row that is moderated is of a user the run is through with.
LEMMA BannedIsBehind ==
    ASSUME SeedInv, InTasks, NEW j \in DOMAIN Tasks, BannedBy(at, j)
    PROVE  j < at /\ Row(j) # <<>>
<1>1. PICK k \in DOMAIN Tasks : BannedBy(at, k) /\ k < at
  BY Definitions DEF InTasks, BannedBy
<1>2. k = j
  BY <1>1, Definitions DEF BannedBy
<1> QED  BY <1>1, <1>2 DEF SeedInv, Place, Behind, Seeded

LEMMA TablesDoubled ==
    ASSUME SeedInv, InTasks, Did(at) PROVE DoubledByRetriesOnly'
<1> SUFFICES ASSUME NEW j \in DOMAIN Tasks
             PROVE  /\ Len(rows'[Tasks[j].key]) <= 1 + again'[Tasks[j].key]
                    /\ SeedKind(j) = "message" => Len(rows'[Tasks[j].key]) <= 1
  BY DEF DoubledByRetriesOnly, SeedKind
<1> DEFINE k == Tasks[j].key
<1>1. /\ at \in DOMAIN Tasks /\ pc \in PcsOf(SeedKind(at)) /\ k \in Keys
      /\ rows \in [Keys -> Seq(Values)] /\ again[k] \in Nat /\ again'[k] \in Nat
      /\ again[k] <= again'[k] /\ rows[k] \in Seq(Values) /\ Len(rows[k]) \in Nat
      /\ Len(<<>>) = 0 /\ \A v \in Values : Len(<<v>>) = 1
      /\ Tasks[at].want \in Values
  <2>1. \A s \in Seq(Values) : Len(s) \in Nat
    OBVIOUS
  <2> QED  BY <2>1, AtTask, Definitions, Values1 DEF SeedInv, SeedTypes, Did
<1>2. /\ Len(rows[k]) <= 1 + again[k]
      /\ SeedKind(j) = "message" => Len(rows[k]) <= 1
  BY DEF SeedInv, SeedTables, DoubledByRetriesOnly, SeedKind
<1>3. CASE j # at
  <2>1. CASE BannedBy(at, j) /\ pc = "status"
    <3>1. rows'[k] = <<Tasks[at].want>> /\ SeedKind(j) # "message"
      BY <2>1 DEF Did, BannedBy
    <3> QED  BY <3>1, <1>1
  <2>2. CASE ~(BannedBy(at, j) /\ pc = "status")
    <3>1. rows'[k] = rows[k]
      BY <1>3, <2>2 DEF Did
    <3> QED  BY <3>1, <1>1, <1>2
  <2> QED  BY <2>1, <2>2
<1>4. CASE j = at /\ pc \in {"create", "send"}
  <2>1. CASE Unique(Tasks[at])
    <3>1. Len(rows'[k]) = 1
      BY <1>4, <2>1 DEF Did
    <3> QED  BY <3>1, <1>1
  <2>2. CASE ~Unique(Tasks[at])
    <3>1. Len(rows'[k]) = Len(rows[k]) + 1 /\ again'[k] = again[k] + IF served THEN 1 ELSE 0
      BY <1>4, <2>2 DEF Did
    <3>2. SeedKind(at) \in {"product", "report", "message"}
      BY <2>2 DEF Unique, SeedKind
    <3>3. Here(at)
      BY <1>1 DEF SeedInv, Place
    <3>4. SeedKind(at) = "message" \/ ~served => rows[k] = <<>>
      BY <3>2, <3>3, <1>1, <1>4 DEF Here, Row, PcsOf
    <3>5. served \in BOOLEAN
      BY DEF SeedInv, SeedTypes
    <3> QED  BY <3>1, <3>4, <3>5, <1>1, <1>2, <1>4
  <2> QED  BY <2>1, <2>2
<1>5. CASE j = at /\ pc \notin {"create", "send"}
  <2>1. Len(rows'[k]) = Len(rows[k]) \/ Len(rows'[k]) = 1
    <3>1. CASE pc = "status"
      BY <1>5, <3>1 DEF Did
    <3>2. CASE pc = "verify"
      BY <1>1, <1>5, <3>2, Definitions DEF Did
    <3>3. CASE pc \notin {"status", "verify"}
      BY <1>5, <3>3 DEF Did
    <3> QED  BY <3>1, <3>2, <3>3
  <2>2. /\ Len(rows[k]) \in Nat /\ again[k] \in Nat /\ again'[k] \in Nat
        /\ again[k] <= again'[k]
    BY <1>1
  <2>3. CASE Len(rows'[k]) = Len(rows[k])
    BY <2>3, <2>2, <1>2
  <2>4. CASE Len(rows'[k]) = 1
    BY <2>4, <2>2
  <2> QED  BY <2>1, <2>3, <2>4
<1> QED  BY <1>3, <1>4, <1>5

LEMMA TablesKept ==
    ASSUME SeedInv, InTasks, Did(at) PROVE SeedTables'
<1>0. /\ at \in DOMAIN Tasks /\ pc \in PcsOf(SeedKind(at)) /\ Here(at)
  BY AtTask DEF SeedInv, Place
<1>1. OnlyNew'
  <2> SUFFICES ASSUME NEW j \in DOMAIN Tasks,
                      SeedKind(j) \notin {"user", "product", "report", "moderate"}
               PROVE  rows'[Tasks[j].key] \in {<<>>, <<"new">>}
    BY DEF OnlyNew, Row
  <2>1. rows[Tasks[j].key] \in {<<>>, <<"new">>}
    BY DEF SeedInv, SeedTables, OnlyNew, Row
  <2>2. CASE j # at
    BY <2>1, <2>2 DEF Did, BannedBy
  <2>3. CASE j = at /\ pc \in {"create", "send"}
    <3>1. rows'[Tasks[j].key]
              = IF Unique(Tasks[j]) THEN <<"new">> ELSE Append(rows[Tasks[j].key], "new")
      BY <2>3 DEF Did
    <3>2. ~Unique(Tasks[j]) => rows[Tasks[j].key] = <<>>
      BY <2>3, <1>0 DEF Unique, SeedKind, Here, Row, PcsOf
    <3>3. Append(<<>>, "new") = <<"new">>
      OBVIOUS
    <3> QED  BY <3>1, <3>2, <3>3
  <2>4. CASE j = at /\ pc \notin {"create", "send"}
    <3>1. pc \notin {"verify", "status"}
      BY <2>4, <1>0, Definitions DEF PcsOf, Kinds
    <3> QED  BY <2>1, <2>4, <3>1 DEF Did
  <2> QED  BY <2>2, <2>3, <2>4
<1>2. Registering'
  <2> SUFFICES ASSUME NEW j \in DOMAIN Tasks, SeedKind(j) = "user", Tasks[j].key \in pending'
               PROVE  rows'[Tasks[j].key] = <<>>
    BY DEF Registering, Row
  <2>1. rows[Tasks[j].key] = <<>>
    BY DEF Did, SeedInv, SeedTables, Registering, Row
  <2>2. CASE j # at
    BY <2>1, <2>2, BannedIsBehind DEF Did, Row
  <2>3. CASE j = at
    BY <2>1, <2>3, <1>0 DEF Did, PcsOf
  <2> QED  BY <2>2, <2>3
<1>3. Banned'
  <2> SUFFICES ASSUME NEW i \in DOMAIN Tasks, NEW j \in DOMAIN Tasks, BannedBy(i, j),
                      rows'[Tasks[i].key] # <<>>
               PROVE  rows'[Tasks[j].key] # <<>> /\ rows'[Tasks[j].key] # <<"active">>
    BY DEF Banned, Row, BannedBy, SeedKind
  <2>0. rows[Tasks[i].key] # <<>> => rows[Tasks[j].key] # <<>> /\ rows[Tasks[j].key] # <<"active">>
    BY DEF SeedInv, SeedTables, Banned, Row
  <2>1. CASE i = at /\ pc = "status"
    <3>1. rows'[Tasks[j].key] = <<Tasks[i].want>> /\ Tasks[i].want # "active"
      BY <2>1, Definitions DEF Did, BannedBy
    <3> QED  BY <3>1
  <2>2. CASE i = at /\ pc # "status"
    <3>1. rows' = rows
      BY <2>2, <1>0 DEF Did, BannedBy, PcsOf
    <3> QED  BY <3>1, <2>0
  <2>3. CASE i # at
    <3>1. rows'[Tasks[i].key] = rows[Tasks[i].key]
      BY <2>3 DEF Did, BannedBy
    <3>2. rows'[Tasks[j].key] = rows[Tasks[j].key]
      <4>1. CASE j # at
        BY <4>1, <2>3, <1>0, Definitions DEF Did
      <4>2. CASE j = at
        <5>1. Tasks[j].key \notin pending
          BY <3>1, <2>0 DEF SeedInv, SeedTables, Registering, Row, BannedBy
        <5> QED  BY <4>2, <5>1, <1>0 DEF Did, PcsOf, BannedBy
      <4> QED  BY <4>1, <4>2
    <3> QED  BY <3>1, <3>2, <2>0
  <2> QED  BY <2>1, <2>2, <2>3
<1> QED  BY <1>1, <1>2, <1>3, TablesDoubled DEF SeedTables

\* What a step of the run has read: nothing, a list, the rows of its task, or the history
\* of the conversation it is at, if it goes on from there to its messages.
Looks ==
    /\ seen' \in [Keys -> Seq(Values)]
    /\ \A j \in DOMAIN Tasks : seen'[Tasks[j].key] \in {seen[Tasks[j].key], rows[Tasks[j].key]}
    /\ \/ lists' = lists
       \/ /\ lists' = lists \cup {ListOf(Tasks[at])}
          /\ \A j \in DOMAIN Tasks :
               ListOf(Tasks[j]) = ListOf(Tasks[at]) => seen'[Tasks[j].key] = rows[Tasks[j].key]
    /\ SeedKind(at) = "talk" /\ (at' > at \/ pc' = "join") /\ pc # "join" =>
         \A j \in DOMAIN Tasks : j \in TalkOf(at) => seen'[Tasks[j].key] = rows[Tasks[j].key]

LEMMA AheadKept ==
    ASSUME SeedInv, InTasks, Did(at), Looks, at' \in {at, at + 1},
           at' # at => pc' # "join",
           NEW j \in DOMAIN Tasks, j > at, LookedUp(j, at', pc', lists')
    PROVE  seen'[Tasks[j].key] = rows'[Tasks[j].key]
<1>0. /\ at \in DOMAIN Tasks /\ at \in Nat /\ at > 0 /\ j \in Nat
      /\ DOMAIN Tasks = 1 .. Len(Tasks) /\ Len(Tasks) \in Nat
  BY AtTask, Definitions DEF SeedInv
<1>1. rows'[Tasks[j].key] = rows[Tasks[j].key]
  BY <1>0, BannedIsBehind DEF Did
<1>2. CASE LookedUp(j, at, pc, lists)
  <2>1. seen[Tasks[j].key] = rows[Tasks[j].key]
    BY <1>0, <1>2 DEF SeedInv, Place, Ahead, Row
  <2> QED  BY <1>1, <2>1 DEF Looks
<1>3. CASE ~LookedUp(j, at, pc, lists) /\ SeedKind(j) \in Listed /\ ListOf(Tasks[j]) \in lists'
  BY <1>1, <1>3 DEF LookedUp, Looks
<1>4. CASE ~LookedUp(j, at, pc, lists) /\ ~(SeedKind(j) \in Listed /\ ListOf(Tasks[j]) \in lists')
  <2>1. /\ SeedKind(j) = "message"
        /\ \E k \in 1 .. j - 1 : /\ SeedKind(k) = "talk" /\ j \in TalkOf(k)
                                 /\ k < at' \/ (k = at' /\ pc' = "join")
    BY <1>4 DEF LookedUp
  <2>2. PICK k \in 1 .. j - 1 : /\ SeedKind(k) = "talk" /\ j \in TalkOf(k)
                                /\ k < at' \/ (k = at' /\ pc' = "join")
    BY <2>1
  <2>3. ~(k < at) /\ ~(k = at /\ pc = "join")
    BY <1>4, <2>1, <2>2 DEF LookedUp
  <2>4. k \in Nat
    BY <2>2
  <2>5. k = at
    BY <1>0, <2>2, <2>3, <2>4
  <2>6. SeedKind(at) = "talk" /\ (at' > at \/ pc' = "join") /\ pc # "join" /\ j \in TalkOf(at)
    BY <2>2, <2>3, <2>5, <1>0
  <2> QED  BY <2>6, <1>1 DEF Looks
<1> QED  BY <1>2, <1>3, <1>4 DEF LookedUp

\* What was entered in the map stays there while the run lasts.
MapGrows ==
    /\ map' \in [Keys -> {"none", "created", "reused", "updated"}]
    /\ \A k \in Keys : map[k] # "none" => map'[k] # "none"

\* The tasks before the one a step is of stay done.
LEMMA BehindKept ==
    ASSUME SeedInv, InTasks, Did(at), MapGrows, NEW j \in DOMAIN Tasks, j < at
    PROVE  Seeded(j)'
<1>1. Seeded(j) /\ Tasks[j].key \in Keys /\ j # at /\ at \in Nat
  BY AtTask, Definitions DEF SeedInv, Place, Behind
<1>2. /\ SeedKind(j) \notin {"rating", "message"} => map'[Tasks[j].key] # "none"
      /\ SeedKind(j) = "moderate" => warnings'[Tasks[j].key] > 0
  <2>1. warnings[Tasks[j].key] <= warnings'[Tasks[j].key] /\ warnings'[Tasks[j].key] \in Nat
        /\ warnings[Tasks[j].key] \in Nat
    BY <1>1 DEF Did, SeedInv, SeedTypes
  <2> QED  BY <1>1, <2>1 DEF Seeded, MapGrows
<1>3. CASE BannedBy(at, j) /\ pc = "status"
  <2>1. rows'[Tasks[j].key] = <<Tasks[at].want>> /\ SeedKind(j) = "user"
    BY <1>3 DEF Did, BannedBy
  <2> QED  BY <1>2, <2>1 DEF Seeded, Row, SeedKind
<1>4. CASE ~(BannedBy(at, j) /\ pc = "status")
  <2>1. rows'[Tasks[j].key] = rows[Tasks[j].key]
    BY <1>1, <1>4 DEF Did
  <2> QED  BY <1>1, <1>2, <2>1 DEF Seeded, Row, SeedKind
<1> QED  BY <1>3, <1>4

\* Whom a later task moderates could log in, and still can.
LEMMA LoggedInKept ==
    ASSUME SeedInv, InTasks, Did(at), NEW i \in DOMAIN Tasks, NEW j \in DOMAIN Tasks,
           BannedBy(i, j), j < at \/ (j = at /\ pc = "profile"),
           at < i \/ (at = i /\ pc = "list")
    PROVE  rows'[Tasks[j].key] = <<"active">>
<1>0. at \in DOMAIN Tasks /\ at \in Nat
  BY AtTask DEF SeedInv
<1>1. rows[Tasks[j].key] = <<"active">>
  BY DEF SeedInv, Place, LoggedIn, Row
<1>2. ~(BannedBy(at, j) /\ pc = "status")
  <2>1. BannedBy(at, j) => i = at
    BY <1>0, Definitions
  <2> QED  BY <1>0, <2>1
<1>3. CASE j # at
  BY <1>1, <1>2, <1>3 DEF Did
<1>4. CASE j = at
  <2>1. pc = "profile"
    BY <1>0, <1>4
  <2> QED  BY <1>1, <2>1 DEF Did
<1> QED  BY <1>3, <1>4

\* A step that stays at its task: what the run knows of it has to be said.
LEMMA StaysHere ==
    ASSUME SeedInv, InTasks, Did(at), Looks, MapGrows,
           at' = at, pc' \in PcsOf(SeedKind(at)), served' \in BOOLEAN, Here(at)',
           pc' = "list" => pc = "list",
           pc' = "profile" => pc = "profile" \/ rows'[Tasks[at].key] = <<"active">>
    PROVE  SeedInv'
<1>0. /\ at \in DOMAIN Tasks /\ at \in Nat /\ at > 0 /\ at <= Len(Tasks) /\ SeedKind(at) \in Kinds
      /\ Len(Tasks) \in Nat
  BY AtTask DEF SeedInv
<1>1. SeedTypes'
  BY <1>0 DEF SeedInv, SeedTypes, Did, Looks, MapGrows
<1>2. Position'
  <2>1. pc' # "preflight"
    BY <1>0 DEF PcsOf, Kinds
  <2>2. PcsAt(at) = PcsOf(SeedKind(at))
    BY <1>0 DEF PcsAt
  <2> QED  BY <2>1, <2>2 DEF Position, PcsAt, SeedKind
<1>3. Ahead'
  BY <1>0, AheadKept DEF Ahead, LookedUp, Row, SeedKind
<1>4. Behind'
  BY <1>0, BehindKept DEF Behind
<1>5. LoggedIn'
  <2> SUFFICES ASSUME NEW i \in DOMAIN Tasks, NEW j \in DOMAIN Tasks, BannedBy(i, j),
                      j < at \/ (j = at /\ pc' = "profile"),
                      at < i \/ (at = i /\ pc' = "list")
               PROVE  rows'[Tasks[j].key] = <<"active">>
    BY DEF LoggedIn, BannedBy, SeedKind, Row
  <2>1. CASE j = at /\ pc' = "profile" /\ rows'[Tasks[at].key] = <<"active">>
    BY <2>1
  <2>2. CASE j < at \/ (j = at /\ pc = "profile")
    BY <2>2, LoggedInKept
  <2> QED  BY <2>1, <2>2
<1> QED  BY <1>1, <1>2, <1>3, <1>4, <1>5, TablesKept DEF SeedInv, Place

\* What the first request of a task tells of its rows, if the lists it was looked up in
\* were read and show what is there.
LEMMA Opens ==
    ASSUME NEW j \in DOMAIN Tasks, NEW known, NEW read
    PROVE  LET p == Opening(Tasks[j], known, read)
               unread == SeedKind(j) \in Listed /\ ListOf(Tasks[j]) \notin read
           IN  /\ p \in PcsOf(SeedKind(j)) \/ (SeedKind(j) = "moderate" /\ ~unread /\ known # <<>>)
               /\ p = "list" <=> unread
               /\ p \notin {"preflight", "profile", "join", "update", "warn"}
               /\ SeedKind(j) = "category" => p # "find"
               /\ SeedKind(j) = "talk" => p = "create"
               /\ SeedKind(j) \in {"product", "report"} => p # "create"
               /\ SeedKind(j) \in {"block", "favorite"} /\ p = "skip" => known # <<>>
               /\ SeedKind(j) = "message" => (p = "send" <=> known = <<>>)
               /\ SeedKind(j) = "report" /\ p = "skip" => known # <<>> /\ Newest(known) = Tasks[j].want
<1> DEFINE p == Opening(Tasks[j], known, read)
           unread == SeedKind(j) \in Listed /\ ListOf(Tasks[j]) \notin read
<1>0. SeedKind(j) \in Kinds
  BY Definitions
<1>1. CASE unread
  <2>1. p = "list"
    BY <1>1 DEF Opening, SeedKind
  <2>2. SeedKind(j) \in {"product", "block", "favorite", "report", "moderate"}
    BY <1>1 DEF Listed
  <2> QED  BY <1>1, <2>1, <2>2 DEF PcsOf
<1>2. CASE ~unread
  <2>1. CASE SeedKind(j) = "user"
    <3>1. p = "login"
      BY <1>2, <2>1 DEF Opening, SeedKind
    <3> QED  BY <1>2, <2>1, <3>1 DEF PcsOf
  <2>2. CASE SeedKind(j) \in {"category", "rating", "talk"}
    <3>1. p = "create"
      BY <1>2, <2>2 DEF Opening, SeedKind
    <3> QED  BY <1>2, <2>2, <3>1 DEF PcsOf
  <2>3. CASE SeedKind(j) = "product"
    <3>1. p = "upload"
      BY <1>2, <2>3 DEF Opening, SeedKind
    <3> QED  BY <1>2, <2>3, <3>1 DEF PcsOf
  <2>4. CASE SeedKind(j) \in {"block", "favorite"}
    <3>1. p = IF known = <<>> THEN "create" ELSE "skip"
      BY <1>2, <2>4 DEF Opening, SeedKind
    <3> QED  BY <1>2, <2>4, <3>1 DEF PcsOf
  <2>5. CASE SeedKind(j) = "message"
    <3>1. p = IF known = <<>> THEN "send" ELSE "skip"
      BY <1>2, <2>5 DEF Opening, SeedKind
    <3> QED  BY <1>2, <2>5, <3>1 DEF PcsOf
  <2>6. CASE SeedKind(j) = "report"
    <3>1. p = IF known = <<>> THEN "mine"
              ELSE IF LacksStatus(Tasks[j], known) THEN "status" ELSE "skip"
      BY <1>2, <2>6 DEF Opening, SeedKind
    <3> QED  BY <1>2, <2>6, <3>1 DEF PcsOf, LacksStatus
  <2>7. CASE SeedKind(j) = "moderate"
    <3>1. p = IF LacksStatus(Tasks[j], known) THEN "status" ELSE "skip"
      BY <1>2, <2>7 DEF Opening, SeedKind
    <3> QED  BY <1>2, <2>7, <3>1 DEF PcsOf, LacksStatus
  <2> QED  BY <1>0, <2>1, <2>2, <2>3, <2>4, <2>5, <2>6, <2>7 DEF Kinds
<1> QED  BY <1>1, <1>2

\* The task the run goes on to was looked up, if it is one of those that are.
LEMMA NextIsLookedUp ==
    ASSUME at \in Nat, at + 1 \in DOMAIN Tasks, NEW p, NEW read,
           \/ SeedKind(at + 1) \in Listed /\ ListOf(Tasks[at + 1]) \in read
           \/ SeedKind(at + 1) = "message"
    PROVE  LookedUp(at + 1, at + 1, p, read)
<1>1. CASE SeedKind(at + 1) \in Listed /\ ListOf(Tasks[at + 1]) \in read
  BY <1>1 DEF LookedUp
<1>2. CASE SeedKind(at + 1) = "message"
  <2>1. PICK k \in 1 .. (at + 1) - 1 : /\ Tasks[k].kind = "talk"
                                   /\ \A m \in k + 1 .. at + 1 : Tasks[m].kind = "message"
    BY <1>2, DefinitionsAssumption DEF SeedKind
  <2>2. k \in Nat /\ k < at + 1
    BY <2>1
  <2>3. at + 1 \in TalkOf(k)
    BY <2>1, <2>2 DEF TalkOf
  <2> QED  BY <1>2, <2>1, <2>2, <2>3 DEF LookedUp, SeedKind
<1> QED  BY <1>1, <1>2

\* A step that goes on to the next task: it has to have done its own.
LEMMA MovesOn ==
    ASSUME SeedInv, InTasks, Did(at), Looks, MapGrows, Onward(seen', lists'),
           NEW own \in DOMAIN Tasks, own = at, Seeded(own)',
           SeedKind(own) = "user" => pc = "profile"
    PROVE  SeedInv'
<1>0. /\ at = own /\ at \in DOMAIN Tasks /\ at \in Nat /\ at > 0 /\ at <= Len(Tasks)
      /\ Len(Tasks) \in Nat /\ DOMAIN Tasks = 1 .. Len(Tasks)
  BY AtTask, Definitions DEF SeedInv
<1> DEFINE next == own + 1
           p == Opening(Tasks[next], seen'[Tasks[next].key], lists')
<1>1. /\ at' = next /\ served' = FALSE
      /\ at = Len(Tasks) => pc' = "summary"
      /\ at # Len(Tasks) => pc' = p /\ next \in DOMAIN Tasks
  BY <1>0 DEF Onward, Ask
<1>2. pc' \notin {"profile", "join", "preflight"}
  BY <1>1, Opens
<1>3. ASSUME NEW j \in DOMAIN Tasks, j > at, LookedUp(j, at', pc', lists')
      PROVE  seen'[Tasks[j].key] = rows'[Tasks[j].key]
  BY <1>1, <1>2, <1>3, AheadKept
<1>4. ASSUME NEW i \in DOMAIN Tasks, NEW j \in DOMAIN Tasks, BannedBy(i, j), j <= own, own < i
      PROVE  rows'[Tasks[j].key] = <<"active">>
  <2>1. j \in Nat /\ i \in Nat /\ SeedKind(j) = "user"
    BY <1>0, <1>4 DEF BannedBy
  <2>2. j < at \/ (j = at /\ pc = "profile")
    BY <2>1, <1>0, <1>4
  <2> QED  BY <2>2, <1>0, <1>4, LoggedInKept
<1>5. SeedTables'
  BY TablesKept
<1>6. SeedTypes'
  <2>1. at' \in 0 .. Len(Tasks) + 1
    BY <1>0, <1>1
  <2> QED  BY <1>1, <2>1 DEF SeedTypes, Did, Looks, MapGrows
<1>7. ASSUME next \in DOMAIN Tasks, pc' = p
      PROVE  pc' \in PcsOf(SeedKind(next)) /\ Here(next)'
  <2> DEFINE row == rows'[Tasks[next].key]
             known == seen'[Tasks[next].key]
             unread == SeedKind(next) \in Listed /\ ListOf(Tasks[next]) \notin lists'
  <2>1. (SeedKind(next) \in Listed /\ ~unread) \/ SeedKind(next) = "message" => known = row
    BY <1>0, <1>1, <1>3, <1>7, NextIsLookedUp
  <2>2. SeedKind(next) = "moderate" => row = <<>>
    <3> SUFFICES ASSUME SeedKind(next) = "moderate" PROVE row = <<>>
      OBVIOUS
    <3>1. PICK j \in DOMAIN Tasks : BannedBy(next, j) /\ j < next
      BY <1>7, Definitions
    <3>2. rows'[Tasks[j].key] = <<"active">>
      <4>1. j <= own /\ own < next
        BY <3>1, <1>0
      <4> QED  BY <3>1, <4>1, <1>4, <1>7
    <3> QED  BY <3>1, <3>2, <1>5, <1>7 DEF SeedTables, Banned, Row, BannedBy, SeedKind
  <2>3. SeedKind(next) \in Kinds
    BY <1>7, Definitions
  <2>4. /\ pc' \in PcsOf(SeedKind(next)) \/ (SeedKind(next) = "moderate" /\ ~unread /\ known # <<>>)
        /\ pc' = "list" <=> unread
        /\ pc' \notin {"preflight", "profile", "join", "update", "warn"}
        /\ SeedKind(next) = "category" => pc' # "find"
        /\ SeedKind(next) = "talk" => pc' = "create"
        /\ SeedKind(next) \in {"product", "report"} => pc' # "create"
        /\ SeedKind(next) \in {"block", "favorite"} /\ pc' = "skip" => known # <<>>
        /\ SeedKind(next) = "message" => (pc' = "send" <=> known = <<>>)
        /\ SeedKind(next) = "report" /\ pc' = "skip"
             => known # <<>> /\ Newest(known) = Tasks[next].want
    BY <1>7, Opens
  <2>5. {"product", "block", "favorite", "report", "moderate"} = Listed
    BY DEF Listed
  <2> HIDE DEF known, row, p, next, unread
  <2>6. pc' \in PcsOf(SeedKind(next))
    BY <2>1, <2>2, <2>4, <2>5
  <2>7. CASE SeedKind(next) \in {"user", "category", "rating", "talk"}
    BY <2>4, <2>6, <2>7 DEF Here, SeedKind
  <2>8. CASE SeedKind(next) = "product"
    BY <2>1, <2>4, <2>5, <2>6, <2>8 DEF Here, SeedKind, known, row, Row
  <2>9. CASE SeedKind(next) \in {"block", "favorite", "message"}
    BY <2>1, <2>4, <2>5, <2>6, <2>9 DEF Here, SeedKind, known, row, Row, PcsOf
  <2>10. CASE SeedKind(next) = "report"
    BY <2>1, <2>4, <2>5, <2>6, <2>10 DEF Here, SeedKind, known, row, Row
  <2>11. CASE SeedKind(next) = "moderate"
    <3>1. pc' # "warn"
      BY <2>4
    <3> QED  BY <3>1, <2>6, <2>11 DEF Here, SeedKind, Row
  <2> QED  BY <2>3, <2>6, <2>7, <2>8, <2>9, <2>10, <2>11 DEF Kinds
<1>8. Position'
  <2>1. CASE at = Len(Tasks)
    BY <2>1, <1>0, <1>1 DEF Position, PcsAt
  <2>2. CASE at # Len(Tasks)
    <3>1. PcsAt(next) = PcsOf(SeedKind(next))
      BY <2>2, <1>0, <1>1 DEF PcsAt
    <3> QED  BY <2>2, <3>1, <1>1, <1>2, <1>7 DEF Position, PcsAt, SeedKind
  <2> QED  BY <2>1, <2>2
<1>9. (at \in DOMAIN Tasks => Here(at))'
  <2>1. CASE at = Len(Tasks)
    BY <2>1, <1>0, <1>1
  <2>2. CASE at # Len(Tasks)
    BY <2>2, <1>1, <1>7 DEF Here, SeedKind, Row
  <2> QED  BY <2>1, <2>2
<1>10. Ahead'
  BY <1>0, <1>1, <1>3 DEF Ahead, LookedUp, Row, SeedKind
<1>11. Behind'
  <2> SUFFICES ASSUME NEW j \in DOMAIN Tasks, j < next PROVE Seeded(j)'
    BY <1>1 DEF Behind
  <2>1. CASE j = own
    BY <2>1
  <2>2. CASE j < at
    BY <2>2, BehindKept
  <2> QED  BY <2>1, <2>2, <1>0
<1>12. LoggedIn'
  <2> SUFFICES ASSUME NEW i \in DOMAIN Tasks, NEW j \in DOMAIN Tasks, BannedBy(i, j),
                      j < next, next <= i
               PROVE  rows'[Tasks[j].key] = <<"active">>
    BY <1>0, <1>1, <1>2 DEF LoggedIn, BannedBy, SeedKind, Row
  <2>1. j <= own /\ own < i
    BY <1>0
  <2> QED  BY <2>1, <1>4
<1> QED  BY <1>5, <1>6, <1>8, <1>9, <1>10, <1>11, <1>12 DEF SeedInv, Place

\* A run that ends leaves nothing but the tables of the server.
LEMMA RunEnds ==
    ASSUME SeedTypes, SeedTables', at' = 0, pc' = "off", served' \in BOOLEAN,
           UNCHANGED <<seen, map>>, rows' \in [Keys -> Seq(Values)],
           warnings' \in [Keys -> Nat], again' \in [Keys -> Nat]
    PROVE  SeedInv'
<1>1. SeedTypes'
  <2>1. at' \in 0 .. Len(Tasks) + 1
    BY Definitions
  <2> QED  BY <2>1 DEF SeedTypes
<1>2. Position'
  BY DEF Position, PcsAt
<1>3. \A j \in DOMAIN Tasks : j \in Nat /\ j > 0
  BY Definitions
<1>4. Place'
  <2>1. Ahead' /\ at' \notin DOMAIN Tasks
    BY <1>3 DEF Ahead
  <2>2. Behind'
    BY <1>3 DEF Behind
  <2>3. LoggedIn'
    BY <1>3 DEF LoggedIn
  <2> QED  BY <2>1, <2>2, <2>3 DEF Place
<1> QED  BY <1>1, <1>2, <1>4 DEF SeedInv

LEMMA ThrowKeeps ==
    ASSUME SeedInv, InTasks, Did(at), Throw PROVE SeedInv'
<1>1. /\ at' = 0 /\ pc' = "off" /\ served' = FALSE /\ UNCHANGED <<seen, map>>
  BY DEF Throw, Ask
<1> QED  BY <1>1, TablesKept, RunEnds DEF SeedInv, Did

\* The pieces that the functions of the seeder are made of.
LEMMA NoLook ==
    ASSUME SeedInv, UNCHANGED <<seen, lists>>,
           SeedKind(at) = "talk" => pc = "join" \/ (at' = at /\ pc' # "join")
    PROVE  Looks
<1>1. ~(SeedKind(at) = "talk" /\ (at' > at \/ pc' = "join") /\ pc # "join")
  <2>1. at \in Nat
    BY DEF SeedInv, SeedTypes
  <2> QED  BY <2>1
<1> QED  BY <1>1 DEF Looks, SeedInv, SeedTypes

LEMMA Noted ==
    ASSUME SeedInv, InTasks,
           (\E did \in {"created", "reused", "updated"} : Note(did)) \/ UNCHANGED map
    PROVE  /\ MapGrows
           /\ \A did \in {"created", "reused", "updated"} :
                Note(did) => map'[Tasks[at].key] # "none"
<1>1. Tasks[at].key \in Keys
  BY AtTask, Definitions DEF SeedInv
<1> QED  BY <1>1 DEF Note, Key, Task, MapGrows, SeedInv, SeedTypes

LEMMA Asks ==
    ASSUME SeedInv, InTasks, Did(at), Looks, MapGrows, NEW p, Ask(at, p),
           NEW own \in DOMAIN Tasks, own = at, p \in PcsOf(SeedKind(own)), Here(own)',
           p # "list", p = "profile" => rows'[Tasks[own].key] = <<"active">>
    PROVE  SeedInv'
<1>1. at' = at /\ pc' = p /\ served' = FALSE
  BY DEF Ask
<1>2. Here(at)'
  BY <1>1 DEF Here, SeedKind, Row
<1> QED  BY <1>1, <1>2, StaysHere

\* A request that only reads, or is none, changes no table.
LEMMA NothingDone ==
    ASSUME SeedInv, InTasks, UNCHANGED <<rows, pending, warnings, again>>,
           pc \notin {"create", "send", "verify", "status", "warn"}
    PROVE  Did(at)
  BY DEF Did, SeedInv, SeedTypes

\* ensureUser and upsertProfile.
LEMMA EnsureUserKeeps ==
    ASSUME SeedInv, InTasks, Did(at), NEW answer \in Answers(Task, pc), EnsureUser(answer)
    PROVE  SeedInv'
<1>0. PICK own \in DOMAIN Tasks : own = at
  BY DEF InTasks
<1>1. /\ SeedKind(own) = "user" /\ UNCHANGED <<seen, lists>> /\ pc \in PcsOf("user")
      /\ Here(own)
  BY <1>0, AtTask DEF EnsureUser, Task, SeedKind, SeedInv, Place
<1>2. Looks
  BY <1>0, <1>1, NoLook
<1>3. CASE pc = "login" /\ answer = "ok"
  <2>1. Note("reused") /\ Ask(at, "profile")
    BY <1>3 DEF EnsureUser
  <2>2. rows[Tasks[own].key] = <<"active">>
    BY <1>0, <1>3 DEF Answers, Task
  <2>3. rows'[Tasks[own].key] = <<"active">>
    BY <1>0, <1>3, <2>2 DEF Did
  <2>4. MapGrows /\ map'[Tasks[own].key] # "none"
    BY <2>1, <1>0, Noted
  <2>5. Here(own)'
    BY <1>1, <2>3, <2>4 DEF Here, SeedKind, Row
  <2> QED  BY <1>0, <1>1, <1>2, <2>1, <2>3, <2>4, <2>5, Asks DEF PcsOf
<1>4. CASE pc = "login" /\ answer # "ok"
  <2>1. UNCHANGED map /\ Ask(at, "register")
    BY <1>4 DEF EnsureUser
  <2>2. Here(own)'
    BY <1>1, <2>1 DEF Here, SeedKind, Ask
  <2> QED  BY <1>0, <1>1, <1>2, <2>1, <2>2, Asks, Noted DEF PcsOf
<1>5. CASE pc = "register" /\ answer = "ok"
  <2>1. UNCHANGED map /\ Ask(at, "verify")
    BY <1>5 DEF EnsureUser
  <2>2. Here(own)'
    BY <1>1, <2>1 DEF Here, SeedKind, Ask
  <2> QED  BY <1>0, <1>1, <1>2, <2>1, <2>2, Asks, Noted DEF PcsOf
<1>6. CASE pc = "verify" /\ answer = "ok"
  <2>1. Note("created") /\ Ask(at, "profile")
    BY <1>6 DEF EnsureUser
  <2>2. Tasks[own].key \in pending
    BY <1>0, <1>6 DEF Answers, Task
  <2>3. rows'[Tasks[own].key] = <<"active">>
    BY <1>0, <1>6, <2>2 DEF Did
  <2>4. MapGrows /\ map'[Tasks[own].key] # "none"
    BY <2>1, <1>0, Noted
  <2>5. Here(own)'
    BY <1>1, <2>3, <2>4 DEF Here, SeedKind, Row
  <2> QED  BY <1>0, <1>1, <1>2, <2>1, <2>3, <2>4, <2>5, Asks DEF PcsOf
<1>7. CASE pc = "profile"
  <2>1. UNCHANGED map /\ Onward(seen', lists')
    BY <1>1, <1>7 DEF EnsureUser, MoveOn
  <2>2. rows' = rows
    BY <1>7 DEF Did
  <2>3. Seeded(own)'
    BY <1>1, <1>7, <2>1, <2>2 DEF Here, Seeded, SeedKind, Row
  <2> QED  BY <1>0, <1>2, <1>7, <2>1, <2>3, MovesOn, Noted
<1>8. CASE /\ ~(pc = "login" /\ answer = "ok") /\ ~(pc = "login" /\ answer # "ok")
           /\ ~(pc = "register" /\ answer = "ok") /\ ~(pc = "verify" /\ answer = "ok")
           /\ pc # "profile"
  <2>1. Throw
    BY <1>8 DEF EnsureUser
  <2> QED  BY <2>1, ThrowKeeps
<1> QED  BY <1>3, <1>4, <1>5, <1>6, <1>7, <1>8

\* upsertCategories.
LEMMA UpsertCategoryKeeps ==
    ASSUME SeedInv, InTasks, Did(at), NEW answer \in Answers(Task, pc), UpsertCategory(answer)
    PROVE  SeedInv'
<1>0. PICK own \in DOMAIN Tasks : own = at
  BY DEF InTasks
<1>1. /\ SeedKind(own) = "category" /\ UNCHANGED <<seen, lists>> /\ pc \in PcsOf("category")
      /\ Here(own) /\ Tasks[own].want = "new"
  BY <1>0, AtTask, Definitions DEF UpsertCategory, Task, SeedKind, SeedInv, Place
<1>2. Looks
  BY <1>0, <1>1, NoLook
<1>3. CASE pc = "create" /\ answer = "conflict"
  <2>1. UNCHANGED map /\ Ask(at, "find")
    BY <1>3 DEF UpsertCategory
  <2>2. rows'[Tasks[own].key] # <<>>
    BY <1>0, <1>3 DEF Did
  <2>3. Here(own)'
    BY <1>1, <2>2 DEF Here, SeedKind, Row
  <2> QED  BY <1>0, <1>1, <1>2, <2>1, <2>3, Asks, Noted DEF PcsOf
<1>4. CASE pc = "create" /\ answer = "ok"
  <2>1. Note("created") /\ Onward(seen', lists')
    BY <1>1, <1>4 DEF UpsertCategory, MoveOn
  <2>2. rows'[Tasks[own].key] # <<>> /\ Newest(rows'[Tasks[own].key]) = "new"
    BY <1>0, <1>4 DEF Did
  <2>3. Seeded(own)'
    BY <1>0, <1>1, <2>1, <2>2, Noted DEF Seeded, SeedKind, Row
  <2> QED  BY <1>0, <1>1, <1>2, <2>1, <2>3, MovesOn, Noted
<1>5. CASE pc = "find"
  <2>1. Note("reused") /\ Onward(seen', lists')
    BY <1>1, <1>5 DEF UpsertCategory, MoveOn
  <2>2. rows' = rows
    BY <1>5 DEF Did
  <2>3. rows[Tasks[own].key] = <<"new">> /\ Newest(<<"new">>) = "new"
    BY <1>1, <1>5, Values1, Definitions DEF Here, SeedKind, Row, SeedInv, SeedTables, OnlyNew
  <2>4. Seeded(own)'
    BY <1>0, <1>1, <2>1, <2>2, <2>3, Noted DEF Seeded, SeedKind, Row
  <2> QED  BY <1>0, <1>1, <1>2, <2>1, <2>4, MovesOn, Noted
<1>6. answer \in {"ok", "conflict"}
  BY <1>0, <1>1 DEF Answers, Task, SeedKind, PcsOf
<1> QED  BY <1>1, <1>3, <1>4, <1>5, <1>6 DEF PcsOf

\* The lists: of products, blocks, favourites, reports and users.
LEMMA ReadListKeeps ==
    ASSUME SeedInv, InTasks, Did(at), ReadList PROVE SeedInv'
<1>0. PICK own \in DOMAIN Tasks : own = at
  BY DEF InTasks
<1> DEFINE key == Tasks[own].key
           read == lists \cup {ListOf(Tasks[own])}
           known == [k \in Keys |-> IF \E i \in DOMAIN Tasks : Tasks[i].key = k
                                           /\ ListOf(Tasks[i]) = ListOf(Tasks[own])
                                    THEN rows[k] ELSE seen[k]]
           first == Opening(Tasks[own], known[key], read)
<1>1. /\ SeedKind(own) \in Listed /\ pc = "list" /\ key \in Keys /\ rows' = rows
      /\ SeedKind(own) \in Kinds
  <2>1. /\ pc \in PcsOf(SeedKind(own)) /\ pc = "list" /\ SeedKind(own) \in Kinds
    BY <1>0, AtTask DEF ReadList, SeedInv
  <2> QED  BY <2>1, Definitions DEF PcsOf, Listed, Kinds, Did
<1>2. /\ lists' = read /\ seen' = known
      /\ IF first = "skip" THEN Note("reused") /\ Onward(seen', lists')
         ELSE UNCHANGED map /\ Ask(at, first)
  BY <1>0 DEF ReadList, Task, Key
<1>3. known[key] = rows[key] /\ known \in [Keys -> Seq(Values)]
  BY <1>1 DEF SeedInv, SeedTypes
<1>4. Looks
  <2>1. \A j \in DOMAIN Tasks :
          /\ known[Tasks[j].key] \in {seen[Tasks[j].key], rows[Tasks[j].key]}
          /\ ListOf(Tasks[j]) = ListOf(Tasks[own]) => known[Tasks[j].key] = rows[Tasks[j].key]
    BY Definitions
  <2> HIDE DEF known, read
  <2>2. SeedKind(own) # "talk"
    BY <1>1 DEF Listed
  <2>3. lists' = lists \cup {ListOf(Tasks[at])}
    BY <1>0, <1>2 DEF read
  <2> QED  BY <1>0, <1>2, <1>3, <2>1, <2>2, <2>3 DEF Looks
<1>5. /\ first \in PcsOf(SeedKind(own)) \/ (SeedKind(own) = "moderate" /\ rows[key] # <<>>)
      /\ first \notin {"list", "profile", "update", "warn"}
      /\ SeedKind(own) \in {"product", "report"} => first # "create"
      /\ SeedKind(own) \in {"block", "favorite"} /\ first = "skip" => rows[key] # <<>>
      /\ SeedKind(own) = "report" /\ first = "skip"
           => rows[key] # <<>> /\ Newest(rows[key]) = Tasks[own].want
  <2>1. ListOf(Tasks[own]) \in read
    OBVIOUS
  <2> HIDE DEF known, read
  <2> QED  BY <1>3, <2>1, Opens
<1>6. SeedKind(own) = "moderate" => rows[key] = <<>>
  <2> SUFFICES ASSUME SeedKind(own) = "moderate" PROVE rows[key] = <<>>
    OBVIOUS
  <2>1. PICK j \in DOMAIN Tasks : BannedBy(own, j) /\ j < own
    BY Definitions
  <2>2. rows[Tasks[j].key] = <<"active">>
    BY <1>0, <1>1, <2>1 DEF SeedInv, Place, LoggedIn, Row
  <2> QED  BY <2>1, <2>2 DEF SeedInv, SeedTables, Banned, Row
<1> HIDE DEF known, read, first
<1>7. CASE first = "skip"
  <2>1. Note("reused") /\ Onward(seen', lists')
    BY <1>2, <1>7
  <2>2. SeedKind(own) \in {"block", "favorite", "report"}
    BY <1>1, <1>5, <1>6, <1>7 DEF PcsOf, Listed
  <2>3. rows[key] # <<>> /\ Newest(rows[key]) = Tasks[own].want
    <3>1. CASE SeedKind(own) = "report"
      BY <1>5, <1>7, <3>1
    <3>2. CASE SeedKind(own) \in {"block", "favorite"}
      <4>1. rows[key] = <<"new">> /\ Newest(<<"new">>) = "new" /\ Tasks[own].want = "new"
        BY <1>5, <1>7, <3>2, Values1, Definitions DEF Row, SeedInv, SeedTables, OnlyNew
      <4> QED  BY <4>1
    <3> QED  BY <2>2, <3>1, <3>2
  <2>4. Seeded(own)'
    BY <1>0, <1>1, <2>1, <2>2, <2>3, Noted DEF Seeded, SeedKind, Row
  <2> QED  BY <1>0, <1>4, <2>1, <2>2, <2>4, MovesOn, Noted
<1>8. CASE first # "skip"
  <2>1. UNCHANGED map /\ Ask(at, first)
    BY <1>2, <1>8
  <2>2. pc' = first /\ served' = FALSE
    BY <2>1 DEF Ask
  <2>3. first \in PcsOf(SeedKind(own))
    BY <1>5, <1>6
  <2>4. CASE SeedKind(own) = "product"
    <3>1. seen'[key] = rows'[key]
      BY <1>1, <1>2, <1>3
    <3>2. Here(own)'
      BY <1>5, <2>2, <2>4, <3>1 DEF Here, SeedKind, Row
    <3> QED  BY <1>0, <1>4, <1>5, <2>1, <2>3, <3>2, Asks, Noted
  <2>5. CASE SeedKind(own) # "product"
    <3>1. Here(own)'
      BY <1>1, <1>5, <1>8, <2>2, <2>5 DEF Here, SeedKind, Row, Listed
    <3> QED  BY <1>0, <1>4, <1>5, <2>1, <2>3, <3>1, Asks, Noted
  <2> QED  BY <2>4, <2>5
<1> QED  BY <1>7, <1>8

\* upsertProducts.
LEMMA UpsertProductKeeps ==
    ASSUME SeedInv, InTasks, Did(at), UpsertProduct PROVE SeedInv'
<1>0. PICK own \in DOMAIN Tasks : own = at
  BY DEF InTasks
<1> DEFINE key == Tasks[own].key
           want == Tasks[own].want
<1>1. /\ SeedKind(own) = "product" /\ UNCHANGED <<seen, lists>> /\ pc # "list"
      /\ pc \in PcsOf("product") /\ Here(own)
  BY <1>0, AtTask DEF UpsertProduct, Task, SeedKind, SeedInv, Place
<1>2. Looks
  BY <1>0, <1>1, NoLook
<1>3. CASE pc \in {"upload", "mark"}
  <2>1. UNCHANGED map /\ rows' = rows /\ rows[key] = seen[key]
    BY <1>0, <1>1, <1>3 DEF UpsertProduct, Did, Here, SeedKind, Row
  <2> DEFINE p == IF pc = "upload" THEN "mark" ELSE IF seen[key] = <<>> THEN "create" ELSE "update"
  <2>4. Ask(at, p)
    BY <1>0, <1>3 DEF UpsertProduct, Task, Key
  <2>5. Here(own)'
    BY <1>1, <2>1, <2>4 DEF Here, SeedKind, Row, Ask
  <2> QED  BY <1>0, <1>1, <1>2, <2>1, <2>4, <2>5, Asks, Noted DEF PcsOf
<1>4. CASE pc \in {"create", "update"} /\ Ask(at, "status") /\ UNCHANGED map
  <2>1. Here(own)'
    BY <1>1, <1>4 DEF Here, SeedKind, Ask
  <2> QED  BY <1>0, <1>1, <1>2, <1>4, <2>1, Asks, Noted DEF PcsOf
<1>5. CASE pc = "create" /\ want = "new"
  <2>1. Note("created") /\ Onward(seen', lists')
    BY <1>0, <1>1, <1>5 DEF UpsertProduct, MoveOn, Task
  <2>2. rows'[key] # <<>> /\ Newest(rows'[key]) = "new"
    BY <1>0, <1>5 DEF Did
  <2>3. Seeded(own)'
    BY <1>0, <1>1, <1>5, <2>1, <2>2, Noted DEF Seeded, SeedKind, Row
  <2> QED  BY <1>0, <1>1, <1>2, <2>1, <2>3, MovesOn, Noted
<1>6. CASE pc = "update" /\ ~LacksStatus(Tasks[own], seen[key])
  <2>1. Note("reused") /\ Onward(seen', lists')
    BY <1>0, <1>1, <1>6 DEF UpsertProduct, MoveOn, Task, Key
  <2>2. rows' = rows /\ rows[key] = seen[key]
    BY <1>0, <1>1, <1>6 DEF Did, Here, SeedKind, Row
  <2>3. rows'[key] # <<>> /\ Newest(rows'[key]) = want
    BY <1>6, <2>2 DEF LacksStatus
  <2>4. Seeded(own)'
    BY <1>0, <1>1, <2>1, <2>3, Noted DEF Seeded, SeedKind, Row
  <2> QED  BY <1>0, <1>1, <1>2, <2>1, <2>4, MovesOn, Noted
<1>7. CASE pc = "status"
  <2>1. /\ Note(IF seen[key] = <<>> THEN "created" ELSE "updated")
        /\ Onward(seen', lists')
    BY <1>0, <1>1, <1>7 DEF UpsertProduct, MoveOn, Task, Key
  <2>2. Note("created") \/ Note("updated")
    BY <2>1
  <2>3. rows'[key] # <<>> /\ Newest(rows'[key]) = want
    BY <1>0, <1>7 DEF Did
  <2>4. Seeded(own)'
    BY <1>0, <1>1, <2>2, <2>3, Noted DEF Seeded, SeedKind, Row
  <2> QED  BY <1>0, <1>1, <1>2, <2>1, <2>2, <2>4, MovesOn, Noted
<1>8. pc = "create" /\ want # "new" => Ask(at, "status") /\ UNCHANGED map
  BY <1>0 DEF UpsertProduct, Task
<1>9. pc = "update" /\ LacksStatus(Tasks[own], seen[key]) => Ask(at, "status") /\ UNCHANGED map
  BY <1>0 DEF UpsertProduct, Task, Key
<1> QED  BY <1>1, <1>3, <1>4, <1>5, <1>6, <1>7, <1>8, <1>9 DEF PcsOf

\* upsertBlocks, upsertFavorites. A key that is passed by was found.
LEMMA UpsertLinkKeeps ==
    ASSUME SeedInv, InTasks, Did(at), NEW answer, UpsertLink(answer) PROVE SeedInv'
<1>0. PICK own \in DOMAIN Tasks : own = at
  BY DEF InTasks
<1>1. /\ SeedKind(own) \in {"block", "favorite"} /\ pc \in {"create", "skip"} /\ Here(own)
      /\ Tasks[own].want = "new"
  <2>1. SeedKind(own) \in {"block", "favorite"} /\ pc # "list" /\ pc \in PcsOf(SeedKind(own))
    BY <1>0, AtTask DEF UpsertLink, Task, SeedKind, SeedInv
  <2> QED  BY <1>0, <2>1, Definitions DEF PcsOf, SeedInv, Place
<1>2. CASE pc = "create" /\ answer # "ok"
  <2>1. Throw
    BY <1>2 DEF UpsertLink
  <2> QED  BY <2>1, ThrowKeeps
<1>3. CASE ~(pc = "create" /\ answer # "ok")
  <2>1. /\ Note(IF pc = "create" THEN "created" ELSE "reused")
        /\ Onward(seen', lists') /\ UNCHANGED <<seen, lists>>
    BY <1>3 DEF UpsertLink, MoveOn
  <2>2. Note("created") \/ Note("reused")
    BY <2>1
  <2>3. Looks
    <3>1. SeedKind(at) # "talk"
      BY <1>0, <1>1
    <3> QED  BY <2>1, <3>1, NoLook
  <2>4. Row(own)' # <<>> /\ Newest(Row(own)') = Tasks[own].want
    <3>1. CASE pc = "create"
      BY <1>0, <1>1, <3>1 DEF Did, Row
    <3>2. CASE pc = "skip"
      <4>1. Row(own) # <<>> /\ rows' = rows
        BY <1>0, <1>1, <3>2 DEF Did, Here
      <4>2. Row(own) = <<"new">> /\ Newest(<<"new">>) = "new"
        BY <1>1, <4>1, Values1, Definitions DEF SeedInv, SeedTables, OnlyNew
      <4> QED  BY <1>1, <4>1, <4>2 DEF Row
    <3> QED  BY <1>1, <3>1, <3>2
  <2>5. Seeded(own)'
    BY <1>0, <1>1, <2>2, <2>4, Noted DEF Seeded, SeedKind, Row
  <2> QED  BY <1>0, <1>1, <2>1, <2>2, <2>3, <2>5, MovesOn, Noted
<1> QED  BY <1>2, <1>3

\* upsertRatings.
LEMMA UpsertRatingKeeps ==
    ASSUME SeedInv, InTasks, Did(at), UpsertRating PROVE SeedInv'
<1>0. PICK own \in DOMAIN Tasks : own = at
  BY DEF InTasks
<1>1. /\ SeedKind(own) = "rating" /\ UNCHANGED <<seen, lists, map>> /\ pc = "create"
      /\ Tasks[own].want = "new" /\ Onward(seen', lists')
  BY <1>0, AtTask, Definitions DEF UpsertRating, Task, SeedKind, SeedInv, PcsOf, MoveOn
<1>2. Looks
  BY <1>0, <1>1, NoLook
<1>3. rows'[Tasks[own].key] # <<>> /\ Newest(rows'[Tasks[own].key]) = "new"
  BY <1>0, <1>1 DEF Did
<1>4. Seeded(own)'
  BY <1>1, <1>3 DEF Seeded, SeedKind, Row
<1> QED  BY <1>0, <1>1, <1>2, <1>4, MovesOn, Noted

\* upsertConversations: the history of the talk is read before its messages are sent.
LEMMA UpsertConversationKeeps ==
    ASSUME SeedInv, InTasks, Did(at), UpsertConversation PROVE SeedInv'
<1>0. PICK own \in DOMAIN Tasks : own = at
  BY DEF InTasks
<1>1. /\ SeedKind(own) = "talk" /\ pc \in PcsOf("talk") /\ Here(own) /\ Tasks[own].want = "new"
  BY <1>0, AtTask, Definitions DEF UpsertConversation, Task, SeedKind, SeedInv, Place
<1>2. CASE pc = "create"
  <2>1. Note("created") /\ Ask(at, "history") /\ UNCHANGED <<seen, lists>>
    BY <1>2 DEF UpsertConversation
  <2>2. Looks
    BY <2>1, NoLook DEF Ask
  <2>3. rows'[Tasks[own].key] # <<>> /\ map'[Tasks[own].key] # "none"
    BY <1>0, <1>2, <2>1, Noted DEF Did
  <2>4. Here(own)'
    BY <1>1, <2>3 DEF Here, SeedKind, Row
  <2> QED  BY <1>0, <1>1, <2>1, <2>2, <2>4, Asks, Noted DEF PcsOf
<1>3. CASE pc = "history"
  <2>1. /\ seen' = [k \in Keys |-> IF \E j \in TalkOf(own) : Tasks[j].key = k THEN rows[k]
                                   ELSE seen[k]]
        /\ Ask(at, "join") /\ UNCHANGED <<lists, map>>
    BY <1>0, <1>3 DEF UpsertConversation
  <2>2. rows' = rows /\ pc' = "join"
    BY <1>3, <2>1 DEF Did, Ask
  <2>3. \A j \in DOMAIN Tasks :
          /\ seen'[Tasks[j].key] \in {seen[Tasks[j].key], rows[Tasks[j].key]}
          /\ j \in TalkOf(own) => seen'[Tasks[j].key] = rows[Tasks[j].key]
    BY <2>1, Definitions
  <2>4. seen' \in [Keys -> Seq(Values)]
    BY <2>1 DEF SeedInv, SeedTypes
  <2>5. Looks
    BY <1>0, <2>1, <2>3, <2>4 DEF Looks
  <2>6. Here(own)'
    BY <1>1, <1>3, <2>1, <2>2 DEF Here, SeedKind, Row
  <2> QED  BY <1>0, <1>1, <2>1, <2>5, <2>6, Asks, Noted DEF PcsOf
<1>4. CASE pc = "join"
  <2>1. Onward(seen', lists') /\ UNCHANGED <<seen, lists, map>> /\ rows' = rows
    BY <1>4 DEF UpsertConversation, MoveOn, Did
  <2>2. Looks
    BY <1>4, <2>1, NoLook
  <2>3. Row(own) # <<>> /\ map[Tasks[own].key] # "none"
    BY <1>1, <1>4 DEF Here
  <2>4. Row(own) = <<"new">> /\ Newest(<<"new">>) = "new"
    BY <1>1, <2>3, Values1, Definitions DEF SeedInv, SeedTables, OnlyNew
  <2>5. Seeded(own)'
    BY <1>1, <2>1, <2>3, <2>4 DEF Seeded, SeedKind, Row
  <2> QED  BY <1>0, <1>1, <2>1, <2>2, <2>5, MovesOn, Noted
<1> QED  BY <1>1, <1>2, <1>3, <1>4 DEF PcsOf

\* seedConversationMessages: a message is sent if the history lacks it.
LEMMA SendMessageKeeps ==
    ASSUME SeedInv, InTasks, Did(at), SendMessage PROVE SeedInv'
<1>0. PICK own \in DOMAIN Tasks : own = at
  BY DEF InTasks
<1>1. /\ SeedKind(own) = "message" /\ pc \in PcsOf("message") /\ Here(own)
      /\ Tasks[own].want = "new" /\ UNCHANGED <<seen, lists>>
      /\ Note("created") \/ UNCHANGED map
  BY <1>0, AtTask, Definitions DEF SendMessage, Task, SeedKind, SeedInv, Place
<1>2. Looks /\ MapGrows
  BY <1>0, <1>1, NoLook, Noted
<1>3. rows'[Tasks[own].key] # <<>> /\ Newest(rows'[Tasks[own].key]) = "new"
  <2>1. CASE pc = "send"
    BY <1>0, <2>1 DEF Did
  <2>2. CASE pc # "send"
    <3>1. Row(own) # <<>> /\ rows' = rows
      BY <1>0, <1>1, <2>2 DEF Here, Did, PcsOf
    <3>2. Row(own) = <<"new">> /\ Newest(<<"new">>) = "new"
      BY <1>1, <3>1, Values1, Definitions DEF SeedInv, SeedTables, OnlyNew
    <3> QED  BY <3>1, <3>2 DEF Row
  <2> QED  BY <2>1, <2>2
<1>4. CASE Ask(at, "read")
  <2>1. Here(own)'
    BY <1>1, <1>3, <1>4 DEF Here, SeedKind, Row, Ask
  <2> QED  BY <1>0, <1>1, <1>2, <1>4, <2>1, Asks DEF PcsOf
<1>5. CASE Onward(seen', lists')
  <2>1. Seeded(own)'
    BY <1>1, <1>3 DEF Seeded, SeedKind, Row
  <2> QED  BY <1>0, <1>1, <1>2, <1>5, <2>1, MovesOn
<1>6. Ask(at, "read") \/ Onward(seen', lists')
  BY <1>1 DEF SendMessage, MoveOn
<1> QED  BY <1>4, <1>5, <1>6

\* upsertReportsAndModeration: the reports.
LEMMA UpsertReportKeeps ==
    ASSUME SeedInv, InTasks, Did(at), UpsertReport PROVE SeedInv'
<1>0. PICK own \in DOMAIN Tasks : own = at
  BY DEF InTasks
<1> DEFINE key == Tasks[own].key
           want == Tasks[own].want
<1>1. /\ SeedKind(own) = "report" /\ pc # "list" /\ UNCHANGED lists
      /\ pc \in PcsOf("report") /\ Here(own)
  BY <1>0, AtTask DEF UpsertReport, Task, SeedKind, SeedInv, Place
<1>2. pc # "mine" => UNCHANGED seen
  BY <1>1 DEF UpsertReport, PcsOf
<1>3. Looks
  <2>1. CASE pc # "mine"
    BY <1>0, <1>1, <1>2, <2>1, NoLook
  <2>2. CASE pc = "mine"
    <3>1. seen' = [seen EXCEPT ![key] = rows[key]]
      BY <1>0, <2>2 DEF UpsertReport, Task, Key
    <3>2. /\ seen' \in [Keys -> Seq(Values)]
          /\ \A j \in DOMAIN Tasks :
               seen'[Tasks[j].key] \in {seen[Tasks[j].key], rows[Tasks[j].key]}
      BY <3>1, Definitions DEF SeedInv, SeedTypes
    <3> QED  BY <1>0, <1>1, <3>2 DEF Looks
  <2> QED  BY <2>1, <2>2
<1>4. CASE /\ Note("reused") \/ Note("updated")
           /\ Onward(seen', lists') /\ rows'[key] # <<>> /\ Newest(rows'[key]) = want
  <2>1. Seeded(own)'
    BY <1>0, <1>1, <1>4, Noted DEF Seeded, SeedKind, Row
  <2> QED  BY <1>0, <1>1, <1>3, <1>4, <2>1, MovesOn, Noted
<1>5. CASE Ask(at, "status") /\ UNCHANGED map
  <2>1. Here(own)'
    BY <1>1, <1>5 DEF Here, SeedKind, Ask
  <2> QED  BY <1>0, <1>1, <1>3, <1>5, <2>1, Asks, Noted DEF PcsOf
<1>6. CASE pc = "mine"
  <2>1. /\ IF rows[key] = <<>> THEN Ask(at, "create") /\ UNCHANGED map
           ELSE IF LacksStatus(Tasks[own], rows[key]) THEN Ask(at, "status") /\ UNCHANGED map
           ELSE Note("reused") /\ Onward(seen', lists')
        /\ rows' = rows
    <3>1. /\ seen' = [seen EXCEPT ![key] = rows[key]]
          /\ IF rows[key] = <<>> THEN Ask(at, "create") /\ UNCHANGED map
             ELSE IF LacksStatus(Tasks[own], rows[key]) THEN Ask(at, "status") /\ UNCHANGED map
             ELSE Note("reused") /\ Onward(seen, lists)
      BY <1>0, <1>1, <1>6 DEF UpsertReport, Task, Key, MoveOn
    <3>2. at # Len(Tasks) => seen'[Tasks[at + 1].key] = seen[Tasks[at + 1].key]
      <4>1. at # Len(Tasks) => at + 1 \in DOMAIN Tasks /\ at + 1 # own
        BY <1>0, AtTask, Definitions DEF SeedInv
      <4>2. at # Len(Tasks) => Tasks[at + 1].key \in Keys /\ Tasks[at + 1].key # key
        BY <1>0, <4>1, Definitions
      <4> QED  BY <3>1, <4>2 DEF SeedInv, SeedTypes
    <3>3. Onward(seen, lists) => Onward(seen', lists')
      BY <1>1, <3>2 DEF Onward
    <3> QED  BY <1>6, <3>1, <3>3 DEF Did
  <2>2. CASE rows[key] = <<>>
    <3>1. Here(own)'
      BY <1>1, <2>1, <2>2 DEF Here, SeedKind, Row, Ask
    <3> QED  BY <1>0, <1>1, <1>3, <2>1, <2>2, <3>1, Asks, Noted DEF PcsOf
  <2>3. CASE rows[key] # <<>> /\ ~LacksStatus(Tasks[own], rows[key])
    BY <2>1, <2>3, <1>4 DEF LacksStatus
  <2> QED  BY <2>1, <2>2, <2>3, <1>5
<1>7. CASE pc = "create"
  <2>1. rows'[key] # <<>> /\ Newest(rows'[key]) = "new"
    BY <1>0, <1>7 DEF Did
  <2>2. IF want = "new" THEN Note("reused") /\ Onward(seen', lists')
        ELSE Ask(at, "status") /\ UNCHANGED map
    BY <1>0, <1>1, <1>2, <1>7 DEF UpsertReport, Task, MoveOn
  <2> QED  BY <2>1, <2>2, <1>4, <1>5
<1>8. CASE pc = "status"
  <2>1. rows'[key] # <<>> /\ Newest(rows'[key]) = want
    BY <1>0, <1>8 DEF Did
  <2>2. Note("updated") /\ Onward(seen', lists')
    BY <1>1, <1>2, <1>8 DEF UpsertReport, MoveOn
  <2> QED  BY <2>1, <2>2, <1>4
<1>9. CASE pc = "skip"
  <2>1. rows' = rows /\ rows[key] # <<>> /\ Newest(rows[key]) = want
    BY <1>1, <1>9 DEF Did, Here, SeedKind, Row
  <2>2. Note("reused") /\ Onward(seen', lists')
    BY <1>1, <1>2, <1>9 DEF UpsertReport, MoveOn
  <2> QED  BY <2>1, <2>2, <1>4
<1> QED  BY <1>1, <1>6, <1>7, <1>8, <1>9 DEF PcsOf

\* upsertReportsAndModeration: a user is paused or banned, and then warned.
LEMMA ModerateKeeps ==
    ASSUME SeedInv, InTasks, Did(at), Moderate PROVE SeedInv'
<1>0. PICK own \in DOMAIN Tasks : own = at
  BY DEF InTasks
<1> DEFINE key == Tasks[own].key
           want == Tasks[own].want
<1>1. /\ SeedKind(own) = "moderate" /\ UNCHANGED <<seen, lists>>
      /\ pc \in PcsOf("moderate") /\ pc # "list" /\ Here(own)
  BY <1>0, AtTask DEF Moderate, Task, SeedKind, SeedInv, Place
<1>2. Looks
  BY <1>0, <1>1, NoLook
<1>3. CASE pc = "status"
  <2>1. UNCHANGED map /\ Ask(at, "warn")
    BY <1>3 DEF Moderate
  <2>2. rows'[key] # <<>> /\ Newest(rows'[key]) = want
    BY <1>0, <1>3 DEF Did
  <2>3. Here(own)'
    BY <1>1, <2>2 DEF Here, SeedKind, Row
  <2> QED  BY <1>0, <1>1, <1>2, <2>1, <2>3, Asks, Noted DEF PcsOf
<1>4. CASE pc = "warn"
  <2>1. Note("created") /\ Onward(seen', lists')
    BY <1>1, <1>4 DEF Moderate, MoveOn
  <2>2. rows'[key] # <<>> /\ Newest(rows'[key]) = want
    BY <1>1, <1>4 DEF Did, Here, SeedKind, Row
  <2>3. warnings'[key] > 0
    BY <1>0, <1>4 DEF Did
  <2>4. Seeded(own)'
    BY <1>0, <1>1, <2>1, <2>2, <2>3, Noted DEF Seeded, SeedKind, Row
  <2> QED  BY <1>0, <1>1, <1>2, <2>1, <2>4, MovesOn, Noted
<1> QED  BY <1>1, <1>3, <1>4 DEF PcsOf

\* The tables of a server that was not asked are as they were.
LEMMA TablesIdle ==
    ASSUME SeedTables, UNCHANGED <<rows, pending, again>> PROVE SeedTables'
  BY DEF SeedTables, DoubledByRetriesOnly, OnlyNew, Registering, Banned, Row, SeedKind, BannedBy

\* A request of a task: the function of its kind takes the answer.
LEMMA HandleKeeps ==
    ASSUME SeedInv, InTasks, Did(at), NEW answer \in Answers(Task, pc), Handle(answer)
    PROVE  SeedInv'
<1>1. pc \notin {"preflight", "summary"}
  BY AtTask DEF SeedInv, PcsOf, Kinds
<1>2. \/ ReadList \/ EnsureUser(answer) \/ UpsertCategory(answer) \/ UpsertProduct
      \/ UpsertLink(answer) \/ UpsertRating \/ UpsertConversation \/ SendMessage
      \/ UpsertReport \/ Moderate
  BY <1>1 DEF Handle, Preflight, CollectSummary
<1> QED  BY <1>2, ReadListKeeps, EnsureUserKeeps, UpsertCategoryKeeps, UpsertProductKeeps,
            UpsertLinkKeeps, UpsertRatingKeeps, UpsertConversationKeeps, SendMessageKeeps,
            UpsertReportKeeps, ModerateKeeps

\* Where the run is when it is at no task.
LEMMA OutsideTasks ==
    ASSUME SeedInv, ~InTasks
    PROVE  \/ at = 0 /\ pc \in {"off", "preflight"}
           \/ at = Len(Tasks) + 1 /\ pc \in {"summary", "artifacts"}
<1>1. at \in 0 .. Len(Tasks) + 1 /\ at \notin 1 .. Len(Tasks) /\ Len(Tasks) \in Nat
  BY Definitions DEF SeedInv, SeedTypes, InTasks
<1>2. at = 0 \/ (at = Len(Tasks) + 1 /\ at > Len(Tasks) /\ at # 0)
  BY <1>1
<1> QED  BY <1>2 DEF SeedInv, Position, PcsAt

\* performPreflightChecks: the run goes on to its first task, of which it knows nothing.
LEMMA PreflightKeeps ==
    ASSUME SeedInv, ~InTasks, Preflight, UNCHANGED <<server, again>> PROVE SeedInv'
<1> DEFINE p == Opening(Tasks[1], <<>>, {})
<1>1. /\ at = 0 /\ pc = "preflight" /\ lists = {} /\ at' = 1 /\ pc' = p /\ served' = FALSE
      /\ UNCHANGED <<seen, lists, map, rows, pending, warnings, again>>
  BY OutsideTasks DEF Preflight, Ask, SeedInv, Position, server
<1>2. /\ 1 \in DOMAIN Tasks /\ Len(Tasks) \in Nat /\ DOMAIN Tasks = 1 .. Len(Tasks)
      /\ SeedKind(1) \in Kinds /\ SeedKind(1) # "message"
  <2>1. 1 \in DOMAIN Tasks /\ Len(Tasks) \in Nat /\ DOMAIN Tasks = 1 .. Len(Tasks)
    BY Definitions
  <2>2. Tasks[1].kind = "message" => \E j \in 1 .. 1 - 1 : TRUE
    BY <2>1, DefinitionsAssumption
  <2> QED  BY <2>1, <2>2, Definitions DEF SeedKind
<1>3. /\ p \in PcsOf(SeedKind(1)) /\ p \notin {"preflight", "profile", "join", "update", "warn"}
      /\ SeedKind(1) \in Listed => p = "list"
      /\ SeedKind(1) = "category" => p # "find"
      /\ SeedKind(1) = "talk" => p = "create"
  BY <1>2, Opens
<1> HIDE DEF p
<1>4. SeedTypes'
  <2>1. at' \in 0 .. Len(Tasks) + 1
    BY <1>1, <1>2
  <2> QED  BY <1>1, <2>1 DEF SeedInv, SeedTypes
<1>5. Position'
  <2>1. PcsAt(1) = PcsOf(SeedKind(1))
    BY <1>2 DEF PcsAt
  <2> QED  BY <1>1, <1>3, <2>1 DEF Position, PcsAt, SeedKind
<1>6. SeedTables'
  BY <1>1, TablesIdle DEF SeedInv
<1>7. Here(1)'
  BY <1>1, <1>2, <1>3 DEF Here, SeedKind, Kinds, Listed
<1>8. Ahead'
  <2> SUFFICES ASSUME NEW j \in DOMAIN Tasks PROVE ~LookedUp(j, 1, p, {})
    BY <1>1 DEF Ahead, LookedUp, SeedKind
  <2>1. \A k \in 1 .. j - 1 : ~(k < 1)
    BY <1>2
  <2> QED  BY <1>3, <2>1 DEF LookedUp
<1>9. Behind' /\ LoggedIn'
  <2>1. \A j \in DOMAIN Tasks : ~(j < 1)
    BY <1>2
  <2> QED  BY <1>1, <1>3, <2>1 DEF Behind, LoggedIn
<1> QED  BY <1>1, <1>4, <1>5, <1>6, <1>7, <1>8, <1>9 DEF SeedInv, Place, Here, SeedKind, Row

\* A step that changes no table and stays where it is, except that a login that failed is
\* followed by a registration and the summary by the artifacts.
LEMMA IdleKeeps ==
    ASSUME SeedInv, UNCHANGED <<rows, pending, warnings, again, at, seen, lists, map>>,
           served' \in BOOLEAN, served => served' \/ pc' # pc,
           \/ pc' = pc
           \/ pc = "login" /\ pc' = "register"
           \/ pc = "summary" /\ pc' = "artifacts"
    PROVE  SeedInv'
<1>1. SeedTypes' /\ SeedTables'
  BY TablesIdle DEF SeedInv, SeedTypes
<1>2. ASSUME pc = "login"
      PROVE  at \in DOMAIN Tasks /\ SeedKind(at) = "user" /\ PcsAt(at) = PcsOf(SeedKind(at))
  <2>1. InTasks
    BY <1>2, OutsideTasks
  <2>2. at \in DOMAIN Tasks /\ at # 0 /\ ~(at > Len(Tasks)) /\ SeedKind(at) \in Kinds
    BY <2>1, AtTask DEF SeedInv
  <2>3. PcsAt(at) = PcsOf(SeedKind(at))
    BY <2>2 DEF PcsAt
  <2> QED  BY <1>2, <2>2, <2>3 DEF SeedInv, Position, PcsOf, Kinds
<1>3. ASSUME pc = "summary" PROVE at = Len(Tasks) + 1 /\ at \notin DOMAIN Tasks
  <2>1. ~InTasks
    BY <1>3, AtTask DEF SeedInv, PcsOf, Kinds
  <2> QED  BY <1>3, <2>1, OutsideTasks DEF InTasks
<1>7. Position'
  <2>1. CASE pc' = pc
    BY <2>1 DEF SeedInv, Position, PcsAt, PcsOf, SeedKind
  <2>2. CASE pc = "login" /\ pc' = "register"
    <3>1. pc' \in PcsAt(at)
      BY <1>2, <2>2 DEF PcsOf
    <3> QED  BY <2>2, <3>1 DEF Position, PcsAt, PcsOf, SeedKind
  <2>3. CASE pc = "summary" /\ pc' = "artifacts"
    BY <1>3, <2>3, Definitions DEF Position, PcsAt
  <2> QED  BY <2>1, <2>2, <2>3
<1>8. (at \in DOMAIN Tasks => Here(at))'
  <2> SUFFICES ASSUME at \in DOMAIN Tasks PROVE Here(at)'
    OBVIOUS
  <2>1. CASE pc' = pc
    <3>1. Here(at) /\ (served => served')
      BY <2>1 DEF SeedInv, Place
    <3>2. CASE served' = served
      BY <2>1, <3>1, <3>2 DEF Here, SeedKind, Row
    <3>3. CASE served' = TRUE
      <4>1. SeedKind(at) \in Kinds
        BY Definitions
      <4>2. CASE SeedKind(at) = "product"
        BY <2>1, <3>1, <3>3, <4>2 DEF Here, SeedKind, Row
      <4>3. CASE SeedKind(at) = "report"
        BY <2>1, <3>1, <3>3, <4>3 DEF Here, SeedKind, Row
      <4>4. CASE SeedKind(at) \in {"user", "category", "block", "favorite", "rating"}
        BY <2>1, <3>1, <4>4 DEF Here, SeedKind, Row
      <4>5. CASE SeedKind(at) \in {"talk", "message", "moderate"}
        BY <2>1, <3>1, <4>5 DEF Here, SeedKind, Row
      <4> QED  BY <4>1, <4>2, <4>3, <4>4, <4>5 DEF Kinds
    <3> QED  BY <3>1, <3>2, <3>3 DEF SeedInv, SeedTypes
  <2>2. CASE pc = "login" /\ pc' = "register"
    BY <1>2, <2>2 DEF Here, SeedKind
  <2> QED  BY <1>3, <2>1, <2>2
<1>4. Ahead'
  BY DEF SeedInv, Place, Ahead, LookedUp, SeedKind, Row
<1>5. Behind'
  BY DEF SeedInv, Place, Behind, Seeded, SeedKind, Row
<1>6. LoggedIn'
  BY DEF SeedInv, Place, LoggedIn, BannedBy, SeedKind, Row
<1> QED  BY <1>1, <1>4, <1>5, <1>6, <1>7, <1>8 DEF SeedInv, Place

\* A run that ends after a request of a task, or outside of one.
LEMMA EndKeeps ==
    ASSUME SeedInv, (InTasks /\ Did(at)) \/ UNCHANGED <<rows, pending, warnings, again>>,
           at' = 0, pc' = "off", served' \in BOOLEAN, UNCHANGED <<seen, map>>
    PROVE  SeedInv'
<1>1. SeedTables'
  BY TablesKept, TablesIdle DEF SeedInv
<1>2. /\ rows' \in [Keys -> Seq(Values)] /\ warnings' \in [Keys -> Nat]
      /\ again' \in [Keys -> Nat]
  BY DEF SeedInv, SeedTypes, Did
<1> QED  BY <1>1, <1>2, RunEnds DEF SeedInv

LEMMA HeardKeeps ==
    ASSUME SeedInv, Heard PROVE SeedInv'
<1>1. CASE InTasks
  <2>1. PICK answer \in Answers(Task, pc) : Handle(answer)
    BY <1>1 DEF Heard
  <2>2. Did(at)
    BY <1>1, ServeDoes DEF Heard, SeedInv
  <2> QED  BY <1>1, <2>1, <2>2, HandleKeeps
<1>2. CASE ~InTasks
  <2>1. UNCHANGED <<server, again>> /\ (Preflight \/ CollectSummary)
    BY <1>2 DEF Heard, Handle
  <2>2. CASE CollectSummary
    <3>1. /\ pc = "summary" /\ pc' = "artifacts" /\ served' = FALSE
          /\ UNCHANGED <<rows, pending, warnings, again, at, seen, lists, map>>
      BY <2>1, <2>2 DEF CollectSummary, Ask, server
    <3> QED  BY <3>1, IdleKeeps
  <2> QED  BY <1>2, <2>1, <2>2, PreflightKeeps
<1> QED  BY <1>1, <1>2

LEMMA SkipKeeps ==
    ASSUME SeedInv, Skip PROVE SeedInv'
<1>1. InTasks
  BY OutsideTasks DEF Skip
<1>2. Did(at)
  BY <1>1, NothingDone DEF Skip, server
<1>3. "ok" \in Answers(Task, pc)
  BY DEF Skip, Answers
<1> QED  BY <1>1, <1>2, <1>3, HandleKeeps DEF Skip

\* A request the server ran without being heard: it is repeated, or the run ends, or the
\* user whose login it was is registered.
LEMMA UnheardKeeps ==
    ASSUME SeedInv, Unheard PROVE SeedInv'
<1>1. /\ UNCHANGED <<seen, lists, map>> /\ served' \in BOOLEAN /\ served' = (pc' = pc)
      /\ pc \notin {"off", "artifacts", "skip"}
      /\ \/ Retried(pc) /\ at' = at /\ pc' = pc
         \/ pc = "login" /\ at' = at /\ pc' = "register"
         \/ at' = 0 /\ pc' = "off"
  BY DEF Unheard, TryAgain, Asking
<1>2. CASE ~InTasks
  <2>1. UNCHANGED <<rows, pending, warnings, again>>
    BY <1>2 DEF Unheard, server
  <2>2. CASE at' = 0 /\ pc' = "off"
    BY <1>1, <2>1, <2>2, EndKeeps
  <2>3. CASE ~(at' = 0 /\ pc' = "off")
    BY <1>1, <2>1, <2>3, IdleKeeps
  <2> QED  BY <2>2, <2>3
<1>3. CASE InTasks
  <2>0. PICK own \in DOMAIN Tasks : own = at
    BY <1>3 DEF InTasks
  <2>1. Did(at) /\ pc \in PcsOf(SeedKind(own)) /\ SeedKind(own) \in Kinds /\ Here(own)
    BY <1>3, <2>0, ServeDoes, AtTask DEF Unheard, SeedInv, Place
  <2>2. CASE at' = 0 /\ pc' = "off"
    BY <1>1, <1>3, <2>1, <2>2, EndKeeps
  <2>3. MapGrows
    BY <1>1, <1>3, Noted
  <2>4. CASE Retried(pc) /\ at' = at /\ pc' = pc
    <3>1. served' = TRUE
      BY <1>1, <2>4
    <3>2. pc = "login" => FALSE
      BY <2>4 DEF Retried
    <3>3. Looks
      BY <1>1, <2>4, NoLook
    <3>4. Here(own)'
      <4>1. pc \notin {"create", "send", "verify", "status"} => rows' = rows
        BY <2>0, <2>1 DEF Did
      <4>2. CASE SeedKind(own) = "product"
        BY <1>1, <2>1, <2>4, <3>1, <4>1, <4>2 DEF Here, SeedKind, Row
      <4>3. CASE SeedKind(own) = "report"
        BY <1>1, <2>1, <2>4, <3>1, <4>1, <4>3 DEF Here, SeedKind, Row
      <4>4. CASE SeedKind(own) \in {"user", "category"}
        BY <1>1, <2>1, <2>4, <4>1, <4>4 DEF Here, SeedKind, Row
      <4>5. CASE SeedKind(own) \in {"block", "favorite", "rating"}
        BY <1>1, <2>1, <2>4, <4>1, <4>5 DEF Here, SeedKind, Row
      <4>6. CASE SeedKind(own) = "talk"
        <5>1. pc \notin {"send", "verify", "status"}
          BY <2>1, <4>6 DEF PcsOf
        <5> QED  BY <1>1, <2>1, <2>4, <4>1, <4>6, <5>1 DEF Here, SeedKind, Row
      <4>7. SeedKind(own) # "message"
        BY <1>1, <2>1, <2>4 DEF PcsOf, Retried
      <4>8. CASE SeedKind(own) = "moderate"
        BY <1>1, <2>1, <2>4, <4>1, <4>8 DEF Here, SeedKind, Row
      <4> QED  BY <2>1, <4>2, <4>3, <4>4, <4>5, <4>6, <4>7, <4>8 DEF Kinds
    <3>5. Here(at)'
      BY <2>0, <2>4, <3>4 DEF Here, SeedKind, Row
    <3> QED  BY <1>3, <2>0, <2>1, <2>3, <2>4, <3>1, <3>3, <3>5, StaysHere
  <2>5. CASE pc = "login" /\ at' = at /\ pc' = "register"
    <3>1. served' = FALSE /\ SeedKind(own) = "user"
      BY <1>1, <2>1, <2>5 DEF PcsOf, Kinds
    <3>2. Looks
      BY <1>1, <2>5, NoLook
    <3>3. Here(at)'
      BY <2>0, <2>5, <3>1 DEF Here, SeedKind
    <3>4. pc' \in PcsOf(SeedKind(at))
      BY <2>0, <2>5, <3>1 DEF PcsOf
    <3> QED  BY <1>3, <2>1, <2>3, <2>5, <3>1, <3>2, <3>3, <3>4, StaysHere
  <2> QED  BY <1>1, <2>2, <2>4, <2>5
<1> QED  BY <1>2, <1>3

\* A request the server did not run.
LEMMA UnservedKeeps ==
    ASSUME SeedInv, Unserved PROVE SeedInv'
<1>1. /\ UNCHANGED <<seen, lists, map, rows, pending, warnings, again>>
      /\ served' \in BOOLEAN /\ served' = (served /\ pc' = pc)
      /\ \/ at' = at /\ pc' = pc
         \/ pc = "login" /\ at' = at /\ pc' = "register"
         \/ at' = 0 /\ pc' = "off"
  BY DEF Unserved, TryAgain, Asking, server
<1>2. CASE at' = 0 /\ pc' = "off"
  BY <1>1, <1>2, EndKeeps
<1>3. CASE at' = at /\ (pc' = pc \/ (pc = "login" /\ pc' = "register"))
  <2>1. served => served' \/ pc' # pc
    BY <1>1
  <2> QED  BY <1>1, <1>3, <2>1, IdleKeeps
<1> QED  BY <1>1, <1>2, <1>3

LEMMA StartSeedKeeps ==
    ASSUME SeedInv, StartSeed PROVE SeedInv'
<1>1. /\ at' = 0 /\ pc' = "preflight" /\ served' = FALSE
      /\ seen' = Unseen /\ lists' = {} /\ map' = Unmapped
      /\ UNCHANGED <<rows, pending, warnings, again>>
  BY DEF StartSeed, Ask, server
<1>2. SeedTypes'
  <2>1. seen' \in [Keys -> Seq(Values)] /\ map' \in [Keys -> {"none", "created", "reused", "updated"}]
    BY <1>1 DEF Unseen, Unmapped
  <2>2. at' \in 0 .. Len(Tasks) + 1
    BY <1>1, Definitions
  <2> QED  BY <1>1, <2>1, <2>2 DEF SeedInv, SeedTypes
<1>3. Position'
  BY <1>1 DEF Position, PcsAt
<1>4. \A j \in DOMAIN Tasks : j \in Nat /\ j > 0
  BY Definitions
<1>5. Place'
  <2>1. Ahead' /\ at' \notin DOMAIN Tasks
    BY <1>1, <1>4 DEF Ahead
  <2>2. Behind' /\ LoggedIn'
    BY <1>1, <1>4 DEF Behind, LoggedIn
  <2> QED  BY <2>1, <2>2 DEF Place
<1> QED  BY <1>1, <1>2, <1>3, <1>5, TablesIdle DEF SeedInv

LEMMA SeedStarts == SeedInit => SeedInv
<1> SUFFICES ASSUME SeedInit PROVE SeedInv
  OBVIOUS
<1>1. /\ rows = Unseen /\ pending = {} /\ at = 0 /\ pc = "off" /\ served = FALSE
      /\ seen = Unseen /\ map = Unmapped
      /\ warnings = [k \in Keys |-> 0] /\ again = [k \in Keys |-> 0]
  BY DEF SeedInit
<1>2. \A j \in DOMAIN Tasks : Row(j) = <<>> /\ again[Tasks[j].key] = 0 /\ j \in Nat /\ j > 0
  BY <1>1, Definitions DEF Row, Unseen
<1>3. SeedTypes
  <2>1. rows \in [Keys -> Seq(Values)] /\ map \in [Keys -> {"none", "created", "reused", "updated"}]
    BY <1>1 DEF Unseen, Unmapped
  <2>2. at \in 0 .. Len(Tasks) + 1
    BY <1>1, Definitions
  <2> QED  BY <1>1, <2>1, <2>2 DEF SeedTypes
<1>4. Position
  BY <1>1 DEF Position, PcsAt
<1>5. DoubledByRetriesOnly
  <2>1. Len(<<>>) = 0
    OBVIOUS
  <2> QED  BY <1>2, <2>1 DEF DoubledByRetriesOnly, Row
<1>6. OnlyNew /\ Registering /\ Banned
  BY <1>1, <1>2 DEF OnlyNew, Registering, Banned, BannedBy
<1>7. Place
  <2>1. Ahead /\ at \notin DOMAIN Tasks
    BY <1>1, <1>2 DEF Ahead
  <2>2. Behind /\ LoggedIn
    BY <1>1, <1>2 DEF Behind, LoggedIn
  <2> QED  BY <2>1, <2>2 DEF Place
<1> QED  BY <1>3, <1>4, <1>5, <1>6, <1>7 DEF SeedInv, SeedTables

LEMMA SeedSteps == SeedInv /\ [SeedNext]_seedVars => SeedInv'
<1> SUFFICES ASSUME SeedInv, [SeedNext]_seedVars PROVE SeedInv'
  OBVIOUS
<1>1. CASE WriteArtifacts \/ StopSeed
  <2>1. /\ at' = 0 /\ pc' = "off" /\ served' = FALSE /\ UNCHANGED <<seen, map>>
        /\ UNCHANGED <<rows, pending, warnings, again>>
    BY <1>1 DEF WriteArtifacts, StopSeed, Ask, server
  <2> QED  BY <2>1, EndKeeps
<1>2. CASE UNCHANGED seedVars
  <2>1. /\ UNCHANGED <<rows, pending, warnings, again, at, seen, lists, map>>
        /\ pc' = pc /\ served' = served
    BY <1>2 DEF seedVars, server, client
  <2>2. served' \in BOOLEAN
    BY <2>1 DEF SeedInv, SeedTypes
  <2> QED  BY <2>1, <2>2, IdleKeeps
<1> QED  BY <1>1, <1>2, HeardKeeps, SkipKeeps, UnheardKeeps, UnservedKeeps, StartSeedKeeps
         DEF SeedNext

\* What the seeder keeps, whatever is lost or stopped on the way.
THEOREM SeederInvariant == Spec => []SeedInv
<1>1. ToolsInit => SeedInv
  BY SeedStarts DEF ToolsInit
<1>2. [ToolsNext]_toolsVars => [SeedNext]_seedVars
  BY DEF ToolsNext, Migrating, Seeding, Simulating, toolsVars
<1> QED  BY <1>1, <1>2, SeedSteps, PTL DEF Spec

\* dev-seeder.ts: whatever requests and answers get lost, and wherever earlier runs were
\* stopped, a key gets a second row only when its creation was retried after an answer
\* nobody heard, and a message that went through a socket is never there twice.
THEOREM SeededOnce == Spec => []DoubledByRetriesOnly
<1>1. SeedInv => DoubledByRetriesOnly
  BY DEF SeedInv, SeedTables
<1> QED  BY <1>1, SeederInvariant, PTL

\* runDevSeed: a run that gets to its artifacts has made or found the row of each key, in
\* the status of its definition, however often it was started before.
THEOREM FinishedSeedsAreWhole == Spec => []FinishedSeedIsWhole
<1>1. SeedInv => FinishedSeedIsWhole
  <2> SUFFICES ASSUME SeedInv, pc = "artifacts", NEW j \in DOMAIN Tasks PROVE Seeded(j)
    BY DEF FinishedSeedIsWhole, Seeded, SeedKind, Row
  <2>1. ~InTasks
    BY AtTask DEF SeedInv, PcsOf, Kinds
  <2>2. at = Len(Tasks) + 1
    BY <2>1, OutsideTasks
  <2>3. j < at
    BY <2>2, Definitions
  <2> QED  BY <2>3 DEF SeedInv, Place, Behind
<1> QED  BY <1>1, SeederInvariant, PTL
=============================================================================
