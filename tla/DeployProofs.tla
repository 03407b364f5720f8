---------------------------- MODULE DeployProofs ----------------------------
(***************************************************************************)
(* Proofs about Deploy for any number of images, runs of the script and    *)
(* faults: its types, that the migrations of the database have no gap,     *)
(* that the state files name tags that have passed the health check, and   *)
(* that only the tag that moves, published in part or moved before a       *)
(* rollback, starts a service ahead of the schema.                         *)
(***************************************************************************)
EXTENDS Deploy, TLAPS

-----------------------------------------------------------------------------
\* The migration runners: the steps of any number of them, of any images, keep
\* the migrations of the database without a gap.

\* What a runner relies on: all that it no longer has to apply is applied.
RunnersSound ==
  \A r \in Runners :
    /\ runs[r].status = "applying" => (1..runs[r].image) \ runs[r].todo \subseteq applied
    /\ runs[r].status = "applying" => runs[r].todo \subseteq 1..runs[r].image
    /\ runs[r].status = "ended" => Covers(runs[r].image)

MigrationsInv == MigrationsTyped /\ RunnersSound /\ MigrationsLeaveNoGap

\* Runners keep their image, and nothing that is applied is taken back.
OnlyAdvances ==
  /\ applied \subseteq applied'
  /\ \A r \in Runners : runs'[r].image = runs[r].image

LEMMA MigrationsStart == MigrationsInit => MigrationsInv
BY MigrationsAssumption
   DEF MigrationsInit, MigrationsInv, MigrationsTyped, RunnersSound, MigrationsLeaveNoGap, NoRun, Images

\* A new runner has promised nothing yet.
LEMMA StartKeeps ==
  ASSUME MigrationsInv, NEW r \in Runners, NEW image \in 0..MaxImages, StartRunner(r, image)
  PROVE  MigrationsInv' /\ UNCHANGED applied
<1>1. runs \in [Runners -> [status : {"none", "reading", "applying", "ended", "failed"},
                            image : 0..MaxImages, todo : SUBSET Images]]
  BY DEF MigrationsInv, MigrationsTyped
<1>2. MigrationsTyped'
  BY <1>1 DEF StartRunner, MigrationsInv, MigrationsTyped
<1>3. RunnersSound'
  BY <1>1 DEF StartRunner, MigrationsInv, RunnersSound, Covers
<1>4. MigrationsLeaveNoGap' /\ UNCHANGED applied
  BY DEF StartRunner, MigrationsInv, MigrationsLeaveNoGap
<1> QED
  BY <1>2, <1>3, <1>4 DEF MigrationsInv

\* What was read is what there is.
LEMMA ReadKeeps ==
  ASSUME MigrationsInv, NEW r \in Runners, ReadApplied(r)
  PROVE  MigrationsInv' /\ OnlyAdvances
<1>1. runs \in [Runners -> [status : {"none", "reading", "applying", "ended", "failed"},
                            image : 0..MaxImages, todo : SUBSET Images]]
  BY DEF MigrationsInv, MigrationsTyped
<1> DEFINE todo == (1..runs[r].image) \ applied
<1>2. todo \subseteq Images
  BY <1>1, MigrationsAssumption DEF Images
<1>3. runs' = [runs EXCEPT ![r].status = "applying", ![r].todo = todo] /\ applied' = applied
  BY DEF ReadApplied
<1>4. MigrationsTyped'
  <2> HIDE DEF todo
  <2> QED
    BY <1>1, <1>2, <1>3 DEF MigrationsInv, MigrationsTyped
<1>5. RunnersSound' /\ OnlyAdvances
  BY <1>1, <1>3 DEF MigrationsInv, RunnersSound, Covers, OnlyAdvances
<1>6. MigrationsLeaveNoGap'
  BY <1>3 DEF MigrationsInv, MigrationsLeaveNoGap
<1> QED
  BY <1>4, <1>5, <1>6 DEF MigrationsInv

\* The migration applied comes after those that are: all before it were left
\* out of what the runner had to do, or have been applied by it.
LEMMA ApplyKeeps ==
  ASSUME MigrationsInv, NEW r \in Runners, Apply(r)
  PROVE  MigrationsInv' /\ OnlyAdvances
<1>1. runs \in [Runners -> [status : {"none", "reading", "applying", "ended", "failed"},
                            image : 0..MaxImages, todo : SUBSET Images]]
  BY DEF MigrationsInv, MigrationsTyped
<1>2. PICK m \in runs[r].todo :
        /\ IsNext(r, m)
        /\ applied' = applied \cup {m}
        /\ runs' = [runs EXCEPT ![r].todo = @ \ {m}]
  BY DEF Apply
<1>3. m \in Images /\ Images \subseteq Nat
  BY <1>1, MigrationsAssumption DEF Images
<1>4. MigrationsTyped'
  BY <1>1, <1>2, <1>3 DEF MigrationsInv, MigrationsTyped
<1>5. runs[r].status = "applying"
  BY DEF Apply
<1>6. runs[r].todo \subseteq 1..runs[r].image /\ (1..runs[r].image) \ runs[r].todo \subseteq applied
  BY <1>5 DEF MigrationsInv, RunnersSound
<1>7. 1..m \subseteq applied'
  <2> SUFFICES ASSUME NEW n \in 1..m, n # m PROVE n \in applied
    BY <1>2
  <2>1. n \notin runs[r].todo
    BY <1>1, <1>2, <1>3 DEF IsNext
  <2>2. n \in 1..runs[r].image
    BY <1>1, <1>2, <1>3, <1>6
  <2> QED
    BY <1>6, <2>1, <2>2
<1>8. MigrationsLeaveNoGap'
  BY <1>2, <1>7 DEF MigrationsInv, MigrationsLeaveNoGap
<1>9. RunnersSound'
  <2> SUFFICES ASSUME NEW q \in Runners
               PROVE  /\ runs'[q].status = "applying" =>
                           /\ (1..runs'[q].image) \ runs'[q].todo \subseteq applied'
                           /\ runs'[q].todo \subseteq 1..runs'[q].image
                      /\ runs'[q].status = "ended" => 1..runs'[q].image \subseteq applied'
    BY DEF RunnersSound, Covers
  <2>1. CASE q = r
    BY <1>1, <1>2, <1>5, <1>6, <2>1
  <2>2. CASE q # r
    BY <1>1, <1>2, <2>2 DEF MigrationsInv, RunnersSound, Covers
  <2> QED
    BY <2>1, <2>2
<1>10. OnlyAdvances
  BY <1>1, <1>2 DEF OnlyAdvances
<1> QED
  BY <1>4, <1>8, <1>9, <1>10 DEF MigrationsInv

\* A runner that gives up promises nothing.
LEMMA FailKeeps ==
  ASSUME MigrationsInv, NEW r \in Runners, FailRunner(r) \/ ApplyTwice(r)
  PROVE  MigrationsInv' /\ OnlyAdvances
<1>1. runs \in [Runners -> [status : {"none", "reading", "applying", "ended", "failed"},
                            image : 0..MaxImages, todo : SUBSET Images]]
  BY DEF MigrationsInv, MigrationsTyped
<1>2. runs' = [runs EXCEPT ![r].status = "failed"] /\ applied' = applied
  BY DEF FailRunner, ApplyTwice
<1>3. MigrationsTyped'
  BY <1>1, <1>2 DEF MigrationsInv, MigrationsTyped
<1>4. RunnersSound' /\ OnlyAdvances
  BY <1>1, <1>2 DEF MigrationsInv, RunnersSound, Covers, OnlyAdvances
<1>5. MigrationsLeaveNoGap'
  BY <1>2 DEF MigrationsInv, MigrationsLeaveNoGap
<1> QED
  BY <1>3, <1>4, <1>5 DEF MigrationsInv

\* A runner with nothing left to do has all migrations of its image applied.
LEMMA EndKeeps ==
  ASSUME MigrationsInv, NEW r \in Runners, EndRunner(r)
  PROVE  MigrationsInv' /\ OnlyAdvances
<1>1. runs \in [Runners -> [status : {"none", "reading", "applying", "ended", "failed"},
                            image : 0..MaxImages, todo : SUBSET Images]]
  BY DEF MigrationsInv, MigrationsTyped
<1>2. runs' = [runs EXCEPT ![r].status = "ended"] /\ applied' = applied
  BY DEF EndRunner
<1>3. MigrationsTyped'
  BY <1>1, <1>2 DEF MigrationsInv, MigrationsTyped
<1>4. Covers(runs[r].image)
  BY DEF EndRunner, MigrationsInv, RunnersSound, Covers
<1>5. RunnersSound' /\ OnlyAdvances
  BY <1>1, <1>2, <1>4 DEF MigrationsInv, RunnersSound, Covers, OnlyAdvances
<1>6. MigrationsLeaveNoGap'
  BY <1>2 DEF MigrationsInv, MigrationsLeaveNoGap
<1> QED
  BY <1>3, <1>5, <1>6 DEF MigrationsInv

\* Any step of any runner.
LEMMA RunnerKeeps ==
  ASSUME MigrationsInv, RunnerStep
  PROVE  MigrationsInv' /\ OnlyAdvances
BY ReadKeeps, ApplyKeeps, FailKeeps, EndKeeps DEF RunnerStep

-----------------------------------------------------------------------------
\* The deployment script.

LEMMA ConstantsTyped ==
  /\ MaxImages \in Nat /\ Images = 1..MaxImages /\ Images \subseteq 0..MaxImages
  /\ MaxDeploys \in Nat /\ MaxFaults \in Nat /\ Runners = 1..MaxDeploys
  /\ Healthy \subseteq Images /\ NoTag \notin Tags /\ Api \in Services
  /\ Latest \in Tags /\ \A i \in Images : ShaTag[i] \in Tags
  /\ \A t \in Tags : t = Latest \/ \E i \in Images : t = ShaTag[i]
BY DeployAssumption, MigrationsAssumption DEF Images, Tags

USE ConstantsTyped

LEMMA TagsApart ==
  /\ \A i, j \in Images : ShaTag[i] = ShaTag[j] => i = j
  /\ \A i \in Images : ShaTag[i] # Latest
BY DeployAssumption

\* A health check that passes adds the images to those of its tag.
LEMMA PassedTyped ==
  ASSUME NEW f \in [Tags -> SUBSET Versions], NEW t \in Tags, NEW v \in Versions
  PROVE  [f EXCEPT ![t] = @ \cup {v}] \in [Tags -> SUBSET Versions]
OBVIOUS

\* Work done in part leaves each service one of its two versions.
LEMMA BetweenTyped ==
  ASSUME NEW old, NEW new, NEW v \in Between(old, new)
  PROVE  v \in Versions /\ \A s \in Services : v[s] = old[s] \/ v[s] = new[s]
BY DEF Between

\* What a pull fetches, wholly or in part.
LEMMA Fetches ==
  ASSUME registry \in [Tags -> Versions], tag \in Tags, Pull \/ PullBack
  PROVE  \E v \in Versions : /\ local' = [local EXCEPT ![tag] = v]
                             /\ \A s \in Services : v[s] = local[tag][s] \/ v[s] = registry[tag][s]
<1>1. registry[tag] \in Versions
  OBVIOUS
<1>2. \/ local' = [local EXCEPT ![tag] = registry[tag]]
      \/ \E v \in Between(local[tag], registry[tag]) : local' = [local EXCEPT ![tag] = v]
  BY DEF Pull, PullBack
<1>3. CASE local' = [local EXCEPT ![tag] = registry[tag]]
  BY <1>1, <1>3
<1>4. CASE \E v \in Between(local[tag], registry[tag]) : local' = [local EXCEPT ![tag] = v]
  <2>1. PICK v \in Between(local[tag], registry[tag]) : local' = [local EXCEPT ![tag] = v]
    BY <1>4
  <2>2. v \in Versions /\ \A s \in Services : v[s] = local[tag][s] \/ v[s] = registry[tag][s]
    BY BetweenTyped
  <2> QED
    BY <2>1, <2>2
<1> QED
  BY <1>2, <1>3, <1>4

\* What a restart starts, wholly or in part.
LEMMA Restarts ==
  ASSUME local \in [Tags -> Versions], running \in Versions, tag \in Tags, Up \/ UpBack
  PROVE  /\ running' \in Versions
         /\ \A s \in Services : running'[s] = running[s] \/ running'[s] = local[tag][s]
<1>1. local[tag] \in Versions
  OBVIOUS
<1>2. running' = local[tag] \/ running' \in Between(running, local[tag])
  BY DEF Up, UpBack
<1>3. CASE running' = local[tag]
  BY <1>1, <1>3
<1>4. CASE running' \in Between(running, local[tag])
  BY <1>4, BetweenTyped
<1> QED
  BY <1>2, <1>3, <1>4

\* What each place of the script may rely on: it migrates and restarts with
\* every image of the tag fetched, its runner is of the tag's api image, a
\* restart comes after those migrations, a tag is recorded after its check,
\* and the way back is to the previous tag.
Places ==
  /\ pc \in {"migrate", "migrating", "up"} => \A s \in Services : local[tag][s] # 0
  /\ pc = "migrating" => runs[Runner].image = local[tag][Api]
  /\ pc \in {"up", "health"} => Covers(local[tag][Api])
  /\ pc = "health" => running = local[tag]
  /\ pc \in {"record", "record current"} => passed[tag] # {}
  /\ pc \in {"pull back", "up back"} => previous # NoTag /\ tag = previous

\* No api image passes the check ahead of the schema.
PassedBehindSchema == \A t \in Tags : \A v \in passed[t] : Covers(v[Api])

\* The tag of a commit never names an image of another.
CommitTags ==
  \A i \in Images :
    /\ \A s \in Services : registry[ShaTag[i]][s] \in {0, i} /\ local[ShaTag[i]][s] \in {0, i}
    /\ \A v \in passed[ShaTag[i]] : v[Api] = i

Inv ==
  /\ TypeOK
  /\ MigrationsInv
  /\ Places
  /\ PassedBehindSchema
  /\ CommitTags
  /\ StateFilesNameHealthyTags

LEMMA InitInv == Init => Inv
<1> SUFFICES ASSUME Init PROVE Inv
  OBVIOUS
<1>1. MigrationsInv
  BY MigrationsStart DEF Init
<1>2. TypeOK
  BY <1>1 DEF Init, TypeOK, MigrationsInv, Versions, NoImages
<1>3. Places /\ PassedBehindSchema /\ StateFilesNameHealthyTags
  BY DEF Init, Places, PassedBehindSchema, StateFilesNameHealthyTags
<1>4. CommitTags
  BY DEF Init, CommitTags, NoImages
<1> QED
  BY <1>1, <1>2, <1>3, <1>4 DEF Inv

\* What a step may do to the migrations: nothing is taken back, and a runner
\* gets an image only when the script starts it.
LEMMA MigrationsAdvance ==
  ASSUME TypeOK, MigrationsInv, Next
  PROVE  /\ MigrationsInv'
         /\ applied \subseteq applied'
         /\ Migrate \/ \A r \in Runners : runs'[r].image = runs[r].image
<1>1. CASE Migrate
  <2>1. Runner \in Runners /\ local[tag][Api] \in 0..MaxImages
    BY <1>1 DEF TypeOK, Migrate, Versions
  <2> QED
    BY <1>1, <2>1, StartKeeps DEF Migrate
<1>2. CASE MigrationStep
  BY <1>2, RunnerKeeps, FailKeeps DEF MigrationStep, OnlyAdvances
<1>3. CASE Kill
  <2>1. Runner \in Runners
    BY <1>3 DEF TypeOK, Kill
  <2>2. CASE UNCHANGED migrationVars
    BY <2>2 DEF migrationVars, MigrationsInv, MigrationsTyped, RunnersSound, MigrationsLeaveNoGap, Covers
  <2>3. CASE FailRunner(Runner)
    BY <2>1, <2>3, FailKeeps DEF OnlyAdvances
  <2> QED
    BY <1>3, <2>2, <2>3 DEF Kill
<1>4. CASE UNCHANGED migrationVars
  BY <1>4 DEF migrationVars, MigrationsInv, MigrationsTyped, RunnersSound, MigrationsLeaveNoGap, Covers
<1>5. Migrate \/ MigrationStep \/ Kill \/ UNCHANGED migrationVars
  BY DEF Next, Publish, Start, Pull, Migrated, Up, CheckHealth, RecordPrevious, RecordCurrent, Rollback,
         PullBack, UpBack, CheckHealthBack
<1> QED
  BY <1>1, <1>2, <1>3, <1>4, <1>5

\* A stutter changes nothing.
LEMMA Stutter == Inv /\ UNCHANGED vars => Inv'
<1> SUFFICES ASSUME Inv, UNCHANGED vars PROVE Inv'
  OBVIOUS
<1>1. MigrationsInv'
  BY DEF Inv, vars, migrationVars, MigrationsInv, MigrationsTyped, RunnersSound, MigrationsLeaveNoGap, Covers
<1>2. TypeOK'
  BY DEF Inv, TypeOK, MigrationsTyped, Runner, vars, migrationVars, serverVars, stateFiles, scriptVars
<1>3. Places' /\ PassedBehindSchema' /\ StateFilesNameHealthyTags'
  BY DEF Inv, Places, PassedBehindSchema, StateFilesNameHealthyTags, Covers, Runner,
         vars, migrationVars, serverVars, stateFiles, scriptVars
<1>4. CommitTags'
  BY DEF Inv, CommitTags, vars, serverVars
<1> QED
  BY <1>1, <1>2, <1>3, <1>4 DEF Inv

\* How much of each bound is spent, and the deployment at work.
LEMMA UsedStep ==
  ASSUME TypeOK, Next
  PROVE  /\ used' \in [deploys : 0..MaxDeploys, faults : 0..MaxFaults]
         /\ pc' # "idle" => Runner' \in Runners
<1>1. used \in [deploys : 0..MaxDeploys, faults : 0..MaxFaults] /\ (pc # "idle" => Runner \in Runners)
  BY DEF TypeOK
<1>2. ASSUME NEW t \in Tags, Start(t) PROVE used'.deploys \in Runners /\ used' \in [deploys : 0..MaxDeploys, faults : 0..MaxFaults]
  BY <1>1, <1>2 DEF Start
<1>3. CASE \A t \in Tags : ~Start(t)
  <2>1. UNCHANGED used \/ Fault
    BY <1>3 DEF Next, Publish, Pull, Migrate, Migrated, Up, CheckHealth, RecordPrevious, RecordCurrent,
                Rollback, PullBack, UpBack, CheckHealthBack, Kill, MigrationStep
  <2>2. used' \in [deploys : 0..MaxDeploys, faults : 0..MaxFaults] /\ used'.deploys = used.deploys
    BY <1>1, <2>1 DEF Fault
  <2>3. pc' # "idle" => pc # "idle"
    BY <1>3 DEF Next, Publish, Pull, Migrate, Migrated, Up, CheckHealth, RecordPrevious, RecordCurrent,
                Rollback, PullBack, UpBack, CheckHealthBack, Kill, MigrationStep, GoTo, scriptVars
  <2> QED
    BY <1>1, <2>2, <2>3 DEF Runner
<1> QED
  BY <1>2, <1>3 DEF Runner

\* The types other than those of the bounds and of the migrations.
ServerTyped ==
  /\ registry \in [Tags -> Versions]
  /\ local \in [Tags -> Versions]
  /\ running \in Versions /\ before \in Versions
  /\ current \in Tags \cup {NoTag} /\ previous \in Tags \cup {NoTag}
  /\ tag \in Tags \cup {NoTag}
  /\ pc \in {"idle", "pull", "migrate", "migrating", "up", "health", "record", "record current",
             "rollback", "pull back", "up back", "health back"}
  /\ pc # "idle" => tag # NoTag
  /\ passed \in [Tags -> SUBSET Versions]

\* A step of the script or of the registry keeps the types.
LEMMA ServerStep == ServerTyped /\ Next => ServerTyped'
<1> SUFFICES ASSUME ServerTyped, Next PROVE ServerTyped'
  OBVIOUS
<1> USE DEF ServerTyped
<1>0. pc # "idle" => tag \in Tags /\ local[tag] \in Versions /\ registry[tag] \in Versions
  OBVIOUS
<1>1. ASSUME NEW i \in Images, NEW s \in Services, Publish(i, s) PROVE ServerTyped'
  <2>0. registry' = [registry EXCEPT ![ShaTag[i]][s] = i, ![Latest][s] = i]
    BY <1>1 DEF Publish
  <2>1. registry' \in [Tags -> Versions]
    <3> DEFINE f == [registry EXCEPT ![ShaTag[i]][s] = i]
    <3>1. f \in [Tags -> Versions]
      BY DEF Versions
    <3>2. registry' = [f EXCEPT ![Latest][s] = i]
      BY <2>0
    <3> HIDE DEF f
    <3> QED
      BY <3>1, <3>2 DEF Versions
  <2> QED
    BY <2>1, <1>1 DEF Publish, serverVars, stateFiles, scriptVars
<1>2. ASSUME NEW t \in Tags, Start(t) PROVE ServerTyped'
  BY <1>2 DEF Start, serverVars, stateFiles
<1>3. CASE Pull
  <2>0. \E v \in Versions : local' = [local EXCEPT ![tag] = v]
    BY <1>0, <1>3, Fetches DEF Pull
  <2>1. local' \in [Tags -> Versions]
    BY <1>0, <1>3, <2>0 DEF Pull
  <2> QED
    BY <2>1, <1>3 DEF Pull, GoTo, stateFiles
<1>4. CASE Migrate
  BY <1>4 DEF Migrate, GoTo, serverVars, stateFiles
<1>5. CASE Migrated
  BY <1>5 DEF Migrated, GoTo, serverVars, stateFiles
<1>6. CASE Up
  <2>1. running' \in Versions
    BY <1>0, <1>6, Restarts DEF Up
  <2> QED
    BY <2>1, <1>6 DEF Up, GoTo, stateFiles
<1>7. CASE CheckHealth
  <2>0. passed \in [Tags -> SUBSET Versions] /\ tag \in Tags
    BY <1>0, <1>7 DEF CheckHealth
  <2>1. passed' = passed \/ (running \in Versions /\ passed' = [passed EXCEPT ![tag] = @ \cup {running}])
    BY <1>7 DEF CheckHealth
  <2>2. passed' \in [Tags -> SUBSET Versions]
    <3> HIDE DEF ServerTyped
    <3> QED
      BY <2>0, <2>1, PassedTyped
  <2> QED
    BY <2>2, <1>7 DEF CheckHealth, GoTo, serverVars, stateFiles
<1>8. CASE RecordPrevious
  BY <1>8 DEF RecordPrevious, GoTo, serverVars
<1>9. CASE RecordCurrent
  BY <1>9 DEF RecordCurrent, GoTo, serverVars
<1>10. CASE Rollback
  BY <1>10 DEF Rollback, GoTo, serverVars, stateFiles
<1>11. CASE PullBack
  <2>0. \E v \in Versions : local' = [local EXCEPT ![tag] = v]
    BY <1>0, <1>11, Fetches DEF PullBack
  <2>1. local' \in [Tags -> Versions]
    BY <1>0, <1>11, <2>0 DEF PullBack
  <2> QED
    BY <2>1, <1>11 DEF PullBack, GoTo, stateFiles
<1>12. CASE UpBack
  <2>1. running' \in Versions
    BY <1>0, <1>12, Restarts DEF UpBack
  <2> QED
    BY <2>1, <1>12 DEF UpBack, GoTo, stateFiles
<1>13. CASE CheckHealthBack
  BY <1>13 DEF CheckHealthBack, GoTo, serverVars, stateFiles
<1>14. CASE Kill
  BY <1>14 DEF Kill, GoTo, serverVars
<1>15. CASE MigrationStep
  BY <1>15 DEF MigrationStep, serverVars, stateFiles, scriptVars
<1> QED
  BY <1>1, <1>2, <1>3, <1>4, <1>5, <1>6, <1>7, <1>8, <1>9, <1>10, <1>11, <1>12, <1>13, <1>14, <1>15
     DEF Next

LEMMA TypeStep ==
  ASSUME TypeOK, MigrationsInv, Next
  PROVE  TypeOK'
<1>1. ServerTyped'
  BY ServerStep DEF TypeOK, ServerTyped
<1>2. MigrationsTyped'
  BY MigrationsAdvance DEF MigrationsInv
<1> QED
  BY <1>1, <1>2, UsedStep DEF TypeOK, ServerTyped

\* Where the script may be, after each step.
LEMMA PlacesStep ==
  ASSUME Inv, Next
  PROVE  Places'
<1>0. TypeOK /\ MigrationsInv /\ Places
  BY DEF Inv
<1>a. applied \subseteq applied' /\ (Migrate \/ \A r \in Runners : runs'[r].image = runs[r].image)
  BY <1>0, MigrationsAdvance
<1>b. pc # "idle" => tag \in Tags /\ Runner \in Runners
  BY <1>0 DEF TypeOK
<1>c. pc = "migrating" => runs[Runner].image = local[tag][Api]
  BY <1>0 DEF Places
<1>d. \A i : Covers(i) => Covers(i)'
  BY <1>a DEF Covers
<1> USE DEF Places
<1>1. ASSUME NEW i \in Images, NEW s \in Services, Publish(i, s) PROVE Places'
  BY <1>0, <1>1 DEF Publish, serverVars, migrationVars, stateFiles, scriptVars, Covers, Runner
<1>2. ASSUME NEW t \in Tags, Start(t) PROVE Places'
  BY <1>2 DEF Start
<1>3. CASE Pull
  <2>1. pc' = "idle" \/ (pc' = "migrate" /\ tag' = tag /\ \A s \in Services : local'[tag][s] # 0)
    BY <1>0, <1>b, <1>3 DEF Pull, GoTo, Published, TypeOK
  <2> QED
    BY <2>1
<1>4. CASE Migrate
  <2>1. runs \in [Runners -> [status : {"none", "reading", "applying", "ended", "failed"},
                              image : 0..MaxImages, todo : SUBSET Images]]
    BY <1>0 DEF MigrationsInv, MigrationsTyped
  <2>2. runs'[Runner].image = local[tag][Api]
    BY <1>b, <1>4, <2>1 DEF Migrate, StartRunner
  <2> QED
    BY <1>0, <1>4, <2>2 DEF Migrate, GoTo, serverVars, Runner
<1>5. CASE Migrated
  <2>1. runs[Runner].status = "ended" => Covers(local[tag][Api])
    BY <1>0, <1>b, <1>c, <1>5 DEF Migrated, MigrationsInv, RunnersSound
  <2> QED
    BY <1>0, <1>5, <2>1 DEF Migrated, GoTo, serverVars, migrationVars, Covers
<1>6. CASE Up
  BY <1>0, <1>6 DEF Up, GoTo, migrationVars, Covers
<1>7. CASE CheckHealth
  <2>1. tag \in Tags
    BY <1>b, <1>7 DEF CheckHealth
  <2>2. passed \in [Tags -> SUBSET Versions]
    BY <1>0 DEF TypeOK
  <2> QED
    BY <1>7, <2>1, <2>2 DEF CheckHealth, GoTo
<1>8. CASE RecordPrevious
  BY <1>0, <1>8 DEF RecordPrevious, GoTo
<1>9. CASE RecordCurrent
  BY <1>9 DEF RecordCurrent, GoTo
<1>10. CASE Rollback
  BY <1>10 DEF Rollback, GoTo, stateFiles
<1>11. CASE PullBack
  BY <1>0, <1>11 DEF PullBack, GoTo, stateFiles
<1>12. CASE UpBack
  BY <1>12 DEF UpBack, GoTo
<1>13. CASE CheckHealthBack
  BY <1>13 DEF CheckHealthBack, GoTo
<1>14. CASE Kill
  BY <1>14 DEF Kill, GoTo
<1>15. CASE MigrationStep
  <2>1. UNCHANGED <<pc, tag, local, running, passed, previous>> /\ used'.deploys = used.deploys
    BY <1>0, <1>15 DEF MigrationStep, serverVars, stateFiles, scriptVars, Fault, TypeOK
  <2>2. ~Migrate
    BY <1>15 DEF Migrate, MigrationStep, GoTo, scriptVars
  <2>3. pc = "migrating" => runs'[Runner].image = local[tag][Api]
    BY <1>a, <1>b, <1>c, <2>2
  <2>4. pc' = "migrating" => runs'[Runner'].image = local'[tag'][Api]
    BY <2>1, <2>3 DEF Runner
  <2>5. pc \in {"up", "health"} => 1..local[tag][Api] \subseteq applied'
    BY <1>0, <1>a DEF Covers
  <2> QED
    BY <1>0, <2>1, <2>4, <2>5 DEF Covers
<1> QED
  BY <1>1, <1>2, <1>3, <1>4, <1>5, <1>6, <1>7, <1>8, <1>9, <1>10, <1>11, <1>12, <1>13, <1>14, <1>15
     DEF Next

\* Only a passing check adds to what has passed, and nothing is taken away.
LEMMA PassedGrows ==
  ASSUME TypeOK, Next
  PROVE  \/ UNCHANGED passed
         \/ /\ pc = "health"
            /\ \A t \in Tags : /\ passed[t] \subseteq passed'[t]
                              /\ passed'[t] \subseteq passed[t] \cup {running}
<1>1. CASE CheckHealth
  <2>1. passed \in [Tags -> SUBSET Versions]
    BY DEF TypeOK
  <2> QED
    BY <1>1, <2>1 DEF CheckHealth
<1>2. CASE ~CheckHealth
  BY <1>2 DEF Next, Publish, Start, Pull, Migrate, Migrated, Up, RecordPrevious, RecordCurrent, Rollback,
              PullBack, UpBack, CheckHealthBack, Kill, MigrationStep
<1> QED
  BY <1>1, <1>2

LEMMA PassedBehindStep ==
  ASSUME Inv, Next
  PROVE  PassedBehindSchema'
<1> SUFFICES ASSUME NEW t \in Tags, NEW v \in passed'[t]
             PROVE  1..v[Api] \subseteq applied'
  BY DEF PassedBehindSchema, Covers
<1>0. TypeOK /\ MigrationsInv /\ PassedBehindSchema /\ (pc = "health" => Covers(running[Api]))
  BY DEF Inv, Places
<1>1. v \in passed[t] \/ (pc = "health" /\ v = running)
  BY <1>0, PassedGrows
<1>2. 1..v[Api] \subseteq applied
  BY <1>0, <1>1 DEF PassedBehindSchema, Covers
<1> QED
  BY <1>0, <1>2, MigrationsAdvance

\* A job publishes under the tag of its own commit, and a check passes with
\* the images of the tag.
LEMMA CommitTagsStep ==
  ASSUME Inv, Next
  PROVE  CommitTags'
<1> SUFFICES ASSUME NEW i \in Images
             PROVE  /\ \A s \in Services : registry'[ShaTag[i]][s] \in {0, i} /\ local'[ShaTag[i]][s] \in {0, i}
                    /\ \A v \in passed'[ShaTag[i]] : v[Api] = i
  BY DEF CommitTags
<1>0. TypeOK /\ Places /\ CommitTags
  BY DEF Inv
<1>t. registry \in [Tags -> Versions] /\ local \in [Tags -> Versions] /\ (pc # "idle" => tag \in Tags)
  BY <1>0 DEF TypeOK
<1>a. \A s \in Services : registry[ShaTag[i]][s] \in {0, i} /\ local[ShaTag[i]][s] \in {0, i}
  BY <1>0 DEF CommitTags
<1>1. ASSUME NEW s \in Services PROVE registry'[ShaTag[i]][s] \in {0, i}
  <2>1. CASE UNCHANGED registry
    BY <1>a, <2>1
  <2>2. ASSUME NEW j \in Images, NEW r \in Services, Publish(j, r) PROVE registry'[ShaTag[i]][s] \in {0, i}
    <3>1. registry' = [registry EXCEPT ![ShaTag[j]][r] = j, ![Latest][r] = j]
      BY <2>2 DEF Publish
    <3>2. ShaTag[i] # Latest /\ (ShaTag[i] = ShaTag[j] => i = j)
      BY TagsApart
    <3> QED
      BY <1>a, <1>t, <3>1, <3>2 DEF Versions
  <2> QED
    BY <2>1, <2>2 DEF Next, Start, Pull, Migrate, Migrated, Up, CheckHealth, RecordPrevious, RecordCurrent,
                      Rollback, PullBack, UpBack, CheckHealthBack, Kill, MigrationStep
<1>2. ASSUME NEW s \in Services PROVE local'[ShaTag[i]][s] \in {0, i}
  <2>1. CASE UNCHANGED local
    BY <1>a, <2>1
  <2>2. CASE Pull \/ PullBack
    <3>0. tag \in Tags
      BY <1>t, <2>2 DEF Pull, PullBack
    <3>1. PICK v \in Versions : /\ local' = [local EXCEPT ![tag] = v]
                                /\ v[s] = local[tag][s] \/ v[s] = registry[tag][s]
      BY <1>t, <2>2, <3>0, Fetches
    <3> QED
      BY <1>a, <1>t, <3>0, <3>1
  <2> QED
    BY <2>1, <2>2 DEF Next, Publish, Start, Migrate, Migrated, Up, CheckHealth, RecordPrevious, RecordCurrent,
                      Rollback, UpBack, CheckHealthBack, Kill, MigrationStep, serverVars
<1>3. ASSUME NEW v \in passed'[ShaTag[i]] PROVE v[Api] = i
  <2>1. CASE v \in passed[ShaTag[i]]
    BY <1>0, <2>1 DEF CommitTags
  <2>2. CASE v \notin passed[ShaTag[i]]
    <3>1. CheckHealth /\ tag = ShaTag[i] /\ v = running /\ AllHealthy
      <4>1. passed \in [Tags -> SUBSET Versions]
        BY <1>0 DEF TypeOK
      <4>2. CheckHealth
        BY <2>2 DEF Next, Publish, Start, Pull, Migrate, Migrated, Up, RecordPrevious, RecordCurrent, Rollback,
                    PullBack, UpBack, CheckHealthBack, Kill, MigrationStep
      <4> QED
        BY <2>2, <4>1, <4>2 DEF CheckHealth
    <3>2. v[Api] = local[ShaTag[i]][Api] /\ v[Api] \in Images
      BY <1>0, <3>1 DEF CheckHealth, Places, AllHealthy
    <3> QED
      BY <1>a, <3>2
  <2> QED
    BY <2>1, <2>2
<1> QED
  BY <1>1, <1>2, <1>3

LEMMA StateFilesStep ==
  ASSUME Inv, Next
  PROVE  StateFilesNameHealthyTags'
<1> SUFFICES ASSUME NEW t \in {current', previous'}, t # NoTag
             PROVE  passed'[t] # {}
  BY DEF StateFilesNameHealthyTags
<1>0. TypeOK /\ StateFilesNameHealthyTags /\ (pc = "record current" => passed[tag] # {})
  BY DEF Inv, Places
<1>1. t \in {current, previous} \/ (pc = "record current" /\ t = tag)
  BY DEF Next, Publish, Start, Pull, Migrate, Migrated, Up, CheckHealth, RecordPrevious, RecordCurrent,
         Rollback, PullBack, UpBack, CheckHealthBack, Kill, MigrationStep, stateFiles
<1>2. t \in Tags /\ passed[t] # {}
  BY <1>0, <1>1 DEF TypeOK, StateFilesNameHealthyTags
<1> QED
  BY <1>0, <1>2, PassedGrows

LEMMA InvStep == Inv /\ [Next]_vars => Inv'
<1> SUFFICES ASSUME Inv, Next PROVE Inv'
  BY Stutter
<1>1. MigrationsInv'
  BY MigrationsAdvance DEF Inv
<1>2. TypeOK'
  BY TypeStep DEF Inv
<1> QED
  BY <1>1, <1>2, PlacesStep, PassedBehindStep, CommitTagsStep, StateFilesStep DEF Inv

\* Every state that deployments reach satisfies the invariant.
LEMMA InvHolds == Spec => []Inv
BY InitInv, InvStep, PTL DEF Spec

\* The server, the state files, the migrations and the script keep their types.
THEOREM DeployTypes == Spec => []TypeOK
<1>1. Inv => TypeOK
  BY DEF Inv
<1> QED
  BY <1>1, InvHolds, PTL

\* Whichever runners overlap, fail or outlive their script, the database has
\* the migrations up to some number and none after it.
THEOREM NoGap == Spec => []MigrationsLeaveNoGap
<1>1. Inv => MigrationsLeaveNoGap
  BY DEF Inv, MigrationsInv
<1> QED
  BY <1>1, InvHolds, PTL

\* The state files only ever name tags that have passed the health check.
THEOREM StateFilesHealthy == Spec => []StateFilesNameHealthyTags
<1>1. Inv => StateFilesNameHealthyTags
  BY DEF Inv
<1> QED
  BY <1>1, InvHolds, PTL

\* A migrated image needs only what has been applied.
LEMMA NotCovered ==
  ASSUME NEW a \in Nat, NEW b \in Nat, 1..a \subseteq applied, ~(1..b \subseteq applied)
  PROVE  b > a
OBVIOUS

\* A service that starts ahead of the schema was not migrated for, and has not
\* passed before: the tag names an older api, or is fetched by a rollback.
LEMMA SchemaFirstStep ==
  ASSUME Inv, [Next]_vars, NEW s \in Services, Covers(running[s]), ~Covers(running[s])'
  PROVE  /\ tag = Latest
         /\ \/ running'[s] > local[Latest][Api]
            \/ pc = "up back" /\ local[Latest] \notin passed[Latest]
<1>0. TypeOK /\ MigrationsInv /\ Places /\ PassedBehindSchema /\ CommitTags /\ StateFilesNameHealthyTags
  BY DEF Inv
<1>1. CASE UNCHANGED vars
  BY <1>1 DEF vars, serverVars, migrationVars, Covers
<1>2. CASE Next
  <2>1. applied \subseteq applied'
    BY <1>0, <1>2, MigrationsAdvance
  <2>2. running'[s] # running[s]
    BY <2>1 DEF Covers
  <2>3. Up \/ UpBack
    BY <1>2, <2>2 DEF Next, Publish, Start, Pull, Migrate, Migrated, CheckHealth, RecordPrevious, RecordCurrent,
                      Rollback, PullBack, CheckHealthBack, Kill, MigrationStep, serverVars
  <2>6. tag \in Tags /\ local \in [Tags -> Versions] /\ running \in Versions
    BY <1>0, <2>3 DEF TypeOK, Up, UpBack
  <2>4. running'[s] = local[tag][s]
    BY <2>2, <2>3, <2>6, Restarts
  <2>5. ~(1..local[tag][s] \subseteq applied)
    BY <2>1, <2>4 DEF Covers
  <2>7. local[tag][s] \in Nat /\ local[tag][Api] \in Nat
    BY <2>6 DEF Versions
  <2>8. CASE Up
    <3>1. 1..local[tag][Api] \subseteq applied /\ \A r \in Services : local[tag][r] # 0
      BY <1>0, <2>8 DEF Up, Places, Covers
    <3>2. local[tag][s] > local[tag][Api]
      BY <2>5, <2>7, <3>1, NotCovered
    <3>3. tag = Latest
      <4> SUFFICES ASSUME NEW i \in Images, tag = ShaTag[i] PROVE FALSE
        BY <2>6
      <4>1. local[tag][s] = i /\ local[tag][Api] = i
        BY <1>0, <3>1 DEF CommitTags
      <4> QED
        BY <2>7, <3>2, <4>1
    <3> QED
      BY <2>4, <3>2, <3>3
  <2>9. CASE UpBack
    <3>1. pc = "up back" /\ tag = previous /\ previous \in Tags
      BY <1>0, <2>9 DEF UpBack, Places, TypeOK
    <3>2. PICK v \in passed[tag] : 1..v[Api] \subseteq applied
      BY <1>0, <3>1 DEF StateFilesNameHealthyTags, PassedBehindSchema, Covers
    <3>3. tag = Latest
      <4> SUFFICES ASSUME NEW i \in Images, tag = ShaTag[i] PROVE FALSE
        BY <2>6
      <4>1. v[Api] = i /\ local[tag][s] \in {0, i}
        BY <1>0, <3>2 DEF CommitTags
      <4> QED
        BY <2>5, <2>7, <3>2, <4>1
    <3>4. ASSUME local[tag] \in passed[tag] PROVE local[tag][s] > local[tag][Api]
      <4>1. 1..local[tag][Api] \subseteq applied
        BY <1>0, <2>6, <3>4 DEF PassedBehindSchema, Covers
      <4> QED
        BY <2>5, <2>7, <4>1, NotCovered
    <3> QED
      BY <2>4, <3>1, <3>3, <3>4
  <2> QED
    BY <2>3, <2>8, <2>9
<1> QED
  BY <1>1, <1>2

\* What a step may start ahead of the schema.
OnlyTheMovingTag ==
  \A s \in Services : Covers(running[s]) /\ ~Covers(running[s])' =>
    /\ tag = Latest
    /\ \/ running'[s] > local[Latest][Api]
       \/ pc = "up back" /\ local[Latest] \notin passed[Latest]

\* Only the tag that moves starts a service whose migrations are missing: one
\* that names an older api, or one fetched by a rollback after it has moved.
THEOREM SchemaFirst == Spec => SchemaCoversRunning
<1>1. Inv /\ [Next]_vars => [OnlyTheMovingTag]_vars
  BY SchemaFirstStep DEF OnlyTheMovingTag
<1>2. [][OnlyTheMovingTag]_vars => SchemaCoversRunning
  BY PTL DEF SchemaCoversRunning, OnlyTheMovingTag
<1> QED
  BY <1>1, <1>2, InvHolds, PTL DEF Spec
=============================================================================
