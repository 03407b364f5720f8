------------------------------- MODULE Deploy -------------------------------
(***************************************************************************)
(* scripts/deploy-production.sh on the server: pull the requested tag,     *)
(* migrate the database, restart the services, check their health; then    *)
(* record the tag, or roll back to the tag recorded as the previous one.   *)
(* The main script stops at the first command that fails (set -e); inside  *)
(* rollback, which is the condition of an if, it does not.                 *)
(*                                                                         *)
(* Commits are numbered, and each is built into one image per service by   *)
(* jobs that fail or end on their own: a tag that moves may name images    *)
(* of different commits.  The image of commit i works with any schema that *)
(* has migrations 1 to i; the api's brings them.                           *)
(*                                                                         *)
(* The script runs alone (the workflow's concurrency group), but may be    *)
(* killed; the container that migrates may outlive it and meet the one of  *)
(* the next deployment.                                                    *)
(***************************************************************************)
EXTENDS Migrations

CONSTANTS
  Services,        \* what is built, pulled and started
  Api,             \* the one whose image migrates
  Healthy,         \* commits whose services answer the health check
  Latest,          \* the tag that moves with every commit
  ShaTag,          \* the tag of one commit, for ever
  NoTag,           \* a state file that does not exist, or is empty
  MaxDeploys,      \* bound: runs of the script
  MaxFaults        \* bound: commands that fail and runs killed

Tags == {Latest} \cup {ShaTag[i] : i \in Images}

\* Which commit's image each service has, 0 for none.
Versions == [Services -> 0..MaxImages]

NoImages == [s \in Services |-> 0]

ASSUME DeployAssumption ==
  /\ Runners = 1..MaxDeploys
  /\ {MaxDeploys, MaxFaults} \subseteq Nat
  /\ Api \in Services
  /\ Healthy \subseteq Images
  /\ DOMAIN ShaTag = Images
  /\ \A i, j \in Images : ShaTag[i] = ShaTag[j] => i = j
  /\ \A i \in Images : ShaTag[i] # Latest
  /\ NoTag \notin Tags

VARIABLES
  registry,        \* the images each tag names at GHCR
  local,           \* the images each tag names on the server
  running,         \* the images the services run
  current,         \* $STATE_DIR/current-image-tag
  previous,        \* $STATE_DIR/previous-image-tag
  pc,              \* where the script is
  tag,             \* RENO_NEWS_IMAGE_TAG
  before,          \* history: what ran when the script started
  passed,          \* history: the images that each tag has passed the check with
  used             \* how much of each bound is spent

serverVars == <<local, running>>
stateFiles == <<current, previous>>
scriptVars == <<pc, tag, before>>
vars == <<registry, serverVars, migrationVars, stateFiles, scriptVars, passed, used>>

Init ==
  /\ registry = [t \in Tags |-> NoImages]
  /\ local = [t \in Tags |-> NoImages]
  /\ running = NoImages
  /\ MigrationsInit
  /\ current = NoTag /\ previous = NoTag
  /\ pc = "idle" /\ tag = NoTag /\ before = NoImages
  /\ passed = [t \in Tags |-> {}]
  /\ used = [deploys |-> 0, faults |-> 0]

Fault ==
  /\ used.faults < MaxFaults
  /\ used' = [used EXCEPT !.faults = @ + 1]

GoTo(label) == pc' = label /\ UNCHANGED <<tag, before>>

\* docker-publish.yml on main, one job of the matrix: the tag of the commit,
\* and latest, of one service.  Other jobs may fail; a job, or the jobs of an
\* earlier commit, may be started again at any time.
Publish(i, s) ==
  /\ registry' = [registry EXCEPT ![ShaTag[i]][s] = i, ![Latest][s] = i]
  /\ UNCHANGED <<serverVars, migrationVars, stateFiles, scriptVars, passed, used>>

Start(t) ==
  /\ pc = "idle"
  /\ used.deploys < MaxDeploys
  /\ used' = [used EXCEPT !.deploys = @ + 1]
  /\ pc' = "pull" /\ tag' = t /\ before' = running
  /\ UNCHANGED <<registry, serverVars, migrationVars, stateFiles, passed>>

Published(t) == \A s \in Services : registry[t][s] # 0

\* Each service has one of its two versions: some of the work was done.
Between(old, new) == {v \in Versions : \A s \in Services : v[s] \in {old[s], new[s]}}

\* A tag that some service was not published under cannot be pulled: the
\* script stops, and has fetched the others or not.
Pull ==
  /\ pc = "pull"
  /\ \/ /\ Published(tag)
        /\ local' = [local EXCEPT ![tag] = registry[tag]]
        /\ GoTo("migrate") /\ UNCHANGED used
     \/ /\ IF Published(tag) THEN Fault ELSE UNCHANGED used
        /\ \E v \in Between(local[tag], registry[tag]) : local' = [local EXCEPT ![tag] = v]
        /\ GoTo("idle")
  /\ UNCHANGED <<registry, running, migrationVars, stateFiles, passed>>

\* The runner of the deployment at work.
Runner == used.deploys

\* docker compose run --rm api pnpm db:migrate, in the tag's api image.
Migrate ==
  /\ pc = "migrate"
  /\ StartRunner(Runner, local[tag][Api])
  /\ GoTo("migrating")
  /\ UNCHANGED <<registry, serverVars, stateFiles, passed, used>>

\* Mutant of Migrated: the failure of a migration does not stop the script.
MigratedOrNot ==
  /\ pc = "migrating"
  /\ runs[Runner].status \in {"ended", "failed"}
  /\ GoTo("up")
  /\ UNCHANGED <<registry, serverVars, migrationVars, stateFiles, passed, used>>

\* The script waits for the runner, and stops if it failed.
Migrated ==
  /\ pc = "migrating"
  /\ \/ runs[Runner].status = "ended" /\ GoTo("up")
     \/ runs[Runner].status = "failed" /\ GoTo("idle")
  /\ UNCHANGED <<registry, serverVars, migrationVars, stateFiles, passed, used>>

\* A runner goes on, whatever has become of the script that started it.
MigrationStep ==
  /\ \/ RunnerStep /\ UNCHANGED used
     \/ (\E r \in Runners : FailRunner(r)) /\ Fault
  /\ UNCHANGED <<registry, serverVars, stateFiles, scriptVars, passed>>

\* A failed up may have replaced any of the services; the script stops.
Up ==
  /\ pc = "up"
  /\ \/ /\ running' = local[tag]
        /\ GoTo("health") /\ UNCHANGED used
     \/ /\ Fault
        /\ running' \in Between(running, local[tag])
        /\ GoTo("idle")
  /\ UNCHANGED <<registry, local, migrationVars, stateFiles, passed>>

AllHealthy == \A s \in Services : running[s] \in Healthy

\* Mutant of CheckHealth: the retries run out and the tag is recorded.
CheckHealthWithoutFailure ==
  /\ pc = "health"
  /\ \/ /\ AllHealthy
        /\ passed' = [passed EXCEPT ![tag] = @ \cup {running}]
        /\ UNCHANGED used
     \/ /\ IF AllHealthy THEN Fault ELSE UNCHANGED used
        /\ UNCHANGED passed
  /\ GoTo("record")
  /\ UNCHANGED <<registry, serverVars, migrationVars, stateFiles>>

\* wait_for_health, of all services; healthy ones may be too slow to answer.
CheckHealth ==
  /\ pc = "health"
  /\ \/ /\ AllHealthy
        /\ passed' = [passed EXCEPT ![tag] = @ \cup {running}]
        /\ GoTo("record") /\ UNCHANGED used
     \/ /\ IF AllHealthy THEN Fault ELSE UNCHANGED used
        /\ GoTo("rollback") /\ UNCHANGED passed
  /\ UNCHANGED <<registry, serverVars, migrationVars, stateFiles>>

\* write_state, first file: only a different tag becomes the previous one.
RecordPrevious ==
  /\ pc = "record"
  /\ previous' = IF current \in {NoTag, tag} THEN previous ELSE current
  /\ GoTo("record current")
  /\ UNCHANGED <<registry, serverVars, migrationVars, current, passed, used>>

RecordCurrent ==
  /\ pc = "record current"
  /\ current' = tag
  /\ GoTo("idle")
  /\ UNCHANGED <<registry, serverVars, migrationVars, previous, passed, used>>

\* rollback reads the previous tag, if there is one.
Rollback ==
  /\ pc = "rollback"
  /\ IF previous = NoTag THEN GoTo("idle")
     ELSE pc' = "pull back" /\ tag' = previous /\ UNCHANGED before
  /\ UNCHANGED <<registry, serverVars, migrationVars, stateFiles, passed, used>>

\* What this pull fails to fetch, the tag keeps as it was on the server.
PullBack ==
  /\ pc = "pull back"
  /\ \/ local' = [local EXCEPT ![tag] = registry[tag]] /\ UNCHANGED used
     \/ /\ \E v \in Between(local[tag], registry[tag]) : local' = [local EXCEPT ![tag] = v]
        /\ Fault
  /\ GoTo("up back")
  /\ UNCHANGED <<registry, running, migrationVars, stateFiles, passed>>

UpBack ==
  /\ pc = "up back"
  /\ \/ running' = local[tag] /\ UNCHANGED used
     \/ running' \in Between(running, local[tag]) /\ Fault
  /\ GoTo("health back")
  /\ UNCHANGED <<registry, local, migrationVars, stateFiles, passed>>

\* The last health check decides only what the script says.
CheckHealthBack ==
  /\ pc = "health back"
  /\ GoTo("idle")
  /\ UNCHANGED <<registry, serverVars, migrationVars, stateFiles, passed, used>>

\* The ssh connection drops and the script with it.  The redirection empties
\* a state file before printf fills it; an empty one counts as none.  The
\* container that migrates may stop with it or go on.
Kill ==
  /\ pc # "idle"
  /\ Fault
  /\ previous' = previous \/ (pc = "record" /\ current \notin {NoTag, tag} /\ previous' = NoTag)
  /\ current' = current \/ (pc = "record current" /\ current' = NoTag)
  /\ GoTo("idle")
  /\ UNCHANGED migrationVars \/ (pc = "migrating" /\ FailRunner(Runner))
  /\ UNCHANGED <<registry, serverVars, passed>>

Next ==
  \/ \E i \in Images, s \in Services : Publish(i, s)
  \/ \E t \in Tags : Start(t)
  \/ Pull \/ Migrate \/ Migrated \/ Up \/ CheckHealth \/ RecordPrevious \/ RecordCurrent
  \/ Rollback \/ PullBack \/ UpBack \/ CheckHealthBack
  \/ Kill
  \/ MigrationStep

Spec == Init /\ [][Next]_vars

-----------------------------------------------------------------------------
\* Properties.

\* The server, the state files and the script keep their types.
TypeOK ==
  /\ registry \in [Tags -> Versions]
  /\ local \in [Tags -> Versions]
  /\ running \in Versions /\ before \in Versions
  /\ MigrationsTyped
  /\ current \in Tags \cup {NoTag} /\ previous \in Tags \cup {NoTag}
  /\ tag \in Tags \cup {NoTag}
  /\ pc \in {"idle", "pull", "migrate", "migrating", "up", "health", "record", "record current",
             "rollback", "pull back", "up back", "health back"}
  /\ used \in [deploys : 0..MaxDeploys, faults : 0..MaxFaults]
  /\ pc # "idle" => tag # NoTag /\ Runner \in Runners
  /\ passed \in [Tags -> SUBSET Versions]

\* The state files name tags that have passed the health check, whatever was
\* killed or failed on the way (docs/ops/production-deploy.md:56, write_state).
StateFilesNameHealthyTags ==
  \A t \in {current, previous} \ {NoTag} : passed[t] # {}

\* A service comes to run an image whose migrations are missing only under
\* the tag that moves: because it names an older api, whose migrations are
\* the ones that ran, or because a rollback, which does not migrate, has
\* fetched images it had not passed the check with.  Tags of commits are safe
\* whatever was published in part, killed or failed
\* (docs/ops/production-deploy.md:50-51 and :93).
SchemaCoversRunning ==
  [][\A s \in Services : Covers(running[s]) /\ ~Covers(running[s])' =>
       /\ tag = Latest
       /\ \/ running'[s] > local[Latest][Api]
          \/ pc = "up back" /\ local[Latest] \notin passed[Latest]]_vars

\* A deployment that fails its check and is rolled back, without any fault,
\* leaves the image that ran before it, when that image had been recorded
\* (docs/adr/0033-*.md:7, a rollback path to the previous image tag).
RollbackRestoresRunning ==
  pc = "health back" /\ used.faults = 0 /\ current # NoTag /\ before \in passed[current] =>
    running = before
=============================================================================
