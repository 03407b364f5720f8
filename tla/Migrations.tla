----------------------------- MODULE Migrations -----------------------------
(***************************************************************************)
(* packages/db/src/runner.ts: a migration runner reads which migrations    *)
(* the database has, then applies those of its image that were missing,    *)
(* in order, each in a transaction of its own with its row in              *)
(* schema_migrations.  Nothing keeps two runners apart but the primary     *)
(* key of that table.                                                      *)
(*                                                                         *)
(* Migrations are numbered in the order of their file names; image i       *)
(* brings 1 to i.                                                          *)
(***************************************************************************)
EXTENDS Integers

CONSTANTS
  MaxImages,       \* bound: images published
  Runners          \* containers that run pnpm db:migrate

Images == 1..MaxImages

ASSUME MigrationsAssumption == MaxImages \in Nat \ {0}

VARIABLES
  applied,         \* rows of schema_migrations
  runs             \* what each runner is doing, the image it is of, and what it has yet to apply

migrationVars == <<applied, runs>>

NoRun == [status |-> "none", image |-> 0, todo |-> {}]

MigrationsInit ==
  /\ applied = {}
  /\ runs = [r \in Runners |-> NoRun]

\* The schema has the migrations of image i.
Covers(i) == 1..i \subseteq applied

StartRunner(r, image) ==
  /\ runs[r] = NoRun
  /\ runs' = [runs EXCEPT ![r] = [status |-> "reading", image |-> image, todo |-> {}]]
  /\ UNCHANGED applied

\* select filename from schema_migrations, once, before the loop.
ReadApplied(r) ==
  /\ runs[r].status = "reading"
  /\ runs' = [runs EXCEPT ![r].status = "applying", ![r].todo = (1..runs[r].image) \ applied]
  /\ UNCHANGED applied

\* The migration that runner r tries next.
IsNext(r, m) == m \in runs[r].todo /\ \A n \in runs[r].todo : m <= n

\* A transaction commits: the statements of the file, and its row.
Apply(r) ==
  /\ runs[r].status = "applying"
  /\ \E m \in runs[r].todo :
       /\ IsNext(r, m)
       /\ m \notin applied
       /\ applied' = applied \cup {m}
       /\ runs' = [runs EXCEPT ![r].todo = @ \ {m}]

\* Another runner has applied it since: the row is refused, and the runner ends.
ApplyTwice(r) ==
  /\ runs[r].status = "applying"
  /\ \E m \in runs[r].todo : IsNext(r, m) /\ m \in applied
  /\ runs' = [runs EXCEPT ![r].status = "failed"]
  /\ UNCHANGED applied

\* Mutant of FailRunner: the migration that fails is skipped.
SkipFailed(r) ==
  /\ runs[r].status = "applying"
  /\ \E m \in runs[r].todo :
       IsNext(r, m) /\ runs' = [runs EXCEPT ![r].todo = @ \ {m}]
  /\ UNCHANGED applied

\* A statement fails or the container stops: the open transaction is rolled
\* back, the error is thrown on, and what was applied before stays.
FailRunner(r) ==
  /\ runs[r].status \in {"reading", "applying"}
  /\ runs' = [runs EXCEPT ![r].status = "failed"]
  /\ UNCHANGED applied

EndRunner(r) ==
  /\ runs[r].status = "applying"
  /\ runs[r].todo = {}
  /\ runs' = [runs EXCEPT ![r].status = "ended"]
  /\ UNCHANGED applied

RunnerStep ==
  \E r \in Runners : ReadApplied(r) \/ Apply(r) \/ ApplyTwice(r) \/ EndRunner(r)

-----------------------------------------------------------------------------
\* Properties.

\* The rows of schema_migrations and the runners keep their types.
MigrationsTyped ==
  /\ applied \subseteq Images
  /\ runs \in [Runners -> [status : {"none", "reading", "applying", "ended", "failed"},
                           image : 0..MaxImages, todo : SUBSET Images]]

\* The database has the migrations up to some number and none after it, even
\* when runners of different images overlap and fail: each migration finds
\* those it was written after (runMigrations).
MigrationsLeaveNoGap == \A m \in applied : 1..m \subseteq applied
=============================================================================
