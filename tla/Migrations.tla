------------------------------ MODULE Migrations ------------------------------
(***************************************************************************)
(* scripts/migrate.mjs: applying the files of supabase/migrations, each in *)
(* a transaction with its row of public.schema_migrations.  Two people, or *)
(* a person and a deployment, may run it at once, on checkouts of their    *)
(* own, and a runner may be killed anywhere.                               *)
(*                                                                         *)
(* PostgreSQL is external: a transaction's rows are seen by others once it *)
(* commits; an insert of a key that another transaction has inserted waits *)
(* for its end.  Statements of a file that would fail on a schema that has *)
(* it already (create table) are not told from those that would not: the   *)
(* bookkeeping row decides last.                                           *)
(***************************************************************************)
EXTENDS Integers, Sequences

CONSTANTS
  Runners,
  Files,       \* the files' places in filename order
  CheckoutOf,  \* the files a runner has
  BadFiles,    \* files whose SQL fails
  MaxKills     \* bound: runners killed or disconnected

ASSUME MigrationsAssumption == /\ Files \subseteq Nat
                               /\ CheckoutOf \in [Runners -> SUBSET Files]
                               /\ BadFiles \subseteq Files
                               /\ MaxKills \in Nat

RunnerSteps == {"idle", "reading", "next", "begun", "applied", "recorded", "stopped"}
NoFile == -1

VARIABLES
  schema,    \* the files whose statements are committed, in that order
  versions,  \* the committed rows of schema_migrations
  runStep,   \* where each runner is
  pending,   \* its outstanding files
  applying,  \* the file of its transaction
  open,      \* it is inside a transaction
  kills

migrationVars == <<schema, versions, runStep, pending, applying, open, kills>>

MigrationsTypeOK ==
  /\ schema \in Seq(Files)
  /\ versions \subseteq Files
  /\ runStep \in [Runners -> RunnerSteps]
  /\ pending \in [Runners -> SUBSET Files]
  /\ applying \in [Runners -> Files \cup {NoFile}]
  /\ open \in [Runners -> BOOLEAN]
  /\ kills \in 0..MaxKills

MigrationsInit ==
  /\ schema = <<>> /\ versions = {}
  /\ runStep = [r \in Runners |-> "idle"]
  /\ pending = [r \in Runners |-> {}]
  /\ applying = [r \in Runners |-> NoFile]
  /\ open = [r \in Runners |-> FALSE]
  /\ kills = 0

To(r, s) == runStep' = [runStep EXCEPT ![r] = s]

(* create table if not exists.  --status reads and ends.                    *)
StartRunner(r) ==
  /\ runStep[r] \in {"idle", "stopped"}
  /\ To(r, "reading")
  /\ UNCHANGED <<schema, versions, pending, applying, open, kills>>

ReadApplied(r) ==
  /\ runStep[r] = "reading"
  /\ pending' = [pending EXCEPT ![r] = CheckoutOf[r] \ versions]
  /\ To(r, "next")
  /\ UNCHANGED <<schema, versions, applying, open, kills>>

(* begin, for the first of the pending files in filename order.             *)
BeginFile(r) ==
  /\ runStep[r] = "next" /\ pending[r] # {}
  /\ \E f \in pending[r] : /\ \A g \in pending[r] : f <= g
                           /\ applying' = [applying EXCEPT ![r] = f]
  /\ open' = [open EXCEPT ![r] = TRUE]
  /\ To(r, "begun")
  /\ UNCHANGED <<schema, versions, pending, kills>>

NothingPending(r) ==
  /\ runStep[r] = "next" /\ pending[r] = {}
  /\ To(r, "idle")
  /\ UNCHANGED <<schema, versions, pending, applying, open, kills>>

(* Faulty: the commit a file ends with is left in it.                       *)
KeepOwnTransaction(r) == FALSE

(* A file runs inside the runner's transaction: its own begin and commit    *)
(* are stripped.                                                            *)
StripOwnTransaction(r) == open[r]

(* Two files at once: the second waits for the locks of the first.          *)
Waits(r) == \E s \in Runners \ {r} :
              applying[s] = applying[r] /\ runStep[s] \in {"applied", "recorded"} /\ open[s]

(* client.query(sql).                                                       *)
ApplyFile(r) ==
  /\ runStep[r] = "begun"
  /\ applying[r] \notin BadFiles
  /\ ~Waits(r)
  /\ To(r, "applied")
  /\ open' = [open EXCEPT ![r] = StripOwnTransaction(r)]
  /\ schema' = IF StripOwnTransaction(r) THEN schema ELSE Append(schema, applying[r])
  /\ UNCHANGED <<versions, pending, applying, kills>>

(* The runner stops at the first file that fails, rolled back.              *)
Stop(r) == /\ To(r, "stopped")
           /\ pending' = [pending EXCEPT ![r] = {}]
           /\ applying' = [applying EXCEPT ![r] = NoFile]
           /\ open' = [open EXCEPT ![r] = FALSE]

FileFails(r) ==
  /\ runStep[r] = "begun"
  /\ applying[r] \in BadFiles \cup versions
  /\ ~Waits(r)
  /\ Stop(r)
  /\ UNCHANGED <<schema, versions, kills>>

(* The primary key of schema_migrations.                                    *)
InsertVersion(r) ==
  /\ runStep[r] = "applied"
  /\ \A s \in Runners \ {r} : ~(applying[s] = applying[r] /\ runStep[s] = "recorded")
  /\ IF applying[r] \in versions THEN Stop(r)
     ELSE To(r, "recorded") /\ UNCHANGED <<pending, applying, open>>
  /\ versions' = IF open[r] THEN versions ELSE versions \cup {applying[r]}
  /\ UNCHANGED <<schema, kills>>

CommitFile(r) ==
  /\ runStep[r] = "recorded"
  /\ IF open[r] THEN /\ schema' = Append(schema, applying[r])
                     /\ versions' = versions \cup {applying[r]}
     ELSE UNCHANGED <<schema, versions>>
  /\ pending' = [pending EXCEPT ![r] = @ \ {applying[r]}]
  /\ applying' = [applying EXCEPT ![r] = NoFile]
  /\ open' = [open EXCEPT ![r] = FALSE]
  /\ To(r, "next")
  /\ UNCHANGED kills

(* The server rolls back what a lost connection had open.                   *)
KillRunner(r) ==
  /\ runStep[r] \notin {"idle", "stopped"}
  /\ kills < MaxKills /\ kills' = kills + 1
  /\ Stop(r)
  /\ UNCHANGED <<schema, versions>>

Migrate(r) == \/ StartRunner(r) \/ ReadApplied(r) \/ BeginFile(r) \/ NothingPending(r)
              \/ ApplyFile(r) \/ FileFails(r) \/ InsertVersion(r) \/ CommitFile(r)

MigrationsNext == \E r \in Runners : Migrate(r) \/ KillRunner(r)

MigrationsSpec == MigrationsInit /\ [][MigrationsNext]_migrationVars

-----------------------------------------------------------------------------
(* No checkout lacks a file that sorts before one of its own.               *)
Linear == \A r \in Runners : \A f \in CheckoutOf[r], g \in Files : g < f => g \in CheckoutOf[r]

(* "a migration can never be recorded as applied unless it actually was,    *)
(* and vice versa" (migrate.mjs), no file is applied twice, and none before *)
(* an earlier one: although two runners work from the same outstanding      *)
(* files, fail, and are killed between any two statements.                  *)
RecordedIsApplied ==
  /\ versions = {schema[i] : i \in DOMAIN schema}
  /\ \A i, j \in DOMAIN schema : i < j => schema[i] # schema[j] /\ (Linear => schema[i] < schema[j])
=============================================================================
