------------------------------ MODULE SyncRuns ------------------------------
(***************************************************************************)
(* runSync (lib/connectors/sync-runner.ts) over its Supabase store         *)
(* (lib/connectors/supabase-sync-store.ts): workers claim job keys in      *)
(* sync_runs, page through a provider, and share the one sync_cursors row  *)
(* of a (connection, resource).  Workers are the cron route, the Refresh   *)
(* button and the backfill scripts; each call to the store or the provider *)
(* is one step, so they interleave between any two awaits.                 *)
(*                                                                         *)
(* Time is the age of a row's started_at, which saturates one past the     *)
(* stale limit.  All jobs here are of one resource on one connection:      *)
(* other resources touch other cursor rows.                                *)
(***************************************************************************)
EXTENDS Integers, Sequences

CONSTANTS
  Workers,      \* processes that may be inside runSync at the same time
  JobKeys,      \* e.g. xero:invoices:2026-06-30, xero:invoices:manual_...
  Records,      \* external ids the provider can return
  Listing,      \* Listing[j]: the SyncPages the provider has for job j
  Endless,      \* jobs whose provider may name a next page for ever
  MaxPages,     \* job.maxPages
  StaleAfter,   \* STALE_RUN_MS in clock ticks
  MaxAttempts,  \* bound: how often one job key is claimed
  BoundedRuns,  \* TRUE: a run ends, or is killed, before its row goes stale
  FailPoints,   \* control points inside the try where a call may throw
  CrashPoints   \* control points where the worker may be lost

Statuses == {"absent", "queued", "running", "succeeded", "failed", "cancelled"}
InTry == {"importing", "advancing", "completing", "recording"}
Working == InTry \cup {"claimed", "started", "failing"}
Active == Working \cup {"recordingFailure"}
ControlPoints == Active \cup {"idle", "contending"}

SyncPages == [records : SUBSET Records, watermark : Nat]

ASSUME ListingAssumption == Listing \in [JobKeys -> Seq(SyncPages)]
ASSUME EndlessAssumption == Endless \subseteq JobKeys
ASSUME BoundsAssumption  == /\ MaxPages \in Nat \ {0}
                            /\ StaleAfter \in Nat
                            /\ MaxAttempts \in Nat \ {0}
ASSUME FaultsAssumption  == /\ BoundedRuns \in BOOLEAN
                            /\ FailPoints \subseteq InTry
                            /\ CrashPoints \subseteq Active

NoRow == 0            \* attempt_count of a job key with no sync_runs row
NotStarted == -1      \* started_at is null
NoCursor == 0         \* cursor_value is null: read from the first page
NoWatermark == 0      \* watermark_at is null

VARIABLES
  status, attemptCount, startedAge,  \* sync_runs, by job key
  cursor,       \* the sync_cursors row: [value, watermark]
  connection,   \* integration_connections: [hasSuccess, lastAttempt]
  imported,     \* external ids upserted so far
  everSucceeded,\* history: job keys some run has completed
  pc, job, attempt, at, pages, high  \* each worker's locals

rowVars == <<status, attemptCount, startedAge>>
sharedVars == <<cursor, connection, imported>>
localVars == <<job, attempt, at, pages, high>>
vars == <<rowVars, sharedVars, everSucceeded, pc, localVars>>

TypeOK ==
  /\ status \in [JobKeys -> Statuses]
  /\ attemptCount \in [JobKeys -> Nat]
  /\ startedAge \in [JobKeys -> NotStarted .. StaleAfter + 1]
  /\ cursor \in [value : Nat, watermark : Nat]
  /\ connection \in [hasSuccess : BOOLEAN, lastAttempt : {"none", "succeeded", "failed"}]
  /\ imported \subseteq Records
  /\ everSucceeded \subseteq JobKeys
  /\ pc \in [Workers -> ControlPoints]
  /\ job \in [Workers -> JobKeys]
  /\ attempt \in [Workers -> Nat]
  /\ at \in [Workers -> Nat]
  /\ pages \in [Workers -> Nat]
  /\ high \in [Workers -> Nat]

Init ==
  /\ status = [j \in JobKeys |-> "absent"]
  /\ attemptCount = [j \in JobKeys |-> NoRow]
  /\ startedAge = [j \in JobKeys |-> NotStarted]
  /\ cursor = [value |-> NoCursor, watermark |-> NoWatermark]
  /\ connection = [hasSuccess |-> FALSE, lastAttempt |-> "none"]
  /\ imported = {}
  /\ everSucceeded = {}
  /\ pc = [w \in Workers |-> "idle"]
  /\ job \in [Workers -> JobKeys]
  /\ attempt = [w \in Workers |-> NoRow]
  /\ at = [w \in Workers |-> NoCursor]
  /\ pages = [w \in Workers |-> 0]
  /\ high = [w \in Workers |-> NoWatermark]

-----------------------------------------------------------------------------
(* What the provider answers.  A cursor past the end reads an empty page.   *)

Position(c) == IF c = NoCursor THEN 1 ELSE c

PageAt(j, c) == IF Position(c) \in DOMAIN Listing[j]
                  THEN Listing[j][Position(c)]
                  ELSE [records |-> {}, watermark |-> NoWatermark]

(* Faulty: takes the page before the last for the last.                     *)
NextCursorsOffByOne(j, c) ==
  IF Position(c) + 1 < Len(Listing[j]) THEN {Position(c) + 1}
  ELSE {NoCursor} \cup {d \in {Position(c)} : j \in Endless}

(* The nextCursor a page may come with.                                     *)
NextCursors(j, c) ==
  IF Position(c) < Len(Listing[j]) THEN {Position(c) + 1}
  ELSE {NoCursor} \cup {d \in {Position(c)} : j \in Endless}

MaxIso(current, candidate) == IF candidate > current THEN candidate ELSE current

(* Everything the provider lists for the job.                               *)
Window(j) == UNION {Listing[j][p].records : p \in DOMAIN Listing[j]}

-----------------------------------------------------------------------------
(* claimRun.                                                                *)

IsStale(j) == startedAge[j] > StaleAfter

(* Faulty: takes over a run that is in progress.                            *)
ReclaimableInProgress(j) == status[j] \in {"failed", "cancelled", "queued", "running"}

(* Faulty: claims a job key that already succeeded.                         *)
ReclaimableSucceeded(j) == \/ status[j] \in {"failed", "cancelled", "succeeded"}
                           \/ status[j] \in {"queued", "running"} /\ IsStale(j)

Reclaimable(j) == \/ status[j] \in {"failed", "cancelled"}
                  \/ /\ status[j] \in {"queued", "running"}
                     /\ IsStale(j)

(* The insert succeeds: this job key has never been claimed.                *)
ClaimNew(w, j) ==
  /\ pc[w] = "idle"
  /\ status[j] = "absent"
  /\ status' = [status EXCEPT ![j] = "queued"]
  /\ attemptCount' = [attemptCount EXCEPT ![j] = 1]
  /\ pc' = [pc EXCEPT ![w] = "claimed"]
  /\ job' = [job EXCEPT ![w] = j]
  /\ attempt' = [attempt EXCEPT ![w] = 1]
  /\ UNCHANGED <<startedAge, sharedVars, everSucceeded, at, pages, high>>

(* The insert hits the unique job key and the row read back is reclaimable. *)
(* A row that is not makes claimRun return null, which changes nothing.     *)
SelectTaken(w, j) ==
  /\ pc[w] = "idle"
  /\ Reclaimable(j)
  /\ attemptCount[j] < MaxAttempts
  /\ pc' = [pc EXCEPT ![w] = "contending"]
  /\ job' = [job EXCEPT ![w] = j]
  /\ attempt' = [attempt EXCEPT ![w] = attemptCount[j]]
  /\ UNCHANGED <<rowVars, sharedVars, everSucceeded, at, pages, high>>

(* Faulty: claims without comparing the attempt_count it read.              *)
ClaimTakenUnchecked(w) ==
  LET j == job[w] IN
  /\ pc[w] = "contending"
  /\ status' = [status EXCEPT ![j] = "queued"]
  /\ attemptCount' = [attemptCount EXCEPT ![j] = attempt[w] + 1]
  /\ startedAge' = [startedAge EXCEPT ![j] = NotStarted]
  /\ pc' = [pc EXCEPT ![w] = "claimed"]
  /\ attempt' = [attempt EXCEPT ![w] = attempt[w] + 1]
  /\ UNCHANGED <<sharedVars, everSucceeded, job, at, pages, high>>

(* The compare-and-set on attempt_count.  Only the count is compared: the   *)
(* status may have moved since the row was read.                            *)
ClaimTaken(w) ==
  LET j == job[w] IN
  /\ pc[w] = "contending"
  /\ attemptCount[j] = attempt[w]
  /\ status' = [status EXCEPT ![j] = "queued"]
  /\ attemptCount' = [attemptCount EXCEPT ![j] = attempt[w] + 1]
  /\ startedAge' = [startedAge EXCEPT ![j] = NotStarted]
  /\ pc' = [pc EXCEPT ![w] = "claimed"]
  /\ attempt' = [attempt EXCEPT ![w] = attempt[w] + 1]
  /\ UNCHANGED <<sharedVars, everSucceeded, job, at, pages, high>>

(* Another worker claimed the row first: the update touches no rows.        *)
ClaimLost(w) ==
  /\ pc[w] = "contending"
  /\ attemptCount[job[w]] # attempt[w]
  /\ pc' = [pc EXCEPT ![w] = "idle"]
  /\ UNCHANGED <<rowVars, sharedVars, everSucceeded, localVars>>

-----------------------------------------------------------------------------
(* runSync after the claim.  A call inside the try that throws hands over   *)
(* to the catch block, and so does a write whose answer is lost after it    *)
(* was applied.                                                             *)

Answered(w, next) ==
  \E p \in {next} \cup (IF pc[w] \in FailPoints THEN {"failing"} ELSE {}) :
    pc' = [pc EXCEPT ![w] = p]

CallFails(w) ==
  /\ pc[w] \in FailPoints
  /\ pc' = [pc EXCEPT ![w] = "failing"]
  /\ UNCHANGED <<rowVars, sharedVars, everSucceeded, localVars>>

(* Faulty: writes a status the enum does not have.                          *)
MarkStarted(w) ==
  /\ pc[w] = "claimed"
  /\ status' = [status EXCEPT ![job[w]] = "started"]
  /\ startedAge' = [startedAge EXCEPT ![job[w]] = 0]
  /\ pc' = [pc EXCEPT ![w] = "started"]
  /\ UNCHANGED <<attemptCount, sharedVars, everSucceeded, localVars>>

(* Faulty: forgets started_at.                                              *)
MarkRunningUndated(w) ==
  /\ pc[w] = "claimed"
  /\ status' = [status EXCEPT ![job[w]] = "running"]
  /\ pc' = [pc EXCEPT ![w] = "started"]
  /\ UNCHANGED <<attemptCount, startedAge, sharedVars, everSucceeded, localVars>>

MarkRunning(w) ==
  /\ pc[w] = "claimed"
  /\ status' = [status EXCEPT ![job[w]] = "running"]
  /\ startedAge' = [startedAge EXCEPT ![job[w]] = 0]
  /\ pc' = [pc EXCEPT ![w] = "started"]
  /\ UNCHANGED <<attemptCount, sharedVars, everSucceeded, localVars>>

GetCursor(w) ==
  /\ pc[w] = "started"
  /\ at' = [at EXCEPT ![w] = cursor.value]
  /\ pages' = [pages EXCEPT ![w] = 0]
  /\ high' = [high EXCEPT ![w] = NoWatermark]
  /\ pc' = [pc EXCEPT ![w] = "importing"]
  /\ UNCHANGED <<rowVars, sharedVars, everSucceeded, job, attempt>>

(* Faulty: counts the pages anew on every turn of the loop.                 *)
ImportPageUncounted(w) ==
  LET page == PageAt(job[w], at[w]) IN
  /\ pc[w] = "importing"
  /\ imported' = imported \cup page.records
  /\ pages' = [pages EXCEPT ![w] = 1]
  /\ high' = [high EXCEPT ![w] = MaxIso(@, page.watermark)]
  /\ \E next \in NextCursors(job[w], at[w]) : at' = [at EXCEPT ![w] = next]
  /\ pc' = [pc EXCEPT ![w] = "advancing"]
  /\ UNCHANGED <<rowVars, cursor, connection, everSucceeded, job, attempt>>

(* fetchPage and the upsert of what it returned.                            *)
ImportPage(w) ==
  LET page == PageAt(job[w], at[w]) IN
  /\ pc[w] = "importing"
  /\ imported' = imported \cup page.records
  /\ pages' = [pages EXCEPT ![w] = @ + 1]
  /\ high' = [high EXCEPT ![w] = MaxIso(@, page.watermark)]
  /\ \E next \in NextCursors(job[w], at[w]) : at' = [at EXCEPT ![w] = next]
  /\ pc' = [pc EXCEPT ![w] = "advancing"]
  /\ UNCHANGED <<rowVars, cursor, connection, everSucceeded, job, attempt>>

(* Faulty: swallows the error of the upsert and moves on.                   *)
ImportFailsSilently(w) ==
  /\ pc[w] = "importing"
  /\ \E landed \in SUBSET PageAt(job[w], at[w]).records :
       imported' = imported \cup landed
  /\ \E next \in NextCursors(job[w], at[w]) : at' = [at EXCEPT ![w] = next]
  /\ pc' = [pc EXCEPT ![w] = "advancing"]
  /\ UNCHANGED <<rowVars, cursor, connection, everSucceeded, job, attempt, pages, high>>

(* A page is written in several statements: some land before one throws.    *)
ImportFails(w) ==
  /\ pc[w] = "importing"
  /\ pc[w] \in FailPoints
  /\ \E landed \in SUBSET PageAt(job[w], at[w]).records :
       imported' = imported \cup landed
  /\ pc' = [pc EXCEPT ![w] = "failing"]
  /\ UNCHANGED <<rowVars, cursor, connection, everSucceeded, localVars>>

(* setCursor, then the maxPages safety valve and the loop condition.        *)
SetCursor(w) ==
  /\ pc[w] = "advancing"
  /\ cursor' = [value |-> at[w], watermark |-> high[w]]
  /\ Answered(w, IF at[w] = NoCursor THEN "completing"
                 ELSE IF pages[w] >= MaxPages THEN "failing" ELSE "importing")
  /\ UNCHANGED <<rowVars, connection, imported, everSucceeded, localVars>>

(* completeRun updates the row by id, whoever holds it by now.              *)
CompleteRun(w) ==
  /\ pc[w] = "completing"
  /\ status' = [status EXCEPT ![job[w]] = "succeeded"]
  /\ everSucceeded' = everSucceeded \cup {job[w]}
  /\ Answered(w, "recording")
  /\ UNCHANGED <<attemptCount, startedAge, sharedVars, localVars>>

RecordSuccess(w) ==
  /\ pc[w] = "recording"
  /\ connection' = [hasSuccess |-> TRUE, lastAttempt |-> "succeeded"]
  /\ Answered(w, "idle")
  /\ UNCHANGED <<rowVars, cursor, imported, everSucceeded, localVars>>

(* The catch block: failRun by id, then the connection's attempt.           *)
FailRun(w) ==
  /\ pc[w] = "failing"
  /\ status' = [status EXCEPT ![job[w]] = "failed"]
  /\ pc' = [pc EXCEPT ![w] = "recordingFailure"]
  /\ UNCHANGED <<attemptCount, startedAge, sharedVars, everSucceeded, localVars>>

RecordFailure(w) ==
  /\ pc[w] = "recordingFailure"
  /\ connection' = [connection EXCEPT !.lastAttempt = "failed"]
  /\ pc' = [pc EXCEPT ![w] = "idle"]
  /\ UNCHANGED <<rowVars, cursor, imported, everSucceeded, localVars>>

(* The worker is gone: its process was killed (the route has 300 seconds),  *)
(* or a call outside the try threw out of runSync.                          *)
Abandon(w) ==
  /\ pc[w] \in CrashPoints
  /\ pc' = [pc EXCEPT ![w] = "idle"]
  /\ UNCHANGED <<rowVars, sharedVars, everSucceeded, localVars>>

(* Time passes for every started row.                                       *)
Tick ==
  /\ BoundedRuns => \A w \in Workers :
                      pc[w] \in Active => startedAge[job[w]] < StaleAfter
  /\ startedAge' = [j \in JobKeys |->
                      IF startedAge[j] \in 0 .. StaleAfter
                        THEN startedAge[j] + 1 ELSE startedAge[j]]
  /\ UNCHANGED <<status, attemptCount, sharedVars, everSucceeded, pc, localVars>>

-----------------------------------------------------------------------------
Claim(w) == \/ \E j \in JobKeys : ClaimNew(w, j) \/ SelectTaken(w, j)
            \/ ClaimTaken(w)
            \/ ClaimLost(w)

RunOn(w) == \/ MarkRunning(w) \/ GetCursor(w)
            \/ ImportPage(w) \/ ImportFails(w) \/ SetCursor(w)
            \/ CompleteRun(w) \/ RecordSuccess(w)
            \/ CallFails(w) \/ FailRun(w) \/ RecordFailure(w)

Next == \/ \E w \in Workers : Claim(w) \/ RunOn(w) \/ Abandon(w)
        \/ Tick

Spec == Init /\ [][Next]_vars

(* A live worker's next await settles, a claim that was begun is finished   *)
(* and clocks advance.  Nothing promises that a job key is claimed again.   *)
FairSpec == /\ Spec
            /\ \A w \in Workers : WF_vars(RunOn(w))
            /\ \A w \in Workers : WF_vars(ClaimTaken(w) \/ ClaimLost(w))
            /\ WF_vars(Tick)
-----------------------------------------------------------------------------
(* Properties.                                                              *)

Holds(w, j) == pc[w] \in Active /\ job[w] = j

(* "Exactly one worker wins": two live workers never hold the same attempt  *)
(* of a job key, however the insert, the select and the compare-and-set of  *)
(* claimRun interleave, and even after a takeover of a live but stale run.  *)
OneWinnerPerAttempt ==
  \A v, w \in Workers :
    v # w /\ pc[v] \in Active /\ pc[w] \in Active /\ job[v] = job[w]
      => attempt[v] # attempt[w]

(* "Another worker is running it right now" is refused: if runs end within  *)
(* the stale limit, at most one worker is between its claim and the write   *)
(* that ends its run.                                                       *)
OneRunAtATime ==
  BoundedRuns => \A v, w \in Workers :
    pc[v] \in Working /\ pc[w] \in Working /\ job[v] = job[w] => v = w

(* "An interrupted run resumes from the last completed page instead of      *)
(* restarting or skipping records": a run that completes has imported every *)
(* record its provider listed for it, across crashes, retries and the pages *)
(* other workers wrote.                                                     *)
SucceededImportedItsWindow ==
  \A j \in everSucceeded : Window(j) \subseteq imported

(* The same for the cursor itself: every page before the one it points at   *)
(* has been written, so resuming from it loses nothing of that listing.     *)
CursorSkipsNothing ==
  \A j \in JobKeys : \A p \in DOMAIN Listing[j] :
    p < cursor.value => Listing[j][p].records \subseteq imported

(* claimRun "returns null when a run for this key already succeeded": while *)
(* a row says succeeded, nobody starts another run of its job key, not even *)
(* a worker that read the row before it said so (the claim compares the     *)
(* count alone).  Holds when runs end within the stale limit.               *)
SucceededNeverRunsAgain ==
  [][\A j \in JobKeys : status[j] = "succeeded" => attemptCount'[j] = attemptCount[j]]_vars

(* Every run that starts ends, also against a provider that never stops     *)
(* naming a next page: the maxPages valve closes the loop.                  *)
EveryRunEnds ==
  \A w \in Workers : pc[w] \in Active ~> pc[w] = "idle"

Abandoned(j, S) == status[j] \in S /\ \A w \in Workers : ~Holds(w, j)

(* A worker that dies mid-run leaves its row in `running`; after the stale  *)
(* limit the job key can be claimed again.                                  *)
AbandonedRunningIsReclaimable ==
  \A j \in JobKeys :
    Abandoned(j, {"running"}) ~> (Reclaimable(j) \/ status[j] = "succeeded")

(* The same promise for a worker that dies between claimRun and             *)
(* markRunning: "without a timeout that job key could never be synced       *)
(* again" (supabase-sync-store.ts, STALE_RUN_MS).                           *)
AbandonedQueuedIsReclaimable ==
  \A j \in JobKeys :
    Abandoned(j, {"queued"}) ~> (Reclaimable(j) \/ status[j] = "succeeded")

(* What the runs promise their callers (ImportService): a job key whose row *)
(* says succeeded has its whole window in the database and is not started   *)
(* again, whatever throws and wherever a worker dies; what undoes it is a   *)
(* throw once the run is complete, which turns its row to failed.  Holds    *)
(* when runs end within the stale limit and the jobs of the resource all    *)
(* list the same pages.                                                     *)
Succeeded == {j \in JobKeys : status[j] = "succeeded"}

Service == INSTANCE ImportService
             WITH starts <- attemptCount, landed <- imported, done <- Succeeded

ImplementsImportService == Service!ServiceSpec
=============================================================================
