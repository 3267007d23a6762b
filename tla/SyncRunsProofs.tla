--------------------------- MODULE SyncRunsProofs ---------------------------
(* Theorems about SyncRuns, for every number of workers, job keys, pages,   *)
(* retries and records.                                                     *)
EXTENDS SyncRuns, TLAPS

-----------------------------------------------------------------------------
(* Facts about one answer of the provider.                                  *)

LEMMA PageAtType ==
  ASSUME NEW j \in JobKeys, NEW c \in Nat
  PROVE  /\ PageAt(j, c).records \in SUBSET Records
         /\ PageAt(j, c).watermark \in Nat
         /\ NextCursors(j, c) \subseteq Nat
<1>1. Listing[j] \in Seq(SyncPages)
  BY ListingAssumption
<1>2. Position(c) \in Nat \ {0}
  BY DEF Position, NoCursor
<1>3. CASE Position(c) \in DOMAIN Listing[j]
  <2>1. Listing[j][Position(c)] \in SyncPages
    BY <1>1, <1>3
  <2>2. PageAt(j, c) = Listing[j][Position(c)]
    BY <1>3 DEF PageAt
  <2>3. PageAt(j, c).records \in SUBSET Records /\ PageAt(j, c).watermark \in Nat
    BY <2>1, <2>2 DEF SyncPages
  <2>4. NextCursors(j, c) \subseteq Nat
    BY <1>2 DEF NextCursors, NoCursor
  <2>5. QED BY <2>3, <2>4
<1>4. CASE Position(c) \notin DOMAIN Listing[j]
  BY <1>2, <1>4 DEF PageAt, NextCursors, NoCursor, NoWatermark
<1>5. QED BY <1>3, <1>4

LEMMA WindowInRecords ==
  ASSUME NEW j \in JobKeys
  PROVE  Window(j) \subseteq Records
<1>1. Listing[j] \in Seq(SyncPages)
  BY ListingAssumption
<1>2. ASSUME NEW p \in DOMAIN Listing[j]
      PROVE  Listing[j][p].records \subseteq Records
  <2>1. Listing[j][p] \in SyncPages
    BY <1>1
  <2>2. QED BY <2>1 DEF SyncPages
<1>3. QED BY <1>2 DEF Window

-----------------------------------------------------------------------------
(* Type correctness.                                                        *)

LEMMA AnsweredType ==
  ASSUME TypeOK, NEW w \in Workers, NEW next \in ControlPoints, Answered(w, next)
  PROVE  /\ pc' \in [Workers -> ControlPoints]
         /\ pc'[w] \in {next, "failing"}
         /\ pc'[w] # next => pc[w] \in FailPoints
         /\ \A v \in Workers : v # w => pc'[v] = pc[v]
BY DEF Answered, TypeOK, ControlPoints, Active, Working, InTry

LEMMA TypeInit == Init => TypeOK
BY BoundsAssumption DEF Init, TypeOK, Statuses, ControlPoints, NotStarted, NoRow, NoCursor, NoWatermark

LEMMA TypeStep == TypeOK /\ [Next]_vars => TypeOK'
<1> SUFFICES ASSUME TypeOK, [Next]_vars PROVE TypeOK'
  OBVIOUS
<1> USE DEF TypeOK
<1> USE BoundsAssumption
<1>1. ASSUME NEW w \in Workers, NEW j \in JobKeys, ClaimNew(w, j) PROVE TypeOK'
  BY <1>1 DEF ClaimNew, sharedVars, Statuses, ControlPoints, Active, Working
<1>2. ASSUME NEW w \in Workers, NEW j \in JobKeys, SelectTaken(w, j) PROVE TypeOK'
  BY <1>2 DEF SelectTaken, rowVars, sharedVars, ControlPoints
<1>3. ASSUME NEW w \in Workers, ClaimTaken(w) PROVE TypeOK'
  BY <1>3 DEF ClaimTaken, sharedVars, Statuses, ControlPoints, Active, Working, NotStarted
<1>4. ASSUME NEW w \in Workers, ClaimLost(w) PROVE TypeOK'
  BY <1>4 DEF ClaimLost, rowVars, sharedVars, localVars, ControlPoints
<1>5. ASSUME NEW w \in Workers, CallFails(w) PROVE TypeOK'
  BY <1>5 DEF CallFails, rowVars, sharedVars, localVars, ControlPoints, Active, Working
<1>6. ASSUME NEW w \in Workers, MarkRunning(w) PROVE TypeOK'
  BY <1>6 DEF MarkRunning, sharedVars, localVars, Statuses, ControlPoints, Active, Working, NotStarted
<1>7. ASSUME NEW w \in Workers, GetCursor(w) PROVE TypeOK'
  BY <1>7 DEF GetCursor, rowVars, sharedVars, ControlPoints, Active, Working, InTry, NoWatermark
<1>8. ASSUME NEW w \in Workers, ImportPage(w) PROVE TypeOK'
  <2>1. /\ PageAt(job[w], at[w]).records \in SUBSET Records
        /\ PageAt(job[w], at[w]).watermark \in Nat
        /\ NextCursors(job[w], at[w]) \subseteq Nat
    BY PageAtType
  <2>2. MaxIso(high[w], PageAt(job[w], at[w]).watermark) \in Nat
    BY <2>1 DEF MaxIso
  <2>3. imported' \subseteq Records /\ at' \in [Workers -> Nat] /\ high' \in [Workers -> Nat]
    BY <1>8, <2>1, <2>2 DEF ImportPage
  <2>4. pages' \in [Workers -> Nat] /\ pc' \in [Workers -> ControlPoints]
    BY <1>8 DEF ImportPage, ControlPoints, Active, Working, InTry
  <2>5. QED
    BY <1>8, <2>3, <2>4 DEF ImportPage, rowVars
<1>9. ASSUME NEW w \in Workers, ImportFails(w) PROVE TypeOK'
  <2>1. PageAt(job[w], at[w]).records \in SUBSET Records
    BY PageAtType
  <2>2. QED
    BY <1>9, <2>1 DEF ImportFails, rowVars, localVars, ControlPoints, Active, Working
<1>10. ASSUME NEW w \in Workers, SetCursor(w) PROVE TypeOK'
  <2>1. pc' \in [Workers -> ControlPoints]
    BY <1>10, AnsweredType DEF SetCursor, ControlPoints, Active, Working, InTry
  <2>2. QED
    BY <1>10, <2>1 DEF SetCursor, rowVars, localVars
<1>11. ASSUME NEW w \in Workers, CompleteRun(w) PROVE TypeOK'
  <2>1. pc' \in [Workers -> ControlPoints]
    BY <1>11, AnsweredType DEF CompleteRun, ControlPoints, Active, Working, InTry
  <2>2. QED
    BY <1>11, <2>1 DEF CompleteRun, sharedVars, localVars, Statuses
<1>12. ASSUME NEW w \in Workers, RecordSuccess(w) PROVE TypeOK'
  <2>1. pc' \in [Workers -> ControlPoints]
    BY <1>12, AnsweredType DEF RecordSuccess, ControlPoints
  <2>2. QED
    BY <1>12, <2>1 DEF RecordSuccess, rowVars, localVars
<1>13. ASSUME NEW w \in Workers, FailRun(w) PROVE TypeOK'
  BY <1>13 DEF FailRun, sharedVars, localVars, Statuses, ControlPoints, Active
<1>14. ASSUME NEW w \in Workers, RecordFailure(w) PROVE TypeOK'
  BY <1>14 DEF RecordFailure, rowVars, localVars, ControlPoints
<1>15. ASSUME NEW w \in Workers, Abandon(w) PROVE TypeOK'
  BY <1>15 DEF Abandon, rowVars, sharedVars, localVars, ControlPoints
<1>16. CASE Tick
  BY <1>16 DEF Tick, sharedVars, localVars, NotStarted
<1>17. CASE UNCHANGED vars
  BY <1>17 DEF vars, rowVars, sharedVars, localVars
<1>18. QED
  BY <1>1, <1>2, <1>3, <1>4, <1>5, <1>6, <1>7, <1>8, <1>9, <1>10, <1>11,
     <1>12, <1>13, <1>14, <1>15, <1>16, <1>17 DEF Next, Claim, RunOn

(* Every reachable state of the sync runs is well typed.                    *)
THEOREM TypeCorrect == Spec => []TypeOK
<1>1. QED BY TypeInit, TypeStep, PTL DEF Spec

-----------------------------------------------------------------------------
(* One winner per attempt.  The compare-and-set keeps the row's count at or *)
(* above every attempt a worker holds or has read, so a winning claim takes *)
(* a number nobody else can have.                                           *)

AttemptsBelowRow ==
  \A w \in Workers : pc[w] \in Active \cup {"contending"} =>
    attempt[w] <= attemptCount[job[w]]

AbsentUnclaimed == \A j \in JobKeys : status[j] = "absent" => attemptCount[j] = 0

ClaimInv == TypeOK /\ AttemptsBelowRow /\ AbsentUnclaimed /\ OneWinnerPerAttempt

LEMMA ClaimInit == Init => ClaimInv
BY TypeInit DEF Init, ClaimInv, AttemptsBelowRow, AbsentUnclaimed, OneWinnerPerAttempt,
     NoRow, Active, Working, InTry

(* Steps that claim nothing leave every attempt as it is and make no worker *)
(* active.                                                                  *)
LEMMA ClaimQuiet ==
  ASSUME ClaimInv, TypeOK',
         UNCHANGED <<attemptCount, job, attempt>>,
         \A j \in JobKeys : status'[j] = "absent" => status[j] = "absent",
         \A w \in Workers : pc'[w] \in Active => pc[w] \in Active,
         \A w \in Workers : pc'[w] = "contending" => pc[w] = "contending"
  PROVE  ClaimInv'
BY DEF ClaimInv, AttemptsBelowRow, AbsentUnclaimed, OneWinnerPerAttempt

LEMMA ClaimStep == ClaimInv /\ [Next]_vars => ClaimInv'
<1> SUFFICES ASSUME ClaimInv, [Next]_vars PROVE ClaimInv'
  OBVIOUS
<1>t. TypeOK /\ TypeOK'
  BY TypeStep DEF ClaimInv
<1>1. ASSUME NEW w \in Workers, NEW j \in JobKeys, ClaimNew(w, j) PROVE ClaimInv'
  <2>1. attemptCount[j] = 0 /\ attemptCount' = [attemptCount EXCEPT ![j] = 1]
    BY <1>1 DEF ClaimNew, ClaimInv, AbsentUnclaimed
  <2>2. /\ pc' = [pc EXCEPT ![w] = "claimed"]
        /\ job' = [job EXCEPT ![w] = j]
        /\ attempt' = [attempt EXCEPT ![w] = 1]
        /\ status' = [status EXCEPT ![j] = "queued"]
    BY <1>1 DEF ClaimNew
  <2>3. AttemptsBelowRow'
    BY <1>t, <2>1, <2>2 DEF ClaimInv, AttemptsBelowRow, TypeOK
  <2>4. AbsentUnclaimed'
    BY <1>t, <2>1, <2>2 DEF ClaimInv, AbsentUnclaimed, TypeOK
  <2>5. OneWinnerPerAttempt'
    BY <1>t, <2>1, <2>2 DEF ClaimInv, AttemptsBelowRow, OneWinnerPerAttempt, TypeOK
  <2>6. QED BY <1>t, <2>3, <2>4, <2>5 DEF ClaimInv
<1>2. ASSUME NEW w \in Workers, NEW j \in JobKeys, SelectTaken(w, j) PROVE ClaimInv'
  <2>1. /\ pc' = [pc EXCEPT ![w] = "contending"]
        /\ job' = [job EXCEPT ![w] = j]
        /\ attempt' = [attempt EXCEPT ![w] = attemptCount[j]]
        /\ UNCHANGED rowVars
    BY <1>2 DEF SelectTaken
  <2>2. AttemptsBelowRow'
    BY <1>t, <2>1 DEF ClaimInv, AttemptsBelowRow, TypeOK, rowVars, Active, Working, InTry
  <2>3. AbsentUnclaimed'
    BY <2>1 DEF ClaimInv, AbsentUnclaimed, rowVars
  <2>4. OneWinnerPerAttempt'
    BY <1>t, <2>1 DEF ClaimInv, OneWinnerPerAttempt, TypeOK, Active, Working, InTry
  <2>5. QED BY <1>t, <2>2, <2>3, <2>4 DEF ClaimInv
<1>3. ASSUME NEW w \in Workers, ClaimTaken(w) PROVE ClaimInv'
  <2>1. /\ pc[w] = "contending"
        /\ attemptCount[job[w]] = attempt[w]
        /\ status' = [status EXCEPT ![job[w]] = "queued"]
        /\ attemptCount' = [attemptCount EXCEPT ![job[w]] = attempt[w] + 1]
        /\ pc' = [pc EXCEPT ![w] = "claimed"]
        /\ attempt' = [attempt EXCEPT ![w] = attempt[w] + 1]
        /\ job' = job
    BY <1>3 DEF ClaimTaken
  <2>2. AttemptsBelowRow'
    BY <1>t, <2>1 DEF ClaimInv, AttemptsBelowRow, TypeOK
  <2>3. AbsentUnclaimed'
    BY <1>t, <2>1 DEF ClaimInv, AbsentUnclaimed, TypeOK
  <2>4. OneWinnerPerAttempt'
    BY <1>t, <2>1 DEF ClaimInv, AttemptsBelowRow, OneWinnerPerAttempt, TypeOK
  <2>5. QED BY <1>t, <2>2, <2>3, <2>4 DEF ClaimInv
<1>4. ASSUME NEW w \in Workers, ClaimLost(w) PROVE ClaimInv'
  BY <1>t, <1>4, ClaimQuiet DEF ClaimLost, rowVars, localVars, TypeOK, Active, Working, InTry
<1>5. ASSUME NEW w \in Workers, CallFails(w) PROVE ClaimInv'
  BY <1>t, <1>5, ClaimQuiet, FaultsAssumption DEF CallFails, rowVars, localVars, TypeOK, Active, Working, InTry
<1>6. ASSUME NEW w \in Workers, MarkRunning(w) PROVE ClaimInv'
  BY <1>t, <1>6, ClaimQuiet DEF MarkRunning, localVars, TypeOK, Active, Working, InTry
<1>7. ASSUME NEW w \in Workers, GetCursor(w) PROVE ClaimInv'
  BY <1>t, <1>7, ClaimQuiet DEF GetCursor, rowVars, TypeOK, Active, Working, InTry
<1>8. ASSUME NEW w \in Workers, ImportPage(w) PROVE ClaimInv'
  BY <1>t, <1>8, ClaimQuiet DEF ImportPage, rowVars, TypeOK, Active, Working, InTry
<1>9. ASSUME NEW w \in Workers, ImportFails(w) PROVE ClaimInv'
  BY <1>t, <1>9, ClaimQuiet DEF ImportFails, rowVars, localVars, TypeOK, Active, Working, InTry
<1>10. ASSUME NEW w \in Workers, SetCursor(w) PROVE ClaimInv'
  BY <1>t, <1>10, ClaimQuiet DEF SetCursor, Answered, rowVars, localVars, TypeOK, Active, Working, InTry
<1>11. ASSUME NEW w \in Workers, CompleteRun(w) PROVE ClaimInv'
  BY <1>t, <1>11, ClaimQuiet DEF CompleteRun, Answered, localVars, TypeOK, Active, Working, InTry
<1>12. ASSUME NEW w \in Workers, RecordSuccess(w) PROVE ClaimInv'
  BY <1>t, <1>12, ClaimQuiet DEF RecordSuccess, Answered, rowVars, localVars, TypeOK, Active, Working, InTry
<1>13. ASSUME NEW w \in Workers, FailRun(w) PROVE ClaimInv'
  BY <1>t, <1>13, ClaimQuiet DEF FailRun, localVars, TypeOK, Active, Working, InTry
<1>14. ASSUME NEW w \in Workers, RecordFailure(w) PROVE ClaimInv'
  BY <1>t, <1>14, ClaimQuiet DEF RecordFailure, rowVars, localVars, TypeOK, Active, Working, InTry
<1>15. ASSUME NEW w \in Workers, Abandon(w) PROVE ClaimInv'
  BY <1>t, <1>15, ClaimQuiet DEF Abandon, rowVars, localVars, TypeOK, Active, Working, InTry
<1>16. CASE Tick
  BY <1>t, <1>16, ClaimQuiet DEF Tick, localVars
<1>17. CASE UNCHANGED vars
  BY <1>t, <1>17, ClaimQuiet DEF vars, rowVars, localVars
<1>18. QED
  BY <1>1, <1>2, <1>3, <1>4, <1>5, <1>6, <1>7, <1>8, <1>9, <1>10, <1>11,
     <1>12, <1>13, <1>14, <1>15, <1>16, <1>17 DEF Next, Claim, RunOn

(* At most one worker ever holds a given attempt of a job key, with any     *)
(* number of workers, any faults and any takeovers of live runs.            *)
THEOREM ClaimIsExclusivePerAttempt == Spec => []OneWinnerPerAttempt
<1>1. ClaimInv => OneWinnerPerAttempt
  BY DEF ClaimInv
<1>2. QED BY ClaimInit, ClaimStep, <1>1, PTL DEF Spec

-----------------------------------------------------------------------------
(* One run at a time.  While runs end within the stale limit, the row of a  *)
(* working worker carries its attempt and cannot be read as reclaimable,    *)
(* and a contender whose count still matches read the row when nobody was   *)
(* working on it.                                                           *)

RowIsHeld ==
  \A w \in Workers : pc[w] \in Working =>
    /\ attempt[w] = attemptCount[job[w]]
    /\ status[job[w]] \in {"queued", "running", "succeeded"}
    /\ ~IsStale(job[w])

ContenderIsLate ==
  \A v, w \in Workers :
    pc[v] = "contending" /\ pc[w] \in Working /\ job[v] = job[w] =>
      attempt[v] # attemptCount[job[v]]

AbsentNotStarted == \A j \in JobKeys : status[j] = "absent" => startedAge[j] = NotStarted

HoldInv == ClaimInv /\ RowIsHeld /\ ContenderIsLate /\ AbsentNotStarted

LEMMA HeldAlone ==
  ASSUME HoldInv
  PROVE  \A v, w \in Workers :
           pc[v] \in Working /\ pc[w] \in Working /\ job[v] = job[w] => v = w
BY DEF HoldInv, ClaimInv, RowIsHeld, OneWinnerPerAttempt, Active

LEMMA HoldInit == Init => HoldInv
BY ClaimInit DEF Init, HoldInv, RowIsHeld, ContenderIsLate, AbsentNotStarted, Working, InTry

LEMMA HoldQuiet ==
  ASSUME HoldInv, ClaimInv',
         UNCHANGED <<rowVars, job, attempt>>,
         \A w \in Workers : pc'[w] \in Working => pc[w] \in Working,
         \A w \in Workers : pc'[w] = "contending" => pc[w] = "contending"
  PROVE  HoldInv'
BY DEF HoldInv, RowIsHeld, ContenderIsLate, AbsentNotStarted, rowVars, IsStale

LEMMA HoldStep ==
  ASSUME BoundedRuns, HoldInv, [Next]_vars
  PROVE  HoldInv'
<1>c. ClaimInv /\ ClaimInv' /\ TypeOK /\ TypeOK'
  BY ClaimStep DEF HoldInv, ClaimInv
<1>a. AbsentNotStarted'
  <2>1. \A j \in JobKeys : status'[j] = "absent" => status[j] = "absent" /\ startedAge'[j] = startedAge[j]
    <3>1. CASE \E w \in Workers : \E j \in JobKeys : ClaimNew(w, j) \/ SelectTaken(w, j)
      BY <1>c, <3>1 DEF ClaimNew, SelectTaken, rowVars, TypeOK
    <3>2. CASE \E w \in Workers : ClaimTaken(w) \/ ClaimLost(w) \/ Abandon(w)
      BY <1>c, <3>2 DEF ClaimTaken, ClaimLost, Abandon, rowVars, TypeOK
    <3>3. CASE \E w \in Workers : RunOn(w)
      BY <1>c, <3>3 DEF RunOn, MarkRunning, GetCursor, ImportPage, ImportFails, SetCursor,
         CompleteRun, RecordSuccess, CallFails, FailRun, RecordFailure, rowVars, TypeOK
    <3>4. CASE Tick
      BY <1>c, <3>4 DEF Tick, HoldInv, AbsentNotStarted, NotStarted
    <3>5. CASE UNCHANGED vars
      BY <3>5 DEF vars, rowVars
    <3>6. QED BY <3>1, <3>2, <3>3, <3>4, <3>5 DEF Next, Claim
  <2>2. QED BY <2>1 DEF HoldInv, AbsentNotStarted
<1>1. ASSUME NEW w \in Workers, NEW j \in JobKeys, ClaimNew(w, j) PROVE HoldInv'
  <2>1. attemptCount[j] = 0 /\ status[j] = "absent"
    BY <1>1, <1>c DEF ClaimNew, ClaimInv, AbsentUnclaimed
  <2>2. /\ pc[w] = "idle"
        /\ status' = [status EXCEPT ![j] = "queued"]
        /\ attemptCount' = [attemptCount EXCEPT ![j] = 1]
        /\ pc' = [pc EXCEPT ![w] = "claimed"]
        /\ job' = [job EXCEPT ![w] = j]
        /\ attempt' = [attempt EXCEPT ![w] = 1]
        /\ startedAge' = startedAge
    BY <1>1 DEF ClaimNew
  <2>3. \A v \in Workers : pc[v] \in Working => job[v] # j
    BY <2>1 DEF HoldInv, RowIsHeld
  <2>4. ~IsStale(j)
    BY <1>1, BoundsAssumption DEF ClaimNew, HoldInv, AbsentNotStarted, IsStale, NotStarted
  <2>5. RowIsHeld'
    BY <1>c, <2>2, <2>3, <2>4 DEF HoldInv, RowIsHeld, TypeOK, IsStale
  <2>6. ContenderIsLate'
    BY <1>c, <2>1, <2>2, <2>3 DEF HoldInv, ContenderIsLate, ClaimInv, AttemptsBelowRow, TypeOK
  <2>7. QED BY <1>a, <1>c, <2>5, <2>6 DEF HoldInv
<1>2. ASSUME NEW w \in Workers, NEW j \in JobKeys, SelectTaken(w, j) PROVE HoldInv'
  <2>1. /\ Reclaimable(j)
        /\ pc' = [pc EXCEPT ![w] = "contending"]
        /\ job' = [job EXCEPT ![w] = j]
        /\ attempt' = [attempt EXCEPT ![w] = attemptCount[j]]
        /\ UNCHANGED rowVars
    BY <1>2 DEF SelectTaken
  <2>2. \A v \in Workers : pc[v] \in Working => job[v] # j
    BY <2>1 DEF Reclaimable, HoldInv, RowIsHeld
  <2>3. RowIsHeld'
    BY <1>c, <2>1 DEF HoldInv, RowIsHeld, TypeOK, rowVars, IsStale, Working, InTry
  <2>4. ContenderIsLate'
    BY <1>c, <2>1, <2>2 DEF HoldInv, ContenderIsLate, TypeOK, rowVars, Working, InTry
  <2>5. QED BY <1>a, <1>c, <2>3, <2>4 DEF HoldInv
<1>3. ASSUME NEW w \in Workers, ClaimTaken(w) PROVE HoldInv'
  <2>1. /\ pc[w] = "contending"
        /\ attemptCount[job[w]] = attempt[w]
        /\ status' = [status EXCEPT ![job[w]] = "queued"]
        /\ attemptCount' = [attemptCount EXCEPT ![job[w]] = attempt[w] + 1]
        /\ startedAge' = [startedAge EXCEPT ![job[w]] = NotStarted]
        /\ pc' = [pc EXCEPT ![w] = "claimed"]
        /\ attempt' = [attempt EXCEPT ![w] = attempt[w] + 1]
        /\ job' = job
    BY <1>3 DEF ClaimTaken
  <2>2. \A v \in Workers : pc[v] \in Working => job[v] # job[w]
    BY <2>1 DEF HoldInv, ContenderIsLate
  <2>3. RowIsHeld'
    BY <1>c, <2>1, <2>2, BoundsAssumption DEF HoldInv, RowIsHeld, TypeOK, IsStale, NotStarted
  <2>4. ContenderIsLate'
    BY <1>c, <2>1, <2>2 DEF HoldInv, ContenderIsLate, ClaimInv, AttemptsBelowRow, TypeOK
  <2>5. QED BY <1>a, <1>c, <2>3, <2>4 DEF HoldInv
<1>4. ASSUME NEW w \in Workers, ClaimLost(w) PROVE HoldInv'
  BY <1>c, <1>4, HoldQuiet DEF ClaimLost, localVars, TypeOK, Working, InTry
<1>5. ASSUME NEW w \in Workers, CallFails(w) PROVE HoldInv'
  BY <1>c, <1>5, HoldQuiet, FaultsAssumption DEF CallFails, localVars, TypeOK, Working, InTry
<1>6. ASSUME NEW w \in Workers, MarkRunning(w) PROVE HoldInv'
  <2>1. /\ pc[w] = "claimed"
        /\ status' = [status EXCEPT ![job[w]] = "running"]
        /\ startedAge' = [startedAge EXCEPT ![job[w]] = 0]
        /\ pc' = [pc EXCEPT ![w] = "started"]
        /\ UNCHANGED <<attemptCount, job, attempt>>
    BY <1>6 DEF MarkRunning, localVars
  <2>2. RowIsHeld'
    BY <1>c, <2>1, BoundsAssumption DEF HoldInv, RowIsHeld, TypeOK, IsStale, Working
  <2>3. ContenderIsLate'
    BY <1>c, <2>1 DEF HoldInv, ContenderIsLate, TypeOK, Working
  <2>4. QED BY <1>a, <1>c, <2>2, <2>3 DEF HoldInv
<1>7. ASSUME NEW w \in Workers, GetCursor(w) PROVE HoldInv'
  BY <1>c, <1>7, HoldQuiet DEF GetCursor, TypeOK, Working, InTry
<1>8. ASSUME NEW w \in Workers, ImportPage(w) PROVE HoldInv'
  BY <1>c, <1>8, HoldQuiet DEF ImportPage, TypeOK, Working, InTry
<1>9. ASSUME NEW w \in Workers, ImportFails(w) PROVE HoldInv'
  BY <1>c, <1>9, HoldQuiet DEF ImportFails, localVars, TypeOK, Working, InTry
<1>10. ASSUME NEW w \in Workers, SetCursor(w) PROVE HoldInv'
  BY <1>c, <1>10, HoldQuiet DEF SetCursor, Answered, localVars, TypeOK, Working, InTry
<1>11. ASSUME NEW w \in Workers, CompleteRun(w) PROVE HoldInv'
  <2>1. /\ pc[w] = "completing"
        /\ status' = [status EXCEPT ![job[w]] = "succeeded"]
        /\ pc' = [pc EXCEPT ![w] = pc'[w]]
        /\ pc'[w] \in {"recording", "failing"}
        /\ UNCHANGED <<attemptCount, startedAge, job, attempt>>
    BY <1>11, <1>c DEF CompleteRun, Answered, localVars, TypeOK
  <2>2. RowIsHeld'
    BY <1>c, <2>1 DEF HoldInv, RowIsHeld, TypeOK, IsStale, Working, InTry
  <2>3. ContenderIsLate'
    BY <1>c, <2>1 DEF HoldInv, ContenderIsLate, TypeOK, Working, InTry
  <2>4. QED BY <1>a, <1>c, <2>2, <2>3 DEF HoldInv
<1>12. ASSUME NEW w \in Workers, RecordSuccess(w) PROVE HoldInv'
  BY <1>c, <1>12, HoldQuiet DEF RecordSuccess, Answered, localVars, TypeOK, Working, InTry
<1>13. ASSUME NEW w \in Workers, FailRun(w) PROVE HoldInv'
  <2>1. /\ pc[w] = "failing"
        /\ status' = [status EXCEPT ![job[w]] = "failed"]
        /\ pc' = [pc EXCEPT ![w] = "recordingFailure"]
        /\ UNCHANGED <<attemptCount, startedAge, job, attempt>>
    BY <1>13 DEF FailRun, localVars
  <2>2. \A v \in Workers : v # w /\ pc[v] \in Working => job[v] # job[w]
    BY <2>1, HeldAlone DEF Working
  <2>3. RowIsHeld'
    BY <1>c, <2>1, <2>2 DEF HoldInv, RowIsHeld, TypeOK, IsStale, Working, InTry
  <2>4. ContenderIsLate'
    BY <1>c, <2>1 DEF HoldInv, ContenderIsLate, TypeOK, Working, InTry
  <2>5. QED BY <1>a, <1>c, <2>3, <2>4 DEF HoldInv
<1>14. ASSUME NEW w \in Workers, RecordFailure(w) PROVE HoldInv'
  BY <1>c, <1>14, HoldQuiet DEF RecordFailure, localVars, TypeOK, Working, InTry
<1>15. ASSUME NEW w \in Workers, Abandon(w) PROVE HoldInv'
  BY <1>c, <1>15, HoldQuiet DEF Abandon, localVars, TypeOK, Working, InTry
<1>16. CASE Tick
  <2>1. \A w \in Workers : pc[w] \in Working => startedAge[job[w]] < StaleAfter
    BY <1>16 DEF Tick, Active
  <2>2. \A j \in JobKeys : startedAge'[j] \in {startedAge[j], startedAge[j] + 1}
    BY <1>16 DEF Tick
  <2>3. UNCHANGED <<status, attemptCount, pc, job, attempt>>
    BY <1>16 DEF Tick, localVars
  <2>4. RowIsHeld'
    BY <1>c, <2>1, <2>2, <2>3, BoundsAssumption DEF HoldInv, RowIsHeld, TypeOK, IsStale, NotStarted
  <2>5. ContenderIsLate'
    BY <2>3 DEF HoldInv, ContenderIsLate
  <2>6. QED BY <1>a, <1>c, <2>4, <2>5 DEF HoldInv
<1>17. CASE UNCHANGED vars
  BY <1>c, <1>17, HoldQuiet DEF vars, localVars
<1>18. QED
  BY <1>1, <1>2, <1>3, <1>4, <1>5, <1>6, <1>7, <1>8, <1>9, <1>10, <1>11,
     <1>12, <1>13, <1>14, <1>15, <1>16, <1>17 DEF Next, Claim, RunOn

(* When runs end within the stale limit, a job key never has two workers    *)
(* between the claim and the write that ends the run.                       *)
THEOREM OneWorkerRunsAJob == Spec => []OneRunAtATime
<1>1. CASE BoundedRuns
  <2>1. HoldInv => OneRunAtATime
    BY HeldAlone DEF OneRunAtATime
  <2>2. HoldInv /\ [Next]_vars => HoldInv'
    BY <1>1, HoldStep
  <2>3. QED BY HoldInit, <2>1, <2>2, PTL DEF Spec
<1>2. CASE ~BoundedRuns
  <2>1. OneRunAtATime
    BY <1>2 DEF OneRunAtATime
  <2>2. QED BY <2>1, PTL
<1>3. QED BY <1>1, <1>2, FaultsAssumption

-----------------------------------------------------------------------------
(* Resuming loses nothing, provided every job of the resource lists the     *)
(* same pages: a cursor another job left is then a position in one's own    *)
(* listing.                                                                 *)

SameListing == \A i, j \in JobKeys : Listing[i] = Listing[j]

ReadUpTo(j, c, got) == \A p \in DOMAIN Listing[j] : p < c => Listing[j][p].records \subseteq got

ImportInv ==
  /\ TypeOK
  /\ CursorSkipsNothing
  /\ SucceededImportedItsWindow
  /\ \A w \in Workers : pc[w] \in {"importing", "advancing"} => ReadUpTo(job[w], at[w], imported)
  /\ \A w \in Workers :
       pc[w] = "completing" \/ (pc[w] = "advancing" /\ at[w] = NoCursor) =>
         Window(job[w]) \subseteq imported

LEMMA ImportInit == Init => ImportInv
BY TypeInit, ListingAssumption DEF Init, ImportInv, CursorSkipsNothing, SucceededImportedItsWindow,
     NoCursor, Window

LEMMA PositionsAreNat ==
  ASSUME NEW j \in JobKeys, NEW p \in DOMAIN Listing[j]
  PROVE  p \in 1 .. Len(Listing[j]) /\ Len(Listing[j]) \in Nat
<1>1. Listing[j] \in Seq(SyncPages)
  BY ListingAssumption
<1>2. QED BY <1>1

(* Reading the page at a position extends what has been read up to the next *)
(* one; when there is no next one the whole window has been read.           *)
LEMMA ReadOnePage ==
  ASSUME TypeOK, NEW j \in JobKeys, NEW c \in Nat, ReadUpTo(j, c, imported),
         imported' = imported \cup PageAt(j, c).records, NEW next \in NextCursors(j, c)
  PROVE  /\ ReadUpTo(j, next, imported')
         /\ next = NoCursor => Window(j) \subseteq imported'
<1>1. \A p \in DOMAIN Listing[j] : p <= Position(c) => Listing[j][p].records \subseteq imported'
  <2> SUFFICES ASSUME NEW p \in DOMAIN Listing[j], p <= Position(c)
               PROVE  Listing[j][p].records \subseteq imported'
    OBVIOUS
  <2>1. p \in Nat /\ p >= 1
    BY PositionsAreNat
  <2>2. CASE p < c
    BY <2>2 DEF ReadUpTo
  <2>3. CASE ~(p < c)
    <3>1. p = Position(c)
      BY <2>1, <2>3 DEF Position, NoCursor
    <3>2. QED BY <3>1 DEF PageAt
  <2>4. QED BY <2>2, <2>3
<1>2. Position(c) \in Nat /\ Position(c) >= 1
  BY DEF Position, NoCursor
<1>3. \A p \in DOMAIN Listing[j] : p < next => p <= Position(c)
  BY <1>2, PositionsAreNat DEF NextCursors, NoCursor
<1>4. ReadUpTo(j, next, imported')
  BY <1>1, <1>3 DEF ReadUpTo
<1>5. ASSUME next = NoCursor PROVE Window(j) \subseteq imported'
  <2>1. Len(Listing[j]) \in Nat
    BY ListingAssumption
  <2>2. \A p \in DOMAIN Listing[j] : p <= Position(c)
    BY <1>2, <1>5, <2>1, PositionsAreNat DEF NextCursors, NoCursor
  <2>3. \A p \in DOMAIN Listing[j] : Listing[j][p].records \subseteq imported'
    BY <1>1, <2>2
  <2>4. QED BY <2>3 DEF Window
<1>6. QED BY <1>4, <1>5

(* Steps that neither move the cursor, nor complete a run, nor put a worker *)
(* at a page.                                                               *)
LEMMA ImportQuiet ==
  ASSUME ImportInv, TypeOK', imported \subseteq imported',
         UNCHANGED <<cursor, everSucceeded>>,
         \A w \in Workers : pc'[w] \in {"importing", "advancing", "completing"} =>
           pc'[w] = pc[w] /\ at'[w] = at[w] /\ job'[w] = job[w]
  PROVE  ImportInv'
<1>1. CursorSkipsNothing' /\ SucceededImportedItsWindow'
  BY DEF ImportInv, CursorSkipsNothing, SucceededImportedItsWindow
<1>2. ASSUME NEW w \in Workers, pc'[w] \in {"importing", "advancing"}
      PROVE  ReadUpTo(job'[w], at'[w], imported')
  BY <1>2 DEF ImportInv, ReadUpTo
<1>3. ASSUME NEW w \in Workers,
             pc'[w] = "completing" \/ (pc'[w] = "advancing" /\ at'[w] = NoCursor)
      PROVE  Window(job'[w]) \subseteq imported'
  BY <1>3 DEF ImportInv
<1>4. QED BY <1>1, <1>2, <1>3 DEF ImportInv

LEMMA ImportStep ==
  ASSUME SameListing, ImportInv, [Next]_vars
  PROVE  ImportInv'
<1>t. TypeOK /\ TypeOK'
  BY TypeStep DEF ImportInv
<1>1. CASE \E w \in Workers : Claim(w) \/ Abandon(w)
  BY <1>t, <1>1, ImportQuiet
  DEF Claim, ClaimNew, SelectTaken, ClaimTaken, ClaimLost, Abandon, sharedVars, localVars, TypeOK
<1>2. ASSUME NEW w \in Workers,
             CallFails(w) \/ MarkRunning(w) \/ RecordSuccess(w) \/ FailRun(w) \/ RecordFailure(w)
      PROVE  ImportInv'
  BY <1>t, <1>2, ImportQuiet
  DEF CallFails, MarkRunning, RecordSuccess, Answered, FailRun, RecordFailure, sharedVars, localVars, TypeOK
<1>3. ASSUME NEW w \in Workers, ImportFails(w) PROVE ImportInv'
  BY <1>t, <1>3, ImportQuiet DEF ImportFails, localVars, TypeOK
<1>4. CASE Tick
  BY <1>t, <1>4, ImportQuiet DEF Tick, sharedVars, localVars
<1>5. CASE UNCHANGED vars
  BY <1>t, <1>5, ImportQuiet DEF vars, sharedVars, localVars
<1>6. ASSUME NEW w \in Workers, GetCursor(w) PROVE ImportInv'
  <2>1. /\ at' = [at EXCEPT ![w] = cursor.value]
        /\ pc' = [pc EXCEPT ![w] = "importing"]
        /\ UNCHANGED <<cursor, imported, everSucceeded, job>>
    BY <1>6 DEF GetCursor, sharedVars
  <2>2. ReadUpTo(job[w], cursor.value, imported)
    BY <1>t DEF ImportInv, CursorSkipsNothing, ReadUpTo, TypeOK
  <2>3. CursorSkipsNothing' /\ SucceededImportedItsWindow'
    BY <2>1 DEF ImportInv, CursorSkipsNothing, SucceededImportedItsWindow
  <2>4. ASSUME NEW v \in Workers, pc'[v] \in {"importing", "advancing"}
        PROVE  ReadUpTo(job'[v], at'[v], imported')
    BY <1>t, <2>1, <2>2, <2>4 DEF ImportInv, ReadUpTo, TypeOK
  <2>5. ASSUME NEW v \in Workers,
               pc'[v] = "completing" \/ (pc'[v] = "advancing" /\ at'[v] = NoCursor)
        PROVE  Window(job'[v]) \subseteq imported'
    BY <1>t, <2>1, <2>5 DEF ImportInv, TypeOK
  <2>6. QED BY <1>t, <2>3, <2>4, <2>5 DEF ImportInv
<1>7. ASSUME NEW w \in Workers, ImportPage(w) PROVE ImportInv'
  <2>0. PICK next \in NextCursors(job[w], at[w]) : at' = [at EXCEPT ![w] = next]
    BY <1>7 DEF ImportPage
  <2>1. /\ pc[w] = "importing"
        /\ imported' = imported \cup PageAt(job[w], at[w]).records
        /\ at' = [at EXCEPT ![w] = next]
        /\ pc' = [pc EXCEPT ![w] = "advancing"]
        /\ UNCHANGED <<cursor, everSucceeded, job>>
    BY <1>7, <2>0 DEF ImportPage
  <2>2. job[w] \in JobKeys /\ at[w] \in Nat /\ ReadUpTo(job[w], at[w], imported)
    BY <1>t, <2>1 DEF ImportInv, TypeOK
  <2>3. /\ ReadUpTo(job[w], next, imported')
        /\ next = NoCursor => Window(job[w]) \subseteq imported'
    BY <1>t, <2>1, <2>2, ReadOnePage
  <2>4. imported \subseteq imported'
    BY <2>1
  <2>5. CursorSkipsNothing' /\ SucceededImportedItsWindow'
    BY <2>1, <2>4 DEF ImportInv, CursorSkipsNothing, SucceededImportedItsWindow
  <2>6. ASSUME NEW v \in Workers, pc'[v] \in {"importing", "advancing"}
        PROVE  ReadUpTo(job'[v], at'[v], imported')
    <3>1. CASE v = w
      BY <1>t, <2>1, <2>3, <3>1 DEF TypeOK
    <3>2. CASE v # w
      <4>1. ReadUpTo(job[v], at[v], imported) /\ job'[v] = job[v] /\ at'[v] = at[v]
        BY <1>t, <2>1, <2>6, <3>2 DEF ImportInv, TypeOK
      <4>2. QED BY <2>4, <4>1 DEF ReadUpTo
    <3>3. QED BY <3>1, <3>2
  <2>7. ASSUME NEW v \in Workers,
               pc'[v] = "completing" \/ (pc'[v] = "advancing" /\ at'[v] = NoCursor)
        PROVE  Window(job'[v]) \subseteq imported'
    <3>1. CASE v = w
      BY <1>t, <2>1, <2>3, <2>7, <3>1 DEF TypeOK
    <3>2. CASE v # w
      BY <1>t, <2>1, <2>4, <2>7, <3>2 DEF ImportInv, TypeOK
    <3>3. QED BY <3>1, <3>2
  <2>8. QED BY <1>t, <2>5, <2>6, <2>7 DEF ImportInv
<1>8. ASSUME NEW w \in Workers, SetCursor(w) PROVE ImportInv'
  <2>1. /\ pc[w] = "advancing"
        /\ cursor'.value = at[w]
        /\ pc'[w] = "completing" => at[w] = NoCursor
        /\ pc'[w] # "advancing"
        /\ \A v \in Workers : v # w => pc'[v] = pc[v]
        /\ UNCHANGED <<imported, everSucceeded, job, at>>
    BY <1>t, <1>8 DEF SetCursor, Answered, localVars, TypeOK
  <2>2. \A j \in JobKeys : ReadUpTo(j, at[w], imported)
    BY <1>t, <2>1, SameListing DEF ImportInv, SameListing, ReadUpTo, TypeOK
  <2>3. CursorSkipsNothing'
    BY <2>1, <2>2 DEF CursorSkipsNothing, ReadUpTo
  <2>4. SucceededImportedItsWindow'
    BY <2>1 DEF ImportInv, SucceededImportedItsWindow
  <2>5. ASSUME NEW v \in Workers, pc'[v] \in {"importing", "advancing"}
        PROVE  ReadUpTo(job'[v], at'[v], imported')
    BY <2>1, <2>5 DEF ImportInv
  <2>6. ASSUME NEW v \in Workers,
               pc'[v] = "completing" \/ (pc'[v] = "advancing" /\ at'[v] = NoCursor)
        PROVE  Window(job'[v]) \subseteq imported'
    BY <2>1, <2>6 DEF ImportInv
  <2>7. QED BY <1>t, <2>3, <2>4, <2>5, <2>6 DEF ImportInv
<1>9. ASSUME NEW w \in Workers, CompleteRun(w) PROVE ImportInv'
  <2>1. /\ pc[w] = "completing"
        /\ everSucceeded' = everSucceeded \cup {job[w]}
        /\ pc'[w] \in {"recording", "failing"}
        /\ \A v \in Workers : v # w => pc'[v] = pc[v]
        /\ UNCHANGED <<cursor, imported, job, at>>
    BY <1>t, <1>9 DEF CompleteRun, Answered, sharedVars, localVars, TypeOK
  <2>2. SucceededImportedItsWindow'
    BY <2>1 DEF ImportInv, SucceededImportedItsWindow
  <2>3. CursorSkipsNothing'
    BY <2>1 DEF ImportInv, CursorSkipsNothing
  <2>4. \A v \in Workers : pc'[v] \in {"importing", "advancing", "completing"} => pc'[v] = pc[v]
    BY <2>1
  <2>5. QED BY <1>t, <2>1, <2>2, <2>3, <2>4 DEF ImportInv
<1>10. QED
  BY <1>1, <1>2, <1>3, <1>4, <1>5, <1>6, <1>7, <1>8, <1>9 DEF Next, RunOn

LEMMA ImportAlways == ASSUME SameListing PROVE Spec => []ImportInv
<1>1. ImportInv /\ [Next]_vars => ImportInv'
  BY ImportStep
<1>2. QED BY ImportInit, <1>1, PTL DEF Spec

(* When all jobs of the resource list the same pages, the cursor is never   *)
(* ahead of what was written: every page before the one it points at is     *)
(* imported, for whichever job resumes from it.                             *)
THEOREM CursorLosesNothing == ASSUME SameListing PROVE Spec => []CursorSkipsNothing
<1>1. ImportInv => CursorSkipsNothing
  BY DEF ImportInv
<1>2. QED BY ImportAlways, <1>1, PTL

(* When all jobs of the resource list the same pages, a run that completed  *)
(* has imported its whole window, whatever crashed, failed or ran beside it *)
(* and wherever it resumed.                                                 *)
THEOREM ResumeLosesNothing == ASSUME SameListing PROVE Spec => []SucceededImportedItsWindow
<1>1. ImportInv => SucceededImportedItsWindow
  BY DEF ImportInv
<1>2. QED BY ImportAlways, <1>1, PTL

-----------------------------------------------------------------------------
(* Done is done, while runs end within the stale limit: a worker that has   *)
(* not completed its run holds a row that does not say succeeded, and a     *)
(* contender whose count still matches did not read one that does.          *)

Unfinished == {"claimed", "started", "importing", "advancing", "completing"}

DoneIsSettled ==
  /\ \A w \in Workers : pc[w] \in Unfinished => status[job[w]] # "succeeded"
  /\ \A w \in Workers : pc[w] = "contending" /\ status[job[w]] = "succeeded" =>
       attempt[w] # attemptCount[job[w]]

DoneInv == HoldInv /\ DoneIsSettled

LEMMA DoneInit == Init => DoneInv
BY HoldInit DEF Init, DoneInv, DoneIsSettled, Unfinished

(* Steps that complete no run and touch no attempt.                         *)
LEMMA DoneQuiet ==
  ASSUME DoneInv, HoldInv',
         UNCHANGED <<attemptCount, job, attempt>>,
         \A j \in JobKeys : status'[j] = "succeeded" => status[j] = "succeeded",
         \A w \in Workers : pc'[w] \in Unfinished => pc[w] \in Unfinished,
         \A w \in Workers : pc'[w] = "contending" => pc[w] = "contending"
  PROVE  DoneInv' /\ \A j \in JobKeys : status[j] = "succeeded" => attemptCount'[j] = attemptCount[j]
BY DEF DoneInv, DoneIsSettled, HoldInv, ClaimInv, TypeOK

LEMMA DoneStep ==
  ASSUME BoundedRuns, DoneInv, [Next]_vars
  PROVE  DoneInv' /\ \A j \in JobKeys : status[j] = "succeeded" => attemptCount'[j] = attemptCount[j]
<1>h. HoldInv /\ HoldInv' /\ TypeOK /\ TypeOK' /\ ClaimInv
  BY HoldStep DEF DoneInv, HoldInv, ClaimInv
<1> DEFINE Goal == DoneInv' /\ \A j \in JobKeys : status[j] = "succeeded" => attemptCount'[j] = attemptCount[j]
<1>1. ASSUME NEW w \in Workers, NEW j \in JobKeys, ClaimNew(w, j) PROVE Goal
  <2>1. /\ status[j] = "absent"
        /\ status' = [status EXCEPT ![j] = "queued"]
        /\ attemptCount' = [attemptCount EXCEPT ![j] = 1]
        /\ pc' = [pc EXCEPT ![w] = "claimed"]
        /\ job' = [job EXCEPT ![w] = j]
        /\ attempt' = [attempt EXCEPT ![w] = 1]
    BY <1>1 DEF ClaimNew
  <2>2. \A i \in JobKeys : i # j => attemptCount'[i] = attemptCount[i] /\ status'[i] = status[i]
    BY <1>h, <2>1 DEF TypeOK
  <2>3. DoneIsSettled'
    BY <1>h, <2>1, <2>2 DEF DoneInv, DoneIsSettled, TypeOK
  <2>4. QED BY <1>h, <2>1, <2>2, <2>3 DEF DoneInv
<1>2. ASSUME NEW w \in Workers, NEW j \in JobKeys, SelectTaken(w, j) PROVE Goal
  <2>1. /\ status[j] # "succeeded"
        /\ pc' = [pc EXCEPT ![w] = "contending"]
        /\ job' = [job EXCEPT ![w] = j]
        /\ attempt' = [attempt EXCEPT ![w] = attemptCount[j]]
        /\ UNCHANGED <<status, attemptCount>>
    BY <1>2 DEF SelectTaken, Reclaimable, rowVars
  <2>2. DoneIsSettled'
    BY <1>h, <2>1 DEF DoneInv, DoneIsSettled, TypeOK, Unfinished
  <2>3. QED BY <1>h, <2>1, <2>2 DEF DoneInv
<1>3. ASSUME NEW w \in Workers, ClaimTaken(w) PROVE Goal
  <2>1. /\ status[job[w]] # "succeeded"
        /\ attemptCount[job[w]] = attempt[w]
        /\ status' = [status EXCEPT ![job[w]] = "queued"]
        /\ attemptCount' = [attemptCount EXCEPT ![job[w]] = attempt[w] + 1]
        /\ pc' = [pc EXCEPT ![w] = "claimed"]
        /\ attempt' = [attempt EXCEPT ![w] = attempt[w] + 1]
        /\ UNCHANGED job
    BY <1>3 DEF ClaimTaken, DoneInv, DoneIsSettled
  <2>2. \A i \in JobKeys : i # job[w] => attemptCount'[i] = attemptCount[i] /\ status'[i] = status[i]
    BY <1>h, <2>1 DEF TypeOK
  <2>3. DoneIsSettled'
    BY <1>h, <2>1, <2>2 DEF DoneInv, DoneIsSettled, TypeOK
  <2>4. QED BY <1>h, <2>1, <2>2, <2>3 DEF DoneInv
<1>4. ASSUME NEW w \in Workers, ClaimLost(w) \/ Abandon(w) PROVE Goal
  BY <1>h, <1>4, DoneQuiet DEF ClaimLost, Abandon, rowVars, localVars, TypeOK, Unfinished
<1>5. ASSUME NEW w \in Workers, CallFails(w) PROVE Goal
  BY <1>h, <1>5, DoneQuiet DEF CallFails, rowVars, localVars, TypeOK, Unfinished
<1>6. ASSUME NEW w \in Workers, MarkRunning(w) PROVE Goal
  BY <1>h, <1>6, DoneQuiet DEF MarkRunning, localVars, TypeOK, Unfinished
<1>7. ASSUME NEW w \in Workers, GetCursor(w) \/ ImportPage(w) \/ ImportFails(w) PROVE Goal
  BY <1>h, <1>7, DoneQuiet
  DEF GetCursor, ImportPage, ImportFails, rowVars, localVars, TypeOK, Unfinished
<1>8. ASSUME NEW w \in Workers, SetCursor(w) \/ RecordSuccess(w) PROVE Goal
  BY <1>h, <1>8, DoneQuiet
  DEF SetCursor, RecordSuccess, Answered, rowVars, localVars, TypeOK, Unfinished
<1>9. ASSUME NEW w \in Workers, CompleteRun(w) PROVE Goal
  <2>1. /\ pc[w] = "completing"
        /\ status' = [status EXCEPT ![job[w]] = "succeeded"]
        /\ pc'[w] \in {"recording", "failing"}
        /\ \A v \in Workers : v # w => pc'[v] = pc[v]
        /\ UNCHANGED <<attemptCount, job, attempt>>
    BY <1>h, <1>9 DEF CompleteRun, Answered, localVars, TypeOK
  <2>2. \A v \in Workers : v # w /\ pc[v] \in Working => job[v] # job[w]
    BY <1>h, <2>1, HeldAlone DEF Working, InTry
  <2>3. \A v \in Workers : pc[v] = "contending" /\ job[v] = job[w] => attempt[v] # attemptCount[job[v]]
    BY <1>h, <2>1 DEF HoldInv, ContenderIsLate, Working, InTry
  <2>4. DoneIsSettled'
    BY <1>h, <2>1, <2>2, <2>3 DEF DoneInv, DoneIsSettled, TypeOK, Unfinished, Working, InTry
  <2>5. QED BY <1>h, <2>1, <2>4 DEF DoneInv
<1>10. ASSUME NEW w \in Workers, FailRun(w) \/ RecordFailure(w) PROVE Goal
  BY <1>h, <1>10, DoneQuiet DEF FailRun, RecordFailure, rowVars, localVars, TypeOK, Unfinished
<1>11. CASE Tick
  BY <1>h, <1>11, DoneQuiet DEF Tick, localVars
<1>12. CASE UNCHANGED vars
  BY <1>h, <1>12, DoneQuiet DEF vars, rowVars, localVars
<1>13. QED
  BY <1>1, <1>2, <1>3, <1>4, <1>5, <1>6, <1>7, <1>8, <1>9, <1>10, <1>11, <1>12
  DEF Next, Claim, RunOn

(* While runs end within the stale limit, no run is started of a job key    *)
(* whose row says succeeded, whatever calls throw, before or after the run  *)
(* is complete, and wherever workers are lost.                              *)
THEOREM DoneNeverRunsAgain ==
  ASSUME BoundedRuns
  PROVE  Spec => SucceededNeverRunsAgain
<1>1. DoneInv /\ [Next]_vars => DoneInv'
  BY DoneStep
<1>2. DoneInv /\ [Next]_vars =>
        [\A j \in JobKeys : status[j] = "succeeded" => attemptCount'[j] = attemptCount[j]]_vars
  BY DoneStep
<1>3. QED BY DoneInit, <1>1, <1>2, PTL DEF Spec, SucceededNeverRunsAgain

-----------------------------------------------------------------------------
(* Refinement.  Claims are starts, upserts land records, completeRun is the *)
(* finish; every other step is invisible to the caller.                     *)

StartedInv ==
  /\ \A w \in Workers : pc[w] \in Active \cup {"contending"} => attempt[w] >= 1
  /\ AttemptsBelowRow
  /\ \A j \in JobKeys : status[j] # "absent" => attemptCount[j] >= 1

LEMMA StartedInit == Init => StartedInv
BY DEF Init, StartedInv, AttemptsBelowRow, Active, Working, InTry

LEMMA StartedStep ==
  ASSUME ClaimInv, StartedInv, [Next]_vars
  PROVE  StartedInv'
<1>t. TypeOK /\ TypeOK' /\ AttemptsBelowRow'
  BY ClaimStep DEF ClaimInv
<1>1. ASSUME NEW w \in Workers, Claim(w) PROVE StartedInv'
  <2>1. ASSUME NEW j \in JobKeys, ClaimNew(w, j) PROVE StartedInv'
    BY <1>t, <2>1 DEF ClaimNew, StartedInv, TypeOK
  <2>2. ASSUME NEW j \in JobKeys, SelectTaken(w, j) PROVE StartedInv'
    BY <1>t, <2>2 DEF SelectTaken, Reclaimable, StartedInv, TypeOK, rowVars
  <2>3. CASE ClaimTaken(w)
    BY <1>t, <2>3 DEF ClaimTaken, StartedInv, TypeOK
  <2>4. CASE ClaimLost(w)
    BY <1>t, <2>4 DEF ClaimLost, StartedInv, TypeOK, rowVars, localVars, Active, Working, InTry
  <2>5. QED BY <1>1, <2>1, <2>2, <2>3, <2>4 DEF Claim
<1>2. ASSUME NEW w \in Workers, MarkRunning(w) \/ CompleteRun(w) \/ FailRun(w) PROVE StartedInv'
  <2>1. /\ pc[w] \in Active
        /\ \A v \in Workers : pc'[v] \in Active \cup {"contending"} => pc[v] \in Active \cup {"contending"}
        /\ \A j \in JobKeys : status'[j] = status[j] \/ j = job[w]
        /\ UNCHANGED <<attemptCount, job, attempt>>
    BY <1>t, <1>2 DEF MarkRunning, CompleteRun, Answered, FailRun, localVars, TypeOK, Active, Working, InTry
  <2>2. attemptCount[job[w]] >= 1
    BY <1>t, <2>1 DEF StartedInv, AttemptsBelowRow, TypeOK
  <2>3. QED BY <1>t, <2>1, <2>2 DEF StartedInv
<1>3. ASSUME NEW w \in Workers,
             \/ GetCursor(w) \/ ImportPage(w) \/ ImportFails(w) \/ SetCursor(w)
             \/ RecordSuccess(w) \/ CallFails(w) \/ RecordFailure(w) \/ Abandon(w)
      PROVE  StartedInv'
  <2>1. /\ \A v \in Workers : pc'[v] \in Active \cup {"contending"} => pc[v] \in Active \cup {"contending"}
        /\ UNCHANGED <<status, attemptCount, job, attempt>>
    BY <1>t, <1>3, FaultsAssumption
    DEF GetCursor, ImportPage, ImportFails, SetCursor, RecordSuccess, Answered, CallFails, RecordFailure,
        Abandon, rowVars, localVars, TypeOK, Active, Working, InTry
  <2>2. QED BY <1>t, <2>1 DEF StartedInv
<1>4. CASE Tick \/ UNCHANGED vars
  BY <1>t, <1>4 DEF Tick, vars, rowVars, localVars, StartedInv
<1>5. QED
  BY <1>1, <1>2, <1>3, <1>4 DEF Next, RunOn

LEMMA PageInWindow ==
  ASSUME NEW j \in JobKeys, NEW c \in Nat
  PROVE  PageAt(j, c).records \subseteq Window(j)
BY DEF PageAt, Window

(* One step of the sync runs is one step of the service, or none.           *)
LEMMA ServiceStep ==
  ASSUME DoneInv, ImportInv, StartedInv, [Next]_vars
  PROVE  [Service!ServiceNext]_(Service!serviceVars)
<1>t. TypeOK /\ ClaimInv
  BY DEF ImportInv, DoneInv, HoldInv
<1> USE DEF Service!ServiceNext, Service!serviceVars
<1>1. ASSUME NEW w \in Workers, NEW j \in JobKeys, ClaimNew(w, j)
      PROVE  Service!Start(j)
  <2>1. /\ status[j] = "absent" /\ attemptCount[j] = 0
        /\ status' = [status EXCEPT ![j] = "queued"]
        /\ attemptCount' = [attemptCount EXCEPT ![j] = 1]
        /\ UNCHANGED imported
    BY <1>t, <1>1 DEF ClaimNew, sharedVars, ClaimInv, AbsentUnclaimed
  <2>2. j \notin Succeeded /\ Succeeded' = Succeeded
    BY <1>t, <2>1 DEF Succeeded, TypeOK
  <2>3. attemptCount' = [attemptCount EXCEPT ![j] = attemptCount[j] + 1]
    BY <2>1
  <2>4. QED BY <2>1, <2>2, <2>3 DEF Service!Start
<1>2. ASSUME NEW w \in Workers, ClaimTaken(w)
      PROVE  Service!Start(job[w])
  <2>1. /\ status[job[w]] # "succeeded"
        /\ attemptCount[job[w]] = attempt[w]
        /\ status' = [status EXCEPT ![job[w]] = "queued"]
        /\ attemptCount' = [attemptCount EXCEPT ![job[w]] = attempt[w] + 1]
        /\ UNCHANGED imported
    BY <1>2 DEF ClaimTaken, sharedVars, DoneInv, DoneIsSettled
  <2>2. job[w] \notin Succeeded /\ Succeeded' = Succeeded
    BY <1>t, <2>1 DEF Succeeded, TypeOK
  <2>3. attemptCount' = [attemptCount EXCEPT ![job[w]] = attemptCount[job[w]] + 1]
    BY <2>1
  <2>4. QED BY <2>1, <2>2, <2>3 DEF Service!Start
<1>3. ASSUME NEW w \in Workers, ImportPage(w) \/ ImportFails(w)
      PROVE  Service!Land(job[w])
  <2>1. /\ attemptCount[job[w]] > 0
        /\ UNCHANGED <<attemptCount, Succeeded>>
    BY <1>t, <1>3
    DEF ImportPage, ImportFails, rowVars, StartedInv, AttemptsBelowRow, TypeOK, Active, Working, InTry, Succeeded
  <2>2. \E some \in SUBSET Window(job[w]) : imported' = imported \cup some
    <3>1. PageAt(job[w], at[w]).records \subseteq Window(job[w])
      BY <1>t, PageInWindow DEF TypeOK
    <3>2. QED BY <1>3, <3>1 DEF ImportPage, ImportFails
  <2>3. QED BY <2>1, <2>2 DEF Service!Land
<1>4. ASSUME NEW w \in Workers, CompleteRun(w)
      PROVE  Service!Finish(job[w])
  <2>1. /\ pc[w] = "completing"
        /\ status' = [status EXCEPT ![job[w]] = "succeeded"]
        /\ UNCHANGED <<attemptCount, imported>>
    BY <1>4 DEF CompleteRun, sharedVars
  <2>2. attemptCount[job[w]] > 0 /\ Window(job[w]) \subseteq imported
    BY <1>t, <2>1 DEF ImportInv, StartedInv, AttemptsBelowRow, TypeOK, Active, Working, InTry
  <2>3. status[job[w]] # "succeeded"
    BY <2>1 DEF DoneInv, DoneIsSettled, Unfinished
  <2>4. job[w] \notin Succeeded /\ Succeeded' = Succeeded \cup {job[w]}
    BY <1>t, <2>1, <2>3 DEF Succeeded, TypeOK
  <2>5. QED BY <2>1, <2>2, <2>4 DEF Service!Finish
<1>5. ASSUME NEW w \in Workers, FailRun(w)
      PROVE  Service!Reopen(job[w]) \/ UNCHANGED <<attemptCount, imported, Succeeded>>
  <2>1. /\ status' = [status EXCEPT ![job[w]] = "failed"]
        /\ UNCHANGED <<attemptCount, imported>>
    BY <1>5 DEF FailRun, sharedVars
  <2>2. Succeeded' = Succeeded \ {job[w]}
    BY <1>t, <2>1 DEF Succeeded, TypeOK
  <2>3. CASE job[w] \in Succeeded
    BY <2>1, <2>2, <2>3 DEF Service!Reopen
  <2>4. CASE job[w] \notin Succeeded
    BY <2>1, <2>2, <2>4
  <2>5. QED BY <2>3, <2>4
<1>6. ASSUME NEW w \in Workers, MarkRunning(w)
      PROVE  UNCHANGED <<attemptCount, imported, Succeeded>>
  <2>1. /\ status[job[w]] # "succeeded"
        /\ status' = [status EXCEPT ![job[w]] = "running"]
        /\ UNCHANGED <<attemptCount, imported>>
    BY <1>6 DEF MarkRunning, sharedVars, DoneInv, DoneIsSettled, Unfinished
  <2>2. QED BY <1>t, <2>1 DEF Succeeded, TypeOK
<1>7. ASSUME NEW w \in Workers,
             \/ \E j \in JobKeys : SelectTaken(w, j)
             \/ ClaimLost(w) \/ GetCursor(w) \/ SetCursor(w) \/ RecordSuccess(w)
             \/ CallFails(w) \/ RecordFailure(w) \/ Abandon(w)
      PROVE  UNCHANGED <<attemptCount, imported, Succeeded>>
  BY <1>7 DEF SelectTaken, ClaimLost, GetCursor, SetCursor, RecordSuccess, CallFails,
     RecordFailure, Abandon, rowVars, sharedVars, Succeeded
<1>8. CASE Tick \/ UNCHANGED vars
  BY <1>8 DEF Tick, vars, rowVars, sharedVars, Succeeded
<1>9. QED
  BY <1>t, <1>1, <1>2, <1>3, <1>4, <1>5, <1>6, <1>7, <1>8 DEF Next, Claim, RunOn, TypeOK

(* The sync runs implement the import service: a job key whose row says     *)
(* succeeded has its window in the database and is not started again, while *)
(* runs end within the stale limit and every job of the resource lists the  *)
(* same pages, with a throw or a loss at any await.                         *)
THEOREM RunsImplementService ==
  ASSUME BoundedRuns, SameListing
  PROVE  Spec => ImplementsImportService
<1> DEFINE Inv == DoneInv /\ ImportInv /\ StartedInv
<1>1. Init => Inv
  BY DoneInit, ImportInit, StartedInit
<1>2. Inv /\ [Next]_vars => Inv'
  BY DoneStep, ImportStep, StartedStep DEF DoneInv, HoldInv
<1>3. Inv /\ [Next]_vars => [Service!ServiceNext]_(Service!serviceVars)
  BY ServiceStep
<1>4. Init => Service!ServiceInit
  BY DEF Init, Service!ServiceInit, NoRow, Succeeded
<1>5. QED
  BY <1>1, <1>2, <1>3, <1>4, PTL DEF Spec, ImplementsImportService, Service!ServiceSpec
=============================================================================
