---------------------------- MODULE PublishedProofs ----------------------------
(***************************************************************************)
(* What the published figures and the metric targets keep.                 *)
(*                                                                         *)
(* DailyFinancials, for any publishers, days, versions, ranges and number  *)
(* of edits. The argument for the swap: a transaction stands down only     *)
(* current rows of its own range, and puts up a row for every day of that  *)
(* range only when no other row of them is left.  So a day it takes down   *)
(* it also puts up, and the row it puts up is alone.                       *)
(*                                                                         *)
(* MetricTargets, for every number of days and every sequence of writes.   *)
(***************************************************************************)
EXTENDS DailyFinancials, MetricTargets, FiniteSetTheorems, TLAPS

(* A day has one current row at the most: daily_financials_current_idx.     *)
AtMostOneCurrent ==
  \A r, s \in current : r[1] = s[1] => r = s

(* Only an open transaction holds rows.                                     *)
HeldInTransaction ==
  \A p \in Publishers :
    step[p] \notin {"updating", "inserting"} => stood[p] = {} /\ snapshot[p] = {}

(* An open transaction has stood down rows of its own range.                *)
StoodInRange ==
  \A p \in Publishers : stood[p] \subseteq OfRange(p)

SnapshotInRange ==
  \A p \in Publishers : snapshot[p] \subseteq OfRange(p)

IInv == /\ DailyTypeOK /\ AtMostOneCurrent /\ HeldInTransaction
        /\ StoodInRange /\ SnapshotInRange

(* The control points of a publisher are among those of the type.           *)
LEMMA GotoType ==
  ASSUME DailyTypeOK, NEW p \in Publishers, NEW next \in PublisherPoints, Goto(p, next)
  PROVE  step' \in [Publishers -> PublisherPoints]
  BY DEF DailyTypeOK, Goto

(* A publisher's new rows are rows of the table.                            *)
LEMMA NewRowType ==
  ASSUME DailyTypeOK, NEW p \in Publishers, NEW d \in range[p]
  PROVE  NewRow(p, d) \in Rows /\ NewRow(p, d)[1] = d /\ NewRow(p, d)[2] = VersionOf[p]
  BY PublisherAssumption DEF NewRow, Rows, DailyTypeOK

(* The dates a publisher takes are days.                                    *)
LEMMA RangeForType == ASSUME NEW p \in Publishers PROVE RangeFor(p) \subseteq Days
  BY PublisherAssumption DEF RangeFor, TrailingWindow

-----------------------------------------------------------------------------
LEMMA DailyTypeStep ==
  ASSUME DailyTypeOK, [DailyNext]_dailyVars
  PROVE  DailyTypeOK'
<1> USE DEF DailyTypeOK
<1>1. ASSUME NEW d \in Days, ChangeFacts(d) PROVE DailyTypeOK'
  BY <1>1 DEF ChangeFacts, table, locals
<1>2. CASE ApprovePolicy
  BY <1>2 DEF ApprovePolicy, table, locals
<1>11. CASE Midnight
  BY <1>11, CalendarAssumption DEF Midnight, table, locals, Days
<1>3. ASSUME NEW p \in Publishers, LoadPolicy(p) PROVE DailyTypeOK'
  BY <1>3, GotoType, RangeForType DEF LoadPolicy, table, PublisherPoints
<1>4. ASSUME NEW p \in Publishers, Calculate(p) PROVE DailyTypeOK'
  BY <1>4, GotoType DEF Calculate, table, PublisherPoints
<1>5. ASSUME NEW p \in Publishers, BeginUpdate(p) PROVE DailyTypeOK'
  BY <1>5, GotoType DEF BeginUpdate, table, PublisherPoints
<1>6. ASSUME NEW p \in Publishers, StandDown(p) PROVE DailyTypeOK'
  BY <1>6, GotoType DEF StandDown, table, PublisherPoints
<1>7. ASSUME NEW p \in Publishers, PutUp(p) PROVE DailyTypeOK'
  <2> DEFINE new == {NewRow(p, d) : d \in range[p]}
  <2>1. new \subseteq Rows
    BY NewRowType
  <2>2. current' \subseteq Rows
    BY <1>7, <2>1 DEF PutUp
  <2>3. figure' \in [Rows -> Nat \cup {NoFigure}]
    BY <1>7 DEF PutUp, Rows
  <2> QED
    BY <1>7, <2>2, <2>3, GotoType DEF PutUp, Ended, Forgotten, PublisherPoints
<1>8. ASSUME NEW p \in Publishers, Refuse(p) PROVE DailyTypeOK'
  BY <1>8, GotoType DEF Refuse, Ended, Forgotten, table, PublisherPoints
<1>9. ASSUME NEW p \in Publishers, GiveUp(p) PROVE DailyTypeOK'
  BY <1>9, GotoType DEF GiveUp, Forgotten, table, PublisherPoints
<1>10. CASE UNCHANGED dailyVars
  BY <1>10 DEF dailyVars, table, locals
<1> QED
  BY <1>1, <1>2, <1>3, <1>4, <1>5, <1>6, <1>7, <1>8, <1>9, <1>10, <1>11
  DEF DailyNext, CalculateAndPublish

LEMMA InitIInv ==
  ASSUME DailyInit
  PROVE  IInv
<1>1. "idle" \in PublisherPoints
  BY DEF PublisherPoints
<1>2. figure \in [Rows -> Nat \cup {NoFigure}] /\ current \subseteq Rows
  BY DEF DailyInit
<1>3. stood \in [Publishers -> SUBSET Rows] /\ snapshot \in [Publishers -> SUBSET Rows]
  BY DEF DailyInit
<1>4. /\ facts \in [Days -> Nat]
      /\ seen \in [Publishers -> [Days -> Nat]]
      /\ businessDate \in Days /\ range \in [Publishers -> SUBSET Days]
  BY CalendarAssumption DEF DailyInit, Days
<1>5. DailyTypeOK
  BY <1>1, <1>2, <1>3, <1>4 DEF DailyInit, DailyTypeOK
<1> QED
  BY <1>5 DEF DailyInit, IInv, AtMostOneCurrent, HeldInTransaction, StoodInRange, SnapshotInRange

(* The rows of a range that are current when a transaction commits.         *)
LEMMA PutUpIsAlone ==
  ASSUME IInv, NEW p \in Publishers, PutUp(p), NEW r \in current', r[1] \in range[p]
  PROVE  r = NewRow(p, r[1])
<1>1. CASE r \in {NewRow(p, d) : d \in range[p]}
  BY <1>1, NewRowType DEF IInv
<1>2. CASE r \in current \ stood[p]
  <2>1. r \in Rows /\ r \in OfRange(p)
    BY <1>2 DEF IInv, DailyTypeOK, OfRange
  <2>2. r[2] = VersionOf[p]
    BY <1>2, <2>1 DEF PutUp, Clashes
  <2> QED
    BY <2>1, <2>2 DEF Rows, NewRow
<1> QED
  BY <1>1, <1>2 DEF PutUp

(* A transaction that has ended holds nothing; the others are as they were. *)
LEMMA EndedHoldsNothing ==
  ASSUME IInv, NEW p \in Publishers, Ended(p)
  PROVE  HeldInTransaction' /\ StoodInRange' /\ SnapshotInRange'
<1>1. /\ stood'[p] = {} /\ snapshot'[p] = {}
      /\ \A q \in Publishers \ {p} :
           /\ stood'[q] = stood[q] /\ snapshot'[q] = snapshot[q] /\ range'[q] = range[q]
           /\ step'[q] = step[q]
  BY DEF IInv, DailyTypeOK, Ended, Forgotten, Goto
<1> SUFFICES ASSUME NEW q \in Publishers
             PROVE  /\ step'[q] \notin {"updating", "inserting"} =>
                         stood'[q] = {} /\ snapshot'[q] = {}
                    /\ stood'[q] \subseteq OfRange(q)' /\ snapshot'[q] \subseteq OfRange(q)'
  BY DEF HeldInTransaction, StoodInRange, SnapshotInRange
<1>2. CASE q = p
  BY <1>1, <1>2
<1>3. CASE q # p
  BY <1>1, <1>3 DEF IInv, HeldInTransaction, StoodInRange, SnapshotInRange, OfRange
<1> QED
  BY <1>2, <1>3

LEMMA StepIInv ==
  ASSUME IInv, [DailyNext]_dailyVars
  PROVE  IInv'
<1>0. DailyTypeOK /\ DailyTypeOK'
  BY DailyTypeStep DEF IInv
<1>1. ASSUME UNCHANGED <<current, stood, snapshot, range, step>> PROVE IInv'
  BY <1>0, <1>1 DEF IInv, AtMostOneCurrent, HeldInTransaction, StoodInRange, SnapshotInRange, OfRange
<1>6. ASSUME NEW p \in Publishers, LoadPolicy(p) \/ Calculate(p) \/ GiveUp(p) PROVE IInv'
  <2>1. /\ UNCHANGED <<current, stood, snapshot>>
        /\ stood[p] = {} /\ snapshot[p] = {} /\ step'[p] \notin {"updating", "inserting"}
        /\ \A q \in Publishers \ {p} : range'[q] = range[q] /\ step'[q] = step[q]
    BY <1>0, <1>6 DEF IInv, DailyTypeOK, HeldInTransaction, LoadPolicy, Calculate, GiveUp, Goto,
                      Forgotten, table
  <2>2. AtMostOneCurrent' /\ HeldInTransaction'
    BY <2>1 DEF IInv, AtMostOneCurrent, HeldInTransaction
  <2>3. StoodInRange' /\ SnapshotInRange'
    <3> SUFFICES ASSUME NEW q \in Publishers
                 PROVE  stood[q] \subseteq OfRange(q)' /\ snapshot[q] \subseteq OfRange(q)'
      BY <2>1 DEF StoodInRange, SnapshotInRange
    <3>1. CASE q = p
      BY <2>1, <3>1
    <3>2. CASE q # p
      BY <2>1, <3>2 DEF IInv, StoodInRange, SnapshotInRange, OfRange
    <3> QED
      BY <3>1, <3>2
  <2> QED
    BY <1>0, <2>2, <2>3 DEF IInv
<1>2. ASSUME NEW p \in Publishers, BeginUpdate(p) PROVE IInv'
  BY <1>0, <1>2 DEF IInv, DailyTypeOK, BeginUpdate, Goto, table, AtMostOneCurrent,
                    HeldInTransaction, StoodInRange, SnapshotInRange, OfRange
<1>3. ASSUME NEW p \in Publishers, StandDown(p) PROVE IInv'
  BY <1>0, <1>3 DEF IInv, DailyTypeOK, StandDown, Goto, table, AtMostOneCurrent,
                    HeldInTransaction, StoodInRange, SnapshotInRange, OfRange
<1>4. ASSUME NEW p \in Publishers, PutUp(p) PROVE IInv'
  <2>1. AtMostOneCurrent'
    <3> SUFFICES ASSUME NEW r \in current', NEW s \in current', r[1] = s[1]
                 PROVE  r = s
      BY DEF AtMostOneCurrent
    <3>1. CASE r[1] \in range[p]
      BY <1>4, <3>1, PutUpIsAlone
    <3>2. CASE r[1] \notin range[p]
      <4>1. r \in current /\ s \in current
        BY <1>0, <1>4, <3>2, NewRowType DEF PutUp
      <4> QED
        BY <4>1 DEF IInv, AtMostOneCurrent
    <3> QED
      BY <3>1, <3>2
  <2>2. HeldInTransaction' /\ StoodInRange' /\ SnapshotInRange'
    BY <1>0, <1>4, EndedHoldsNothing DEF IInv, PutUp
  <2> QED
    BY <1>0, <2>1, <2>2 DEF IInv
<1>5. ASSUME NEW p \in Publishers, Refuse(p) PROVE IInv'
  <2>1. HeldInTransaction' /\ StoodInRange' /\ SnapshotInRange' /\ current' = current
    BY <1>0, <1>5, EndedHoldsNothing DEF IInv, Refuse, table
  <2> QED
    BY <1>0, <2>1 DEF IInv, AtMostOneCurrent
<1> QED
  BY <1>1, <1>2, <1>3, <1>4, <1>5, <1>6
  DEF DailyNext, CalculateAndPublish, ChangeFacts, ApprovePolicy, Midnight, dailyVars, table, locals

-----------------------------------------------------------------------------
(* The variables keep their types.                                          *)
THEOREM DailyTypeCorrect == DailySpec => []DailyTypeOK
<1>1. DailyInit => DailyTypeOK
  BY InitIInv DEF IInv
<1>2. DailyTypeOK /\ [DailyNext]_dailyVars => DailyTypeOK'
  BY DailyTypeStep
<1> QED
  BY <1>1, <1>2, PTL DEF DailySpec

LEMMA Invariance == DailySpec => []IInv
<1>1. IInv /\ [DailyNext]_dailyVars => IInv'
  BY StepIInv
<1>2. DailyInit => IInv
  BY InitIInv
<1> QED
  BY <1>1, <1>2, PTL DEF DailySpec

(* A day with a current row has exactly one after any step.                 *)
LEMMA SwapStep ==
  ASSUME IInv, [DailyNext]_dailyVars, NEW d \in Days, CurrentOf(d) # {}
  PROVE  Cardinality(CurrentOf(d)') = 1
<1>1. SUFFICES \E v : CurrentOf(d)' = {v}
  BY FS_Singleton
<1>2. IInv'
  BY StepIInv
<1>3. \A v, w \in CurrentOf(d)' : v = w
  BY <1>2 DEF IInv, AtMostOneCurrent, CurrentOf
<1>4. CurrentOf(d)' # {}
  <2>1. CASE UNCHANGED current
    BY <2>1 DEF CurrentOf
  <2>2. ASSUME NEW p \in Publishers, PutUp(p) PROVE CurrentOf(d)' # {}
    <3>1. CASE d \in range[p]
      <4>1. VersionOf[p] \in Versions
        BY PublisherAssumption
      <4>2. <<d, VersionOf[p]>> \in current'
        BY <2>2, <3>1 DEF PutUp, NewRow
      <4> QED
        BY <4>1, <4>2 DEF CurrentOf
    <3>2. CASE d \notin range[p]
      <4>1. PICK v \in Versions : <<d, v>> \in current
        BY DEF CurrentOf
      <4>2. <<d, v>> \notin stood[p]
        BY <3>2 DEF IInv, StoodInRange, OfRange
      <4>3. <<d, v>> \in current'
        BY <2>2, <4>1, <4>2 DEF PutUp
      <4> QED
        BY <4>3 DEF CurrentOf
    <3> QED
      BY <3>1, <3>2
  <2> QED
    BY <2>1, <2>2 DEF DailyNext, CalculateAndPublish, ChangeFacts, ApprovePolicy, LoadPolicy,
       Calculate, GiveUp, BeginUpdate, StandDown, Refuse, Midnight, dailyVars, table
<1> QED
  BY <1>3, <1>4

(* However many publishers, versions and ranges overlap, a published day is *)
(* never without figures and never has two sets of them.                    *)
THEOREM PublishedDayIsAlwaysThere == DailySpec => PublishedDayStaysPublished
<1>1. ASSUME IInv, [DailyNext]_dailyVars
      PROVE  \A d \in Days : CurrentOf(d) # {} => Cardinality(CurrentOf(d)') = 1
  <2>1. ASSUME NEW d \in Days, CurrentOf(d) # {}
        PROVE  Cardinality(CurrentOf(d)') = 1
    BY <1>1, <2>1, SwapStep
  <2> QED
    BY <2>1
<1> QED
  BY Invariance, <1>1, PTL DEF DailySpec, PublishedDayStaysPublished

-----------------------------------------------------------------------------
(* MetricTargets.                                                           *)

TargetRows == [verdict : Verdicts \cup {"none"}, to : {Open} \cup Nat]

LEMMA DaysAreNat == TargetDays \subseteq Nat \ {0} /\ 1 \in TargetDays
BY DaysAssumption DEF TargetDays

LEMMA TargetsTypeInit == TargetsInit => TargetsTypeOK
<1> SUFFICES ASSUME TargetsInit PROVE TargetsTypeOK
  OBVIOUS
<1>1. redated \in BOOLEAN
  BY DEF TargetsInit
<1>2. QED BY <1>1, DaysAreNat DEF TargetsInit, TargetsTypeOK, NoTarget, RowAllowed, Open

(* What a set leaves in the table, row by row.                              *)
LEMMA SetRow ==
  ASSUME TargetsTypeOK, NEW verdict \in Verdicts, NEW from \in TargetDays, NEW d \in TargetDays
  PROVE  LET t == WithTarget(targets, verdict, from) IN
         /\ t[d] \in TargetRows /\ RowAllowed(d, t[d].to)
         /\ d = from => t[d] = [verdict |-> verdict, to |-> Open]
         /\ d # from /\ IsOpen(targets, d) /\ d < from =>
              /\ t[d].verdict = targets[d].verdict
              /\ t[d].to = from - 1
         /\ d # from /\ ~(IsOpen(targets, d) /\ d < from) => t[d] = targets[d]
<1> DEFINE t == WithTarget(targets, verdict, from)
<1>1. targets[d] \in TargetRows /\ RowAllowed(d, targets[d].to)
  BY DEF TargetsTypeOK, TargetRows
<1>2. CASE d = from
  BY <1>2 DEF WithTarget, TargetRows, RowAllowed
<1>3. CASE d # from /\ IsOpen(targets, d) /\ d < from
  <2>1. t[d] = [targets[d] EXCEPT !.to = from - 1]
    BY <1>3 DEF WithTarget
  <2>2. from - 1 \in Nat /\ from - 1 >= d
    BY <1>3, DaysAreNat
  <2>3. QED BY <1>1, <1>3, <2>1, <2>2 DEF TargetRows, RowAllowed
<1>4. CASE d # from /\ ~(IsOpen(targets, d) /\ d < from)
  BY <1>1, <1>4 DEF WithTarget
<1>5. QED BY <1>2, <1>3, <1>4

(* What a clear leaves in the table, row by row.                            *)
LEMMA ClearRow ==
  ASSUME TargetsTypeOK, ClearTarget, NEW d \in TargetDays
  PROVE  /\ targets'[d] \in TargetRows /\ RowAllowed(d, targets'[d].to)
         /\ IsOpen(targets, d) => /\ targets'[d].verdict = targets[d].verdict
                                  /\ targets'[d].to = utcDay
         /\ ~IsOpen(targets, d) => targets'[d] = targets[d]
<1>1. targets[d] \in TargetRows /\ RowAllowed(d, targets[d].to) /\ utcDay \in Nat \ {0}
  BY DaysAreNat DEF TargetsTypeOK, TargetRows
<1>2. CASE IsOpen(targets, d)
  <2>1. targets'[d] = [targets[d] EXCEPT !.to = utcDay]
    BY <1>2 DEF ClearTarget, EndedOn
  <2>2. RowAllowed(d, utcDay)
    BY <1>2 DEF ClearTarget
  <2>3. QED BY <1>1, <1>2, <2>1, <2>2 DEF TargetRows
<1>3. CASE ~IsOpen(targets, d)
  BY <1>1, <1>3 DEF ClearTarget, EndedOn
<1>4. QED BY <1>2, <1>3

LEMMA Steps ==
  ASSUME TargetsTypeOK, [TargetsNext]_targetVars
  PROVE  \/ \E verdict \in Verdicts, from \in TargetDays :
              /\ SetTarget(verdict, from)
              /\ from = utcDay \/ from \in ScriptDates
         \/ ClearTarget
         \/ /\ UNCHANGED targets
            /\ LocalMidnight \/ UtcMidnight \/ UNCHANGED targetVars
BY ScriptAssumption DEF TargetsNext, targetVars, SetFromToday, SetFromScript, LocalMidnight, UtcMidnight, TargetsTypeOK, TargetDays

LEMMA TargetsTypeStep == TargetsTypeOK /\ [TargetsNext]_targetVars => TargetsTypeOK'
<1> SUFFICES ASSUME TargetsTypeOK, [TargetsNext]_targetVars PROVE TargetsTypeOK'
  OBVIOUS
<1>1. ASSUME NEW verdict \in Verdicts, NEW from \in TargetDays, SetTarget(verdict, from)
      PROVE  TargetsTypeOK'
  <2>1. \A d \in TargetDays : targets'[d] \in TargetRows /\ RowAllowed(d, targets'[d].to)
    BY <1>1, SetRow DEF SetTarget
  <2>2. targets' \in [TargetDays -> TargetRows]
    BY <1>1, <2>1 DEF SetTarget, WithTarget
  <2>3. QED BY <1>1, <2>1, <2>2 DEF TargetsTypeOK, SetTarget, TargetRows
<1>2. CASE ClearTarget
  <2>1. \A d \in TargetDays : targets'[d] \in TargetRows /\ RowAllowed(d, targets'[d].to)
    BY <1>2, ClearRow
  <2>2. targets' \in [TargetDays -> TargetRows]
    BY <1>2, <2>1 DEF ClearTarget, EndedOn
  <2>3. QED BY <1>2, <2>1, <2>2 DEF TargetsTypeOK, ClearTarget, TargetRows
<1>3. CASE UNCHANGED targets /\ (LocalMidnight \/ UtcMidnight \/ UNCHANGED targetVars)
  BY <1>3, DaysAssumption DEF TargetsTypeOK, LocalMidnight, UtcMidnight, targetVars, TargetDays
<1>4. QED BY <1>1, <1>2, <1>3, Steps

(* Every row is one the table's CHECK accepts, so no call is refused but    *)
(* the clear of a target that has not started.                              *)
THEOREM TargetsTypeCorrect == TargetsSpec => []TargetsTypeOK
<1>1. QED BY TargetsTypeInit, TargetsTypeStep, PTL DEF TargetsSpec

-----------------------------------------------------------------------------
(* Setting a target never leaves a judged day unjudged, whatever its date.  *)

LEMMA SetStep ==
  ASSUME TargetsTypeOK, [TargetsNext]_targetVars, cleared' = 0, NEW d \in TargetDays, InForce(targets, d) # {}
  PROVE  InForce(targets', d) # {}
<1>1. PICK a \in TargetDays : IsEffectiveOn(targets, a, d)
  BY DEF InForce
<1>2. ASSUME NEW verdict \in Verdicts, NEW from \in TargetDays, SetTarget(verdict, from)
      PROVE  InForce(targets', d) # {}
  <2>1. CASE from <= d
    <3>1. targets'[from] = [verdict |-> verdict, to |-> Open]
      BY <1>2, SetRow DEF SetTarget
    <3>2. verdict # "none"
      BY DEF Verdicts
    <3>3. IsEffectiveOn(targets', from, d)
      BY <2>1, <3>1, <3>2 DEF IsEffectiveOn, Exists, NoTarget
    <3>4. QED BY <3>3 DEF InForce
  <2>2. CASE ~(from <= d)
    <3>1. a # from /\ a <= d /\ d <= from - 1
      BY <1>1, <2>2, DaysAreNat DEF IsEffectiveOn
    <3>2. CASE IsOpen(targets, a) /\ a < from
      <4>1. targets'[a].to = from - 1 /\ targets'[a].verdict = targets[a].verdict
        BY <1>2, <3>1, <3>2, SetRow DEF SetTarget
      <4>2. targets'[a] # NoTarget
        <5>1. from - 1 # Open
          BY <3>2, DaysAreNat DEF Open
        <5>2. NoTarget.to = Open
          BY DEF NoTarget
        <5>3. QED BY <4>1, <5>1, <5>2
      <4>3. IsEffectiveOn(targets', a, d)
        BY <3>1, <4>1, <4>2 DEF IsEffectiveOn, Exists
      <4>4. QED BY <4>3 DEF InForce
    <3>3. CASE ~(IsOpen(targets, a) /\ a < from)
      <4>1. targets'[a] = targets[a]
        BY <1>2, <3>1, <3>3, SetRow DEF SetTarget
      <4>2. QED BY <1>1, <4>1 DEF InForce, IsEffectiveOn, Exists
    <3>4. QED BY <3>2, <3>3
  <2>3. QED BY <2>1, <2>2
<1>3. CASE ClearTarget
  BY <1>3, DaysAreNat DEF ClearTarget, TargetsTypeOK
<1>4. CASE UNCHANGED targets
  BY <1>4
<1>5. QED BY <1>2, <1>3, <1>4, Steps

(* Setting a target, on any date and after any history, leaves every day    *)
(* that was judged judged.                                                  *)
THEOREM SettingKeepsJudging == TargetsSpec => SetNeverUnjudges
<1>1. TargetsTypeOK /\ [TargetsNext]_targetVars =>
        [cleared' = 0 => \A d \in TargetDays :
           InForce(targets, d) # {} => InForce(targets', d) # {}]_targetVars
  BY SetStep
<1>2. QED BY <1>1, TargetsTypeInit, TargetsTypeStep, PTL DEF TargetsSpec, SetNeverUnjudges

-----------------------------------------------------------------------------
(* A clear that is accepted stops the judging.  The reason is the chain the *)
(* targets form: one that has been closed ends before a target that is      *)
(* still open, or has ended by today.  So when nothing open starts later    *)
(* than today, nothing closed ends later either.                            *)

Closed(a) == Exists(targets, a) /\ targets[a].to # Open

ChainInv ==
  /\ TargetsTypeOK
  /\ \A a \in TargetDays : Closed(a) =>
       \/ targets[a].to <= utcDay
       \/ \E b \in TargetDays : IsOpen(targets, b) /\ targets[a].to < b
  /\ cleared # 0 => /\ cleared <= utcDay
                    /\ \A a \in TargetDays : Exists(targets, a) =>
                         targets[a].to # Open /\ targets[a].to <= cleared

LEMMA ChainInit == TargetsInit => ChainInv
BY TargetsTypeInit DEF TargetsInit, ChainInv, Closed, Exists

LEMMA ChainStep == ChainInv /\ [TargetsNext]_targetVars => ChainInv'
<1> SUFFICES ASSUME ChainInv, [TargetsNext]_targetVars PROVE ChainInv'
  OBVIOUS
<1>0. TargetsTypeOK /\ TargetsTypeOK' /\ utcDay \in Nat /\ \A a \in TargetDays : targets[a].to \in Nat
  BY TargetsTypeStep, DaysAreNat DEF ChainInv, TargetsTypeOK, Open
<1>1. ASSUME NEW verdict \in Verdicts, NEW from \in TargetDays, SetTarget(verdict, from)
      PROVE  ChainInv'
  <2>1. IsOpen(targets', from)
    <3>1. targets'[from] = [verdict |-> verdict, to |-> Open] /\ verdict # "none"
      BY <1>0, <1>1, SetRow DEF SetTarget, Verdicts
    <3>2. QED BY <3>1 DEF IsOpen, Exists, NoTarget
  <2>2. \A b \in TargetDays : IsOpen(targets, b) => IsOpen(targets', b) \/ b < from
    <3> SUFFICES ASSUME NEW b \in TargetDays, IsOpen(targets, b), ~(b < from)
                 PROVE  IsOpen(targets', b)
      OBVIOUS
    <3>1. CASE b = from BY <2>1, <3>1
    <3>2. CASE b # from
      <4>1. targets'[b] = targets[b]
        BY <1>0, <1>1, <3>2, SetRow DEF SetTarget
      <4>2. QED BY <4>1 DEF IsOpen, Exists
    <3>3. QED BY <3>1, <3>2
  <2>3. ASSUME NEW a \in TargetDays, Closed(a)'
        PROVE  \/ targets'[a].to <= utcDay
               \/ \E b \in TargetDays : IsOpen(targets', b) /\ targets'[a].to < b
    <3>1. a # from
      BY <2>1, <2>3 DEF Closed, IsOpen
    <3>2. CASE IsOpen(targets, a) /\ a < from
      <4>1. targets'[a].to = from - 1
        BY <1>0, <1>1, <3>1, <3>2, SetRow DEF SetTarget
      <4>2. QED BY <2>1, <4>1, DaysAreNat
    <3>3. CASE ~(IsOpen(targets, a) /\ a < from)
      <4>1. targets'[a] = targets[a]
        BY <1>0, <1>1, <3>1, <3>3, SetRow DEF SetTarget
      <4>2. Closed(a)
        BY <2>3, <4>1 DEF Closed, Exists
      <4>3. CASE targets[a].to <= utcDay
        BY <4>1, <4>3
      <4>4. CASE \E b \in TargetDays : IsOpen(targets, b) /\ targets[a].to < b
        <5>1. PICK b \in TargetDays : IsOpen(targets, b) /\ targets[a].to < b
          BY <4>4
        <5>2. targets'[a].to < b /\ targets'[a].to \in Nat
          BY <1>0, <4>1, <5>1
        <5>3. CASE IsOpen(targets', b)
          BY <5>2, <5>3
        <5>4. CASE b < from
          <6>1. targets'[a].to < from
            BY <5>2, <5>4, DaysAreNat
          <6>2. QED BY <2>1, <6>1
        <5>5. QED BY <2>2, <5>1, <5>3, <5>4
      <4>5. QED BY <4>2, <4>3, <4>4 DEF ChainInv
    <3>4. QED BY <3>2, <3>3
  <2>4. cleared' = 0 /\ utcDay' = utcDay
    BY <1>1 DEF SetTarget
  <2>5. QED BY <1>0, <2>3, <2>4 DEF ChainInv
<1>2. CASE ClearTarget
  <2>1. utcDay' = utcDay /\ cleared' = utcDay
    BY <1>2 DEF ClearTarget
  <2>2. ASSUME NEW a \in TargetDays, Exists(targets', a)
        PROVE  targets'[a].to # Open /\ targets'[a].to <= utcDay
    <3>1. CASE IsOpen(targets, a)
      <4>1. targets'[a].to = utcDay /\ utcDay \in Nat \ {0}
        BY <1>0, <1>2, <3>1, ClearRow, DaysAreNat DEF TargetsTypeOK
      <4>2. QED BY <4>1 DEF Open
    <3>2. CASE ~IsOpen(targets, a)
      <4>1. targets'[a] = targets[a]
        BY <1>0, <1>2, <3>2, ClearRow
      <4>2. Closed(a)
        BY <2>2, <3>2, <4>1 DEF Closed, IsOpen, Exists
      <4>3. ASSUME NEW b \in TargetDays, IsOpen(targets, b), targets[a].to < b
            PROVE  targets[a].to <= utcDay
        <5>1. b <= utcDay
          BY <1>0, <1>2, <4>3, DaysAreNat DEF ClearTarget, RowAllowed, Open, TargetsTypeOK
        <5>2. QED BY <1>0, <4>3, <5>1, DaysAreNat
      <4>4. targets[a].to <= utcDay
        BY <4>2, <4>3 DEF ChainInv
      <4>5. QED BY <4>1, <4>2, <4>4 DEF Closed
    <3>3. QED BY <3>1, <3>2
  <2>3. QED BY <1>0, <2>1, <2>2 DEF ChainInv, Closed
<1>3. CASE UNCHANGED targets /\ (LocalMidnight \/ UtcMidnight \/ UNCHANGED targetVars)
  <2>1. cleared' = cleared /\ utcDay' >= utcDay /\ utcDay' \in Nat /\ cleared \in Nat
    BY <1>0, <1>3, DaysAreNat DEF LocalMidnight, UtcMidnight, targetVars, TargetsTypeOK
  <2>2. \A a \in TargetDays : targets'[a] = targets[a]
    BY <1>3
  <2>3. \A a \in TargetDays : Closed(a)' => Closed(a)
    BY <2>2 DEF Closed, Exists
  <2>4. \A a \in TargetDays : targets[a].to <= utcDay => targets[a].to <= utcDay'
    BY <1>0, <2>1
  <2>5. cleared <= utcDay => cleared <= utcDay'
    BY <1>0, <2>1
  <2>6. QED BY <1>0, <1>3, <2>1, <2>2, <2>3, <2>4, <2>5 DEF ChainInv, Exists, IsOpen
<1>4. QED BY <1>0, <1>1, <1>2, <1>3, Steps

(* Once a clear has been accepted, no later day is judged until a target is *)
(* set again, also when the script has dated targets in the future.         *)
THEOREM ClearStopsJudging == TargetsSpec => []ClearedIsNotJudged
<1>1. ASSUME ChainInv PROVE ClearedIsNotJudged
  <2> SUFFICES ASSUME cleared # 0, NEW d \in TargetDays, d > cleared, NEW a \in TargetDays,
                      IsEffectiveOn(targets, a, d)
               PROVE  FALSE
    BY DEF ClearedIsNotJudged, InForce
  <2>1. targets[a].to # Open /\ targets[a].to <= cleared /\ targets[a].to >= d
    BY <1>1 DEF ChainInv, IsEffectiveOn
  <2>2. targets[a].to \in Nat /\ cleared \in Nat /\ d \in Nat
    BY <1>1, DaysAreNat DEF ChainInv, TargetsTypeOK, Open
  <2>3. QED BY <2>1, <2>2
<1>2. QED BY <1>1, ChainInit, ChainStep, PTL DEF TargetsSpec

-----------------------------------------------------------------------------
(* While every target was set for the day of the call, none lies in the     *)
(* future and setting one closes all the others.                            *)

SetInOrder ==
  /\ \A a \in TargetDays : Exists(targets, a) => a <= utcDay /\ targets[a].to <= utcDay
  /\ \A a, b \in TargetDays : IsOpen(targets, a) /\ IsOpen(targets, b) => a = b

PageInv ==
  /\ TargetsTypeOK
  /\ ~redated => SetInOrder

LEMMA PageInit == TargetsInit => PageInv
BY TargetsTypeInit DEF TargetsInit, PageInv, SetInOrder, Exists, IsOpen

LEMMA PageStep == PageInv /\ [TargetsNext]_targetVars => PageInv'
<1> SUFFICES ASSUME PageInv, [TargetsNext]_targetVars, ~redated' PROVE PageInv'
  BY TargetsTypeStep DEF PageInv
<1>a. SetInOrder
  BY DEF PageInv, TargetsNext, targetVars, SetFromToday, SetFromScript, SetTarget, ClearTarget, LocalMidnight, UtcMidnight
<1>0. TargetsTypeOK /\ TargetsTypeOK' /\ utcDay \in Nat \ {0} /\ \A a \in TargetDays : targets[a].to \in Nat
  BY TargetsTypeStep, DaysAreNat DEF PageInv, TargetsTypeOK, Open
<1>1. ASSUME NEW verdict \in Verdicts, SetTarget(verdict, utcDay), utcDay \in TargetDays
      PROVE  PageInv'
  <2>1. \A a \in TargetDays : /\ a = utcDay => targets'[a].to = Open
                              /\ a # utcDay /\ IsOpen(targets, a) => targets'[a].to = utcDay - 1
                              /\ a # utcDay /\ ~IsOpen(targets, a) => targets'[a] = targets[a]
    <3> SUFFICES ASSUME NEW a \in TargetDays
                 PROVE  /\ a = utcDay => targets'[a].to = Open
                        /\ a # utcDay /\ IsOpen(targets, a) => targets'[a].to = utcDay - 1
                        /\ a # utcDay /\ ~IsOpen(targets, a) => targets'[a] = targets[a]
      OBVIOUS
    <3>1. a # utcDay /\ IsOpen(targets, a) => a < utcDay
      <4> SUFFICES ASSUME a # utcDay, IsOpen(targets, a) PROVE a < utcDay
        OBVIOUS
      <4>1. a <= utcDay
        BY <1>a DEF SetInOrder, IsOpen
      <4>2. a \in Nat /\ utcDay \in Nat
        BY <1>0, DaysAreNat
      <4>3. QED BY <4>1, <4>2
    <3>2. CASE a = utcDay
      <4>1. targets'[utcDay] = [verdict |-> verdict, to |-> Open]
        BY <1>0, <1>1, SetRow DEF SetTarget
      <4>2. QED BY <3>2, <4>1
    <3>3. CASE a # utcDay /\ IsOpen(targets, a)
      <4>1. targets'[a].to = utcDay - 1
        BY <1>0, <1>1, <3>1, <3>3, SetRow DEF SetTarget
      <4>2. QED BY <3>3, <4>1
    <3>4. CASE a # utcDay /\ ~IsOpen(targets, a)
      <4>1. targets'[a] = targets[a]
        BY <1>0, <1>1, <3>4, SetRow DEF SetTarget
      <4>2. QED BY <3>4, <4>1
    <3>5. QED BY <3>2, <3>3, <3>4
  <2>2. ASSUME NEW a \in TargetDays, Exists(targets', a)
        PROVE  /\ a <= utcDay /\ targets'[a].to <= utcDay
               /\ targets'[a].to = Open => a = utcDay
    <3>1. CASE a = utcDay
      BY <1>0, <2>1, <3>1 DEF Open
    <3>2. CASE a # utcDay /\ IsOpen(targets, a)
      <4>1. a < utcDay /\ targets'[a].to = utcDay - 1
        BY <1>0, <2>1, <3>2, <1>a, DaysAreNat DEF SetInOrder, IsOpen
      <4>2. QED BY <1>0, <4>1, DaysAreNat DEF Open
    <3>3. CASE a # utcDay /\ ~IsOpen(targets, a)
      <4>1. targets'[a] = targets[a]
        BY <2>1, <3>3
      <4>2. QED BY <2>2, <3>3, <4>1, <1>a DEF SetInOrder, Exists, IsOpen
    <3>4. QED BY <3>1, <3>2, <3>3
  <2>3. utcDay' = utcDay
    BY <1>1 DEF SetTarget
  <2>4. QED BY <1>0, <2>2, <2>3 DEF PageInv, SetInOrder, IsOpen
<1>2. CASE ClearTarget
  <2>1. utcDay' = utcDay
    BY <1>2 DEF ClearTarget
  <2>2. ASSUME NEW a \in TargetDays, Exists(targets', a)
        PROVE  a <= utcDay /\ targets'[a].to <= utcDay /\ targets'[a].to # Open
    <3>1. CASE IsOpen(targets, a)
      <4>1. targets'[a].to = utcDay
        BY <1>0, <1>2, <3>1, ClearRow
      <4>2. QED BY <1>0, <3>1, <4>1, <1>a DEF SetInOrder, IsOpen, Open
    <3>2. CASE ~IsOpen(targets, a)
      <4>1. targets'[a] = targets[a]
        BY <1>0, <1>2, <3>2, ClearRow
      <4>2. QED BY <2>2, <3>2, <4>1, <1>a DEF SetInOrder, Exists, IsOpen
    <3>3. QED BY <3>1, <3>2
  <2>3. QED BY <1>0, <2>1, <2>2 DEF PageInv, SetInOrder, IsOpen
<1>3. CASE UNCHANGED targets /\ (LocalMidnight \/ UtcMidnight \/ UNCHANGED targetVars)
  <2>1. utcDay' >= utcDay /\ utcDay' \in Nat
    BY <1>0, <1>3 DEF LocalMidnight, UtcMidnight, targetVars
  <2>2. ASSUME NEW a \in TargetDays, a <= utcDay PROVE a <= utcDay'
    BY <1>0, <2>1, <2>2, DaysAreNat
  <2>3. ASSUME NEW a \in TargetDays, targets[a].to <= utcDay PROVE targets[a].to <= utcDay'
    BY <1>0, <2>1, <2>3
  <2>4. QED BY <1>0, <1>3, <2>2, <2>3, <1>a DEF PageInv, SetInOrder, Exists, IsOpen
<1>4. QED BY <1>0, <1>1, <1>2, <1>3, Steps DEF SetTarget, TargetsTypeOK

(* As long as targets are set for the day of the call, at most one is in    *)
(* force on any day after today, over every sequence of sets and clears.    *)
THEOREM PageLeavesOneTarget == TargetsSpec => []OneTargetFromTomorrow
<1>1. ASSUME PageInv, ~redated PROVE OneTargetFromTomorrow
  <2> SUFFICES ASSUME NEW d \in TargetDays, d > utcDay,
                      NEW a \in InForce(targets, d), NEW b \in InForce(targets, d)
               PROVE  a = b
    BY DEF OneTargetFromTomorrow
  <2>0. SetInOrder
    BY <1>1 DEF PageInv
  <2>1. ASSUME NEW c \in InForce(targets, d) PROVE c \in TargetDays /\ IsOpen(targets, c)
    <3>1. c \in TargetDays /\ Exists(targets, c) /\ (targets[c].to = Open \/ targets[c].to >= d)
      BY <2>1 DEF InForce, IsEffectiveOn
    <3>2. targets[c].to <= utcDay /\ targets[c].to \in Nat /\ utcDay \in Nat
      BY <1>1, <2>0, <3>1, DaysAreNat DEF PageInv, SetInOrder, TargetsTypeOK, Open
    <3>3. QED BY <3>1, <3>2, DaysAreNat DEF IsOpen
  <2>2. QED BY <2>0, <2>1 DEF SetInOrder
<1>2. PageInv => OneTargetFromTomorrow
  BY <1>1 DEF OneTargetFromTomorrow
<1>3. QED BY <1>2, PageInit, PageStep, PTL DEF TargetsSpec

-----------------------------------------------------------------------------
(* The past.  A set dated after a day, and every clear, only closes targets *)
(* on that day or later, and closing one then leaves the day as it was.     *)

LEMMA SameJudgement ==
  ASSUME NEW d \in TargetDays,
         \A a \in TargetDays : /\ IsEffectiveOn(targets', a, d) <=> IsEffectiveOn(targets, a, d)
                               /\ IsEffectiveOn(targets, a, d) =>
                                   targets'[a].verdict = targets[a].verdict
  PROVE  EvaluateMetric(targets', d) = EvaluateMetric(targets, d)
<1>1. InForce(targets', d) = InForce(targets, d)
  BY DEF InForce
<1>2. {targets'[a].verdict : a \in InForce(targets', d)}
        = {targets[a].verdict : a \in InForce(targets, d)}
  BY <1>1 DEF InForce
<1>3. QED BY <1>2 DEF EvaluateMetric

LEMMA ClosedLater ==
  ASSUME NEW d \in TargetDays, NEW last \in Nat, d <= last, NEW a \in TargetDays, a <= d,
         IsOpen(targets, a), targets'[a].to = last,
         targets'[a].verdict = targets[a].verdict
  PROVE  IsEffectiveOn(targets', a, d) /\ IsEffectiveOn(targets, a, d)
<1>1. last # Open
  BY DaysAreNat DEF Open
<1>2. targets'[a] # NoTarget
  BY <1>1 DEF NoTarget
<1>3. QED BY <1>2 DEF IsEffectiveOn, Exists, IsOpen

LEMMA SetKeepsEarlier ==
  ASSUME TargetsTypeOK, NEW d \in TargetDays, NEW from \in TargetDays, d < from,
         NEW verdict \in Verdicts, SetTarget(verdict, from)
  PROVE  EvaluateMetric(targets', d) = EvaluateMetric(targets, d)
<1> SUFFICES ASSUME NEW a \in TargetDays
             PROVE  /\ IsEffectiveOn(targets', a, d) <=> IsEffectiveOn(targets, a, d)
                    /\ IsEffectiveOn(targets, a, d) => targets'[a].verdict = targets[a].verdict
  BY SameJudgement
<1>0. a \in Nat /\ d \in Nat \ {0} /\ from \in Nat
  BY DaysAreNat
<1>1. CASE a > d
  <2>1. ~(a <= d)
    BY <1>0, <1>1
  <2>2. QED BY <2>1 DEF IsEffectiveOn
<1>2. CASE a <= d /\ IsOpen(targets, a)
  <2>1. a # from /\ a < from
    BY <1>0, <1>2
  <2>2. targets'[a].to = from - 1 /\ targets'[a].verdict = targets[a].verdict
    BY <1>2, <2>1, SetRow DEF SetTarget
  <2>3. from - 1 \in Nat /\ d <= from - 1
    BY <1>0
  <2>4. QED BY <1>2, <2>2, <2>3, ClosedLater
<1>3. CASE a <= d /\ ~IsOpen(targets, a)
  <2>1. a # from
    BY <1>0, <1>3
  <2>2. targets'[a] = targets[a]
    BY <1>3, <2>1, SetRow DEF SetTarget
  <2>3. QED BY <2>2 DEF IsEffectiveOn, Exists
<1>4. QED BY <1>0, <1>1, <1>2, <1>3

LEMMA ClearKeepsEarlier ==
  ASSUME TargetsTypeOK, NEW d \in TargetDays, d <= utcDay, ClearTarget
  PROVE  EvaluateMetric(targets', d) = EvaluateMetric(targets, d)
<1> SUFFICES ASSUME NEW a \in TargetDays
             PROVE  /\ IsEffectiveOn(targets', a, d) <=> IsEffectiveOn(targets, a, d)
                    /\ IsEffectiveOn(targets, a, d) => targets'[a].verdict = targets[a].verdict
  BY SameJudgement
<1>0. a \in Nat /\ d \in Nat \ {0} /\ utcDay \in Nat
  BY DaysAreNat DEF TargetsTypeOK
<1>1. CASE a > d
  <2>1. ~(a <= d)
    BY <1>0, <1>1
  <2>2. QED BY <2>1 DEF IsEffectiveOn
<1>2. CASE a <= d /\ IsOpen(targets, a)
  <2>1. targets'[a].to = utcDay /\ targets'[a].verdict = targets[a].verdict
    BY <1>2, ClearRow
  <2>2. QED BY <1>0, <1>2, <2>1, ClosedLater
<1>3. CASE a <= d /\ ~IsOpen(targets, a)
  <2>1. targets'[a] = targets[a]
    BY <1>3, ClearRow
  <2>2. QED BY <2>1 DEF IsEffectiveOn, Exists
<1>4. QED BY <1>0, <1>1, <1>2, <1>3

(* A day that is over for those who read the dashboard is restated only by  *)
(* the script's --set dated on or before it, and, of the page's writes, by  *)
(* a target set between the organisation's midnight and UTC's, which        *)
(* restates the day just over: no clear restates one, at any hour.          *)
THEOREM PastIsKept == TargetsSpec => OnlyTheNightHourRestates
<1> DEFINE Kept(d) ==
      d < utcDay + ahead =>
        \/ SameVerdict(d) \/ DatedBackByScript(d)
        \/ ahead = 1 /\ d = utcDay /\ SetFromToday
<1>1. ASSUME TargetsTypeOK, [TargetsNext]_targetVars, NEW d \in TargetDays PROVE Kept(d)
  <2> SUFFICES ASSUME d < utcDay + ahead
               PROVE  \/ SameVerdict(d) \/ DatedBackByScript(d)
                      \/ ahead = 1 /\ d = utcDay /\ SetFromToday
    OBVIOUS
  <2>0. d \in Nat /\ utcDay \in Nat /\ ahead \in {0, 1}
    BY <1>1, DaysAreNat DEF TargetsTypeOK
  <2>1. d <= utcDay /\ (d = utcDay => ahead = 1)
    BY <2>0
  <2>2. ASSUME NEW verdict \in Verdicts, NEW from \in TargetDays,
               SetTarget(verdict, from), from = utcDay \/ from \in ScriptDates
        PROVE  \/ SameVerdict(d) \/ DatedBackByScript(d)
               \/ ahead = 1 /\ d = utcDay /\ SetFromToday
    <3>1. CASE d < from
      BY <1>1, <2>2, <3>1, SetKeepsEarlier DEF SameVerdict
    <3>2. CASE from <= d /\ from \in ScriptDates
      BY <2>2, <3>2 DEF DatedBackByScript
    <3>3. CASE from <= d /\ from = utcDay
      <4>1. d = utcDay /\ ahead = 1
        BY <2>0, <2>1, <3>3
      <4>2. QED BY <2>2, <3>3, <4>1 DEF SetFromToday
    <3>4. from \in Nat
      BY DaysAreNat
    <3>5. QED BY <2>0, <2>2, <3>1, <3>2, <3>3, <3>4
  <2>3. CASE ClearTarget
    BY <1>1, <2>1, <2>3, ClearKeepsEarlier DEF SameVerdict
  <2>4. CASE UNCHANGED targets
    BY <2>4 DEF SameVerdict
  <2>5. QED BY <1>1, <2>2, <2>3, <2>4, Steps
<1>2. TargetsTypeOK /\ [TargetsNext]_targetVars =>
        [\A d \in TargetDays :
           d < utcDay + ahead =>
             \/ SameVerdict(d) \/ DatedBackByScript(d)
             \/ ahead = 1 /\ d = utcDay /\ SetFromToday]_targetVars
  BY <1>1
<1>3. QED BY <1>2, TargetsTypeInit, TargetsTypeStep, PTL
          DEF TargetsSpec, OnlyTheNightHourRestates
=============================================================================
