---------------------------- MODULE MetricTargets ----------------------------
(***************************************************************************)
(* The dated targets of one metric: set_metric_target and                  *)
(* clear_metric_target (migration 0011), called by the settings page       *)
(* (lib/settings/metric-targets.ts), which always dates its writes today,  *)
(* and by the seed script, which may pass any --from; and how a figure is  *)
(* judged against them (effective-dating.ts, targets.ts, alerts.ts).       *)
(*                                                                         *)
(* The figure judged does not move here, so a target is told by its        *)
(* verdict on that figure: met, or breached with its severity.  Writers    *)
(* take today from UTC; readers take the date of the organisation's zone.  *)
(***************************************************************************)
EXTENDS Integers

CONSTANTS
  LastTargetDay,  \* bound: the days modelled are 1 .. LastTargetDay
  ScriptDates,    \* the dates the seed script is given with --from
  SummerTime      \* TRUE: the organisation's day begins before the UTC day

ASSUME DaysAssumption == LastTargetDay \in Nat \ {0}
ASSUME ScriptAssumption == ScriptDates \subseteq 1 .. LastTargetDay
ASSUME ZoneAssumption == SummerTime \in BOOLEAN

TargetDays == 1 .. LastTargetDay
Verdicts == {"met", "amber", "red"}
Open == 0                                  \* effective_to is null
NoTarget == [verdict |-> "none", to |-> Open]

VARIABLES
  targets,  \* metric_targets of the metric, by effective_from
  utcDay,   \* new Date().toISOString() and current_date
  ahead,    \* 1 while the organisation's day is already the next one
  cleared,  \* history: day of the clear that no target was set after, or 0
  redated   \* history: a target was set for another day than that of the call

targetVars == <<targets, utcDay, ahead, cleared, redated>>

Exists(t, from) == t[from] # NoTarget
IsOpen(t, from) == Exists(t, from) /\ t[from].to = Open

(* The table's CHECK (effective_to is null or effective_to >= effective_from). *)
RowAllowed(from, to) == to = Open \/ to >= from

TargetsTypeOK ==
  /\ targets \in [TargetDays -> [verdict : Verdicts \cup {"none"}, to : {Open} \cup Nat]]
  /\ \A d \in TargetDays : RowAllowed(d, targets[d].to)
  /\ utcDay \in TargetDays
  /\ ahead \in {0, 1}
  /\ cleared \in {0} \cup TargetDays
  /\ redated \in BOOLEAN

TargetsInit ==
  /\ targets = [d \in TargetDays |-> NoTarget]
  /\ utcDay = 1
  /\ ahead = 0
  /\ cleared = 0
  /\ redated = FALSE

-----------------------------------------------------------------------------
(* Reading.                                                                 *)

IsEffectiveOn(t, from, d) ==
  Exists(t, from) /\ from <= d /\ (t[from].to = Open \/ t[from].to >= d)

InForce(t, d) == {from \in TargetDays : IsEffectiveOn(t, from, d)}

(* evaluateMetric: the most severe breach, green when there is none.        *)
EvaluateMetric(t, d) ==
  LET verdicts == {t[from].verdict : from \in InForce(t, d)} IN
  IF "red" \in verdicts THEN "red" ELSE IF "amber" \in verdicts THEN "amber" ELSE "green"

-----------------------------------------------------------------------------
(* Writing.  Each function body is one transaction.                         *)

(* Faulty: leaves the target in force open.                                 *)
WithTargetNotClosed(t, verdict, from) ==
  [t EXCEPT ![from] = [verdict |-> verdict, to |-> Open]]

(* Faulty: closes the target in force a day too early.                      *)
WithTargetClosedEarly(t, verdict, from) ==
  [d \in TargetDays |->
     IF d = from THEN [verdict |-> verdict, to |-> Open]
     ELSE IF IsOpen(t, d) /\ d < from THEN [t[d] EXCEPT !.to = from - 2]
     ELSE t[d]]

(* set_metric_target: closes the open targets that started earlier the day  *)
(* before, and upserts the one that starts on `from`.                       *)
WithTarget(t, verdict, from) ==
  [d \in TargetDays |->
     IF d = from THEN [verdict |-> verdict, to |-> Open]
     ELSE IF IsOpen(t, d) /\ d < from THEN [t[d] EXCEPT !.to = from - 1]
     ELSE t[d]]

SetTarget(verdict, from) ==
  /\ targets' = WithTarget(targets, verdict, from)
  /\ cleared' = 0
  /\ redated' = (redated \/ from # utcDay)
  /\ UNCHANGED <<utcDay, ahead>>

(* The settings page: effectiveFrom is not given, so it is today.           *)
SetFromToday == \E verdict \in Verdicts : SetTarget(verdict, utcDay)

(* The seed script: --set with --from.                                      *)
SetFromScript == \E verdict \in Verdicts, from \in ScriptDates : SetTarget(verdict, from)

(* Faulty: ends only a target that started before today.                    *)
EndedBefore(t, today) ==
  [d \in TargetDays |-> IF IsOpen(t, d) /\ d < today THEN [t[d] EXCEPT !.to = today] ELSE t[d]]

(* Faulty: deletes the target instead of end-dating it.                     *)
Deleted(t, today) == [d \in TargetDays |-> IF IsOpen(t, d) THEN NoTarget ELSE t[d]]

EndedOn(t, today) ==
  [d \in TargetDays |-> IF IsOpen(t, d) THEN [t[d] EXCEPT !.to = today] ELSE t[d]]

(* clear_metric_target, and the script's --unset: end-dates every open      *)
(* target today.  The table's CHECK rejects the statement, and with it the  *)
(* whole call, when one of them starts later.                               *)
ClearTarget ==
  /\ \A d \in TargetDays : IsOpen(targets, d) => RowAllowed(d, utcDay)
  /\ targets' = EndedOn(targets, utcDay)
  /\ cleared' = utcDay
  /\ UNCHANGED <<utcDay, ahead, redated>>

-----------------------------------------------------------------------------
(* Midnight in the organisation's zone, then in UTC.                        *)

LocalMidnight == /\ SummerTime
                 /\ ahead = 0
                 /\ utcDay < LastTargetDay
                 /\ ahead' = 1
                 /\ UNCHANGED <<targets, utcDay, cleared, redated>>

UtcMidnight == /\ SummerTime => ahead = 1
               /\ utcDay < LastTargetDay
               /\ utcDay' = utcDay + 1
               /\ ahead' = 0
               /\ UNCHANGED <<targets, cleared, redated>>

TargetsNext == SetFromToday \/ SetFromScript \/ ClearTarget \/ LocalMidnight \/ UtcMidnight

TargetsSpec == TargetsInit /\ [][TargetsNext]_targetVars
-----------------------------------------------------------------------------
(* Properties.                                                              *)

(* A replacement leaves neither none nor two: from tomorrow on at most one  *)
(* target is in force on any day, over every sequence of sets and clears,   *)
(* as long as targets are set for the day of the call, as the settings page *)
(* sets them.  (Today itself may be judged by two: clearing ends a target   *)
(* with today, and one set the same day starts today.)                      *)
OneTargetFromTomorrow ==
  ~redated => \A d \in TargetDays : d > utcDay =>
                \A a, b \in InForce(targets, d) : a = b

(* The script's --set may be dated back to any day, on purpose.             *)
DatedBackByScript(d) ==
  \E verdict \in Verdicts, from \in ScriptDates : from <= d /\ SetTarget(verdict, from)

SameVerdict(d) == EvaluateMetric(targets', d) = EvaluateMetric(targets, d)

(* "Dated today, so a change does not silently restate periods already      *)
(* reported" (metric-targets.ts): how a day that is over for those who read *)
(* the dashboard is judged changes only by the script's --set with a date   *)
(* on or before that day.                                                   *)
ReportedStands ==
  [][\A d \in TargetDays :
       d < utcDay + ahead => SameVerdict(d) \/ DatedBackByScript(d)]_targetVars

(* What holds of that: of the days that are over for the readers, the       *)
(* settings page restates at most one, yesterday, by a target set between   *)
(* the two midnights.  Clearing restates none, whatever the hour and        *)
(* whatever the script has dated before or after.                           *)
OnlyTheNightHourRestates ==
  [][\A d \in TargetDays :
       d < utcDay + ahead =>
         \/ SameVerdict(d) \/ DatedBackByScript(d)
         \/ ahead = 1 /\ d = utcDay /\ SetFromToday]_targetVars

(* "No longer judged": once clearing has been reported as done, no target   *)
(* is in force on a later day until one is set again.                       *)
ClearedIsNotJudged ==
  cleared # 0 => \A d \in TargetDays : d > cleared => InForce(targets, d) = {}

(* Setting a target never leaves the metric unjudged: every day that had a  *)
(* target in force before the call has one after it, whatever the date.     *)
SetNeverUnjudges ==
  [][cleared' = 0 => \A d \in TargetDays :
       InForce(targets, d) # {} => InForce(targets', d) # {}]_targetVars

=============================================================================
