--------------------------- MODULE DailyFinancials ---------------------------
(***************************************************************************)
(* Publishing daily figures: calculateAndPublish (lib/reporting/calculate) *)
(* reads the stored facts of a range of dates, computes their figures, and *)
(* replace_daily_financials (migration 0006) makes them the current rows   *)
(* of daily_financials.  The cron, the Refresh button and the calculation  *)
(* script all do this, and may do it at the same time.                     *)
(*                                                                         *)
(* A figure is told by the facts it was computed from: facts[d] counts the *)
(* changes to what day d is computed from, its costs included.  The SQL    *)
(* function is one transaction, at READ COMMITTED as PostgREST runs it:    *)
(* its UPDATE sees the rows of its snapshot and waits for row locks; its   *)
(* INSERT meets rows committed since.                                      *)
(*                                                                         *)
(* A refresh (lib/connectors/pipeline) calculates the days up to its today *)
(* that are in the recalculation window, the script the dates it is given. *)
(***************************************************************************)
EXTENDS Integers, FiniteSets

CONSTANTS
  Publishers,  \* processes inside calculateAndPublish
  LastDay,     \* bound: the days modelled are 1 .. LastDay
  RecalculationWindow,  \* RECALCULATION_WINDOW_DAYS
  Versions,    \* values CALCULATION_VERSION has, one per deployment
  VersionOf,   \* the version each publisher's build carries
  HandPicked,  \* the dates given to each publisher that is no refresh
  Scheduled,   \* the publishers that vercel.json starts again every day
  MaxEdits     \* bound: changes to the facts of one day

Days == 1 .. LastDay

ASSUME CalendarAssumption == /\ LastDay \in Nat \ {0}
                             /\ RecalculationWindow \in Nat \ {0}
ASSUME PublisherAssumption == /\ VersionOf \in [Publishers -> Versions]
                              /\ \A p \in DOMAIN HandPicked : HandPicked[p] \subseteq Days
ASSUME ScheduledAssumption == Scheduled \subseteq Publishers \ DOMAIN HandPicked
ASSUME EditsAssumption == MaxEdits \in Nat

NoFigure == -1

VARIABLES
  facts,     \* what each day's figures are computed from, as a count
  approved,  \* business_settings.financial_policy_status
  figure,    \* daily_financials, by day and version, as committed
  current,   \* is_current, by day and version, as committed
  businessDate,  \* toBusinessDate(new Date())
  step, range, seen,  \* each publisher, its dates and the facts it has loaded
  snapshot,  \* the current rows its UPDATE found
  stood      \* the rows its open transaction has stood down, and locks

table == <<figure, current>>
locals == <<step, range, seen, snapshot, stood>>
dailyVars == <<facts, approved, table, businessDate, locals>>

PublisherPoints == {"idle", "approved", "calculated", "updating", "inserting"}
Rows == Days \X Versions

DailyTypeOK ==
  /\ facts \in [Days -> Nat]
  /\ approved \in BOOLEAN
  /\ figure \in [Rows -> Nat \cup {NoFigure}]
  /\ current \subseteq Rows
  /\ businessDate \in Days
  /\ step \in [Publishers -> PublisherPoints]
  /\ range \in [Publishers -> SUBSET Days]
  /\ seen \in [Publishers -> [Days -> Nat]]
  /\ snapshot \in [Publishers -> SUBSET Rows]
  /\ stood \in [Publishers -> SUBSET Rows]

DailyInit ==
  /\ facts = [d \in Days |-> 0]
  /\ approved = FALSE
  /\ figure = [r \in Rows |-> NoFigure]
  /\ current = {}
  /\ businessDate = 1
  /\ step = [p \in Publishers |-> "idle"]
  /\ range = [p \in Publishers |-> {}]
  /\ seen = [p \in Publishers |-> [d \in Days |-> 0]]
  /\ snapshot = [p \in Publishers |-> {}]
  /\ stood = [p \in Publishers |-> {}]

Goto(p, next) == step' = [step EXCEPT ![p] = next]

-----------------------------------------------------------------------------
(* Around the calculation: imports, edits and restated costs change the     *)
(* facts of today or of a day gone by; the policy is approved once.         *)

ChangeFacts(d) ==
  /\ d <= businessDate
  /\ facts[d] < MaxEdits
  /\ facts' = [facts EXCEPT ![d] = @ + 1]
  /\ UNCHANGED <<approved, table, businessDate, locals>>

ApprovePolicy ==
  /\ ~approved
  /\ approved' = TRUE
  /\ UNCHANGED <<facts, table, businessDate, locals>>

Midnight ==
  /\ businessDate < LastDay
  /\ businessDate' = businessDate + 1
  /\ UNCHANGED <<facts, approved, table, locals>>

-----------------------------------------------------------------------------
(* calculateAndPublish.                                                     *)

(* The days that a refresh that begins now recalculates.                    *)
TrailingWindow ==
  {d \in Days : businessDate - RecalculationWindow < d /\ d <= businessDate}

(* Its dates are chosen once, and stand although midnight passes.           *)
RangeFor(p) == IF p \in DOMAIN HandPicked THEN HandPicked[p] ELSE TrailingWindow

(* not_approved returns before anything is read or written.                 *)
LoadPolicy(p) ==
  /\ step[p] = "idle"
  /\ approved
  /\ range' = [range EXCEPT ![p] = RangeFor(p)]
  /\ Goto(p, "approved")
  /\ UNCHANGED <<facts, approved, table, businessDate, seen, snapshot, stood>>

(* Faulty: keeps the facts an earlier run of the process loaded.            *)
CalculateOnce(p) ==
  /\ step[p] = "approved"
  /\ seen' = [seen EXCEPT ![p] = IF \E d \in Days : @[d] > 0 THEN @ ELSE facts]
  /\ Goto(p, "calculated")
  /\ UNCHANGED <<facts, approved, table, businessDate, range, snapshot, stood>>

(* loadFacts and buildReport.  The queries are taken as one reading: one    *)
(* torn by an import is as out of date as a reading made before it.         *)
Calculate(p) ==
  /\ step[p] = "approved"
  /\ seen' = [seen EXCEPT ![p] = facts]
  /\ Goto(p, "calculated")
  /\ UNCHANGED <<facts, approved, table, businessDate, range, snapshot, stood>>

Forgotten(p) == range' = [range EXCEPT ![p] = {}]

(* The process is killed, or a query throws, before the figures are sent.   *)
GiveUp(p) ==
  /\ step[p] \in {"approved", "calculated"}
  /\ Forgotten(p)
  /\ Goto(p, "idle")
  /\ UNCHANGED <<facts, approved, table, businessDate, seen, snapshot, stood>>

-----------------------------------------------------------------------------
(* replace_daily_financials.                                                *)

OfRange(p) == {r \in Rows : r[1] \in range[p]}
NewRow(p, d) == <<d, VersionOf[p]>>
Locked(r) == \E q \in Publishers : r \in stood[q]

(* An empty range publishes nothing.                                        *)
BeginUpdate(p) ==
  /\ step[p] = "calculated"
  /\ range[p] # {}
  /\ snapshot' = [snapshot EXCEPT ![p] = current \cap OfRange(p)]
  /\ Goto(p, "updating")
  /\ UNCHANGED <<facts, approved, table, businessDate, range, seen, stood>>

(* Faulty: stands the rows down in a call of its own.                       *)
StandDownCommitted(p) ==
  /\ step[p] = "updating"
  /\ \A r \in snapshot[p] : ~Locked(r)
  /\ current' = current \ snapshot[p]
  /\ Goto(p, "inserting")
  /\ UNCHANGED <<facts, approved, figure, businessDate, range, seen, snapshot, stood>>

(* The UPDATE waits for rows another transaction holds, then stands down    *)
(* those of its snapshot that are current still.                            *)
StandDown(p) ==
  /\ step[p] = "updating"
  /\ \A r \in snapshot[p] : ~Locked(r)
  /\ stood' = [stood EXCEPT ![p] = snapshot[p] \cap current]
  /\ Goto(p, "inserting")
  /\ UNCHANGED <<facts, approved, table, businessDate, range, seen, snapshot>>

(* Rows of another version that became current behind the UPDATE's back:    *)
(* daily_financials_current_idx does not let a second one in.               *)
Clashes(p) == {r \in (current \cap OfRange(p)) \ stood[p] : r[2] # VersionOf[p]}

Ended(p) == /\ stood' = [stood EXCEPT ![p] = {}]
            /\ snapshot' = [snapshot EXCEPT ![p] = {}]
            /\ Forgotten(p)
            /\ Goto(p, "idle")

(* The INSERT, or the update of the row this version already has; commit.   *)
PutUp(p) ==
  LET new == {NewRow(p, d) : d \in range[p]} IN
  /\ step[p] = "inserting"
  /\ Clashes(p) = {}
  /\ \A r \in new : ~Locked(r) \/ r \in stood[p]
  /\ figure' = [r \in Rows |-> IF r \in new THEN seen[p][r[1]] ELSE figure[r]]
  /\ current' = (current \ stood[p]) \cup new
  /\ Ended(p)
  /\ UNCHANGED <<facts, approved, businessDate, seen>>

(* Unique violation, once the transactions that hold the rows have ended:   *)
(* this one is rolled back and publish throws.                              *)
Refuse(p) ==
  /\ step[p] = "inserting"
  /\ Clashes(p) # {}
  /\ \A r \in Clashes(p) : ~Locked(r)
  /\ Ended(p)
  /\ UNCHANGED <<facts, approved, table, businessDate, seen>>

-----------------------------------------------------------------------------
CalculateAndPublish(p) ==
  LoadPolicy(p) \/ Calculate(p) \/ BeginUpdate(p) \/ StandDown(p) \/ PutUp(p) \/ Refuse(p)

DailyNext ==
  \/ \E d \in Days : ChangeFacts(d)
  \/ ApprovePolicy \/ Midnight
  \/ \E p \in Publishers : CalculateAndPublish(p) \/ GiveUp(p)

DailySpec == DailyInit /\ [][DailyNext]_dailyVars

(* A transaction the database began it carries through, and a row lock is   *)
(* handed to those waiting for it in turn.  The cron starts again every     *)
(* day, and not every one of its runs is lost: one that is tried again and  *)
(* again gets to the end.  The button and the script are not obliged to run *)
(* at all.                                                                  *)
FairDailySpec ==
  /\ DailySpec
  /\ \A p \in Publishers : SF_dailyVars(StandDown(p) \/ PutUp(p) \/ Refuse(p))
  /\ \A p \in Scheduled : /\ WF_dailyVars(LoadPolicy(p))
                          /\ SF_dailyVars(Calculate(p))
                          /\ SF_dailyVars(BeginUpdate(p))
-----------------------------------------------------------------------------
(* Properties.                                                              *)

CurrentOf(d) == {v \in Versions : <<d, v>> \in current}

(* A published day is never found without figures, nor with two sets of     *)
(* them, however publishers overlap (migration 0006: "either violates the   *)
(* index or leaves a window where the dashboard reads no data at all").     *)
PublishedDayStaysPublished ==
  [][\A d \in Days : CurrentOf(d) # {} => Cardinality(CurrentOf(d)') = 1]_dailyVars

Shown(d) == /\ CurrentOf(d) # {}
            /\ \A v \in CurrentOf(d) : figure[<<d, v>>] = facts[d]

(* A correction reaches the published figures: under an approved policy,    *)
(* once facts and calendar stand still, the current figures of every day in *)
(* the recalculation window are computed from its facts for good, although  *)
(* a slow publisher may have put older figures up in between, or figures of *)
(* a range that midnight has moved on.  A day that has left the window      *)
(* keeps what it has: no scheduled run looks at it again.                   *)
CorrectionsArePublished ==
  <>approved => \A d \in Days : <>[](d \in TrailingWindow => Shown(d))

(* "So a past period keeps the numbers that were published at the time even *)
(* after costs are restated" (lib/reporting/persist): a row that was put up *)
(* for a day now over keeps its figure.                                     *)
PastKeepsItsNumbers ==
  [][\A r \in Rows :
       r[1] < businessDate /\ figure[r] # NoFigure => figure'[r] = figure[r]]_dailyVars
=============================================================================
