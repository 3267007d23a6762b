----------------------------- MODULE MCPublished -----------------------------
(***************************************************************************)
(* Small instances of the way from a sync run to a figure that is judged:  *)
(* the runs, the publication of the daily figures, and the targets.  They  *)
(* share no state: a behaviour is one of one of them, chosen at first,     *)
(* with the others at rest, and what is checked here together holds of     *)
(* each alone.                                                             *)
(***************************************************************************)
EXTENDS MCSyncRuns, MetricTargets, MCDailyFinancials

VARIABLE shelf

MCInit == /\ shelf \in {"runs", "daily", "targets"}
          /\ Init /\ (shelf # "runs" => \A w \in Workers : job[w] = CHOOSE j \in JobKeys : TRUE)
          /\ DailyInit /\ TargetsInit

MCNext == \/ shelf = "runs" /\ Next /\ UNCHANGED <<shelf, dailyVars, targetVars>>
          \/ shelf = "daily" /\ DailyNext /\ UNCHANGED <<shelf, vars, targetVars>>
          \/ shelf = "targets" /\ TargetsNext /\ UNCHANGED <<shelf, vars, dailyVars>>

(* With the fairness of FairSpec and FairDailySpec.                         *)
MCSpec ==
  /\ MCInit
  /\ [][MCNext]_<<shelf, vars, dailyVars, targetVars>>
  /\ \A w \in Workers :
       /\ WF_vars(shelf = "runs" /\ RunOn(w))
       /\ WF_vars(shelf = "runs" /\ (ClaimTaken(w) \/ ClaimLost(w)))
  /\ WF_vars(shelf = "runs" /\ Tick)
  /\ \A p \in Publishers :
       SF_dailyVars(shelf = "daily" /\ (StandDown(p) \/ PutUp(p) \/ Refuse(p)))
  /\ \A p \in Scheduled : /\ WF_dailyVars(shelf = "daily" /\ LoadPolicy(p))
                          /\ SF_dailyVars(shelf = "daily" /\ Calculate(p))
                          /\ SF_dailyVars(shelf = "daily" /\ BeginUpdate(p))
=============================================================================
