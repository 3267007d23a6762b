-------------------------- MODULE MCDailyFinancials --------------------------
(* Small instances of DailyFinancials: the builds of the publishers, and    *)
(* the dates given by hand.                                                 *)
EXTENDS DailyFinancials

(* The script is run for all days by hand, from a newer checkout than the   *)
(* deployment the cron runs in.                                             *)
MCHandPicked == [p \in {"script"} |-> Days]
MCVersionOf == [p \in Publishers |-> IF p = "script" THEN "v2" ELSE "v1"]
=============================================================================
