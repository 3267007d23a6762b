----------------------------- MODULE MCDashboard -----------------------------
(***************************************************************************)
(* Small instances of what people start from the dashboard and the command *)
(* line: refreshes, saved reports and migrations.  They share no state: a  *)
(* behaviour is one of one of them, chosen at first, with the others at    *)
(* rest, and what is checked here together holds of each alone.            *)
(***************************************************************************)
EXTENDS MCRefresh, SavedReports, Migrations

VARIABLE desk

(* The first states of those at rest do not matter: one is enough.          *)
MCInit == /\ desk \in {"refresh", "reports", "schema"}
          /\ Init /\ ReportsInit /\ MigrationsInit
          /\ desk # "refresh" => approved /\ \A c \in Connected : readable[c]

MCNext ==
  /\ UNCHANGED desk
  /\ \/ desk = "refresh" /\ Next /\ UNCHANGED <<reportVars, migrationVars>>
     \/ desk = "reports" /\ ReportsNext /\ UNCHANGED <<vars, migrationVars>>
     \/ desk = "schema" /\ MigrationsNext /\ UNCHANGED <<vars, reportVars>>

MCSpec == MCInit /\ [][MCNext]_<<desk, vars, reportVars, migrationVars>>

(* Links that people follow and forms that they fill in.                    *)
Link(ms, g, t, from, to) ==
  [metrics |-> ms, grain |-> g, timeframe |-> t, from |-> from, to |-> to]
MCLinks == {Link(Metrics, Malformed, 2, Absent, Absent), Link({"b"}, 2, Malformed, 2, Absent),
            Link({"b", "c"}, 2, 2, 1, 2), Link({"c"}, Absent, Absent, 2, 1)}

(* One of the two runs an older checkout.                                   *)
MCCheckoutOf == [r \in Runners |-> IF r = "old" THEN {1, 2} ELSE Files]
=============================================================================
