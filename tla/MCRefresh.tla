------------------------------ MODULE MCRefresh ------------------------------
(* Small instances of Refresh: the discriminators of the refreshes' jobs.   *)
EXTENDS Refresh

(* Two crons of one day, or two presses of the button in one minute, work   *)
(* on the same jobs.                                                        *)
MCSameJobs == [r \in Refreshes |-> "today"]
=============================================================================
