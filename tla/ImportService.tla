--------------------------- MODULE ImportService ---------------------------
(***************************************************************************)
(* What a sync promises the rest of the system, with no workers, cursors   *)
(* or clocks: a job key is started some number of times, records of        *)
(* started jobs land, and the job is done once its whole window is in the  *)
(* database.  A job that is done is not started again, unless it has been  *)
(* reopened: the last write of its end failed, and it is done over.        *)
(***************************************************************************)
EXTENDS Integers

CONSTANTS JobKeys, Records, Window(_)

VARIABLES starts, landed, done

serviceVars == <<starts, landed, done>>

ServiceInit == /\ starts = [j \in JobKeys |-> 0]
               /\ landed = {}
               /\ done = {}

Start(j) == /\ j \notin done
            /\ starts' = [starts EXCEPT ![j] = @ + 1]
            /\ UNCHANGED <<landed, done>>

(* An upsert: records already there are written again, none is removed.     *)
Land(j) == /\ starts[j] > 0
           /\ \E some \in SUBSET Window(j) : landed' = landed \cup some
           /\ UNCHANGED <<starts, done>>

Finish(j) == /\ starts[j] > 0
             /\ j \notin done
             /\ Window(j) \subseteq landed
             /\ done' = done \cup {j}
             /\ UNCHANGED <<starts, landed>>

Reopen(j) == /\ j \in done
             /\ done' = done \ {j}
             /\ UNCHANGED <<starts, landed>>

ServiceNext == \E j \in JobKeys : Start(j) \/ Land(j) \/ Finish(j) \/ Reopen(j)

ServiceSpec == ServiceInit /\ [][ServiceNext]_serviceVars
=============================================================================
