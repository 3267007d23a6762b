------------------------------ MODULE MCImports ------------------------------
(***************************************************************************)
(* Small instances of the imports: the sync runner under every fault, and  *)
(* the channels it is used for.  They share no state: a behaviour is one   *)
(* of one of them, chosen at first, with the other at rest, and what is    *)
(* checked here together holds of each alone.                              *)
(***************************************************************************)
EXTENDS MCSyncRuns, MCChannels

VARIABLE side

(* The job a worker at rest would take first does not matter.               *)
MCInit == /\ side \in {"runner", "channels"}
          /\ Init /\ ChannelsInit
          /\ side = "runner" => channel = "shop"
          /\ side = "channels" => \A v, w \in Workers : job[v] = job[w]

MCNext == /\ UNCHANGED side
          /\ \/ side = "runner" /\ Next /\ UNCHANGED channelVars
             \/ side = "channels" /\ ChannelsNext /\ UNCHANGED vars

MCSpec == MCInit /\ [][MCNext]_<<side, vars, channelVars>>
=============================================================================
