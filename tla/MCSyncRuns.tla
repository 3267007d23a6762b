----------------------------- MODULE MCSyncRuns -----------------------------
(* Small instances of SyncRuns: the provider's listings, as page sequences. *)
EXTENDS SyncRuns, TLC

Page(ids, mark) == [records |-> ids, watermark |-> mark]

(* Every job key lists the same two pages, newest record first.             *)
MCFullListing == [j \in JobKeys |-> <<Page({1}, 2), Page({2}, 1)>>]

(* Job keys that list the same pages differ in name alone.                 *)
MCSymmetry == Permutations(Workers) \cup Permutations(JobKeys)
=============================================================================
