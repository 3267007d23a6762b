------------------------------- MODULE Refresh -------------------------------
(***************************************************************************)
(* refreshEverything (lib/connectors/pipeline): one refresh imports from   *)
(* every connected provider, recalculates, and answers for what it did.    *)
(* The nightly cron and the Refresh button each start one, and may do so   *)
(* at the same time; the platform may kill either at any moment.           *)
(*                                                                         *)
(* runSync is taken as one claim and one end: what happens inside is       *)
(* SyncRuns.  There is one connection for a provider, named after it.      *)
(***************************************************************************)
EXTENDS Naturals, Sequences, SequencesExt

CONSTANTS
  Refreshes,     \* calls of refreshEverything
  Manual,        \* those made by the Refresh button
  Connected,     \* providers with a row in integration_connections
  Discriminator  \* the date or minute in each refresh's job keys

ASSUME ManualAssumption == Manual \subseteq Refreshes

None == "none"

(* The syncs of a provider, in the order they run.                          *)
Resources == [
  shopify |-> <<"variants", "orders", "payouts">>,
  meta    |-> <<"entities", "insights:account", "insights:campaign",
                "insights:adset", "insights:ad">>,
  tiktok  |-> <<"entities", "report:advertiser", "report:campaign",
                "report:adgroup", "report:ad">>,
  xero    |-> <<"accounts", "bank_transactions", "invoices", "bank_balances">>]

ASSUME ConnectedAssumption == Connected \subseteq DOMAIN Resources

Discriminators == {Discriminator[r] : r \in Refreshes}
Keys == UNION {{c} \X Range(Resources[c]) \X Discriminators : c \in Connected}

Outcomes == [connection : Connected,
             resource : {"connection"} \cup UNION {Range(Resources[c]) : c \in Connected},
             status : {"succeeded", "failed", "already_succeeded", "not_permitted"}]

VARIABLES
  status,     \* integration_connections.status
  readable,   \* whether the stored token is there and can be decrypted
  run,        \* sync_runs.status by job key; "stale": running for too long
  approved,   \* the financial policy
  arrived,    \* history: the syncs whose data is in the database
  published,  \* history: those the published figures were computed from
  read,       \* those the facts had that each refresh has loaded
  raced,      \* history: as it loaded them, another was about to publish
  pc,         \* each refresh
  active,     \* the connections it loaded, usable or not
  todo,       \* the usable connections it has yet to begin
  at,         \* the connection it is refreshing
  jobs,       \* the syncs of that connection it has yet to end
  part,       \* the outcomes of that connection so far
  syncs,      \* RefreshResult.syncs
  hurt,       \* history: the connections a sync of this refresh failed for
  answer      \* what the cron's response or the button's message says

progress == <<active, todo, at, jobs, part, syncs, hurt, answer>>
figures == <<published, read, raced>>
vars == <<status, readable, run, approved, arrived, figures, pc, progress>>

Working == {"choosing", "claiming", "running", "calculating"}

TypeOK ==
  /\ status \in [Connected -> {"active", "needs_reauth"}]
  /\ readable \in [Connected -> BOOLEAN]
  /\ run \in [Keys -> {"none", "running", "stale", "failed", "succeeded"}]
  /\ approved \in BOOLEAN
  /\ arrived \subseteq Keys
  /\ published \subseteq arrived
  /\ read \in [Refreshes -> SUBSET arrived]
  /\ raced \in [Refreshes -> BOOLEAN]
  /\ pc \in [Refreshes -> Working \cup {"start", "calculated", "done", "killed"}]
  /\ active \in [Refreshes -> SUBSET Connected]
  /\ \A r \in Refreshes : todo[r] \subseteq active[r]
  /\ at \in [Refreshes -> Connected \cup {None}]
  /\ \A r \in Refreshes : at[r] # None => IsSuffix(jobs[r], Resources[at[r]])
  /\ part \in [Refreshes -> SUBSET Outcomes]
  /\ syncs \in [Refreshes -> SUBSET Outcomes]
  /\ hurt \in [Refreshes -> SUBSET Connected]
  /\ answer \in [Refreshes -> {None, "ok", "partial", "declined", "error"}]

Init ==
  /\ status = [c \in Connected |-> "active"]
  /\ readable \in [Connected -> BOOLEAN]
  /\ run = [k \in Keys |-> "none"]
  /\ approved \in BOOLEAN
  /\ arrived = {}
  /\ published = {}
  /\ read = [r \in Refreshes |-> {}]
  /\ raced = [r \in Refreshes |-> FALSE]
  /\ pc = [r \in Refreshes |-> "start"]
  /\ active = [r \in Refreshes |-> {}]
  /\ todo = [r \in Refreshes |-> {}]
  /\ at = [r \in Refreshes |-> None]
  /\ jobs = [r \in Refreshes |-> <<>>]
  /\ part = [r \in Refreshes |-> {}]
  /\ syncs = [r \in Refreshes |-> {}]
  /\ hurt = [r \in Refreshes |-> {}]
  /\ answer = [r \in Refreshes |-> None]

Goto(r, next) == pc' = [pc EXCEPT ![r] = next]
Outcome(c, resource, s) == [connection |-> c, resource |-> resource, status |-> s]
Key(r) == <<at[r], Head(jobs[r]), Discriminator[r]>>
Add(f, r, S) == [f EXCEPT ![r] = @ \cup S]

-----------------------------------------------------------------------------
(* loadConnections, and the failures it reports at once.                    *)

(* Faulty: skips a connection whose token cannot be read.                   *)
UnusableDropped(S) == {}

Unusable(S) == {Outcome(c, "connection", "failed") : c \in {d \in S : ~readable[d]}}

LoadConnections(r) ==
  LET loaded == {c \in Connected : status[c] = "active"} IN
  /\ pc[r] = "start"
  /\ active' = [active EXCEPT ![r] = loaded]
  /\ todo' = [todo EXCEPT ![r] = {c \in loaded : readable[c]}]
  /\ syncs' = [syncs EXCEPT ![r] = Unusable(loaded)]
  /\ Goto(r, "choosing")
  /\ UNCHANGED <<status, readable, run, approved, arrived, figures, at, jobs, part, hurt, answer>>

-----------------------------------------------------------------------------
(* One provider after another: refreshShopify, refreshMeta, refreshTikTok,  *)
(* refreshXero.                                                             *)

BeginConnection(r) ==
  /\ pc[r] = "choosing"
  /\ \E c \in todo[r] :
       /\ todo' = [todo EXCEPT ![r] = @ \ {c}]
       /\ at' = [at EXCEPT ![r] = c]
       /\ jobs' = [jobs EXCEPT ![r] = Resources[c]]
  /\ part' = [part EXCEPT ![r] = {}]
  /\ Goto(r, "claiming")
  /\ UNCHANGED <<status, readable, run, approved, arrived, figures, active, syncs, hurt, answer>>

(* Faulty: logs what a provider threw and goes on.                          *)
ThrownLogged(r) ==
  /\ at' = [at EXCEPT ![r] = None]
  /\ syncs' = syncs
  /\ hurt' = Add(hurt, r, {at[r]})
  /\ Goto(r, "choosing")
  /\ UNCHANGED <<active, todo, jobs, part, answer>>

(* The provider's own outcomes were never returned; one failure stands for  *)
(* them.                                                                    *)
Thrown(r) ==
  /\ at' = [at EXCEPT ![r] = None]
  /\ syncs' = Add(syncs, r, {Outcome(at[r], "connection", "failed")})
  /\ hurt' = Add(hurt, r, {at[r]})
  /\ Goto(r, "choosing")
  /\ UNCHANGED <<active, todo, jobs, part, answer>>

(* The bank balances are a report, read outside runSync: there is no run to *)
(* claim.                                                                   *)
Claimed(r) == Head(jobs[r]) # "bank_balances"

(* No ad_accounts row, or no Xero application configured; or a query fails  *)
(* between two syncs or inside claimRun, which runSync does not catch.      *)
ProviderThrows(r) ==
  /\ pc[r] = "claiming" /\ jobs[r] # <<>>
  /\ Claimed(r)
  /\ Thrown(r)
  /\ UNCHANGED <<status, readable, run, approved, arrived, figures>>

(* Records an outcome of the sync at hand and moves to the next.            *)
EndSync(r, s) ==
  /\ part' = Add(part, r, {Outcome(at[r], Head(jobs[r]), s)})
  /\ jobs' = [jobs EXCEPT ![r] = Tail(@)]
  /\ Goto(r, "claiming")
  /\ UNCHANGED <<active, todo, at, syncs, answer>>

(* claimRun and markRunning.  A process killed between the two leaves a run *)
(* nobody claims again: that is a matter of SyncRuns.                       *)
Claim(r) ==
  /\ pc[r] = "claiming" /\ jobs[r] # <<>>
  /\ IF Claimed(r)
       THEN /\ run[Key(r)] \in {"none", "failed", "stale"}
            /\ run' = [run EXCEPT ![Key(r)] = "running"]
       ELSE run' = run
  /\ Goto(r, "running")
  /\ UNCHANGED <<status, readable, approved, arrived, figures, progress>>

(* claimRun returned null: the run has succeeded, or is running now.        *)
Skip(r) ==
  /\ pc[r] = "claiming" /\ jobs[r] # <<>>
  /\ Claimed(r)
  /\ run[Key(r)] \in {"running", "succeeded"}
  /\ EndSync(r, "already_succeeded")
  /\ UNCHANGED <<status, readable, run, approved, arrived, figures, hurt>>

Record(r, s) == run' = IF Claimed(r) THEN [run EXCEPT ![Key(r)] = s] ELSE run

Succeed(r) ==
  /\ pc[r] = "running"
  /\ Record(r, "succeeded")
  /\ arrived' = arrived \cup {Key(r)}
  /\ EndSync(r, "succeeded")
  /\ UNCHANGED <<status, readable, approved, figures, hurt>>

(* asCapability: a shop without the payments scope is not a failure.        *)
IsCapability(resource, missingScope) == resource = "payouts" /\ missingScope

(* The sync failed; one of Xero's may have found its refresh token refused. *)
Fail(r) ==
  /\ pc[r] = "running"
  /\ Record(r, "failed")
  /\ \E missingScope \in BOOLEAN :
       /\ missingScope => Head(jobs[r]) = "payouts"
       /\ EndSync(r, IF IsCapability(Head(jobs[r]), missingScope)
                    THEN "not_permitted" ELSE "failed")
       /\ hurt' = IF missingScope THEN hurt ELSE Add(hurt, r, {at[r]})
  /\ \/ status' = status
     \/ at[r] = "xero" /\ status' = [status EXCEPT !["xero"] = "needs_reauth"]
  /\ UNCHANGED <<readable, approved, arrived, figures>>

(* A query that marks the run, or records its end, fails where runSync does *)
(* not catch it.  syncBankBalances catches everything.                      *)
SyncThrows(r) ==
  /\ pc[r] = "running"
  /\ Claimed(r)
  /\ \E s \in {"running", "failed", "succeeded"} :
       /\ Record(r, s)
       /\ arrived' = IF s = "succeeded" THEN arrived \cup {Key(r)} ELSE arrived
  /\ Thrown(r)
  /\ UNCHANGED <<status, readable, approved, figures>>

EndConnection(r) ==
  /\ pc[r] = "claiming" /\ jobs[r] = <<>>
  /\ syncs' = Add(syncs, r, part[r])
  /\ at' = [at EXCEPT ![r] = None]
  /\ Goto(r, "choosing")
  /\ UNCHANGED <<status, readable, run, approved, arrived, figures,
                 active, todo, jobs, part, hurt, answer>>

-----------------------------------------------------------------------------
(* What follows the imports.                                                *)

(* calculateAndPublish, whatever the syncs came to.  Without an approved    *)
(* policy it returns before it reads anything.                              *)
Decline(r) ==
  /\ pc[r] = "choosing" /\ todo[r] = {}
  /\ ~approved
  /\ Goto(r, "calculated")
  /\ UNCHANGED <<status, readable, run, approved, arrived, figures, progress>>

(* loadFacts is awaited, and the figures are sent long after.               *)
LoadFacts(r) ==
  /\ pc[r] = "choosing" /\ todo[r] = {}
  /\ approved
  /\ read' = [read EXCEPT ![r] = arrived]
  /\ raced' = [raced EXCEPT ![r] = \E q \in Refreshes \ {r} : pc[q] = "calculating"]
  /\ Goto(r, "calculating")
  /\ UNCHANGED <<status, readable, run, approved, arrived, published, progress>>

(* Faulty: publishes only after a clean import.                             *)
PublishIfClean(r) ==
  /\ pc[r] = "calculating"
  /\ published' = IF \A o \in syncs[r] : o.status # "failed" THEN read[r] ELSE published
  /\ Goto(r, "calculated")
  /\ UNCHANGED <<status, readable, run, approved, arrived, read, raced, progress>>

(* publish replaces what is there, also figures of newer facts.             *)
Publish(r) ==
  /\ pc[r] = "calculating"
  /\ published' = read[r]
  /\ Goto(r, "calculated")
  /\ UNCHANGED <<status, readable, run, approved, arrived, read, raced, progress>>

AnswerWith(r, a) ==
  /\ answer' = [answer EXCEPT ![r] = a]
  /\ Goto(r, "done")
  /\ UNCHANGED <<status, readable, run, approved, arrived,
                 active, todo, at, jobs, part, syncs, hurt>>

(* loadConnections or calculateAndPublish throws, the latter perhaps after  *)
(* the database has committed: the refresh has no result.                   *)
Error(r) ==
  /\ \/ pc[r] = "start" \/ (pc[r] = "choosing" /\ todo[r] = {})
     \/ pc[r] = "calculating"
  /\ \/ published' = published
     \/ pc[r] = "calculating" /\ published' = read[r]
  /\ read' = [read EXCEPT ![r] = {}]
  /\ raced' = [raced EXCEPT ![r] = FALSE]
  /\ AnswerWith(r, "error")

AllSucceeded(r) == \A o \in syncs[r] : o.status # "failed"

(* Reconciliation, data quality and the workbook are caught, each in its    *)
(* own place, and never change the answer.                                  *)
Answer(r) ==
  /\ pc[r] = "calculated"
  /\ AnswerWith(r, IF ~approved THEN "declined"
                   ELSE IF AllSucceeded(r) /\ (r \in Manual => syncs[r] # {})
                   THEN "ok" ELSE "partial")
  /\ UNCHANGED figures

-----------------------------------------------------------------------------
(* The platform kills a refresh, 300 seconds after it began at the latest.  *)
Kill(r) ==
  /\ pc[r] \in Working \cup {"calculated"}
  /\ Goto(r, "killed")
  /\ read' = [read EXCEPT ![r] = {}]
  /\ raced' = [raced EXCEPT ![r] = FALSE]
  /\ UNCHANGED <<status, readable, run, approved, arrived, published, progress>>

(* Six hours pass: whoever started the run is gone by then.                 *)
GoStale(k) ==
  /\ run[k] = "running"
  /\ \A r \in Refreshes : ~(pc[r] = "running" /\ Claimed(r) /\ Key(r) = k)
  /\ run' = [run EXCEPT ![k] = "stale"]
  /\ UNCHANGED <<status, readable, approved, arrived, figures, pc, progress>>

RefreshOn(r) ==
  \/ LoadConnections(r) \/ BeginConnection(r) \/ ProviderThrows(r)
  \/ Claim(r) \/ Skip(r) \/ Succeed(r) \/ Fail(r) \/ SyncThrows(r)
  \/ EndConnection(r) \/ Decline(r) \/ LoadFacts(r) \/ Publish(r)
  \/ Error(r) \/ Answer(r)

Next == \/ \E r \in Refreshes : RefreshOn(r) \/ Kill(r)
        \/ \E k \in Keys : GoStale(k)

Spec == Init /\ [][Next]_vars

-----------------------------------------------------------------------------
(* Properties.                                                              *)

Reported(r) == answer[r] \in {"ok", "partial"}
OutcomeOf(r, c) == {o \in syncs[r] : o.connection = c}

(* A refresh that answers has an outcome for each connection it loaded: a   *)
(* failure of the connection itself, or one outcome for each of its syncs,  *)
(* so that none is left out of the list a person reads.                     *)
NothingLeftOut ==
  \A r \in Refreshes : Reported(r) => \A c \in active[r] :
    \/ Outcome(c, "connection", "failed") \in syncs[r]
    \/ {o.resource : o \in OutcomeOf(r, c)} = Range(Resources[c])

(* "A provider that failed must not be reported as a clean run"             *)
(* (cron/daily/route.ts): whatever failed inside a refresh, in a sync,      *)
(* around it or between two of them, is a failure in its answer, although   *)
(* the outcomes of a provider that throws are lost.                         *)
FailuresAreReported ==
  \A r \in Refreshes : \A c \in hurt[r] :
    /\ answer[r] # "ok"
    /\ Reported(r) => \E o \in OutcomeOf(r, c) : o.status = "failed"

SucceededIn(r) == {o \in syncs[r] : o.status = "succeeded"}
ImportOf(r, o) == <<o.connection, o.resource, Discriminator[r]>>

(* The figures an answer has published were computed from every import it   *)
(* reports, and no later publication takes any of those imports back,       *)
(* however many refreshes import and publish across one another: unless     *)
(* another had loaded older facts and not yet published them when this one  *)
(* loaded its own.  What such a race loses is made good by the next refresh *)
(* that runs into none.                                                     *)
AnswersArePublished ==
  \A r \in Refreshes : Reported(r) =>
    /\ \A o \in SucceededIn(r) : ImportOf(r, o) \in read[r]
    /\ ~raced[r] => read[r] \subseteq published
=============================================================================
