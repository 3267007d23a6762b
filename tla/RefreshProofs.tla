----------------------------- MODULE RefreshProofs -----------------------------
(***************************************************************************)
(* What the answer of a refresh can be relied on for, with any refreshes,  *)
(* connections and job keys, and whatever is killed or thrown.             *)
(*                                                                         *)
(* Outcomes travel from the provider's own list (part) to the refresh's    *)
(* (syncs), and the first is given up when the provider throws.  Heard and *)
(* Seen say where a failure, and an import, can be at any moment.  A step  *)
(* of one refresh touches another's variables nowhere: of what they share, *)
(* it only adds to what has arrived, and publishes nothing that has not.   *)
(* What is published may shrink: Stands and Ordered say what it keeps, and *)
(* why the facts of whoever is still to publish cannot be older.           *)
(***************************************************************************)
EXTENDS Refresh, SequenceTheorems, TLAPS

USE DEF figures

Shape ==
  /\ DOMAIN pc = Refreshes /\ DOMAIN todo = Refreshes /\ DOMAIN at = Refreshes
  /\ DOMAIN jobs = Refreshes /\ DOMAIN part = Refreshes /\ DOMAIN syncs = Refreshes
  /\ DOMAIN hurt = Refreshes /\ DOMAIN answer = Refreshes /\ DOMAIN active = Refreshes
  /\ DOMAIN read = Refreshes /\ DOMAIN raced = Refreshes

FailedIn(S, c) == \E o \in S : o.connection = c /\ o.status = "failed"

(* A failure is in the refresh's list, or in that of the provider it is at. *)
Heard(r) ==
  \A c \in hurt[r] :
    \/ FailedIn(syncs[r], c)
    \/ /\ pc[r] \in {"claiming", "running", "killed"}
       /\ at[r] = c
       /\ FailedIn(part[r], c)

Answered(r) ==
  /\ pc[r] = "start" => hurt[r] = {}
  /\ answer[r] # None => pc[r] = "done"
  /\ answer[r] = "ok" => AllSucceeded(r)

(* It has loaded its facts, and will publish them or has: its publication   *)
(* is in the database.                                                      *)
Put(r) == (pc[r] = "calculated" /\ approved) \/ Reported(r)
HasRead(r) == pc[r] = "calculating" \/ Put(r)

(* What an outcome reports as imported is in the database, and in the facts *)
(* once they are loaded.                                                    *)
Seen(r) ==
  /\ \A o \in syncs[r] \cup part[r] : o.status = "succeeded" => ImportOf(r, o) \in arrived
  /\ read[r] \subseteq arrived
  /\ HasRead(r) =>
       \A o \in syncs[r] : o.status = "succeeded" => ImportOf(r, o) \in read[r]

IInv == /\ Shape
        /\ published \subseteq arrived
        /\ \A r \in Refreshes : Heard(r) /\ Answered(r) /\ Seen(r)

Untouched(q) ==
  /\ pc'[q] = pc[q] /\ at'[q] = at[q] /\ part'[q] = part[q] /\ syncs'[q] = syncs[q]
  /\ hurt'[q] = hurt[q] /\ answer'[q] = answer[q]
  /\ read'[q] = read[q] /\ raced'[q] = raced[q]

Grown == /\ approved' = approved
         /\ arrived \subseteq arrived'
         /\ published' \subseteq arrived'

(* The figures of a refresh that raced with no other are not taken back ... *)
Stands(r) == Put(r) /\ ~raced[r] => read[r] \subseteq published

(* ... because whoever is still to publish loaded its facts after it.       *)
Ordered(r, q) == HasRead(r) /\ ~raced[r] /\ pc[q] = "calculating" => read[r] \subseteq read[q]

RaceInv == \A r \in Refreshes : Stands(r) /\ \A q \in Refreshes \ {r} : Ordered(r, q)

-----------------------------------------------------------------------------
LEMMA InitIInv == Init => IInv
  BY DEF Init, IInv, Shape, Heard, Answered, Seen, HasRead, Put, Reported, None

LEMMA FailedOutcome ==
  ASSUME NEW S, NEW c, NEW resource
  PROVE  FailedIn(S \cup {Outcome(c, resource, "failed")}, c)
<1> DEFINE o == Outcome(c, resource, "failed")
<1>1. o.connection = c /\ o.status = "failed"
  BY DEF Outcome
<1>2. o \in S \cup {o}
  OBVIOUS
<1> HIDE DEF o
<1>3. FailedIn(S \cup {o}, c)
  BY <1>1, <1>2 DEF FailedIn
<1> QED
  BY <1>3 DEF o

(* A step of r leaves the other refreshes alone and only adds to the data.  *)
LEMMA OneAtATime ==
  ASSUME IInv, NEW r \in Refreshes, RefreshOn(r) \/ Kill(r)
  PROVE  Shape' /\ Grown /\ \A q \in Refreshes \ {r} : Untouched(q)
<1> USE DEF IInv, Shape, Grown, Untouched, Seen, progress, figures
<1>1. CASE LoadConnections(r)
  BY <1>1 DEF LoadConnections, Goto
<1>2. CASE BeginConnection(r)
  BY <1>2 DEF BeginConnection, Goto
<1>3. CASE ProviderThrows(r)
  BY <1>3 DEF ProviderThrows, Thrown, Goto, Add
<1>4. CASE Claim(r)
  BY <1>4 DEF Claim, Goto
<1>5. CASE Skip(r)
  BY <1>5 DEF Skip, EndSync, Goto, Add
<1>6. CASE Succeed(r)
  BY <1>6 DEF Succeed, EndSync, Goto, Add
<1>7. CASE Fail(r)
  BY <1>7 DEF Fail, EndSync, Goto, Add
<1>8. CASE SyncThrows(r)
  BY <1>8 DEF SyncThrows, Thrown, Goto, Add
<1>9. CASE EndConnection(r)
  BY <1>9 DEF EndConnection, Goto, Add
<1>10. CASE Decline(r) \/ LoadFacts(r) \/ Publish(r)
  BY <1>10 DEF Decline, LoadFacts, Publish, Goto
<1>11. CASE Error(r)
  BY <1>11 DEF Error, AnswerWith, Goto
<1>12. CASE Answer(r)
  BY <1>12 DEF Answer, AnswerWith, Goto
<1>13. CASE Kill(r)
  BY <1>13 DEF Kill, Goto
<1> QED
  BY <1>1, <1>2, <1>3, <1>4, <1>5, <1>6, <1>7, <1>8, <1>9, <1>10, <1>11, <1>12, <1>13
  DEF RefreshOn

LEMMA UntouchedKeeps ==
  ASSUME NEW q \in Refreshes, Heard(q), Answered(q), Seen(q), Untouched(q), Grown
  PROVE  Heard(q)' /\ Answered(q)' /\ Seen(q)'
  BY DEF Untouched, Grown, Heard, Answered, Seen, HasRead, Put, FailedIn, AllSucceeded, ImportOf, Reported

-----------------------------------------------------------------------------
(* The refresh that moves.                                                  *)

LEMMA LoadKeeps ==
  ASSUME IInv, NEW r \in Refreshes, LoadConnections(r)
  PROVE  Heard(r)' /\ Answered(r)' /\ Seen(r)'
<1>1. /\ hurt'[r] = {} /\ part' = part /\ answer'[r] = None /\ pc'[r] = "choosing"
      /\ \A o \in syncs'[r] : o.status = "failed"
      /\ arrived' = arrived /\ read' = read
  BY DEF LoadConnections, Goto, IInv, Shape, Answered, Unusable, Outcome
<1> QED
  BY <1>1 DEF IInv, Heard, Answered, Seen, HasRead, Put, Reported, ImportOf, None

LEMMA BeginKeeps ==
  ASSUME IInv, NEW r \in Refreshes, BeginConnection(r)
  PROVE  Heard(r)' /\ Answered(r)' /\ Seen(r)'
<1>1. /\ hurt' = hurt /\ part'[r] = {} /\ answer' = answer /\ pc[r] = "choosing"
      /\ pc'[r] = "claiming" /\ syncs' = syncs /\ arrived' = arrived
      /\ approved' = approved /\ read' = read
  BY DEF BeginConnection, Goto, IInv, Shape
<1>2. \A c \in hurt[r] : FailedIn(syncs[r], c)
  BY <1>1 DEF IInv, Heard
<1> QED
  BY <1>1, <1>2 DEF IInv, Heard, Answered, Seen, HasRead, Put, Reported, ImportOf, FailedIn, None

LEMMA ThrownKeeps ==
  ASSUME IInv, NEW r \in Refreshes, Thrown(r), pc[r] \in {"claiming", "running"}, Grown, read' = read
  PROVE  Heard(r)' /\ Answered(r)' /\ Seen(r)'
<1>1. /\ hurt'[r] = hurt[r] \cup {at[r]} /\ part' = part /\ answer' = answer
      /\ answer[r] = None /\ pc'[r] = "choosing"
      /\ syncs'[r] = syncs[r] \cup {Outcome(at[r], "connection", "failed")}
  BY DEF Thrown, Goto, Add, IInv, Shape, Answered
<1>2. FailedIn(syncs'[r], at[r])
  BY <1>1, FailedOutcome
<1>3. \A c \in hurt[r] : c = at[r] \/ FailedIn(syncs[r], c)
  BY DEF IInv, Heard
<1>4. Heard(r)'
  BY <1>1, <1>2, <1>3 DEF Heard, FailedIn
<1>5. \A o \in syncs'[r] : o \in syncs[r] \/ o.status = "failed"
  BY <1>1 DEF Outcome
<1>6. Seen(r)'
  BY <1>1, <1>5 DEF IInv, Seen, HasRead, Put, Reported, ImportOf, Grown, None
<1> QED
  BY <1>1, <1>4, <1>6 DEF Answered, None

(* A sync's outcome reports an import only when there was one, and a        *)
(* connection that was hurt by it.                                          *)
LEMMA EndSyncKeeps ==
  ASSUME IInv, NEW r \in Refreshes, NEW s, EndSync(r, s), Grown, read' = read,
         pc[r] \in {"claiming", "running"},
         s = "succeeded" => Key(r) \in arrived',
         hurt'[r] = hurt[r] \/ (s = "failed" /\ hurt'[r] = hurt[r] \cup {at[r]})
  PROVE  Heard(r)' /\ Answered(r)' /\ Seen(r)'
<1> DEFINE o == Outcome(at[r], Head(jobs[r]), s)
<1>1. /\ part'[r] = part[r] \cup {o} /\ syncs' = syncs /\ at' = at /\ answer' = answer
      /\ answer[r] = None /\ pc'[r] = "claiming"
  BY DEF EndSync, Goto, Add, IInv, Shape, Answered
<1>2. Heard(r)'
  <2>1. \A c \in hurt[r] : FailedIn(syncs[r], c) \/ (at[r] = c /\ FailedIn(part'[r], c))
    BY <1>1 DEF IInv, Heard, FailedIn
  <2>2. s = "failed" => FailedIn(part'[r], at[r])
    BY <1>1, FailedOutcome
  <2> QED
    BY <1>1, <2>1, <2>2 DEF Heard, FailedIn
<1>3. Seen(r)'
  <2>1. o.status = "succeeded" => ImportOf(r, o) \in arrived'
    BY DEF Outcome, ImportOf, Key
  <2> HIDE DEF o
  <2>2. /\ \A p \in syncs[r] \cup part[r] : p.status = "succeeded" => ImportOf(r, p) \in arrived'
        /\ read'[r] \subseteq arrived'
    BY DEF IInv, Seen, Grown
  <2> QED
    BY <1>1, <2>1, <2>2 DEF Seen, HasRead, Put, Reported, ImportOf, None
<1> QED
  BY <1>1, <1>2, <1>3 DEF Answered, None

LEMMA ClaimKeeps ==
  ASSUME IInv, NEW r \in Refreshes, Claim(r)
  PROVE  Heard(r)' /\ Answered(r)' /\ Seen(r)'
<1>1. /\ UNCHANGED <<hurt, part, answer, syncs, at, arrived, figures, approved>>
      /\ pc[r] = "claiming" /\ pc'[r] = "running"
  BY DEF Claim, Goto, IInv, Shape, progress
<1> QED
  BY <1>1 DEF IInv, Heard, Answered, Seen, HasRead, Put, Reported, ImportOf, FailedIn, None

LEMMA EndConnectionKeeps ==
  ASSUME IInv, NEW r \in Refreshes, EndConnection(r)
  PROVE  Heard(r)' /\ Answered(r)' /\ Seen(r)'
<1>1. /\ UNCHANGED <<hurt, part, answer, arrived, figures, approved>>
      /\ pc[r] = "claiming" /\ pc'[r] = "choosing" /\ answer[r] = None
      /\ syncs'[r] = syncs[r] \cup part[r]
  BY DEF EndConnection, Goto, Add, IInv, Shape, Answered
<1>2. Heard(r)'
  BY <1>1 DEF IInv, Heard, FailedIn
<1>3. Seen(r)'
  BY <1>1 DEF IInv, Seen, HasRead, Put, Reported, ImportOf, None
<1> QED
  BY <1>1, <1>2, <1>3 DEF Answered, None

LEMMA CalculateKeeps ==
  ASSUME IInv, NEW r \in Refreshes, Decline(r) \/ LoadFacts(r) \/ Publish(r)
  PROVE  Heard(r)' /\ Answered(r)' /\ Seen(r)'
<1>1. /\ UNCHANGED <<hurt, part, answer, syncs, at, arrived, approved>>
      /\ pc[r] \in {"choosing", "calculating"} /\ pc'[r] \in {"calculating", "calculated"}
      /\ answer[r] = None
  BY DEF Decline, LoadFacts, Publish, Goto, IInv, Shape, progress, Answered, figures
<1>2. Heard(r)' /\ Answered(r)'
  BY <1>1 DEF IInv, Heard, Answered, FailedIn, None
<1>3. CASE Decline(r)
  <2>1. read' = read /\ pc'[r] = "calculated" /\ ~approved
    BY <1>3 DEF Decline, Goto, IInv, Shape, figures
  <2> QED
    BY <1>1, <1>2, <2>1 DEF IInv, Seen, HasRead, Put, Reported, ImportOf, None
<1>4. CASE LoadFacts(r)
  <2>1. read'[r] = arrived
    BY <1>4 DEF LoadFacts, IInv, Shape
  <2> QED
    BY <1>1, <1>2, <2>1 DEF IInv, Seen, ImportOf
<1>5. CASE Publish(r)
  <2>1. read' = read /\ pc[r] = "calculating"
    BY <1>5 DEF Publish
  <2> QED
    BY <1>1, <1>2, <2>1 DEF IInv, Seen, HasRead, ImportOf
<1> QED
  BY <1>3, <1>4, <1>5

LEMMA AnswerKeeps ==
  ASSUME IInv, NEW r \in Refreshes, Answer(r)
  PROVE  Heard(r)' /\ Answered(r)' /\ Seen(r)'
<1>1. /\ UNCHANGED <<hurt, part, syncs, at, arrived, figures, approved>>
      /\ pc[r] = "calculated" /\ pc'[r] = "done"
      /\ answer'[r] = "ok" => AllSucceeded(r)
      /\ answer'[r] \in {"ok", "partial"} => approved
  BY DEF Answer, AnswerWith, Goto, IInv, Shape
<1> QED
  BY <1>1 DEF IInv, Heard, Answered, Seen, HasRead, Put, Reported, ImportOf, FailedIn, AllSucceeded, None

LEMMA ErrorKeeps ==
  ASSUME IInv, NEW r \in Refreshes, Error(r)
  PROVE  Heard(r)' /\ Answered(r)' /\ Seen(r)'
<1>1. /\ UNCHANGED <<hurt, part, syncs, at, arrived, approved>>
      /\ pc[r] \in {"start", "choosing", "calculating"} /\ pc'[r] = "done"
      /\ answer'[r] = "error" /\ read'[r] = {}
  BY DEF Error, AnswerWith, Goto, IInv, Shape
<1> QED
  BY <1>1 DEF IInv, Heard, Answered, Seen, HasRead, Put, Reported, ImportOf, FailedIn, None

LEMMA KillKeeps ==
  ASSUME IInv, NEW r \in Refreshes, Kill(r)
  PROVE  Heard(r)' /\ Answered(r)' /\ Seen(r)'
<1>1. /\ UNCHANGED <<hurt, part, syncs, at, answer, arrived, approved>>
      /\ pc'[r] = "killed" /\ answer[r] = None /\ read'[r] = {}
  BY DEF Kill, Working, Goto, IInv, Shape, progress, Answered
<1> QED
  BY <1>1 DEF IInv, Heard, Answered, Seen, HasRead, Put, Reported, ImportOf, FailedIn, None

LEMMA MoverKeeps ==
  ASSUME IInv, NEW r \in Refreshes, RefreshOn(r) \/ Kill(r)
  PROVE  Heard(r)' /\ Answered(r)' /\ Seen(r)'
<1>1. Grown
  BY OneAtATime
<1>2. CASE ProviderThrows(r) \/ SyncThrows(r)
  BY <1>1, <1>2, ThrownKeeps DEF ProviderThrows, SyncThrows
<1>3. CASE Skip(r)
  BY <1>1, <1>3, EndSyncKeeps DEF Skip
<1>4. CASE Succeed(r)
  BY <1>1, <1>4, EndSyncKeeps DEF Succeed
<1>5. CASE Fail(r)
  <2>1. PICK missingScope \in BOOLEAN :
          /\ EndSync(r, IF IsCapability(Head(jobs[r]), missingScope)
                         THEN "not_permitted" ELSE "failed")
          /\ hurt' = IF missingScope THEN hurt ELSE Add(hurt, r, {at[r]})
    BY <1>5 DEF Fail
  <2>2. CASE missingScope
    BY <1>1, <1>5, <2>1, <2>2, EndSyncKeeps DEF Fail
  <2>3. CASE ~missingScope
    <3>1. EndSync(r, "failed") /\ hurt'[r] = hurt[r] \cup {at[r]}
      BY <2>1, <2>3 DEF IsCapability, Add, IInv, Shape
    <3> QED
      BY <1>1, <1>5, <3>1, EndSyncKeeps DEF Fail
  <2> QED
    BY <2>2, <2>3
<1> QED
  BY <1>2, <1>3, <1>4, <1>5, LoadKeeps, BeginKeeps, ClaimKeeps, EndConnectionKeeps,
     CalculateKeeps, AnswerKeeps, ErrorKeeps, KillKeeps DEF RefreshOn

LEMMA StepIInv ==
  ASSUME IInv, [Next]_vars
  PROVE  IInv'
<1>1. ASSUME NEW r \in Refreshes, RefreshOn(r) \/ Kill(r) PROVE IInv'
  <2>1. Shape' /\ Grown /\ \A q \in Refreshes \ {r} : Untouched(q)
    BY <1>1, OneAtATime
  <2>2. \A q \in Refreshes \ {r} : Heard(q)' /\ Answered(q)' /\ Seen(q)'
    BY <2>1, UntouchedKeeps DEF IInv
  <2>3. Heard(r)' /\ Answered(r)' /\ Seen(r)'
    BY <1>1, MoverKeeps
  <2> QED
    BY <2>1, <2>2, <2>3 DEF IInv, Grown
<1>2. ASSUME UNCHANGED <<approved, arrived, figures, pc, progress>> PROVE IInv'
  BY <1>2, UntouchedKeeps DEF IInv, Shape, progress, Untouched, Grown
<1> QED
  BY <1>1, <1>2 DEF Next, GoStale, vars

LEMMA Invariance == Spec => []IInv
<1>1. IInv /\ [Next]_vars => IInv'
  BY StepIInv
<1> QED
  BY InitIInv, <1>1, PTL DEF Spec

-----------------------------------------------------------------------------
(* Whatever failed inside a refresh is a failure in its answer, although    *)
(* the outcomes of a provider that throws are lost.                         *)
THEOREM NoFailureIsLost == Spec => []FailuresAreReported
<1>1. ASSUME IInv PROVE FailuresAreReported
  <2> SUFFICES ASSUME NEW r \in Refreshes, NEW c \in hurt[r], answer[r] # None
               PROVE  FailedIn(syncs[r], c) /\ answer[r] # "ok"
    BY DEF FailuresAreReported, Reported, OutcomeOf, FailedIn, None
  <2>1. pc[r] = "done"
    BY <1>1 DEF IInv, Answered
  <2>2. FailedIn(syncs[r], c)
    BY <1>1, <2>1 DEF IInv, Heard
  <2> QED
    BY <1>1, <2>2 DEF IInv, Answered, AllSucceeded, FailedIn
<1> QED
  BY <1>1, Invariance, PTL

-----------------------------------------------------------------------------
(* What is published.  A refresh's figures are its facts when it publishes; *)
(* after that only a refresh still calculating can publish others, and it   *)
(* loaded its facts later, unless the first one raced.                      *)

LEMMA InitRaceInv == Init => RaceInv
  BY DEF Init, RaceInv, Stands, Ordered, HasRead, Put, Reported, None

(* A step that neither loads nor publishes brings nobody further.           *)
Calm == /\ UNCHANGED <<read, raced, published>>
        /\ \A r \in Refreshes : /\ Put(r)' => Put(r)
                                /\ pc'[r] = "calculating" => pc[r] = "calculating"

LEMMA CalmKeeps == ASSUME RaceInv, Calm PROVE RaceInv'
  BY DEF Calm, RaceInv, Stands, Ordered, HasRead

LEMMA OthersCalm ==
  ASSUME IInv, NEW r \in Refreshes,
         \/ LoadConnections(r) \/ BeginConnection(r) \/ ProviderThrows(r) \/ Claim(r) \/ Skip(r)
         \/ Succeed(r) \/ Fail(r) \/ SyncThrows(r) \/ EndConnection(r) \/ Decline(r) \/ Answer(r)
  PROVE  Calm
<1>1. UNCHANGED <<read, raced, published, approved>>
  BY DEF figures, LoadConnections, BeginConnection, ProviderThrows, Claim, Skip, Succeed, Fail,
         SyncThrows, EndConnection, Decline, Answer, AnswerWith
<1>2. \A q \in Refreshes \ {r} : Untouched(q)
  BY OneAtATime DEF RefreshOn
<1>3. pc'[r] # "calculating" /\ (Put(r)' => Put(r))
  <2>1. CASE Answer(r)
    <3>1. /\ pc[r] = "calculated" /\ pc'[r] = "done"
          /\ answer'[r] \in {"ok", "partial"} => approved
      BY <2>1 DEF Answer, AnswerWith, Goto, IInv, Shape
    <3> QED
      BY <3>1 DEF Put, Reported
  <2>2. CASE Decline(r)
    <3>1. pc'[r] = "calculated" /\ ~approved /\ answer' = answer
      BY <2>2 DEF Decline, Goto, IInv, Shape, progress
    <3> QED
      BY <1>1, <3>1 DEF Put, Reported
  <2>3. CASE ~Answer(r) /\ ~Decline(r)
    <3>1. pc'[r] \in {"choosing", "claiming", "running"} /\ answer' = answer
      BY <2>3 DEF LoadConnections, BeginConnection, ProviderThrows, Thrown, Claim, Skip, Succeed,
                  Fail, EndSync, SyncThrows, EndConnection, Goto, IInv, Shape, progress
    <3> QED
      BY <3>1 DEF Put, Reported
  <2> QED
    BY <2>1, <2>2, <2>3
<1> QED
  BY <1>1, <1>2, <1>3 DEF Calm, Untouched, Put, Reported

LEMMA LoadRaces ==
  ASSUME IInv, RaceInv, NEW x \in Refreshes, LoadFacts(x)
  PROVE  RaceInv'
<1>1. /\ UNCHANGED <<published, approved, arrived, answer>>
      /\ read'[x] = arrived /\ pc'[x] = "calculating" /\ answer[x] = None
      /\ raced'[x] = \E q \in Refreshes \ {x} : pc[q] = "calculating"
  BY DEF LoadFacts, Goto, IInv, Shape, progress, Answered
<1>2. \A q \in Refreshes \ {x} : Untouched(q)
  BY OneAtATime DEF RefreshOn
<1>3. ASSUME NEW r \in Refreshes PROVE Stands(r)'
  <2>1. CASE r = x
    BY <1>1, <2>1 DEF Stands, Put, Reported, None
  <2>2. CASE r # x
    BY <1>1, <1>2, <2>2 DEF RaceInv, Stands, Put, Reported, Untouched
  <2> QED
    BY <2>1, <2>2
<1>4. ASSUME NEW r \in Refreshes, NEW q \in Refreshes \ {r} PROVE Ordered(r, q)'
  <2>1. CASE r = x
    BY <1>1, <1>2, <2>1 DEF Ordered, Untouched
  <2>2. CASE q = x
    BY <1>1, <1>2, <2>2 DEF IInv, Seen, Ordered, Untouched
  <2>3. CASE r # x /\ q # x
    BY <1>1, <1>2, <2>3 DEF RaceInv, Ordered, HasRead, Put, Reported, Untouched
  <2> QED
    BY <2>1, <2>2, <2>3
<1> QED
  BY <1>3, <1>4 DEF RaceInv

(* Publishing, or an error after the database has committed.                *)
LEMMA PublishRaces ==
  ASSUME IInv, RaceInv, NEW x \in Refreshes,
         Publish(x) \/ Error(x) \/ Kill(x)
  PROVE  RaceInv'
<1>1. /\ approved' = approved
      /\ published' = published \/ (pc[x] = "calculating" /\ published' = read[x])
      /\ pc'[x] # "calculating"
  BY DEF Publish, Error, Kill, AnswerWith, Goto, IInv, Shape
<1>2. \A q \in Refreshes \ {x} : Untouched(q)
  BY OneAtATime DEF RefreshOn
<1>3. \/ read' = read /\ raced' = raced /\ pc[x] = "calculating" /\ published' = read[x]
      \/ ~Put(x)'
  <2>1. CASE Publish(x)
    BY <2>1 DEF Publish
  <2>2. CASE Error(x)
    <3>1. pc'[x] = "done" /\ answer'[x] = "error"
      BY <2>2 DEF Error, AnswerWith, Goto, IInv, Shape
    <3> QED
      BY <3>1 DEF Put, Reported
  <2>3. CASE Kill(x)
    <3>1. pc'[x] = "killed" /\ answer'[x] = None
      BY <2>3 DEF Kill, Goto, IInv, Shape, progress, Answered, Working
    <3> QED
      BY <3>1 DEF Put, Reported, None
  <2> QED
    BY <2>1, <2>2, <2>3
<1>4. HasRead(x)' => HasRead(x) /\ read'[x] = read[x] /\ raced'[x] = raced[x]
  BY <1>1, <1>3 DEF HasRead
<1>5. ASSUME NEW r \in Refreshes PROVE Stands(r)'
  <2>1. CASE r = x
    BY <1>3, <2>1 DEF Stands
  <2>2. CASE r # x
    <3>1. ASSUME Put(r)', ~raced'[r] PROVE read[r] \subseteq published /\ Ordered(r, x) /\ HasRead(r) /\ ~raced[r]
      BY <1>1, <1>2, <2>2, <3>1 DEF RaceInv, Stands, HasRead, Put, Reported, Untouched
    <3> QED
      BY <1>1, <1>2, <2>2, <3>1 DEF Stands, Ordered, Untouched
  <2> QED
    BY <2>1, <2>2
<1>6. ASSUME NEW r \in Refreshes, NEW q \in Refreshes \ {r} PROVE Ordered(r, q)'
  <2>1. CASE q = x
    BY <1>1, <2>1 DEF Ordered
  <2>2. CASE q # x /\ r = x
    BY <1>2, <1>4, <2>2 DEF RaceInv, Ordered, Untouched
  <2>3. CASE q # x /\ r # x
    BY <1>1, <1>2, <2>3 DEF RaceInv, Ordered, HasRead, Put, Reported, Untouched
  <2> QED
    BY <2>1, <2>2, <2>3
<1> QED
  BY <1>5, <1>6 DEF RaceInv

LEMMA StepRaceInv ==
  ASSUME IInv, RaceInv, [Next]_vars
  PROVE  RaceInv'
<1>1. ASSUME NEW r \in Refreshes, RefreshOn(r) \/ Kill(r) PROVE RaceInv'
  BY <1>1, OthersCalm, CalmKeeps, LoadRaces, PublishRaces DEF RefreshOn
<1>2. ASSUME UNCHANGED <<approved, figures, pc, progress>> PROVE RaceInv'
  BY <1>2 DEF figures, progress, RaceInv, Stands, Ordered, HasRead, Put, Reported
<1> QED
  BY <1>1, <1>2 DEF Next, GoStale, vars

(* The figures behind an answer were computed from every import the answer  *)
(* reports, and no other refresh ever takes them back, however many load,   *)
(* publish, throw or are killed: unless another had loaded its facts and    *)
(* not yet published them when this one loaded its own.                     *)
THEOREM WhatIsReportedIsPublished == Spec => []AnswersArePublished
<1>1. IInv /\ RaceInv => AnswersArePublished
  BY DEF IInv, RaceInv, Seen, Stands, HasRead, Put, AnswersArePublished, SucceededIn
<1>2. IInv /\ RaceInv /\ [Next]_vars => RaceInv'
  BY StepRaceInv
<1>3. IInv /\ [Next]_vars => IInv'
  BY StepIInv
<1> QED
  BY InitIInv, InitRaceInv, <1>1, <1>2, <1>3, PTL DEF Spec

-----------------------------------------------------------------------------
(* Nothing is left out.  A connection that was loaded is yet to begin, or   *)
(* the one at hand, or in the list.  The outcomes of the one at hand and    *)
(* the syncs it has yet to end are its syncs, and the list has nothing of   *)
(* it before it ends.                                                       *)

ResourcesOf(S) == {o.resource : o \in S}
OutcomesFor(S, c) == {o \in S : o.connection = c}

Listed(S, c) == \/ Outcome(c, "connection", "failed") \in S
                \/ ResourcesOf(OutcomesFor(S, c)) = Range(Resources[c])

Syncs == {"variants", "orders", "payouts", "entities", "insights:account",
          "insights:campaign", "insights:adset", "insights:ad", "report:advertiser",
          "report:campaign", "report:adgroup", "report:ad", "accounts",
          "bank_transactions", "invoices", "bank_balances"}

AtHand(r) == pc[r] \in {"claiming", "running"}

Loaded(r) ==
  /\ active[r] \subseteq Connected
  /\ todo[r] \subseteq Connected
  /\ pc[r] = "start" => active[r] = {}
  /\ pc[r] \in {"calculating", "calculated"} \/ Reported(r) => todo[r] = {}
  /\ answer[r] # None => pc[r] = "done"

AccountedFor(r) ==
  pc[r] # "killed" =>
    \A c \in active[r] : c \in todo[r] \/ (AtHand(r) /\ at[r] = c) \/ Listed(syncs[r], c)

YetToList(r) ==
  /\ \A c \in todo[r] : OutcomesFor(syncs[r], c) = {}
  /\ AtHand(r) => /\ at[r] \in Connected \ todo[r]
                  /\ OutcomesFor(syncs[r], at[r]) = {}
                  /\ \A o \in part[r] : o.connection = at[r]
                  /\ jobs[r] \in Seq(Syncs)
                  /\ ResourcesOf(part[r]) \cup Range(jobs[r]) = Range(Resources[at[r]])
  /\ pc[r] = "running" => jobs[r] # <<>>

ListInv == Shape /\ \A r \in Refreshes : Loaded(r) /\ AccountedFor(r) /\ YetToList(r)

Resting(q) ==
  /\ pc'[q] = pc[q] /\ at'[q] = at[q] /\ part'[q] = part[q] /\ syncs'[q] = syncs[q]
  /\ jobs'[q] = jobs[q] /\ todo'[q] = todo[q] /\ active'[q] = active[q] /\ answer'[q] = answer[q]

LEMMA RestingKeeps ==
  ASSUME NEW q \in Refreshes, Loaded(q), AccountedFor(q), YetToList(q), Resting(q)
  PROVE  Loaded(q)' /\ AccountedFor(q)' /\ YetToList(q)'
  BY DEF Resting, Loaded, AccountedFor, YetToList, AtHand, Reported

LEMMA SeqOf3 ==
  ASSUME NEW S, NEW a \in S, NEW b \in S, NEW c \in S
  PROVE  <<a, b, c>> \in Seq(S)
<1>1. <<a, b, c>> \in [1..3 -> S]
  OBVIOUS
<1> QED
  BY <1>1, SeqDef

LEMMA SeqOf4 ==
  ASSUME NEW S, NEW a \in S, NEW b \in S, NEW c \in S, NEW d \in S
  PROVE  <<a, b, c, d>> \in Seq(S)
<1>1. <<a, b, c, d>> \in [1..4 -> S]
  OBVIOUS
<1> QED
  BY <1>1, SeqDef

LEMMA SeqOf5 ==
  ASSUME NEW S, NEW a \in S, NEW b \in S, NEW c \in S, NEW d \in S, NEW e \in S
  PROVE  <<a, b, c, d, e>> \in Seq(S)
<1>1. <<a, b, c, d, e>> \in [1..5 -> S]
  OBVIOUS
<1> QED
  BY <1>1, SeqDef

LEMMA ResourcesAreSequences ==
  ASSUME NEW c \in Connected
  PROVE  Resources[c] \in Seq(Syncs)
<1>1. c \in {"shopify", "meta", "tiktok", "xero"}
  BY ConnectedAssumption DEF Resources
<1>2. Resources["shopify"] \in Seq(Syncs)
  <2>1. Resources["shopify"] = <<"variants", "orders", "payouts">>
    BY DEF Resources
  <2>2. {"variants", "orders", "payouts"} \subseteq Syncs
    BY DEF Syncs
  <2> QED
    BY <2>1, <2>2, SeqOf3
<1>3. Resources["meta"] \in Seq(Syncs)
  <2>1. Resources["meta"] = <<"entities", "insights:account", "insights:campaign",
                              "insights:adset", "insights:ad">>
    BY DEF Resources
  <2>2. {"entities", "insights:account", "insights:campaign",
          "insights:adset", "insights:ad"} \subseteq Syncs
    BY DEF Syncs
  <2> QED
    BY <2>1, <2>2, SeqOf5
<1>4. Resources["tiktok"] \in Seq(Syncs)
  <2>1. Resources["tiktok"] = <<"entities", "report:advertiser", "report:campaign",
                              "report:adgroup", "report:ad">>
    BY DEF Resources
  <2>2. {"entities", "report:advertiser", "report:campaign",
          "report:adgroup", "report:ad"} \subseteq Syncs
    BY DEF Syncs
  <2> QED
    BY <2>1, <2>2, SeqOf5
<1>5. Resources["xero"] \in Seq(Syncs)
  <2>1. Resources["xero"] = <<"accounts", "bank_transactions",
                              "invoices", "bank_balances">>
    BY DEF Resources
  <2>2. {"accounts", "bank_transactions",
          "invoices", "bank_balances"} \subseteq Syncs
    BY DEF Syncs
  <2> QED
    BY <2>1, <2>2, SeqOf4
<1> QED
  BY <1>1, <1>2, <1>3, <1>4, <1>5

LEMMA RangeOfRest ==
  ASSUME NEW s \in Seq(Syncs), s # <<>>
  PROVE  /\ Tail(s) \in Seq(Syncs)
         /\ Range(s) = {Head(s)} \cup Range(Tail(s))
<1>1. /\ Tail(s) \in Seq(Syncs) /\ Len(Tail(s)) = Len(s) - 1 /\ Len(s) \in Nat \ {0}
      /\ Head(s) = s[1]
      /\ \A i \in 1 .. Len(s) - 1 : Tail(s)[i] = s[i + 1]
  OBVIOUS
<1>2. DOMAIN s = 1 .. Len(s) /\ DOMAIN Tail(s) = 1 .. Len(s) - 1
  BY <1>1
<1>3. ASSUME NEW x \in Range(s) PROVE x = Head(s) \/ x \in Range(Tail(s))
  <2>1. PICK i \in 1 .. Len(s) : x = s[i]
    BY <1>2, <1>3 DEF Range
  <2>2. CASE i = 1
    BY <1>1, <2>1, <2>2
  <2>3. CASE i # 1
    <3>1. i - 1 \in 1 .. Len(s) - 1 /\ Tail(s)[i - 1] = x
      BY <1>1, <2>1, <2>3
    <3> QED
      BY <1>2, <3>1 DEF Range
  <2> QED
    BY <2>2, <2>3
<1>4. ASSUME NEW x \in Range(Tail(s)) PROVE x \in Range(s)
  <2>1. PICK i \in 1 .. Len(s) - 1 : x = Tail(s)[i]
    BY <1>2, <1>4 DEF Range
  <2>2. i + 1 \in 1 .. Len(s) /\ x = s[i + 1]
    BY <1>1, <2>1
  <2> QED
    BY <1>2, <2>2 DEF Range
<1>5. Head(s) \in Range(s)
  BY <1>1, <1>2 DEF Range
<1> QED
  BY <1>1, <1>3, <1>4, <1>5

(* An outcome of one connection changes nothing for the others.             *)
LEMMA OthersStand ==
  ASSUME NEW S, NEW P, NEW c, \A o \in P : o.connection # c
  PROVE  /\ OutcomesFor(S \cup P, c) = OutcomesFor(S, c)
         /\ Listed(S, c) => Listed(S \cup P, c)
<1>1. OutcomesFor(S \cup P, c) = OutcomesFor(S, c)
  BY DEF OutcomesFor
<1> QED
  BY <1>1 DEF Listed

LEMMA InitListInv == Init => ListInv
  BY DEF Init, ListInv, Shape, Loaded, AccountedFor, YetToList, AtHand, Reported, None

LEMMA LoadLists ==
  ASSUME ListInv, NEW r \in Refreshes, LoadConnections(r)
  PROVE  Loaded(r)' /\ AccountedFor(r)' /\ YetToList(r)'
<1> DEFINE loaded == {c \in Connected : status[c] = "active"}
<1>1. /\ active'[r] = loaded /\ todo'[r] = {c \in loaded : readable[c]}
      /\ syncs'[r] = Unusable(loaded) /\ pc'[r] = "choosing" /\ answer'[r] = answer[r]
      /\ pc[r] = "start" /\ answer[r] = None
  BY DEF LoadConnections, Goto, ListInv, Shape, Loaded
<1> HIDE DEF loaded
<1>2. \A c \in loaded : readable[c] \/ Outcome(c, "connection", "failed") \in Unusable(loaded)
  BY DEF Unusable
<1>3. \A c \in loaded : readable[c] => OutcomesFor(Unusable(loaded), c) = {}
  BY DEF Unusable, OutcomesFor, Outcome
<1> QED
  BY <1>1, <1>2, <1>3 DEF Loaded, AccountedFor, YetToList, AtHand, Reported, Listed, loaded, None

LEMMA BeginLists ==
  ASSUME ListInv, NEW r \in Refreshes, BeginConnection(r)
  PROVE  Loaded(r)' /\ AccountedFor(r)' /\ YetToList(r)'
<1>1. PICK c \in todo[r] :
        /\ todo' = [todo EXCEPT ![r] = @ \ {c}]
        /\ at' = [at EXCEPT ![r] = c]
        /\ jobs' = [jobs EXCEPT ![r] = Resources[c]]
  BY DEF BeginConnection
<1>2. /\ todo'[r] = todo[r] \ {c} /\ at'[r] = c /\ jobs'[r] = Resources[c] /\ part'[r] = {}
      /\ pc[r] = "choosing" /\ pc'[r] = "claiming" /\ syncs' = syncs /\ active' = active
      /\ answer' = answer
  BY <1>1 DEF BeginConnection, Goto, ListInv, Shape
<1>3. c \in Connected /\ Resources[c] \in Seq(Syncs)
  BY ResourcesAreSequences DEF ListInv, Loaded
<1> QED
  BY <1>2, <1>3 DEF ListInv, Loaded, AccountedFor, YetToList, AtHand, Reported, ResourcesOf, None

LEMMA ThrownLists ==
  ASSUME ListInv, NEW r \in Refreshes, Thrown(r), AtHand(r)
  PROVE  Loaded(r)' /\ AccountedFor(r)' /\ YetToList(r)'
<1> DEFINE o == Outcome(at[r], "connection", "failed")
<1>1. /\ syncs'[r] = syncs[r] \cup {o} /\ pc'[r] = "choosing" /\ active' = active
      /\ todo' = todo /\ answer' = answer
  BY DEF Thrown, Goto, Add, ListInv, Shape
<1>2. o.connection = at[r] /\ Listed(syncs'[r], at[r])
  BY <1>1 DEF Outcome, Listed
<1>3. ASSUME NEW c, c # at[r]
      PROVE  /\ OutcomesFor(syncs'[r], c) = OutcomesFor(syncs[r], c)
             /\ Listed(syncs[r], c) => Listed(syncs'[r], c)
  <2> HIDE DEF o
  <2>1. \A p \in {o} : p.connection # c
    BY <1>2, <1>3
  <2>2. /\ OutcomesFor(syncs[r] \cup {o}, c) = OutcomesFor(syncs[r], c)
        /\ Listed(syncs[r], c) => Listed(syncs[r] \cup {o}, c)
    BY <2>1, OthersStand
  <2> QED
    BY <1>1, <2>2
<1> QED
  BY <1>1, <1>2, <1>3 DEF ListInv, Loaded, AccountedFor, YetToList, AtHand, Reported, None

LEMMA EndSyncLists ==
  ASSUME ListInv, NEW r \in Refreshes, NEW s, EndSync(r, s), AtHand(r), jobs[r] # <<>>
  PROVE  Loaded(r)' /\ AccountedFor(r)' /\ YetToList(r)'
<1> DEFINE o == Outcome(at[r], Head(jobs[r]), s)
<1>1. /\ part'[r] = part[r] \cup {o} /\ jobs'[r] = Tail(jobs[r]) /\ pc'[r] = "claiming"
      /\ active' = active /\ todo' = todo /\ at' = at /\ syncs' = syncs /\ answer' = answer
  BY DEF EndSync, Goto, Add, ListInv, Shape
<1>2. o.connection = at[r] /\ o.resource = Head(jobs[r])
  BY DEF Outcome
<1> HIDE DEF o
<1>3. ResourcesOf(part'[r]) = ResourcesOf(part[r]) \cup {Head(jobs[r])}
  BY <1>1, <1>2 DEF ResourcesOf
<1>4. jobs[r] \in Seq(Syncs)
  BY DEF ListInv, YetToList
<1>5. /\ Tail(jobs[r]) \in Seq(Syncs)
      /\ Range(jobs[r]) = {Head(jobs[r])} \cup Range(Tail(jobs[r]))
  BY <1>4, RangeOfRest
<1> QED
  BY <1>1, <1>2, <1>3, <1>5 DEF ListInv, Loaded, AccountedFor, YetToList, AtHand, Reported, None

LEMMA EndConnectionLists ==
  ASSUME ListInv, NEW r \in Refreshes, EndConnection(r)
  PROVE  Loaded(r)' /\ AccountedFor(r)' /\ YetToList(r)'
<1>1. /\ syncs'[r] = syncs[r] \cup part[r] /\ pc[r] = "claiming" /\ pc'[r] = "choosing"
      /\ jobs[r] = <<>> /\ active' = active /\ todo' = todo /\ answer' = answer
  BY DEF EndConnection, Goto, Add, ListInv, Shape
<1>2. Range(jobs[r]) = {}
  BY <1>1 DEF Range
<1>3. /\ at[r] \in Connected \ todo[r] /\ OutcomesFor(syncs[r], at[r]) = {}
      /\ \A o \in part[r] : o.connection = at[r]
      /\ ResourcesOf(part[r]) = Range(Resources[at[r]])
  BY <1>1, <1>2 DEF ListInv, YetToList, AtHand
<1>4. OutcomesFor(syncs'[r], at[r]) = part[r]
  BY <1>1, <1>3 DEF OutcomesFor
<1>5. Listed(syncs'[r], at[r])
  BY <1>3, <1>4 DEF Listed
<1>6. ASSUME NEW c, c # at[r]
      PROVE  /\ OutcomesFor(syncs'[r], c) = OutcomesFor(syncs[r], c)
             /\ Listed(syncs[r], c) => Listed(syncs'[r], c)
  <2>1. \A p \in part[r] : p.connection # c
    BY <1>3, <1>6
  <2> QED
    BY <1>1, <2>1, OthersStand
<1> QED
  BY <1>1, <1>3, <1>5, <1>6
  DEF ListInv, Loaded, AccountedFor, YetToList, AtHand, Reported, None

(* Claiming, calculating, answering,    throwing as a whole and being killed *)
(* change nothing but where the refresh is.                                 *)
LEMMA RestLists ==
  ASSUME ListInv, NEW r \in Refreshes,
         Claim(r) \/ Decline(r) \/ LoadFacts(r) \/ Publish(r) \/ Answer(r) \/ Error(r) \/ Kill(r)
  PROVE  Loaded(r)' /\ AccountedFor(r)' /\ YetToList(r)'
<1> USE DEF ListInv, Shape, Loaded, AccountedFor, YetToList, AtHand, Reported, None, Goto
<1>1. CASE Claim(r)
  BY <1>1 DEF Claim, progress
<1>2. CASE Decline(r) \/ LoadFacts(r) \/ Publish(r)
  BY <1>2 DEF Decline, LoadFacts, Publish, progress
<1>3. CASE Answer(r)
  BY <1>3 DEF Answer, AnswerWith
<1>4. CASE Error(r)
  BY <1>4 DEF Error, AnswerWith
<1>5. CASE Kill(r)
  BY <1>5 DEF Kill, Working, progress
<1> QED
  BY <1>1, <1>2, <1>3, <1>4, <1>5

LEMMA MoverLists ==
  ASSUME ListInv, NEW r \in Refreshes, RefreshOn(r) \/ Kill(r)
  PROVE  Loaded(r)' /\ AccountedFor(r)' /\ YetToList(r)'
<1>1. CASE ProviderThrows(r) \/ SyncThrows(r)
  BY <1>1, ThrownLists DEF ProviderThrows, SyncThrows, AtHand
<1>2. CASE Skip(r)
  BY <1>2, EndSyncLists DEF Skip, AtHand
<1>3. ASSUME pc[r] = "running" PROVE AtHand(r) /\ jobs[r] # <<>>
  BY <1>3 DEF ListInv, YetToList, AtHand
<1>4. CASE Succeed(r)
  BY <1>3, <1>4, EndSyncLists DEF Succeed
<1>5. CASE Fail(r)
  <2>1. PICK missingScope \in BOOLEAN :
          EndSync(r, IF IsCapability(Head(jobs[r]), missingScope)
                       THEN "not_permitted" ELSE "failed")
    BY <1>5 DEF Fail
  <2> QED
    BY <1>3, <1>5, <2>1, EndSyncLists DEF Fail
<1> QED
  BY <1>1, <1>2, <1>4, <1>5, LoadLists, BeginLists, EndConnectionLists, RestLists DEF RefreshOn

(* A step of r leaves the other refreshes alone.                            *)
LEMMA OthersRest ==
  ASSUME Shape, NEW r \in Refreshes, RefreshOn(r) \/ Kill(r)
  PROVE  Shape' /\ \A q \in Refreshes \ {r} : Resting(q)
<1> USE DEF Shape, Resting, progress, figures
<1>1. CASE LoadConnections(r)
  BY <1>1 DEF LoadConnections, Goto
<1>2. CASE BeginConnection(r)
  BY <1>2 DEF BeginConnection, Goto
<1>3. CASE ProviderThrows(r)
  BY <1>3 DEF ProviderThrows, Thrown, Goto, Add
<1>4. CASE Claim(r)
  BY <1>4 DEF Claim, Goto
<1>5. CASE Skip(r)
  BY <1>5 DEF Skip, EndSync, Goto, Add
<1>6. CASE Succeed(r)
  BY <1>6 DEF Succeed, EndSync, Goto, Add
<1>7. CASE Fail(r)
  BY <1>7 DEF Fail, EndSync, Goto, Add
<1>8. CASE SyncThrows(r)
  BY <1>8 DEF SyncThrows, Thrown, Goto, Add
<1>9. CASE EndConnection(r)
  BY <1>9 DEF EndConnection, Goto, Add
<1>10. CASE Decline(r) \/ LoadFacts(r) \/ Publish(r)
  BY <1>10 DEF Decline, LoadFacts, Publish, Goto
<1>11. CASE Error(r)
  BY <1>11 DEF Error, AnswerWith, Goto
<1>12. CASE Answer(r)
  BY <1>12 DEF Answer, AnswerWith, Goto
<1>13. CASE Kill(r)
  BY <1>13 DEF Kill, Goto
<1> QED
  BY <1>1, <1>2, <1>3, <1>4, <1>5, <1>6, <1>7, <1>8, <1>9, <1>10, <1>11, <1>12, <1>13
  DEF RefreshOn

LEMMA StepListInv ==
  ASSUME ListInv, [Next]_vars
  PROVE  ListInv'
<1>1. ASSUME NEW r \in Refreshes, RefreshOn(r) \/ Kill(r) PROVE ListInv'
  <2>1. Shape' /\ \A q \in Refreshes \ {r} : Resting(q)
    BY <1>1, OthersRest DEF ListInv
  <2>2. \A q \in Refreshes \ {r} : Loaded(q)' /\ AccountedFor(q)' /\ YetToList(q)'
    BY <2>1, RestingKeeps DEF ListInv
  <2>3. Loaded(r)' /\ AccountedFor(r)' /\ YetToList(r)'
    BY <1>1, MoverLists
  <2> QED
    BY <2>1, <2>2, <2>3 DEF ListInv
<1>2. ASSUME UNCHANGED <<figures, pc, progress>> PROVE ListInv'
  BY <1>2, RestingKeeps DEF ListInv, Shape, progress, Resting
<1> QED
  BY <1>1, <1>2 DEF Next, GoStale, vars

(* A refresh that answers has an outcome for each connection it loaded: one *)
(* failure of the connection, or one outcome for each of its syncs.         *)
THEOREM EveryConnectionIsListed == Spec => []NothingLeftOut
<1>1. ListInv /\ [Next]_vars => ListInv'
  BY StepListInv
<1>2. ASSUME ListInv PROVE NothingLeftOut
  <2> SUFFICES ASSUME NEW r \in Refreshes, Reported(r), NEW c \in active[r]
               PROVE  Listed(syncs[r], c)
    BY DEF NothingLeftOut, Listed, OutcomeOf, OutcomesFor, ResourcesOf
  <2>1. pc[r] = "done" /\ todo[r] = {}
    BY <1>2 DEF ListInv, Loaded, Reported, None
  <2> QED
    BY <1>2, <2>1 DEF ListInv, AccountedFor, AtHand
<1> QED
  BY InitListInv, <1>1, <1>2, PTL DEF Spec

-----------------------------------------------------------------------------
(* Every variable keeps its type: the syncs to come are always the last of  *)
(* those of the connection at hand, so that a job key is a known one and an *)
(* outcome names a known sync.                                              *)
EndOf(s, t) ==
  /\ s \in Seq(Syncs) /\ Len(s) <= Len(t)
  /\ \A i \in 1 .. Len(s) : s[i] = t[Len(t) - Len(s) + i]

TypedSyncs(r) ==
  /\ at[r] # None => EndOf(jobs[r], Resources[at[r]])
  /\ AtHand(r) => at[r] # None
  /\ pc[r] = "running" => jobs[r] # <<>>

VariablesTyped ==
  /\ status \in [Connected -> {"active", "needs_reauth"}]
  /\ readable \in [Connected -> BOOLEAN]
  /\ run \in [Keys -> {"none", "running", "stale", "failed", "succeeded"}]
  /\ approved \in BOOLEAN /\ arrived \subseteq Keys /\ published \subseteq arrived
  /\ read \in [Refreshes -> SUBSET arrived] /\ raced \in [Refreshes -> BOOLEAN]
  /\ pc \in [Refreshes -> Working \cup {"start", "calculated", "done", "killed"}]
  /\ active \in [Refreshes -> SUBSET Connected]
  /\ \A r \in Refreshes : todo[r] \subseteq active[r]
  /\ at \in [Refreshes -> Connected \cup {None}]
  /\ part \in [Refreshes -> SUBSET Outcomes] /\ syncs \in [Refreshes -> SUBSET Outcomes]
  /\ hurt \in [Refreshes -> SUBSET Connected]
  /\ answer \in [Refreshes -> {None, "ok", "partial", "declined", "error"}]

TypeInv == Shape /\ VariablesTyped /\ \A r \in Refreshes : TypedSyncs(r)

LEMMA EndIsSuffix ==
  ASSUME NEW t \in Seq(Syncs), NEW s, EndOf(s, t)
  PROVE  IsSuffix(s, t)
<1>1. /\ s \in Seq(Syncs) /\ Len(s) \in Nat /\ Len(t) \in Nat /\ Len(s) <= Len(t)
      /\ \A i \in 1 .. Len(s) : s[i] = t[Len(t) - Len(s) + i]
  BY DEF EndOf
<1> DEFINE rs == [i \in 1 .. Len(s) |-> s[(Len(s) - i) + 1]]
<1> DEFINE rt == [i \in 1 .. Len(t) |-> t[(Len(t) - i) + 1]]
<1>2. Reverse(s) = rs /\ Reverse(t) = rt
  BY DEF Reverse
<1>3. /\ rs \in Seq(Syncs) /\ Len(rs) = Len(s) /\ rt \in Seq(Syncs) /\ Len(rt) = Len(t)
  <2>1. \A i \in 1 .. Len(s) : (Len(s) - i) + 1 \in 1 .. Len(s)
    BY <1>1
  <2>2. \A i \in 1 .. Len(t) : (Len(t) - i) + 1 \in 1 .. Len(t)
    BY <1>1
  <2>3. rs \in [1 .. Len(s) -> Syncs] /\ rt \in [1 .. Len(t) -> Syncs]
    BY <1>1, <2>1, <2>2
  <2> QED
    BY <1>1, <2>3
<1>4. ASSUME NEW i \in 1 .. Len(s) PROVE rs[i] = rt[i]
  <2>1. (Len(s) - i) + 1 \in 1 .. Len(s) /\ i \in 1 .. Len(t)
    BY <1>1
  <2>2. rs[i] = t[Len(t) - Len(s) + ((Len(s) - i) + 1)]
    BY <1>1, <2>1
  <2>3. Len(t) - Len(s) + ((Len(s) - i) + 1) = (Len(t) - i) + 1
    BY <1>1
  <2> QED
    BY <2>1, <2>2, <2>3
<1> HIDE DEF rs, rt
<1>5. SubSeq(rs, 1, Len(s)) = SubSeq(rt, 1, Len(s))
  BY <1>1, <1>3, <1>4
<1> QED
  BY <1>1, <1>2, <1>3, <1>5 DEF IsSuffix, IsPrefix

LEMMA WholeIsEnd == ASSUME NEW t \in Seq(Syncs) PROVE EndOf(t, t)
  BY DEF EndOf

LEMMA RestIsEnd ==
  ASSUME NEW t \in Seq(Syncs), NEW s, EndOf(s, t), s # <<>>
  PROVE  EndOf(Tail(s), t) /\ Head(s) \in Range(t)
<1>1. /\ s \in Seq(Syncs) /\ Len(s) \in Nat \ {0} /\ Len(t) \in Nat /\ Len(s) <= Len(t)
      /\ \A i \in 1 .. Len(s) : s[i] = t[Len(t) - Len(s) + i]
  BY DEF EndOf
<1>2. /\ Tail(s) \in Seq(Syncs) /\ Len(Tail(s)) = Len(s) - 1 /\ Head(s) = s[1]
      /\ \A i \in 1 .. Len(s) - 1 : Tail(s)[i] = s[i + 1]
  BY <1>1
<1>3. ASSUME NEW i \in 1 .. Len(Tail(s)) PROVE Tail(s)[i] = t[Len(t) - Len(Tail(s)) + i]
  <2>1. i + 1 \in 1 .. Len(s) /\ Len(t) - Len(s) + (i + 1) = Len(t) - Len(Tail(s)) + i
    BY <1>1, <1>2
  <2> QED
    BY <1>1, <1>2, <2>1
<1>4. Len(t) - Len(s) + 1 \in DOMAIN t /\ Head(s) = t[Len(t) - Len(s) + 1]
  BY <1>1, <1>2
<1>5. Len(Tail(s)) <= Len(t)
  BY <1>1, <1>2
<1>6. EndOf(Tail(s), t)
  BY <1>2, <1>3, <1>5, Zenon DEF EndOf
<1>7. Head(s) \in Range(t)
  BY <1>4, Zenon DEF Range
<1> QED
  BY <1>6, <1>7

(* The sync at hand is a known one.                                         *)
LEMMA AtHandIsKnown ==
  ASSUME TypeInv, NEW r \in Refreshes, AtHand(r)
  PROVE  /\ at[r] \in Connected /\ Resources[at[r]] \in Seq(Syncs)
         /\ jobs[r] # <<>> => /\ EndOf(Tail(jobs[r]), Resources[at[r]])
                              /\ Key(r) \in Keys
                              /\ \A s \in {"succeeded", "failed", "already_succeeded", "not_permitted"} :
                                   Outcome(at[r], Head(jobs[r]), s) \in Outcomes
<1>1. at[r] \in Connected /\ EndOf(jobs[r], Resources[at[r]])
  BY DEF TypeInv, VariablesTyped, TypedSyncs
<1>2. Resources[at[r]] \in Seq(Syncs)
  BY <1>1, ResourcesAreSequences
<1>3. ASSUME jobs[r] # <<>>
      PROVE  EndOf(Tail(jobs[r]), Resources[at[r]]) /\ Head(jobs[r]) \in Range(Resources[at[r]])
  BY <1>1, <1>2, <1>3, RestIsEnd
<1>4. Discriminator[r] \in Discriminators
  BY DEF Discriminators
<1>5. ASSUME jobs[r] # <<>> PROVE Key(r) \in Keys
  BY <1>1, <1>3, <1>4, <1>5 DEF Key, Keys
<1>6. ASSUME jobs[r] # <<>>, NEW s \in {"succeeded", "failed", "already_succeeded", "not_permitted"}
      PROVE  Outcome(at[r], Head(jobs[r]), s) \in Outcomes
  BY <1>1, <1>3, <1>6 DEF Outcome, Outcomes
<1> QED
  BY <1>1, <1>2, <1>3, <1>5, <1>6

LEMMA ConnectionOutcome ==
  ASSUME NEW c \in Connected
  PROVE  Outcome(c, "connection", "failed") \in Outcomes
  BY DEF Outcome, Outcomes

LEMMA TypeInvIsTyped == ASSUME TypeInv PROVE TypeOK
<1>1. ASSUME NEW r \in Refreshes, at[r] # None PROVE IsSuffix(jobs[r], Resources[at[r]])
  <2>1. at[r] \in Connected /\ EndOf(jobs[r], Resources[at[r]])
    BY <1>1 DEF TypeInv, VariablesTyped, TypedSyncs
  <2> QED
    BY <2>1, ResourcesAreSequences, EndIsSuffix
<1> QED
  BY <1>1 DEF TypeInv, VariablesTyped, TypeOK

LEMMA InitTypeInv == Init => TypeInv
  BY DEF Init, TypeInv, Shape, VariablesTyped, TypedSyncs, AtHand, Working, None

LEMMA LoadTyped ==
  ASSUME TypeInv, NEW r \in Refreshes, LoadConnections(r)
  PROVE  VariablesTyped' /\ TypedSyncs(r)'
<1> DEFINE loaded == {c \in Connected : status[c] = "active"}
<1>1. Unusable(loaded) \in SUBSET Outcomes
  BY ConnectionOutcome DEF Unusable
<1> USE DEF TypeInv, Shape, VariablesTyped, TypedSyncs, AtHand, Working
<1>2. VariablesTyped'
  BY <1>1 DEF LoadConnections, Goto
<1>3. TypedSyncs(r)'
  BY DEF LoadConnections, Goto
<1> QED
  BY <1>2, <1>3

LEMMA BeginTyped ==
  ASSUME TypeInv, NEW r \in Refreshes, BeginConnection(r)
  PROVE  VariablesTyped' /\ TypedSyncs(r)'
<1>1. PICK c \in todo[r] : /\ todo' = [todo EXCEPT ![r] = @ \ {c}]
                           /\ at' = [at EXCEPT ![r] = c]
                           /\ jobs' = [jobs EXCEPT ![r] = Resources[c]]
  BY DEF BeginConnection
<1>2. c \in Connected
  BY DEF TypeInv, VariablesTyped
<1>3. EndOf(Resources[c], Resources[c])
  BY <1>2, ResourcesAreSequences, WholeIsEnd
<1> USE DEF TypeInv, Shape, VariablesTyped, TypedSyncs, AtHand, Working
<1>4. VariablesTyped'
  BY <1>1, <1>2 DEF BeginConnection, Goto
<1>5. TypedSyncs(r)'
  <2>1. at'[r] = c /\ jobs'[r] = Resources[c] /\ pc'[r] = "claiming"
    BY <1>1 DEF BeginConnection, Goto
  <2>2. c # None
    BY <1>2, ConnectedAssumption DEF None, Resources
  <2> QED
    BY <1>3, <2>1, <2>2
<1> QED
  BY <1>4, <1>5

LEMMA ThrownTyped ==
  ASSUME TypeInv, NEW r \in Refreshes, AtHand(r), Thrown(r), UNCHANGED <<status, readable, approved>>,
         run' \in [Keys -> {"none", "running", "stale", "failed", "succeeded"}],
         arrived \subseteq arrived', arrived' \subseteq Keys, figures' = figures
  PROVE  VariablesTyped' /\ TypedSyncs(r)'
<1>1. at[r] \in Connected /\ Outcome(at[r], "connection", "failed") \in Outcomes
  BY AtHandIsKnown, ConnectionOutcome
<1> USE DEF TypeInv, Shape, VariablesTyped, TypedSyncs, AtHand, Working
<1>2. VariablesTyped'
  BY <1>1 DEF Thrown, Goto, Add
<1>3. TypedSyncs(r)'
  BY DEF Thrown, Goto
<1> QED
  BY <1>2, <1>3

LEMMA EndSyncTyped ==
  ASSUME TypeInv, NEW r \in Refreshes, AtHand(r), jobs[r] # <<>>,
         NEW s \in {"succeeded", "failed", "already_succeeded", "not_permitted"}, EndSync(r, s),
         status' \in [Connected -> {"active", "needs_reauth"}], UNCHANGED <<readable, approved, figures>>,
         run' \in [Keys -> {"none", "running", "stale", "failed", "succeeded"}],
         arrived \subseteq arrived', arrived' \subseteq Keys, hurt' \in [Refreshes -> SUBSET Connected]
  PROVE  VariablesTyped' /\ TypedSyncs(r)'
<1>1. /\ at[r] \in Connected /\ Outcome(at[r], Head(jobs[r]), s) \in Outcomes
      /\ EndOf(Tail(jobs[r]), Resources[at[r]])
  BY AtHandIsKnown
<1>2. VariablesTyped'
  BY <1>1 DEF EndSync, Goto, Add, TypeInv, Shape, VariablesTyped, Working
<1>3. TypedSyncs(r)'
  <2>1. at'[r] = at[r] /\ jobs'[r] = Tail(jobs[r]) /\ pc'[r] = "claiming"
    BY DEF EndSync, Goto, TypeInv, Shape
  <2>2. at[r] # None
    BY DEF TypeInv, TypedSyncs
  <2> QED
    BY <1>1, <2>1, <2>2 DEF TypedSyncs, AtHand
<1> QED
  BY <1>2, <1>3

LEMMA MoverTyped ==
  ASSUME TypeInv, NEW r \in Refreshes, RefreshOn(r) \/ Kill(r)
  PROVE  VariablesTyped' /\ TypedSyncs(r)'
<1>1. AtHand(r) => /\ at[r] \in Connected
                   /\ jobs[r] # <<>> => Key(r) \in Keys
  BY AtHandIsKnown
<1>2. pc[r] = "running" => jobs[r] # <<>>
  BY DEF TypeInv, TypedSyncs
<1>3. CASE LoadConnections(r)
  BY <1>3, LoadTyped
<1>4. CASE BeginConnection(r)
  BY <1>4, BeginTyped
<1>5. CASE ProviderThrows(r)
  <2>1. AtHand(r) /\ Thrown(r) /\ UNCHANGED <<status, readable, run, approved, arrived, figures>>
    BY <1>5 DEF ProviderThrows, AtHand
  <2>2. /\ run' \in [Keys -> {"none", "running", "stale", "failed", "succeeded"}]
        /\ arrived' \subseteq Keys /\ arrived \subseteq arrived'
    BY <2>1 DEF TypeInv, VariablesTyped
  <2> QED
    BY <2>1, <2>2, ThrownTyped
<1>6. CASE Claim(r)
  <2>1. AtHand(r) /\ jobs[r] # <<>> /\ (run' = run \/ run' = [run EXCEPT ![Key(r)] = "running"])
    BY <1>6 DEF Claim, AtHand
  <2>2. run' \in [Keys -> {"none", "running", "stale", "failed", "succeeded"}]
    BY <1>1, <2>1 DEF TypeInv, VariablesTyped
  <2>3. VariablesTyped'
    BY <1>6, <2>2 DEF Claim, Goto, progress, TypeInv, Shape, VariablesTyped, Working
  <2> QED
    BY <1>6, <2>1, <2>3 DEF Claim, Goto, progress, TypeInv, Shape, TypedSyncs, AtHand
<1>7. CASE Skip(r)
  <2>1. /\ AtHand(r) /\ jobs[r] # <<>> /\ EndSync(r, "already_succeeded")
        /\ UNCHANGED <<status, readable, run, approved, arrived, figures, hurt>>
    BY <1>7 DEF Skip, AtHand
  <2>2. /\ status' \in [Connected -> {"active", "needs_reauth"}]
        /\ run' \in [Keys -> {"none", "running", "stale", "failed", "succeeded"}]
        /\ arrived \subseteq arrived' /\ arrived' \subseteq Keys /\ hurt' \in [Refreshes -> SUBSET Connected]
    BY <2>1 DEF TypeInv, VariablesTyped
  <2> QED
    BY <2>1, <2>2, EndSyncTyped
<1>8. CASE Succeed(r)
  <2>1. /\ AtHand(r) /\ jobs[r] # <<>> /\ EndSync(r, "succeeded") /\ Record(r, "succeeded")
        /\ arrived' = arrived \cup {Key(r)} /\ UNCHANGED <<status, readable, approved, figures, hurt>>
    BY <1>2, <1>8 DEF Succeed, AtHand
  <2>2. /\ status' \in [Connected -> {"active", "needs_reauth"}]
        /\ run' \in [Keys -> {"none", "running", "stale", "failed", "succeeded"}]
        /\ arrived \subseteq arrived' /\ arrived' \subseteq Keys /\ hurt' \in [Refreshes -> SUBSET Connected]
    BY <1>1, <2>1 DEF TypeInv, VariablesTyped, Record
  <2> QED
    BY <2>1, <2>2, EndSyncTyped
<1>9. CASE Fail(r)
  <2>1. PICK s \in {"failed", "not_permitted"} : EndSync(r, s)
    BY <1>9 DEF Fail
  <2>2. /\ AtHand(r) /\ jobs[r] # <<>> /\ Record(r, "failed")
        /\ UNCHANGED <<readable, approved, arrived, figures>>
        /\ hurt' = hurt \/ hurt' = Add(hurt, r, {at[r]})
        /\ status' = status \/ (at[r] = "xero" /\ status' = [status EXCEPT !["xero"] = "needs_reauth"])
    BY <1>2, <1>9 DEF Fail, AtHand
  <2>3. /\ status' \in [Connected -> {"active", "needs_reauth"}]
        /\ run' \in [Keys -> {"none", "running", "stale", "failed", "succeeded"}]
        /\ arrived \subseteq arrived' /\ arrived' \subseteq Keys /\ hurt' \in [Refreshes -> SUBSET Connected]
    BY <1>1, <2>2 DEF TypeInv, VariablesTyped, Record, Add
  <2> QED
    BY <2>1, <2>2, <2>3, EndSyncTyped
<1>10. CASE SyncThrows(r)
  <2>1. PICK s \in {"running", "failed", "succeeded"} :
          /\ Record(r, s) /\ arrived' = IF s = "succeeded" THEN arrived \cup {Key(r)} ELSE arrived
    BY <1>10 DEF SyncThrows
  <2>2. AtHand(r) /\ jobs[r] # <<>> /\ Thrown(r) /\ UNCHANGED <<status, readable, approved, figures>>
    BY <1>2, <1>10 DEF SyncThrows, AtHand
  <2>3. /\ run' \in [Keys -> {"none", "running", "stale", "failed", "succeeded"}]
        /\ arrived' \subseteq Keys /\ arrived \subseteq arrived'
    BY <1>1, <2>1, <2>2 DEF TypeInv, VariablesTyped, Record
  <2> QED
    BY <2>2, <2>3, ThrownTyped
<1>11. ASSUME EndConnection(r) \/ Decline(r) \/ LoadFacts(r) \/ Publish(r) \/ Error(r) \/ Answer(r) \/ Kill(r)
       PROVE  VariablesTyped'
  <2> USE DEF TypeInv, Shape, VariablesTyped, Working, Goto, progress
  <2>1. CASE EndConnection(r)
    BY <2>1 DEF EndConnection, Add
  <2>2. CASE Decline(r) \/ LoadFacts(r) \/ Publish(r)
    <3>1. pc' \in [Refreshes -> Working \cup {"start", "calculated", "done", "killed"}]
      BY <2>2 DEF Decline, LoadFacts, Publish
    <3>2. UNCHANGED <<status, readable, run, approved, arrived, progress>>
      BY <2>2 DEF Decline, LoadFacts, Publish
    <3>3. published' \subseteq arrived
      BY <2>2 DEF Decline, LoadFacts, Publish
    <3>4. read' \in [Refreshes -> SUBSET arrived]
      BY <2>2 DEF Decline, LoadFacts, Publish
    <3>5. raced' \in [Refreshes -> BOOLEAN]
      <4>1. CASE LoadFacts(r)
        <5>1. (\E q \in Refreshes \ {r} : pc[q] = "calculating") \in BOOLEAN
          OBVIOUS
        <5> QED
          BY <4>1, <5>1, Zenon DEF LoadFacts
      <4>2. CASE ~LoadFacts(r)
        BY <2>2, <4>2 DEF Decline, Publish
      <4> QED
        BY <4>1, <4>2
    <3> QED
      BY <3>1, <3>2, <3>3, <3>4, <3>5
  <2>3. CASE Error(r)
    <3>1. published' \subseteq arrived
      BY <2>3 DEF Error
    <3>2. /\ pc' \in [Refreshes -> Working \cup {"start", "calculated", "done", "killed"}]
          /\ answer' \in [Refreshes -> {None, "ok", "partial", "declined", "error"}]
          /\ UNCHANGED <<status, readable, run, approved, arrived,
                         active, todo, at, part, syncs, hurt>>
      BY <2>3 DEF Error, AnswerWith
    <3>3. read' \in [Refreshes -> SUBSET arrived] /\ raced' \in [Refreshes -> BOOLEAN]
      BY <2>3 DEF Error
    <3> QED
      BY <3>1, <3>2, <3>3
  <2>4. CASE Answer(r)
    BY <2>4 DEF Answer, AnswerWith
  <2>5. CASE Kill(r)
    BY <2>5 DEF Kill
  <2> QED
    BY <1>11, <2>1, <2>2, <2>3, <2>4, <2>5
<1>12. ASSUME EndConnection(r) \/ Decline(r) \/ LoadFacts(r) \/ Publish(r) \/ Error(r) \/ Answer(r) \/ Kill(r)
       PROVE  TypedSyncs(r)'
  <2>1. /\ pc'[r] \notin {"claiming", "running"} /\ jobs' = jobs
        /\ at'[r] = at[r] \/ at'[r] = None
    BY <1>12 DEF EndConnection, Decline, LoadFacts, Publish, Error, Answer, AnswerWith, Kill, Goto, progress, TypeInv, Shape
  <2> QED
    BY <2>1 DEF TypeInv, TypedSyncs, AtHand
<1> QED
  BY <1>3, <1>4, <1>5, <1>6, <1>7, <1>8, <1>9, <1>10, <1>11, <1>12 DEF RefreshOn

LEMMA StepTypeInv ==
  ASSUME TypeInv, [Next]_vars
  PROVE  TypeInv'
<1>1. ASSUME NEW r \in Refreshes, RefreshOn(r) \/ Kill(r) PROVE TypeInv'
  <2>1. Shape' /\ \A q \in Refreshes \ {r} : Resting(q)
    BY <1>1, OthersRest DEF TypeInv
  <2>2. \A q \in Refreshes \ {r} : TypedSyncs(q)'
    BY <2>1 DEF TypeInv, Resting, TypedSyncs, AtHand
  <2>3. VariablesTyped' /\ TypedSyncs(r)'
    BY <1>1, MoverTyped
  <2> QED
    BY <2>1, <2>2, <2>3 DEF TypeInv
<1>2. ASSUME NEW k \in Keys, GoStale(k) PROVE TypeInv'
  BY <1>2 DEF GoStale, progress, TypeInv, Shape, VariablesTyped, TypedSyncs, AtHand
<1>3. ASSUME UNCHANGED vars PROVE TypeInv'
  BY <1>3 DEF vars, progress, TypeInv, Shape, VariablesTyped, TypedSyncs, AtHand
<1> QED
  BY <1>1, <1>2, <1>3 DEF Next

(* Every reachable state of the refreshes is well typed: what a refresh is  *)
(* at is a connection it loaded, and what it has yet to do the end of that  *)
(* connection's list.                                                       *)
THEOREM RefreshTypeCorrect == Spec => []TypeOK
<1>1. TypeInv /\ [Next]_vars => TypeInv'
  BY StepTypeInv
<1> QED
  BY InitTypeInv, <1>1, TypeInvIsTyped, PTL DEF Spec
=============================================================================
