------------------------------ MODULE XeroProofs ------------------------------
(***************************************************************************)
(* What the connection to Xero keeps.                                      *)
(*                                                                         *)
(* XeroTokens, for every number of processes, failures and grants.         *)
(*                                                                         *)
(* XeroLedger, for any documents, page size and number of changes and      *)
(* faults: a sync of the ledger that completes has read the whole list.    *)
(* The invariant follows a document that is due from the page it is on, to *)
(* the page in hand, to the database.                                      *)
(***************************************************************************)
EXTENDS XeroTokens, XeroLedger, FiniteSetTheorems, TLAPS

-----------------------------------------------------------------------------
(* Type correctness.                                                        *)

LEMMA TokensTypeInit == TokensInit => TokensTypeOK
BY DEF TokensInit, TokensTypeOK, FirstToken, NoToken, TokenPoints

LEMMA SpendType ==
  ASSUME TokensTypeOK, NEW token, Spend(token)
  PROVE  minted' \in Nat /\ valid' \subseteq Nat
<1>1. minted + 1 \in Nat
  BY DEF TokensTypeOK
<1>2. QED BY <1>1 DEF Spend, TokensTypeOK

LEMMA StoreType ==
  ASSUME TokensTypeOK, NEW token \in Nat, Store(token)
  PROVE  row' \in [token : Nat, fresh : BOOLEAN] /\ recorded' \subseteq Nat
BY DEF Store, TokensTypeOK

LEMMA TokensTypeStep == TokensTypeOK /\ [TokensNext]_tokenVars => TokensTypeOK'
<1> SUFFICES ASSUME TokensTypeOK, [TokensNext]_tokenVars PROVE TokensTypeOK'
  OBVIOUS
<1> USE TokenBoundsAssumption, FaultsAssumption DEF TokensTypeOK, Turn, TokenPoints, issued, tokenStore, NoToken
<1>1. ASSUME NEW p \in Processes, BeginXeroRun(p) PROVE TokensTypeOK'
  BY <1>1 DEF BeginXeroRun
<1>2. ASSUME NEW p \in Processes, NextRequest(p) PROVE TokensTypeOK'
  BY <1>2 DEF NextRequest
<1>3. ASSUME NEW p \in Processes, EndRun(p) PROVE TokensTypeOK'
  BY <1>3 DEF EndRun
<1>4. ASSUME NEW p \in Processes, LoadFresh(p) PROVE TokensTypeOK'
  BY <1>4 DEF LoadFresh
<1>5. ASSUME NEW p \in Processes, LoadExpired(p) PROVE TokensTypeOK'
  BY <1>5 DEF LoadExpired
<1>6. ASSUME NEW p \in Processes, Exchange(p) PROVE TokensTypeOK'
  <2>1. minted' \in Nat /\ valid' \subseteq Nat
    BY <1>6, SpendType DEF Exchange
  <2>2. QED BY <1>6, <2>1 DEF Exchange
<1>7. ASSUME NEW p \in Processes, ExchangeRejected(p) PROVE TokensTypeOK'
  BY <1>7 DEF ExchangeRejected
<1>8. ASSUME NEW p \in Processes, AnswerLost(p) PROVE TokensTypeOK'
  <2>1. minted' \in Nat /\ valid' \subseteq Nat
    BY <1>8, SpendType DEF AnswerLost
  <2>2. QED BY <1>8, <2>1 DEF AnswerLost, TokenFault
<1>9. ASSUME NEW p \in Processes, CallFails(p) PROVE TokensTypeOK'
  BY <1>9 DEF CallFails, TokenFault
<1>10. ASSUME NEW p \in Processes, MarkNeedsReauth(p) PROVE TokensTypeOK'
  BY <1>10 DEF MarkNeedsReauth
<1>11. ASSUME NEW p \in Processes, MarkLost(p) PROVE TokensTypeOK'
  BY <1>11 DEF MarkLost, TokenFault
<1>12. ASSUME NEW p \in Processes, Save(p) PROVE TokensTypeOK'
  BY <1>12 DEF Save, Store
<1>13. ASSUME NEW p \in Processes, SaveFails(p) PROVE TokensTypeOK'
  <2>1. row' \in [token : Nat, fresh : BOOLEAN] /\ recorded' \subseteq Nat
    BY <1>13, StoreType DEF SaveFails
  <2>2. QED BY <1>13, <2>1 DEF SaveFails, TokenFault
<1>14. ASSUME NEW p \in Processes, ProcessDies(p) PROVE TokensTypeOK'
  BY <1>14 DEF ProcessDies, TokenFault
<1>15. ASSUME ExpireAccess PROVE TokensTypeOK'
  BY <1>15 DEF ExpireAccess
<1>16. ASSUME Revoke PROVE TokensTypeOK'
  BY <1>16 DEF Revoke, TokenFault
<1>17. ASSUME Authorise PROVE TokensTypeOK'
  BY <1>17 DEF Authorise
<1>18. ASSUME StoreAuthorisation PROVE TokensTypeOK'
  BY <1>18 DEF StoreAuthorisation, Store
<1>19. ASSUME DropAuthorisation PROVE TokensTypeOK'
  BY <1>19 DEF DropAuthorisation
<1>20. ASSUME UNCHANGED tokenVars PROVE TokensTypeOK'
  BY <1>20 DEF tokenVars
<1>21. QED
  BY <1>1, <1>2, <1>3, <1>4, <1>5, <1>6, <1>7, <1>8, <1>9, <1>10, <1>11,
       <1>12, <1>13, <1>14, <1>15, <1>16, <1>17, <1>18, <1>19, <1>20
  DEF TokensNext, CurrentAccessToken, Reconnect

(* Every variable keeps its type.                                           *)
THEOREM TokensTypeCorrect == TokensSpec => []TokensTypeOK
<1>1. QED BY TokensTypeInit, TokensTypeStep, PTL DEF TokensSpec

-----------------------------------------------------------------------------
(* Rotation.  A token about to be saved, or held by the reconnect script,   *)
(* was never stored before and nobody else holds it; a token being sent to  *)
(* Xero was read from the row.  So spending the one cannot kill the other.  *)

Unsaved(p) == doing[p] = "saving"
Sent(p) == doing[p] \in {"exchanging", "rejected"}

RotationInv ==
  /\ TokensTypeOK
  /\ recorded \subseteq 1 .. minted
  /\ row.token \in recorded
  /\ RotationIsRecordedBeforeUse
  /\ \A p \in Processes : Sent(p) => held[p] \in recorded
  /\ \A p \in Processes : Unsaved(p) =>
       /\ held[p] \in (1 .. minted) \ (recorded \cup {consent})
       /\ \A q \in Processes \ {p} : Unsaved(q) => held[q] # held[p]
  /\ consent # NoToken => consent \in (1 .. minted) \ recorded
  /\ tokenFaults = 0 => /\ \A p \in Processes : Unsaved(p) => held[p] \in valid
                        /\ consent # NoToken => consent \in valid
                        /\ Alive

LEMMA RotationInit == TokensInit => RotationInv
<1>1. ASSUME TokensInit PROVE RotationInv
  <2>1. TokensTypeOK BY <1>1, TokensTypeInit
  <2>2. QED
    BY <1>1, <2>1 DEF TokensInit, RotationInv, RotationIsRecordedBeforeUse, Sent, Unsaved, Alive, FirstToken, NoToken
<1>2. QED BY <1>1

LEMMA RotationStep == RotationInv /\ [TokensNext]_tokenVars => RotationInv'
<1> SUFFICES ASSUME RotationInv, [TokensNext]_tokenVars PROVE RotationInv'
  OBVIOUS
<1> USE FaultsAssumption DEF TokensTypeOK, RotationInv, RotationIsRecordedBeforeUse, Sent, Unsaved, Alive, AboutToSave, NoToken, Turn, issued, tokenStore
<1>0. TokensTypeOK /\ TokensTypeOK'
  BY TokensTypeStep
<1>1. ASSUME NEW p \in Processes, BeginXeroRun(p) PROVE RotationInv'
  BY <1>1, <1>0 DEF BeginXeroRun
<1>2. ASSUME NEW p \in Processes, NextRequest(p) PROVE RotationInv'
  BY <1>2, <1>0 DEF NextRequest
<1>3. ASSUME NEW p \in Processes, EndRun(p) PROVE RotationInv'
  BY <1>3, <1>0 DEF EndRun
<1>4. ASSUME NEW p \in Processes, LoadFresh(p) PROVE RotationInv'
  BY <1>4, <1>0 DEF LoadFresh
<1>5. ASSUME NEW p \in Processes, LoadExpired(p) PROVE RotationInv'
  BY <1>5, <1>0 DEF LoadExpired
<1>6. ASSUME NEW p \in Processes, Exchange(p) PROVE RotationInv'
  BY <1>6, <1>0 DEF Exchange, Spend
<1>7. ASSUME NEW p \in Processes, ExchangeRejected(p) PROVE RotationInv'
  BY <1>7, <1>0 DEF ExchangeRejected
<1>8. ASSUME NEW p \in Processes, AnswerLost(p) PROVE RotationInv'
  BY <1>8, <1>0 DEF AnswerLost, Spend, TokenFault
<1>9. ASSUME NEW p \in Processes, CallFails(p) PROVE RotationInv'
  BY <1>9, <1>0 DEF CallFails, TokenFault
<1>10. ASSUME NEW p \in Processes, MarkNeedsReauth(p) PROVE RotationInv'
  BY <1>10, <1>0 DEF MarkNeedsReauth
<1>11. ASSUME NEW p \in Processes, MarkLost(p) PROVE RotationInv'
  BY <1>11, <1>0 DEF MarkLost, TokenFault
<1>12. ASSUME NEW p \in Processes, Save(p) PROVE RotationInv'
  BY <1>12, <1>0 DEF Save, Store
<1>13. ASSUME NEW p \in Processes, SaveFails(p) PROVE RotationInv'
  BY <1>13, <1>0 DEF SaveFails, Store, TokenFault
<1>14. ASSUME NEW p \in Processes, ProcessDies(p) PROVE RotationInv'
  BY <1>14, <1>0 DEF ProcessDies, TokenFault
<1>15. ASSUME ExpireAccess PROVE RotationInv'
  BY <1>15, <1>0 DEF ExpireAccess
<1>16. ASSUME Revoke PROVE RotationInv'
  BY <1>16, <1>0 DEF Revoke, TokenFault
<1>17. ASSUME Authorise PROVE RotationInv'
  BY <1>17, <1>0 DEF Authorise
<1>18. ASSUME StoreAuthorisation PROVE RotationInv'
  BY <1>18, <1>0 DEF StoreAuthorisation, Store
<1>19. ASSUME DropAuthorisation PROVE RotationInv'
  BY <1>19, <1>0 DEF DropAuthorisation
<1>20. ASSUME UNCHANGED tokenVars PROVE RotationInv'
  BY <1>20 DEF tokenVars
<1>21. QED
  BY <1>1, <1>2, <1>3, <1>4, <1>5, <1>6, <1>7, <1>8, <1>9, <1>10, <1>11,
       <1>12, <1>13, <1>14, <1>15, <1>16, <1>17, <1>18, <1>19, <1>20
  DEF TokensNext, CurrentAccessToken, Reconnect

(* No access token is used whose refresh token is not in the database,      *)
(* whatever fails.                                                          *)
THEOREM NothingUnrecordedIsUsed == TokensSpec => []RotationIsRecordedBeforeUse
<1>1. RotationInv => RotationIsRecordedBeforeUse
  BY DEF RotationInv
<1>2. QED BY <1>1, RotationInit, RotationStep, PTL DEF TokensSpec

(* However many processes refresh at once and whenever a human reconnects,  *)
(* rotation alone never loses the connection.                               *)
THEOREM RotationIsSafe == TokensSpec => []RotationKeepsTheConnection
<1>1. RotationInv => RotationKeepsTheConnection
  BY DEF RotationInv, RotationKeepsTheConnection
<1>2. QED BY <1>1, RotationInit, RotationStep, PTL DEF TokensSpec

-----------------------------------------------------------------------------
(* One process at a time, and reconnects only between its runs: it holds    *)
(* the stored token, so Xero's answer is about the stored token.            *)

OneAtATime == /\ QuietReconnects
              /\ \A p, q \in Processes : p = q

ReauthInv ==
  /\ TokensTypeOK
  /\ row.token \in 1 .. minted
  /\ \A p \in Processes : Unsaved(p) => held[p] \in 1 .. minted
  /\ consent \in 0 .. minted
  /\ NeedsReauthIsTrue
  /\ \A p \in Processes :
       /\ Sent(p) => held[p] = row.token
       /\ doing[p] = "rejected" => row.token \notin valid
       /\ Unsaved(p) => connection = "active"

LEMMA ReauthInit == TokensInit => ReauthInv
<1>1. ASSUME TokensInit PROVE ReauthInv
  <2>1. TokensTypeOK BY <1>1, TokensTypeInit
  <2>2. QED BY <1>1, <2>1 DEF TokensInit, NoToken, ReauthInv, NeedsReauthIsTrue, Sent, Unsaved, FirstToken
<1>2. QED BY <1>1

LEMMA ReauthStep ==
  ASSUME OneAtATime
  PROVE  ReauthInv /\ [TokensNext]_tokenVars => ReauthInv'
<1> SUFFICES ASSUME ReauthInv, [TokensNext]_tokenVars PROVE ReauthInv'
  OBVIOUS
<1> USE FaultsAssumption DEF TokensTypeOK, OneAtATime, ReauthInv, NeedsReauthIsTrue, Sent, Unsaved, Alive, AboutToSave, NoToken, Turn, issued, tokenStore
<1>0. TokensTypeOK /\ TokensTypeOK'
  BY TokensTypeStep
<1>1. ASSUME NEW p \in Processes, BeginXeroRun(p) PROVE ReauthInv'
  BY <1>1, <1>0 DEF BeginXeroRun
<1>2. ASSUME NEW p \in Processes, NextRequest(p) PROVE ReauthInv'
  BY <1>2, <1>0 DEF NextRequest
<1>3. ASSUME NEW p \in Processes, EndRun(p) PROVE ReauthInv'
  BY <1>3, <1>0 DEF EndRun
<1>4. ASSUME NEW p \in Processes, LoadFresh(p) PROVE ReauthInv'
  BY <1>4, <1>0 DEF LoadFresh
<1>5. ASSUME NEW p \in Processes, LoadExpired(p) PROVE ReauthInv'
  BY <1>5, <1>0 DEF LoadExpired
<1>6. ASSUME NEW p \in Processes, Exchange(p) PROVE ReauthInv'
  BY <1>6, <1>0 DEF Exchange, Spend
<1>7. ASSUME NEW p \in Processes, ExchangeRejected(p) PROVE ReauthInv'
  BY <1>7, <1>0 DEF ExchangeRejected
<1>8. ASSUME NEW p \in Processes, AnswerLost(p) PROVE ReauthInv'
  BY <1>8, <1>0 DEF AnswerLost, Spend, TokenFault
<1>9. ASSUME NEW p \in Processes, CallFails(p) PROVE ReauthInv'
  BY <1>9, <1>0 DEF CallFails, TokenFault
<1>10. ASSUME NEW p \in Processes, MarkNeedsReauth(p) PROVE ReauthInv'
  BY <1>10, <1>0 DEF MarkNeedsReauth
<1>11. ASSUME NEW p \in Processes, MarkLost(p) PROVE ReauthInv'
  BY <1>11, <1>0 DEF MarkLost, TokenFault
<1>12. ASSUME NEW p \in Processes, Save(p) PROVE ReauthInv'
  BY <1>12, <1>0 DEF Save, Store
<1>13. ASSUME NEW p \in Processes, SaveFails(p) PROVE ReauthInv'
  BY <1>13, <1>0 DEF SaveFails, Store, TokenFault
<1>14. ASSUME NEW p \in Processes, ProcessDies(p) PROVE ReauthInv'
  BY <1>14, <1>0 DEF ProcessDies, TokenFault
<1>15. ASSUME ExpireAccess PROVE ReauthInv'
  BY <1>15, <1>0 DEF ExpireAccess
<1>16. ASSUME Revoke PROVE ReauthInv'
  BY <1>16, <1>0 DEF Revoke, TokenFault
<1>17. ASSUME Authorise PROVE ReauthInv'
  BY <1>17, <1>0 DEF Authorise
<1>18. ASSUME StoreAuthorisation PROVE ReauthInv'
  BY <1>18, <1>0 DEF StoreAuthorisation, Store
<1>19. ASSUME DropAuthorisation PROVE ReauthInv'
  BY <1>19, <1>0 DEF DropAuthorisation
<1>20. ASSUME UNCHANGED tokenVars PROVE ReauthInv'
  BY <1>20 DEF tokenVars
<1>21. QED
  BY <1>1, <1>2, <1>3, <1>4, <1>5, <1>6, <1>7, <1>8, <1>9, <1>10, <1>11,
       <1>12, <1>13, <1>14, <1>15, <1>16, <1>17, <1>18, <1>19, <1>20
  DEF TokensNext, CurrentAccessToken, Reconnect

(* When runs do not overlap and a human reconnects between them,            *)
(* needs_reauth is never set on a connection that still works, whatever     *)
(* fails.  With overlapping runs it is: the run XeroTokens_race shows how.  *)
THEOREM ReauthIsTrueWhenAlone ==
  ASSUME OneAtATime
  PROVE  TokensSpec => []NeedsReauthIsTrue
<1>1. ReauthInv => NeedsReauthIsTrue
  BY DEF ReauthInv
<1>2. ReauthInv /\ [TokensNext]_tokenVars => ReauthInv'
  BY ReauthStep
<1>3. QED BY <1>1, <1>2, ReauthInit, PTL DEF TokensSpec

-----------------------------------------------------------------------------
(* The ledger.                                                              *)

InHandPoints == {"writing", "lines", "advancing"}

(* Revisions only grow, and the database is never ahead of Xero.            *)
Revs ==
  \A d \in Docs :
    /\ place[d] <= changes
    /\ ledger[d].rev <= changes
    /\ stored[d].rev <= ledger[d].rev
    /\ lines[d].rev <= ledger[d].rev
    /\ lines[d].known => AccountOf[d] \in accounts

(* The page in hand: one record per document, of the kind being read,       *)
(* between what is stored and what Xero has by now.                         *)
Records ==
  /\ pc \notin InHandPoints => page = {}
  /\ \A r, s \in page : r.doc = s.doc => r = s
  /\ \A r \in page : /\ r.doc \in DocsOf(kind)
                     /\ stored[r.doc].rev <= r.rev
                     /\ lines[r.doc].rev <= r.rev
                     /\ r.rev <= ledger[r.doc].rev

(* How much of the page in hand is written.                                 *)
Written ==
  \A r \in Survivors :
    /\ pc \in {"lines", "advancing"} => stored[r.doc].rev = r.rev
    /\ pc = "advancing" /\ r.doc \in Transactions =>
         /\ lines[r.doc].rev = r.rev
         /\ AccountOf[r.doc] \in accounts => lines[r.doc].known

Standing(k, e) ==
  /\ e.doc \in Listed(k) \ Dropped
  /\ e.rev <= ledger[e.doc].rev
  /\ e.known => AccountOf[e.doc] \in accounts

Start(k) == (PageNumber(k) - 1) * PageSize
Finish(k) == PageNumber(k) * PageSize

(* What is due is still listed, and is stored if it is before the cursor.   *)
Dues ==
  \A k \in Kinds : \A e \in due[k] :
    /\ Standing(k, e)
    /\ Before(k, e.doc) < Start(k) => Arrived(e)

Carried(e) == \E r \in page : r.doc = e.doc /\ e.rev <= r.rev

(* With a page in hand: what is due up to its end is stored or carried by   *)
(* it, and if no page is to follow, everything due is.                      *)
InHand ==
  pc \in InHandPoints =>
    /\ next \in {NoPage, PageNumber(kind) + 1}
    /\ \A e \in due[kind] :
         /\ next = NoPage => Before(kind, e.doc) < Finish(kind)
         /\ Before(kind, e.doc) < Finish(kind) => Arrived(e) \/ Carried(e)

IInv == /\ TypeOK /\ Revs /\ Records /\ Written /\ Dues /\ InHand
        /\ CompletedReadMissesNothing

-----------------------------------------------------------------------------
(* Types.                                                                   *)

LEMMA PageNumberType ==
  ASSUME TypeOK, NEW k \in Kinds
  PROVE  PageNumber(k) \in Nat \ {0}
  BY DEF TypeOK, PageNumber, NoPage

LEMMA DocsOfType ==
  ASSUME NEW k \in Kinds
  PROVE  DocsOf(k) \subseteq Docs
  BY DEF DocsOf, Docs

LEMMA BeforeType ==
  ASSUME NEW k \in Kinds, NEW d
  PROVE  /\ IsFiniteSet(Listed(k))
         /\ Cardinality(Listed(k)) \in Nat
         /\ Before(k, d) \in Nat
<1>1. IsFiniteSet(Listed(k))
  BY DocsAssumption, DocsOfType, FS_Subset DEF Listed
<1>2. IsFiniteSet({e \in Listed(k) : place[e] < place[d]})
  BY <1>1, FS_Subset
<1> QED
  BY <1>1, <1>2, FS_CardinalityType DEF Before

LEMMA RecordOfType ==
  ASSUME TypeOK, NEW d, Held(d)
  PROVE  /\ RecordOf(d) \in page
         /\ RecordOf(d) \in Survivors
         /\ RecordOf(d).doc = d
         /\ RecordOf(d).status \in Statuses
         /\ RecordOf(d).rev \in Nat
<1>1. RecordOf(d) \in Survivors /\ RecordOf(d).doc = d
  BY DEF Held, RecordOf
<1> QED
  BY <1>1 DEF Survivors, TypeOK

LEMMA ChangeType ==
  ASSUME TypeOK, NEW d \in Docs, NEW s \in Statuses, Change(d, s)
  PROVE  /\ ledger' \in [Docs -> Documents]
         /\ changes' \in Nat
         /\ changes + 1 \in Nat
         /\ UNCHANGED <<database, pc, kind, page, next, kept, faults>>
  BY DEF TypeOK, Change, Documents

LEMMA LeavesType ==
  ASSUME TypeOK, NEW d \in Docs, Leaves(d)
  PROVE  due' \in [Kinds -> SUBSET Promises]
  BY DEF TypeOK, Leaves, Undisturbed

-----------------------------------------------------------------------------
LEMMA PeopleType ==
  ASSUME TypeOK, NEW d \in Docs, Post(d) \/ Edit(d) \/ VoidTransaction(d) \/ VoidInvoice(d)
  PROVE  TypeOK'
<1>1. "AUTHORISED" \in Statuses /\ "VOIDED" \in Statuses
  BY DEF Statuses
<1>2. CASE Post(d)
  <2>1. Change(d, "AUTHORISED") /\ place' = [place EXCEPT ![d] = changes + 1] /\ due' = due
    BY <1>2 DEF Post
  <2> QED
    BY <1>1, <2>1, ChangeType DEF TypeOK, database
<1>3. ASSUME NEW s \in Statuses, Change(d, s), Stays \/ GoesLast(d)
      PROVE  TypeOK'
  <2>1. CASE Stays
    BY <1>3, <2>1, ChangeType DEF TypeOK, database, Stays
  <2>2. CASE GoesLast(d)
    <3>1. due' \in [Kinds -> SUBSET Promises]
      BY <2>2, LeavesType DEF GoesLast
    <3>2. place' \in [Docs -> Nat]
      BY <1>3, <2>2, ChangeType DEF GoesLast, TypeOK
    <3> QED
      BY <1>3, <3>1, <3>2, ChangeType DEF TypeOK, database
  <2> QED
    BY <1>3, <2>1, <2>2
<1>4. CASE Edit(d)
  BY <1>1, <1>3, <1>4 DEF Edit
<1>5. CASE VoidInvoice(d)
  BY <1>1, <1>3, <1>5 DEF VoidInvoice
<1>6. CASE VoidTransaction(d)
  <2>1. Change(d, "VOIDED") /\ place' = place /\ due' \in [Kinds -> SUBSET Promises]
    BY <1>6, LeavesType DEF VoidTransaction
  <2> QED
    BY <1>1, <2>1, ChangeType DEF TypeOK, database
<1> QED
  BY <1>2, <1>4, <1>5, <1>6

LEMMA AfterSyncType ==
  ASSUME AfterSync
  PROVE  kind' \in Kinds /\ pc' \in ControlPoints /\ pc' \notin InHandPoints
  BY DEF AfterSync, Begin, End, Kinds, ControlPoints, InHandPoints

LEMMA SyncType ==
  ASSUME TypeOK, RefreshXero \/ SyncFails \/ Crash
  PROVE  TypeOK'
<1> USE DEF database, xero
<1>1. CASE BeginRun
  BY <1>1 DEF BeginRun, TypeOK, ControlPoints
<1>2. CASE SyncAccounts
  <2>1. Chart \subseteq Accounts
    BY DocsAssumption DEF Chart
  <2> QED
    BY <1>2, <2>1 DEF SyncAccounts, Begin, TypeOK, ControlPoints, Kinds
<1>3. CASE ReadPage
  <2> DEFINE p == PageNumber(kind)
  <2>1. kind \in Kinds /\ p \in Nat \ {0}
    BY PageNumberType DEF TypeOK
  <2>2. page' \subseteq [doc : Docs, status : Statuses, rev : Nat]
    <3>1. OnPage(kind, p) \subseteq Docs
      BY <2>1, DocsOfType DEF OnPage, Listed
    <3> QED
      BY <1>3, <3>1 DEF ReadPage, TypeOK, Documents
  <2>3. next' \in Nat
    BY <1>3, <2>1 DEF ReadPage, NextPages, NoPage
  <2>4. Promised(kind) \subseteq Promises
    <3>1. \A d \in Listed(kind) : d \in Docs /\ ledger[d].rev \in Nat
      BY <2>1, DocsOfType DEF Listed, TypeOK, Documents
    <3>2. \A d \in Docs : (AccountOf[d] \in accounts) \in BOOLEAN
      OBVIOUS
    <3>3. \A d \in Listed(kind) :
            [doc |-> d, rev |-> ledger[d].rev, known |-> AccountOf[d] \in accounts] \in Promises
      BY <3>1, <3>2, Zenon DEF Promises
    <3> QED
      BY <3>3, Zenon DEF Promised
  <2>5. due' \in [Kinds -> SUBSET Promises]
    BY <1>3, <2>1, <2>4 DEF ReadPage, TypeOK
  <2> QED
    BY <1>3, <2>2, <2>3, <2>5 DEF ReadPage, TypeOK, ControlPoints
<1>4. CASE WritePage
  <2>1. stored' \in [Docs -> Documents]
    BY <1>4, RecordOfType DEF WritePage, TypeOK, Documents
  <2> QED
    BY <1>4, <2>1 DEF WritePage, TypeOK, ControlPoints
<1>5. CASE WriteLines
  <2>1. lines' \in [Docs -> Lines]
    BY <1>5, RecordOfType DEF WriteLines, TypeOK, Lines
  <2> QED
    BY <1>5, <2>1 DEF WriteLines, TypeOK, ControlPoints
<1>6. CASE Advance
  <2>1. cursor' \in [Kinds -> Nat]
    BY <1>6 DEF Advance, TypeOK
  <2>2. kept' \in [Kinds -> SUBSET Promises]
    BY <1>6 DEF Advance, TypeOK
  <2>3. kind' \in Kinds /\ pc' \in ControlPoints
    BY <1>6, AfterSyncType DEF Advance, TypeOK, Begin, ControlPoints
  <2> QED
    BY <1>6, <2>1, <2>2, <2>3 DEF Advance, Drop, NoPage, TypeOK
<1>7. CASE SyncFails \/ Crash
  <2>1. kind' \in Kinds /\ pc' \in ControlPoints
    BY <1>7, AfterSyncType DEF SyncFails, Crash, Begin, End, Kinds, ControlPoints
  <2>2. faults' \in Nat
    BY <1>7 DEF SyncFails, Crash, Fault, TypeOK
  <2> QED
    BY <1>7, <2>1, <2>2 DEF SyncFails, Crash, Drop, NoPage, TypeOK
<1> QED
  BY <1>1, <1>2, <1>3, <1>4, <1>5, <1>6, <1>7 DEF RefreshXero

LEMMA LedgerTypeStep ==
  ASSUME TypeOK, [Next]_vars
  PROVE  TypeOK'
<1>1. CASE UNCHANGED vars
  BY <1>1 DEF vars, xero, database, TypeOK
<1> QED
  BY <1>1, PeopleType, SyncType DEF Next

LEMMA InitType ==
  ASSUME Init
  PROVE  TypeOK
<1>1. [status |-> "none", rev |-> Never] \in Documents /\ [rev |-> Never, known |-> FALSE] \in Lines
  BY DEF Documents, Lines, Statuses, Never
<1> QED
  BY <1>1 DEF Init, TypeOK, ControlPoints, Kinds, NoPage

(* Every reachable state of the import and of the ledger is well typed.     *)
THEOREM LedgerTypeCorrect == Spec => []TypeOK
  BY InitType, LedgerTypeStep, PTL DEF Spec
-----------------------------------------------------------------------------
(* People change the ledger.                                                *)

(* What every change of a document leaves alone, and what it does to it.    *)
LEMMA ChangeFacts ==
  ASSUME IInv, NEW d \in Docs, Post(d) \/ Edit(d) \/ VoidTransaction(d) \/ VoidInvoice(d)
  PROVE  /\ UNCHANGED <<accounts, stored, lines, cursor, pc, kind, page, next, kept>>
         /\ changes' = changes + 1
         /\ \A x \in Docs : /\ ledger[x].rev <= ledger'[x].rev
                            /\ ledger'[x].rev <= changes'
                            /\ place'[x] <= changes'
                            /\ x # d => ledger'[x] = ledger[x] /\ place'[x] = place[x]
<1>1. ASSUME NEW s, Change(d, s)
      PROVE  /\ UNCHANGED <<accounts, stored, lines, cursor, pc, kind, page, next, kept>>
             /\ changes' = changes + 1
             /\ \A x \in Docs : /\ ledger[x].rev <= ledger'[x].rev
                                /\ ledger'[x].rev <= changes'
                                /\ x # d => ledger'[x] = ledger[x]
  BY <1>1 DEF Change, database, IInv, Revs, TypeOK, Documents
<1>2. /\ \E s : Change(d, s)
      /\ place' = place \/ place' = [place EXCEPT ![d] = changes + 1]
  BY DEF Post, Edit, VoidTransaction, VoidInvoice, Stays, GoesLast
<1>3. \A x \in Docs : /\ place'[x] <= changes + 1
                      /\ x # d => place'[x] = place[x]
  BY <1>2 DEF IInv, Revs, TypeOK
<1> QED
  BY <1>1, <1>2, <1>3

(* The changed document stays in the list where it was, or is not behind    *)
(* what remains due, neither before nor after.                              *)
LEMMA ChangeDisturbs ==
  ASSUME IInv, NEW d \in Docs, Post(d) \/ Edit(d) \/ VoidTransaction(d) \/ VoidInvoice(d),
         NEW k \in Kinds, NEW e \in due'[k], d \in DocsOf(k)
  PROVE  /\ e \in due[k]
         /\ \/ d \in Listed(k) /\ d \in Listed(k)' /\ place' = place
            \/ /\ e.doc # d
               /\ d \in Listed(k) => place[e.doc] < place[d]
               /\ d \in Listed(k)' => place[e.doc] < place'[d]
<1>1. /\ due \in [Kinds -> SUBSET Promises]
      /\ place \in [Docs -> Nat] /\ changes \in Nat
      /\ ledger \in [Docs -> Documents]
  BY DEF IInv, TypeOK
<1>2. \A f \in due[k] : f.doc \in Listed(k) /\ f.doc \in Docs /\ place[f.doc] <= changes
  BY <1>1, DocsOfType DEF IInv, Dues, Standing, Revs, Listed
<1>3. CASE Post(d)
  <2>1. e \in due[k] /\ d \notin Listed(k) /\ place'[d] = changes + 1
    BY <1>1, <1>3 DEF Post, Listed
  <2> QED
    BY <1>1, <1>2, <2>1
<1>4. ASSUME Leaves(d) PROVE e \in due[k] /\ place[e.doc] < place[d]
  BY <1>1, <1>4 DEF Leaves, Undisturbed
<1>5. CASE VoidTransaction(d)
  <2>1. k = "bank_transactions" /\ ledger'[d].status = "VOIDED"
    BY <1>1, <1>5, DocsAssumption DEF VoidTransaction, Change, DocsOf, Kinds
  <2>2. d \notin Listed(k)'
    BY <2>1 DEF Listed
  <2>3. e.doc # d
    BY <1>1, <1>2, <1>4, <1>5 DEF VoidTransaction
  <2> QED
    BY <1>4, <1>5, <2>2, <2>3 DEF VoidTransaction
<1>6. ASSUME NEW s \in {"AUTHORISED", "VOIDED"}, Change(d, s), Stays \/ GoesLast(d),
             ledger[d].status = "AUTHORISED", s = "VOIDED" => d \in Invoices
      PROVE  \/ e \in due[k] /\ d \in Listed(k) /\ d \in Listed(k)' /\ place' = place
             \/ /\ e \in due[k]
                /\ e.doc # d
                /\ d \in Listed(k) => place[e.doc] < place[d]
                /\ d \in Listed(k)' => place[e.doc] < place'[d]
  <2>1. CASE Stays
    <3>1. ledger'[d].status = s
      BY <1>1, <1>6 DEF Change
    <3>2. s = "VOIDED" => k = "invoices"
      BY <1>6, DocsAssumption DEF DocsOf, Kinds
    <3>3. d \in Listed(k) /\ d \in Listed(k)'
      BY <1>6, <3>1, <3>2 DEF Listed, DocsOf
    <3> QED
      BY <2>1, <3>3 DEF Stays
  <2>2. CASE GoesLast(d)
    <3>1. e \in due[k] /\ place[e.doc] < place[d] /\ place'[d] = changes + 1
      BY <1>1, <1>4, <2>2 DEF GoesLast
    <3>2. place[e.doc] < place'[d]
      BY <1>1, <1>2, <3>1
    <3> QED
      BY <1>1, <1>2, <3>1, <3>2
  <2> QED
    BY <1>6, <2>1, <2>2
<1>7. CASE Edit(d)
  BY <1>6, <1>7 DEF Edit
<1>8. CASE VoidInvoice(d)
  BY <1>6, <1>8 DEF VoidInvoice
<1> QED
  BY <1>3, <1>5, <1>7, <1>8

LEMMA PlaceType ==
  ASSUME IInv, NEW d \in Docs, Post(d) \/ Edit(d) \/ VoidTransaction(d) \/ VoidInvoice(d)
  PROVE  place \in [Docs -> Int] /\ place' \in [Docs -> Int]
  BY PeopleType DEF IInv, TypeOK

(* So what remains due is still listed, with as much listed before it.      *)
LEMMA ChangeKeepsOrder ==
  ASSUME IInv, NEW d \in Docs, Post(d) \/ Edit(d) \/ VoidTransaction(d) \/ VoidInvoice(d),
         NEW k \in Kinds, NEW e \in due'[k]
  PROVE  /\ e \in due[k]
         /\ Standing(k, e)'
         /\ Before(k, e.doc)' = Before(k, e.doc)
<1> DEFINE Ahead == {x \in Listed(k) : place[x] < place[e.doc]}
<1>1. DocsOf(k) \subseteq Docs
  BY DocsOfType
<1>2. \A x \in DocsOf(k) : x # d => /\ x \in Listed(k)' <=> x \in Listed(k)
                                    /\ place'[x] = place[x]
  BY <1>1, ChangeFacts DEF Listed
<1>3. e \in due[k] /\ e.doc \in Listed(k) /\ e.doc \in DocsOf(k)
  <2>1. CASE d \in DocsOf(k)
    BY <2>1, ChangeDisturbs DEF IInv, Dues, Standing, Listed
  <2>2. CASE d \notin DocsOf(k)
    <3>1. due'[k] = due[k]
      BY <2>2 DEF Post, Edit, VoidTransaction, VoidInvoice, Stays, GoesLast, Leaves, IInv, TypeOK
    <3> QED
      BY <3>1 DEF IInv, Dues, Standing, Listed
  <2> QED
    BY <2>1, <2>2
<1>4. e.doc \in Listed(k)' /\ place'[e.doc] = place[e.doc]
  BY <1>2, <1>3, ChangeDisturbs
<1>5. \A x \in DocsOf(k) : x \in Ahead' <=> x \in Ahead
  <2>1. ASSUME NEW x \in DocsOf(k), x # d
        PROVE  x \in Ahead' <=> x \in Ahead
    BY <1>2, <1>4, <2>1
  <2>2. ASSUME d \in DocsOf(k)
        PROVE  d \in Ahead' <=> d \in Ahead
    <3>1. CASE d \in Listed(k) /\ d \in Listed(k)' /\ place' = place
      BY <3>1
    <3>2. CASE /\ d \in Listed(k) => place[e.doc] < place[d]
               /\ d \in Listed(k)' => place[e.doc] < place'[d]
      BY <1>1, <1>3, <1>4, <2>2, <3>2, PlaceType
    <3> QED
      BY <2>2, <3>1, <3>2, ChangeDisturbs
  <2> QED
    BY <2>1, <2>2
<1>6. Ahead' = Ahead
  BY <1>5 DEF Listed
<1>7. Before(k, e.doc)' = Before(k, e.doc)
  BY <1>6 DEF Before
<1>8. e.rev <= ledger'[e.doc].rev
  <2>1. /\ e.rev \in Nat /\ e.rev <= ledger[e.doc].rev
        /\ ledger[e.doc].rev \in Nat /\ ledger'[e.doc].rev \in Nat
    BY <1>1, <1>3, PeopleType DEF IInv, TypeOK, Dues, Standing, Promises, Documents
  <2> QED
    BY <1>1, <1>3, <2>1, ChangeFacts
<1> QED
  BY <1>3, <1>4, <1>7, <1>8, ChangeFacts DEF Standing, IInv, Dues

LEMMA PeopleStep ==
  ASSUME IInv, NEW d \in Docs, Post(d) \/ Edit(d) \/ VoidTransaction(d) \/ VoidInvoice(d)
  PROVE  IInv'
<1>1. TypeOK'
  BY PeopleType DEF IInv
<1>2. Revs'
  <2>1. ASSUME NEW x \in Docs
        PROVE  stored[x].rev <= ledger'[x].rev /\ lines[x].rev <= ledger'[x].rev
    BY <1>1, ChangeFacts DEF IInv, Revs, TypeOK, Documents, Lines
  <2> QED
    BY <2>1, ChangeFacts DEF IInv, Revs
<1>3. Records'
  <2>1. ASSUME NEW r \in page
        PROVE  r.rev <= ledger'[r.doc].rev
    BY <1>1, ChangeFacts DEF IInv, Records, TypeOK, Documents
  <2> QED
    BY <2>1, ChangeFacts DEF IInv, Records
<1>4. Written'
  BY ChangeFacts DEF IInv, Written, Survivors
<1>5. ASSUME NEW e PROVE Arrived(e)' <=> Arrived(e)
  BY ChangeFacts DEF Arrived
<1>6. Dues'
  BY <1>5, ChangeFacts, ChangeKeepsOrder DEF IInv, Dues, Start, PageNumber
<1>7. InHand'
  BY <1>5, ChangeFacts, ChangeKeepsOrder DEF IInv, InHand, Carried, Finish, PageNumber, TypeOK
<1>8. CompletedReadMissesNothing'
  BY <1>5, ChangeFacts DEF IInv, CompletedReadMissesNothing
<1> QED
  BY <1>1, <1>2, <1>3, <1>4, <1>6, <1>7, <1>8 DEF IInv

-----------------------------------------------------------------------------
(* The import.                                                              *)

(* A step that leaves the documents of Xero and of the database, the cursor *)
(* and what is due alone, and no page in hand.                              *)
LEMMA EmptyHandedStep ==
  ASSUME IInv, TypeOK', UNCHANGED <<xero, stored, lines, cursor, due, kept>>,
         accounts \subseteq accounts', page' = {}, pc' \notin InHandPoints
  PROVE  IInv'
<1> USE DEF xero
<1>1. Revs' /\ Records' /\ Written' /\ InHand'
  BY DEF IInv, Revs, Records, Written, InHand, Survivors
<1>2. ASSUME NEW e PROVE Arrived(e)' <=> Arrived(e)
  BY DEF Arrived
<1>3. ASSUME NEW k \in Kinds, NEW e \in due[k]
      PROVE  Standing(k, e)' /\ (Before(k, e.doc) < Start(k) => Arrived(e))'
  BY <1>2 DEF IInv, Dues, Standing, Listed, Before, Start, PageNumber
<1>4. Dues'
  BY <1>3 DEF Dues
<1>5. CompletedReadMissesNothing'
  BY <1>2 DEF IInv, CompletedReadMissesNothing
<1> QED
  BY <1>1, <1>4, <1>5 DEF IInv

(* A document that is due is on the page read, unless it came before it.    *)
LEMMA ReadCarries ==
  ASSUME IInv, ReadPage, NEW e \in due'[kind]
  PROVE  /\ Standing(kind, e)
         /\ Before(kind, e.doc) < Start(kind) => Arrived(e)
         /\ Before(kind, e.doc) < Finish(kind) => Arrived(e) \/ Carried(e)'
<1> DEFINE p == PageNumber(kind)
<1>1. kind \in Kinds /\ p \in Nat \ {0} /\ PageSize \in Nat /\ due \in [Kinds -> SUBSET Promises]
  BY PageNumberType, BoundsAssumption DEF IInv, TypeOK
<1>2. Before(kind, e.doc) \in Nat
  BY <1>1, BeforeType
<1>3. Standing(kind, e) /\ (Before(kind, e.doc) < Start(kind) => Arrived(e))
  <2>1. CASE p = 1
    <3>1. e \in Promised(kind)
      BY <1>1, <2>1 DEF ReadPage
    <3>2. PICK x \in Listed(kind) \ Dropped :
            e = [doc |-> x, rev |-> ledger[x].rev, known |-> AccountOf[x] \in accounts]
      BY <3>1, Zenon DEF Promised
    <3>3. e.doc = x /\ e.rev = ledger[x].rev /\ (e.known <=> AccountOf[x] \in accounts)
      BY <3>2
    <3>4. ledger[x].rev \in Nat
      BY <1>1, DocsOfType DEF Listed, IInv, TypeOK, Documents
    <3>5. Standing(kind, e)
      BY <3>2, <3>3, <3>4 DEF Standing
    <3>6. (p - 1) * PageSize = 0
      BY <1>1, <2>1
    <3> QED
      BY <1>2, <3>5, <3>6 DEF Start
  <2>2. CASE p # 1
    BY <1>1, <2>2 DEF ReadPage, IInv, Dues
  <2> QED
    BY <2>1, <2>2
<1>4. ASSUME Before(kind, e.doc) < Finish(kind), ~(Before(kind, e.doc) < Start(kind))
      PROVE  Carried(e)'
  <2>1. Start(kind) \in Int /\ Finish(kind) \in Int
    BY <1>1 DEF Start, Finish
  <2>2. e.doc \in OnPage(kind, p)
    BY <1>2, <1>3, <1>4, <2>1 DEF OnPage, Start, Finish, Standing
  <2>3. [doc |-> e.doc, status |-> ledger[e.doc].status, rev |-> ledger[e.doc].rev] \in page'
    BY <2>2 DEF ReadPage
  <2> QED
    BY <1>3, <2>3 DEF Carried, Standing
<1> QED
  BY <1>3, <1>4

(* The list ends with the page that no page follows.                        *)
LEMMA LastPageEnds ==
  ASSUME IInv, ReadPage, NEW d \in Listed(kind), next' = NoPage
  PROVE  Before(kind, d) < Finish(kind)
<1> DEFINE Ahead == {x \in Listed(kind) : place[x] < place[d]}
           n == Cardinality(Listed(kind))
           p == PageNumber(kind)
<1>1. kind \in Kinds /\ p \in Nat \ {0} /\ PageSize \in Nat
  BY PageNumberType, BoundsAssumption DEF IInv, TypeOK
<1>2. IsFiniteSet(Listed(kind)) /\ n \in Nat /\ Before(kind, d) \in Nat
  BY <1>1, BeforeType
<1>3. n <= p * PageSize
  <2>1. IsEmpty(kind, p) \/ IsLast(kind, p) \/ IsShort(kind, p)
    <3>1. p + 1 # NoPage
      BY <1>1 DEF NoPage
    <3> QED
      BY <3>1 DEF ReadPage, NextPages
  <2>2. (p - 1) * PageSize <= p * PageSize /\ p * PageSize \in Int
    BY <1>1
  <2>3. (p - 1) * PageSize \in Int
    BY <1>1
  <2> QED
    BY <1>2, <2>1, <2>2, <2>3 DEF IsEmpty, IsLast, IsShort
<1>4. Cardinality(Ahead) <= n - 1
  <2>1. d \notin Ahead
    <3>1. place[d] \in Nat
      BY <1>1, DocsOfType DEF Listed, IInv, TypeOK
    <3> QED
      BY <3>1
  <2>2. Ahead \subseteq Listed(kind) \ {d}
    BY <2>1
  <2>3. IsFiniteSet(Listed(kind) \ {d}) /\ Cardinality(Listed(kind) \ {d}) = n - 1
    BY <1>2, FS_RemoveElement
  <2> QED
    BY <2>2, <2>3, FS_Subset
<1>5. p * PageSize \in Int
  BY <1>1
<1> QED
  BY <1>2, <1>3, <1>4, <1>5 DEF Before, Finish

LEMMA ReadPageStep ==
  ASSUME IInv, ReadPage
  PROVE  IInv'
<1>1. TypeOK'
  BY SyncType DEF IInv, RefreshXero
<1>2. /\ UNCHANGED <<ledger, place, changes, accounts, stored, lines, cursor, kind, kept>>
      /\ pc' = "writing"
      /\ kind \in Kinds
  BY DEF ReadPage, xero, database, IInv, TypeOK
<1>3. Revs' /\ Written'
  BY <1>2 DEF IInv, Revs, Written
<1>4. Records'
  <2>1. ASSUME NEW r \in page'
        PROVE  /\ r.doc \in DocsOf(kind) /\ r.rev = ledger[r.doc].rev
               /\ r = [doc |-> r.doc, status |-> ledger[r.doc].status, rev |-> ledger[r.doc].rev]
    BY <2>1 DEF ReadPage, OnPage, Listed
  <2>2. \A r, s \in page' : r.doc = s.doc => r = s
    BY <2>1
  <2>3. ASSUME NEW r \in page'
        PROVE  stored[r.doc].rev <= r.rev /\ lines[r.doc].rev <= r.rev /\ r.rev <= ledger[r.doc].rev
    <3>1. r.doc \in Docs /\ r.rev = ledger[r.doc].rev /\ ledger[r.doc].rev \in Nat
      BY <1>2, <2>1, DocsOfType DEF IInv, TypeOK, Documents
    <3> QED
      BY <3>1 DEF IInv, Revs
  <2> QED
    BY <1>2, <2>1, <2>2, <2>3 DEF Records, InHandPoints
<1>5. ASSUME NEW e PROVE Arrived(e)' <=> Arrived(e)
  BY <1>2 DEF Arrived
<1>6. ASSUME NEW k \in Kinds, NEW d
      PROVE  /\ Before(k, d)' = Before(k, d)
             /\ Listed(k)' = Listed(k)
             /\ Start(k)' = Start(k)
             /\ Finish(k)' = Finish(k)
             /\ PageNumber(k)' = PageNumber(k)
  BY <1>2 DEF Before, Listed, Start, Finish, PageNumber
<1>7. Dues'
  <2>1. ASSUME NEW k \in Kinds, NEW e \in due'[k]
        PROVE  Standing(k, e) /\ (Before(k, e.doc) < Start(k) => Arrived(e))
    <3>1. CASE k = kind
      BY <2>1, <3>1, ReadCarries
    <3>2. CASE k # kind
      BY <1>1, <2>1, <3>2 DEF ReadPage, IInv, Dues, TypeOK
    <3> QED
      BY <3>1, <3>2
  <2> QED
    BY <1>2, <1>5, <1>6, <2>1 DEF Dues, Standing
<1>8. InHand'
  <2>1. next' \in {NoPage, PageNumber(kind) + 1}
    BY DEF ReadPage, NextPages
  <2>2. ASSUME NEW e \in due'[kind]
        PROVE  /\ next' = NoPage => Before(kind, e.doc) < Finish(kind)
               /\ Before(kind, e.doc) < Finish(kind) => Arrived(e) \/ Carried(e)'
    BY ReadCarries, LastPageEnds DEF Standing
  <2> QED
    BY <1>2, <1>5, <1>6, <2>1, <2>2 DEF InHand
<1>9. CompletedReadMissesNothing'
  BY <1>2, <1>5 DEF IInv, CompletedReadMissesNothing
<1> QED
  BY <1>1, <1>3, <1>4, <1>7, <1>8, <1>9 DEF IInv

(* What the two writes of a page put into the row of a document.            *)
LEMMA WriteValues ==
  ASSUME WritePage \/ WriteLines, NEW d \in Docs
  PROVE  /\ \/ stored'[d].rev = stored[d].rev
            \/ Held(d) /\ stored'[d].rev = RecordOf(d).rev
         /\ \/ lines'[d].rev = lines[d].rev /\ (lines'[d].known <=> lines[d].known)
            \/ /\ Held(d) /\ lines'[d].rev = RecordOf(d).rev
               /\ lines'[d].known <=> AccountOf[d] \in accounts
<1>1. CASE WritePage
  <2>1. lines' = lines
    BY <1>1 DEF WritePage
  <2>2. \/ stored'[d] = stored[d]
        \/ Held(d) /\ stored'[d].rev = RecordOf(d).rev
    BY <1>1 DEF WritePage
  <2> QED
    BY <2>1, <2>2
<1>2. CASE WriteLines
  <2>1. stored' = stored
    BY <1>2 DEF WriteLines
  <2>2. Held(d) => /\ lines'[d].rev = RecordOf(d).rev
                   /\ lines'[d].known <=> AccountOf[d] \in accounts
    BY <1>2 DEF WriteLines
  <2>3. ~Held(d) => lines'[d] = lines[d]
    BY <1>2 DEF WriteLines
  <2> QED
    BY <2>1, <2>2, <2>3
<1> QED
  BY <1>1, <1>2

(* What has arrived stays: a page never puts an older state over a newer.   *)
LEMMA ArrivedStays ==
  ASSUME IInv, WritePage \/ WriteLines, NEW e, e.doc \in Docs, e.rev \in Nat, Arrived(e)
  PROVE  Arrived(e)'
<1> DEFINE d == e.doc
<1>1. /\ stored[d].rev \in Nat /\ lines[d].rev \in Nat
      /\ lines[d].known => AccountOf[d] \in accounts
  BY DEF IInv, TypeOK, Revs, Documents, Lines
<1>2. ASSUME Held(d)
      PROVE  /\ RecordOf(d).rev \in Nat
             /\ stored[d].rev <= RecordOf(d).rev
             /\ lines[d].rev <= RecordOf(d).rev
  BY <1>2, RecordOfType DEF IInv, Records
<1> QED
  BY <1>1, <1>2, WriteValues DEF Arrived

(* The two writes touch nothing that Dues and InHand measure pages by.      *)
LEMMA WriteFacts ==
  ASSUME IInv, WritePage \/ WriteLines
  PROVE  /\ UNCHANGED <<ledger, place, changes, accounts, cursor, kind, page, next, due, kept>>
         /\ pc \in InHandPoints /\ pc' \in InHandPoints
  BY DEF WritePage, WriteLines, xero, InHandPoints

LEMMA WriteKeepsPages ==
  ASSUME IInv, WritePage \/ WriteLines
  PROVE  /\ UNCHANGED <<ledger, place, changes, accounts, cursor, kind, page, next, due, kept>>
         /\ \A k \in Kinds : \A d : /\ Before(k, d)' = Before(k, d)
                                    /\ Listed(k)' = Listed(k)
                                    /\ Start(k)' = Start(k)
                                    /\ Finish(k)' = Finish(k)
                                    /\ PageNumber(k)' = PageNumber(k)
         /\ kind \in Kinds /\ pc \in InHandPoints
         /\ \A k \in Kinds : \A e \in due[k] \cup kept[k] : e.doc \in Docs /\ e.rev \in Nat
<1>1. \A k \in Kinds : \A d : /\ Before(k, d)' = Before(k, d)
                              /\ Listed(k)' = Listed(k)
                              /\ Start(k)' = Start(k)
                              /\ Finish(k)' = Finish(k)
                              /\ PageNumber(k)' = PageNumber(k)
  BY WriteFacts DEF Before, Listed, Start, Finish, PageNumber
<1>2. \A k \in Kinds : \A e \in due[k] \cup kept[k] : e.doc \in Docs /\ e.rev \in Nat
  BY DEF IInv, TypeOK, Promises
<1> QED
  BY <1>1, <1>2, WriteFacts DEF IInv, TypeOK

LEMMA WriteStep ==
  ASSUME IInv, WritePage \/ WriteLines
  PROVE  IInv'
<1>1. TypeOK'
  BY SyncType DEF IInv, RefreshXero
<1>2. \A r, s \in page : r.doc = s.doc => r = s
  BY DEF IInv, Records
<1>3. \A r \in Survivors : r.doc \in Docs /\ Held(r.doc) /\ RecordOf(r.doc) = r
  <2>1. ASSUME NEW r \in Survivors
        PROVE  r.doc \in Docs /\ Held(r.doc) /\ r \in page
    BY DEF Held, Survivors, IInv, TypeOK
  <2> QED
    BY <1>2, <2>1, RecordOfType DEF IInv
<1>4. ASSUME NEW d \in Docs
      PROVE  stored'[d].rev <= ledger[d].rev /\ lines'[d].rev <= ledger[d].rev
  <2>1. Held(d) => RecordOf(d).rev <= ledger[d].rev
    BY RecordOfType DEF IInv, Records
  <2> QED
    BY <2>1, WriteValues DEF IInv, Revs
<1>5. Revs'
  <2>1. \A d \in Docs : lines'[d].known => AccountOf[d] \in accounts
    BY WriteValues DEF IInv, Revs
  <2> QED
    BY <1>4, <2>1, WriteFacts DEF IInv, Revs
<1>6. Records'
  <2>1. ASSUME NEW r \in page
        PROVE  stored'[r.doc].rev <= r.rev /\ lines'[r.doc].rev <= r.rev
    <3>1. r.doc \in Docs /\ r.rev \in Nat /\ stored[r.doc].rev <= r.rev /\ lines[r.doc].rev <= r.rev
      BY DEF IInv, TypeOK, Records
    <3>2. Held(r.doc) => RecordOf(r.doc) = r
      BY <1>2, RecordOfType DEF IInv
    <3> QED
      BY <3>1, <3>2, WriteValues
  <2> QED
    BY <2>1, WriteFacts DEF IInv, Records
<1>7. Written'
  <2>1. Survivors' = Survivors
    BY WriteFacts DEF Survivors
  <2>2. CASE WritePage
    <3>1. \A r \in Survivors : stored'[r.doc].rev = r.rev
      BY <1>3, <2>2 DEF WritePage
    <3>2. \A r \in Survivors : pc' = "advancing" => r.doc \notin Transactions
      BY <2>2, DocsAssumption DEF WritePage, IInv, TypeOK, Kinds, Records, Survivors, DocsOf
    <3> QED
      BY <2>1, <3>1, <3>2 DEF Written
  <2>3. CASE WriteLines
    <3>1. \A r \in Survivors : stored'[r.doc].rev = r.rev
      BY <2>3 DEF WriteLines, IInv, Written
    <3>2. \A r \in Survivors : /\ lines'[r.doc].rev = r.rev
                               /\ lines'[r.doc].known <=> AccountOf[r.doc] \in accounts
      BY <1>3, <2>3 DEF WriteLines
    <3> QED
      BY <2>1, <3>1, <3>2, WriteFacts DEF Written
  <2> QED
    BY <2>2, <2>3
<1>8. Dues'
  <2>1. ASSUME NEW k \in Kinds, NEW e \in due[k]
        PROVE  Standing(k, e)' /\ (Before(k, e.doc) < Start(k) => Arrived(e)')
    BY ArrivedStays, WriteKeepsPages DEF IInv, Dues, Standing
  <2> QED
    BY <2>1, WriteKeepsPages DEF Dues
<1>9. InHand'
  <2>1. ASSUME NEW e \in due[kind]
        PROVE  /\ next = NoPage => Before(kind, e.doc) < Finish(kind)
               /\ Before(kind, e.doc) < Finish(kind) => Arrived(e)' \/ Carried(e)
    BY ArrivedStays, WriteKeepsPages DEF IInv, InHand
  <2>2. ASSUME NEW e PROVE Carried(e)' <=> Carried(e)
    BY WriteFacts DEF Carried
  <2>3. next \in {NoPage, PageNumber(kind) + 1}
    BY WriteKeepsPages DEF IInv, InHand
  <2> QED
    BY <2>1, <2>2, <2>3, WriteKeepsPages DEF InHand
<1>10. CompletedReadMissesNothing'
  BY ArrivedStays, WriteKeepsPages DEF IInv, CompletedReadMissesNothing
<1> QED
  BY <1>1, <1>5, <1>6, <1>7, <1>8, <1>9, <1>10 DEF IInv

(* When the page is written, what it carries has arrived.                   *)
LEMMA PageHasArrived ==
  ASSUME IInv, pc = "advancing", NEW e \in due[kind], Before(kind, e.doc) < Finish(kind)
  PROVE  Arrived(e)
<1>1. CASE Carried(e)
  <2>1. e.doc \notin Dropped /\ e.rev \in Nat /\ (e.known => AccountOf[e.doc] \in accounts)
    BY DEF IInv, Dues, Standing, TypeOK, Promises
  <2>2. PICK r \in Survivors : r.doc = e.doc /\ e.rev <= r.rev
    BY <1>1, <2>1 DEF Carried, Survivors
  <2> QED
    BY <2>1, <2>2 DEF IInv, Written, Arrived
<1> QED
  BY <1>1 DEF IInv, InHand, InHandPoints

LEMMA AdvanceStep ==
  ASSUME IInv, Advance
  PROVE  IInv'
<1>1. TypeOK'
  BY SyncType DEF IInv, RefreshXero
<1>2. /\ UNCHANGED <<ledger, place, changes, accounts, stored, lines, due>>
      /\ pc = "advancing" /\ page' = {}
      /\ kind \in Kinds /\ cursor \in [Kinds -> Nat] /\ kept \in [Kinds -> SUBSET Promises]
      /\ due \in [Kinds -> SUBSET Promises]
  BY DEF Advance, Drop, xero, IInv, TypeOK
<1>3. pc' \notin InHandPoints
  BY AfterSyncType DEF Advance, Begin, InHandPoints
<1>4. Revs' /\ Records' /\ Written' /\ InHand'
  BY <1>2, <1>3 DEF IInv, Revs, Records, Written, InHand, Survivors
<1>5. ASSUME NEW e PROVE Arrived(e)' <=> Arrived(e)
  BY <1>2 DEF Arrived
<1>6. next \in {NoPage, PageNumber(kind) + 1} /\ PageNumber(kind) \in Nat \ {0}
  BY <1>2, PageNumberType DEF IInv, InHand, InHandPoints
<1>7. Dues'
  <2>1. ASSUME NEW k \in Kinds, NEW e \in due[k]
        PROVE  Standing(k, e)' /\ Before(k, e.doc)' = Before(k, e.doc) /\ Before(k, e.doc) \in Nat
    <3>1. Listed(k)' = Listed(k) /\ Before(k, e.doc)' = Before(k, e.doc)
      BY <1>2 DEF Listed, Before
    <3> QED
      BY <1>2, <3>1, BeforeType DEF IInv, Dues, Standing
  <2>2. ASSUME NEW k \in Kinds, NEW e \in due[k], Before(k, e.doc) < Start(k)'
        PROVE  Arrived(e)
    <3>1. CASE k # kind
      <4>1. Start(k)' = Start(k)
        BY <1>2, <3>1 DEF Advance, Start, PageNumber
      <4> QED
        BY <2>2, <4>1 DEF IInv, Dues
    <3>2. CASE k = kind /\ next = NoPage
      <4>1. PageNumber(k)' = 1
        BY <1>2, <3>2 DEF Advance, PageNumber
      <4>2. Start(k)' = 0
        BY <4>1, BoundsAssumption DEF Start
      <4> QED
        BY <2>1, <2>2, <4>2
    <3>3. CASE k = kind /\ next # NoPage
      <4>1. PageNumber(k)' = PageNumber(k) + 1
        BY <1>2, <1>6, <3>3 DEF Advance, PageNumber
      <4>2. Start(k)' = Finish(k)
        BY <1>6, <3>3, <4>1, BoundsAssumption DEF Start, Finish
      <4> QED
        BY <1>2, <2>2, <3>3, <4>2, PageHasArrived
    <3> QED
      BY <3>1, <3>2, <3>3
  <2> QED
    BY <1>2, <1>5, <2>1, <2>2 DEF Dues
<1>8. CompletedReadMissesNothing'
  <2>1. ASSUME NEW k \in Kinds, NEW e \in kept'[k]
        PROVE  Arrived(e)
    <3>1. CASE e \in kept[k]
      BY <3>1 DEF IInv, CompletedReadMissesNothing
    <3>2. CASE k = kind /\ next = NoPage /\ e \in due[kind]
      BY <1>2, <3>2, PageHasArrived DEF IInv, InHand, InHandPoints
    <3> QED
      BY <1>2, <2>1, <3>1, <3>2 DEF Advance
  <2> QED
    BY <1>5, <2>1 DEF CompletedReadMissesNothing
<1> QED
  BY <1>1, <1>4, <1>7, <1>8 DEF IInv

-----------------------------------------------------------------------------
LEMMA InitIInv ==
  ASSUME Init
  PROVE  IInv
<1>1. TypeOK
  BY InitType
<1>2. Revs
  BY DEF Init, Revs, Never
<1>3. Records /\ Written /\ Dues /\ InHand /\ CompletedReadMissesNothing
  BY DEF Init, Records, Written, Survivors, Dues, InHand, InHandPoints, CompletedReadMissesNothing
<1> QED
  BY <1>1, <1>2, <1>3 DEF IInv

LEMMA StepIInv ==
  ASSUME IInv, [Next]_vars
  PROVE  IInv'
<1>1. TypeOK'
  BY LedgerTypeStep DEF IInv
<1>2. CASE BeginRun
  <2>1. pc \notin InHandPoints /\ pc' \notin InHandPoints
    BY <1>2 DEF BeginRun, InHandPoints
  <2> QED
    BY <1>1, <1>2, <2>1, EmptyHandedStep DEF BeginRun, database, IInv, Records
<1>3. CASE SyncAccounts
  <2>1. pc \notin InHandPoints /\ pc' \notin InHandPoints
    BY <1>3 DEF SyncAccounts, Begin, InHandPoints
  <2> QED
    BY <1>1, <1>3, <2>1, EmptyHandedStep DEF SyncAccounts, IInv, Records
<1>4. CASE SyncFails \/ Crash
  <2>1. pc' \notin InHandPoints
    BY <1>4, AfterSyncType DEF SyncFails, Crash, Begin, End, InHandPoints
  <2> QED
    BY <1>1, <1>4, <2>1, EmptyHandedStep DEF SyncFails, Crash, Drop, database
<1>5. CASE UNCHANGED vars
  BY <1>5 DEF vars, xero, database, IInv, TypeOK, Revs, Records, Written, Survivors, Dues,
       Standing, Listed, Before, Start, Finish, PageNumber, Arrived, InHand, Carried,
       CompletedReadMissesNothing
<1> QED
  BY <1>2, <1>3, <1>4, <1>5, PeopleStep, ReadPageStep, WriteStep, AdvanceStep
  DEF Next, RefreshXero

(* A completed sync has read the whole list, however it was interrupted and *)
(* whatever was posted, edited or voided between its pages.                 *)
THEOREM CompletedReadIsWhole == Spec => []CompletedReadMissesNothing
<1>1. IInv => CompletedReadMissesNothing
  BY DEF IInv
<1> QED
  BY InitIInv, StepIInv, <1>1, PTL DEF Spec
=============================================================================
