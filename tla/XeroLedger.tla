------------------------------ MODULE XeroLedger ------------------------------
(***************************************************************************)
(* The nightly import of the Xero ledger: refreshXero (lib/connectors/     *)
(* pipeline.ts) reads the chart of accounts, then the bank transactions    *)
(* and the invoices page by page (xero/sync.ts), and upserts them          *)
(* (repositories/xero-repository.ts) while people post, edit and void      *)
(* documents in Xero.  Runs that overlap are SyncRuns' matter: here one    *)
(* runs at a time, and job keys and sync_runs are left out.                *)
(*                                                                         *)
(* The state of a document is told by `rev`, the number of the change that *)
(* made it.  Xero is external: it lists what a request asks for in an      *)
(* order of its own, in which a new document comes last and a changed one  *)
(* stays where it was or goes last.                                        *)
(***************************************************************************)
EXTENDS Integers, FiniteSets

CONSTANTS
  Transactions, Invoices,  \* the documents that may be posted
  Dropped,      \* undated documents, and credit notes among the invoices
  Accounts,     \* the chart of accounts
  AccountOf,    \* the account a document is coded to
  PageSize,     \* PAGE_SIZE
  MaxChanges,   \* bound: documents posted, edited or voided
  MaxFaults     \* bound: syncs that fail and processes that are killed

Docs == Transactions \cup Invoices

ASSUME DocsAssumption == /\ IsFiniteSet(Docs)
                         /\ Transactions \cap Invoices = {}
                         /\ Dropped \subseteq Docs
                         /\ AccountOf \in [Docs -> Accounts]
ASSUME BoundsAssumption == /\ PageSize \in Nat \ {0}
                           /\ MaxChanges \in Nat
                           /\ MaxFaults \in Nat

Kinds == {"bank_transactions", "invoices"}
DocsOf(k) == IF k = "invoices" THEN Invoices ELSE Transactions

NoPage == 0        \* cursor_value is null
Never == 0         \* rev of a document, or a row, that does not exist

Statuses == {"none", "AUTHORISED", "VOIDED"}
Documents == [status : Statuses, rev : Nat]
Lines == [rev : Nat, known : BOOLEAN]
Promises == [doc : Docs, rev : Nat, known : BOOLEAN]

VARIABLES
  ledger,    \* Xero's documents
  place,     \* where each stands in Xero's order
  changes,   \* how many changes there were
  accounts,  \* xero_accounts
  stored,    \* xero_bank_transactions and xero_invoices, by external id
  lines,     \* xero_bank_transaction_lines; known: their account resolved
  cursor,    \* sync_cursors.cursor_value, by resource
  pc, kind,  \* where the import is, and the resource it is at
  page,      \* the records of the page in hand
  next,      \* its nextCursor
  due,       \* history: what Xero listed when page one was read
  kept,      \* history: what was due when the last page had been written
  faults

xero == <<ledger, place, changes>>
database == <<accounts, stored, lines, cursor>>
vars == <<xero, database, pc, kind, page, next, due, kept, faults>>

ControlPoints == {"idle", "accounts", "reading", "writing", "lines", "advancing"}

TypeOK ==
  /\ ledger \in [Docs -> Documents]
  /\ place \in [Docs -> Nat]
  /\ changes \in Nat
  /\ accounts \subseteq Accounts
  /\ stored \in [Docs -> Documents]
  /\ lines \in [Docs -> Lines]
  /\ cursor \in [Kinds -> Nat]
  /\ pc \in ControlPoints
  /\ kind \in Kinds
  /\ page \subseteq [doc : Docs, status : Statuses, rev : Nat]
  /\ next \in Nat
  /\ due \in [Kinds -> SUBSET Promises]
  /\ kept \in [Kinds -> SUBSET Promises]
  /\ faults \in Nat

Init ==
  /\ ledger = [d \in Docs |-> [status |-> "none", rev |-> Never]]
  /\ place = [d \in Docs |-> 0]
  /\ changes = 0
  /\ accounts = {}
  /\ stored = [d \in Docs |-> [status |-> "none", rev |-> Never]]
  /\ lines = [d \in Docs |-> [rev |-> Never, known |-> FALSE]]
  /\ cursor = [k \in Kinds |-> NoPage]
  /\ pc = "idle"
  /\ kind = "bank_transactions"
  /\ page = {}
  /\ next = NoPage
  /\ due = [k \in Kinds |-> {}]
  /\ kept = [k \in Kinds |-> {}]
  /\ faults = 0

-----------------------------------------------------------------------------
(* Xero.  A request for bank transactions asks for the authorised ones, one *)
(* for invoices asks for all.  The modifiedSince of both is the previous    *)
(* page cursor, null or a page number, never a date: it bounds nothing.     *)

Listed(k) == {d \in DocsOf(k) : \/ ledger[d].status = "AUTHORISED"
                                \/ k = "invoices" /\ ledger[d].status = "VOIDED"}

Before(k, d) == Cardinality({e \in Listed(k) : place[e] < place[d]})

OnPage(k, p) == {d \in Listed(k) : /\ (p - 1) * PageSize <= Before(k, d)
                                   /\ Before(k, d) < p * PageSize}

(* pagination.pageCount is p or less; there are more, or as many, records   *)
(* than p pages hold; page p is empty.                                      *)
IsLast(k, p) == Cardinality(Listed(k)) <= p * PageSize
IsShort(k, p) == Cardinality(Listed(k)) < p * PageSize
IsEmpty(k, p) == Cardinality(Listed(k)) <= (p - 1) * PageSize

(* The documents of a kind that a change of d cannot move to another page.  *)
Undisturbed(k, d) == {e \in due[k] : place[e.doc] < place[d]}

Change(d, status) ==
  /\ changes < MaxChanges
  /\ changes' = changes + 1
  /\ ledger' = [ledger EXCEPT ![d] = [status |-> status, rev |-> changes + 1]]
  /\ UNCHANGED <<database, pc, kind, page, next, kept, faults>>

Stays == UNCHANGED <<place, due>>

Leaves(d) == due' = [k \in Kinds |-> IF d \in DocsOf(k) THEN Undisturbed(k, d) ELSE due[k]]

GoesLast(d) == /\ place' = [place EXCEPT ![d] = changes + 1]
               /\ Leaves(d)

Post(d) == /\ ledger[d].status = "none"
           /\ Change(d, "AUTHORISED")
           /\ place' = [place EXCEPT ![d] = changes + 1]
           /\ UNCHANGED due

Edit(d) == /\ ledger[d].status = "AUTHORISED"
           /\ Change(d, "AUTHORISED")
           /\ Stays \/ GoesLast(d)

VoidTransaction(d) == /\ d \in Transactions
                      /\ ledger[d].status = "AUTHORISED"
                      /\ Change(d, "VOIDED")
                      /\ Leaves(d)
                      /\ UNCHANGED place

VoidInvoice(d) == /\ d \in Invoices
                  /\ ledger[d].status = "AUTHORISED"
                  /\ Change(d, "VOIDED")
                  /\ Stays \/ GoesLast(d)

-----------------------------------------------------------------------------
(* refreshXero.  A sync that fails is recorded and the next one begins.     *)

BeginRun ==
  /\ pc = "idle"
  /\ pc' = "accounts"
  /\ UNCHANGED <<xero, database, kind, page, next, due, kept, faults>>

Begin(k) == kind' = k /\ pc' = "reading"
End == kind' = "bank_transactions" /\ pc' = "idle"

AfterSync == IF kind = "bank_transactions" THEN Begin("invoices")
             ELSE End

(* The accounts in Xero: those of every document there ever was.            *)
Chart == {AccountOf[d] : d \in {e \in Docs : ledger[e].status # "none"}}

(* buildXeroAccountsSyncJob: one page, read in full every time.             *)
SyncAccounts ==
  /\ pc = "accounts"
  /\ accounts' = accounts \cup Chart
  /\ Begin("bank_transactions")
  /\ UNCHANGED <<xero, stored, lines, cursor, page, next, due, kept, faults>>

PageNumber(k) == IF cursor[k] = NoPage THEN 1 ELSE cursor[k]

(* Faulty: pages on the records that survived normalisation.                *)
NextPagesOfSurvivors(k, p) ==
  {IF OnPage(k, p) \subseteq Dropped THEN NoPage
   ELSE IF last THEN NoPage ELSE p + 1 : last \in {IsLast(k, p), IsShort(k, p)}}

(* nextPage: by the page count where Xero sends one, by a short page where  *)
(* it does not.                                                             *)
NextPages(k, p) ==
  {IF IsEmpty(k, p) \/ last THEN NoPage ELSE p + 1 : last \in {IsLast(k, p), IsShort(k, p)}}

Promised(k) == {[doc |-> d, rev |-> ledger[d].rev, known |-> AccountOf[d] \in accounts] :
                  d \in Listed(k) \ Dropped}

(* fetchPage.  The records are as Xero has them now.                        *)
ReadPage ==
  LET p == PageNumber(kind) IN
  /\ pc = "reading"
  /\ page' = {[doc |-> d, status |-> ledger[d].status, rev |-> ledger[d].rev] :
                d \in OnPage(kind, p)}
  /\ next' \in NextPages(kind, p)
  /\ due' = IF p = 1 THEN [due EXCEPT ![kind] = Promised(kind)] ELSE due
  /\ pc' = "writing"
  /\ UNCHANGED <<xero, database, kind, kept, faults>>

Survivors == {r \in page : r.doc \notin Dropped}

Held(d) == \E r \in Survivors : r.doc = d
RecordOf(d) == CHOOSE r \in Survivors : r.doc = d

(* The upsert of the documents.                                             *)
WritePage ==
  /\ pc = "writing"
  /\ stored' = [d \in Docs |->
       IF Held(d) THEN [status |-> RecordOf(d).status, rev |-> RecordOf(d).rev] ELSE stored[d]]
  /\ pc' = IF kind = "bank_transactions" THEN "lines" ELSE "advancing"
  /\ UNCHANGED <<xero, accounts, lines, cursor, kind, page, next, due, kept, faults>>

(* persistBankTransactions then upserts their lines, in a second statement. *)
WriteLines ==
  /\ pc = "lines"
  /\ lines' = [d \in Docs |->
       IF Held(d) THEN [rev |-> RecordOf(d).rev, known |-> AccountOf[d] \in accounts] ELSE lines[d]]
  /\ pc' = "advancing"
  /\ UNCHANGED <<xero, accounts, stored, cursor, kind, page, next, due, kept, faults>>

(* The page in hand is done with.                                           *)
Drop == page' = {} /\ next' = NoPage

(* Faulty: keeps the cursor of the last page when there is no next one.     *)
AdvanceKeepsLast ==
  /\ pc = "advancing"
  /\ cursor' = [cursor EXCEPT ![kind] = IF next = NoPage THEN @ ELSE next]
  /\ IF next # NoPage THEN Begin(kind) /\ kept' = kept
     ELSE AfterSync /\ kept' = [kept EXCEPT ![kind] = due[kind]]
  /\ Drop
  /\ UNCHANGED <<xero, accounts, stored, lines, due, faults>>

(* setCursor; after the last page the sync is complete.                     *)
Advance ==
  /\ pc = "advancing"
  /\ cursor' = [cursor EXCEPT ![kind] = next]
  /\ IF next # NoPage THEN Begin(kind) /\ kept' = kept
     ELSE AfterSync /\ kept' = [kept EXCEPT ![kind] = due[kind]]
  /\ Drop
  /\ UNCHANGED <<xero, accounts, stored, lines, due, faults>>

Fault == faults < MaxFaults /\ faults' = faults + 1

SyncFails ==
  /\ pc # "idle"
  /\ Fault
  /\ IF pc = "accounts" THEN Begin("bank_transactions") ELSE AfterSync
  /\ Drop
  /\ UNCHANGED <<xero, database, due, kept>>

Crash ==
  /\ pc # "idle"
  /\ Fault
  /\ End
  /\ Drop
  /\ UNCHANGED <<xero, database, due, kept>>

-----------------------------------------------------------------------------
RefreshXero == \/ BeginRun \/ SyncAccounts
               \/ ReadPage \/ WritePage \/ WriteLines \/ Advance

Next == \/ \E d \in Docs : Post(d) \/ Edit(d) \/ VoidTransaction(d) \/ VoidInvoice(d)
        \/ RefreshXero \/ SyncFails \/ Crash

Spec == Init /\ [][Next]_vars

(* The cron starts a run every night and its awaits settle.                 *)
FairSpec == Spec /\ WF_vars(RefreshXero)
-----------------------------------------------------------------------------
(* Properties.                                                              *)

Arrived(e) ==
  /\ stored[e.doc].rev >= e.rev
  /\ e.doc \in Transactions => /\ lines[e.doc].rev >= e.rev
                               /\ e.known => lines[e.doc].known

(* A sync that completes has read the whole list: each document Xero listed *)
(* when page one was read is stored, lines and accounts included, at that   *)
(* state or a later one, although the pages were read one by one, resumed   *)
(* after crashes, while documents were posted and edited.  Only documents   *)
(* behind one that left its place in the meantime can have slipped.         *)
CompletedReadMissesNothing ==
  \A k \in Kinds : \A e \in kept[k] : Arrived(e)

UpToDate(d) ==
  /\ stored[d] = ledger[d]
  /\ d \in Transactions => lines[d] = [rev |-> ledger[d].rev, known |-> TRUE]

(* What slipped, was interrupted or was read before its account is made     *)
(* good by later runs: once people stop changing the ledger, everything it  *)
(* lists is in the database as it is in Xero, voided invoices included.     *)
StoredFollowsTheLedger ==
  \A k \in Kinds : \A d \in DocsOf(k) \ Dropped : <>[](d \in Listed(k) => UpToDate(d))

(* "VOIDED and DELETED transactions never moved money, and including them   *)
(* would put reversed costs into the P&L and phantom movements into the     *)
(* cash model" (xero/sync.ts): a transaction that is voided leaves what the *)
(* reports read, which is every stored one.                                 *)
VoidedIsTakenBack ==
  \A d \in Transactions :
    (ledger[d].status = "VOIDED") ~> (stored[d].status # "AUTHORISED")
=============================================================================
