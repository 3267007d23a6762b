----------------------------- MODULE XeroTokens -----------------------------
(***************************************************************************)
(* The rotating Xero refresh token: currentAccessToken                     *)
(* (lib/connectors/xero/oauth.ts) over the Supabase token store            *)
(* (token-store.ts), called before every request by each process that      *)
(* talks to Xero (the cron, the Refresh button, the backfill script), and  *)
(* the reconnect script a human runs (scripts/register-xero-connection).   *)
(*                                                                         *)
(* A token is the serial number of the grant it came with, and stands for  *)
(* that grant's refresh token and access token.  Xero itself is external:  *)
(* a refresh token is single use, and its use makes the next one.          *)
(***************************************************************************)
EXTENDS Integers

CONSTANTS
  Processes,       \* processes with a Xero client
  Faults,          \* kinds of failure that may happen, see FaultKinds
  MaxTokenFaults,  \* bound: failures in one behaviour
  MaxTokens,       \* bound: grants Xero issues in one behaviour
  QuietReconnects  \* TRUE: a human reconnects only while no process runs

FaultKinds == {"callFails", "answerLost", "saveFails", "saveAnswerLost",
               "markLost", "crash", "revoked"}

ASSUME FaultsAssumption == Faults \subseteq FaultKinds /\ MaxTokenFaults \in Nat
ASSUME TokenBoundsAssumption == MaxTokens \in Nat /\ QuietReconnects \in BOOLEAN

NoToken == 0
FirstToken == 1   \* of the first authorisation

VARIABLES
  valid,      \* Xero: the refresh tokens it will still accept
  minted,     \* Xero: how many it has issued
  row,        \* integration_tokens: [token, fresh]
  connection, \* integration_connections.status
  doing, held, \* each process inside currentAccessToken
  inHand,     \* the grant of the access token each process last sent
  consent,    \* the grant the reconnect script holds, not stored yet
  recorded,   \* history: tokens the row has held
  tokenFaults \* failures so far

issued == <<valid, minted>>
tokenStore == <<row, connection, recorded>>
tokenVars == <<issued, tokenStore, doing, held, inHand, consent, tokenFaults>>

TokenPoints == {"off", "asking", "exchanging", "rejected", "saving", "between"}

TokensTypeOK ==
  /\ valid \subseteq Nat
  /\ minted \in Nat
  /\ row \in [token : Nat, fresh : BOOLEAN]
  /\ connection \in {"active", "needs_reauth"}
  /\ doing \in [Processes -> TokenPoints]
  /\ held \in [Processes -> Nat]
  /\ inHand \in [Processes -> Nat]
  /\ consent \in Nat
  /\ recorded \subseteq Nat
  /\ tokenFaults \in Nat

(* Just connected: the first grant is stored.                               *)
TokensInit ==
  /\ valid = {FirstToken} /\ minted = FirstToken
  /\ row = [token |-> FirstToken, fresh |-> TRUE]
  /\ connection = "active"
  /\ doing = [p \in Processes |-> "off"]
  /\ held = [p \in Processes |-> NoToken]
  /\ inHand = [p \in Processes |-> NoToken]
  /\ consent = NoToken
  /\ recorded = {FirstToken}
  /\ tokenFaults = 0

TokenFault(kind) == /\ kind \in Faults
                    /\ tokenFaults < MaxTokenFaults
                    /\ tokenFaults' = tokenFaults + 1

Turn(p, next) == doing' = [doing EXCEPT ![p] = next]

-----------------------------------------------------------------------------
(* A process starts only on an active connection, checks that once, and     *)
(* asks for an access token before each of its requests.                    *)

BeginXeroRun(p) ==
  /\ doing[p] = "off"
  /\ connection = "active"
  /\ Turn(p, "asking")
  /\ UNCHANGED <<issued, tokenStore, held, inHand, consent, tokenFaults>>

NextRequest(p) ==
  /\ doing[p] = "between"
  /\ Turn(p, "asking")
  /\ UNCHANGED <<issued, tokenStore, held, inHand, consent, tokenFaults>>

EndRun(p) ==
  /\ doing[p] = "between"
  /\ Turn(p, "off")
  /\ UNCHANGED <<issued, tokenStore, held, inHand, consent, tokenFaults>>

-----------------------------------------------------------------------------
(* currentAccessToken.                                                      *)

LoadFresh(p) ==
  /\ doing[p] = "asking"
  /\ row.fresh
  /\ inHand' = [inHand EXCEPT ![p] = row.token]
  /\ Turn(p, "between")
  /\ UNCHANGED <<issued, tokenStore, held, consent, tokenFaults>>

LoadExpired(p) ==
  /\ doing[p] = "asking"
  /\ ~row.fresh
  /\ held' = [held EXCEPT ![p] = row.token]
  /\ Turn(p, "exchanging")
  /\ UNCHANGED <<issued, tokenStore, inHand, consent, tokenFaults>>

Spend(token) == /\ minted < MaxTokens
                /\ minted' = minted + 1
                /\ valid' = (valid \ {token}) \cup {minted + 1}

(* Faulty: goes on with the refresh token it sent.                          *)
ExchangeKeepsOld(p) ==
  /\ doing[p] = "exchanging"
  /\ held[p] \in valid
  /\ Spend(held[p])
  /\ Turn(p, "saving")
  /\ UNCHANGED <<tokenStore, held, inHand, consent, tokenFaults>>

Exchange(p) ==
  /\ doing[p] = "exchanging"
  /\ held[p] \in valid
  /\ Spend(held[p])
  /\ held' = [held EXCEPT ![p] = minted + 1]
  /\ Turn(p, "saving")
  /\ UNCHANGED <<tokenStore, inHand, consent, tokenFaults>>

(* Faulty: takes a rejected refresh token for a transient failure.          *)
ExchangeRejectedAsTransient(p) ==
  /\ doing[p] = "exchanging"
  /\ held[p] \notin valid
  /\ Turn(p, "between")
  /\ UNCHANGED <<issued, tokenStore, held, inHand, consent, tokenFaults>>

(* invalid_grant: already used, or revoked.                                 *)
ExchangeRejected(p) ==
  /\ doing[p] = "exchanging"
  /\ held[p] \notin valid
  /\ Turn(p, "rejected")
  /\ UNCHANGED <<issued, tokenStore, held, inHand, consent, tokenFaults>>

(* Xero rotated the token but the answer never arrived, or could not be     *)
(* used.  fetchWithRetry sends the same refresh token again after a network *)
(* failure; otherwise the call throws with the connection left as it was.   *)
AnswerLost(p) ==
  /\ doing[p] = "exchanging"
  /\ held[p] \in valid
  /\ TokenFault("answerLost")
  /\ Spend(held[p])
  /\ \E next \in {"exchanging", "between"} : Turn(p, next)
  /\ UNCHANGED <<tokenStore, held, inHand, consent>>

(* Every attempt failed before Xero saw the request, or it is unavailable.  *)
CallFails(p) ==
  /\ doing[p] = "exchanging"
  /\ TokenFault("callFails")
  /\ Turn(p, "between")
  /\ UNCHANGED <<issued, tokenStore, held, inHand, consent>>

(* Best effort: losing the update changes nothing.                          *)
MarkNeedsReauth(p) ==
  /\ doing[p] = "rejected"
  /\ connection' = "needs_reauth"
  /\ Turn(p, "between")
  /\ UNCHANGED <<issued, row, recorded, held, inHand, consent, tokenFaults>>

MarkLost(p) ==
  /\ doing[p] = "rejected"
  /\ TokenFault("markLost")
  /\ Turn(p, "between")
  /\ UNCHANGED <<issued, tokenStore, held, inHand, consent>>

Store(token) == /\ row' = [token |-> token, fresh |-> TRUE]
                /\ recorded' = recorded \cup {token}

Save(p) ==
  /\ doing[p] = "saving"
  /\ Store(held[p])
  /\ inHand' = [inHand EXCEPT ![p] = held[p]]
  /\ Turn(p, "between")
  /\ UNCHANGED <<issued, connection, held, consent, tokenFaults>>

(* Faulty: logs the failed save and hands the access token out.             *)
SaveFailsSoftly(p) ==
  /\ doing[p] = "saving"
  /\ \/ TokenFault("saveFails") /\ UNCHANGED <<row, recorded>>
     \/ TokenFault("saveAnswerLost") /\ Store(held[p])
  /\ inHand' = [inHand EXCEPT ![p] = held[p]]
  /\ Turn(p, "between")
  /\ UNCHANGED <<issued, connection, held, consent>>

(* A save that throws fails the request; the update may have been applied.  *)
SaveFails(p) ==
  /\ doing[p] = "saving"
  /\ \/ TokenFault("saveFails") /\ UNCHANGED <<row, recorded>>
     \/ TokenFault("saveAnswerLost") /\ Store(held[p])
  /\ Turn(p, "between")
  /\ UNCHANGED <<issued, connection, held, inHand, consent>>

ProcessDies(p) ==
  /\ doing[p] # "off"
  /\ TokenFault("crash")
  /\ Turn(p, "off")
  /\ UNCHANGED <<issued, tokenStore, held, inHand, consent>>

-----------------------------------------------------------------------------
(* The access token reaches expiresAt less the skew.                        *)
ExpireAccess ==
  /\ row.fresh
  /\ row' = [row EXCEPT !.fresh = FALSE]
  /\ UNCHANGED <<issued, connection, recorded, doing, held, inHand, consent, tokenFaults>>

(* Disconnected in Xero, or unused for sixty days.                          *)
Revoke ==
  /\ TokenFault("revoked")
  /\ valid' = {}
  /\ UNCHANGED <<minted, tokenStore, doing, held, inHand, consent>>

(* The reconnect script: a human grants consent and the code is exchanged,  *)
(* then one transaction writes the status and the tokens.  It exits without *)
(* writing when the organisation to connect is not clear.                   *)
Authorise ==
  /\ consent = NoToken
  /\ QuietReconnects => \A p \in Processes : doing[p] = "off"
  /\ minted < MaxTokens
  /\ minted' = minted + 1
  /\ valid' = valid \cup {minted + 1}
  /\ consent' = minted + 1
  /\ UNCHANGED <<tokenStore, doing, held, inHand, tokenFaults>>

StoreAuthorisation ==
  /\ consent # NoToken
  /\ QuietReconnects => \A p \in Processes : doing[p] = "off"
  /\ Store(consent)
  /\ connection' = "active"
  /\ consent' = NoToken
  /\ UNCHANGED <<issued, doing, held, inHand, tokenFaults>>

DropAuthorisation ==
  /\ consent # NoToken
  /\ consent' = NoToken
  /\ UNCHANGED <<issued, tokenStore, doing, held, inHand, tokenFaults>>

-----------------------------------------------------------------------------
CurrentAccessToken(p) ==
  \/ LoadFresh(p) \/ LoadExpired(p)
  \/ Exchange(p) \/ ExchangeRejected(p) \/ AnswerLost(p) \/ CallFails(p)
  \/ MarkNeedsReauth(p) \/ MarkLost(p) \/ Save(p) \/ SaveFails(p)

Reconnect == Authorise \/ StoreAuthorisation \/ DropAuthorisation

TokensNext ==
  \/ \E p \in Processes : \/ BeginXeroRun(p) \/ NextRequest(p) \/ EndRun(p)
                          \/ CurrentAccessToken(p) \/ ProcessDies(p)
  \/ ExpireAccess \/ Revoke \/ Reconnect

TokensSpec == TokensInit /\ [][TokensNext]_tokenVars

(* The cron starts a run every day on an active connection, a run makes     *)
(* requests and its awaits settle, and access tokens expire.  Nothing       *)
(* promises that a human reconnects.                                        *)
FairTokensSpec ==
  /\ TokensSpec
  /\ \A p \in Processes : /\ WF_tokenVars(BeginXeroRun(p))
                          /\ WF_tokenVars(CurrentAccessToken(p))
                          /\ WF_tokenVars(NextRequest(p) \/ EndRun(p))
  /\ WF_tokenVars(ExpireAccess)
-----------------------------------------------------------------------------
(* Properties.                                                              *)

AboutToSave(p) == doing[p] = "saving" /\ held[p] \in valid

(* The connection is still usable: Xero accepts the stored refresh token,   *)
(* or its successor is on its way to the row.                               *)
Alive == row.token \in valid \/ \E p \in Processes : AboutToSave(p)

(* "A caller can never hold a token whose rotation has not been recorded"   *)
(* (oauth.ts, currentAccessToken): an access token used for a request came  *)
(* with a refresh token that reached the database, whatever fails.          *)
RotationIsRecordedBeforeUse ==
  \A p \in Processes : inHand[p] \in recorded \cup {NoToken}

(* Rotation loses no connection by itself: however processes that refresh   *)
(* at the same time and a human who reconnects interleave, a connection is  *)
(* lost only through a failure outside this code.                           *)
RotationKeepsTheConnection == tokenFaults = 0 => Alive

(* needs_reauth is the truth: the refresh token was rejected and only a     *)
(* human can reconnect (oauth.ts, XeroAuthError.needsReauth).  No process   *)
(* will be told to stay away from a connection that still works.            *)
NeedsReauthIsTrue == connection = "needs_reauth" => ~Alive

(* A connection that no longer works is reported, not retried in silence:   *)
(* it is marked needs_reauth, or was reconnected.                           *)
BrokenChainIsReported == ~Alive ~> (connection = "needs_reauth" \/ Alive)
=============================================================================
