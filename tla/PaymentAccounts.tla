---------------------------- MODULE PaymentAccounts ----------------------------
(***************************************************************************)
(* The merchant accounts of one restaurant: Mercado Pago is connected by   *)
(* OAuth, Transbank by a commerce code the administrator types.            *)
(* Administrators connect, pause, resume, prefer and disconnect them while *)
(* payments resolve the connected ones, renewing the tokens of Mercado     *)
(* Pago when they are about to expire.  Every call to Mercado Pago happens *)
(* between two statements on the database, outside of any transaction.     *)
(***************************************************************************)
EXTENDS Naturals, FiniteSets

CONSTANTS OAuthStates,     \* the connections an administrator may start
          AccountRequests, \* callbacks, token renewals and preference changes
          MaxPriority,     \* bound: how often a preferred account is chosen
          NoState

ASSUME NoStateAssumption == NoState \notin OAuthStates
ASSUME MaxPriorityAssumption == MaxPriority \in Nat

VARIABLES
    account,    \* the account of the restaurant at each provider
    oauthState, \* each authorization that was started
    exchanges,  \* how often the code of each authorization was exchanged
    accountReq  \* the requests under way, with what they read

accountsVars == <<account, oauthState, exchanges, accountReq>>

MP == "MERCADO_PAGO"
TBK == "TRANSBANK"
Providers == {MP, TBK}

AccountStatuses == {"NONE", "PENDING", "CONNECTED", "PAUSED", "ERROR", "DISCONNECTED"}

\* "credentials": the access token of Mercado Pago, the commerce code of Transbank.
AccountRecords == [status : AccountStatuses, credentials : BOOLEAN, refresh : BOOLEAN,
                   expiring : BOOLEAN, priority : Nat]
AccountSteps == {"idle", "found", "exchanging", "refreshing", "granted", "refused",
                 "preferring"}
AccountRequestRecords == [step : AccountSteps, state : OAuthStates \cup {NoState},
                          of : Providers, max : Nat]

NoAccount == [status |-> "NONE", credentials |-> FALSE, refresh |-> FALSE,
              expiring |-> FALSE, priority |-> 0]
IdleAccountRequest == [step |-> "idle", state |-> NoState, of |-> MP, max |-> 0]

AccountsInit ==
    /\ account = [p \in Providers |-> NoAccount]
    /\ oauthState = [s \in OAuthStates |-> "unused"]
    /\ exchanges = [s \in OAuthStates |-> 0]
    /\ accountReq = [r \in AccountRequests |-> IdleAccountRequest]

Exists(p) == account[p].status # "NONE"
AccountReqAt(r, step) == accountReq[r].step = step
AccountGoto(r, step) == accountReq' = [accountReq EXCEPT ![r].step = step]
AccountReqEnds(r) == accountReq' = [accountReq EXCEPT ![r] = IdleAccountRequest]

-----------------------------------------------------------------------------
(* Connecting Mercado Pago                                                 *)

\* One transaction: an existing account is left as it is.
StartConnection(s) ==
    /\ oauthState[s] = "unused"
    /\ oauthState' = [oauthState EXCEPT ![s] = "open"]
    /\ account' = IF Exists(MP) THEN account
                                ELSE [account EXCEPT ![MP].status = "PENDING"]
    /\ UNCHANGED <<exchanges, accountReq>>

\* PAYMENT_OAUTH_STATE_TTL_MS passes.
StateExpires(s) ==
    /\ oauthState[s] = "open"
    /\ oauthState' = [oauthState EXCEPT ![s] = "expired"]
    /\ UNCHANGED <<account, exchanges, accountReq>>

\* The browser comes back with a code; it may do so more than once.
FindState(r, s) ==
    /\ AccountReqAt(r, "idle")
    /\ oauthState[s] = "open"
    /\ accountReq' = [accountReq EXCEPT ![r] =
           [IdleAccountRequest EXCEPT !.step = "found", !.state = s]]
    /\ UNCHANGED <<account, oauthState, exchanges>>

\* Plausible regression: the row is updated whether it was consumed or not.
ConsumeAgain(r) ==
    /\ AccountReqAt(r, "found")
    /\ oauthState' = [oauthState EXCEPT ![accountReq[r].state] = "consumed"]
    /\ AccountGoto(r, "exchanging")
    /\ UNCHANGED <<account, exchanges>>

\* The update of a row whose consumedAt is still null: only one request counts 1.
ConsumeState(r) ==
    LET s == accountReq[r].state IN
    /\ AccountReqAt(r, "found")
    /\ IF oauthState[s] # "consumed"
       THEN /\ oauthState' = [oauthState EXCEPT ![s] = "consumed"]
            /\ AccountGoto(r, "exchanging")
       ELSE /\ AccountReqEnds(r)
            /\ UNCHANGED oauthState
    /\ UNCHANGED <<account, exchanges>>

\* Mercado Pago answers an exchange of the code.
ExchangeCode(r) ==
    /\ AccountReqAt(r, "exchanging")
    /\ exchanges' = [exchanges EXCEPT ![accountReq[r].state] = @ + 1]
    /\ \E answer \in {"granted", "refused"} : AccountGoto(r, answer)
    /\ UNCHANGED <<account, oauthState>>

\* upsertFromOAuthTokens: whatever the account has become in the meantime.  The
\* answer may hold no refresh token, and may be about to expire.
SaveTokens(r) ==
    /\ AccountReqAt(r, "granted")
    /\ \E refresh \in BOOLEAN, expiring \in BOOLEAN :
           account' = [account EXCEPT ![MP] =
               [@ EXCEPT !.status = "CONNECTED", !.credentials = TRUE,
                         !.refresh = refresh, !.expiring = expiring]]
    /\ AccountReqEnds(r)
    /\ UNCHANGED <<oauthState, exchanges>>

\* The status alone, over whatever another request has just written.
MarkError(r) ==
    /\ AccountReqAt(r, "refused")
    /\ account' = [account EXCEPT ![MP].status = "ERROR"]
    /\ AccountReqEnds(r)
    /\ UNCHANGED <<oauthState, exchanges>>

-----------------------------------------------------------------------------
(* Payments resolve the connected accounts                                 *)

\* ACCESS_TOKEN_REFRESH_THRESHOLD_MS before the access token expires.
TokensAge ==
    /\ account[MP].credentials /\ ~account[MP].expiring
    /\ account' = [account EXCEPT ![MP].expiring = TRUE]
    /\ UNCHANGED <<oauthState, exchanges, accountReq>>

NeedsRefresh == account[MP].credentials /\ account[MP].expiring

\* Nobody else is kept from renewing the same tokens.
ResolveAvailable(r) ==
    /\ AccountReqAt(r, "idle")
    /\ account[MP].status = "CONNECTED"
    /\ NeedsRefresh /\ account[MP].refresh
    /\ accountReq' = [accountReq EXCEPT ![r] =
           [IdleAccountRequest EXCEPT !.step = "refreshing"]]
    /\ UNCHANGED <<account, oauthState, exchanges>>

RefreshAccessToken(r) ==
    /\ AccountReqAt(r, "refreshing")
    /\ \E answer \in {"granted", "refused"} : AccountGoto(r, answer)
    /\ UNCHANGED <<account, oauthState, exchanges>>

-----------------------------------------------------------------------------
(* The administrator's operations; each is one conditional update          *)

ConnectTransbank ==
    /\ account' = [account EXCEPT ![TBK] =
           [@ EXCEPT !.status = "CONNECTED", !.credentials = TRUE]]
    /\ UNCHANGED <<oauthState, exchanges, accountReq>>

Disconnect(p) ==
    /\ Exists(p)
    /\ account' = [account EXCEPT ![p] =
           [@ EXCEPT !.status = "DISCONNECTED", !.credentials = FALSE,
                     !.refresh = FALSE, !.expiring = FALSE]]
    /\ UNCHANGED <<oauthState, exchanges, accountReq>>

Pause(p) ==
    /\ account[p].status = "CONNECTED"
    /\ account' = [account EXCEPT ![p].status = "PAUSED"]
    /\ UNCHANGED <<oauthState, exchanges, accountReq>>

Resume(p) ==
    /\ account[p].status = "PAUSED"
    /\ account' = [account EXCEPT ![p].status = "CONNECTED"]
    /\ UNCHANGED <<oauthState, exchanges, accountReq>>

\* setPreferred aggregates the priorities first and writes one more afterwards.
ReadPriorities(r, p) ==
    LET max == IF account[MP].priority > account[TBK].priority
               THEN account[MP].priority ELSE account[TBK].priority IN
    /\ AccountReqAt(r, "idle")
    /\ max < MaxPriority
    /\ accountReq' = [accountReq EXCEPT ![r] =
           [IdleAccountRequest EXCEPT !.step = "preferring", !.of = p, !.max = max]]
    /\ UNCHANGED <<account, oauthState, exchanges>>

SetPreferred(r) ==
    LET p == accountReq[r].of IN
    /\ AccountReqAt(r, "preferring")
    /\ account' = IF Exists(p) THEN [account EXCEPT ![p].priority = accountReq[r].max + 1]
                               ELSE account
    /\ AccountReqEnds(r)
    /\ UNCHANGED <<oauthState, exchanges>>

\* The process dies: what Mercado Pago granted is lost, a consumed state stays so.
AccountRequestDies(r) ==
    /\ ~AccountReqAt(r, "idle")
    /\ AccountReqEnds(r)
    /\ UNCHANGED <<account, oauthState, exchanges>>

AccountsNext ==
    \/ \E s \in OAuthStates : StartConnection(s) \/ StateExpires(s)
    \/ \E r \in AccountRequests, s \in OAuthStates : FindState(r, s)
    \/ \E r \in AccountRequests :
           \/ ConsumeState(r) \/ ExchangeCode(r) \/ SaveTokens(r) \/ MarkError(r)
           \/ ResolveAvailable(r) \/ RefreshAccessToken(r) \/ SetPreferred(r)
           \/ AccountRequestDies(r)
    \/ \E r \in AccountRequests, p \in Providers : ReadPriorities(r, p)
    \/ \E p \in Providers : Disconnect(p) \/ Pause(p) \/ Resume(p)
    \/ TokensAge \/ ConnectTransbank

AccountsSpec == AccountsInit /\ [][AccountsNext]_accountsVars

-----------------------------------------------------------------------------
(* Properties                                                              *)

\* Every variable of the merchant accounts keeps its type.
AccountsTypeOK ==
    /\ account \in [Providers -> AccountRecords]
    /\ oauthState \in [OAuthStates -> {"unused", "open", "expired", "consumed"}]
    /\ exchanges \in [OAuthStates -> Nat]
    /\ accountReq \in [AccountRequests -> AccountRequestRecords]

\* However often the browser delivers the callback of one authorization, and
\* however the requests overlap, its code is exchanged at most once.
ExchangedOnce == \A s \in OAuthStates : exchanges[s] <= 1

\* An account that payments may use, or would use once resumed, has credentials:
\* a renewal, a failure or a pause that ends after a disconnection cannot leave a
\* usable account without them.
CredentialsWhileUsable ==
    \A p \in Providers : account[p].status \in {"CONNECTED", "PAUSED"} => account[p].credentials
=============================================================================
